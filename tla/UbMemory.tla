------------------------------ MODULE UbMemory ------------------------------
(***************************************************************************)
(* The unified buffer of a vector core: the cycle of the vector ports      *)
(* (UbBlocks) and, after it in the same tick, the service of the scalar    *)
(* and MTE ports (C220UbService).                                          *)
(*                                                                         *)
(* Absolute ticks are replaced by the age of a delay and by the time that  *)
(* is left to a response.                                                  *)
(***************************************************************************)
EXTENDS UbBlocks, FiniteSets, SequencesExt

CONSTANTS
  ServiceRequests,  \* ids of scalar and MTE requests
  VectorRequests,   \* ids of requests of the vector pipeline
  UbPortOf,         \* per request: its port
  UbBlocksOf,       \* per request: sequence of [bank, whole]
  UbResponseTicks,    \* per service port: response_ticks
  ScalarUsesVectorPorts

ServicePorts == <<"ScalarWrite", "ScalarRead", "MteWrite0", "MteWrite1", "MteRead">>
QueueCapacity == 2
IsWrite(p) == p \in {"ScalarWrite", "MteWrite0", "MteWrite1", "VectorWrite"}

ASSUME UbAssumption ==
  /\ \A r \in ServiceRequests : UbPortOf[r] \in ToSet(ServicePorts)
  /\ \A r \in VectorRequests : UbPortOf[r] \in ToSet(VectorPorts)
  /\ \A r \in ServiceRequests \cup VectorRequests :
       \A i \in DOMAIN UbBlocksOf[r] : UbBlocksOf[r][i].bank \in Nat
  /\ BankGroups \in Nat \ {0} /\ PartialWriteTicks \in Nat
  /\ UbResponseTicks \in [ToSet(ServicePorts) -> Nat] /\ ScalarUsesVectorPorts \in BOOLEAN

VARIABLES
  vector,     \* per vector port: blocks of the request in service, or <<>>
  inputs,     \* per service port: entries [id, new, blocks]
  ubResponses,  \* per service port: [id, wait]
  transport,  \* per service port: [id, new]
  ubReceived,   \* ports that ubReceived in this tick
  taken,      \* ports whose response was taken in this tick
  waiting,    \* requests that were not sent yet
  vectorBusy, \* activity of the vector ports in this tick
  ubPhase     \* "vector", then "service": the halves of a tick

ubVars == <<vector, inputs, ubResponses, transport, ubReceived, taken, waiting, vectorBusy, ubPhase>>

NoActivity == [banks |-> {}, triggered |-> FALSE]

UbInit ==
  /\ vector = [p \in ToSet(VectorPorts) |-> <<>>]
  /\ inputs = [p \in ToSet(ServicePorts) |-> <<>>]
  /\ ubResponses = inputs /\ transport = inputs
  /\ ubReceived = {} /\ taken = {}
  /\ waiting = ServiceRequests \cup VectorRequests
  /\ vectorBusy = NoActivity /\ ubPhase = "vector"

-----------------------------------------------------------------------------
(* The blocks of a request *)

\* build and receive: a partial write is one that leaves bytes of its block.
NewBlocks(r) ==
  [i \in DOMAIN UbBlocksOf[r] |->
     [bank |-> UbBlocksOf[r][i].bank, progress |-> "Waiting", age |-> 0,
      partial |-> IsWrite(UbPortOf[r]) /\ ~UbBlocksOf[r][i].whole]]

-----------------------------------------------------------------------------
(* Vector ports: arbitrate_with_destination *)

\* The vector pipeline offers a request to its port and keeps it there, in
\* every tick, until it is complete.
VectorIssue(r) ==
  /\ ubPhase = "vector"
  /\ r \in waiting \cap VectorRequests /\ vector[UbPortOf[r]] = <<>>
  /\ vector' = [vector EXCEPT ![UbPortOf[r]] = NewBlocks(r)]
  /\ waiting' = waiting \ {r}
  /\ UNCHANGED <<inputs, ubResponses, transport, ubReceived, taken, vectorBusy, ubPhase>>

VectorAdvance ==
  /\ ubPhase = "vector"
  /\ LET c == VectorCycle(vector)
     IN  /\ vector' = [p \in ToSet(VectorPorts) |->
                         IF IsComplete(c.ports[p]) THEN <<>> ELSE c.ports[p]]
         /\ vectorBusy' = [banks |-> c.busy,
                           triggered |-> \E p \in ToSet(VectorPorts) : vector[p] # <<>>]
  /\ ubPhase' = "service"
  /\ UNCHANGED <<inputs, ubResponses, transport, ubReceived, taken, waiting>>

-----------------------------------------------------------------------------
(* Service ports: receive, take_response *)

\* Faulty variant: The last port of the ring takes more than its queue holds.
ReceiveUnbounded(r) ==
  LET p == UbPortOf[r] IN
  /\ ubPhase = "service" /\ r \in waiting \cap ServiceRequests
  /\ inputs' = [inputs EXCEPT ![p] = Append(@, [id |-> r, new |-> TRUE, blocks |-> NewBlocks(r)])]
  /\ ubReceived' = ubReceived \cup {p} /\ waiting' = waiting \ {r}
  /\ UNCHANGED <<vector, ubResponses, transport, taken, vectorBusy, ubPhase>>

Receive(r) ==
  LET p == UbPortOf[r] IN
  /\ ubPhase = "service" /\ r \in waiting \cap ServiceRequests
  /\ p \notin ubReceived /\ Len(inputs[p]) < QueueCapacity
  /\ inputs' = [inputs EXCEPT ![p] = Append(@, [id |-> r, new |-> TRUE, blocks |-> NewBlocks(r)])]
  /\ ubReceived' = ubReceived \cup {p} /\ waiting' = waiting \ {r}
  /\ UNCHANGED <<vector, ubResponses, transport, taken, vectorBusy, ubPhase>>

CanTake(p) == ubPhase = "service" /\ p \notin taken /\ transport[p] # <<>> /\ ~transport[p][1].new
TakeResponse(p) ==
  /\ CanTake(p)
  /\ transport' = [transport EXCEPT ![p] = Tail(@)]
  /\ taken' = taken \cup {p}
  /\ UNCHANGED <<vector, inputs, ubResponses, ubReceived, waiting, vectorBusy, ubPhase>>

-----------------------------------------------------------------------------
(* Service: arbitrate, then send_responses *)

\* Waiting vector requests hold back the scalar ports if these share theirs.
ScalarBlocked(p) ==
  /\ ScalarUsesVectorPorts
  /\ \/ p = "ScalarWrite" /\ vector["VectorWrite"] # <<>>
     \/ p = "ScalarRead" /\ (vector["VectorRead0"] # <<>> \/ vector["VectorRead1"] # <<>>)

\* The head of a port is served when any head is ready, also when it is new.
ServicePort(c, p) ==
  IF c.inputs[p] = <<>> \/ ScalarBlocked(p) THEN c
  ELSE LET g == Grants(c.busy, {}, c.inputs[p][1].blocks, FALSE)
       IN  [busy |-> g.busy, inputs |-> [c.inputs EXCEPT ![p][1].blocks = g.blocks]]
ServiceCycle ==
  LET turn[k \in 0..5] == IF k = 0 THEN [busy |-> vectorBusy.banks, inputs |-> inputs]
                          ELSE ServicePort(turn[k - 1], ServicePorts[k])
      finish(queue) == IF queue = <<>> THEN queue
                       ELSE [queue EXCEPT ![1].blocks = Finished(@)]
  IN  [p \in ToSet(ServicePorts) |-> finish(turn[5].inputs[p])]
Triggered == vectorBusy.triggered \/ \E p \in ToSet(ServicePorts) : inputs[p] # <<>> /\ ~inputs[p][1].new

\* Responses after this arbitration: [inputs, ubResponses].
Arbitrated ==
  LET after == IF Triggered THEN ServiceCycle ELSE inputs
      done  == {p \in ToSet(ServicePorts) : Triggered /\ after[p] # <<>> /\ IsComplete(after[p][1].blocks)}
  IN  [inputs    |-> [p \in ToSet(ServicePorts) |-> IF p \in done THEN Tail(after[p]) ELSE after[p]],
       ubResponses |-> [p \in ToSet(ServicePorts) |->
                        IF p \in done
                          THEN Append(ubResponses[p], [id |-> after[p][1].id, wait |-> UbResponseTicks[p]])
                          ELSE ubResponses[p]]]

\* One ready response sends the head of every port, in the order of the
\* ports, up to the first whose transport is full.
Sent(queues) ==
  LET nonempty == {k \in 1..5 : queues[ServicePorts[k]] # <<>>}
      full == {k \in nonempty : Len(transport[ServicePorts[k]]) = QueueCapacity}
  IN  IF \A k \in nonempty : queues[ServicePorts[k]][1].wait > 0 THEN {}
      ELSE {ServicePorts[k] : k \in {n \in nonempty : \A f \in full : n < f}}

Passed(queue) == [i \in DOMAIN queue |-> [queue[i] EXCEPT !.wait = IF @ = 0 THEN 0 ELSE @ - 1]]
Seen(queue) == [i \in DOMAIN queue |-> [queue[i] EXCEPT !.new = FALSE]]
ServiceAdvance ==
  /\ ubPhase = "service"
  /\ LET a == Arbitrated
         sent == Sent(a.ubResponses)
     IN  /\ inputs' = [p \in ToSet(ServicePorts) |-> Seen(a.inputs[p])]
         /\ ubResponses' = [p \in ToSet(ServicePorts) |->
                            Passed(IF p \in sent THEN Tail(a.ubResponses[p]) ELSE a.ubResponses[p])]
         /\ transport' = [p \in ToSet(ServicePorts) |->
                            Seen(IF p \in sent
                                   THEN Append(transport[p], [id |-> a.ubResponses[p][1].id, new |-> TRUE])
                                   ELSE transport[p])]
  /\ ubReceived' = {} /\ taken' = {} /\ vectorBusy' = NoActivity /\ ubPhase' = "vector"
  /\ UNCHANGED <<vector, waiting>>

UbNext ==
  \/ VectorAdvance \/ ServiceAdvance
  \/ \E r \in VectorRequests : VectorIssue(r)
  \/ \E r \in ServiceRequests : Receive(r)
  \/ \E p \in ToSet(ServicePorts) : TakeResponse(p)

UbSpec == UbInit /\ [][UbNext]_ubVars
\* The clock runs and the clients take the ubResponses that are ready for them.
UbClock == ubPhase' = IF ubPhase = "vector" THEN "service" ELSE "vector"
UbFairness == /\ WF_ubPhase(UbClock)
              /\ \A p \in ToSet(ServicePorts) : SF_ubVars(TakeResponse(p))

-----------------------------------------------------------------------------
(* Properties *)

\* The two queues of a service port that have a capacity keep it, a block is
\* in a delay only while its request is a partial write.
UbTypeOK ==
  /\ \A p \in ToSet(ServicePorts) :
       /\ Len(inputs[p]) <= QueueCapacity /\ Len(transport[p]) <= QueueCapacity
       /\ \A i \in DOMAIN inputs[p] : i > 1 => ~IsComplete(inputs[p][i].blocks) \/ inputs[p][i].blocks = <<>>
       /\ \A i \in DOMAIN inputs[p] : \A k \in DOMAIN inputs[p][i].blocks :
            LET b == inputs[p][i].blocks[k] IN
              b.age \in 0..PartialWriteTicks /\ (b.progress = "ReadModifyWriteDelay" => b.partial)
  /\ waiting \subseteq ServiceRequests \cup VectorRequests

\* Nothing is starved or lost: with finitely many vector requests, every
\* request that a port receives is answered and its response is taken,
\* although one full transport holds back the ubResponses of later ports.
UbIdle ==
  \A p \in ToSet(ServicePorts) : inputs[p] = <<>> /\ ubResponses[p] = <<>> /\ transport[p] = <<>>
UbServed == []<>UbIdle
=============================================================================
