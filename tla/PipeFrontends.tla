--------------------------- MODULE PipeFrontends ---------------------------
(***************************************************************************)
(* The instruction frontends of a C220 core and the ordinary pipeline      *)
(* events that order them.                                                 *)
(*                                                                         *)
(* The scalar unit issues the program in order and gives each instruction  *)
(* the next id.  An instruction of one of the six execution pipes waits in *)
(* that pipe's issue queue, is received by the command scheduler, is       *)
(* dispatched to the engine, and retires.  SET_FLAG and WAIT_FLAG complete *)
(* at reception: a set is published at once, or deferred until the command *)
(* it follows retires; a wait takes one published event.  PIPE_BARRIER     *)
(* occupies no queue slot; it holds back the reception of younger          *)
(* instructions.                                                           *)
(*                                                                         *)
(* Ticks are left out.  A ready tick only delays a step, so here each step *)
(* may be taken at any later time: the interleavings include those of      *)
(* every timing configuration.  A queue whose entries carry strictly       *)
(* increasing ids is a set, its front the entry with the least id.  Stalls *)
(* change nothing and are not steps.                                       *)
(*                                                                         *)
(* The Cube engine receives and dispatches in one call.  Its `active' slot *)
(* is its command queue here, of depth one: only a hardware flag that has  *)
(* to wait is ever left in it.                                             *)
(*                                                                         *)
(* A few definitions, such as RetiredNewest, are faulty variants of the    *)
(* one that follows them: mutations that a property is checked to notice.  *)
(***************************************************************************)
EXTENDS Integers, Sequences, FiniteSets, FiniteSetsExt, SequencesExt

CONSTANTS
  Pipes,             \* the execution pipes in use
  Words,             \* the instructions the program may contain
  IssueDepth,        \* per pipe: issue_queue_depth
  CommandDepth,      \* per pipe: 3, or reception_ticks + 1 for Vector, 1 for Cube
  OutstandingLimit,  \* per pipe: outstanding_limit
  MaxId              \* bound on instruction ids

Scalar == 0
Vector == 1
Cube   == 2
Mte1   == 3
Mte2   == 4
Mte3   == 5
Fix    == 10

None == -1
Ids  == 0..MaxId

Flags == {"set", "wait"}
Kinds == Flags \cup {"command", "spr", "cross", "hflag", "empty",
                     "barrier", "barrier_all", "read_spr", "end"}

\* A decoded instruction.  Only flags have a route (source, destination) and
\* a flag id; a set is executed by its source pipe, a wait by its destination.
Word == [pipe : Pipes \cup {Scalar}, kind : Kinds,
         route : (Pipes \cup {Scalar}) \X (Pipes \cup {Scalar}), flag : Nat]

Entry   == [id : Ids, word : Word]
Event   == [id : Ids, route : (Pipes \cup {Scalar}) \X (Pipes \cup {Scalar}), flag : Nat]
Barrier == [id : Ids, predecessor : Ids, requiresIdle : BOOLEAN]

ASSUME PipesAssumption == Pipes \subseteq {Vector, Cube, Mte1, Mte2, Mte3, Fix}
ASSUME WordsAssumption ==
  /\ Words \subseteq Word
  /\ \A w \in Words :
       /\ w.kind = "set"  => w.route[1] = w.pipe
       /\ w.kind = "wait" => w.route[2] = w.pipe
       /\ w.kind = "spr"  => w.pipe = Cube \/ (w.pipe = Mte1 /\ Mte2 \in Pipes)
       /\ w.kind \in {"hflag", "empty"} => w.pipe = Cube
       /\ w.kind \in {"command", "barrier"} => w.pipe \in Pipes
       /\ w.kind = "cross" => w.pipe \in Pipes
       /\ w.kind = "read_spr" => w.pipe \in {Vector, Mte1} \cap Pipes
       /\ w.kind \in {"barrier_all", "end"} => w.pipe = Scalar
ASSUME DepthAssumption ==
  /\ IssueDepth \in [Pipes -> Nat \ {0}]
  /\ CommandDepth \in [Pipes -> Nat \ {0}]
  /\ Cube \in Pipes => CommandDepth[Cube] = 1
  /\ OutstandingLimit \in [Pipes -> Nat \ {0}]
  /\ MaxId \in Nat

VARIABLES
  nextId,        \* next_instruction_id
  issued,        \* per pipe: accepted, not yet received instructions
  commands,      \* per pipe: ids of received, not yet dispatched commands
  running,       \* per pipe: ids of dispatched, not yet retired commands
  barriers,      \* per pipe: pending barriers
  lastAccepted,  \* per pipe: last_accepted (last_issued for FIX)
  lastReceived,  \* per pipe: last_received (not kept by MTE1)
  deferred,      \* <<source pipe, predecessor>> -> deferred events
  ready,         \* published events, oldest publication first
  termination,   \* C220Termination
  completed,     \* history: completed barriers, as [pipe, id, waited]
  drained        \* history, per pipe: last id that found the pipe drained

frontend == <<issued, commands, running, barriers, lastAccepted, lastReceived>>
events   == <<deferred, ready>>
history  == <<completed, drained>>
vars     == <<nextId, frontend, events, termination, history>>

-----------------------------------------------------------------------------
Oldest(S) == CHOOSE e \in S : \A f \in S : e.id <= f.id
IdsOf(S)  == {e.id : e \in S}

\* Commands between reception and retirement.
Outstanding(p) == commands[p] \cup running[p]

\* The instructions that make <pipe>_instruction_pending true.
Pending(p) == IdsOf(issued[p]) \cup Outstanding(p)

Init ==
  /\ nextId = 0
  /\ issued = [p \in Pipes |-> {}]
  /\ commands = [p \in Pipes |-> {}]
  /\ running = [p \in Pipes |-> {}]
  /\ barriers = [p \in Pipes |-> {}]
  /\ lastAccepted = [p \in Pipes |-> None]
  /\ lastReceived = [p \in Pipes |-> None]
  /\ deferred = [k \in Pipes \X Ids |-> <<>>]
  /\ ready = <<>>
  /\ termination = "running"
  /\ completed = {}
  /\ drained = [p \in Pipes |-> None]

-----------------------------------------------------------------------------
(* Pipeline events *)

\* The position of the oldest published event a wait can take, 0 if none.
Matching(w) ==
  LET M == {i \in DOMAIN ready : ready[i].route = w.route /\ ready[i].flag = w.flag}
  IN  IF M = {} THEN 0 ELSE CHOOSE i \in M : \A j \in M : i <= j

Consume(w) == ready' = RemoveAt(ready, Matching(w))

EventOf(e) == [id |-> e.id, route |-> e.word.route, flag |-> e.word.flag]

\* set: deferred behind the predecessor, or published when there is none.
SetEvent(p, e, predecessor) ==
  IF predecessor = None
    THEN ready' = Append(ready, EventOf(e)) /\ UNCHANGED deferred
    ELSE /\ deferred' = [deferred EXCEPT ![<<p, predecessor>>] = Append(@, EventOf(e))]
         /\ UNCHANGED ready

KeepDeferred(p, id) == UNCHANGED events

PublishNewestFirst(p, id) ==
  /\ ready' = ready \o Reverse(deferred[<<p, id>>])
  /\ deferred' = [deferred EXCEPT ![<<p, id>>] = <<>>]

\* retire: everything deferred behind the retired instruction is published.
PublishDeferred(p, id) ==
  /\ ready' = ready \o deferred[<<p, id>>]
  /\ deferred' = [deferred EXCEPT ![<<p, id>>] = <<>>]

DeferredFrom(p) == \E id \in Ids : deferred[<<p, id>>] # <<>>

-----------------------------------------------------------------------------
(* Barriers *)

\* release_<pipe>_barriers_at, for pending instructions `pend' of which `out'
\* are outstanding: barriers leave from the front up to the first blocked one.
ReleaseIgnoringIdle(p, pend, out) ==
  LET Blocked(b) == b.predecessor \in pend
  IN  {b \in barriers[p] : \E a \in barriers[p] : a.id <= b.id /\ Blocked(a)}

KeptBarriers(p, pend, out) ==
  LET Blocked(b) == b.predecessor \in pend \/ (b.requiresIdle /\ out # {})
  IN  {b \in barriers[p] : \E a \in barriers[p] : a.id <= b.id /\ Blocked(a)}

Release(p, pend, out) ==
  /\ barriers' = [barriers EXCEPT ![p] = KeptBarriers(p, pend, out)]
  /\ completed' = completed \cup
       {[pipe |-> p, id |-> b.id, waited |-> TRUE] :
          b \in barriers[p] \ KeptBarriers(p, pend, out)}

\* A barrier keeps back every instruction younger than its predecessor.  The
\* FIX frontend first releases what it can.
BarrierAhead(p, id) ==
  \E b \in IF p = Fix THEN KeptBarriers(p, Pending(p), Outstanding(p)) ELSE barriers[p] :
    b.predecessor < id

-----------------------------------------------------------------------------
(* The scalar unit: acceptance *)

HasRoom(p) == Cardinality(issued[p]) < IssueDepth[p]

CanIssue == termination = "running" /\ nextId < MaxId

QueuedKinds == Flags \cup {"command", "spr", "cross", "hflag", "empty"}

EnqueueCheckingOne(w, P) ==
  /\ CanIssue /\ w.kind \in QueuedKinds
  /\ HasRoom(w.pipe)
  /\ issued' = [p \in Pipes |-> IF p \in P
                  THEN issued[p] \cup {[id |-> nextId, word |-> w]} ELSE issued[p]]
  /\ lastAccepted' = [p \in Pipes |-> IF p \in P THEN nextId ELSE lastAccepted[p]]
  /\ nextId' = nextId + 1
  /\ UNCHANGED <<commands, running, barriers, lastReceived, events, termination, history>>

\* The instruction enters the issue queues of the pipes P under one id.
Enqueue(w, P) ==
  /\ CanIssue /\ w.kind \in QueuedKinds
  /\ \A p \in P : HasRoom(p)
  /\ issued' = [p \in Pipes |-> IF p \in P
                  THEN issued[p] \cup {[id |-> nextId, word |-> w]} ELSE issued[p]]
  /\ lastAccepted' = [p \in Pipes |-> IF p \in P THEN nextId ELSE lastAccepted[p]]
  /\ nextId' = nextId + 1
  /\ UNCHANGED <<commands, running, barriers, lastReceived, events, termination, history>>

\* An SPR write through MTE1 to SPR 13 or 15 also enters the MTE2 queue.
AcceptMte1(w) ==
  w.pipe = Mte1 /\ Enqueue(w, IF w.kind = "spr" THEN {Mte1, Mte2} ELSE {Mte1})
AcceptMte2(w)   == w.pipe = Mte2 /\ Enqueue(w, {Mte2})
AcceptMte3(w)   == w.pipe = Mte3 /\ Enqueue(w, {Mte3})
AcceptCube(w)   == w.pipe = Cube /\ Enqueue(w, {Cube})
AcceptFixp(w)   == w.pipe = Fix /\ Enqueue(w, {Fix})
AcceptVector(w) == w.pipe = Vector /\ w.kind # "cross" /\ Enqueue(w, {Vector})

\* requires_idle: the last queued instruction is a flag.
LastQueuedIsFlag(p) ==
  \E e \in issued[p] : e.word.kind \in Flags /\ \A f \in issued[p] : f.id <= e.id

IssueBarrier(w, p) ==
  LET pending == lastAccepted[p] \in Pending(p)
  IN  /\ CanIssue /\ w.kind = "barrier" /\ HasRoom(p)
      /\ barriers' = IF pending
           THEN [barriers EXCEPT ![p] = @ \cup
                  {[id |-> nextId, predecessor |-> lastAccepted[p],
                    requiresIdle |-> LastQueuedIsFlag(p)]}]
           ELSE barriers
      /\ completed' = IF pending THEN completed
           ELSE completed \cup {[pipe |-> p, id |-> nextId, waited |-> FALSE]}
      /\ nextId' = nextId + 1
      /\ UNCHANGED <<issued, commands, running, lastAccepted, lastReceived,
                     events, termination, drained>>

IssueMte1Barrier(w)   == w.pipe = Mte1 /\ IssueBarrier(w, Mte1)
IssueMte2Barrier(w)   == w.pipe = Mte2 /\ IssueBarrier(w, Mte2)
IssueMte3Barrier(w)   == w.pipe = Mte3 /\ IssueBarrier(w, Mte3)
IssueCubeBarrier(w)   == w.pipe = Cube /\ IssueBarrier(w, Cube)
IssueFixpBarrier(w)   == w.pipe = Fix /\ IssueBarrier(w, Fix)
IssueVectorBarrier(w) == w.pipe = Vector /\ IssueBarrier(w, Vector)

\* The scalar pipe's own flags.  A set also waits for the scalar and load/store
\* units, which are not modelled: it may be delayed arbitrarily.
ScalarSet(w) ==
  /\ CanIssue /\ w.kind = "set" /\ w.pipe = Scalar
  /\ SetEvent(Scalar, [id |-> nextId, word |-> w], None)
  /\ nextId' = nextId + 1
  /\ UNCHANGED <<frontend, termination, history>>

ScalarWait(w) ==
  /\ CanIssue /\ w.kind = "wait" /\ w.pipe = Scalar
  /\ Matching(w) # 0
  /\ Consume(w)
  /\ nextId' = nextId + 1
  /\ UNCHANGED <<frontend, deferred, termination, history>>

Active(p) == Pending(p) # {} \/ barriers[p] # {}

\* barrier_all_blocker
BarrierAllBlocker == \E p \in Pipes : Active(p) \/ DeferredFrom(p)

Observe(P) ==
  /\ drained' = [p \in Pipes |-> IF p \in P THEN nextId ELSE drained[p]]
  /\ nextId' = nextId + 1
  /\ UNCHANGED <<frontend, events, termination, completed>>

\* BAR.ALL, and writes of SPR 2 and 48 to 51.
IssueBarrierAll(w) ==
  /\ CanIssue /\ w.kind = "barrier_all" /\ ~ BarrierAllBlocker
  /\ Observe(Pipes)

\* Reads of the SPRs that Vector and MTE1 instructions write.
ReadSpr(w) ==
  /\ CanIssue /\ w.kind = "read_spr"
  /\ ~ Active(w.pipe) /\ ~ DeferredFrom(w.pipe)
  /\ Observe({w.pipe})

\* Vector's pending_drain_tick: neither barriers nor deferred events count.
VectorExecuted == Outstanding(Vector) = {}
VectorDrained  == Pending(Vector) = {}

\* A cross-core notification on pipe 1 is sent by the scalar unit.
SendVectorCrossCore(w) ==
  /\ CanIssue /\ w.kind = "cross" /\ w.pipe = Vector
  /\ VectorDrained
  /\ Observe({Vector})

\* END starts the drain; a periodic check completes it.
BeginTermination(w) ==
  /\ CanIssue /\ w.kind = "end"
  /\ termination' = "draining"
  /\ nextId' = nextId + 1
  /\ UNCHANGED <<frontend, events, history>>

AdvanceTermination ==
  /\ termination = "draining"
  /\ ~ \E p \in Pipes : Active(p) \/ DeferredFrom(p)
  /\ termination' = "complete"
  /\ UNCHANGED <<nextId, frontend, events, history>>

-----------------------------------------------------------------------------
(* Reception.  The FIX frontend releases barriers before it looks at the     *)
(* front of its queue, the others after they have received it.               *)

\* Cube also receives an SPR write only when nothing is running.
NeedsIdle(p, w) == w.kind = "cross" \/ (w.kind = "spr" /\ p = Cube)

RoomToReceive(p) ==
  /\ Cardinality(commands[p]) < CommandDepth[p]
  /\ Cardinality(Outstanding(p)) < OutstandingLimit[p]

Receivable(p, e) ==
  /\ RoomToReceive(p)
  /\ ~ BarrierAhead(p, e.id)
  /\ NeedsIdle(p, e.word) => Outstanding(p) = {}
  /\ e.word.kind = "wait" => Matching(e.word) # 0

\* What every reception does to the issue queue.
Dequeue(p, e) ==
  /\ issued[p] # {}
  /\ e = Oldest(issued[p])
  /\ Receivable(p, e)
  /\ issued' = [issued EXCEPT ![p] = @ \ {e}]
  /\ UNCHANGED <<nextId, lastAccepted, termination, drained>>

\* The pending instructions once e is received and has completed.
PendingWithout(p, e) == IdsOf(issued[p] \ {e}) \cup Outstanding(p)

OldestOf(p) == IF Outstanding(p) # {} THEN Min(Outstanding(p)) ELSE None

BackOf(p) == IF commands[p] # {} THEN Max(commands[p])
             ELSE IF running[p] # {} THEN Max(running[p]) ELSE None

\* The command a set is deferred behind.
Predecessor(p) ==
  IF p = Mte1 THEN BackOf(p)
  ELSE IF Outstanding(p) # {} THEN lastReceived[p] ELSE None

ReceiveSet(p) ==
  \E e \in issued[p] :
    /\ e.word.kind = "set"
    /\ Dequeue(p, e)
    /\ SetEvent(p, e, Predecessor(p))
    /\ Release(p, PendingWithout(p, e), Outstanding(p))
    /\ UNCHANGED <<commands, running, lastReceived>>

ReceiveWait(p) ==
  \E e \in issued[p] :
    /\ e.word.kind = "wait"
    /\ Dequeue(p, e)
    /\ Consume(e.word)
    /\ Release(p, PendingWithout(p, e), Outstanding(p))
    /\ UNCHANGED <<commands, running, lastReceived, deferred>>

\* last_received is not kept by MTE1.
Remember(p, id) ==
  lastReceived' = IF p = Mte1 THEN lastReceived ELSE [lastReceived EXCEPT ![p] = id]

ReceiveCommand(p) ==
  \E e \in issued[p] :
    /\ p # Cube /\ e.word.kind \notin Flags
    /\ Dequeue(p, e)
    /\ commands' = [commands EXCEPT ![p] = @ \cup {e.id}]
    /\ Remember(p, e.id)
    /\ Release(p, Pending(p), IF p = Fix THEN Outstanding(p) ELSE Outstanding(p) \cup {e.id})
    /\ UNCHANGED <<running, events>>

Receive(p) == ReceiveSet(p) \/ ReceiveWait(p) \/ ReceiveCommand(p)

TransferMte1Issue     == Mte1 \in Pipes /\ Receive(Mte1)
TransferMte2Issue     == Mte2 \in Pipes /\ Receive(Mte2)
TransferMte3Issue     == Mte3 \in Pipes /\ Receive(Mte3)
TransferFixpIssue     == Fix \in Pipes /\ Receive(Fix)
AdvanceVectorFrontend == Vector \in Pipes /\ Receive(Vector)

\* Cube: an ordinary flag.
DispatchCubeFlag == ReceiveSet(Cube) \/ ReceiveWait(Cube)

\* Cube: an MMAD starts to run.
ReceiveMmad ==
  \E e \in issued[Cube] :
    /\ e.word.kind = "command"
    /\ Dequeue(Cube, e)
    /\ running' = [running EXCEPT ![Cube] = @ \cup {e.id}]
    /\ Remember(Cube, e.id)
    /\ Release(Cube, Pending(Cube), Outstanding(Cube) \cup {e.id})
    /\ UNCHANGED <<commands, events>>

\* Cube: control completes within the call.  So does an MMAD without work: its
\* retire tick is its accept tick, and the call advances the pipeline to it.
ReceiveControl ==
  \E e \in issued[Cube] :
    /\ e.word.kind \in {"spr", "cross", "hflag", "empty"}
    /\ Dequeue(Cube, e)
    /\ Remember(Cube, e.id)
    /\ Release(Cube, PendingWithout(Cube, e), Outstanding(Cube))
    /\ UNCHANGED <<commands, running, events>>

\* Cube: a hardware flag that has to wait stays in the active slot.
ReceiveBlockedFlag ==
  \E e \in issued[Cube] :
    /\ e.word.kind = "hflag"
    /\ Dequeue(Cube, e)
    /\ commands' = [commands EXCEPT ![Cube] = {e.id}]
    /\ Remember(Cube, e.id)
    /\ UNCHANGED <<running, barriers, completed, events>>

\* dispatch_cube_head_at with an active hardware flag that is granted now.
FinishActiveFlag ==
  /\ commands[Cube] # {}
  /\ commands' = [commands EXCEPT ![Cube] = {}]
  /\ Release(Cube, IdsOf(issued[Cube]) \cup running[Cube], running[Cube])
  /\ UNCHANGED <<nextId, issued, running, lastAccepted, lastReceived, events,
                 termination, drained>>

-----------------------------------------------------------------------------
(* Dispatch and retirement *)

\* The engine takes the front of the command queue when it has the resources.
Dispatch(p) ==
  /\ p # Cube /\ commands[p] # {}
  /\ LET id == Min(commands[p]) IN
       /\ commands' = [commands EXCEPT ![p] = @ \ {id}]
       /\ running' = [running EXCEPT ![p] = @ \cup {id}]
  /\ UNCHANGED <<nextId, issued, barriers, lastAccepted, lastReceived, events,
                 termination, history>>

RetiredNewest(p) == Max(running[p])

\* Every engine retires from the front; only an MMAD without work overtakes.
Retired(p) == Min(running[p])

\* The retirement is published, then barriers are released.  FIX leaves that
\* to the end of the tick (ReleaseFixBarriers) or to its next reception.
Retire(p) ==
  /\ running[p] # {}
  /\ LET id == Retired(p)
         out == Outstanding(p) \ {id}
     IN  /\ running' = [running EXCEPT ![p] = @ \ {id}]
         /\ PublishDeferred(p, id)
         /\ IF p = Fix THEN UNCHANGED <<barriers, completed>>
                       ELSE Release(p, IdsOf(issued[p]) \cup out, out)
  /\ UNCHANGED <<nextId, issued, commands, lastAccepted, lastReceived,
                 termination, drained>>

ReleaseFixBarriers ==
  /\ Fix \in Pipes
  /\ barriers[Fix] # KeptBarriers(Fix, Pending(Fix), Outstanding(Fix))
  /\ Release(Fix, Pending(Fix), Outstanding(Fix))
  /\ UNCHANGED <<nextId, issued, commands, running, lastAccepted, lastReceived,
                 events, termination, drained>>

DispatchMte1Head == Mte1 \in Pipes /\ Dispatch(Mte1)
DispatchMte2Head == Mte2 \in Pipes /\ Dispatch(Mte2)
DispatchMte3Head == Mte3 \in Pipes /\ Dispatch(Mte3)
DispatchFixpHead == Fix \in Pipes /\ Dispatch(Fix)
DispatchVector   == Vector \in Pipes /\ Dispatch(Vector)

RetireMte1   == Mte1 \in Pipes /\ Retire(Mte1)
RetireMte2   == Mte2 \in Pipes /\ Retire(Mte2)
RetireMte3   == Mte3 \in Pipes /\ Retire(Mte3)
RetireFixp   == Fix \in Pipes /\ Retire(Fix)
RetireVector == Vector \in Pipes /\ Retire(Vector)
RetireCube   == Retire(Cube)

-----------------------------------------------------------------------------
DispatchWord(w) ==
  \/ AcceptMte1(w) \/ AcceptMte2(w) \/ AcceptMte3(w)
  \/ AcceptCube(w) \/ AcceptFixp(w) \/ AcceptVector(w)
  \/ IssueMte1Barrier(w) \/ IssueMte2Barrier(w) \/ IssueMte3Barrier(w)
  \/ IssueCubeBarrier(w) \/ IssueFixpBarrier(w) \/ IssueVectorBarrier(w)
  \/ ScalarSet(w) \/ ScalarWait(w) \/ IssueBarrierAll(w) \/ ReadSpr(w)
  \/ SendVectorCrossCore(w) \/ BeginTermination(w)

MteStep ==
  \/ TransferMte1Issue \/ TransferMte2Issue \/ TransferMte3Issue
  \/ DispatchMte1Head  \/ DispatchMte2Head  \/ DispatchMte3Head
  \/ RetireMte1 \/ RetireMte2 \/ RetireMte3

FixpStep   == TransferFixpIssue \/ DispatchFixpHead \/ RetireFixp \/ ReleaseFixBarriers
VectorStep == AdvanceVectorFrontend \/ DispatchVector \/ RetireVector
CubeStep   ==
  /\ Cube \in Pipes
  /\ \/ DispatchCubeFlag \/ ReceiveMmad \/ ReceiveControl \/ ReceiveBlockedFlag
     \/ FinishActiveFlag \/ RetireCube

Next ==
  \/ \E w \in Words : DispatchWord(w)
  \/ MteStep \/ FixpStep \/ VectorStep \/ CubeStep
  \/ AdvanceTermination

Spec == Init /\ [][Next]_vars

\* advance_to runs every engine at every tick until it is idle, and a drain is
\* checked again every 100 ticks.
Fairness ==
  /\ WF_vars(TransferMte1Issue) /\ WF_vars(DispatchMte1Head) /\ WF_vars(RetireMte1)
  /\ WF_vars(TransferMte2Issue) /\ WF_vars(DispatchMte2Head) /\ WF_vars(RetireMte2)
  /\ WF_vars(TransferMte3Issue) /\ WF_vars(DispatchMte3Head) /\ WF_vars(RetireMte3)
  /\ WF_vars(TransferFixpIssue) /\ WF_vars(DispatchFixpHead) /\ WF_vars(RetireFixp)
  /\ WF_vars(ReleaseFixBarriers)
  /\ WF_vars(VectorStep) /\ WF_vars(CubeStep)
  /\ WF_vars(AdvanceTermination)

LiveSpec == Spec /\ Fairness

-----------------------------------------------------------------------------
(* Properties *)

Route == (Pipes \cup {Scalar}) \X (Pipes \cup {Scalar})

\* Every variable has its type, and no queue exceeds its configured depth:
\* the issue queues (the MTE2 one also when MTE1 writes an SPR), the command
\* queues, and the commands a pipe has received and not retired.
TypeOK ==
  /\ nextId \in Ids
  /\ issued \in [Pipes -> SUBSET Entry]
  /\ commands \in [Pipes -> SUBSET Ids]
  /\ running \in [Pipes -> SUBSET Ids]
  /\ barriers \in [Pipes -> SUBSET Barrier]
  /\ lastAccepted \in [Pipes -> Ids \cup {None}]
  /\ lastReceived \in [Pipes -> Ids \cup {None}]
  /\ deferred \in [Pipes \X Ids -> Seq(Event)]
  /\ ready \in Seq(Event)
  /\ termination \in {"running", "draining", "complete"}
  /\ completed \subseteq [pipe : Pipes, id : Ids, waited : BOOLEAN]
  /\ drained \in [Pipes -> Ids \cup {None}]
  /\ \A p \in Pipes :
       /\ Cardinality(issued[p]) <= IssueDepth[p]
       /\ Cardinality(commands[p]) <= CommandDepth[p]
       /\ Cardinality(Outstanding(p)) <= OutstandingLimit[p]

\* No Cube instruction completes without passing through the MMAD pipeline.
PlainCube == \A w \in Words : w.kind \notin {"hflag", "empty"}

\* The pipes whose last received command is the last to retire.
Ordered == {p \in Pipes : p # Cube \/ PlainCube}

\* A deferred set can still be published: the instruction it is deferred
\* behind is outstanding in its pipe, so that its retirement is yet to come
\* (transfer_*_issue_at, C220PipelineEvents::retire).
NoStrandedEvent ==
  \A p \in Ordered, id \in Ids : deferred[<<p, id>>] # <<>> => id \in Outstanding(p)

\* The same for every pipe, as the expect("running Cube predecessor") of
\* dispatch_cube_head_at has it.
RunningPredecessor ==
  \A p \in Pipes, id \in Ids : deferred[<<p, id>>] # <<>> => id \in Outstanding(p)

\* An event is visible only when every older command of its source pipe has
\* retired: a wait that takes it orders its pipe behind all of them.
PublishedAfterOlder ==
  \A i \in DOMAIN ready :
    LET e == ready[i] IN
      e.route[1] \in Pipes => \A id \in Pending(e.route[1]) : id > e.id

\* The sets of a pipe become visible in program order: the events of one
\* source are published oldest first, before those that are still deferred.
PublishedInOrder ==
  /\ \A i, j \in DOMAIN ready :
       i < j /\ ready[i].route[1] = ready[j].route[1] => ready[i].id < ready[j].id
  /\ \A p \in Ordered, id \in Ids, i \in DOMAIN ready : \A j \in DOMAIN deferred[<<p, id>>] :
       ready[i].route[1] = p => ready[i].id < deferred[<<p, id>>][j].id

\* While a barrier is pending nothing younger is past the issue queue of its
\* pipe: no command was received and no set was raised or deferred.
BarrierHoldsYounger ==
  \A p \in Pipes : \A b \in barriers[p] :
    /\ \A id \in Outstanding(p) : id < b.id
    /\ \A i \in DOMAIN ready : ready[i].route[1] = p => ready[i].id < b.id
    /\ \A id \in Ids : \A i \in DOMAIN deferred[<<p, id>>] : deferred[<<p, id>>][i].id < b.id

\* A barrier that had to wait completes only when every older instruction of
\* its pipe has retired (release_*_barriers_at).
WaitedBarrierOrders ==
  \A b \in completed : b.waited /\ b.pipe \in Ordered => \A id \in Pending(b.pipe) : id > b.id

\* No pending barrier is overlooked: outside FIX, which releases at the end of
\* the tick, the front barrier is one that still has to wait.
NoOverlookedBarrier ==
  \A p \in Pipes \ {Fix} : barriers[p] = KeptBarriers(p, Pending(p), Outstanding(p))

\* Barriers order their pipe on both sides and none is left behind, although
\* FIX releases at other moments of the tick than the pipes that release with
\* each retirement.
BarriersOrder == BarrierHoldsYounger /\ WaitedBarrierOrders /\ NoOverlookedBarrier

\* Sets and barriers keep program order together: neither may pass the other or
\* its own kind while both wait for the same retirements.
EventsKeepOrder == PublishedInOrder /\ BarriersOrder

\* An instruction that found a pipe drained (BAR.ALL, an SPR access, a Vector
\* cross-core notification, which looks neither at barriers nor at deferred
\* events) leaves nothing older behind in it.
DrainedStaysDrained ==
  \A p \in Ordered :
    /\ \A id \in Pending(p) \cup IdsOf(barriers[p]) : id > drained[p]
    /\ \A id \in Ids : \A i \in DOMAIN deferred[<<p, id>>] :
         deferred[<<p, id>>][i].id > drained[p]

\* A wait at the front of an issue queue that no published event satisfies.
Starved ==
  \E p \in Pipes : \E e \in issued[p] :
    e = Oldest(issued[p]) /\ e.word.kind = "wait" /\ Matching(e.word) = 0

\* After END every pipe drains and termination completes, unless the program
\* left a wait without a set.
DrainCompletes == (termination = "draining") ~> (termination = "complete" \/ Starved)
=============================================================================
