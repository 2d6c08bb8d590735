----------------------------- MODULE MemoryBus -----------------------------
(***************************************************************************)
(* The way of a core to external memory: the read and the write route of   *)
(* the bus interface unit (C220BiuBusReads, C220BiuBusWrites) and the      *)
(* timed memory behind them (C220TimedMemory).                             *)
(*                                                                         *)
(* One tick is the fixed sequence of C220MtePipeline::advance: the memory  *)
(* service, write returns, read returns, then the clients, then write      *)
(* inputs and read inputs.  Each step of it is an operator that maps the   *)
(* state `bus' to the next one; Arrivals composes the steps before the     *)
(* clients, Departures those after them.  An entry that is pushed in a     *)
(* tick is ready in the next one (next_tick): `new' counts the entries of  *)
(* a queue that are not ready yet, and is zero again when the tick ends.   *)
(*                                                                         *)
(* A request is its tag.  Its owner (a cache port or the MTE), region and  *)
(* size are constants; a tag is used again once its owner has everything.  *)
(***************************************************************************)
EXTENDS Integers, Sequences, FiniteSets, SequencesExt

CONSTANTS
  ReadTags, WriteTags,   \* C220MemoryReadId, C220MemoryWriteId
  Owner,                 \* per tag: <<"Instruction" | "Data", port>> or <<"Mte", 0>>
  Region,                \* per tag: "Ddr" or "L2"
  Bytes,                 \* per tag: bytes of the request, in credits
  Beats,                 \* per read tag: bytes.div_ceil(128)
  ReadPorts,             \* per cache kind: number of read ports
  WritePorts,            \* number of cache write ports
  ReadLimit, WriteLimit, \* outstanding limits of the two routes
  InputCapacity,         \* C220TimedMemoryConfig
  PendingLimit,
  CreditLimit, Refill,   \* per pool
  CreditPeriod,
  Latency,               \* per region: [read, dbid, completion]
  CacheCapacity,         \* response queue of a cache port
  Uses                   \* bound: how often a tag is used

Regions == {"Ddr", "L2"}
Pools   == {"Ddr", "L2Write", "L2Read"}
Kinds   == {"Instruction", "Data"}
Returns == {"Dbid", "Completion"}
Mte     == <<"Mte", 0>>
CacheReadPorts  == UNION {{<<k, i>> : i \in 0..(ReadPorts[k] - 1)} : k \in Kinds}
CacheWritePorts == {<<"Data", i>> : i \in 0..(WritePorts - 1)}

ASSUME TagAssumption ==
  /\ ReadTags \cap WriteTags = {}
  /\ \A t \in ReadTags : Owner[t] \in CacheReadPorts \cup {Mte}
  /\ \A t \in WriteTags : Owner[t] \in CacheWritePorts \cup {Mte}
  /\ \A t \in ReadTags \cup WriteTags : Region[t] \in Regions /\ Bytes[t] \in Nat \ {0}
  /\ \A t \in ReadTags : Beats[t] \in Nat \ {0}
  /\ \A t \in ReadTags : Owner[t] # Mte => Beats[t] = 1   \* a cache line is one beat
ASSUME BusLimitAssumption ==
  /\ {ReadLimit, WriteLimit, InputCapacity, PendingLimit, CreditPeriod} \subseteq Nat \ {0}
  /\ Uses \in Nat
\* Every request fits the credits of its pool, or it is never admitted.
ASSUME CreditAssumption ==
  /\ \A t \in ReadTags : Bytes[t] < CreditLimit[IF Region[t] = "Ddr" THEN "Ddr" ELSE "L2Read"]
  /\ \A t \in WriteTags : Bytes[t] < CreditLimit[IF Region[t] = "Ddr" THEN "Ddr" ELSE "L2Write"]
  /\ \A p \in Pools : Refill[p] \in Nat \ {0}

\* A queue is named by what it holds and by the port or the kind it belongs to.
Only(name)       == <<name, "", 0>>
AtPort(name, p)  == <<name, p[1], p[2]>>
OfKind(name, k)  == <<name, k, 0>>
Numbered(name, i) == <<name, "", i>>
WriteReturned(p, k) == AtPort(IF k = "Dbid" THEN "dbid" ELSE "completion", p)

ReadQueues ==
  {AtPort("input", p) : p \in CacheReadPorts \cup {Mte}}   \* input, cache_ports.input
    \cup {AtPort("returned", p) : p \in CacheReadPorts}     \* cache_ports.returns
    \cup {Only(name) : name \in {"commands", "reads", "ready"}}
    \cup {Numbered(name, i) : name \in {"returns", "upstream"}, i \in 0..1}
WriteQueues ==
  {AtPort("winput", p) : p \in CacheWritePorts \cup {Mte}}
    \cup {WriteReturned(p, k) : p \in CacheWritePorts, k \in Returns}
    \cup {Only(name) : name \in {"wcommands", "wdata", "mteData", "memCommands", "memData"}}
    \cup {OfKind(name, k) : name \in {"wready", "wreturns", "wupstream"}, k \in Returns}
Queues == ReadQueues \cup WriteQueues

VARIABLES
  bus,     \* the state of the two routes and of the memory
  inTick,  \* whether the tick is between Arrivals and Departures
  served,  \* return ports whose beat the MTE has taken in this tick
  used     \* per tag: number of uses so far
busVars == <<bus, inTick, served, used>>

NoRead   == [sent |-> FALSE, received |-> {}, delivered |-> -1]
NewRead  == [sent |-> FALSE, received |-> {}, delivered |-> 0]
Channels == {"Read"} \cup Returns
Phases   == {"None", "Queued", "CommandSent", "DbidQueued", "DbidDelivered", "DataQueued",
             "DataSent", "CompletionQueued"}

MemoryBusInit ==
  /\ bus = [q   |-> [x \in Queues |-> <<>>],        \* per queue: its entries
            new |-> [x \in Queues |-> 0],           \* and how many are not ready
            reads  |-> [t \in ReadTags |-> NoRead], \* transactions of the read route
            phases |-> [t \in WriteTags |-> "None"],
            transactions |-> {},                    \* the write tags known to the memory
            scheduled |-> [c \in Channels |-> <<>>],\* [item, wait] in the order of due ticks
            outRead |-> 0, outWrite |-> 0,          \* outstanding of the two routes
            pending |-> 0, credits |-> CreditLimit,
            refillIn |-> CreditPeriod,              \* ticks to the next credit epoch
            lastCache |-> [k \in Kinds |-> -1],     \* last_cache of a kind
            nextCache |-> 0,                        \* next_cache of the write route
            fault |-> FALSE]                        \* an error return has ended the simulation
  /\ inTick = FALSE /\ served = {}
  /\ used = [t \in ReadTags \cup WriteTags |-> 0]

-----------------------------------------------------------------------------
(* Queues *)

Ready(b, x) == Len(b.q[x]) > b.new[x]
First(b, x) == Head(b.q[x])
Push(b, x, e) == [b EXCEPT !.q[x] = Append(@, e), !.new[x] = @ + 1]
\* The process that moves cache data also takes an entry that is not ready yet.
Pop(b, x) == [b EXCEPT !.q[x] = Tail(@), !.new[x] = Min({@, Len(b.q[x]) - 1})]
Move(b, x, y) == Push(Pop(b, x), y, First(b, x))

\* A while loop: f is the identity where the loop ends.
Repeat(b, n, f(_)) ==
  LET turn[k \in 0..n] == IF k = 0 THEN b ELSE f(turn[k - 1]) IN turn[n]

ReadPool(t)  == IF Region[t] = "Ddr" THEN "Ddr" ELSE "L2Read"
WritePool(t) == IF Region[t] = "Ddr" THEN "Ddr" ELSE "L2Write"

\* A BTreeMap of due ticks with a queue per tick: later entries go behind
\* those that are due in the same tick.
Schedule(s, items, wait) ==
  SelectSeq(s, LAMBDA e : e.wait <= wait)
    \o [i \in 1..Len(items) |-> [item |-> items[i], wait |-> wait]]
    \o SelectSeq(s, LAMBDA e : e.wait > wait)

-----------------------------------------------------------------------------
(* C220TimedMemory::advance *)

\* Faulty variant: Credits are refilled to no more than a request needs, not to their limit.
RefillCreditsLow(b) ==
  [b EXCEPT !.credits = [p \in Pools |-> Min({@[p] + Refill[p], CreditLimit[p] - 1})]]

RefillCredits(b) ==
  IF b.refillIn = 1
    THEN [b EXCEPT !.refillIn = CreditPeriod,
                   !.credits = [p \in Pools |-> Min({@[p] + Refill[p], CreditLimit[p]})]]
    ELSE [b EXCEPT !.refillIn = @ - 1]

AcceptCommand(b) ==
  IF b.q[Only("memCommands")] = <<>> THEN b
  ELSE LET t == First(b, Only("memCommands"))
       IN  [Pop(b, Only("memCommands"))
              EXCEPT !.transactions = @ \cup {t},
                     !.scheduled["Dbid"] = Schedule(@, <<t>>, Latency[Region[t]].dbid)]

\* prepare: what is due moves to the ready queues and frees its slots, whether
\* or not the bus takes it.
DueItems(b, c) == LET due == SelectSeq(b.scheduled[c], LAMBDA e : e.wait = 0)
                  IN  [i \in 1..Len(due) |-> due[i].item]
ReadyQueue(c) == IF c = "Read" THEN Only("ready") ELSE OfKind("wready", c)
\* Faulty variant: a DBID frees a slot that only its completion takes.
DeliverFreesDbid(b, c) == [b EXCEPT !.q[ReadyQueue(c)] = @ \o DueItems(b, c),
                           !.new[ReadyQueue(c)] = @ + Len(DueItems(b, c)),
                           !.scheduled[c] = SelectSeq(@, LAMBDA e : e.wait > 0),
                           !.pending = @ - Len(DueItems(b, c))]

Deliver(b, c) == [b EXCEPT !.q[ReadyQueue(c)] = @ \o DueItems(b, c),
                           !.new[ReadyQueue(c)] = @ + Len(DueItems(b, c)),
                           !.scheduled[c] = SelectSeq(@, LAMBDA e : e.wait > 0),
                           !.pending = IF c = "Dbid" THEN @ ELSE @ - Len(DueItems(b, c))]
Prepare(b) == Deliver(Deliver(Deliver(b, "Read"), "Dbid"), "Completion")

BeatsOf(t) == [k \in 1..Beats[t] |-> <<t, k - 1>>]

\* One turn of the read admission loop.  pending may pass its limit by the
\* beats of the last request that is admitted.
CanAdmit(b, x, pool(_)) ==
  /\ b.pending < PendingLimit /\ b.q[x] # <<>>
  /\ Bytes[First(b, x)] < b.credits[pool(First(b, x))]
AdmitRead(b) ==
  IF ~CanAdmit(b, Only("reads"), ReadPool) THEN b
  ELSE LET t == First(b, Only("reads"))
       IN  [Pop(b, Only("reads"))
              EXCEPT !.scheduled["Read"] = Schedule(@, BeatsOf(t), Latency[Region[t]].read),
                     !.pending = @ + Beats[t],
                     !.credits[ReadPool(t)] = @ - Bytes[t]]

AdmitData(b) ==
  IF ~CanAdmit(b, Only("memData"), WritePool) THEN b
  ELSE LET t == First(b, Only("memData"))
       IN  [Pop(b, Only("memData"))
              EXCEPT !.scheduled["Completion"] = Schedule(@, <<t>>, Latency[Region[t]].completion),
                     !.pending = @ + 1,
                     !.credits[WritePool(t)] = @ - Bytes[t],
                     !.fault = @ \/ t \notin b.transactions]

MemoryAdvance(b) ==
  LET accepted == Repeat(RefillCredits(b), InputCapacity, AcceptCommand)
      read     == Repeat(Prepare(accepted), InputCapacity, AdmitRead)
  IN  Prepare(Repeat(read, InputCapacity, AdmitData))

-----------------------------------------------------------------------------
(* Write returns: advance_biu_bus_returns *)

Expected(kind) == IF kind = "Dbid" THEN "CommandSent" ELSE "DataSent"
Queued(kind)   == IF kind = "Dbid" THEN "DbidQueued" ELSE "CompletionQueued"

\* C220BiuBusWrites::receive and C220TimedMemory::pop.
ReceiveWrite(b, kind) ==
  LET from == OfKind("wready", kind)
      t    == First(b, from)
  IN  IF ~Ready(b, from) \/ Len(b.q[OfKind("wreturns", kind)]) >= 3 THEN b
      ELSE [Move(b, from, OfKind("wreturns", kind))
              EXCEPT !.phases[t] = Queued(kind),
                     !.transactions = IF kind = "Completion" THEN @ \ {t} ELSE @,
                     !.fault = @ \/ b.phases[t] # Expected(kind)]

\* C220BiuBusWrites::advance, for one of the two kinds.
WriteTarget(kind, t) ==
  IF Owner[t] = Mte THEN OfKind("wupstream", kind) ELSE WriteReturned(Owner[t], kind)
ForwardWrite(b, kind) ==
  LET from == OfKind("wreturns", kind)
      to   == WriteTarget(kind, First(b, from))
  IN  IF ~Ready(b, from) \/ Len(b.q[to]) >= 2 THEN b
      ELSE [Move(b, from, to) EXCEPT !.outWrite = IF kind = "Completion" THEN @ - 1 ELSE @]

\* take_return for the MTE: the data of a DBID may be sent, a completed tag is free.
TakeWriteReturn(b, kind) ==
  LET from == OfKind("wupstream", kind) IN
    IF ~Ready(b, from) THEN b
    ELSE [Pop(b, from) EXCEPT !.phases[First(b, from)] =
                                IF kind = "Dbid" THEN "DbidDelivered" ELSE "None"]

WriteReturns(b) ==
  LET dbids     == Repeat(b, 3, LAMBDA x : ReceiveWrite(x, "Dbid"))
      received  == Repeat(dbids, 3, LAMBDA x : ReceiveWrite(x, "Completion"))
      forwarded == ForwardWrite(ForwardWrite(received, "Dbid"), "Completion")
  IN  TakeWriteReturn(TakeWriteReturn(forwarded, "Dbid"), "Completion")

-----------------------------------------------------------------------------
(* Read returns: advance_biu_read_returns *)

\* C220BiuBusReads::receive; the k-th beat of a tick goes to return port k % 2.
ReceiveBeat(b, port) ==
  LET beat == First(b, Only("ready"))
      r    == b.reads[beat[1]]
  IN  IF ~Ready(b, Only("ready")) \/ Len(b.q[Numbered("returns", port)]) >= 3 THEN b
      ELSE [Move(b, Only("ready"), Numbered("returns", port))
              EXCEPT !.reads[beat[1]].received = @ \cup {beat[2]},
                     !.fault = @ \/ ~r.sent \/ beat[2] \in r.received]
\* The loop ends with the first beat that finds its port full.
BeatTurn(t, port) ==
  LET next == ReceiveBeat(t.bus, port)
  IN  IF ~t.going \/ next = t.bus THEN [t EXCEPT !.going = FALSE] ELSE [t EXCEPT !.bus = next]
ReceiveBeats(b) ==
  LET turn[k \in 0..6] == IF k = 0 THEN [bus |-> b, going |-> TRUE] ELSE BeatTurn(turn[k - 1], (k - 1) % 2)
  IN  turn[6].bus

\* advance_returns for one port: a cache response frees a credit with every
\* beat, an MTE response with beat zero.
ReadTarget(i, beat) ==
  IF Owner[beat[1]] = Mte THEN Numbered("upstream", i) ELSE AtPort("returned", Owner[beat[1]])
ReadRoom(b, x) == Len(b.q[x]) < IF x[1] = "upstream" THEN 2 ELSE CacheCapacity
\* Faulty variant: The credit of an MTE read is given back with every beat.
FreesCreditAlways(beat) == TRUE

FreesCredit(beat) == Owner[beat[1]] # Mte \/ beat[2] = 0
ForwardRead(b, i) ==
  LET from == Numbered("returns", i)
      beat == First(b, from)
  IN  IF ~Ready(b, from) \/ ~ReadRoom(b, ReadTarget(i, beat)) THEN b
      ELSE [Move(b, from, ReadTarget(i, beat))
              EXCEPT !.outRead = IF FreesCredit(beat) THEN @ - 1 ELSE @]

\* consume and take_cache_return: the last beat ends the transaction.
TakeBeat(b, from) ==
  [Pop(b, from) EXCEPT !.reads[First(b, from)[1]] =
     IF @.delivered + 1 = Beats[First(b, from)[1]] THEN NoRead ELSE [@ EXCEPT !.delivered = @ + 1]]

ReadReturns(b) == ForwardRead(ForwardRead(ReceiveBeats(b), 0), 1)

-----------------------------------------------------------------------------
(* Write inputs: advance_biu_bus_inputs *)

\* The first port from `start' on, in turn, whose input is ready, or -1.
InTurn(b, n, start, x(_)) ==
  LET offsets == {k \in 0..(n - 1) : Ready(b, x((start + k) % n))}
  IN  IF offsets = {} THEN -1 ELSE (start + Min(offsets)) % n

\* admit_commands: cache ports in turn, then the MTE.  Admission does not
\* reserve a credit.
WriteInput(i) == AtPort("winput", <<"Data", i>>)
AdmitWrite(b) ==
  LET i    == InTurn(b, WritePorts, b.nextCache, WriteInput)
      from == IF i # -1 THEN WriteInput(i) ELSE AtPort("winput", Mte)
  IN  IF b.outWrite >= WriteLimit \/ ~Ready(b, from) THEN b
      ELSE [Move(b, from, Only("wcommands"))
              EXCEPT !.phases[First(b, from)] = "Queued",
                     !.nextCache = IF i # -1 THEN (i + 1) % WritePorts ELSE @]

\* take_request, advance_cache_data and push_data: data of the MTE, or a DBID
\* that is ready, wakes the process, which takes every DBID of a cache port.
Woken(b) == \/ Ready(b, Only("mteData"))
            \/ \E p \in CacheWritePorts : Ready(b, WriteReturned(p, "Dbid"))
QueueData(b, from) == [Move(b, from, Only("wdata")) EXCEPT !.phases[First(b, from)] = "DataQueued"]
CacheData(b) ==
  LET take(x, i) == LET from == WriteReturned(<<"Data", i>>, "Dbid")
                    IN  IF x.q[from] # <<>> THEN QueueData(x, from) ELSE x
      turn[k \in 0..WritePorts] == IF k = 0 THEN b ELSE take(turn[k - 1], k - 1)
      taken == turn[WritePorts]
      mte   == First(taken, Only("mteData"))
  IN  IF ~Woken(b) THEN b
      ELSE IF ~Ready(b, Only("mteData")) THEN taken
      ELSE [QueueData(taken, Only("mteData"))
              EXCEPT !.fault = @ \/ taken.phases[mte] # "DbidDelivered"]

\* take_command and take_data, if the memory has room.
SendToMemory(b, from, to, phase, credit) ==
  IF ~Ready(b, from) \/ Len(b.q[to]) >= InputCapacity THEN b
  ELSE [Move(b, from, to) EXCEPT !.phases[First(b, from)] = phase, !.outWrite = @ + credit]
SendCommand(b) == SendToMemory(b, Only("wcommands"), Only("memCommands"), "CommandSent", 1)
SendData(b)    == SendToMemory(b, Only("wdata"), Only("memData"), "DataSent", 0)

WriteInputs(b) == SendData(SendCommand(CacheData(AdmitWrite(b))))

-----------------------------------------------------------------------------
(* Read inputs: advance_biu_read_inputs *)

\* advance_input: instruction ports, then data ports, each kind in turn, then
\* the MTE.
SelectCache(b, kind) ==
  InTurn(b, ReadPorts[kind], b.lastCache[kind] + 1, LAMBDA i : AtPort("input", <<kind, i>>))
SelectedRead(b) ==
  CASE SelectCache(b, "Instruction") # -1 -> <<"Instruction", SelectCache(b, "Instruction")>>
    [] SelectCache(b, "Instruction") = -1 /\ SelectCache(b, "Data") # -1 ->
         <<"Data", SelectCache(b, "Data")>>
    [] OTHER -> Mte
AdvanceInput(b) ==
  LET p    == SelectedRead(b)
      from == AtPort("input", p)
  IN  IF b.outRead >= ReadLimit \/ ~Ready(b, from) THEN b
      ELSE [Move(b, from, Only("commands"))
              EXCEPT !.lastCache = [k \in Kinds |-> IF k = p[1] THEN p[2] ELSE @[k]]]

SendReadCommand(b) ==
  LET from == Only("commands") IN
    IF ~Ready(b, from) \/ Len(b.q[Only("reads")]) >= InputCapacity THEN b
    ELSE [Move(b, from, Only("reads")) EXCEPT !.reads[First(b, from)].sent = TRUE, !.outRead = @ + 1]

ReadInputs(b) == SendReadCommand(AdvanceInput(b))

-----------------------------------------------------------------------------
(* The tick and the clients: the MTE callbacks and the load/store unit *)

Arrivals ==
  /\ ~inTick /\ ~bus.fault
  /\ bus' = ReadReturns(WriteReturns(MemoryAdvance(bus)))
  /\ inTick' = TRUE /\ served' = {}
  /\ UNCHANGED used

\* The tick ends: what was pushed in it is ready in the next.
EndTick(b) == [b EXCEPT !.new = [x \in Queues |-> 0],
                        !.scheduled = [c \in Channels |-> [i \in DOMAIN @[c] |->
                                         [@[c][i] EXCEPT !.wait = @ - 1]]]]
Departures ==
  /\ inTick /\ ~bus.fault
  /\ bus' = EndTick(ReadInputs(WriteInputs(bus)))
  /\ inTick' = FALSE
  /\ UNCHANGED <<served, used>>

Client == inTick /\ ~bus.fault /\ UNCHANGED <<inTick, served>>
Use(t) == used[t] < Uses /\ used' = [used EXCEPT ![t] = @ + 1]
Within(x, t) == \E i \in DOMAIN bus.q[x] : bus.q[x][i] = t

\* The MTE return buffers take one beat of a port in a tick, or refuse it.
Consume(i) ==
  /\ inTick /\ ~bus.fault /\ i \notin served
  /\ Ready(bus, Numbered("upstream", i))
  /\ bus' = TakeBeat(bus, Numbered("upstream", i))
  /\ served' = served \cup {i}
  /\ UNCHANGED <<inTick, used>>

\* push and send_cache_command of the read route.
SendRead(t) ==
  /\ Client
  /\ bus.reads[t] = NoRead /\ Use(t)
  /\ Len(bus.q[AtPort("input", Owner[t])]) < 2
  /\ bus' = [Push(bus, AtPort("input", Owner[t]), t) EXCEPT !.reads[t] = NewRead]

TakeCacheRead(p) ==
  /\ Client /\ Ready(bus, AtPort("returned", p))
  /\ bus' = TakeBeat(bus, AtPort("returned", p))
  /\ UNCHANGED used

\* send_cache_command of the write route, or a command of the MTE.
SendWrite(t) ==
  /\ Client
  /\ bus.phases[t] = "None" /\ ~Within(AtPort("winput", Owner[t]), t) /\ Use(t)
  /\ Len(bus.q[AtPort("winput", Owner[t])]) < 2
  /\ bus' = Push(bus, AtPort("winput", Owner[t]), t)

\* The MTE sends the data of a command whose DBID it has.
SendMteData(t) ==
  /\ Client
  /\ Owner[t] = Mte /\ bus.phases[t] = "DbidDelivered" /\ ~Within(Only("mteData"), t)
  /\ bus' = Push(bus, Only("mteData"), t)
  /\ UNCHANGED used

TakeCacheCompletion(p) ==
  /\ Client
  /\ LET from == WriteReturned(p, "Completion") IN
       /\ Ready(bus, from)
       /\ bus' = [Pop(bus, from) EXCEPT !.phases[First(bus, from)] = "None"]
  /\ UNCHANGED used

MemoryBusNext ==
  \/ Arrivals \/ Departures
  \/ \E i \in 0..1 : Consume(i)
  \/ \E t \in ReadTags : SendRead(t)
  \/ \E p \in CacheReadPorts : TakeCacheRead(p)
  \/ \E t \in WriteTags : SendWrite(t) \/ SendMteData(t)
  \/ \E p \in CacheWritePorts : TakeCacheCompletion(p)

MemoryBusSpec == MemoryBusInit /\ [][MemoryBusNext]_busVars

\* The simulation loop goes on; the clients take what has arrived for them and
\* the MTE sends the data it was allowed to send.
ClockRuns == ~bus.fault /\ inTick' = ~inTick
MemoryBusFairness ==
  /\ WF_inTick(ClockRuns)
  /\ \A i \in 0..1 : SF_busVars(Consume(i))
  /\ \A p \in CacheReadPorts : SF_busVars(TakeCacheRead(p))
  /\ \A p \in CacheWritePorts : SF_busVars(TakeCacheCompletion(p))
  /\ \A t \in WriteTags : SF_busVars(SendMteData(t))
MemoryBusFairSpec == MemoryBusSpec /\ MemoryBusFairness

-----------------------------------------------------------------------------
(* Properties *)

OnTheWay(t) ==
  \/ Within(Only("reads"), t) \/ Within(Only("ready"), <<t, 0>>)
  \/ \E i \in DOMAIN bus.scheduled["Read"] : bus.scheduled["Read"][i].item = <<t, 0>>
  \/ \E i \in 0..1 : Within(Numbered("returns", i), <<t, 0>>)
BusCapacity(x) ==
  CASE x[1] \in {"input", "winput", "upstream", "wupstream", "dbid", "completion"} -> 2
    [] x[1] \in {"returns", "wreturns"} -> 3
    [] x[1] = "returned" -> CacheCapacity
    [] x[1] \in {"reads", "memCommands", "memData"} -> InputCapacity
    [] OTHER -> Cardinality(WriteTags) + Cardinality(ReadTags) * Max({Beats[t] : t \in ReadTags})

\* Every queue of the two routes and of the memory keeps the capacity its
\* sender tests, the memory exceeds pending_limit by no more than the beats of
\* one request, and credits stay within their pool.  No response meets a
\* transaction in the wrong phase: the error returns of receive and push_data
\* are unreachable, also when a cache port's DBID is picked up in the tick in
\* which it arrives and when tags are used again.
MemoryBusTypeOK ==
  /\ ~bus.fault
  /\ \A x \in Queues : Len(bus.q[x]) <= BusCapacity(x) /\ bus.new[x] \in 0..Len(bus.q[x])
  /\ bus.phases \in [WriteTags -> Phases] /\ bus.transactions \subseteq WriteTags
  /\ bus.pending \in 0..(PendingLimit - 1 + Max({Beats[t] : t \in ReadTags}))
  /\ \A p \in Pools : bus.credits[p] \in 0..CreditLimit[p]

\* The counters that throttle the routes count what they stand for: a read is
\* outstanding from its command to the forwarding of beat zero, although its
\* other beats use the other return port and may pass it; a write is
\* outstanding from its command to the forwarding of its completion; pending
\* counts the beats and completions that have not come due.
CreditsBalance ==
  /\ bus.outRead = Cardinality({t \in ReadTags : OnTheWay(t)})
  /\ bus.outWrite = Cardinality({t \in WriteTags :
       \/ bus.phases[t] \in Phases \ {"None", "Queued", "CompletionQueued"}
       \/ Within(OfKind("wreturns", "Completion"), t)})
  /\ bus.pending = Len(bus.scheduled["Read"]) + Len(bus.scheduled["Completion"])

\* Under back-pressure of every client and with credits that run out, the
\* reads and writes that the clients send are all answered in full: the routes
\* become idle again and again.
BusIdle ==
  (\A t \in ReadTags : bus.reads[t] = NoRead) /\ (\A t \in WriteTags : bus.phases[t] = "None")
AllServed == []<>BusIdle
=============================================================================
