------------------------------ MODULE ScalarIssue ------------------------------
(***************************************************************************)
(* The scalar unit in time: words are dispatched one per tick, when their  *)
(* operands are there; loads, stores, atomic stores, preloads and cache    *)
(* maintenance leave for the load/store unit and come back later, in an    *)
(* order of their own; notifications retire one per tick.                  *)
(*   src/src/sim/c220/core/{dispatch.rs,lsu.rs,lsu/*.rs},                  *)
(*   scalar/{timing,load,store,preload}.rs, scalar/timing/rules.rs,        *)
(*   scalar/store/*.rs, scalar/lsu/{commit.rs,commit/*.rs}                 *)
(*                                                                         *)
(* The pipeline, cache and buffers behind the admission of a request are   *)
(* ScalarLsu's.  Here a request takes effect on memory when it is admitted *)
(* (what ScalarLsu shows of younger loads), its answer comes at any tick   *)
(* within MaxAnswer, before or after the answers of other requests, and    *)
(* an admission may be refused.  An atomic store changes the memory when   *)
(* it retires, as in the code; the bytes that the cache keeps of its line  *)
(* meanwhile are left out, so no other access goes to that line.           *)
(***************************************************************************)
EXTENDS ScalarMachine, SequencesExt

CONSTANTS LineCells,      \* cells of a cache line (64)
          IngressLimit,   \* dispatched requests that wait for admission (2)
          RetireLimit,    \* notifications that wait (64)
          MaxAnswer,      \* ticks within which a request is answered
          MaxRefusal,     \* ticks within which an admission is granted
          MaxScalarTick,  \* ticks within which every program ends
          ScalarPrograms  \* words, registers, special registers and commit mode of each program

ASSUME ScalarIssueBounds == {LineCells, IngressLimit, RetireLimit, MaxAnswer, MaxRefusal, MaxScalarTick} \subseteq Nat \ {0}

-----------------------------------------------------------------------------
(* The timing lane: when a result counts as written.  The machine has the  *)
(* value from the dispatch on; a reader waits for the tick.                *)

NewTiming == [xreg |-> <<>>, spr |-> <<>>, drain |-> Absent, variable |-> <<>>, events |-> <<>>]
DueAfter(f, tick) == Restrict(f, {k \in DOMAIN f : f[k] > tick})
DropFirst(s, n) == SubSeq(s, n + 1, Len(s))

AdvanceTiming(t, tick) ==
  LET ready == Cardinality({k \in DOMAIN t.events : t.events[k] <= tick})
  IN [xreg |-> DueAfter(t.xreg, tick), spr |-> DueAfter(t.spr, tick),
      drain |-> IF t.drain <= tick THEN Absent ELSE t.drain,
      variable |-> DropFirst(t.variable, ready), events |-> DropFirst(t.events, ready)]

\* Divisions and roots retire in order, each with the next notification due
PendingXreg(t, r) ==
  Max({Absent} \cup {t.xreg[k] : k \in {r} \cap DOMAIN t.xreg}
      \cup {t.events[k] : k \in {j \in DOMAIN t.variable : t.variable[j].live /\ t.variable[j].destination = r}})
PendingSpr(t, s) == IF s \in DOMAIN t.spr THEN t.spr[s] ELSE Absent
LoadWaw(t, r) == IF r \in DOMAIN t.xreg THEN t.xreg[r] ELSE Absent
PendingDrain(t) ==
  {t.xreg[r] : r \in DOMAIN t.xreg} \cup {t.spr[s] : s \in DOMAIN t.spr} \cup {t.events[k] : k \in DOMAIN t.events}
  \cup ({t.drain} \ {Absent})

SupersedeDestination(t, r) ==
  [t EXCEPT !.xreg = Restrict(t.xreg, DOMAIN t.xreg \ {r}),
            !.variable = [k \in DOMAIN t.variable |->
                            [t.variable[k] EXCEPT !.live = @ /\ t.variable[k].destination # r]]]
IssueTicket(t, ticket) ==
  LET cleared == IF ticket.destination = Absent THEN t ELSE SupersedeDestination(t, ticket.destination)
      before == SelectSeq(t.events, LAMBDA e : e <= ticket.retire)
  IN IF ticket.class = "Variable"
     THEN [cleared EXCEPT !.events = before \o <<ticket.retire>> \o DropFirst(t.events, Len(before)),
                          !.variable = Append(@, [destination |-> ticket.destination, live |-> TRUE])]
     ELSE [cleared EXCEPT !.xreg = IF ticket.destination = Absent THEN @ ELSE (ticket.destination :> ticket.retire) @@ @,
                          !.drain = Max({@, ticket.retire})]
IssueSpr(t, s, retire) == [t EXCEPT !.spr = (s :> retire) @@ @]

-----------------------------------------------------------------------------
(* What each word waits for, and how long its result takes                 *)

\* The registers named by the offset of a jump
OffsetRegisters(i) == IF i.byRegister THEN {i.offset} ELSE {}
FlowRegisters(c) ==
  CASE c.deviceFlag # NoWord -> IF c.deviceFlag.byRegister THEN {c.deviceFlag.id} ELSE {}
    [] c.crossCore # NoWord -> {c.crossCore.n}
    [] c.flag # NoWord -> IF c.flag.byRegister THEN {c.flag.id} ELSE {}
    [] c.jump # NoWord -> OffsetRegisters(c.jump)
    [] c.conditional # NoWord -> OffsetRegisters(c.conditional)
    [] c.compare # NoWord ->
         {c.compare.n} \cup (IF c.compare.secondByRegister THEN {c.compare.second} ELSE {}) \cup OffsetRegisters(c.compare)
    [] c.dcci # NoWord -> {c.dcci.n}
    [] OTHER -> {}
\* Addresses of the C220's own forms
AccessRegisters(i) == {i.base} \cup (IF i.byRegister THEN {i.offset} ELSE {})
ScalarRegisters(i) ==
  CASE i.kind = "IndexedStore" -> {i.data, i.base, i.offsetRegister}
    [] i.kind \in {"IndexedLoad", "IndexedImmediateStore"} -> {i.base, i.offsetRegister}
    [] i.kind \in {"PairLoad", "StoreImmediate", "Load"} -> {i.base}
    [] i.kind = "PairStore" -> {i.first, i.second, i.base}
    [] i.kind = "Store" -> {i.base, i.data}
    [] i.kind = "Key0" -> {i.n, i.m} \cup (IF i.op = "MultiplyAdd" THEN {i.d} ELSE {})
    [] i.kind \in {"Compare", "CompareRegister", "Select"} -> {i.n, i.m}
    [] i.kind \in {"ShiftLeft", "ShiftRight"} -> {i.d} \cup (IF i.byRegister THEN {i.count} ELSE {})
    [] i.kind \in {"Insert", "BitSet"} -> {i.d, i.n}
    [] i.kind \in {"InsertImmediate", "MoveX8", "MoveKeep"} -> {i.d}
    [] i.kind \in {"None", "MoveFromSpr", "MoveImmediate"} -> {}
    [] OTHER -> {i.n}
GateRegisters(c) ==
  CASE c.immediate # NoWord -> {}
    [] c.class = "FlowControl" -> FlowRegisters(c)
    [] c.conversion # NoWord -> {c.conversion.n}
    [] c.preload # NoWord -> AccessRegisters(c.preload)
    [] c.atomic # NoWord -> {c.atomic.data} \cup AccessRegisters(c.atomic)
    [] c.direct # NoWord -> {c.direct.data, c.direct.base}
    [] OTHER -> ScalarRegisters(c.scalar)
GateSprs(c) ==
  CASE c.immediate # NoWord -> {c.immediate.spr}
    [] c.scalar.kind \in {"MoveFromSpr", "MoveToSpr"} -> {c.scalar.spr}
    [] OTHER -> {}

NoRule == [class |-> "None", latency |-> 0, destination |-> Absent]
FixedRule(latency, d) == [class |-> "Fixed", latency |-> latency, destination |-> d]
VariableRule(latency, d) == [class |-> "Variable", latency |-> latency, destination |-> d]
Key0Rule(i) ==
  CASE i.op \in {"Divide", "Remainder"} -> VariableRule(IF i.dtype = 2 THEN 14 ELSE 20, i.d)
    [] i.op \in {"Add", "Subtract", "Multiply", "MultiplyAdd"} /\ i.dtype = 2 -> FixedRule(5, i.d)
    [] i.op = "Multiply" /\ i.dtype = 0 -> FixedRule(2, i.d)
    [] i.op = "MultiplyAdd" /\ i.dtype = 0 -> FixedRule(3, i.d)
    [] OTHER -> FixedRule(1, i.d)
TickOperations ==
  {"MoveFromSpr", "MoveImmediate", "MoveKeep", "MoveX8", "CompareRegister", "Select", "Move", "Negate", "Absolute",
   "Not", "ZeroExtend", "SignExtend", "FindFirst", "Insert", "BitSet", "ShiftLeft", "ShiftRight", "InsertImmediate", "Key8"}
TimingRule(c) ==
  LET i == c.scalar
  IN CASE c.conversion # NoWord -> FixedRule(2, c.conversion.d)
       [] i.kind \in {"Compare", "CompareImmediate"} -> FixedRule(1, Absent)
       [] i.kind = "BitCount" -> FixedRule(IF i.op \in {"Zeros", "Ones"} THEN 2 ELSE 1, i.d)
       [] i.kind = "Sqrt" -> VariableRule(IF i.dtype = 2 THEN 18 ELSE 15, i.d)
       [] i.kind \in TickOperations -> FixedRule(1, i.d)
       [] i.kind = "Key0" -> Key0Rule(i)
       [] OTHER -> NoRule

-----------------------------------------------------------------------------
(* The operands a memory instruction takes with it                         *)

LoadKinds == {"Load", "IndexedLoad", "PairLoad"}
StoreKinds == {"Store", "IndexedStore", "IndexedImmediateStore", "StoreImmediate", "PairStore"}

LoadOperands(m, i) ==
  LET effect == CASE i.kind = "Load" -> ImmediateEffect(m, i) [] i.kind = "IndexedLoad" -> IndexedEffect(m, i)
                  [] OTHER -> AddressEffect(0, Narrow(ReadXreg(m, i.base) + i.offset), FALSE)
  IN [kind |-> "Load", destination |-> IF i.kind = "PairLoad" THEN i.first ELSE i.data,
      second |-> IF i.kind = "PairLoad" THEN i.second ELSE Absent,
      base |-> i.base, address |-> effect.address, updated |-> effect.updated, width |-> i.width]
StoreOperands(m, i) ==
  LET effect == CASE i.kind \in {"IndexedStore", "IndexedImmediateStore"} -> IndexedEffect(m, i)
                  [] i.kind = "PairStore" -> AddressEffect(0, Narrow(ReadXreg(m, i.base) + i.offset), FALSE)
                  [] OTHER -> ImmediateEffect(m, i)
      value == CASE i.kind \in {"Store", "IndexedStore"} -> ReadXreg(m, i.data)
                 [] i.kind = "PairStore" -> ReadXreg(m, i.first) [] OTHER -> ConstantValue(i.value)
  IN [kind |-> "Store", value |-> value, pair |-> i.kind = "PairStore",
      value2 |-> IF i.kind = "PairStore" THEN ReadXreg(m, i.second) ELSE 0,
      base |-> i.base, address |-> effect.address, updated |-> effect.updated, width |-> i.width]
DirectStoreOperands(m, i) ==
  [kind |-> "Direct", value |-> m.x[i.data], address |-> Narrow(m.x[i.base] + i.offset), width |-> i.width,
   base |-> i.base, updated |-> Absent]
PreloadOperands(m, i) ==
  [kind |-> "Preload", address |-> Narrow(ReadXreg(m, i.base) + (IF i.byRegister THEN ReadXreg(m, i.offset) ELSE i.offset)),
   base |-> i.base, updated |-> Absent, width |-> 1]
AtomicOperands(m, i) ==
  LET adjusted == Narrow(m.x[i.base] + (IF i.byRegister THEN m.x[i.offset] * i.width ELSE i.offset))
      effect == AddressEffect(m.x[i.base], adjusted, i.post)
  IN [kind |-> "Atomic", value |-> m.x[i.data], address |-> effect.address, updated |-> effect.updated,
      base |-> i.base, width |-> i.width]
\* An atomic store goes to external memory: by its bit, or by its root
IsExternal(ops, root) == IsSet(ops.address, ExternalBit) \/ Root(ops.address) # Root(root)
ExecuteAtomic(m, mem, ops) ==
  LET at == ops.address % (2^AddressBits)
  IN WriteCells(mem, at, ops.width,
                AtomicCombine(SprValue(m, 90) % 8, SprValue(m, 3), ops.value, ReadCells(mem, at, ops.width)))

LoadDestinations(ops) == {ops.destination, ops.second} \ {Absent}

-----------------------------------------------------------------------------
(* The commit lane: the owner of each register that a load will write, the *)
(* loads on their way and the notifications that wait to retire            *)

NewCommits ==
  [mode |-> "Retirement", pending |-> <<>>, owners |-> <<>>, retirements |-> <<>>, pairs |-> <<>>, overflow |-> FALSE]
WithoutKeys(f, K) == Restrict(f, DOMAIN f \ K)

\* Faulty variant: the load is not told that its register has a newer writer.
SupersedeKeepsResult(c, r) == IF r \notin DOMAIN c.owners THEN c ELSE [c EXCEPT !.owners = WithoutKeys(@, {r})]
\* A newer writer of a register takes it from the load: the whole load is dropped
Supersede(c, r) ==
  IF r \notin DOMAIN c.owners THEN c
  ELSE LET id == c.owners[r]
       IN [c EXCEPT !.owners = WithoutKeys(@, {r}),
                    !.pending = IF id \in DOMAIN @ THEN [@ EXCEPT ![id].suppressed = TRUE] ELSE @]
IssueLoad(c, id, ops) ==
  LET D == LoadDestinations(ops)
      released == FoldSet(LAMBDA r, acc : Supersede(acc, r), c, D)
  IN [released EXCEPT !.pending = (id :> [ops |-> ops, split |-> FALSE, answers |-> <<Absent, Absent>>,
                                          suppressed |-> FALSE, data |-> <<>>]) @@ @,
                      !.owners = [r \in D |-> id] @@ @]
AdmitLoad(c, id, split) == [c EXCEPT !.pending[id].split = split]
AdmitStorePair(c, id) == [c EXCEPT !.pairs = (id :> [answered |-> {}, consumed |-> 0]) @@ @]

Notified(c, tick, kind, id) ==
  [c EXCEPT !.retirements = Append(@, [ready |-> tick + 1, kind |-> kind, id |-> id]),
            !.overflow = @ \/ Len(c.retirements) >= RetireLimit]
\* A result is written to both registers, and both are free again
WriteResult(m, c, ops, data) ==
  LET m1 == IF ops.second = Absent THEN m ELSE SetXreg(m, ops.second, data[2])
  IN [m |-> SetXreg(m1, ops.destination, data[1]),
      commits |-> [c EXCEPT !.owners = WithoutKeys(@, LoadDestinations(ops))]]

\* The answer to a load, or to one half of it: with half of the data the other half counts as 0
CompleteData(m, c, tick, answer) ==
  LET p == c.pending[answer.id]
      half == IF answer.part = "Second" THEN 2 ELSE 1
      answers == [p.answers EXCEPT ![half] = answer.values[half]]
      complete == ~p.split \/ Absent \notin {answers[1], answers[2]}
      known(v) == IF v = Absent THEN 0 ELSE v
      data == IF p.split THEN <<known(answers[1]), known(answers[2])>> ELSE answer.values
      written == IF c.mode = "DataBypass" /\ ~p.suppressed THEN WriteResult(m, c, p.ops, data)
                 ELSE [m |-> m, commits |-> c]
      stored == [written.commits EXCEPT !.pending[answer.id].answers = answers,
                                        !.pending[answer.id].data = IF complete THEN data ELSE <<>>]
  IN [m |-> written.m,
      commits |-> IF complete \/ answer.path # "Cache" THEN Notified(stored, tick, "Load", answer.id) ELSE stored]
CompleteStore(c, tick, answer) ==
  LET noted == IF answer.id \in DOMAIN c.pairs THEN [c EXCEPT !.pairs[answer.id].answered = @ \cup {answer.part}] ELSE c
  IN Notified(noted, tick, "Store", answer.id)

\* One notification retires per tick.  The first notification of a split load may find half of the data.
RetireLoad(m, c, id) ==
  LET p == c.pending[id]
      written == IF c.mode = "Retirement" /\ ~p.suppressed THEN WriteResult(m, c, p.ops, p.data)
                 ELSE [m |-> m, commits |-> c]
  IN CASE id \notin DOMAIN c.pending -> [m |-> m, commits |-> c, closed |-> FALSE]
       [] p.data = <<>> -> [m |-> m, commits |-> c, closed |-> FALSE]
       [] OTHER -> [m |-> written.m, commits |-> [written.commits EXCEPT !.pending = WithoutKeys(@, {id})], closed |-> TRUE]
RetireStore(c, id) ==
  LET pair == c.pairs[id]
      consumed == [c EXCEPT !.pairs[id].consumed = @ + 1]
  IN CASE id \notin DOMAIN c.pairs -> [commits |-> c, closed |-> TRUE]
       [] pair.answered # {"First", "Second"} -> [commits |-> consumed, closed |-> FALSE]
       [] pair.consumed = 0 -> [commits |-> consumed, closed |-> FALSE]
       [] OTHER -> [commits |-> [c EXCEPT !.pairs = WithoutKeys(@, {id})], closed |-> TRUE]

-----------------------------------------------------------------------------
(* The core: machine, memory, timing lane, commit lane, requests           *)

NewCore(m, mode) ==
  [m |-> m, mem |-> <<>>, pc |-> 0, tick |-> 0, halted |-> FALSE, error |-> "None",
   timing |-> NewTiming, commits |-> [NewCommits EXCEPT !.mode = mode],
   ingress |-> <<>>, refused |-> 0, flight |-> <<>>, open |-> {}, next |-> 1]

InstructionsPending(core) ==
  core.ingress # <<>> \/ core.open # {} \/ DOMAIN core.commits.pending # {} \/ DOMAIN core.commits.pairs # {}
  \/ core.commits.retirements # <<>>
BarrierAllBlocked(core) == PendingDrain(core.timing) # {} \/ InstructionsPending(core)

\* The oldest notification that is due
RetireNext(core) ==
  LET token == Head(core.commits.retirements)
      popped == [core.commits EXCEPT !.retirements = Tail(@)]
      entry == CHOOSE e \in core.open : e.id = token.id
      load == RetireLoad(core.m, popped, token.id)
      store == RetireStore(popped, token.id)
      closed(b) == IF b THEN {e \in core.open : e.id # token.id} ELSE core.open
  IN CASE core.commits.retirements = <<>> -> core
       [] token.ready > core.tick -> core
       [] token.kind = "Load" ->
            [core EXCEPT !.m = load.m, !.commits = load.commits, !.open = closed(load.closed)]
       [] token.kind = "Store" -> [core EXCEPT !.commits = store.commits, !.open = closed(store.closed)]
       \* An atomic store executes now, with the special registers as they are now, and writes its base again
       [] token.kind = "Atomic" ->
            [core EXCEPT !.mem = ExecuteAtomic(core.m, core.mem, entry.ops), !.commits = popped, !.open = closed(TRUE),
                         !.m = UpdateBase(core.m, entry.ops, entry.ops)]
       [] OTHER -> [core EXCEPT !.commits = popped, !.open = closed(TRUE)]

\* The request is mapped with the roots of the tick of its admission
MappedCell(m, ops) ==
  LET mapped == MappedAddress(ops.address, SprValue(m, 67), SprValue(m, 68))
  IN [ok |-> mapped.ok, at |-> IF mapped.ub THEN Size + mapped.address ELSE mapped.address]
CrossesLine(at, n) == (at % LineCells) + n > LineCells
Splits(ops, at) ==
  (IF ops.kind = "Load" THEN ops.second # Absent ELSE ops.kind = "Store" /\ ops.pair)
  /\ at \div LineCells # (at + ops.width) \div LineCells
Requests(entry, split, values) ==
  LET request(part) == [id |-> entry.id, kind |-> entry.ops.kind, part |-> part, values |-> values, age |-> 0]
  IN IF split THEN <<request("First"), request("Second")>> ELSE <<request("Both")>>

AdmitHead(core) ==
  LET entry == Head(core.ingress)
      ops == entry.ops
      cell == MappedCell(core.m, ops)
      w == ops.width
      split == Splits(ops, cell.at)
      loaded == <<ReadCells(core.mem, cell.at, w), ReadCells(core.mem, cell.at + w, w)>>
      one == WriteCells(core.mem, cell.at, w, ops.value)
      admitted == [core EXCEPT !.ingress = Tail(@), !.refused = 0]
  IN CASE ops.kind = "Maintenance" -> [admitted EXCEPT !.flight = @ \o Requests(entry, FALSE, <<>>)]
       [] ~cell.ok -> [core EXCEPT !.error = "LsuAddress"]
       [] ops.kind = "Load" ->
            [admitted EXCEPT !.flight = @ \o Requests(entry, split, loaded),
                             !.commits = AdmitLoad(@, entry.id, split)]
       [] ops.kind = "Store" ->
            [admitted EXCEPT !.flight = @ \o Requests(entry, split, <<>>),
                             !.mem = IF ops.pair THEN WriteCells(one, cell.at + w, w, ops.value2) ELSE one,
                             !.commits = IF split THEN AdmitStorePair(@, entry.id) ELSE @]
       [] ops.kind = "Direct" -> [admitted EXCEPT !.flight = @ \o Requests(entry, FALSE, <<>>), !.mem = one]
       [] OTHER -> [admitted EXCEPT !.flight = @ \o Requests(entry, FALSE, <<>>)]

\* The head of the ingress leaves it after the tick of its dispatch, when the pipeline takes it
CanAdmit(core) == core.ingress # <<>> /\ Head(core.ingress).tick < core.tick
AdmitIngress(core, grant) ==
  CASE ~CanAdmit(core) -> core
    [] grant \/ core.refused >= MaxRefusal -> AdmitHead(core)
    [] OTHER -> [core EXCEPT !.refused = @ + 1]

\* One request of those in flight is answered, or none
Deliver(core, k, path) ==
  LET answer == core.flight[k] @@ [path |-> path]
      data == CompleteData(core.m, core.commits, core.tick, answer)
      left == [core EXCEPT !.flight = RemoveAt(@, k)]
  IN CASE answer.kind = "Load" -> [left EXCEPT !.m = data.m, !.commits = data.commits]
       [] answer.kind = "Store" -> [left EXCEPT !.commits = CompleteStore(core.commits, core.tick, answer)]
       [] OTHER -> [left EXCEPT !.commits = Notified(core.commits, core.tick, answer.kind, answer.id)]
Aged(core) == [core EXCEPT !.flight = [k \in DOMAIN core.flight |-> [core.flight[k] EXCEPT !.age = @ + 1]]]
\* The requests that may be answered: any, but the oldest when it has waited long enough
MayAnswer(core) ==
  IF core.flight # <<>> /\ Head(core.flight).age >= MaxAnswer THEN {1} ELSE {0} \cup DOMAIN core.flight

Answered(ready, k, path) == IF k = 0 \/ k > Len(ready.flight) THEN ready ELSE Deliver(ready, k, path)
AdvanceLsu(core, grant, k, path) == Answered(Aged(AdmitIngress(RetireNext(core), grant)), k, path)

-----------------------------------------------------------------------------
(* Dispatch                                                                *)

\* A variable result also waits for the pending result of its own register
ResumeTicks(core, c) ==
  LET t == core.timing
      due(n) == IF n > core.tick THEN {n} ELSE {}
      rule == TimingRule(c)
      sprs == UNION {due(PendingSpr(t, s)) : s \in GateSprs(c)}
      own == IF rule.class = "Variable" THEN due(PendingXreg(t, rule.destination)) ELSE {}
      registers == UNION {due(PendingXreg(t, r)) \cup (IF r \in DOMAIN core.commits.owners THEN {core.tick + 1} ELSE {})
                          : r \in GateRegisters(c)}
  IN IF c.immediate # NoWord THEN sprs ELSE sprs \cup own \cup registers
\* A move to the control registers of the units waits for every unit
SprDispatchDependency(core, c) ==
  c.scalar.kind = "MoveToSpr" /\ c.scalar.spr \in {2, 48, 49, 50, 51} /\ BarrierAllBlocked(core)
SprsPending(core, S) == \E s \in S : PendingSpr(core.timing, s) > core.tick

\* A memory instruction takes its operands, moves its base and waits in the ingress
Enqueue(core, ops) ==
  [core EXCEPT !.ingress = Append(@, [id |-> core.next, tick |-> core.tick, ops |-> ops]),
               !.open = @ \cup {[id |-> core.next, ops |-> ops]}, !.next = @ + 1, !.pc = After(@),
               !.m = IF ops.kind \in {"Store", "Atomic"} THEN UpdateBase(@, ops, ops) ELSE @]
IngressFull(core) == Len(core.ingress) = IngressLimit
Fault(core, what) == [core EXCEPT !.error = what]

\* A pair over two lines must be aligned to its width
SplitMisaligned(pair, ops) == pair /\ CrossesLine(ops.address, 2 * ops.width) /\ ops.address % ops.width # 0
StepLoad(core, c) ==
  LET ops == LoadOperands(core.m, c.scalar)
      D == LoadDestinations(ops)
      based == [core EXCEPT !.m = UpdateBase(@, ops, ops), !.commits = IssueLoad(@, core.next, ops),
                            !.timing = FoldSet(LAMBDA r, t : SupersedeDestination(t, r), @, D)]
  IN CASE SplitMisaligned(ops.second # Absent, ops) -> Fault(core, "UnsupportedTimedLsuAccess")
       [] SprsPending(core, {67, 68}) \/ (\E r \in D : LoadWaw(core.timing, r) > core.tick) -> core
       [] IngressFull(core) -> core
       [] OTHER -> Enqueue(based, ops)
StepStore(core, c) ==
  LET ops == StoreOperands(core.m, c.scalar)
  IN CASE SplitMisaligned(ops.pair, ops) -> Fault(core, "UnsupportedTimedLsuAccess")
       [] SprsPending(core, {67, 68}) \/ IngressFull(core) -> core
       [] OTHER -> Enqueue(core, ops)
StepDirectStore(core, c) ==
  IF SprsPending(core, {67, 68}) \/ IngressFull(core) THEN core ELSE Enqueue(core, DirectStoreOperands(core.m, c.direct))
StepPreload(core, c) == IF IngressFull(core) THEN core ELSE Enqueue(core, PreloadOperands(core.m, c.preload))
StepMaintenance(core, c) ==
  IF IngressFull(core) THEN core
  ELSE Enqueue(core, [kind |-> "Maintenance", address |-> core.m.x[c.dcci.n], entire |-> c.dcci.entire, width |-> 1,
                      base |-> 0, updated |-> Absent])
StepAtomicStore(core, c) ==
  LET ops == AtomicOperands(core.m, c.atomic)
  IN CASE SprsPending(core, {3, 67, 90}) -> core
       [] CrossesLine(ops.address, ops.width) -> Fault(core, "UnsupportedTimedLsuAccess")
       [] IngressFull(core) -> core
       [] ~IsExternal(ops, SprValue(core.m, 67)) -> Fault(core, "LocalAddress")
       [] OTHER -> Enqueue(core, ops)

\* A word of the scalar unit executes at once; its ticket says when its results count
Executed(core, c, o, rule, s) ==
  LET ticket == [class |-> rule.class, destination |-> rule.destination, retire |-> core.tick + rule.latency]
      ticketed == IF rule.class = "None" THEN core.timing ELSE IssueTicket(core.timing, ticket)
  IN IF o.error # "None" THEN Fault(core, o.error)
     ELSE [core EXCEPT !.m = o.m, !.mem = o.mem, !.pc = o.next, !.halted = o.end, !.next = @ + 1,
                       !.commits = IF rule.destination = Absent THEN @ ELSE Supersede(@, rule.destination),
                       !.timing = IF s \in {Absent, 3} THEN ticketed ELSE IssueSpr(ticketed, s, core.tick + 1)]
StepScalar(core, c) ==
  Executed(core, c, StepScalarWord(core.m, core.mem, core.pc, c, TRUE), TimingRule(c), WriteDestination(c))

Stalled(core, c) == ResumeTicks(core, c) # {} \/ SprDispatchDependency(core, c)
\* Words of the other units and of the flags are dispatched by their own frontends
Dispatch(core, c) ==
  CASE core.halted \/ core.error # "None" -> core
    [] Stalled(core, c) -> core
    [] c.preload # NoWord -> StepPreload(core, c)
    [] c.atomic # NoWord -> StepAtomicStore(core, c)
    [] c.direct # NoWord -> StepDirectStore(core, c)
    [] c.dcci # NoWord -> StepMaintenance(core, c)
    [] c.scalar.kind \in LoadKinds -> StepLoad(core, c)
    [] c.scalar.kind \in StoreKinds -> StepStore(core, c)
    [] c.barrier # NoWord ->
         IF BarrierAllBlocked(core) THEN core ELSE [core EXCEPT !.pc = After(@), !.next = @ + 1]
    [] OTHER -> StepScalar(core, c)

-----------------------------------------------------------------------------
(* The program as if each instruction ended before the next began          *)
Sequential(m, mem, pc, c) ==
  LET direct == DirectStoreOperands(m, c.direct)
      atomic == AtomicOperands(m, c.atomic)
  IN CASE c.preload # NoWord -> Outcome(m, mem, After(pc))
       [] c.atomic # NoWord -> Outcome(UpdateBase(m, atomic, atomic), ExecuteAtomic(m, mem, atomic), After(pc))
       [] c.direct # NoWord ->
            Outcome(m, WriteCells(mem, MappedCell(m, direct).at, direct.width, direct.value), After(pc))
       [] OTHER -> StepScalarWord(m, mem, pc, c, TRUE)

(* Four orders in which the timed core does not give what the program says.*)
\* A pair load lost one of its registers to a newer writer: the other one is never written
HalfSuperseded(core) ==
  \E id \in DOMAIN core.commits.pending :
    core.commits.pending[id].suppressed /\ \E r \in DOMAIN core.commits.owners : core.commits.owners[r] = id
\* With data bypass, half of a split pair load is written with 0
BypassedHalf(core) ==
  core.commits.mode = "DataBypass"
  /\ \E id \in DOMAIN core.commits.pending :
       LET p == core.commits.pending[id] IN p.split /\ (p.answers[1] = Absent) # (p.answers[2] = Absent)
\* The roots change under a request that is not mapped yet, or the controls under an atomic store
MovesUnderRequest(core, c) ==
  \/ WriteDestination(c) \in {67, 68} /\ core.ingress # <<>>
  \/ WriteDestination(c) \in {3, 67, 90} /\ \E e \in core.open : e.ops.kind = "Atomic"
\* The base of a post-indexed atomic store has a newer writer, whose value the retirement overwrites
OverwritesBase(core, c) ==
  \E e \in core.open :
    /\ e.ops.kind = "Atomic" /\ e.ops.updated # Absent
    /\ \/ TimingRule(c).destination = e.ops.base
       \/ c.scalar.kind \in LoadKinds /\ e.ops.base \in LoadDestinations(LoadOperands(core.m, c.scalar))
       \/ c.scalar.kind \in LoadKinds \cup StoreKinds /\ c.scalar.base = e.ops.base
       \/ c.atomic # NoWord /\ c.atomic.base = e.ops.base
Strays(before, after, c) ==
  HalfSuperseded(after) \/ BypassedHalf(after)
  \/ (after.next # before.next /\ (MovesUnderRequest(before, c) \/ OverwritesBase(before, c)))

-----------------------------------------------------------------------------
(* Programs of the scalar unit, word by word and tick by tick              *)
VARIABLES code,   \* the instructions of the program
          core,   \* the core in time
          ref,    \* machine and memory of the program executed in order
          stray   \* one of the four orders has happened

issueVars == <<code, core, ref, stray>>

InCode(c) == c.pc % 4 = 0 /\ (c.pc \div 4) + 1 \in DOMAIN code
Finished(c) == (c.halted \/ c.error # "None" \/ ~InCode(c)) /\ ~InstructionsPending(c) /\ PendingDrain(c.timing) = {}

IssueInit ==
  \E p \in ScalarPrograms :
    LET m == NewMachine("Dav2201", p.x, p.spr)
    IN /\ code = [k \in DOMAIN p.words |-> Instruction("Dav2201", p.words[k])]
       /\ core = NewCore(m, p.mode)
       /\ ref = Outcome(m, <<>>, 0)
       /\ stray = FALSE

\* The units advance to the tick, then the next word is tried
ServedAt(grant, k, path) ==
  AdvanceLsu([core EXCEPT !.tick = @ + 1, !.timing = AdvanceTiming(@, core.tick + 1)], grant, k, path)
Dispatched(served, after, c) ==
  /\ core' = after
  /\ ref' = IF after.next = served.next THEN ref
            ELSE Sequential(ref.m, ref.mem, served.pc, c)
  /\ stray' = (stray \/ Strays(served, after, c))
IssueStep(served) ==
  IF InCode(served)
  THEN Dispatched(served, Dispatch(served, code[(served.pc \div 4) + 1]), code[(served.pc \div 4) + 1])
  ELSE core' = served /\ stray' = (stray \/ HalfSuperseded(served) \/ BypassedHalf(served)) /\ UNCHANGED ref
IssueTick(grant, k, path) == IssueStep(ServedAt(grant, k, path)) /\ UNCHANGED code

\* Whether the pipeline takes the head, which request is answered and along which path is the LSU's
IssueNext ==
  /\ core.tick < MaxScalarTick /\ ~Finished(core)
  /\ \E grant \in IF core.ingress = <<>> THEN {TRUE} ELSE BOOLEAN, k \in MayAnswer(core) :
       \E path \in IF k # 0 /\ core.flight[k].part # "Both" THEN {"Cache", "Refill"} ELSE {"Cache"} :
         IssueTick(grant, k, path)

-----------------------------------------------------------------------------
(* Properties                                                              *)

\* Whatever the answers' order, a register that no load owns holds what the program in order gives,
\* and so do the special registers: no word read an operand too early, no late answer replaced a
\* newer value.  (dispatch.rs:89-96, timing.rs:81-432, commit.rs:278-324)
RegistersAgree ==
  /\ \A r \in 0..31 : r \in DOMAIN core.commits.owners \/ core.m.x[r] = ref.m.x[r]
  /\ 32 \in DOMAIN core.commits.owners \/ core.m.x32 = ref.m.x32
  /\ core.m.spr = ref.m.spr /\ core.m.spr2 = ref.m.spr2
\* Memory has every store that left the ingress
MemoryAgrees ==
  (core.ingress = <<>> /\ \A e \in core.open : e.ops.kind # "Atomic") =>
    \A k \in DOMAIN core.mem \cup DOMAIN ref.mem : CellAt(core.mem, k) = CellAt(ref.mem, k)
\* An owner is a load that is on its way and will write the register
OwnersLive ==
  \A r \in DOMAIN core.commits.owners :
    LET id == core.commits.owners[r]
    IN /\ id \in DOMAIN core.commits.pending /\ ~core.commits.pending[id].suppressed
       /\ r \in LoadDestinations(core.commits.pending[id].ops)
\* The timed core computes what the program in order computes, its notifications never overflow, and
\* every program ends: no word waits for ever.  (dispatch.rs:66-329, commit.rs, retirement.rs)
TimedAsSequential ==
  \/ stray
  \/ /\ RegistersAgree /\ MemoryAgrees /\ OwnersLive
     /\ ~core.commits.overflow /\ core.error = "None"
     /\ core.tick = MaxScalarTick => Finished(core)

-----------------------------------------------------------------------------
(* Word by word: what the dispatcher believes of a word (the registers it  *)
(* waits for, the register its result goes to, the decoder that takes it)  *)
(* against what the executors do with it.  The dispatcher and the machine  *)
(* decode each word on their own, in tables that nothing keeps equal.      *)
(*   scalar/timing.rs, timing/rules.rs, sim/common/scalar/*.rs,            *)
(*   src/src/isa/flow.rs                                                   *)

CONSTANTS ProbedWords,     \* words of the scalar unit and of flow control
          ProbedXregs,     \* a value of each register
          Perturbations    \* what is added to the registers a word does not wait for

VARIABLE probed            \* the word, or Absent
ProbeInit == probed \in ProbedWords

ProbeMachine(x) == NewMachine("Dav2201", x, [s \in Sprs |-> IF s \in {11, 68} THEN 1 ELSE 0])
Perturbed(kept, delta) == [r \in 0..31 |-> IF r \in kept THEN ProbedXregs[r] ELSE ProbedXregs[r] + delta]
ChangedRegisters(m, n) == {r \in 0..31 : m.x[r] # n.x[r]}

\* Two outcomes that no later word can tell apart, but by registers the word left alone
SameOutcome(o1, o2, untouched) ==
  /\ o1.next = o2.next /\ o1.error = o2.error /\ o1.end = o2.end /\ o1.mem = o2.mem
  /\ o1.m.spr = o2.m.spr /\ o1.m.spr2 = o2.m.spr2
  /\ \A r \in 0..31 \ untouched : o1.m.x[r] = o2.m.x[r]
RunsAlike(c, before, other) ==
  LET o1 == Sequential(before, <<>>, 400, c)
      o2 == Sequential(other, <<>>, 400, c)
  IN SameOutcome(o1, o2, (0..31) \ (ChangedRegisters(before, o1.m) \cup ChangedRegisters(other, o2.m)))
\* A word reads no register it does not wait for: changing all the others changes nothing it does.
\* (timing.rs:81-132, 184-431)
GateCoversReads(c) ==
  \A delta \in Perturbations :
    RunsAlike(c, ProbeMachine(ProbedXregs), ProbeMachine(Perturbed(GateRegisters(c), delta)))

\* A word writes only the register of its ticket, those its load owns, and the base it waited for.
\* (rules.rs:22-252, load.rs:128-131)
MovedBase(c) ==
  CASE c.atomic # NoWord -> {c.atomic.base}
    [] c.scalar.kind \in (LoadKinds \cup StoreKinds) \ {"PairLoad", "PairStore"} -> {c.scalar.base}
    [] OTHER -> {}
OwnedRegisters(c) ==
  CASE c.preload # NoWord \/ c.scalar.kind \notin LoadKinds -> {}
    [] c.scalar.kind = "PairLoad" -> {c.scalar.first, c.scalar.second}
    [] OTHER -> {c.scalar.data}
TicketCoversWrites(c) ==
  /\ ChangedRegisters(ProbeMachine(ProbedXregs), Sequential(ProbeMachine(ProbedXregs), <<>>, 400, c).m)
       \subseteq {TimingRule(c).destination} \cup OwnedRegisters(c) \cup MovedBase(c)
  /\ MovedBase(c) \subseteq GateRegisters(c)

\* Apart from compare-and-jump words, which the decoders of END, DSB, DCCI and flags may take first, a
\* word of flow control has one decoder: the order in which the units ask them does not matter.
\* (flow.rs:50-60, 123-409, control.rs:1-48)
FlowDecoders(c) == <<c.barrier, c.dcci, c.dsb, c.end, c.nop, c.jump, c.conditional, c.compare, c.flag, c.crossCore, c.deviceFlag>>
OneDecoder(c) == Cardinality({k \in DOMAIN FlowDecoders(c) : FlowDecoders(c)[k] # NoWord}) <= 1

WordAgrees(c) ==
  IF OneDecoder(c) THEN GateCoversReads(c) /\ TicketCoversWrites(c) ELSE c.compare # NoWord
WordsAgree == probed # Absent => WordAgrees(Instruction("Dav2201", probed))

\* The timed core does what the words of a program say, one after the other, and what it takes from a
\* word before it executes it is what the word does.  (dispatch.rs:66-329)
ScalarAgrees == TimedAsSequential /\ WordsAgree
=============================================================================
