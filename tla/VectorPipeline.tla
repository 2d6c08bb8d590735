--------------------------- MODULE VectorPipeline ---------------------------
(***************************************************************************)
(* The vector pipeline of a C220 core, from the queue of the front end to  *)
(* retirement: dispatch with its stalls, admission of the uops, their      *)
(* reads from and writes to the unified buffer, the conflict check, the    *)
(* release in order, the commit of the results, and barriers.              *)
(*                                                                         *)
(* Most instructions are executed as a whole when their last uop has been  *)
(* released ("deferred"); a move and the reductions write the UB uop by    *)
(* uop, when the write is visible, and a reduction and a load of addresses *)
(* take their operands when the UB grants them.  The state is one record   *)
(* and a tick is one step.                                                 *)
(*                                                                         *)
(* Data: a block of the UB holds the number of the instruction that wrote  *)
(* it last; the registers that instructions share are blocks as well.      *)
(***************************************************************************)
EXTENDS VectorPlan, UbBlocks, FiniteSets

CONSTANTS
  Catalogue,         \* the instructions that are used, by name
  Programs,          \* sequences of items [op, name, gap]
  DispatchTicks,     \* reception_ticks of the front end
  UopIssueInterval, IssueQueueCapacity, OutstandingLimit,
  VisibleTicks       \* ub_response_ticks

VARIABLE vpipe
vpipeVars == <<vpipe>>

Never == -1
Due(tick, now) == tick # Never /\ tick <= now
ReadQueueCapacity == 2
RetirementTicks == 2          \* VECTOR_RETIREMENT_BOUNDARY_TICKS
GatherIndexReadyTicks == 10

\* Registers that instructions share
CompareMaskReg == -1
VaReg == -2

-----------------------------------------------------------------------------
(* The requests of a uop *)

Bank(address) == BankGroup(address) + 16 * ((address \div 65536) % 4)
BlocksAt(address, bytes) == (address \div BlockBytes)..((address + bytes - 1) \div BlockBytes)
\* build: an access is split at the blocks of the UB.
Split(address, bytes, partial) ==
  [k \in 1..Cardinality(BlocksAt(address, bytes)) |->
     LET blk == (address \div BlockBytes) + k - 1
     IN  [blk |-> blk, bank |-> Bank(blk * BlockBytes), progress |-> "Waiting", age |-> 0, partial |-> partial]]
AccessKey(a) == (a.src * 256 + a.off) * 65536 + a.addr
InOrder(accesses) ==
  [n \in 1..Cardinality(accesses) |->
     CHOOSE a \in accesses : Cardinality({b \in accesses : AccessKey(b) < AccessKey(a)}) = n - 1]
ReadPort(accesses) ==
  LET seq == InOrder(accesses) IN FlattenSeq([n \in 1..Len(seq) |-> Split(seq[n].addr, seq[n].bytes, FALSE)])
FromSources(accesses, sources) == {a \in accesses : a.src \in sources}

\* routed_pair: an access that two sources share is requested once, on the
\* port of the first.
Unique(accesses) ==
  {a \in accesses : ~\E b \in accesses :
     a.addr = b.addr /\ a.bytes = b.bytes /\ AccessKey(b) < AccessKey(a)}
RoutedPair(accesses, ports) ==
  <<ReadPort({a \in Unique(accesses) : ports[a.src + 1] = 0}),
    ReadPort({a \in Unique(accesses) : ports[a.src + 1] = 1}), <<>> >>
ReadPorts(i, u) ==
  LET accesses == ScheduledReads(i, u) IN
  CASE ~HasRead(i, u) -> <<<<>>, <<>>, <<>>>>
    [] i.kind \in AccumulatorKinds ->
         RoutedPair(accesses, SourcePorts(NewAccumulator(i, MixedLanes(i)), u.rep))
    [] i.kind = "Gather" /\ ~i.blocks /\ u.kind.k = "Data" -> RoutedPair(accesses, <<0, 1, 1>>)
    [] OTHER -> <<ReadPort(FromSources(accesses, {0})), ReadPort(FromSources(accesses, {1})),
                   ReadPort(FromSources(accesses, {2}))>>

\* C220VectorWritePlan::from_stores, from_writes: a block that is not aligned
\* is two blocks that are partly written.
WriteRequest(stores) ==
  LET blocks == WriteBlocks(stores)
      key(b) == b.rep * BlockCount + b.block
      seq == [n \in 1..Cardinality(blocks) |->
                CHOOSE b \in blocks : Cardinality({c \in blocks : key(c) < key(b)}) = n - 1]
  IN  FlattenSeq([n \in 1..Len(seq) |->
        Split(seq[n].base, BlockBytes, ~seq[n].full \/ seq[n].base % BlockBytes # 0)])

-----------------------------------------------------------------------------
(* Classes of instructions for the hazards of issue *)

\* FunctionalInstruction::from_issue: what is executed at its last release
Deferred(i) == i.kind \notin {"Reduction", "LoadVa", "Move", "NoEffect", "Control"}

QueueClass(i) ==
  CASE i.kind = "Reduction" /\ i.rk # "PairAdd" -> i.rk
    [] i.kind = "Axpy" -> "Axpy"
    [] i.kind = "Ternary" /\ i.op = "MultiplyAccumulate" -> "MultiplyAccumulate"
    [] i.kind = "NoEffect" /\ i.op \in {"Vrpac", "Vms4"} -> i.op
    [] OTHER -> "Ordinary"
IsBlockedBy(new, queued) ==
  \/ "Vms4" \in {new, queued}
  \/ new = "Vrpac" /\ queued \in {"MultiplyAccumulate", "Axpy", "WholeAdd", "GroupAdd"}
  \/ new = "WholeAdd" /\ queued \in {"MultiplyAccumulate", "Axpy", "GroupAdd"}
  \/ new = "GroupAdd" /\ queued \in {"MultiplyAccumulate", "Axpy", "WholeAdd"}
  \/ new = "WholeExtremum" /\ queued = "GroupExtremum"

\* C220VectorIssueVariant::from_compute
IssueVariant(i) ==
  CASE i.kind = "Arithmetic" /\ i.op = "Divide" -> "SlowDivide"
    [] i.kind = "Special" /\ i.op = "Sqrt" -> "SlowDivide"
    [] i.kind = "Special" /\ i.op = "Ln"   -> "Log"
    [] i.kind = "Special" /\ i.op = "Exp"  -> "Exp"
    [] i.kind = "Axpy" \/ (i.kind = "Ternary" /\ i.op \in {"MultiplyAccumulate", "MultiplyAddRelu"}) -> "Fma"
    [] i.kind = "Reduction" /\ i.rk = "WholeAdd" -> IF i.fmt = "F32" THEN "WholeAdd32" ELSE "WholeAdd16"
    [] i.kind = "Reduction" /\ i.rk = "GroupAdd" -> IF i.fmt = "F32" THEN "GroupAdd32" ELSE "GroupAdd16"
    [] i.kind = "Conversion" /\ i.deq # "None" -> "SpecialConversion"
    [] i.kind = "Conversion" /\ i.sb = 32 /\ i.db = 16 /\ i.scaled -> "ScalarS32Dequant"
    [] i.kind = "Fused" /\ i.op \in {"AddRelu", "SubtractRelu"} /\ i.fmt = "F16ToS8" -> "NarrowRelu"
    [] i.kind = "Fused" /\ i.op \in {"AddRelu", "SubtractRelu"} /\ i.fmt = "F32ToF16" -> "Relu"
    [] i.kind = "Fused" /\ i.op = "Multiply" /\ i.fmt = "F16ToS8" -> "MulConversion"
    [] i.kind = "Sort" -> IF i.w = 2 THEN "Sort16" ELSE "Sort32"
    [] OTHER -> "Other"

\* minimum_gap_from: <<variants, the ones before them, ticks between>>
Relu == {"Relu", "NarrowRelu"}
FullAdds == {"WholeAdd16", "WholeAdd32", "GroupAdd16", "GroupAdd32"}
Gaps ==
  {<<{"Fma"}, FullAdds \cup Relu, 5>>, <<{"Fma"}, {"SpecialConversion"}, 3>>,
   <<{"Log"}, {"Fma"}, 6>>,
   <<{"Exp"}, {"Log", "SlowDivide"}, 2>>, <<{"Exp", "SlowDivide"}, {"SpecialConversion"}, 5>>,
   <<{"Exp", "SlowDivide"}, {"Fma", "MulConversion"}, 6>>,
   <<{"WholeAdd32"}, {"WholeAdd16"}, 4>>,
   <<{"GroupAdd16"}, {"WholeAdd32"}, 4>>, <<{"GroupAdd16"}, Relu, 10>>,
   <<{"GroupAdd32"}, {"WholeAdd16", "GroupAdd16"}, 4>>, <<{"GroupAdd32"}, Relu, 7>>,
   <<{"SpecialConversion"}, {"Fma"}, 2>>,
   <<{"ScalarS32Dequant"}, {"SpecialConversion", "Fma", "MulConversion"}, 2>>,
   <<{"NarrowRelu", "MulConversion"}, {"SpecialConversion", "ScalarS32Dequant"}, 6>>,
   <<{"Sort16", "Sort32"}, {"Sort16", "Sort32"}, 16>>,
   <<{"Sort16"}, {"Sort16"}, 17>>, <<{"Sort32"}, {"Sort32"}, 17>>}
MinimumGap(new, previous) ==
  Max({1} \cup {g[3] : g \in {x \in Gaps : new \in x[1] /\ previous \in x[2]}})

\* RepeatOpcode::from_compute
RepeatOpcode(i) ==
  CASE i.kind = "Arithmetic" -> <<i.kind, i.op, i.fmt>>
    [] i.kind = "Ternary"    -> <<i.kind, i.op, i.w, i.dw>>
    [] i.kind = "Axpy"       -> <<i.kind, i.w, i.dw>>
    [] OTHER -> <<>>

-----------------------------------------------------------------------------
(* The instructions of a program *)

StoreBlocks(stores) == UNION {BlocksAt(s.addr, s.w) : s \in stores}
AccessBlocks(accesses) == UNION {BlocksAt(a.addr, a.bytes) : a \in accesses}

\* Registers that an instruction reads and writes besides the UB
WritesCompareMask(i) == i.kind = "CompareMask" \/ (i.kind = "MoveMask" /\ i.fromMemory)
SharedReads(i) ==
  IF (i.kind = "Select" /\ i.mode # "TensorScalar") \/ (i.kind = "MoveMask" /\ ~i.fromMemory)
    THEN {CompareMaskReg} ELSE {}
SharedWrites(i) ==
  (IF i.kind = "LoadVa" THEN {VaReg} ELSE {}) \cup (IF WritesCompareMask(i) THEN {CompareMaskReg} ELSE {})

\* What the execution of an instruction reads and writes
FunctionalReads(i) == AccessBlocks(UNION {Captured(i, r) : r \in ExecutedRepeats(i)})
AllWrites(i) == StoreBlocks(PlanOf(i).stores) \cup SharedWrites(i)
AllReads(i) ==
  SharedReads(i) \cup (IF i.kind = "Gather" THEN AccessBlocks({GatherIndices(i, r) : r \in ExecutedRepeats(i)})
                       ELSE IF i.kind = "Move" THEN {} ELSE FunctionalReads(i))

Uses(i) == [reads |-> AllReads(i), writes |-> AllWrites(i)]

\* PendingVectorUop as it enters the pipeline
Entry(i, uops, stores, n) ==
  LET u == uops[n] IN
  [read |-> ReadTicks(u), exec |-> u.exec, wb |-> u.wb, issueGap |-> IssueGap(i, u),
   variant |-> IssueVariant(i), opcode |-> RepeatOpcode(i), class |-> QueueClass(i),
   deferred |-> Deferred(i), loadVa |-> i.kind = "LoadVa",
   comparing |-> WritesCompareMask(i) /\ HasRead(i, u), compareApplied |-> FALSE,
   last |-> n = Len(uops), stores |-> StoreBlocks(stores[n]), hasRead |-> HasRead(i, u),
   ports |-> ReadPorts(i, u), shared |-> SharedRead(i, u),
   write |-> IF stores[n] = {} \/ ~u.writes THEN <<>> ELSE WriteRequest(stores[n]),
   produces |-> IF i.kind = "Gather" /\ u.kind.k = "Data" THEN PrefetchRepeat(i, u.rep) ELSE Never,
   requires |-> IF i.kind = "Gather" /\ u.kind.k = "Data" /\ WaitsForPrefetch(i, u.rep) THEN u.rep ELSE Never,
   reduces |-> i.kind = "Reduction" /\ CrossRepeatState(i), update |-> i.kind = "Reduction" /\ i.masks = <<>>,
   applied |-> FALSE, vaUpdate |-> FALSE, vaApplied |-> FALSE,
   id |-> 0, group |-> 0, admission |-> 0, admitted |-> FALSE, conflict |-> Never, ready |-> Never,
   sampled |-> FALSE, executed |-> Never, eligible |-> Never, release |-> Never, retirement |-> Never,
   visible |-> Never, written |-> Never, committed |-> FALSE]
CompiledEntries(i, uops, stores) == FlattenSeq([n \in 1..Len(uops) |-> <<Entry(i, uops, stores, n)>>])
Compiled(i) ==
  CompiledEntries(i, Uops(i, PlanOf(i).stores), UopStores(i, Uops(i, PlanOf(i).stores), PlanOf(i).stores))
\* The instructions, compiled once, and the blocks and registers they use
Tabulate(Of(_), names) == FoldSet(LAMBDA name, table : table @@ (name :> Of(Catalogue[name])), <<>>, names)
Code    == Tabulate(Compiled, DOMAIN Catalogue)
Effects == Tabulate(Uses, DOMAIN Catalogue)
EffectsOf(item) ==
  CASE item.op = "Vector" -> Effects[item.name]
    [] item.op = "Register" -> [reads |-> {}, writes |-> {VaReg}]
    [] OTHER -> [reads |-> {}, writes |-> {}]

\* The data at the start: every block is from before the program.
CellsOf(p) == {VaReg, CompareMaskReg} \cup UNION {EffectsOf(p[k]).reads \cup EffectsOf(p[k]).writes : k \in 1..Len(p)}
Start(p) ==
  [program |-> p, now |-> 0, at |-> 1, wait |-> 0, issued |-> <<>>, received |-> <<>>,
   barriers |-> <<>>, lastAccepted |-> 0, running |-> <<>>, retired |-> <<>>, lastRetired |-> Never,
   pending |-> <<>>, nextAdmission |-> 0, nextActual |-> 0, lastRelease |-> Never,
   lastCheck |-> Never, groups |-> 0, registers |-> {}, prefetched |-> {},
   cells |-> [c \in CellsOf(p) |-> 0], seen |-> [k \in 1..Len(p) |-> {}], unsafe |-> FALSE]
VpInit == \E p \in Programs : vpipe = Start(p)

-----------------------------------------------------------------------------
(* Data *)

See(s, id, cells)   == [s EXCEPT !.seen[id] = @ \cup {<<c, s.cells[c]>> : c \in cells}]
Write(s, id, cells) == [s EXCEPT !.cells = [c \in DOMAIN @ |-> IF c \in cells THEN id ELSE @[c]]]
EffectsAt(s, id) == EffectsOf(s.program[id])
IssueAt(s, id) == Catalogue[s.program[id].name]

\* Each entry of the pipeline in turn
EachEntry(s, Step(_, _)) ==
  LET turn[n \in 0..Len(s.pending)] == IF n = 0 THEN s ELSE Step(turn[n - 1], n)
  IN  turn[Len(s.pending)]

\* commit_ready, complete_functional_instruction
CommitEntry(s, n) ==
  LET e == s.pending[n] IN
  IF e.committed \/ ~Due(e.visible, s.now) THEN s
  ELSE IF ~e.deferred THEN Write([s EXCEPT !.pending[n].committed = TRUE], e.id, e.stores)
  ELSE Write(See([s EXCEPT !.prefetched = {x \in @ : x.group # e.group},
                           !.pending = [k \in DOMAIN @ |->
                    IF k = n THEN [@[k] EXCEPT !.committed = TRUE, !.compareApplied = TRUE]
                    ELSE IF @[k].group = e.group THEN [@[k] EXCEPT !.compareApplied = TRUE] ELSE @[k]]],
                 e.id, EffectsAt(s, e.id).reads), e.id, EffectsAt(s, e.id).writes)
CommitReady(s) == EachEntry(s, CommitEntry)

-----------------------------------------------------------------------------
(* Admission and the conflict check *)

Positions(s, n) == {k \in 1..Len(s.pending) : k <= n}
FirstOf(set) == IF set = {} THEN 0 ELSE Min(set)
LastOf(set)  == IF set = {} THEN 0 ELSE Max(set)

\* admit_ready: the uops whose reads have not passed the conflict check are
\* at most two.
AdmitReady(s) ==
  LET occupied == {k \in 1..Len(s.pending) : s.pending[k].admitted /\ s.pending[k].conflict = Never}
      n == FirstOf({k \in 1..Len(s.pending) : ~s.pending[k].admitted /\ s.pending[k].admission <= s.now})
  IN  IF s.now < s.nextActual \/ Cardinality(occupied) >= ReadQueueCapacity \/ n = 0 THEN s
      ELSE [s EXCEPT !.pending[n].admitted = TRUE, !.pending[n].admission = s.now,
                     !.nextActual = s.now + UopIssueInterval]

\* index_prefetch_ready: when the indices for a repeat were fetched
PrefetchTick(s, group, rep) ==
  LET found == {x \in s.prefetched : x.group = group /\ x.rep = rep}
  IN  IF found = {} THEN Never ELSE (CHOOSE x \in found : TRUE).tick

\* conflict_ready_tick: after the last uop that executes, by the gaps of the
\* two instructions and not to end before it.
Executing(s, n) ==
  LastOf({k \in Positions(s, n - 1) : s.pending[k].conflict # Never /\ s.pending[k].release = Never})
NominalLatency(e) == e.read + e.exec + e.wb
SameRepeatOpcode(e, previous) ==
  e.group = previous.group \/ (e.opcode # <<>> /\ e.opcode = previous.opcode)
AfterPrevious(e, p) ==
  Max({p.conflict + MinimumGap(e.variant, p.variant),
       p.conflict + NominalLatency(p) + 1 - (e.read + e.exec + 1)}
      \cup (IF SameRepeatOpcode(e, p) THEN {p.conflict + p.issueGap} ELSE {})
      \cup (IF e.write # <<>> /\ p.write # <<>> THEN {p.conflict + p.wb} ELSE {}))
ConflictReady(s, n, earliest) ==
  LET e == s.pending[n]
      fetched == PrefetchTick(s, e.group, e.requires)
      previous == Executing(s, n)
  IN  Max({earliest}
          \cup (IF e.requires # Never /\ fetched # Never THEN {fetched + GatherIndexReadyTicks} ELSE {})
          \cup (IF previous = 0 THEN {} ELSE {AfterPrevious(e, s.pending[previous])}))

Granted3(e) == \A p \in 1..3 : IsComplete(e.ports[p])
\* check_conflicts: the first uop that has not passed, once in a tick
PassConflicts(s, n, e) ==
  LET shared == IF e.shared THEN s.pending[n - 1].executed - s.pending[n - 1].exec ELSE 0
      ready  == IF e.shared THEN Max({shared, s.now}) ELSE s.now + e.read
  IN  [s EXCEPT !.lastCheck = s.now,
                !.pending[n].conflict = s.now, !.pending[n].ready = IF e.hasRead THEN ready ELSE Never,
                !.pending[n].executed = IF e.hasRead THEN Never ELSE ready + e.exec]
Fetched(s, e) ==
  IF e.produces = Never \/ PrefetchTick(s, e.group, e.produces) # Never THEN s
  ELSE [s EXCEPT !.prefetched = @ \cup {[group |-> e.group, rep |-> e.produces, tick |-> s.now]}]
IndicesReady(s, e) ==
  e.requires # Never =>
    /\ PrefetchTick(s, e.group, e.requires) # Never
    /\ s.now >= PrefetchTick(s, e.group, e.requires) + GatherIndexReadyTicks
CheckFetched(s, n) ==
  IF /\ IndicesReady(s, s.pending[n])
     /\ s.pending[n].shared => n > 1 /\ s.pending[n - 1].executed # Never
     /\ ConflictReady(s, n, s.now) <= s.now
    THEN PassConflicts(s, n, s.pending[n]) ELSE s
CheckConflicts(s) ==
  LET n == FirstOf({k \in 1..Len(s.pending) : s.pending[k].conflict = Never}) IN
  IF s.lastCheck = s.now \/ n = 0 \/ ~s.pending[n].admitted THEN s
  ELSE IF s.pending[n].hasRead /\ ~Granted3(s.pending[n]) THEN s
  ELSE CheckFetched(IF s.pending[n].hasRead THEN Fetched(s, s.pending[n]) ELSE s, n)

-----------------------------------------------------------------------------
(* The unified buffer *)

\* arbitrate_ub: the first uop that writes and, for every read port, the
\* first that reads by it.  A uop that is not deferred takes its operands.
Selected(s, p) ==
  IF p = "VectorWrite"
    THEN FirstOf({k \in 1..Len(s.pending) : Due(s.pending[k].release, s.now) /\ ~IsComplete(s.pending[k].write)})
    ELSE LET port == CASE p = "VectorRead0" -> 1 [] p = "VectorRead1" -> 2 [] OTHER -> 3
         IN  FirstOf({k \in 1..Len(s.pending) :
               s.pending[k].admitted /\ s.pending[k].admission <= s.now /\ ~IsComplete(s.pending[k].ports[port])})
Offered(s, choice) ==
  [p \in ToSet(VectorPorts) |->
     IF choice[p] = 0 THEN <<>>
     ELSE CASE p = "VectorWrite" -> s.pending[choice[p]].write
            [] p = "VectorRead0" -> s.pending[choice[p]].ports[1]
            [] p = "VectorRead1" -> s.pending[choice[p]].ports[2]
            [] OTHER -> s.pending[choice[p]].ports[3]]
NowGranted(before, after) ==
  {after[k].blk : k \in {n \in DOMAIN after : after[n].progress = "Complete" /\ before[n].progress # "Complete"}}
Arbitrate(s, choice, offered, cycle) ==
  LET port(k, p, old) == IF choice[p] = k THEN cycle[p] ELSE old
      kept == [s EXCEPT !.pending = [k \in DOMAIN @ |->
                [@[k] EXCEPT !.write = port(k, "VectorWrite", @),
                             !.ports = <<port(k, "VectorRead0", @[1]), port(k, "VectorRead1", @[2]),
                                         port(k, "VectorReadDestination", @[3])>>]]]
      reads == ToSet(VectorPorts) \ {"VectorWrite"}
      taken == {p \in reads : choice[p] # 0 /\ ~s.pending[choice[p]].deferred}
      by(id) == UNION {NowGranted(offered[p], cycle[p]) : p \in {q \in taken : s.pending[choice[q]].id = id}}
  IN  [kept EXCEPT !.seen = [id \in DOMAIN @ |-> @[id] \cup {<<c, s.cells[c]>> : c \in by(id)}]]
ArbitrateChosen(s, choice) == Arbitrate(s, choice, Offered(s, choice), VectorCycle(Offered(s, choice)).ports)
ArbitrateUb(s) ==
  IF s.pending = <<>> THEN s ELSE ArbitrateChosen(s, [p \in ToSet(VectorPorts) |-> Selected(s, p)])

\* finish_reads, with the values that a reduction and a load of addresses
\* have for the registers
FinishRead(s, n) ==
  LET e == s.pending[n] IN
  IF e.conflict = Never \/ ~e.hasRead \/ ~Due(e.ready, s.now) \/ e.sampled THEN s
  ELSE [s EXCEPT !.pending[n].sampled = TRUE, !.pending[n].executed = e.ready + e.exec,
                 !.pending[n].update = e.reduces \/ @, !.pending[n].vaUpdate = e.loadVa]
FinishReads(s) == EachEntry(s, FinishRead)

\* apply_reduction_updates: the uops of an instruction one after the other
ApplyReduction(s, n) ==
  LET e == s.pending[n] IN
  IF ~e.reduces \/ e.applied \/ ~e.update \/ ~Due(e.executed, s.now)
     \/ \E k \in Positions(s, n - 1) : s.pending[k].group = e.group /\ s.pending[k].reduces /\ ~s.pending[k].applied
    THEN s ELSE [s EXCEPT !.pending[n].applied = TRUE]
ApplyReductions(s) == EachEntry(s, ApplyReduction)

\* apply_va_updates
ApplyVa(s, n) ==
  LET e == s.pending[n] IN
  IF e.vaApplied \/ ~e.vaUpdate \/ ~Due(e.executed, s.now)
     \/ \E k \in Positions(s, n - 1) : s.pending[k].loadVa /\ ~s.pending[k].vaApplied
    THEN s ELSE Write([s EXCEPT !.pending[n].vaApplied = TRUE], e.id, {VaReg})
ApplyVas(s) == EachEntry(s, ApplyVa)

-----------------------------------------------------------------------------
(* Write-back, release and retirement *)

\* finish_writes
FinishWrites(s) ==
  [s EXCEPT !.pending = [k \in DOMAIN @ |->
     LET e == @[k] IN
     IF e.written # Never \/ e.release = Never \/ e.write = <<>> \/ ~IsComplete(e.write) THEN e
     ELSE [e EXCEPT !.written = s.now,
                    !.visible = IF e.deferred \/ e.stores = {} THEN @ ELSE s.now + VisibleTicks]]]
\* prepare_writeback
PrepareWriteback(s) ==
  [s EXCEPT !.pending = [k \in DOMAIN @ |->
     IF @[k].eligible = Never /\ @[k].executed # Never
       THEN [@[k] EXCEPT !.eligible = s.pending[k].executed + s.pending[k].wb] ELSE @[k]]]

\* release_ready: in order, one in a tick; what follows one that is not
\* ready waits.
Releasable(s, n) ==
  LET e == s.pending[n] IN
  /\ e.eligible # Never /\ (e.reduces => e.applied) /\ (e.vaUpdate => e.vaApplied)
  /\ Max({e.eligible, s.lastRelease + 1}) <= s.now
Released(s, n, tick) ==
  LET e == s.pending[n]
      visible == IF e.deferred THEN IF e.last THEN tick + 1 ELSE Never
                 ELSE IF e.stores # {} /\ e.write = <<>> THEN tick + VisibleTicks ELSE e.visible
      committed == IF e.deferred THEN ~e.last ELSE e.stores = {} \/ e.committed
      one == [s EXCEPT !.lastRelease = tick,
                       !.pending[n] = [e EXCEPT !.release = tick, !.visible = visible, !.committed = committed]]
  IN  IF ~e.last THEN one
      ELSE [one EXCEPT !.pending = [k \in DOMAIN @ |->
              IF @[k].group = e.group THEN [@[k] EXCEPT !.retirement = tick + RetirementTicks] ELSE @[k]]]
ReleaseEntry(s, n) ==
  IF s.pending[n].release # Never \/ ~Releasable(s, n)
     \/ \E k \in Positions(s, n - 1) : s.pending[k].release = Never
    THEN s ELSE Released(s, n, Max({s.pending[n].eligible, s.lastRelease + 1}))
ReleaseReady(s) == EachEntry(s, ReleaseEntry)

Leaves(e, now) == Due(e.retirement, now) /\ e.committed /\ (e.write = <<>> \/ e.written # Never)
PopRetired(s) ==
  LET first == FirstOf({k \in 1..Len(s.pending) : ~Leaves(s.pending[k], s.now)})
  IN  [s EXCEPT !.pending = IF first = 0 THEN <<>> ELSE SubSeq(@, first, Len(@))]

\* advance_event: nothing is served while the uops that are not released
\* have all to be admitted later.
Waits(s) ==
  LET admissions == {s.pending[k].admission : k \in {n \in 1..Len(s.pending) : s.pending[n].release = Never}}
  IN  /\ admissions # {} /\ Min(admissions) > s.now
      /\ \A k \in 1..Len(s.pending) : s.pending[k].visible = Never
Served(s) ==
  PopRetired(CommitReady(ReleaseReady(PrepareWriteback(FinishWrites(ApplyVas(ApplyReductions(
    FinishReads(CheckConflicts(ArbitrateUb(ReleaseReady(PrepareWriteback(CheckConflicts(
      ApplyVas(ApplyReductions(AdmitReady(CommitReady(s)))))))))))))))))
AdvancePipeline(s) ==
  [(IF s.pending = <<>> \/ Waits(s) THEN s ELSE Served(s)) EXCEPT
     !.registers = {r \in @ : r.retirement > s.now}]

-----------------------------------------------------------------------------
(* The times that the stalls of dispatch wait for: predicted_ticks *)

\* One entry after the other: releases, the last read and the last write.
PredictedRead(s, n, e, lastRead) ==
  CASE e.shared -> IF e.executed # Never THEN e.executed - e.exec
                   ELSE IF lastRead # Never THEN lastRead ELSE e.admission + e.read
    [] e.hasRead -> IF e.ready # Never THEN e.ready
                    ELSE ConflictReady(s, n, Max({e.admission, s.now + 1})) + e.read
    [] OTHER -> e.admission + e.read
\* Faulty variant: the write before it does not count
PredictedWriteAlone(s, e, release, before) ==
  IF e.write = <<>> THEN Never
  ELSE IF e.written # Never THEN e.written
  ELSE Max({release, s.now + 1}) + ProjectedCompletion(e.write) - 1
\* projected_write_completion: a write starts after its release and after the
\* write before it, and is alone in the UB.
PredictedWrite(s, e, release, before) ==
  IF e.write = <<>> THEN Never
  ELSE IF e.written # Never THEN e.written
  ELSE Max({release, s.now + 1, before + 1}) + ProjectedCompletion(e.write) - 1
PredictedVisible(e, release, written) ==
  IF e.deferred THEN IF ~e.last THEN Never ELSE IF e.visible # Never THEN e.visible ELSE release + 1
  ELSE IF e.stores = {} THEN Never
  ELSE IF e.visible # Never THEN e.visible
  ELSE (IF written # Never THEN written ELSE release) + VisibleTicks
PredictWrites(s, e, c, release, read) ==
  LET written == PredictedWrite(s, e, release, c.written)
  IN  [release |-> release, read |-> IF e.executed # Never THEN e.executed - e.exec ELSE read,
       written |-> IF written # Never THEN written ELSE c.written,
       ticks |-> Append(c.ticks, [release |-> release, written |-> written,
                                  visible |-> PredictedVisible(e, release, written)])]
Predict(s, n, e, c) ==
  IF e.release # Never THEN PredictWrites(s, e, c, e.release, c.read)
  ELSE LET read == PredictedRead(s, n, e, c.read)
       IN  PredictWrites(s, e, c, Max({read + e.exec + e.wb, e.eligible, c.release + 1}), read)
PredictedTicks(s) ==
  LET turn[n \in 0..Len(s.pending)] ==
        IF n = 0 THEN [release |-> s.lastRelease, read |-> Never, written |-> Never, ticks |-> <<>>]
        ELSE Predict(s, n, s.pending[n], turn[n - 1])
  IN  turn[Len(s.pending)].ticks
\* A group retires after its last uop.
RetirementTick(s, ticks, n) ==
  IF s.pending[n].retirement # Never THEN s.pending[n].retirement
  ELSE ticks[LastOf({k \in 1..Len(s.pending) : s.pending[k].group = s.pending[n].group})].release + RetirementTicks
Retirements(s, which) ==
  LET ticks == PredictedTicks(s) IN {RetirementTick(s, ticks, n) : n \in which}
DrainTicks(s) ==
  LET ticks == PredictedTicks(s)
  IN  {r.retirement : r \in s.registers} \cup
      {Max({RetirementTick(s, ticks, n), ticks[n].visible, ticks[n].written}) : n \in 1..Len(s.pending)}

-----------------------------------------------------------------------------
(* Dispatch *)

ClassOf(item) == IF item.op = "Register" THEN "Ordinary" ELSE QueueClass(Catalogue[item.name])
HazardsFor(s, class) == {n \in 1..Len(s.pending) : IsBlockedBy(class, s.pending[n].class)}
\* Faulty variant: only the register writes before it
BlockedByRegisters(s) == \E r \in s.registers : r.retirement > s.now
\* pending_register_write_blocker_tick: a register write follows the one
\* before it without waiting for uops that are older.
RegisterBlocked(s) ==
  /\ s.pending # <<>>
  /\ \A r \in s.registers : r.group < s.pending[Len(s.pending)].group
  /\ \E tick \in Retirements(s, 1..Len(s.pending)) \cup {r.retirement : r \in s.registers} : tick > s.now
\* What dispatch waits for besides
OperandStalls(s, i) ==
  \/ /\ i.kind = "Nchw" \/ (i.kind = "LoadVa" /\ i.high)
     /\ \E tick \in Retirements(s, {n \in 1..Len(s.pending) : s.pending[n].loadVa}) : tick > s.now
  \/ /\ i.kind = "MoveMask" /\ i.fromMemory
     /\ s.running # <<>> \/ \E tick \in DrainTicks(s) : tick > s.now
  \/ /\ i.kind = "Select" /\ i.mode = "TensorTensor"
     /\ \E n \in 1..Len(s.pending) : s.pending[n].comparing /\ ~s.pending[n].compareApplied
Stalls(s, item) ==
  \/ \E n \in 1..Len(s.pending) : ~s.pending[n].admitted
  \/ \E tick \in Retirements(s, HazardsFor(s, ClassOf(item))) : tick > s.now
  \/ item.op = "Register" /\ RegisterBlocked(s)
  \/ item.op = "Vector" /\ OperandStalls(s, Catalogue[item.name])

\* issue_classified_at: the uops have their places, one after the other.
Issued(s, id, entries) ==
  LET first == Max({s.now + 1, s.nextAdmission})
  IN  [s EXCEPT !.groups = @ + 1,
                !.nextAdmission = first + Len(entries) * UopIssueInterval,
                !.pending = @ \o [k \in 1..Len(entries) |->
                   [entries[k] EXCEPT !.id = id, !.group = s.groups,
                                      !.admission = first + (k - 1) * UopIssueInterval]]]
\* issue_register_write_at
RegisterIssued(s, id) ==
  Write([s EXCEPT !.groups = @ + 1,
                  !.registers = @ \cup {[group |-> s.groups,
                     retirement |-> Max({s.now + RetirementTicks} \cup {r.retirement + 1 : r \in s.registers})]}],
        id, {VaReg})
InstructionFence(s) ==
  Max({Never} \cup {r.group : r \in s.registers}
      \cup (IF s.pending = <<>> THEN {} ELSE {s.pending[Len(s.pending)].group}))
\* A queue hazard that is still in the pipeline
Overlooked(s, item) ==
  \E n \in HazardsFor(s, ClassOf(item)) : ~Due(s.pending[n].retirement, s.now)
Recorded(s, id) ==
  [s EXCEPT !.running = Append(@, [id |-> id, group |-> InstructionFence(s), dispatched |-> s.now])]
DispatchItem(s, id, item) ==
  IF Stalls(s, item) THEN s
  ELSE Recorded(
         IF item.op = "Register" THEN RegisterIssued([s EXCEPT !.received = Tail(@)], id)
         ELSE Issued(See([s EXCEPT !.received = Tail(@), !.unsafe = @ \/ Overlooked(s, item)], id,
                         IF Catalogue[item.name].kind = "Nchw" THEN {VaReg} ELSE {}), id, Code[item.name]),
         id)
Dispatch(s) ==
  IF s.received = <<>> \/ s.received[1].ready > s.now THEN s
  ELSE DispatchItem(s, s.received[1].id, s.program[s.received[1].id])

-----------------------------------------------------------------------------
(* Front end, retirement and barriers *)

Outstanding(s) == Len(s.running) + Len(s.received)
InstructionPending(s, id) ==
  id \in {x.id : x \in ToSet(s.issued) \cup ToSet(s.received) \cup ToSet(s.running)}

\* retire_ready: one in a tick
FenceIsRetired(s, group) ==
  \A n \in 1..Len(s.pending) : s.pending[n].group <= group => Due(s.pending[n].retirement, s.now)
RetireReady(s) ==
  IF \/ s.running = <<>> \/ ~FenceIsRetired(s, s.running[1].group)
     \/ \E r \in s.registers : r.group <= s.running[1].group
     \/ s.lastRetired >= s.now \/ s.running[1].dispatched > s.now
    THEN s
    ELSE [s EXCEPT !.running = Tail(@), !.lastRetired = s.now, !.retired = Append(@, s.running[1].id)]

\* release_barriers_at
ReleaseBarriers(s) ==
  LET held == FirstOf({k \in 1..Len(s.barriers) : InstructionPending(s, s.barriers[k])})
  IN  [s EXCEPT !.barriers = IF held = 0 THEN <<>> ELSE SubSeq(@, held, Len(@))]

\* advance_frontend: reception, then dispatch
ReceptionStalls(s) ==
  \/ Len(s.received) > DispatchTicks
  \/ Outstanding(s) >= OutstandingLimit \/ Len(s.running) >= 32
  \/ \E k \in 1..Len(s.barriers) : s.barriers[k] < s.issued[1].id
Receive(s) ==
  IF s.issued = <<>> \/ s.issued[1].ready > s.now \/ ReceptionStalls(s) THEN s
  ELSE [s EXCEPT !.issued = Tail(@),
                 !.received = Append(@, [id |-> s.issued[1].id, ready |-> s.now + DispatchTicks])]

\* enqueue_operation, issue_barrier_at: the core issues the next item of the
\* program, some ticks after the one before it.
Accepted(s, item) ==
  CASE s.wait < item.gap -> [s EXCEPT !.wait = @ + 1]
    [] Len(s.issued) >= IssueQueueCapacity -> s
    [] item.op = "Barrier" ->
         [s EXCEPT !.at = @ + 1, !.wait = 0,
                   !.barriers = IF InstructionPending(s, s.lastAccepted) THEN Append(@, s.lastAccepted) ELSE @]
    [] OTHER -> [s EXCEPT !.at = @ + 1, !.wait = 0, !.lastAccepted = s.at,
                          !.issued = Append(@, [id |-> s.at, ready |-> s.now + 1])]
AcceptItem(s) == IF s.at > Len(s.program) THEN s ELSE Accepted(s, s.program[s.at])

\* VectorEngine::advance_event
Advanced(s) == AcceptItem(Dispatch(Receive(ReleaseBarriers(RetireReady(AdvancePipeline(s))))))
Idle(s) == s.at > Len(s.program) /\ s.issued = <<>> /\ s.received = <<>> /\ s.running = <<>> /\ s.pending = <<>>
VpTick == ~Idle(vpipe) /\ vpipe' = [Advanced(vpipe) EXCEPT !.now = @ + 1]

-----------------------------------------------------------------------------
(* Properties *)

\* The order that the program can rely on: between two instructions that are
\* executed as a whole, for the registers, and across a barrier.
ItemWrites(s, k, c) ==
  c \in EffectsAt(s, k).writes
Whole(s, k) == s.program[k].op = "Vector" /\ Deferred(IssueAt(s, k))
Ordered(s, k, j, c) ==
  \/ k = 0 \/ c \in {VaReg, CompareMaskReg}
  \/ Whole(s, k) /\ Whole(s, j)
  \/ /\ Whole(s, k) \/ s.program[k].op = "Register"
     /\ \E b \in (k + 1)..(j - 1) : s.program[b].op = "Barrier"

\* An operand is what the program wrote last before the instruction: never
\* the result of a younger instruction, and not an old value when the order
\* of the two instructions is guaranteed.
OperandsInOrder(s) ==
  \A j \in 1..Len(s.program) : \A x \in s.seen[j] :
    /\ x[2] <= j
    /\ \A k \in (x[2] + 1)..(j - 1) : ItemWrites(s, k, x[1]) => ~Ordered(s, k, j, x[1])
\* What is left at the end is the last result.
ResultsInOrder(s) ==
  Idle(s) => \A c \in DOMAIN s.cells : \A k \in (s.cells[c] + 1)..Len(s.program) :
               ItemWrites(s, k, c) => ~Ordered(s, s.cells[c], k, c)

\* The stalls of dispatch wait for predicted retirements: none is too early.
HazardsCleared(s) == ~s.unsafe

\* Every instruction retires, in the order of the program, and in time.
CONSTANT Deadline
RetiredInOrder(s) ==
  /\ \A k \in 2..Len(s.retired) : s.retired[k - 1] < s.retired[k]
  /\ Idle(s) => ToSet(s.retired) = {k \in 1..Len(s.program) : s.program[k].op # "Barrier"}
  /\ s.now >= Deadline => Idle(s)
PipelineInOrder ==
  OperandsInOrder(vpipe) /\ ResultsInOrder(vpipe) /\ HazardsCleared(vpipe) /\ RetiredInOrder(vpipe)

\* Dispatch, drains and retirement are scheduled by predictions that are made
\* while uops wait, read and write (predicted_ticks).  What is predicted after
\* a tick: the write, the visibility and the retirement of every uop.
Observed(s) == [s EXCEPT !.now = @ - 1]
Predictions(s) ==
  LET ticks == PredictedTicks(s)
  IN  [n \in DOMAIN ticks |-> [write |-> ticks[n].written, visible |-> ticks[n].visible,
                               retirement |-> RetirementTick(s, ticks, n)]]
\* None is due before the fact, also while reads still have to be granted.
NoneTooEarly(s, predicted) ==
  \A n \in DOMAIN predicted :
    /\ Due(predicted[n].write, s.now) => s.pending[n].written # Never
    /\ Due(predicted[n].visible, s.now) => s.pending[n].committed
    /\ Due(predicted[n].retirement, s.now) => s.pending[n].retirement # Never
\* The uops that leave have done all by the tick that was predicted.
NoneTooLate(s, predicted, left) ==
  \A n \in 1..left : \A field \in DOMAIN predicted[n] : predicted[n][field] <= s.now
\* After the conflict check of the uop nothing delays or hastens it any more;
\* for the retirement it is the check of the last uop of its instruction.
Checked(s, n) == s.pending[n].conflict # Never
GroupChecked(s, n) == \A k \in DOMAIN s.pending : s.pending[k].group = s.pending[n].group => Checked(s, k)
FixedByCheck(s, predicted, later, left) ==
  \A n \in DOMAIN predicted : n > left =>
    /\ Checked(s, n) => /\ later[n - left].write = predicted[n].write
                        /\ later[n - left].visible = predicted[n].visible
    /\ GroupChecked(s, n) => later[n - left].retirement = predicted[n].retirement
PredictionsKeptIn(before, after) ==
  LET predicted == Predictions(before)
      later     == Predictions(after)
      left == Len(before.pending) - Cardinality({k \in DOMAIN after.pending : after.pending[k].group < before.groups})
  IN  /\ NoneTooEarly(after, later)
      /\ NoneTooLate(after, predicted, left)
      /\ FixedByCheck(before, predicted, later, left)
\* A prediction is never due before the fact, and from the conflict check on
\* it is the tick at which the fact happens, whatever else reads and writes.
PredictionsKept == [][PredictionsKeptIn(Observed(vpipe), Observed(vpipe)')]_vpipeVars
=============================================================================
