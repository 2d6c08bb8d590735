------------------------------ MODULE VectorPlan ------------------------------
(***************************************************************************)
(* From an accepted issue of the vector unit to the uops of the timing     *)
(* pipeline, and to its execution: vector/uop.rs splits the issue into     *)
(* uops, read/plan.rs gives each uop its reads, pipeline/admission.rs      *)
(* distributes the planned stores over the uops and rejects what does not  *)
(* fit, and pipeline/functional.rs executes the issue repeat by repeat.    *)
(*                                                                         *)
(* These are four computations of the same traffic, in four files: the     *)
(* properties compare them.                                                *)
(***************************************************************************)
EXTENDS VectorOps

\* The stages of a uop are its execute ticks; a read takes six, none for an
\* index of a gather.
Ordinary == [k |-> "Ordinary", first |-> 0, count |-> 0]
Slice(first, count) == [k |-> "Slice", first |-> first, count |-> count]
IndexUop(group) == [k |-> "Index", first |-> group, count |-> 0]
DataUop(group)  == [k |-> "Data", first |-> group, count |-> 0]
Uop(rep, group, kind, exec, wb, writes) ==
  [rep |-> rep, group |-> group, kind |-> kind, exec |-> exec, wb |-> wb, writes |-> writes]
ReadTicks(u) == IF u.kind.k = "Index" THEN 0 ELSE 6

SliceLanes(u) == LanesIn(u.kind.first, u.kind.count)
\* C220VectorUopKind::contains_lane
ContainsLane(u, lane) ==
  CASE u.kind.k = "Slice" -> lane \in SliceLanes(u)
    [] u.kind.k = "Data"  -> lane \div 16 = u.kind.first
    [] OTHER -> u.group \in {NoGroup, lane \div 64}

-----------------------------------------------------------------------------
(* Execute ticks *)

FloatTicks(op) ==
  CASE op \in {"Add", "Subtract", "AddRectify", "SubtractRectify"} -> 7
    [] op = "Multiply" -> 8
    [] op = "Divide"   -> 14
    [] OTHER -> 5
IntegerTicks(op) == CASE op = "Absolute" -> 1 [] op = "Multiply" -> 6 [] OTHER -> 5
ArithmeticTicks(i) ==
  CASE i.fmt = "B16" -> 1
    [] i.fmt \in {"S16", "S32"} -> IntegerTicks(i.op)
    [] OTHER -> FloatTicks(i.op)
ScalarTicks(i) ==
  IF i.op = "LeakyRelu" THEN 8
  ELSE IF i.fmt \in {"S16", "S32"} THEN IntegerTicks(i.op) ELSE FloatTicks(i.op)
ReductionTicks(i) ==
  CASE i.rk = "WholeAdd"      -> IF i.fmt = "F32" THEN 21 ELSE 24
    [] i.rk = "WholeExtremum" -> CASE i.fmt = "F16" -> 10 [] i.fmt = "F32" -> 9 [] OTHER -> 11
    [] i.rk = "GroupAdd"      -> IF i.fmt = "F32" THEN 13 ELSE 16
    [] i.rk = "GroupExtremum" -> IF i.fmt = "F32" THEN 6 ELSE 7
    [] OTHER -> 7
SpecialTicks(i) ==
  CASE i.op = "Exp" -> 13 [] i.op = "Ln" -> 15 [] i.op = "Sqrt" -> 14 [] OTHER -> 6
ConversionTicks(i) ==
  IF i.deq # "None" THEN 11 ELSE IF i.sb = 32 /\ i.db = 16 /\ i.scaled THEN 9 ELSE 5
FusedTicks(i) ==
  CASE i.op \in {"Multiply", "AddDeqRelu"}  -> 10
    [] i.fmt = "S16ToS8"                    -> 5
    [] i.fmt \in {"F16ToS8", "F32ToF16"}    -> 9
    [] i.fmt = "VectorDeqS16ToB8"           -> 11
    [] OTHER -> 10
ExecuteTicks(i) ==
  CASE i.kind = "Arithmetic" -> ArithmeticTicks(i)
    [] i.kind = "Scalar"     -> ScalarTicks(i)
    [] i.kind = "Reduction"  -> ReductionTicks(i)
    [] i.kind = "Special"    -> SpecialTicks(i)
    [] i.kind = "Conversion" -> ConversionTicks(i)
    [] i.kind = "Fused"      -> FusedTicks(i)
    [] i.kind = "Shift"      -> 6
    [] i.kind \in {"CompareMask", "PackedCompare"} -> 5
    [] i.kind = "Sort"       -> 19
    [] i.kind \in {"Ternary", "Axpy"} -> 11
    [] i.kind = "Broadcast"  -> 2
    [] i.kind = "Gather"     -> IF i.blocks THEN 2 ELSE 1
    [] OTHER -> 1  \* Move, Copy, Transpose, Nchw, MoveMask, Select, LoadVa

-----------------------------------------------------------------------------
(* Uops: C220VectorInstruction::uops *)

SyntheticUop == Uop(0, NoGroup, Ordinary, 1, 1, FALSE)
EnsureUop(uops) == IF uops = <<>> THEN <<SyntheticUop>> ELSE uops

\* The ticks that write-back takes, 0 when there is nothing to write.
Ticks(blocks) == IF blocks = {} THEN 0 ELSE WritebackTicks(blocks)
Writing(uops) == SelectSeq(uops, LAMBDA u : u.wb > 0)

\* lane_sliced_uops
SliceUop(stores, rep, first, count, exec) ==
  Uop(rep, first \div 64, Slice(first, count), exec, Ticks(SliceBlocks(stores, rep, first, count)), TRUE)
LaneSliced(reps, lanes, per, exec, stores) ==
  LET slices == CeilDiv(lanes, per)
  IN  EnsureUop(Writing([n \in 1..(reps * slices) |->
        SliceUop(stores, (n - 1) \div slices, ((n - 1) % slices) * per, per, exec)]))
\* whole_repeat_uops
WholeRepeat(reps, lanes, exec, stores) ==
  EnsureUop(Writing([n \in 1..reps |->
    Uop(n - 1, 0, Slice(0, lanes), exec, Ticks(RepeatBlocks(stores, n - 1)), TRUE)]))
\* accumulator_uops
AccumulatorUops(s, exec, stores) ==
  LET slices(rep) == IF HasTraffic(s, rep) THEN s.lanes \div LanesPerUop(s, rep) ELSE 0
      uop(rep, k) == SliceUop(stores, rep, k * LanesPerUop(s, rep), LanesPerUop(s, rep), exec)
      written(u)  == IF AccumulatorWrites(s, u.rep) THEN u ELSE [u EXCEPT !.wb = 1, !.writes = FALSE]
      all == FlattenSeq([n \in 1..s.count |-> [k \in 1..slices(n - 1) |-> uop(n - 1, k - 1)]])
      kept == Writing(all)
  IN  EnsureUop([n \in 1..Len(kept) |-> written(kept[n])])
\* One uop without a lane group for every repeat.
PerRepeat(reps, exec, stores) ==
  [n \in 1..reps |-> Uop(n - 1, NoGroup, Ordinary, exec, Ticks(RepeatBlocks(stores, n - 1)), TRUE)]

\* The lanes of a uop
ScalarSlice(i) == IF i.w = 2 /\ ~(i.op = "Multiply" /\ i.fmt = "S16") THEN 128 ELSE 64
ArithmeticSlice(i) ==
  CASE i.op = "Divide" -> 32
    [] i.fmt \in {"F16", "B16"} \/ (i.fmt = "S16" /\ i.op \notin {"Multiply", "Absolute"}) -> 128
    [] OTHER -> 64
SpecialSlice(i) == IF i.op \in {"Exp", "Ln", "Sqrt"} THEN 32 ELSE Lanes(i.w)

\* A widening issue is split by lane groups, and keeps a uop of group 0
\* when no lane is active.
WideningUops(i, stores) ==
  LET all == Writing([n \in 1..Len(i.masks) |->
               Uop(n - 1, 0, Ordinary, ExecuteTicks(i), Ticks(GroupBlocks(stores, n - 1, 0)), TRUE)])
  IN  IF all = <<>> THEN <<Uop(0, 0, Ordinary, 1, 1, FALSE)>> ELSE all
ArithmeticUops(i, stores) ==
  IF Widens(i) THEN WideningUops(i, stores)
  ELSE LaneSliced(Len(i.masks), Lanes(ResultWidth(i)), ArithmeticSlice(i), ExecuteTicks(i), stores)

\* Gather: index uops before the data they serve
GatherElementUops(i, stores) ==
  LET data(rep, g) == LET blocks == WriteBlocks(DataStores(i, stores, rep, g))
                      IN  Uop(rep, g, DataUop(g), ExecuteTicks(i), Max({Ticks(blocks), 1}), blocks # {})
      group(rep, g) == (IF g % 4 = 0
                          THEN <<Uop(rep, NoGroup, IndexUop(g \div 4), 0, 0, FALSE)>> ELSE <<>>)
                       \o <<data(rep, g)>>
  IN  FlattenSeq([n \in 1..(GatherCount(i) * GatherGroups(i)) |->
        group((n - 1) \div GatherGroups(i), (n - 1) % GatherGroups(i))])
GatherBlockUops(i, stores) ==
  <<Uop(0, NoGroup, IndexUop(0), 0, 0, FALSE)>>
    \o [n \in 1..GatherCount(i) |->
          Uop(n - 1, 0, DataUop(0), ExecuteTicks(i), Ticks(RepeatBlocks(stores, n - 1)), TRUE)]
GatherUops(i, stores) ==
  IF GatherCount(i) = 0 THEN <<SyntheticUop>>
  ELSE IF i.blocks THEN GatherBlockUops(i, stores) ELSE GatherElementUops(i, stores)

ReductionUops(i, stores) ==
  IF i.masks = <<>> THEN <<IF i.rk = "WholeAdd" /\ i.acc
                             THEN [SyntheticUop EXCEPT !.exec = ExecuteTicks(i)] ELSE SyntheticUop>>
  ELSE LET all == PerRepeat(Len(i.masks), ExecuteTicks(i), stores)
       IN  [n \in 1..Len(all) |-> [all[n] EXCEPT !.wb = Max({@, 1}), !.writes = all[n].wb > 0]]

\* Select: the mode TensorTensor loads the masks of several repeats first.
SelectUops(i, stores) ==
  LET load(rep) == IF i.mode = "TensorTensor" /\ rep % MaskRepeatsPerBlock(i) = 0
                     THEN <<Uop(rep, NoGroup, Ordinary, 1, 1, FALSE)>> ELSE <<>>
      groups(rep) == Writing([g \in 1..(Lanes(i.w) \div 64) |->
                       Uop(rep, g - 1, Ordinary, 1, Ticks(GroupBlocks(stores, rep, g - 1)), TRUE)])
      all == FlattenSeq([n \in 1..Len(i.masks) |-> load(n - 1) \o groups(n - 1)])
  IN  IF all = <<>> THEN <<Uop(0, 0, Ordinary, 1, 1, FALSE)>> ELSE all
CompareMaskUops(i) ==
  EnsureUop([n \in 1..Len(i.masks) |->
               Uop(n - 1, 0, Slice(0, Lanes(i.w)), ExecuteTicks(i), 1, FALSE)])

\* Control and Movemask have one uop, NoEffect one for every lane group,
\* MoveAddress and WriteSpr none.
GenerateUops(i, stores) ==
  CASE i.kind = "Arithmetic" -> ArithmeticUops(i, stores)
    [] i.kind = "Scalar" ->
         LaneSliced(Len(i.masks), Lanes(i.w), ScalarSlice(i), ExecuteTicks(i), stores)
    [] i.kind \in {"Shift", "Copy"} ->
         LaneSliced(Len(i.masks), Lanes(i.w), Min({Lanes(i.w), 128}), ExecuteTicks(i), stores)
    [] i.kind = "Special" ->
         LaneSliced(Len(i.masks), Lanes(i.w), SpecialSlice(i), ExecuteTicks(i), stores)
    [] i.kind = "Move" ->
         LaneSliced(Len(i.masks), Lanes(i.w), Lanes(i.w), ExecuteTicks(i), stores)
    [] i.kind \in {"Ternary", "Axpy"} ->
         AccumulatorUops(NewAccumulator(i, MixedLanes(i)), ExecuteTicks(i), stores)
    [] i.kind = "Conversion" ->
         WholeRepeat(Len(i.masks), ConversionLanes(i), ExecuteTicks(i), stores)
    [] i.kind = "Fused"  -> WholeRepeat(Len(i.masks), FusedLanes(i), ExecuteTicks(i), stores)
    [] i.kind = "PackedCompare" ->
         LaneSliced(i.count, Lanes(i.w), Lanes(i.w), ExecuteTicks(i), stores)
    [] i.kind = "CompareMask" -> CompareMaskUops(i)
    [] i.kind = "Select" -> SelectUops(i, stores)
    [] i.kind = "Gather" -> GatherUops(i, stores)
    [] i.kind = "Reduction" -> ReductionUops(i, stores)
    [] i.kind \in {"Sort", "Broadcast"} -> EnsureUop(PerRepeat(i.count, ExecuteTicks(i), stores))
    [] i.kind = "Nchw"      -> EnsureUop(PerRepeat(2 * i.count, ExecuteTicks(i), stores))
    [] i.kind = "Transpose" -> PerRepeat(2, ExecuteTicks(i), stores)
    [] i.kind = "MoveMask" ->
         <<Uop(0, NoGroup, Ordinary, 1, Max({Ticks(WriteBlocks(stores)), 1}), stores # {})>>
    [] i.kind = "LoadVa"   -> <<Uop(0, NoGroup, Ordinary, 1, 0, FALSE)>>
    [] i.kind = "NoEffect" ->
         EnsureUop([n \in 1..(Len(i.masks) * i.groups) |->
           Uop((n - 1) \div i.groups, (n - 1) % i.groups, Ordinary, 1, 1, FALSE)])
    [] i.kind = "Control"  -> <<SyntheticUop>>
    [] OTHER -> <<>>

OrdinaryKinds == {"Arithmetic", "Scalar", "Shift", "Special", "Conversion", "Fused"}
AccumulatorKinds == {"Ternary", "Axpy"}
Scheduled(i) == i.kind \in OrdinaryKinds \cup AccumulatorKinds

\* uops(): an issue that feeds its results back writes only the last one.
Uops(i, stores) ==
  LET all == GenerateUops(i, stores)
      kept(u) == IF i.kind \in OrdinaryKinds /\ ~OrdinaryWrites(OrdinarySchedule(i), u.rep)
                   THEN [u EXCEPT !.wb = 1, !.writes = FALSE] ELSE u
  IN  [n \in 1..Len(all) |-> kept(all[n])]

-----------------------------------------------------------------------------
(* The issue as its planning function accepts it *)

IssueOf(i) ==
  CASE i.kind = "Arithmetic" -> ArithmeticIssue(i)
    [] i.kind = "Copy"       -> CopyIssue(i)
    [] i.kind = "Special"    -> SpecialIssue(i)
    [] i.kind \in AccumulatorKinds -> MixedIssue(i)
    [] i.kind = "Conversion" -> ConversionIssue(i)
    [] i.kind = "Fused"      -> FusedIssue(i)
    [] OTHER -> i
PlanOf(i) ==
  CASE i.kind = "Arithmetic" -> ArithmeticPlan(i)
    [] i.kind = "Scalar"     -> ScalarPlan(i)
    [] i.kind = "Shift"      -> ShiftPlan(i)
    [] i.kind = "Copy"       -> CopyPlan(i)
    [] i.kind = "Special"    -> SpecialPlan(i)
    [] i.kind = "Move"       -> MovevPlan(i)
    [] i.kind = "Ternary"    -> TernaryPlan(i)
    [] i.kind = "Axpy"       -> AxpyPlan(i)
    [] i.kind = "Conversion" -> ConversionPlan(i)
    [] i.kind = "Fused"      -> FusedPlan(i)
    [] i.kind = "Broadcast"  -> BroadcastPlan(i)
    [] i.kind = "Transpose"  -> TransposePlan(i)
    [] i.kind = "Nchw"       -> NchwPlan(i)
    [] i.kind = "MoveMask"   -> MoveMaskPlan(i)
    [] i.kind = "CompareMask"   -> ComparePlan(i)
    [] i.kind = "PackedCompare" -> PackedComparePlan(i)
    [] i.kind = "Select"     -> SelectPlan(i)
    [] i.kind = "Gather"     -> GatherPlan(i)
    [] i.kind = "Reduction"  -> ReductionPlan(i)
    [] i.kind = "Sort"       -> SortPlan(i)
    [] i.kind = "LoadVa"     -> LoadVaPlan(i)
    [] OTHER -> [ok |-> TRUE, stores |-> {}]

-----------------------------------------------------------------------------
(* The reads of a uop: PendingVectorRead::plan *)

\* Which kinds have uops without a lane group, and which need the mask of
\* their repeat.
WholeKinds == {"Broadcast", "LoadVa", "Transpose", "MoveMask", "Reduction", "Sort", "Nchw"}
MaskLoad(i, u) == i.kind = "Select" /\ i.mode = "TensorTensor" /\ u.group = NoGroup
MaskedKinds == OrdinaryKinds \cup AccumulatorKinds \cup {"Copy", "CompareMask", "Reduction", "Select"}
ScopeOk(i, u) ==
  IF i.kind = "Gather" THEN u.kind.k = "Index" \/ (u.kind.k = "Data" /\ u.group = u.kind.first)
  ELSE (i.kind \in WholeKinds \/ MaskLoad(i, u)) <=> (u.group = NoGroup)
RepeatOk(i, u) ==
  /\ i.kind \in MaskedKinds => u.rep \in Repeats(i)
  /\ i.kind \in {"Sort", "PackedCompare", "Broadcast"} => u.rep < i.count
  /\ i.kind = "Nchw" => u.rep \div 2 < i.count
  /\ MaskLoad(i, u) => u.rep % MaskRepeatsPerBlock(i) = 0
  /\ i.kind = "Gather" => u.rep < GatherCount(i)

\* uop_lane_groups, retain_accesses_in_lane_slice
UopGroups(u) ==
  IF u.kind.k = "Slice" THEN (u.kind.first \div 64)..((u.kind.first + u.kind.count - 1) \div 64)
  ELSE {IF u.group = NoGroup THEN 0 ELSE u.group}
InSlice(u, a, w) == u.kind.k # "Slice" \/ a.off \div w \in SliceLanes(u)
MixedWidth(i, a) == IF a.src = 2 THEN i.dw ELSE i.w

ArithmeticUopReads(i, u) ==
  {a \in UNION {ArithmeticReads(i, u.rep, g) : g \in UopGroups(u)} : InSlice(u, a, FormatWidth(i.fmt))}
ScalarUopReads(i, u) ==
  {a \in UNION {ScalarReads(i, u.rep, g) : g \in UopGroups(u)} : InSlice(u, a, i.w)}
ShiftUopReads(i, u) ==
  {a \in UNION {ShiftReads(i, u.rep, g) : g \in UopGroups(u)} : InSlice(u, a, i.w)}
CopyUopReads(i, u) ==
  {a \in UNION {CopyReads(i, u.rep, g) : g \in UopGroups(u)} : InSlice(u, a, i.w)}
SpecialUopReads(i, u) ==
  {a \in UNION {SpecialReads(i, u.rep, g) : g \in UopGroups(u)} : InSlice(u, a, i.w)}
TernaryUopReads(i, u) ==
  {a \in UNION {TernaryReads(i, u.rep, g) : g \in UopGroups(u)} : InSlice(u, a, MixedWidth(i, a))}
AxpyUopReads(i, u) ==
  {a \in UNION {AxpyReads(i, u.rep, g) : g \in UopGroups(u)} : InSlice(u, a, MixedWidth(i, a))}
ConversionUopReads(i, u) == UNION {ConversionReads(i, u.rep, g) : g \in UopGroups(u)}
FusedUopReads(i, u)      == UNION {FusedReads(i, u.rep, g) : g \in UopGroups(u)}
GatherUopReads(i, u) ==
  IF u.kind.k = "Index" THEN {IndexWindow(i, u.rep, u.kind.first)} ELSE GatherData(i, u.rep, u.kind.first)

\* What the timing of a uop reads; the execution reads functional = TRUE.
UopReads(i, u, functional) ==
  CASE i.kind = "Arithmetic" -> ArithmeticUopReads(i, u)
    [] i.kind = "Scalar"     -> ScalarUopReads(i, u)
    [] i.kind = "Shift"      -> ShiftUopReads(i, u)
    [] i.kind = "Copy"       -> CopyUopReads(i, u)
    [] i.kind = "Special"    -> SpecialUopReads(i, u)
    [] i.kind = "Ternary"    -> TernaryUopReads(i, u)
    [] i.kind = "Axpy"       -> AxpyUopReads(i, u)
    [] i.kind = "Conversion" -> ConversionUopReads(i, u)
    [] i.kind = "Fused"      -> FusedUopReads(i, u)
    [] i.kind = "Broadcast"  -> BroadcastReads(i, u.rep, functional)
    [] i.kind = "Transpose"  -> TransposeReads(i)
    [] i.kind = "Nchw"       -> NchwReads(i, u.rep \div 2)
    [] i.kind = "MoveMask"   -> MoveMaskReads(i)
    [] i.kind = "CompareMask" -> IF functional THEN CompareTiles(i, u.rep) ELSE CompareReads(i, u.rep)
    [] i.kind = "PackedCompare" -> PackedReads(i, u.rep)
    [] MaskLoad(i, u)        -> MaskBlocks(i, u.rep, 0)
    [] i.kind = "Select" ->
         IF functional THEN SelectTiles(i, u.rep) ELSE SelectReads(i, u.rep, u.group)
    [] i.kind = "Gather"     -> GatherUopReads(i, u)
    [] i.kind = "Reduction"  -> ReductionReads(i, u.rep)
    [] i.kind = "Sort"       -> SortReads(i, u.rep)
    [] i.kind = "LoadVa"     -> LoadVaReads(i)
    [] OTHER -> {}

\* configure_accumulator_timing, configure_ordinary_timing: the accesses
\* that the schedule of repeats keeps
ScheduledReads(i, u) ==
  {a \in UopReads(i, u, FALSE) :
     CASE i.kind \in AccumulatorKinds -> AccumulatorReads(NewAccumulator(i, MixedLanes(i)), u.rep, a.src)
       [] i.kind \in OrdinaryKinds    -> OrdinaryReads(OrdinarySchedule(i), u.rep, a.src)
       [] OTHER -> TRUE}

-----------------------------------------------------------------------------
(* Admission: issue_classified_at *)

LogicalLane(i, s) ==
  CASE i.kind = "Conversion" -> ConversionLogicalLane(i, s)
    [] i.kind = "Fused"      -> FusedLogicalLane(i, s)
    [] OTHER -> s.lane
HasStore(i, u, s) ==
  /\ u.writes \/ Scheduled(i)
  /\ u.rep = s.rep
  /\ IF u.kind.k = "Data" /\ i.blocks THEN TRUE ELSE ContainsLane(u, LogicalLane(i, s))
Admitted(i, stores) ==
  IF i.kind \in AccumulatorKinds
    THEN {s \in stores : HasTraffic(NewAccumulator(i, MixedLanes(i)), s.rep)} ELSE stores
\* Every store goes to the first uop that takes it.
UopsWith(i, uops, s) == {n \in 1..Len(uops) : HasStore(i, uops[n], s)}
UopStores(i, uops, stores) ==
  LET first == [s \in Admitted(i, stores) |-> Min(UopsWith(i, uops, s) \cup {Len(uops) + 1})]
  IN  [n \in 1..Len(uops) |-> {s \in DOMAIN first : first[s] = n}]

\* The first half of a transpose reads for the second; an issue without
\* repeats has no reads.
SharedRead(i, u) == i.kind \in {"Transpose", "Nchw"} /\ u.rep % 2 = 1
SyntheticRead(i, u) ==
  CASE i.kind = "Select"    -> i.masks = <<>>
    [] i.kind = "Broadcast" -> i.count = 0
    [] i.kind = "Gather"    -> GatherCount(i) = 0
    [] i.kind \in {"MoveMask", "Transpose", "Sort", "Nchw"} -> FALSE
    [] i.kind = "Reduction" -> CrossRepeatState(i) /\ i.masks = <<>>
    [] i.kind = "LoadVa"    -> FALSE
    [] OTHER -> u.group = NoGroup
NoReads == {"Move", "NoEffect", "Control"}
HasRead(i, u) == i.kind \notin NoReads /\ ~SharedRead(i, u) /\ ~SyntheticRead(i, u)

ShapeOk(i, uops) ==
  /\ i.kind = "Transpose" =>
       Len(uops) = 2 /\ \A n \in 1..Len(uops) : uops[n].rep = n - 1 /\ uops[n].group = NoGroup
  /\ i.kind = "Nchw" =>
       /\ Len(uops) = 2 * i.count
       /\ \A n \in 1..Len(uops) : uops[n].rep = n - 1 /\ uops[n].group = NoGroup
\* Stores and uops agree on who writes.
StoresFit(i, uops, grouped) ==
  \A n \in 1..Len(uops) :
    IF Scheduled(i) THEN (uops[n].group = NoGroup) <=> (grouped[n] = {})
    ELSE uops[n].writes <=> (grouped[n] # {})
ReadsFit(i, uops) ==
  \A n \in 1..Len(uops) : HasRead(i, uops[n]) => ScopeOk(i, uops[n]) /\ RepeatOk(i, uops[n])
WritesFit(uops, grouped) == \A n \in 1..Len(uops) : uops[n].writes => WritePlanOk(grouped[n])
AdmissionOk(i, uops, stores) ==
  LET grouped == UopStores(i, uops, stores)
  IN  /\ ShapeOk(i, uops)
      /\ \A s \in Admitted(i, stores) : LogicalLane(i, s) >= 0 /\ UopsWith(i, uops, s) # {}
      /\ StoresFit(i, uops, grouped) /\ ReadsFit(i, uops) /\ WritesFit(uops, grouped)

\* issue_gap: the ticks to the next uop
IssueGap(i, u) ==
  CASE i.kind \in AccumulatorKinds /\ u.kind.k = "Slice" ->
         AccumulatorGap(NewAccumulator(i, MixedLanes(i)), u.rep, u.kind.first, u.kind.count)
    [] i.kind \in OrdinaryKinds -> OrdinaryGap(OrdinarySchedule(i), u.rep, u.exec)
    [] OTHER -> 1

-----------------------------------------------------------------------------
(* Execution: complete_functional_instruction, one repeat after the other *)

\* FunctionalInstruction::repeat_shape
ExecutedRepeats(i) ==
  CASE i.kind \in {"MoveMask", "Transpose", "LoadVa"} -> {0}
    [] i.kind \in {"Broadcast", "Sort", "Nchw", "PackedCompare"} -> 0..(i.count - 1)
    [] i.kind = "Gather" -> 0..(GatherCount(i) - 1)
    [] i.kind \in NoReads -> {}
    [] OTHER -> Repeats(i)
ExecutedLanes(i) ==
  CASE i.kind = "Arithmetic" -> Lanes(ResultWidth(i))
    [] i.kind \in AccumulatorKinds -> MixedLanes(i)
    [] i.kind = "Conversion" -> ConversionLanes(i)
    [] i.kind = "Fused"      -> FusedLanes(i)
    [] OTHER -> Lanes(i.w)
FunctionalUop(i, rep) ==
  IF i.kind \in WholeKinds
    THEN Uop(IF i.kind = "Nchw" THEN 2 * rep ELSE rep, NoGroup, Ordinary, 1, 1, FALSE)
    ELSE Uop(rep, 0, Slice(0, ExecutedLanes(i)), 1, 1, FALSE)
\* capture_functional_inputs: a move of the mask takes 16 of its 32 bytes.
Captured(i, rep) ==
  {[a EXCEPT !.bytes = IF i.kind = "MoveMask" THEN Min({@, 16}) ELSE @] :
     a \in UopReads(i, FunctionalUop(i, rep), TRUE)}

\* PendingVectorRead::sample
Results(i, rep) ==
  LET slice == LanesIn(0, ExecutedLanes(i)) IN
  CASE i.kind = "Arithmetic" -> ArithmeticResults(i, rep, slice)
    [] i.kind = "Scalar"     -> ScalarResults(i, rep, slice)
    [] i.kind = "Shift"      -> ShiftResults(i, rep, slice)
    [] i.kind = "Copy"       -> CopyResults(i, rep, slice)
    [] i.kind = "Special"    -> SpecialResults(i, rep, slice)
    [] i.kind = "Ternary"    -> TernaryResults(i, rep, slice)
    [] i.kind = "Axpy"       -> AxpyResults(i, rep, slice)
    [] i.kind = "Conversion" -> ConversionResults(i, rep, slice)
    [] i.kind = "Fused"      -> FusedResults(i, rep, slice)
    [] i.kind = "Broadcast"  -> BroadcastResults(i, rep)
    [] i.kind = "Transpose"  -> TransposeResults(i)
    [] i.kind = "Nchw"       -> NchwResults(i, rep)
    [] i.kind = "MoveMask"   -> MoveMaskResults(i)
    [] i.kind = "CompareMask"   -> CompareResults(i, rep, slice)
    [] i.kind = "PackedCompare" -> PackedCompareResults(i, rep)
    [] i.kind = "Select"     -> SelectResults(i, rep, slice)
    [] i.kind = "Reduction"  -> ReductionResults(i, rep)
    [] i.kind = "Sort"       -> SortResults(i, rep)
    [] i.kind = "LoadVa"     -> LoadVaResults(i)
    [] OTHER -> {}
=============================================================================
