------------------------------ MODULE VectorOps ------------------------------
(***************************************************************************)
(* The operations of the vector unit (vector/ops, vector/lanes): for each  *)
(* kind of issue the accesses it reads, the plan that accepts it with its  *)
(* write targets, and the evaluation of one repeat.                        *)
(*                                                                         *)
(* What a lane computes is left out; which bytes it computes it from is    *)
(* not.  A result is a store with the parts of the source buffers that its *)
(* value depends on: [src, off, bytes].  A buffer byte that no read access *)
(* has filled is zero, so an evaluation that uses one computes from data   *)
(* that is not in the UB.                                                  *)
(***************************************************************************)
EXTENDS VectorAccess

Part(source, offset, bytes) == [src |-> source, off |-> offset, bytes |-> bytes]
Result(store, from) == [store |-> store, from |-> from]
NoStore == Store(-1, -1, -1, 0)
StoresOf(results) == {r.store : r \in results} \ {NoStore}

\* A lane of a tile: sources of width sw, a result of width dw.
LaneParts(lane, sources, w) == {Part(s, lane * w, w) : s \in 0..(sources - 1)}
LaneResults(i, rep, lanes, sources, sw, dw) ==
  {Result(Store(rep, l, DestinationAddress(i, rep, l, dw), dw), LaneParts(l, sources, sw)) :
     l \in lanes \cap MaskOf(i, rep)}

-----------------------------------------------------------------------------
(* Arithmetic: i.op, i.fmt, i.second (it has two sources), i.widen *)

FormatWidth(fmt) == IF fmt \in {"F32", "S32"} THEN 4 ELSE 2
Sources(i) == IF i.second THEN 2 ELSE 1

\* C220VectorArithmeticModes
Widens(i) == i.widen /\ i.fmt = "S16" /\ i.op \in {"Add", "Subtract", "Multiply"}
ResultWidth(i) == IF Widens(i) THEN 4 ELSE FormatWidth(i.fmt)

ArithmeticReads(i, rep, group) ==
  ReadAccesses(i, rep, MaskOf(i, rep), Sources(i), FormatWidth(i.fmt),
               IF ResultWidth(i) = 2 THEN group ELSE NoGroup)

\* plan_c220_vector_arithmetic_issue: a widening issue has 64 lanes, and its
\* masks are cut to them.
ArithmeticIssue(i) ==
  [i EXCEPT !.masks = [r \in DOMAIN @ |-> IF Widens(i) THEN @[r] \cap LanesIn(0, 64) ELSE @[r]]]
ArithmeticPlan(i) ==
  Planned(UNION {ReadAccesses(i, r, MaskOf(i, r), Sources(i), FormatWidth(i.fmt), NoGroup) :
                   r \in Repeats(i)},
          UNION {TileStores(i, r, ResultWidth(i)) : r \in Repeats(i)})

\* The lane evaluators of the four formats and of widening.
F16Results(i, rep, slice)  == LaneResults(i, rep, slice \cap LanesIn(0, 128), Sources(i), 2, 2)
S16Results(i, rep, slice)  == LaneResults(i, rep, slice \cap LanesIn(0, 128), Sources(i), 2, 2)
S32Results(i, rep, slice)  == LaneResults(i, rep, slice \cap LanesIn(0, 64), Sources(i), 4, 4)
Fp32Results(i, rep, slice) == LaneResults(i, rep, slice \cap LanesIn(0, 64), Sources(i), 4, 4)
S16WidenResults(i, rep)    == LaneResults(i, rep, LanesIn(0, 64), 2, 2, 4)
ArithmeticResults(i, rep, slice) ==
  CASE Widens(i)     -> S16WidenResults(i, rep)
    [] i.fmt = "F16" -> F16Results(i, rep, slice)
    [] i.fmt \in {"S16", "B16"} -> S16Results(i, rep, slice)
    [] i.fmt = "S32" -> S32Results(i, rep, slice)
    [] OTHER         -> Fp32Results(i, rep, slice)

-----------------------------------------------------------------------------
(* Scalar, Shift, Copy and SpecialUnary: one source of width i.w *)

ScalarReads(i, rep, group) == ReadAccesses(i, rep, MaskOf(i, rep), 1, i.w, group)
ShiftReads(i, rep, group)  == ReadAccesses(i, rep, MaskOf(i, rep), 1, i.w, group)
CopyReads(i, rep, group)   == ReadAccesses(i, rep, MaskOf(i, rep), 1, i.w, group)
SpecialReads(i, rep, group) == ReadAccesses(i, rep, MaskOf(i, rep), 1, i.w, group)

ScalarPlan(i)  == UnaryTargets(i, i.w)
ShiftPlan(i)   == UnaryTargets(i, i.w)
\* plan_c220_copy_issue: a block stride of 0 reads consecutive blocks.
CopyIssue(i)   == [i EXCEPT !.blk[1] = AtLeastOne(@)]
CopyPlan(i)    == UnaryTargets(i, i.w)
\* plan_c220_special_unary_issue: masks are cut to the lanes of the width.
SpecialIssue(i) == [i EXCEPT !.masks = [r \in DOMAIN @ |-> @[r] \cap LanesIn(0, Lanes(i.w))]]
SpecialPlan(i) == UnaryTargets(i, i.w)

ScalarResults(i, rep, slice) == LaneResults(i, rep, slice \cap LanesIn(0, Lanes(i.w)), 1, i.w, i.w)
ShiftResults(i, rep, slice)  == LaneResults(i, rep, slice \cap LanesIn(0, Lanes(i.w)), 1, i.w, i.w)
CopyResults(i, rep, slice)   == LaneResults(i, rep, slice \cap LanesIn(0, Lanes(i.w)), 1, i.w, i.w)
SpecialResults(i, rep, slice) ==
  LaneResults(i, rep, slice \cap LanesIn(0, Lanes(i.w)), 1, i.w, i.w)

\* plan_c220_movev_to_ub: a scalar to every active lane, known at the issue.
MovevPlan(i) == Planned({}, UNION {TileStores(i, r, i.w) : r \in Repeats(i)})

-----------------------------------------------------------------------------
(* Broadcast: i.count repeats of eight source elements, one per block *)

BroadcastSource(i, rep) == i.base[1] + 8 * rep * i.w
BroadcastBlock(i, rep, block) == i.dst + BlockBytes * (block * AtLeastOne(i.dB) + rep * i.dR)
\* The functional read takes the eight elements, the timing read a block.
BroadcastReads(i, rep, functional) ==
  {[src |-> 0, off |-> 0, bytes |-> IF functional THEN 8 * i.w ELSE BlockBytes,
    addr |-> BroadcastSource(i, rep)]}
BroadcastResults(i, rep) ==
  {Result(Store(rep, b * LanesPerBlock(i.w) + k, BroadcastBlock(i, rep, b) + k * i.w, i.w),
          {Part(0, b * i.w, i.w)}) :
     b \in 0..(BlockCount - 1), k \in 0..(LanesPerBlock(i.w) - 1)}
BroadcastPlan(i) ==
  LET reps == 0..(i.count - 1) IN
  [ok |-> \A r \in reps : /\ InUb(BroadcastSource(i, r), BlockBytes)
                          /\ \A b \in 0..(BlockCount - 1) : InUb(BroadcastBlock(i, r, b), BlockBytes),
   stores |-> UNION {StoresOf(BroadcastResults(i, r)) : r \in reps}]

-----------------------------------------------------------------------------
(* Transpose: a 16 x 16 tile of two-byte lanes, written in two halves *)

TransposeReads(i) == {BlockAccess(0, b, i.base[1] + BlockBytes * b) : b \in 0..15}
TransposeResults(i) ==
  {Result(Store(d \div 128, d % 128, i.dst + 2 * d, 2),
          {Part(0, 2 * ((d % 16) * 16 + (d \div 16)), 2)}) : d \in 0..255}
TransposePlan(i) ==
  [ok |-> AccessesInUb(TransposeReads(i)) /\ \A b \in 0..15 : InUb(i.dst + BlockBytes * b, BlockBytes),
   stores |-> StoresOf(TransposeResults(i))]

-----------------------------------------------------------------------------
(* NCHW: tables of 16 block numbers for the rows of source and destination *)

\* advance_table: a table moves by its stride before the first repeat too.
AdvanceTable(table, rep, stride) ==
  [k \in 1..16 |-> BlockBytes * ((table[k] + (rep + 1) * stride) % 8192)]
NchwSource(i, rep) == AdvanceTable(i.srcTable, rep, i.rep[1])
NchwDestination(i, rep) == AdvanceTable(i.dstTable, rep, i.dR)
NchwReads(i, rep) == {BlockAccess(0, b, NchwSource(i, rep)[b + 1]) : b \in 0..15}
High(flag) == IF flag THEN 16 ELSE 0
NchwResults(i, rep) ==
  LET to == NchwDestination(i, rep)
      byte(r, c) == Result(Store(2 * rep + r \div 8, (r % 8) * 32 + High(i.dstHigh) + c,
                                 to[r + 1] + High(i.dstHigh) + c, 1),
                           {Part(0, c * BlockBytes + High(i.srcHigh) + r, 1)})
      half(r, c) == Result(Store(2 * rep + r \div 8, (r % 8) * 16 + c, to[r + 1] + 2 * c, 2),
                           {Part(0, c * BlockBytes + 2 * r, 2)})
      word(r, c) == Result(Store(2 * rep + r \div 4, (r % 4) * 16 + c,
                                 to[2 * r + c \div 8 + 1] + 4 * (c % 8), 4),
                           {Part(0, c * BlockBytes + 4 * r, 4)})
  IN  CASE i.w = 1 -> {byte(r, c) : r \in 0..15, c \in 0..15}
        [] i.w = 2 -> {half(r, c) : r \in 0..15, c \in 0..15}
        [] OTHER   -> {word(r, c) : r \in 0..7, c \in 0..15}
NchwPlan(i) ==
  Planned(UNION {NchwReads(i, r) : r \in 0..(i.count - 1)},
          UNION {StoresOf(NchwResults(i, r)) : r \in 0..(i.count - 1)})

-----------------------------------------------------------------------------
(* Ternary and Axpy: they read the destination too.  i.w is the width of   *)
(* the sources, i.dw that of the destination.                              *)

MixedLanes(i) == Lanes(i.dw)
MixedGroups(i) == 0..(CeilDiv(MixedLanes(i), 64) - 1)
MixedIssue(i) == [i EXCEPT !.masks = [r \in DOMAIN @ |-> @[r] \cap LanesIn(0, MixedLanes(i))]]

TernaryReads(i, rep, group) ==
  ReadAccesses(i, rep, MaskOf(i, rep), 2, i.w, group)
    \cup DestinationReads(i, rep, MaskOf(i, rep), i.dw, group)
AxpyReads(i, rep, group) ==
  ReadAccesses(i, rep, MaskOf(i, rep), 1, i.w, group)
    \cup DestinationReads(i, rep, MaskOf(i, rep), i.dw, group)
TernaryPlan(i) ==
  Planned(UNION {TernaryReads(i, r, g) : r \in Repeats(i), g \in MixedGroups(i)},
          UNION {TileStores(i, r, i.dw) : r \in Repeats(i)})
\* plan_c220_axpy_issue: the unary plan with the width of the destination
\* checks blocks of the source that its own reads may not need.
AxpyPlan(i) ==
  LET unary == UnaryTargets(i, i.dw) IN
  [unary EXCEPT !.ok =
     @ /\ \A r \in Repeats(i), g \in MixedGroups(i) : AccessesInUb(AxpyReads(i, r, g))]

MixedResults(i, rep, lanes, sources) ==
  {Result(Store(rep, l, DestinationAddress(i, rep, l, i.dw), i.dw),
          LaneParts(l, sources, i.w) \cup {Part(2, l * i.dw, i.dw)}) :
     l \in lanes \cap MaskOf(i, rep) \cap LanesIn(0, MixedLanes(i))}
TernaryResults(i, rep, slice) == MixedResults(i, rep, slice, 2)
AxpyResults(i, rep, slice)    == MixedResults(i, rep, slice, 1)

-----------------------------------------------------------------------------
(* Conversion: i.sb and i.db bits of an element, i.deq "None", "Half" or   *)
(* "Vector" dequantisation, i.dstHigh the half of a block it writes.       *)

ConversionLanes(i)  == 2048 \div Max({i.sb, i.db})
ConversionGroups(i) == 0..(CeilDiv(ConversionLanes(i), 64) - 1)
ConversionIssue(i)  ==
  [i EXCEPT !.masks = [r \in DOMAIN @ |-> @[r] \cap LanesIn(0, ConversionLanes(i))]]
GroupLanes(group) == LanesIn(64 * group, 64)
DeqDescriptors(source, address) == {BlockAccess(source, b, address + BlockBytes * b) : b \in 0..3}

\* read_accesses_for_repeat
ConversionReads(i, rep, group) ==
  LET perBlock == (BlockBytes * 8) \div i.sb
      lanes(b) == LanesIn(b * perBlock, perBlock) \cap LanesIn(0, ConversionLanes(i))
      active   == MaskOf(i, rep) \cap GroupLanes(group)
      blocks   == 0..(CeilDiv((ConversionLanes(i) * i.sb) \div 8, BlockBytes) - 1)
  IN  {BlockAccess(0, b, i.base[1] + BlockBytes * (rep * i.rep[1] + b * AtLeastOne(i.blk[1]))) :
         b \in {c \in blocks : lanes(c) \cap active # {}}}
      \cup (IF i.deq = "Vector" /\ active # {} THEN DeqDescriptors(1, i.base[2]) ELSE {})

\* destination_lane_index, and logical_lane_for_store, its inverse
DeqLane(lane, high) == (lane \div 16) * BlockBytes + High(high) + (lane % 16)
ConversionTarget(i, lane) == IF i.deq = "None" THEN lane ELSE DeqLane(lane, i.dstHigh)
HalfLane(s, high) ==
  IF s.lane % BlockBytes \in LanesIn(High(high), 16)
    THEN (s.lane \div BlockBytes) * 16 + (s.lane % BlockBytes) - High(high) ELSE -1
\* Faulty variant: the byte of two packed lanes counts as one lane.
ConversionLogicalLaneOfByte(i, s) ==
  IF i.deq = "None" THEN s.lane ELSE HalfLane(s, i.dstHigh)

ConversionLogicalLane(i, s) ==
  IF i.db = 4 THEN 2 * s.lane ELSE IF i.deq = "None" THEN s.lane ELSE HalfLane(s, i.dstHigh)

\* Two lanes of four bits share a byte; the byte keeps the nibble of a lane
\* that is not active, which the evaluation reads from the UB itself.
PackedAddress(i, rep, byte) ==
  i.dst + BlockBytes * (rep * i.dR + (byte \div BlockBytes) * AtLeastOne(i.dB)) + (byte % BlockBytes)
PackedLanes(byte) == {2 * byte, 2 * byte + 1}
DirectUb == 3
SourcePart(i, lane) ==
  IF i.sb = 4 THEN Part(0, lane \div 2, 1) ELSE Part(0, lane * (i.sb \div 8), i.sb \div 8)
ConversionParts(i, lane) ==
  {SourcePart(i, lane)} \cup (IF i.deq = "Vector" THEN {Part(1, (lane % 16) * 8, 8)} ELSE {})
PackedResults(i, rep, lanes) ==
  {Result(Store(rep, b, PackedAddress(i, rep, b), 1),
          UNION {ConversionParts(i, l) : l \in PackedLanes(b) \cap lanes}
            \cup (IF PackedLanes(b) \subseteq lanes THEN {}
                  ELSE {Part(DirectUb, PackedAddress(i, rep, b), 1)})) :
     b \in {l \div 2 : l \in lanes}}
OrdinaryResults(i, rep, lanes) ==
  {Result(Store(rep, ConversionTarget(i, l),
                DestinationAddress(i, rep, ConversionTarget(i, l), i.db \div 8), i.db \div 8),
          ConversionParts(i, l)) : l \in lanes}
ConversionResults(i, rep, slice) ==
  LET lanes == MaskOf(i, rep) \cap slice
  IN  IF i.db = 4 THEN PackedResults(i, rep, lanes) ELSE OrdinaryResults(i, rep, lanes)

\* plan_write_targets
ConversionTargets(i, rep) ==
  IF i.db = 4
    THEN {Store(rep, b, PackedAddress(i, rep, b), 1) :
            b \in {c \in 0..(CeilDiv(ConversionLanes(i), 2) - 1) :
                     PackedLanes(c) \cap MaskOf(i, rep) # {}}}
    ELSE {Store(rep, ConversionTarget(i, l),
                DestinationAddress(i, rep, ConversionTarget(i, l), i.db \div 8), i.db \div 8) :
            l \in MaskOf(i, rep)}
ConversionPlan(i) ==
  Planned(UNION {ConversionReads(i, r, g) : r \in Repeats(i), g \in ConversionGroups(i)},
          UNION {ConversionTargets(i, r) : r \in Repeats(i)})

-----------------------------------------------------------------------------
(* Fused: i.fmt, i.op, i.dstHigh, i.descriptor *)

FusedLanes(i)  == IF i.fmt \in {"F32ToF16", "S32ToF16", "VectorDeqS16ToB8"} THEN 64 ELSE 128
FusedGroups(i) == 0..(CeilDiv(FusedLanes(i), 64) - 1)
FusedSourceWidth(i) == IF i.fmt \in {"F32ToF16", "S32ToF16"} THEN 4 ELSE 2
FusedWidth(i)  == IF i.fmt \in {"F32ToF16", "S32ToF16"} THEN 2 ELSE 1
FusedIssue(i)  == [i EXCEPT !.masks = [r \in DOMAIN @ |-> @[r] \cap LanesIn(0, FusedLanes(i))]]
HighMultiply(i) == i.fmt \in {"F16ToS8", "F16ToU8"} /\ i.op = "Multiply"

\* Dequantisation reads whole tiles and sixteen descriptors.
FusedReads(i, rep, group) ==
  IF i.fmt # "VectorDeqS16ToB8"
    THEN ReadAccesses(i, rep, MaskOf(i, rep), 2, FusedSourceWidth(i), group)
  ELSE IF MaskOf(i, rep) \cap LanesIn(0, 64) = {} THEN {}
  ELSE ReadAccesses(i, rep, AllLanes, 2, 4, NoGroup) \cup DeqDescriptors(2, i.descriptor)
FusedTarget(i, lane) ==
  IF i.fmt = "VectorDeqS16ToB8" THEN DeqLane(lane, i.dstHigh)
  ELSE IF HighMultiply(i) THEN lane + 8 * High(i.dstHigh) ELSE lane
FusedLogicalLane(i, s) ==
  IF i.fmt = "VectorDeqS16ToB8" THEN HalfLane(s, i.dstHigh)
  ELSE IF HighMultiply(i) THEN s.lane - 8 * High(i.dstHigh) ELSE s.lane
FusedStore(i, rep, lane) ==
  Store(rep, FusedTarget(i, lane), DestinationAddress(i, rep, FusedTarget(i, lane), FusedWidth(i)),
        FusedWidth(i))
FusedResults(i, rep, slice) ==
  {Result(FusedStore(i, rep, l),
          LaneParts(l, 2, FusedSourceWidth(i))
            \cup (IF i.fmt = "VectorDeqS16ToB8" THEN {Part(2, (l % 16) * 8, 8)} ELSE {})) :
     l \in MaskOf(i, rep) \cap slice \cap LanesIn(0, FusedLanes(i))}
FusedTargets(i, rep) ==
  {FusedStore(i, rep, l) : l \in MaskOf(i, rep) \cap LanesIn(0, FusedLanes(i))}
FusedPlan(i) ==
  Planned(UNION {FusedReads(i, r, g) : r \in Repeats(i), g \in FusedGroups(i)},
          UNION {FusedTargets(i, r) : r \in Repeats(i)})

-----------------------------------------------------------------------------
(* MoveMask, CompareMask, PackedCompare.  What goes to the compare mask and *)
(* not to the UB is a result without a store.                              *)

\* The mask is 16 bytes and its read a block of 32.
MoveMaskReads(i) ==
  IF i.fromMemory THEN {[src |-> 0, off |-> 0, bytes |-> BlockBytes, addr |-> i.base[1]]} ELSE {}
MoveMaskResults(i) ==
  IF i.fromMemory THEN {Result(NoStore, {Part(0, 0, 16)})}
  ELSE {Result(Store(0, k, i.base[1] + 4 * k, 4), {}) : k \in 0..3}
MoveMaskPlan(i) ==
  [ok |-> InUb(i.base[1], 16), stores |-> StoresOf(MoveMaskResults(i))]

CompareReads(i, rep) == ReadAccesses(i, rep, MaskOf(i, rep), 2, i.w, NoGroup)
\* The functional read takes both tiles whole.
CompareTiles(i, rep) == ReadAccesses(i, rep, AllLanes, 2, i.w, NoGroup)
ComparePlan(i) == Planned(UNION {CompareReads(i, r) : r \in Repeats(i)}, {})
CompareResults(i, rep, slice) ==
  {Result(NoStore, LaneParts(l, 2, i.w)) : l \in slice \cap MaskOf(i, rep) \cap LanesIn(0, Lanes(i.w))}

PackedReads(i, rep) ==
  ReadAccesses(i, rep, AllLanes, IF i.second THEN 2 ELSE 1, i.w, NoGroup)
PackedBytes(i) == Lanes(i.w) \div 8
PackedCompareResults(i, rep) ==
  {Result(Store(rep, k, i.dst + rep * PackedBytes(i) + k, 1),
          UNION {LaneParts(8 * k + b, IF i.second THEN 2 ELSE 1, i.w) : b \in 0..7}) :
     k \in 0..(PackedBytes(i) - 1)}
PackedComparePlan(i) ==
  Planned(UNION {PackedReads(i, r) : r \in 0..(i.count - 1)},
          UNION {StoresOf(PackedCompareResults(i, r)) : r \in 0..(i.count - 1)})

-----------------------------------------------------------------------------
(* Select: i.mode "CompareMask", "TensorScalar" or "TensorTensor", the last *)
(* two with a selection mask of the tensor's in the UB at i.maskBase.      *)

MaskBytesPerRepeat(i)  == Lanes(i.w) \div 8
MaskRepeatsPerBlock(i) == TileBytes \div MaskBytesPerRepeat(i)
SelectSources(i) == IF i.mode = "TensorScalar" THEN 1 ELSE 2
MaskSource(i) == IF i.mode = "TensorScalar" THEN 1 ELSE 2

\* mask_block_accesses: eight blocks hold the masks of several repeats.
MaskBlocks(i, rep, source) ==
  {BlockAccess(source, b, i.maskBase + BlockBytes * b + TileBytes * (rep \div MaskRepeatsPerBlock(i))) :
     b \in 0..(BlockCount - 1)}
LoadsSelectionMask(i, rep, group) ==
  i.mode = "TensorScalar" /\ group = 0 /\ rep % MaskRepeatsPerBlock(i) = 0
SelectReads(i, rep, group) ==
  ReadAccesses(i, rep, MaskOf(i, rep), SelectSources(i), i.w, group)
    \cup (IF LoadsSelectionMask(i, rep, group) THEN MaskBlocks(i, rep, 1) ELSE {})

\* functional_read_accesses: whole tiles, and the mask of this repeat.
SelectTiles(i, rep) ==
  ReadAccesses(i, rep, AllLanes, SelectSources(i), i.w, NoGroup)
    \cup (IF i.mode = "CompareMask" THEN {}
          ELSE {[src |-> MaskSource(i), off |-> 0, addr |-> i.maskBase + rep * MaskBytesPerRepeat(i),
                 bytes |-> IF i.mode = "TensorScalar" THEN BlockBytes ELSE MaskBytesPerRepeat(i)]})
SelectGroups(i) == 0..((Lanes(i.w) \div 64) - 1)
SelectPlan(i) ==
  LET unary == UnaryTargets(i, i.w) IN
  [unary EXCEPT !.ok =
     /\ @
     /\ \A r \in Repeats(i), g \in SelectGroups(i) : AccessesInUb(SelectReads(i, r, g))
     /\ i.mode # "CompareMask" =>
          \A r \in Repeats(i) : AccessesInUb(MaskBlocks(i, r, 0))]

\* Either source may be selected; a lane that is not selected in the mode
\* TensorScalar takes the scalar in the compare mask register.
SelectResults(i, rep, slice) ==
  {Result(Store(rep, l, DestinationAddress(i, rep, l, i.w), i.w),
          LaneParts(l, SelectSources(i), i.w)
            \cup (IF i.mode = "CompareMask" THEN {} ELSE {Part(MaskSource(i), l \div 8, 1)})) :
     l \in slice \cap MaskOf(i, rep) \cap LanesIn(0, Lanes(i.w))}

-----------------------------------------------------------------------------
(* Gather of elements of width i.w, or of blocks; i.indices[rep + 1] are   *)
(* the indices that the UB holds at i.index when the issue is planned.     *)

GatherPerRepeat(i) == IF i.blocks THEN BlockCount ELSE Lanes(i.w)
GatherCount(i)  == IF i.blocks THEN i.count ELSE Len(i.masks)
GatherGroups(i) == IF i.blocks THEN 1 ELSE Lanes(i.w) \div 16
GatherIndices(i, rep) ==
  [src |-> 0, off |-> 0, bytes |-> 4 * GatherPerRepeat(i),
   addr |-> i.index + 4 * rep * GatherPerRepeat(i)]
GatherDestination(i, rep, offset) == i.dst + BlockBytes * rep * i.dR + offset

GatherTargets(i, rep) ==
  IF i.blocks
    THEN {Store(rep, 8 * b + k,
                GatherDestination(i, rep, BlockBytes * b * AtLeastOne(i.dB) + 4 * k), 4) :
            b \in 0..7, k \in 0..7}
    ELSE {Store(rep, l, GatherDestination(i, rep, l * i.w), i.w) :
            l \in MaskOf(i, rep) \cap LanesIn(0, Lanes(i.w))}
GatherPlan(i) ==
  LET reps == 0..(GatherCount(i) - 1)
  IN  Planned({GatherIndices(i, r) : r \in reps}, UNION {GatherTargets(i, r) : r \in reps})
DataStores(i, stores, rep, group) ==
  {s \in stores : s.rep = rep /\ (i.blocks \/ s.lane \in LanesIn(16 * group, 16))}

\* index_read_access: a window of 256 bytes, for elements one per 64 lanes
IndexWindow(i, rep, group) ==
  [src |-> 0, off |-> 0, bytes |-> TileBytes,
   addr |-> i.index + (IF i.blocks THEN 0 ELSE 4 * rep * Lanes(i.w) + TileBytes * group)]

\* index_prefetch_repeat and waits_for_index_prefetch: the window at the
\* start holds the indices of eight repeats, then every fourth repeat reads
\* those of the four after the next four.  -1 is None.
\* Faulty variant: the last repeat is not prefetched when it is alone.
PrefetchRepeatShort(i, rep) ==
  IF i.blocks /\ rep # 0 /\ rep % 4 = 0 /\ rep + 5 < GatherCount(i) THEN rep + 4 ELSE -1

PrefetchRepeat(i, rep) ==
  IF i.blocks /\ rep # 0 /\ rep % 4 = 0 /\ rep + 4 < GatherCount(i) THEN rep + 4 ELSE -1
WaitsForPrefetch(i, rep) == i.blocks /\ rep >= 8 /\ rep % 4 = 0
Prefetch(i, rep) ==
  {[src |-> 1, off |-> 0, addr |-> i.index + BlockBytes * n,
    bytes |-> BlockBytes * Min({GatherCount(i) - n, 4})] : n \in {PrefetchRepeat(i, rep)} \ {-1}}

\* timing_data_read_accesses: the indices themselves, without the base
GatherData(i, rep, group) ==
  IF i.blocks
    THEN {BlockAccess(0, b, i.indices[rep + 1][b + 1]) : b \in 0..7} \cup Prefetch(i, rep)
    ELSE {[src |-> (l % 16) \div 8, off |-> (l % 8) * i.w, bytes |-> i.w,
           addr |-> i.indices[rep + 1][l + 1]] : l \in LanesIn(16 * group, 16) \cap MaskOf(i, rep)}

\* execute_gather_repeat: the transfers of a repeat, with the indices that
\* the UB holds when it executes
GatherTransfers(i, rep, indices) ==
  {[from |-> i.baseOffset + indices[l + 1],
    bytes |-> IF i.blocks THEN BlockBytes ELSE i.w,
    to |-> GatherDestination(i, rep, IF i.blocks THEN BlockBytes * l * AtLeastOne(i.dB) ELSE l * i.w)] :
     l \in IF i.blocks THEN 0..7 ELSE MaskOf(i, rep) \cap LanesIn(0, Lanes(i.w))}

-----------------------------------------------------------------------------
(* Reduction: i.rk "WholeAdd" (i.acc: into the accumulator), "GroupAdd",   *)
(* "PairAdd", "WholeExtremum" (i.output "ValueIndex", "IndexValue",        *)
(* "Value" or "Index") or "GroupExtremum"; i.w                             *)

ReductionReads(i, rep) == ReadAccesses(i, rep, MaskOf(i, rep), 1, i.w, NoGroup)
CrossRepeatState(i) == (i.rk = "WholeAdd" /\ i.acc) \/ i.rk = "WholeExtremum"
ReductionStore(i, rep, lane, w) == Store(rep, lane, DestinationAddress(i, rep, lane, w), w)

\* The lanes a result reduces: inactive ones count as zero and are not read.
Reduced(i, rep, first, count) ==
  {Part(0, l * i.w, i.w) : l \in LanesIn(first, count) \cap MaskOf(i, rep)}
RangeResults(i, rep, results, count) ==
  {Result(ReductionStore(i, rep, k, i.w), Reduced(i, rep, k * count, count)) :
     k \in {n \in 0..(results - 1) : Reduced(i, rep, n * count, count) # {}}}
WholeResults(i, rep, stores) ==
  {Result(s, Reduced(i, rep, 0, Lanes(i.w))) : s \in stores}
ReductionResults(i, rep) ==
  CASE i.rk = "WholeAdd" ->
         WholeResults(i, rep, IF i.acc THEN {NoStore} ELSE {ReductionStore(i, rep, 0, i.w)})
    [] i.rk = "WholeExtremum" ->
         WholeResults(i, rep, IF i.output = "Index" THEN {ReductionStore(i, rep, 0, 4)}
                              ELSE IF i.output = "Value" THEN {ReductionStore(i, rep, 0, i.w)}
                              ELSE {ReductionStore(i, rep, k, i.w) : k \in {0, 1}})
    [] i.rk = "PairAdd" -> RangeResults(i, rep, Lanes(i.w) \div 2, 2)
    [] OTHER -> RangeResults(i, rep, BlockCount, LanesPerBlock(i.w))
ReductionPlan(i) ==
  Planned(UNION {ReductionReads(i, r) : r \in Repeats(i)},
          UNION {StoresOf(ReductionResults(i, r)) : r \in Repeats(i)})

-----------------------------------------------------------------------------
(* Sort: 32 values of width i.w and 32 indices to records of eight bytes   *)

SortLanes == 32
SortReads(i, rep) ==
  {BlockAccess(0, b, i.base[1] + TileBytes * rep + BlockBytes * b) : b \in 0..(i.w - 1)}
    \cup {BlockAccess(1, b, i.base[2] + TileBytes * rep + BlockBytes * b) : b \in 0..3}
SortResults(i, rep) ==
  {Result(Store(rep, l, i.dst + TileBytes * rep + 8 * l, 8),
          {Part(0, k * i.w, i.w) : k \in 0..(SortLanes - 1)}
            \cup {Part(1, 4 * k, 4) : k \in 0..(SortLanes - 1)}) : l \in 0..(SortLanes - 1)}
SortPlan(i) ==
  [ok |-> \A r \in 0..(i.count - 1) : /\ InUb(i.base[1] + TileBytes * r, SortLanes * i.w)
                                      /\ InUb(i.base[2] + TileBytes * r, SortLanes * 4)
                                      /\ InUb(i.dst + TileBytes * r, TileBytes),
   stores |-> UNION {StoresOf(SortResults(i, r)) : r \in 0..(i.count - 1)}]

\* LoadVa: eight addresses from half a block
LoadVaReads(i)   == {[src |-> 0, off |-> 0, bytes |-> BlockBytes, addr |-> i.base[1]]}
LoadVaPlan(i)    == [ok |-> InUb(i.base[1], BlockBytes), stores |-> {}]
LoadVaResults(i) == {Result(NoStore, {Part(0, High(i.high), 16)})}
=============================================================================
