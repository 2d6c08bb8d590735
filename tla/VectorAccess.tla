---------------------------- MODULE VectorAccess ----------------------------
(***************************************************************************)
(* What every operation of the vector unit shares: repeat masks, the       *)
(* addresses of a tile, the write plan of an instruction with its          *)
(* write-back time, and the repeat schedules that leave out redundant      *)
(* traffic (vector/access.rs, mask.rs, timing.rs, repeat.rs).              *)
(*                                                                         *)
(* A tile is 256 bytes, eight blocks of 32 bytes; a mask is a set of       *)
(* lanes.  An issue is a record: base, blk and rep give the address, block *)
(* stride and repeat stride of its two sources, dst, dB and dR those of    *)
(* its destination; strides count blocks.  A read access says which bytes  *)
(* of the UB fill the buffer of a source from an offset on; a store is one *)
(* lane.  Addresses are far from 2^64, so their additions do not overflow. *)
(***************************************************************************)
EXTENDS Integers, Sequences, FiniteSets, FiniteSetsExt, SequencesExt

CONSTANT UbBytes  \* the size of the unified buffer

ASSUME UbBytesAssumption == UbBytes \in Nat \ {0}

BlockBytes == 32
BlockCount == 8
TileBytes  == BlockCount * BlockBytes
PartialWriteOccupancyTicks == 6
UbBankGroups == 16
MaxVectorRepeats == 4096
NoGroup  == -1        \* lane_group: None
AllLanes == 0..255    \* the mask [u64::MAX; 4]

AtLeastOne(stride) == IF stride = 0 THEN 1 ELSE stride
LanesPerBlock(w) == BlockBytes \div w
Lanes(w) == TileBytes \div w
LanesIn(first, count) == first..(first + count - 1)
CeilDiv(a, b) == (a + b - 1) \div b

\* UbMemory::check_range
InUb(address, bytes) == address + bytes <= UbBytes

-----------------------------------------------------------------------------
(* Masks *)

\* decode_c220_tile_mask: in count mode the first lanes are active.
TileMask(countMode, count, mask) == IF countMode THEN 0..(count - 1) ELSE mask

\* decode_c220_repeat_masks: the masks of the repeats, or "error".  The
\* control word selects a mask for every repeat, or a count of lanes that
\* decides the number of repeats; mask bits beyond the lanes stay.
RepeatMasks(ctrl, lanes) ==
  IF ~ctrl.countMode THEN [ok |-> TRUE, masks |-> [r \in 1..ctrl.repeats |-> ctrl.mask]]
  ELSE IF ctrl.high # 0 \/ CeilDiv(ctrl.count, lanes) > MaxVectorRepeats
    THEN [ok |-> FALSE, masks |-> <<>>]
  ELSE [ok |-> TRUE,
        masks |-> [r \in 1..CeilDiv(ctrl.count, lanes) |->
                     TileMask(TRUE, Min({ctrl.count - (r - 1) * lanes, lanes}), {})]]

\* The masks of an issue are numbered from 0, as its repeats are.
MaskOf(i, rep) == i.masks[rep + 1]
Repeats(i) == 0..(Len(i.masks) - 1)

-----------------------------------------------------------------------------
(* Addresses of a tile *)

\* vector_destination_address_for_width
DestinationAddress(i, rep, lane, w) ==
  i.dst + BlockBytes * (rep * i.dR + (lane \div LanesPerBlock(w)) * AtLeastOne(i.dB))
        + (lane % LanesPerBlock(w)) * w

\* Faulty variant: the mask of a block is kept in eight bits.
BlockActiveByte(mask, block, w) ==
  \E k \in 0..(Min({LanesPerBlock(w), 8}) - 1) : block * LanesPerBlock(w) + k \in mask

\* The mask of a block is kept in 16 bits, also for the 32 lanes of bytes.
BlockActive(mask, block, w) ==
  \E k \in 0..(Min({LanesPerBlock(w), 16}) - 1) : block * LanesPerBlock(w) + k \in mask
BlocksOf(mask, w, group) ==
  {b \in 0..(BlockCount - 1) : /\ group = NoGroup \/ (b * LanesPerBlock(w)) \div 64 = group
                               /\ BlockActive(mask, b, w)}
BlockAccess(source, block, address) ==
  [src |-> source, off |-> BlockBytes * block, bytes |-> BlockBytes, addr |-> address]

\* plan_c220_vector_read_accesses
ReadAccesses(i, rep, mask, sources, w, group) ==
  {BlockAccess(s, b, i.base[s + 1] + BlockBytes * (rep * i.rep[s + 1] + b * i.blk[s + 1])) :
     s \in 0..(sources - 1), b \in BlocksOf(mask, w, group)}

\* plan_c220_destination_read_accesses
DestinationReads(i, rep, mask, w, group) ==
  {BlockAccess(2, b, DestinationAddress(i, rep, b * LanesPerBlock(w), w)) :
     b \in BlocksOf(mask, w, group)}

AccessesInUb(accesses) == \A a \in accesses : InUb(a.addr, a.bytes)

Store(rep, lane, address, w) == [rep |-> rep, lane |-> lane, addr |-> address, w |-> w]
TileStores(i, rep, w) ==
  {Store(rep, l, DestinationAddress(i, rep, l, w), w) :
     l \in MaskOf(i, rep) \cap LanesIn(0, Lanes(w))}
StoresInUb(stores) == \A s \in stores : InUb(s.addr, s.w)

\* Every planning function rejects the issue at its first access or target
\* outside the UB: what it accepts is [ok, stores].
Planned(accesses, stores) ==
  [ok |-> AccessesInUb(accesses) /\ StoresInUb(stores), stores |-> stores]

\* plan_c220_unary_write_targets
UnaryTargets(i, w) ==
  Planned(UNION {ReadAccesses(i, r, MaskOf(i, r), 1, w, NoGroup) : r \in Repeats(i)},
          UNION {TileStores(i, r, w) : r \in Repeats(i)})

-----------------------------------------------------------------------------
(* The write plan of an instruction: C220VectorWritePlan *)

StoreBlock(s) == s.lane \div LanesPerBlock(s.w)
BlockBase(s)  == s.addr - (s.lane % LanesPerBlock(s.w)) * s.w
BankGroup(address) == (address \div BlockBytes) % UbBankGroups

\* from_stores: the lanes of a block share its address and width.
WritePlanOk(stores) ==
  /\ \A s \in stores : s.w \in {1, 2, 4, 8} /\ StoreBlock(s) < BlockCount /\ BlockBase(s) >= 0
  /\ \A s, t \in stores : (s.rep = t.rep /\ StoreBlock(s) = StoreBlock(t)) =>
       BlockBase(s) = BlockBase(t) /\ s.w = t.w
WriteBlocks(stores) ==
  {[rep |-> s.rep, block |-> StoreBlock(s), base |-> BlockBase(s), w |-> s.w,
    full |-> Cardinality({t \in stores : t.rep = s.rep /\ StoreBlock(t) = StoreBlock(s)})
               = LanesPerBlock(s.w)] : s \in stores}
BlockFirstLane(b) == b.block * LanesPerBlock(b.w)

\* GroupWriteState.accept: a partial write occupies the group for six ticks
\* and holds up the write that comes six slots later.
Accept(g, full) ==
  LET slots == IF full THEN g.partial ELSE g.partial \cup {g.next}
      held  == {n \in 1..PartialWriteOccupancyTicks :
                  /\ g.next >= PartialWriteOccupancyTicks
                  /\ \A k \in 0..(n - 1) : g.next - PartialWriteOccupancyTicks + k \in slots}
      next  == g.next + 1 + Cardinality(held)
  IN  [next |-> next, partial |-> slots,
       completion |-> Max({g.completion, next + IF full THEN 0 ELSE PartialWriteOccupancyTicks})]

NewGroup == [next |-> 0, partial |-> {}, completion |-> 0]
GroupCompletion(blocks, g) ==
  LET turn[k \in 0..BlockCount] ==
        IF k = 0 THEN NewGroup
        ELSE LET here == {b \in blocks : b.block = k - 1 /\ BankGroup(b.base) = g}
             IN  IF here = {} THEN turn[k - 1]
                 ELSE Accept(turn[k - 1], \A b \in here : b.full)
  IN  turn[BlockCount].completion

\* writeback_ticks_filtered: blocks of one repeat, each with its own number.
\* Full blocks take a tick per block of the busiest bank group, and one that
\* is not aligned has two of them.
Pieces(b) == {b.base} \cup (IF b.base % BlockBytes = 0 THEN {} ELSE {b.base + BlockBytes})
BusiestGroup(blocks) ==
  LET pieces == UNION {{<<b.block, p>> : p \in Pieces(b)} : b \in blocks}
  IN  Max({Cardinality({x \in pieces : BankGroup(x[2]) = g}) : g \in 0..(UbBankGroups - 1)})
WritebackTicks(blocks) ==
  IF \A b \in blocks : b.full THEN BusiestGroup(blocks)
  ELSE Max({GroupCompletion(blocks, g) : g \in 0..(UbBankGroups - 1)})

\* The blocks of a repeat, of a slice of its lanes and of a lane group; an
\* empty set is the None of the code.
RepeatBlocks(stores, rep) == WriteBlocks({s \in stores : s.rep = rep})
SliceBlocks(stores, rep, first, count) ==
  {b \in RepeatBlocks(stores, rep) : BlockFirstLane(b) \in LanesIn(first, count)}
GroupBlocks(stores, rep, group) ==
  {b \in RepeatBlocks(stores, rep) : BlockFirstLane(b) \div 64 = group}

-----------------------------------------------------------------------------
(* OrdinaryRepeatSchedule *)

FeedbackOps == {"Add", "Subtract", "Multiply", "Maximum", "Minimum"}

\* same_source_strides
SameSourceStrides(i) ==
  /\ AtLeastOne(i.blk[1]) = AtLeastOne(i.blk[2])
  /\ Len(i.masks) <= 1 \/ i.rep[1] = i.rep[2]

\* from_issue: an instruction whose second source is its own destination
\* feeds its result back instead of writing and reading it.
Feedback(i) ==
  /\ i.kind = "Arithmetic" /\ i.op \in FeedbackOps
  /\ i.dR = 0 \/ Len(i.masks) = 1
  /\ i.base[2] = i.dst /\ AtLeastOne(i.blk[2]) = AtLeastOne(i.dB)
OrdinarySchedule(i) ==
  LET second == i.kind = "Fused" \/ (i.kind = "Arithmetic" /\ i.second)
      same   == second /\ i.base[1] = i.base[2] /\ SameSourceStrides(i)
  IN  [reuseInput |-> i.rep[1] = 0 /\ ~Feedback(i), readsSecond |-> second /\ ~same,
       feedback |-> Feedback(i), count |-> Len(i.masks)]
OrdinaryWrites(s, rep) == ~s.feedback \/ (rep > 0 /\ rep + 1 = s.count)
OrdinaryGap(s, rep, exec) == IF s.feedback /\ rep > 0 THEN Max({exec - 3, 1}) ELSE 1
OrdinaryReads(s, rep, source) ==
  CASE source = 0 -> rep = 0 \/ ~s.reuseInput
    [] source = 1 -> s.readsSecond
    [] OTHER -> FALSE

-----------------------------------------------------------------------------
(* AccumulatorSchedule *)

NewAccumulator(i, lanes) ==
  [count |-> Len(i.masks), lanes |-> lanes, ternary |-> i.kind = "Ternary",
   reuseDestination |-> i.dR = 0 \/ Len(i.masks) = 1, reuseInput |-> i.rep[1] = 0]
LanesPerUop(s, rep) ==
  IF s.ternary /\ ~(s.reuseDestination /\ rep > 0) THEN s.lanes \div 2 ELSE s.lanes
AccumulatorReads(s, rep, source) ==
  \/ rep = 0
  \/ source = 0 /\ ~s.reuseInput
  \/ source = 1
  \/ source = 2 /\ ~s.reuseDestination
SourcePorts(s, rep) == <<0, IF s.reuseDestination /\ rep > 0 THEN 1 ELSE 0, 1>>
AccumulatorWrites(s, rep) == ~s.reuseDestination \/ rep + 1 = s.count
HasTraffic(s, rep) ==
  s.ternary \/ AccumulatorReads(s, rep, 0) \/ AccumulatorReads(s, rep, 2) \/ AccumulatorWrites(s, rep)
AccumulatorGap(s, rep, first, lanes) ==
  IF s.reuseDestination /\ rep + 1 < s.count /\ first + lanes >= s.lanes THEN 8 ELSE 1
=============================================================================
