------------------------------ MODULE FixPlan ------------------------------
(***************************************************************************)
(* What a FIX command (a move of accumulators out of L0C with conversion)  *)
(* is turned into: the L0C reads of the column form                        *)
(* (C220FixpReadGenerator) and of the row form                             *)
(* (C220FixpNz2ndReadGenerator), the writes the row form plans             *)
(* (C220FixpNz2ndWritePlanner, C220FixpNz2ndWriteGenerator), the external  *)
(* packets (C220FixpExternalOutputPolicy), and the slices the functional   *)
(* execution moves (C220FixpLayout), which are the reference the plans     *)
(* have to agree with.                                                     *)
(*                                                                         *)
(* A command is a record of id, rows, columns, mode (conversion mode),     *)
(* lane (bytes of a source lane), source, sourceStride, dest, destStride,  *)
(* split (channel split), nd (NZ to ND), ndCount, sourceNd, destNd,        *)
(* unit (unit-flag mode), target ("L1" or "OUT").                          *)
(***************************************************************************)
EXTENDS Integers, Sequences, SequencesExt, FiniteSets, FiniteSetsExt, Functions

CONSTANTS Bandwidth,   \* L0C read bandwidth in bytes
          MainSlots    \* 32-byte slots of a row in the transpose buffer

ASSUME FixPlanAssumption == Bandwidth \in Nat \ {0} /\ Bandwidth % 64 = 0 /\ MainSlots \in Nat \ {0}

Lesser(a, b) == IF a < b THEN a ELSE b
CeilDiv(a, b) == (a + b - 1) \div b
Int4Modes == {21, 22, 25, 26}
Int8Modes == {8, 9, 23, 24}

\* from_conversion_mode and storage_bytes; the formats by their width in bits.
FormatBits(mode) ==
  CASE mode \in {19, 20} \cup Int4Modes -> 4
    [] mode \in {17, 18} \cup Int8Modes -> 8
    [] mode \in {1, 6, 10, 11, 12, 13, 16} -> 16
    [] mode = 0 -> 32
StorageBytes(c, lanes) == (lanes * FormatBits(c.mode)) \div 8

Disabled(c) == c.rows = 0 \/ c.columns = 0 \/ (c.nd /\ c.ndCount = 0)
Blocks(c) == CeilDiv(c.columns, 16)
RowBytes(c) == 16 * c.lane

\* Faulty variant: only the mode that leaves the flags alone looks at them.
ReadRequestUnchecked(c, id, address, begins) ==
  [id |-> id, address |-> address \div 256, length |-> 4, write |-> FALSE, banks |-> "groups",
   checks |-> begins /\ c.unit = 2, updates |-> begins /\ c.unit = 3]

\* The request of every read: a whole 1024-byte unit.
ReadRequest(c, id, address, begins) ==
  [id |-> id, address |-> address \div 256, length |-> 4, write |-> FALSE, banks |-> "groups",
   checks |-> begins /\ c.unit \in {2, 3}, updates |-> begins /\ c.unit = 3]

-----------------------------------------------------------------------------
(* C220FixpReadGenerator *)

Split(c)     == c.mode = 0 /\ c.split
Group(c)     == IF c.mode \in Int4Modes THEN 4 ELSE 2
Merge(c)     == c.mode \in Int8Modes \/ (c.mode \in Int4Modes /\ c.columns % 64 = 0)
Singleton(c, b) == Merge(c) /\ (b \div Group(c)) * Group(c) + 1 = Blocks(c)
PartialSingleton(c, b) == Singleton(c, b) /\ c.columns % 16 # 0
ColumnBandwidth(c) == IF c.mode = 0 THEN Bandwidth \div 2 ELSE Bandwidth
ColumnAddress(c, b) == c.source + b * c.sourceStride * RowBytes(c)
ColumnBytes(c, b) == c.rows * (IF PartialSingleton(c, b) THEN RowBytes(c) \div 2 ELSE RowBytes(c))

\* output_bytes
OutputBytes(c, b, data) ==
  CASE PartialSingleton(c, b) -> data \div 4
    [] Singleton(c, b) /\ ~PartialSingleton(c, b) -> ((data * 32) \div RowBytes(c)) \div 2
    [] ~Singleton(c, b) /\ Split(c) -> data \div 2
    [] c.mode = 0 /\ ~Split(c) -> data
    [] c.mode \in {17, 18} -> (data * 16) \div RowBytes(c)
    [] c.mode \in {19, 20} -> 0
    [] c.mode \in Int4Modes /\ ~Merge(c) -> (data * 8) \div RowBytes(c)
    [] OTHER -> (data * 32) \div RowBytes(c)

\* A column is cut where its addresses cross the bandwidth.
Cuts(c, b) ==
  SetToSortSeq({o \in 0..(ColumnBytes(c, b) - 1) :
                  o = 0 \/ (ColumnAddress(c, b) + o) % ColumnBandwidth(c) = 0}, <)

ColumnRead(c, b, j, cuts) ==
  LET offset == cuts[j]
      last   == j = Len(cuts)
      data   == (IF last THEN ColumnBytes(c, b) ELSE cuts[j + 1]) - offset
      before == FoldLeft(LAMBDA n, e : n + OutputBytes(c, b, cuts[e + 1] - cuts[e]), 0, [e \in 1..(j - 1) |-> e])
      begins == (ColumnAddress(c, b) + offset) % 1024 = 0 \/ offset = 0
      group  == b \div Group(c)
  IN  [block |-> b, address |-> ColumnAddress(c, b) + offset, bytes |-> data, begins |-> begins,
       lastInUop |-> ~Merge(c) \/ Singleton(c, b) \/ b % Group(c) = Group(c) - 1,
       endOfBurst |-> last, lastOne |-> last /\ b + 1 = Blocks(c),
       dest |-> IF Merge(c) THEN c.dest + group * c.destStride * 32
                ELSE c.dest + b * c.destStride * 32 * (IF Split(c) THEN 2 ELSE 1) + before,
       output |-> OutputBytes(c, b, data),
       second |-> IF Split(c) /\ (c.columns % 16 = 0 \/ b + 1 # Blocks(c))
                  THEN ((c.destStride * 32) \div 512) * 512 ELSE -1]

ColumnReads(c) ==
  IF Disabled(c) THEN <<>>
  ELSE FlattenSeq([i \in 1..Blocks(c) |-> LET cuts == Cuts(c, i - 1)
                                         IN  [j \in DOMAIN cuts |-> ColumnRead(c, i - 1, j, cuts)]])

-----------------------------------------------------------------------------
(* C220FixpNz2ndReadGenerator: rows of a matrix, column block by column     *)
(* block, as many rows at once as fit in the bandwidth.                     *)

NdAddress(c, nd, row, column) ==
  c.source + nd * 16 * RowBytes(c) * c.sourceNd + row * RowBytes(c) + column * RowBytes(c) * c.sourceStride

NdData(c, nd, row) == Lesser((c.rows - row) * 64, Bandwidth - (NdAddress(c, nd, row, 0) % Bandwidth))

\* new and validate_row_progress: whether the command is planned at all.
NdPlannable(c) ==
  /\ c.source % RowBytes(c) = 0
  /\ c.lane = 4 \/ \A nd \in 0..(c.ndCount - 1), row \in 0..(c.rows - 1) : NdData(c, nd, row) % 64 = 0

NdParts(c, column) ==
  IF c.mode # 0 THEN 1
  ELSE IF column + 1 = Blocks(c) /\ c.columns % 16 # 0 THEN CeilDiv(c.columns % 16, 8) ELSE 2

NdRead(c, nd, row, column, part) ==
  LET data   == NdData(c, nd, row)
      last   == column + 1 = Blocks(c)
      ends   == last /\ part + 1 = NdParts(c, column)
      begins == part = 0 /\ (row = 0 \/ NdAddress(c, nd, row, column) % 1024 = 0)
      every  == IF c.mode \in Int8Modes THEN 2 ELSE IF c.mode \in Int4Modes THEN 4 ELSE 1
  IN  [nd |-> nd, row |-> row, block |-> column, address |-> NdAddress(c, nd, row, column), bytes |-> data,
       begins |-> begins, lastInUop |-> column % every = every - 1 \/ last,
       endOfBurst |-> ends, lastOne |-> ends /\ row + (data \div 64) = c.rows /\ nd + 1 = c.ndCount,
       dest |-> 0, output |-> 32 * (data \div 64), second |-> -1]

\* The rows at which a step of the plan begins.
NdRowStarts(c, nd) ==
  LET starts[row \in 0..c.rows] ==
        IF row = c.rows THEN <<>> ELSE <<row>> \o starts[row + (NdData(c, nd, row) \div 64)]
  IN  starts[0]

NdReads(c) ==
  LET at(nd, row) == FlattenSeq([i \in 1..Blocks(c) |-> [p \in 1..NdParts(c, i - 1) |-> NdRead(c, nd, row, i - 1, p - 1)]])
      matrix(nd)  == LET rows == NdRowStarts(c, nd) IN FlattenSeq([r \in DOMAIN rows |-> at(nd, rows[r])])
  IN  IF Disabled(c) THEN <<>> ELSE FlattenSeq([n \in 1..c.ndCount |-> matrix(n - 1)])

Reads(c) == IF c.nd THEN NdReads(c) ELSE ColumnReads(c)

-----------------------------------------------------------------------------
(* C220FixpNz2ndWritePlanner *)

Gather(c) ==
  LET columnBytes == IF Split(c) THEN 32 ELSE IF c.mode \in {19, 20} THEN 0 ELSE StorageBytes(c, 16)
  IN  columnBytes * Blocks(c) <= MainSlots * 32 /\ c.columns = c.destStride
Aligned512(c) ==
  StorageBytes(c, c.columns) % 512 = 0 /\ c.dest % 512 = 0 /\ StorageBytes(c, c.destStride) % 512 = 0

\* plan_row: one descriptor, or a leading one and a tail.
PlanRow(c, group, ends, dest) ==
  LET rest  == c.columns % 16
      parts == IF c.mode # 0 THEN 1 ELSE IF ends /\ rest # 0 THEN CeilDiv(rest, 8) ELSE 2
      lanes == c.columns % (16 \div parts)
      bytes == IF ~ends THEN MainSlots * 32
               ELSE IF lanes # 0 THEN 32 * (group % 8) + StorageBytes(c, lanes) ELSE 32 * ((group % 8) + 1)
      leading == group % 8 > 3
      whole   == leading /\ ~Gather(c) /\ Aligned512(c)
      first == [dest |-> dest, bytes |-> 128, lastInUop |-> FALSE, endOfBurst |-> FALSE, gather |-> FALSE,
                burst |-> 0]
      tail  == [dest |-> IF whole THEN (dest \div 512) * 512 ELSE dest,
                bytes |-> IF whole THEN 512 ELSE bytes,
                lastInUop |-> ~whole \/ group % 16 = 15,
                endOfBurst |-> IF whole THEN group % 16 = 15 ELSE ~Gather(c),
                gather |-> Gather(c),
                burst |-> IF Gather(c) THEN 0 ELSE IF whole THEN 512 ELSE bytes]
  IN  IF leading THEN <<first, tail>> ELSE <<tail>>

(* C220FixpNz2ndWriteGenerator: follows the reads; at every full buffer row *)
(* and at the end of a burst it plans one row after the other.              *)

\* The group of a read among those that end a uop, and the column its rows
\* are written at: the block after the last group that was planned.
NdGroupIndex(reads, j) ==
  Cardinality({e \in 1..(j - 1) : reads[e].nd = reads[j].nd /\ reads[e].row = reads[j].row /\ reads[e].lastInUop})
NdPlans(reads, j) ==
  /\ reads[j].lastInUop
  /\ NdGroupIndex(reads, j) % MainSlots = MainSlots - 1 \/ reads[j].endOfBurst
NdDestColumn(c, reads, j) ==
  LET before == {e \in 1..(j - 1) : /\ reads[e].nd = reads[j].nd /\ reads[e].row = reads[j].row
                                    /\ reads[e].block # reads[j].block /\ NdPlans(reads, e)}
  IN  IF Gather(c) \/ before = {} THEN 0 ELSE reads[Max(before)].block + 1

NdWriteRow(c, reads, j, row) ==
  LET r     == reads[j]
      final == row + 1 = r.row + (r.bytes \div 64) /\ r.endOfBurst /\ row + 1 = c.rows
      dest  == c.dest + StorageBytes(c, r.nd * c.destNd) + StorageBytes(c, row * c.destStride)
                 + NdDestColumn(c, reads, j) * StorageBytes(c, 16)
      plan  == PlanRow(c, NdGroupIndex(reads, j), r.endOfBurst, dest)
      mark(e) == [plan[e] EXCEPT !.endOfBurst = @ \/ (final /\ e = Len(plan))]
  IN  [e \in DOMAIN plan |->
         mark(e) @@ [lastOne |-> final /\ e = Len(plan) /\ r.nd + 1 = c.ndCount]]

NdWrites(c) ==
  LET reads == NdReads(c)
      rows(j) == FlattenSeq([n \in 1..(reads[j].bytes \div 64) |-> NdWriteRow(c, reads, j, reads[j].row + n - 1)])
  IN  FlattenSeq([j \in DOMAIN reads |-> IF NdPlans(reads, j) THEN rows(j) ELSE <<>>])

-----------------------------------------------------------------------------
(* C220FixpExternalOutputPolicy, for burst mode 0, 1 or 2 and above *)

\* The burst sizes a mode allows, the largest first.
Bursts(mode) == SelectSeq(<<512, 256, 128>>, LAMBDA z : mode <= (CASE z = 512 -> 0 [] z = 256 -> 1 [] z = 128 -> 2))
FirstFit(sizes, fits(_), otherwise) ==
  IF \E j \in DOMAIN sizes : fits(sizes[j])
    THEN sizes[Min({j \in DOMAIN sizes : fits(sizes[j])})] ELSE otherwise

RowPacket(mode, address, remaining) ==
  IF address % 128 # 0 THEN Lesser(remaining, 128 - (address % 128))
  ELSE FirstFit(Bursts(mode), LAMBDA z : remaining >= z /\ address % z = 0, remaining)

\* gathered_packet; 0 while more has to be gathered.
GatheredPacket(mode, address, available, closed) ==
  LET limit == IF address % 128 # 0 THEN 128 - (address % 128)
               ELSE FirstFit(Bursts(mode), LAMBDA z : address % z = 0, 512)
  IN  IF closed THEN RowPacket(mode, address, available) ELSE IF available >= limit THEN limit ELSE 0

-----------------------------------------------------------------------------
(* C220FixpLayout: the reference *)

LayoutSplit(c)  == c.mode = 0 /\ c.split /\ ~c.nd
ByteMerge(c)    == c.mode \in Int8Modes /\ ~c.nd
NibbleMerge(c)  == c.mode \in Int4Modes /\ ~c.nd /\ c.columns % 64 = 0
LayoutBlocks(c) ==
  IF ByteMerge(c) THEN (c.columns \div 32) * 2 + (IF c.columns % 32 # 0 THEN 1 ELSE 0)
  ELSE IF LayoutSplit(c) THEN (c.columns \div 16) * 2 + (IF c.columns % 16 = 8 THEN 1 ELSE 0)
  ELSE Blocks(c)

\* One slice: source address, destination address and lanes.
Slice(c, nd, row, block) ==
  LET tail == block = (c.columns \div 32) * 2
      half == IF LayoutSplit(c) THEN 1 ELSE 0
      from == (IF c.nd THEN nd * 16 * RowBytes(c) * c.sourceNd ELSE 0) + row * RowBytes(c)
                + (IF LayoutSplit(c) THEN block \div 2 ELSE block) * RowBytes(c) * c.sourceStride
                + half * (block % 2) * 32
      to == CASE c.nd -> StorageBytes(c, nd * c.destNd) + StorageBytes(c, row * c.destStride)
                           + block * StorageBytes(c, 16)
              [] NibbleMerge(c) -> row * 32 + (block \div 4) * c.destStride * 32 + (block % 4) * 8
              [] ByteMerge(c) -> row * (IF tail THEN 16 ELSE 32) + (block \div 2) * c.destStride * 32
                                   + (IF tail THEN 0 ELSE (block % 2) * 16)
              [] OTHER -> row * (IF LayoutSplit(c) THEN 32 ELSE StorageBytes(c, 16)) + block * c.destStride * 32
  IN  [source |-> c.source + from, dest |-> c.dest + to,
       lanes |-> IF LayoutSplit(c) THEN 8
                 ELSE IF c.nd /\ block + 1 = LayoutBlocks(c) /\ c.columns % 16 # 0 THEN c.columns % 16 ELSE 16]

Slices(c) ==
  IF Disabled(c) THEN {}
  ELSE {Slice(c, nd, row, block) : nd \in 0..(IF c.nd THEN c.ndCount - 1 ELSE 0), row \in 0..(c.rows - 1),
                                   block \in 0..(LayoutBlocks(c) - 1)}
=============================================================================
