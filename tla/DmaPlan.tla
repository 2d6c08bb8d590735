------------------------------- MODULE DmaPlan -------------------------------
(***************************************************************************)
(* What a transfer from external memory asks of the bus and what of its    *)
(* data is written where: the requests of a descriptor, the pieces the bus *)
(* interface cuts them into and the packets it makes of their data.        *)
(*                                                                         *)
(* A transfer is a record: kind "ub" (MOV_OUT_TO_UB), "l1" (MOV_OUT_TO_L1  *)
(* in a layout: copy, padded or truncated units) or "pad" (MOV_PAD), source*)
(* and target address, count and length of its bursts, the gaps between    *)
(* them and the word that chooses the width of a request.                  *)
(***************************************************************************)
EXTENDS Integers, Sequences, SequencesExt, FiniteSetsExt

DmaBlock == 32
BeatBytes == 128
RoundUp(n) == ((n + DmaBlock - 1) \div DmaBlock) * DmaBlock
Ceil(n, d) == (n + d - 1) \div d
LesserOf(a, b) == IF a <= b THEN a ELSE b

\* C220DmaUopMode::from_mode_word
ModeOf(word) == IF word % 2 = 0 THEN "Wide512" ELSE <<"Wide512", "Wide256", "Fixed128", "Unbounded">>[((word \div 2) % 4) + 1]

\* split_bytes: up to the next 128 bytes first, then as wide as the mode and
\* the address allow
SplitBytes(mode, address, remaining) ==
  LET fits(n, modes) == mode \in modes /\ address % n = 0 /\ remaining >= n IN
  IF address % 128 # 0 THEN LesserOf(remaining, 128 - (address % 128))
  ELSE IF fits(512, {"Wide512"}) THEN 512
  ELSE IF fits(256, {"Wide512", "Wide256"}) THEN 256
  ELSE IF mode = "Unbounded" THEN remaining ELSE LesserOf(remaining, 128)

-----------------------------------------------------------------------------
(* The copy a transfer stands for                                          *)

NothingToMove(t) == t.count = 0 \/ t.length = 0
\* source_bytes and destination_bytes of a layout: those of one unit
SourceUnit(t) == IF t.kind = "l1" /\ t.form = "pad" THEN t.unit ELSE DmaBlock
TargetUnit(t) == IF t.kind = "l1" /\ t.form = "take" THEN t.unit ELSE DmaBlock
\* burst_bytes, padded_bytes, output_bytes and the strides of MOV_PAD
PaddedBytes(t) == t.length + ((t.left + t.right) * t.element)
SourceStride(t) == IF t.kind = "pad" THEN t.length + t.sourceGap ELSE (t.length + t.sourceGap) * SourceUnit(t)
TargetStride(t) ==
  IF t.kind = "pad" THEN RoundUp(PaddedBytes(t)) + (t.targetGap * DmaBlock) ELSE (t.length + t.targetGap) * TargetUnit(t)

\* segments: [from, bytes] of each burst on either side
SourceSegments(t) ==
  {<<t.source + (b * SourceStride(t)), IF t.kind = "pad" THEN t.length ELSE t.length * SourceUnit(t)>> :
     b \in 0..(IF NothingToMove(t) THEN 0 ELSE t.count) - 1}
TargetSegments(t) ==
  {<<t.target + (b * TargetStride(t)), IF t.kind = "pad" THEN RoundUp(PaddedBytes(t)) ELSE t.length * TargetUnit(t)>> :
     b \in 0..(IF NothingToMove(t) THEN 0 ELSE t.count) - 1}

-----------------------------------------------------------------------------
(* Requests                                                                *)

\* mte2_uops and mte2_l1_uops of the copying layout: bursts without gaps are
\* one, and so are bursts of one or two blocks that only the target spreads
CopyGeometry(t) ==
  LET batch    == t.sourceGap = 0 /\ t.targetGap = 0
      collapse == ~batch /\ t.sourceGap = 0 /\ t.length \in 1..2
      whole    == batch \/ collapse
      burst    == t.length * DmaBlock
  IN  [route  |-> IF batch THEN "Batch" ELSE IF collapse THEN "Collapse" ELSE "Ordinary",
       bursts |-> IF NothingToMove(t) THEN 0 ELSE IF whole THEN 1 ELSE t.count,
       bytes  |-> IF whole THEN burst * t.count ELSE burst,
       split  |-> ~collapse /\ t.source % DmaBlock = 0,
       burstBytes |-> burst]

\* mte2_l1_request_stream of the padding and truncating layouts: one burst
\* that leaves the gaps out, and of padded units all but one per burst
UnitGeometry(t) ==
  [route  |-> IF t.form = "pad" THEN "Pad" ELSE "Take",
   bursts |-> IF NothingToMove(t) THEN 0 ELSE 1,
   bytes  |-> (IF t.form = "pad" THEN t.unit ELSE t.length * DmaBlock) * t.count,
   split  |-> t.form = "pad" /\ t.source % DmaBlock = 0,
   burstBytes |-> (IF t.form = "pad" THEN t.unit ELSE t.length * DmaBlock) * t.count]

\* mov_pad_uops for transfers into the unified buffer
PadGeometry(t) ==
  LET plain    == t.left + t.right = 0
      batch    == t.sourceGap = 0 /\ t.targetGap = 0 /\ t.length <= 31 /\ plain
      collapse == plain /\ t.length \in {32, 64} /\ t.sourceGap = 0 /\ t.targetGap # 0
      whole    == batch \/ collapse
      aligned  == t.target % DmaBlock = 0 /\ t.length % DmaBlock = 0 /\ t.sourceGap % DmaBlock = 0
      elements == /\ t.source % t.element = 0 /\ t.sourceGap % t.element = 0
                  /\ t.sourceGap # 0 \/ t.targetGap # 0
                  /\ t.length = 1
  IN  [route  |-> IF batch THEN "PadBatch" ELSE IF collapse THEN "PadCollapse" ELSE "MovPad",
       bursts |-> IF NothingToMove(t) THEN 0 ELSE IF whole THEN 1 ELSE t.count,
       bytes  |-> IF whole THEN t.length * t.count ELSE t.length,
       split  |-> ~whole /\ plain /\ (IF t.source % DmaBlock = 0 THEN aligned ELSE elements),
       burstBytes |-> PaddedBytes(t)]

Geometry(t) ==
  CASE t.kind = "pad" -> PadGeometry(t)
    [] t.kind = "ub" \/ t.form = "copy" -> CopyGeometry(t)
    [] OTHER -> UnitGeometry(t)

\* Where a run of bytes at address is cut, as <<offset, bytes>> pairs
RequestCuts(mode, address, bytes) ==
  LET from[offset \in 0..bytes] ==
        IF offset = bytes THEN <<>>
        ELSE LET n == SplitBytes(mode, address + offset, bytes - offset) IN <<<<offset, n>>>> \o from[offset + n]
  IN  from[0]

\* C220DmaUops::next until it is exhausted: the requests of a run of bytes, and
\* which of all of them is the last
CutRun(source, target, cuts) ==
  [k \in DOMAIN cuts |-> [source |-> source + cuts[k][1], target |-> target + cuts[k][1], bytes |-> cuts[k][2], ends |-> k = Len(cuts)]]
MarkLast(all) == [k \in DOMAIN all |-> all[k] @@ ("last" :> (k = Len(all)))]
BurstRequests(t, g, b) ==
  LET source == t.source + (b * SourceStride(t)) IN
  CutRun(source, t.target + (b * TargetStride(t)),
         IF g.bytes = 0 THEN <<>> ELSE IF g.split THEN RequestCuts(ModeOf(t.word), source, g.bytes) ELSE <<<<0, g.bytes>>>>)
GeometryRequests(t, g) == MarkLast(FlattenSeq([b \in 1..g.bursts |-> BurstRequests(t, g, b - 1)]))
DmaRequests(t) == GeometryRequests(t, Geometry(t))

\* SplitRequests::next until it is exhausted: what the bus interface makes of a
\* request by the addresses of its side; only the last piece still ends the
\* burst and the instruction
PiecesAt(mode, address, r) ==
  LET pieces == CutRun(r.source, r.target, RequestCuts(mode, address, r.bytes)) IN
  [k \in DOMAIN pieces |-> [pieces[k] EXCEPT !.ends = @ /\ r.ends] @@ ("last" :> (r.last /\ r.ends /\ k = Len(pieces)))]
Pieces(mode, r) == PiecesAt(mode, r.source, r)

-----------------------------------------------------------------------------
(* Packets                                                                 *)

NoProgress == [owner |-> 0, buffered |-> 0, offset |-> 0, bursts |-> 0]

\* WritePlan::front and advance until the plan is empty: from offset on, chunk
\* bytes every stride; rounded says from which packet on sizes are rounded up
PacketsOf(base, offset, stride, chunk, remaining, rounded, final) ==
  LET n == Ceil(remaining, chunk) IN
  [k \in 1..n |->
     LET logical == LesserOf(chunk, remaining - ((k - 1) * chunk)) IN
     [address |-> base + offset + ((k - 1) * stride), bytes |-> IF k >= rounded THEN RoundUp(logical) ELSE logical,
      closes |-> k = n, last |-> k = n /\ final]]
NotRounded == 100000

\* WriteAligner::plan, by the ways data are put together.  Out of order: every
\* piece for itself.
PlanAlone(piece, last, width) == PacketsOf(piece.target, 0, width, width, piece.bytes, 1, last)

\* Truncated units are kept until they fill a packet.  A transfer that ends
\* with a full packet leaves its offset behind.
PlanTaken(progress, t, piece, last, width) ==
  LET available == ((piece.bytes \div DmaBlock) * t.unit) + progress.buffered
      full      == available \div width
      rest      == available % width
  IN  [packets  |-> PacketsOf(t.target, progress.offset, width, width, IF last THEN available ELSE available - rest, NotRounded, last),
       progress |-> [progress EXCEPT
                       !.owner    = IF last THEN 0 ELSE t.id,
                       !.buffered = IF last THEN 0 ELSE rest,
                       !.offset   = IF last /\ rest # 0 THEN 0 ELSE @ + (full * width)]]

\* In order: full chunks at once, the rest of a burst when it ends
OrderedChunk(g, t, width) ==
  CASE g.route = "PadCollapse" -> t.length * DmaBlock [] g.route \in {"Pad", "PadBatch"} -> DmaBlock
    [] g.route = "Collapse" -> g.burstBytes [] OTHER -> width
PlanOrdered(progress, t, g, piece, last, width) ==
  LET chunk     == OrderedChunk(g, t, width)
      input     == CASE g.route = "PadBatch" -> t.length [] g.route = "Pad" -> t.unit [] OTHER -> chunk
      stride    == IF g.route \in {"Collapse", "PadCollapse"} THEN TargetStride(t) ELSE chunk
      padding   == IF g.route = "MovPad" /\ piece.ends THEN PaddedBytes(t) - t.length ELSE 0
      available == piece.bytes + progress.buffered + padding
      bursts    == progress.bursts + 1
      Plan(full, rest) ==
        [packets  |-> PacketsOf(t.target, progress.offset, stride, chunk, (full * chunk) + (IF piece.ends THEN rest ELSE 0),
                                full + 1, piece.ends /\ last),
         progress |-> IF piece.ends /\ last THEN NoProgress
                      ELSE IF piece.ends THEN [owner |-> t.id, buffered |-> 0, offset |-> bursts * TargetStride(t), bursts |-> bursts]
                      ELSE [progress EXCEPT !.owner = t.id, !.buffered = rest, !.offset = @ + (full * stride)]]
  IN  Plan(available \div input, available % input)

-----------------------------------------------------------------------------
(* Coverage of addresses by pairs of address and length *)
Covered(pairs, grain) == UNION {(p[1] \div grain)..((p[1] + p[2] - 1) \div grain) : p \in pairs}
BytesOf(seq) == FoldLeft(LAMBDA n, p : n + p[2], 0, seq)
\* The pairs of seq cover what segments cover, and nothing twice
CoversOnce(seq, segments, grain) ==
  /\ Covered({seq[k] : k \in DOMAIN seq}, grain) = Covered(segments, grain)
  /\ BytesOf(seq) = MapThenSumSet(LAMBDA p : p[2], segments)
=============================================================================
