------------------------------ MODULE CubePlan ------------------------------
(***************************************************************************)
(* What a matrix instruction is turned into: the sequence of uops of the   *)
(* two planners (C220CubeV0UopPlanner, C220CubeV1UopPlanner) and the       *)
(* ticket that predicts when they issue and when the instruction retires   *)
(* (schedule in cube/timing.rs).                                           *)
(*                                                                         *)
(* An instruction is a record of its geometry in tiles (m, k, n), of the   *)
(* configuration and control bits that reach the plan, and of its L0C      *)
(* accesses.                                                               *)
(***************************************************************************)
EXTENDS Integers, Sequences

CONSTANTS
  StageNum,     \* cube_stage_num
  GuardTicks,   \* previous_issue_guard_ticks
  DelayTicks    \* first_observation_delay_ticks

ASSUME CubePlanAssumption == StageNum \in Nat \ {0} /\ GuardTicks \in Nat /\ DelayTicks \in Nat

Least(a, b) == IF a < b THEN a ELSE b
Greatest(a, b) == IF a < b THEN b ELSE a
Odd(x) == x % 2 = 1
One(b) == IF b THEN 1 ELSE 0

\* geometry: one uop per tile of the product.
UopCount(i) == i.m * i.k * i.n

-----------------------------------------------------------------------------
(* C220CubeV1UopPlanner *)

\* Tiles along one edge go in groups of four; five go as three and two.
GroupSize(remaining) ==
  IF remaining % 4 = 1 /\ remaining # 1 /\ remaining <= 5
    THEN IF remaining > 2 THEN 3 ELSE 2
    ELSE Least(remaining, 4)

\* The frame at position p = [m, n, k, offset]: its tiles along m and along n.
FrameShape(i, p) ==
  LET restM == i.m - p.m
      restN == i.n - p.n
  IN  IF i.n2 THEN <<IF restN = 1 THEN Least(restM, 2) ELSE 1, Least(restN, 2)>>
      ELSE IF i.n = 1 THEN <<GroupSize(restM), 1>>
      ELSE <<1, GroupSize(restN)>>

\* v1_frame_order
MThenN(i) == i.n2 \/ i.mPriority

\* advance: offset in the frame, then k, then the next frame.
AdvancePlan(i, p) ==
  LET f == FrameShape(i, p) IN
  IF p.offset + 1 < f[1] * f[2] THEN [p EXCEPT !.offset = @ + 1]
  ELSE IF p.k + 1 < i.k THEN [p EXCEPT !.offset = 0, !.k = @ + 1]
  ELSE IF MThenN(i)
    THEN IF p.m + f[1] < i.m THEN [m |-> p.m + f[1], n |-> p.n, k |-> 0, offset |-> 0]
         ELSE [m |-> 0, n |-> p.n + f[2], k |-> 0, offset |-> 0]
    ELSE IF p.n + f[2] < i.n THEN [m |-> p.m, n |-> p.n + f[2], k |-> 0, offset |-> 0]
         ELSE [m |-> p.m + f[1], n |-> 0, k |-> 0, offset |-> 0]

\* v1_dtype_bubbles_per_uop
DtypeBubbles(i) == One(i.f32) + One(i.f32 /\ i.m = 1 /\ i.n = 1)

ShapeBubble(i, m, n) ==
  IF i.n2 THEN Odd(i.m) /\ Odd(i.n) /\ m * i.n + n = i.m * i.n - 1
          ELSE i.m = 1 /\ i.n = 1

V1Uop(i, p, id) ==
  LET f == FrameShape(i, p)
      varyingM == f[1] > 1
      m == p.m + IF varyingM THEN p.offset ELSE 0
      n == p.n + IF varyingM THEN 0 ELSE p.offset
  IN  [id |-> id, m |-> m, n |-> n, k |-> p.k,
       bubbles |-> DtypeBubbles(i) + One(ShapeBubble(i, m, n)),
       readsA |-> varyingM \/ p.offset = 0, readsB |-> ~varyingM \/ p.offset = 0,
       tile   |-> m * i.n + n,
       reads  |-> p.k = 0 /\ i.accumulates,
       writes |-> p.k + 1 = i.k]

\* Indexed by uop id; Covers below says that no position leaves the matrix,
\* where the iterator would end before uop_count.
V1Uops(i) ==
  LET position[id \in 0..UopCount(i)] ==
        IF id = 0 THEN [m |-> 0, n |-> 0, k |-> 0, offset |-> 0]
        ELSE AdvancePlan(i, position[id - 1])
  IN  [j \in 1..UopCount(i) |-> V1Uop(i, position[j - 1], j - 1)]

-----------------------------------------------------------------------------
(* C220CubeV0UopPlanner: the same number of uops in blocks of two by two by *)
(* two tiles; only the L0C reads are planned.                               *)

Wrap(x) == x % (2 ^ 30)   \* u32: only small values are compared

V0Start(i) == [m |-> i.m, k |-> i.k, n |-> i.n, mode |-> 1, cursor |-> 0, span |-> 0, base |-> 0,
               priorKFold |-> FALSE]

\* jump_a_column and jump_b_column, when the block is used up.
JumpA(i, s) ==
  IF s.n > 2 THEN [s EXCEPT !.mode = 0, !.n = Wrap(@ - 2)]
  ELSE IF s.priorKFold THEN [s EXCEPT !.n = i.n, !.k = i.k, !.m = Wrap(@ - 2), !.mode = 1]
  ELSE [s EXCEPT !.k = Wrap(@ - 2), !.mode = 1]
JumpB(i, s) ==
  IF ~s.priorKFold THEN [s EXCEPT !.n = Wrap(@ + 2), !.k = Wrap(@ - 2), !.mode = 1]
  ELSE IF s.n > 2 THEN [s EXCEPT !.k = i.k, !.n = Wrap(@ - 2), !.mode = 1]
  ELSE [s EXCEPT !.k = i.k, !.n = i.n, !.m = Wrap(@ - 2), !.mode = 1]

\* basic_l0c_map: the tile in the block at a cursor, or -1.
BasicMap(i, span, cursor, mShape, kShape, nShape) ==
  LET square == <<0, i.n, 1, i.n + 1>> IN
  CASE span = 1 -> 0
    [] span = 2 /\ kShape = 2 -> IF cursor = 0 THEN 0 ELSE -1
    [] span = 2 /\ kShape # 2 -> cursor
    [] span = 4 /\ kShape = 2 -> IF cursor <= 1 THEN cursor ELSE -1
    [] span = 4 /\ kShape # 2 /\ mShape = 2 /\ nShape = 2 -> IF cursor <= 3 THEN square[cursor + 1] ELSE -1
    [] span = 8 -> IF cursor <= 3 THEN square[cursor + 1] ELSE -1
    [] OTHER -> -1

\* next_l0c_read_index: [state, index], with index -1 for none.
V0Next(i, s) ==
  LET mShape == IF s.m = 1 THEN 1 ELSE 2
      kShape == IF s.k = 1 THEN 1 ELSE 2
      nShape == IF i.n = 1 THEN 1 ELSE 2
      span   == mShape * kShape * nShape
      step   == IF i.m <= 1 \/ i.n > 2 THEN IF i.n <= 2 THEN 1 ELSE 2 ELSE 2 * i.n
      done   == s.cursor >= span
      based  == [s EXCEPT !.span = span, !.base = IF s.k = i.k /\ done THEN Wrap(@ + step) ELSE @]
      jumped == IF ~done THEN based
                ELSE [IF s.mode = 0 THEN JumpB(i, based) ELSE JumpA(i, based)
                        EXCEPT !.mode = One(i.n <= 2), !.cursor = 0]
      mapped == BasicMap(i, span, jumped.cursor, mShape, kShape, nShape)
      index  == mapped + jumped.base
      valid  == jumped.k = i.k /\ i.m * i.n > index /\ mapped # -1
  IN  [state |-> [jumped EXCEPT !.cursor = Wrap(@ + 1), !.priorKFold = jumped.k <= 2],
       index |-> IF valid THEN index ELSE -1]

V0Uops(i) ==
  LET turn[id \in 0..UopCount(i)] ==
        IF id = 0 THEN [state |-> V0Start(i), index |-> -1] ELSE V0Next(i, turn[id - 1].state)
      late(id) == (Odd(i.m) \/ Odd(i.n)) /\ id > UopCount(i) - i.k
  IN  [j \in 1..UopCount(i) |->
         [id |-> j - 1, bubbles |-> One(late(j - 1)), tile |-> turn[j].index,
          reads |-> turn[j].index # -1 /\ i.accumulates, writes |-> FALSE]]

Uops(i) == IF i.version = 0 THEN V0Uops(i) ELSE V1Uops(i)

-----------------------------------------------------------------------------
(* schedule: the ticket of an instruction that is accepted at a tick *)

ShapeBubbles(i) ==
  IF i.m = 1 /\ i.n = 1 THEN UopCount(i)
  ELSE IF i.n2 /\ Odd(i.m) /\ Odd(i.n) THEN i.k ELSE 0
FsmBubbles(i) ==
  IF i.version = 1 THEN UopCount(i) * DtypeBubbles(i) + ShapeBubbles(i)
  ELSE IF Odd(i.m) \/ Odd(i.n) THEN i.k - 1 ELSE 0
FirstBubbles(i) == IF i.version = 0 THEN 0 ELSE DtypeBubbles(i) + One(i.m = 1 /\ i.n = 1)

\* The issue delay as it is predicted from the last uop of the instruction before.
PredictedDelay(i, accept, previousLast) ==
  LET start == Greatest(accept + 1, previousLast + GuardTicks)
      first == accept + 1 + One(i.sparse) + FirstBubbles(i)
  IN  IF i.delay /\ start <= first THEN Greatest(accept + 1 + DelayTicks - start, 0) ELSE 0

LastTick(i, accept, wait) == accept + UopCount(i) + wait + FsmBubbles(i) + One(i.sparse)
Ticket(i, accept, previousLast) ==
  LET wait == PredictedDelay(i, accept, previousLast) IN
  IF UopCount(i) = 0
    THEN [accept |-> accept, first |-> -1, last |-> -1, retire |-> accept, wait |-> 0, stalls |-> 0]
    ELSE [accept |-> accept,
          first  |-> accept + 1 + wait + One(i.sparse) + FirstBubbles(i),
          last   |-> LastTick(i, accept, wait),
          retire |-> LastTick(i, accept, wait) + StageNum - 1,
          wait |-> wait, stalls |-> 0]

\* planned_uop_tick: an uop with nothing in its way.
BubblesThrough(i, id) ==
  IF i.version = 0
    THEN IF FsmBubbles(i) # 0 /\ id > UopCount(i) - i.k THEN id - (UopCount(i) - i.k) ELSE 0
    ELSE (id + 1) * DtypeBubbles(i)
           + (IF i.m = 1 /\ i.n = 1 THEN id + 1
              ELSE IF ~i.n2 \/ ~Odd(i.m) \/ ~Odd(i.n) THEN 0
              ELSE Greatest(id + 1 - (UopCount(i) - i.k), 0))
PlannedTick(i, accept, id) == accept + 1 + One(i.sparse) + id + BubblesThrough(i, id)

-----------------------------------------------------------------------------
(* What a plan must be *)

\* Every tile of the product is a uop exactly once, and the uops of an output
\* tile come in the order of k: L0C is read before and written after all of
\* them.
Covers(i) ==
  LET uops == V1Uops(i)
      at(m, k, n) == {j \in DOMAIN uops : uops[j].m = m /\ uops[j].k = k /\ uops[j].n = n}
  IN  \A m \in 0..(i.m - 1), n \in 0..(i.n - 1), k \in 0..(i.k - 1) :
        /\ \E j \in DOMAIN uops : at(m, k, n) = {j}
        /\ \A j \in at(m, k, n), e \in DOMAIN uops :
             uops[e].tile = uops[j].tile /\ uops[e].k < k => e < j
=============================================================================
