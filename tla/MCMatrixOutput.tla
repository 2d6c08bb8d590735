--------------------------- MODULE MCMatrixOutput ---------------------------
EXTENDS MatrixOutput

\* Two output tiles of 1024 bytes: fragments 0..3.
Product(id, k, accumulates) ==
  [id |-> id, m |-> 1, k |-> k, n |-> 2, n2 |-> FALSE, mPriority |-> FALSE, f32 |-> FALSE,
   accumulates |-> accumulates, version |-> 1, sparse |-> FALSE, delay |-> FALSE,
   base |-> 0, length |-> 4, mode |-> "update", flag |-> 0, scheduled |-> FALSE]

Move(id, from, target) ==
  [id |-> id, kind |-> "fix", from |-> from, rows |-> 16, columns |-> 32, mode |-> 1, lane |-> 4,
   source |-> 0, sourceStride |-> 16, dest |-> 0, destStride |-> 16, split |-> FALSE, nd |-> FALSE, ndCount |-> 1,
   sourceNd |-> 0, destNd |-> 0, unit |-> 3, target |-> target, burst |-> 0, wait |-> 0, set |-> 0]
Rows(id, from) == [Move(id, from, "OUT") EXCEPT !.nd = TRUE, !.rows = 2, !.destStride = 64]
Factor(id) == [id |-> id, kind |-> "factor", count |-> 2]
Control(id) == [id |-> id, kind |-> "control"]

MCPrograms ==
  {[cube |-> <<Product(1, 1, FALSE), Product(2, 2, FALSE)>>, order |-> Stages,
    fix |-> <<Move(11, <<1>>, "OUT"), Move(12, <<2>>, "OUT")>>],
   [cube |-> <<Product(1, 1, FALSE), [Product(2, 1, TRUE) EXCEPT !.flag = 30, !.delay = TRUE]>>, order |-> Reverse(Stages),
    fix |-> <<Control(10), Rows(11, <<1>>), [Rows(12, <<1, 2>>) EXCEPT !.wait = 40]>>],
   [cube |-> <<[Product(1, 2, FALSE) EXCEPT !.f32 = TRUE], [Product(2, 0, FALSE) EXCEPT !.mode = "off"],
               Product(3, 1, FALSE)>>, order |-> Stages,
    fix |-> <<Factor(9), [Move(10, <<>>, "OUT") EXCEPT !.rows = 0], [Move(11, <<1>>, "L1") EXCEPT !.set = 35],
              [Move(12, <<3>>, "OUT") EXCEPT !.mode = 0, !.split = TRUE]>>]}

\* Rows to external memory followed by columns to external memory: the key
\* that keeps commands apart does not tell them apart.
MCMixedPrograms ==
  {[cube |-> <<Product(1, 1, FALSE), Product(2, 1, FALSE)>>, order |-> Stages,
    fix |-> <<Rows(11, <<1>>), Move(12, <<2>>, "OUT")>>]}
=============================================================================
