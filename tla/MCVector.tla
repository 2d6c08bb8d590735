------------------------------ MODULE MCVector ------------------------------
(***************************************************************************)
(* Instructions of every kind of the vector unit: each format, masks that  *)
(* are full, sparse or cut by a count, strides of 0, 1 and more, sources   *)
(* that are equal or are the destination, and addresses at the end of the  *)
(* unified buffer.                                                         *)
(***************************************************************************)
EXTENDS VectorIssue, VectorPipeline

\* The fields that a kind does not use
Blank ==
  [kind |-> "Control", op |-> "Add", fmt |-> "F16", second |-> FALSE, widen |-> FALSE,
   w |-> 2, dw |-> 2, sb |-> 16, db |-> 16, deq |-> "None", dstHigh |-> FALSE, srcHigh |-> FALSE,
   high |-> FALSE, scaled |-> FALSE, mode |-> "CompareMask", maskBase |-> 2048, blocks |-> FALSE,
   baseOffset |-> 64, index |-> 1024, indices |-> <<>>, rk |-> "WholeAdd", acc |-> FALSE,
   output |-> "Value", count |-> 1, groups |-> 2, fromMemory |-> FALSE, descriptor |-> 512,
   srcTable |-> [k \in 1..16 |-> k], dstTable |-> [k \in 1..16 |-> 40 + k],
   base |-> <<0, 512>>, blk |-> <<1, 1>>, rep |-> <<8, 8>>, dst |-> 1024, dB |-> 1, dR |-> 8,
   masks |-> <<>>]
Of(k) == [Blank EXCEPT !.kind = k]

\* Control words: a mask for 1 or 3 repeats, or a count of lanes
Words == [countMode : {FALSE}, repeats : {1, 3}, mask : {LanesIn(0, 128), {5}, {1, 63, 70}}, high : {0}, count : {0}]
         \cup [countMode : {TRUE}, repeats : {0}, mask : {{}}, high : {0}, count : {0, 3, 64, 130}]
\* Strides and bases of sources and destination
Shape(base, blk, rp, dst, dB, dR) == [base |-> base, blk |-> blk, rep |-> rp, dst |-> dst, dB |-> dB, dR |-> dR]
Shapes ==
  {Shape(<<0, 512>>, <<1, 1>>, <<8, 8>>, 1024, 1, 8),    \* consecutive tiles
   Shape(<<0, 1024>>, <<1, 0>>, <<0, 0>>, 1024, 1, 0),   \* the second source is the destination
   Shape(<<64, 64>>, <<2, 2>>, <<0, 0>>, 1056, 2, 1),    \* equal sources that do not move
   Shape(<<96, 3840>>, <<0, 1>>, <<1, 0>>, 1010, 0, 3),  \* the second ends with the buffer
   Shape(<<0, 3872>>, <<1, 1>>, <<8, 1>>, 2048, 1, 8)}   \* the second is past the buffer

Masked3(i, lanes) ==
  {[i EXCEPT !.masks = RepeatMasks(c, lanes).masks, !.base = s.base, !.blk = s.blk, !.rep = s.rep,
             !.dst = s.dst, !.dB = s.dB, !.dR = s.dR] : c \in Words, s \in Shapes}
Each(K) == UNION {Masked3(x[1], x[2]) : x \in K}

ArithmeticIssues == Each(
  {<<[Of("Arithmetic") EXCEPT !.op = o, !.fmt = f, !.second = TRUE], Lanes(FormatWidth(f))>> :
     o \in {"Add", "Multiply"}, f \in {"F16", "S16", "F32"}}
  \cup {<<[Of("Arithmetic") EXCEPT !.op = "Divide", !.second = TRUE], 128>>,
        <<[Of("Arithmetic") EXCEPT !.op = "Absolute", !.fmt = "S32"], 64>>,
        <<[Of("Arithmetic") EXCEPT !.op = "Add", !.fmt = "S16", !.second = TRUE, !.widen = TRUE], 64>>})
UnaryIssues == Each(
  {<<[Of(k) EXCEPT !.w = w], Lanes(w)>> : k \in {"Scalar", "Shift", "Copy", "Special", "Move"}, w \in {2, 4}}
  \cup {<<[Of("Special") EXCEPT !.op = "Exp"], 128>>})
MixedIssues == Each(
  {<<[Of(k) EXCEPT !.w = x[1], !.dw = x[2]], Lanes(x[2])>> :
     k \in {"Ternary", "Axpy"}, x \in {<<2, 2>>, <<2, 4>>, <<4, 4>>}})
ConversionIssues == Each(
  {<<[Of("Conversion") EXCEPT !.sb = x[1], !.db = x[2]], 2048 \div Max({x[1], x[2]})>> :
     x \in {<<16, 32>>, <<32, 16>>, <<16, 8>>, <<8, 16>>, <<16, 4>>, <<4, 16>>}}
  \cup {<<[Of("Conversion") EXCEPT !.sb = 32, !.db = 8, !.deq = d, !.dstHigh = h], 64>> :
          d \in {"Half", "Vector"}, h \in BOOLEAN})
FusedIssues == Each(
  {<<[Of("Fused") EXCEPT !.fmt = x[1], !.op = x[2], !.dstHigh = x[3]], FusedLanes([fmt |-> x[1]])>> :
     x \in {<<"F16ToS8", "Multiply", TRUE>>, <<"F16ToU8", "Multiply", FALSE>>,
            <<"F32ToF16", "AddRelu", FALSE>>, <<"VectorDeqS16ToB8", "AddDeqRelu", TRUE>>}})
CompareIssues == Each(
  {<<[Of("CompareMask") EXCEPT !.w = w], Lanes(w)>> : w \in {2, 4}}
  \cup {<<[Of("Select") EXCEPT !.w = w, !.mode = m], Lanes(w)>> :
          w \in {2, 4}, m \in {"CompareMask", "TensorScalar", "TensorTensor"}})
ReductionIssues == Each(
  {<<[Of("Reduction") EXCEPT !.w = w, !.fmt = IF w = 2 THEN "F16" ELSE "F32", !.rk = k[1], !.acc = k[2], !.output = k[3]],
     Lanes(w)>> :
     w \in {2, 4}, k \in {<<"WholeAdd", TRUE, "Value">>, <<"WholeAdd", FALSE, "Value">>,
                          <<"GroupAdd", FALSE, "Value">>, <<"PairAdd", FALSE, "Value">>,
                          <<"WholeExtremum", FALSE, "ValueIndex">>, <<"WholeExtremum", FALSE, "Index">>,
                          <<"GroupExtremum", FALSE, "Value">>}})

\* Kinds with a count of repeats and without a mask
Table(n) == [k \in 1..16 |-> n]
CountIssues ==
  {[Of(k) EXCEPT !.w = w, !.count = c, !.base = b, !.dst = d, !.second = s] :
     k \in {"Broadcast", "Sort", "PackedCompare"}, w \in {2, 4}, c \in {0, 1, 2},
     b \in {<<0, 512>>, <<3584, 3584>>}, d \in {1024, 3712}, s \in BOOLEAN}
  \cup {[Of("Nchw") EXCEPT !.w = w, !.count = c, !.dstHigh = h, !.srcHigh = g, !.rep = <<s, s>>, !.dR = s] :
          w \in {1, 2, 4}, c \in {0, 1, 2}, h \in BOOLEAN, g \in BOOLEAN, s \in {0, 16, 60}}
  \cup {[Of(k) EXCEPT !.base = <<b, b>>, !.dst = d, !.fromMemory = f, !.high = f] :
          k \in {"Transpose", "MoveMask", "LoadVa"}, b \in {0, 3584, 4064, 4080}, d \in {1024, 3712},
          f \in BOOLEAN}

IndexOf(n) == [k \in 1..128 |-> 32 * ((k + n) % 17)]
GatherIssues ==
  {[Of("Gather") EXCEPT !.blocks = TRUE, !.count = c, !.indices = [n \in 1..c |-> IndexOf(n)], !.dR = 1] :
     c \in {0, 1, 5, 8, 9, 14}}
  \cup {[Of("Gather") EXCEPT !.w = w, !.masks = RepeatMasks(c, Lanes(w)).masks, !.index = x,
                             !.indices = [n \in 1..3 |-> IndexOf(n)]] :
          w \in {2, 4}, c \in Words, x \in {1024, 3584}}
OtherIssues == {Of("Control"), [Of("NoEffect") EXCEPT !.masks = <<{}, {}>>]}

MCIssues == ArithmeticIssues \cup UnaryIssues \cup MixedIssues \cup ConversionIssues \cup FusedIssues
            \cup CompareIssues \cup ReductionIssues \cup CountIssues \cup GatherIssues \cup OtherIssues

-----------------------------------------------------------------------------
(* Programs for the pipeline: every pair of kinds, a barrier between two of  *)
(* them, and writes of the address registers around one.                   *)
Lane16(k) == [Of(k) EXCEPT !.masks = <<LanesIn(0, 16)>>]   \* one block of F16
At(i, a, b, d) == [i EXCEPT !.base = <<a, b>>, !.dst = d]
Add16 == [Lane16("Arithmetic") EXCEPT !.second = TRUE]
Raw == [
  add   |-> At(Add16, 0, 32, 64),
  sum3  |-> At([Add16 EXCEPT !.masks = <<LanesIn(0,16), LanesIn(0,16), LanesIn(0,16)>>, !.rep = <<1, 0>>, !.dR = 0], 0, 64, 64),
  fma   |-> At([Lane16("Ternary") EXCEPT !.op = "MultiplyAccumulate"], 64, 32, 96),
  moveP |-> At([Of("Move") EXCEPT !.masks = <<{1, 3}>>], 0, 0, 64),
  moveF |-> At([Of("Move") EXCEPT !.masks = <<LanesIn(0, 128), LanesIn(0,128)>>, !.dB = 16, !.dR = 2], 0, 0, 64),
  wadd  |-> At([Of("Reduction") EXCEPT !.masks = <<LanesIn(0,16), LanesIn(0,16)>>, !.acc = TRUE, !.rep = <<2,2>>], 64, 0, 0),
  gadd  |-> At([Of("Reduction") EXCEPT !.masks = <<LanesIn(0,32)>>, !.rk = "GroupAdd"], 64, 0, 96),
  exp   |-> At([Of("Special") EXCEPT !.op = "Exp", !.masks = <<LanesIn(0, 40)>>], 96, 0, 64),
  cmp   |-> At(Lane16("CompareMask"), 64, 32, 0),
  sel   |-> At([Lane16("Select") EXCEPT !.mode = "TensorTensor"], 0, 32, 64),
  vaLow |-> At(Of("LoadVa"), 64, 0, 0),
  vaHigh |-> At([Of("LoadVa") EXCEPT !.high = TRUE], 96, 0, 0),
  nchw  |-> [Of("Nchw") EXCEPT !.w = 2, !.count = 1],
  mask  |-> At([Of("MoveMask") EXCEPT !.fromMemory = TRUE], 64, 0, 0),
  gather |-> [Of("Gather") EXCEPT !.blocks = TRUE, !.count = 3, !.indices = [n \in 1..3 |-> IndexOf(n)], !.dR = 1, !.dst = 64],
  vms4  |-> [Of("NoEffect") EXCEPT !.op = "Vms4", !.masks = <<{1}>>]]
MCCatalogue == [k \in DOMAIN Raw |-> IssueOf(Raw[k])] @@ <<>>
Vec(k) == [op |-> "Vector", name |-> k, gap |-> 0]
Reg == [op |-> "Register", name |-> "", gap |-> 0]
Bar == [op |-> "Barrier", name |-> "", gap |-> 0]
Firsts  == {"add", "fma", "moveF", "wadd", "gadd", "exp", "cmp", "vaLow", "gather", "vms4"}
Seconds == {"sum3", "fma", "moveP", "wadd", "gadd", "sel", "vaHigh", "nchw", "mask", "vms4"}
MCPrograms ==
  {<<Vec(a), Vec(b)>> : a \in Firsts, b \in Seconds}
  \cup {<<Vec(a), Bar, Vec(b)>> : a \in {"add", "exp", "cmp", "sum3", "mask"}, b \in {"wadd", "moveP", "vaLow"}}
  \cup {<<Reg, Vec(a), Reg, Vec("nchw")>> : a \in {"add", "nchw", "vaLow", "wadd", "vaHigh"}}

\* Either the planning of one instruction or the run of a program
Planning   == IssueInit /\ vpipe = Start(<<>>)
Pipelining == VpInit /\ issue = Of("Control") /\ stage = "done" /\ uops = <<>> /\ rep = 0 /\ written = {}
VectorInit == Planning \/ Pipelining
VectorNext == (IssueNext /\ UNCHANGED vpipeVars) \/ (VpTick /\ UNCHANGED issueVars)
VectorSpec == VectorInit /\ [][VectorNext]_<<issueVars, vpipeVars>>
=============================================================================
