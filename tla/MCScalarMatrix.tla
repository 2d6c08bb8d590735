----------------------------- MODULE MCScalarMatrix -----------------------------
(***************************************************************************)
(* Seven kinds of behaviours in one run, one at a time: the matrix units   *)
(* of MCMatrixOutput, programs of the scalar unit in time, single words,   *)
(* the C310 front end, cores that exchange flags, and transfers in and     *)
(* out: requests and packets of every layout, in order and out of order    *)
(* behind one another, with two tags or five, a bus, buffers and write     *)
(* queues that fill, outputs with flags between them, and regions that     *)
(* answer in step or out of step.                                          *)
(***************************************************************************)
EXTENDS MCMatrixOutput, ScalarIssue, C310Buffers, DeviceFlags, DmaWrite

\* Words of the front end: GET and RELEASE in both forms, pushes, a vector function
C310Word(release, pipe, form, index, mode) ==
  (528 + release) * (2^21) + (form * (2^17)) + (pipe * (2^10)) + (index * 4) + mode
GetWord(pipe, b) == <<C310Word(0, pipe, 0, b, 0)>>
ReleaseWord(pipe, b) == <<C310Word(1, pipe, 0, b, 0)>>
GetUnordered(pipe, b) == <<C310Word(0, pipe, 1, b, 1)>>
ReleaseUnordered(pipe, b) == <<C310Word(1, pipe, 1, b, 1)>>
QueueForm(get, b) == <<(87 * (2^22)) + (2^21) + (b * (2^16)) + (get * (2^15)) + 1>>
PushA == <<1125429512>>
PushB == <<1125740808>>
VectorWords == <<(42 * (2^23)) + (13 * (2^16)), 5>>
\* Buffer numbers in registers 0 and 1, flags of a projection in 10 and 12
MCC310Xregs ==
  [r \in 0..31 |-> CASE r \in {0, 1} -> <<r, 0, 0, 0>>
                     [] r = 10 -> <<1026, 16392, 11, 12>>
                     [] r = 12 -> <<65535, 49152, 13, 14>>
                     [] OTHER -> <<100 * r, (100 * r) + 1, (100 * r) + 2, (100 * r) + 3>>]
MCC310Programs ==
  {\* One buffer handed from pipe to pipe, and back to a pipe that had it last
   <<GetWord(4, 0), ReleaseWord(4, 0), GetWord(1, 0), ReleaseWord(1, 0), GetWord(5, 0), ReleaseWord(5, 0)>>,
   <<GetWord(4, 0), ReleaseWord(4, 0), GetWord(4, 0), ReleaseWord(4, 0), QueueForm(1, 0), QueueForm(0, 0), GetWord(4, 0), ReleaseWord(4, 0)>>,
   \* Two buffers in turn
   <<GetWord(4, 0), ReleaseWord(4, 0), GetWord(1, 0), GetWord(4, 1), ReleaseWord(4, 1), ReleaseWord(1, 0),
     GetWord(1, 1), ReleaseWord(1, 1), GetWord(4, 0), ReleaseWord(4, 0)>>,
   \* GETs and RELEASEs that ask for no order
   <<GetUnordered(4, 0), ReleaseWord(4, 0), GetWord(2, 0), ReleaseUnordered(2, 0), GetWord(10, 0), ReleaseWord(10, 0), <<C310Word(1, 0, 0, 0, 0)>>>>,
   \* Vector functions with one push and with two
   <<PushB, PushA, VectorWords, PushA, VectorWords, PushB, PushA, VectorWords, PushA, VectorWords>>,
   <<PushA, GetWord(1, 0), VectorWords, ReleaseWord(1, 0), PushB, PushB, VectorWords>>}
MCBufferPrograms == {[k \in DOMAIN p |-> StepOf(p[k], MCC310Xregs)] : p \in MCC310Programs}

Set(f) == [op |-> "set", flag |-> f]
Wait(f) == [op |-> "wait", flag |-> f]
MCFlagPrograms ==
  {("c1" :> <<Set(1), Set(2), Wait(1), Set(1), Set(1), Wait(2)>>) @@ ("c2" :> <<Wait(2), Wait(1), Set(2), Set(1), Wait(1), Wait(1), Set(2)>>),
   ("c1" :> <<Set(0), Set(1), Set(1), Set(1), Set(0)>>) @@ ("c2" :> <<Wait(0), Wait(1), Wait(256)>>),
   ("c1" :> <<Wait(1), Set(2)>>) @@ ("c2" :> <<Set(2), Set(2), Set(1), Wait(2)>>)}

-----------------------------------------------------------------------------
Moving(id, kind, source, target, count, length, sourceGap, targetGap) ==
  [id |-> id, kind |-> kind, form |-> "copy", unit |-> DmaBlock, source |-> source, target |-> target, count |-> count, length |-> length,
   sourceGap |-> sourceGap, targetGap |-> targetGap, left |-> 0, right |-> 0, element |-> 1, word |-> 0]
OnCore(kind, period, transfers) == [core |-> kind, period |-> period, tags |-> 2, limit |-> 2, transfers |-> transfers]
FewTags(program) == [program EXCEPT !.tags = 5, !.limit = 1]
MCBandwidths == [cube |-> 128, vector |-> 64]
MCDmaPrograms ==
  {OnCore("cube", 1, <<Moving(1, "l1", 128, 0, 1, 20, 0, 0), Moving(2, "l1", 1024, 1024, 2, 5, 1, 1)>>),
   \* In order behind out of order, and the other way round
   FewTags(OnCore("vector", 1, <<[Moving(1, "ub", 128, 0, 9, 1, 3, 0) EXCEPT !.word = 5]>>)),
   FewTags(OnCore("cube", 2, <<Moving(1, "l1", 96, 0, 1, 14, 0, 0), Moving(2, "l1", 1000, 512, 2, 5, 0, 1), Moving(3, "l1", 2048, 2048, 3, 1, 0, 2)>>)),
   OnCore("cube", 3, <<[Moving(1, "l1", 416, 0, 3, 4, 0, 0) EXCEPT !.form = "take", !.unit = 8],
                       Moving(2, "l1", 1024, 512, 2, 4, 0, 0), Moving(3, "l1", 0, 0, 0, 4, 0, 0)>>),
   OnCore("cube", 1, <<[Moving(1, "l1", 36, 0, 30, 1, 0, 0) EXCEPT !.form = "pad", !.unit = 8, !.word = 3],
                       [Moving(2, "l1", 512, 2048, 2, 12, 4, 0) EXCEPT !.word = 3]>>),
   OnCore("vector", 1, <<[Moving(1, "ub", 256, 0, 1, 16, 0, 0) EXCEPT !.word = 5], [Moving(2, "ub", 100, 512, 3, 3, 1, 0) EXCEPT !.word = 3]>>),
   \* A request that fills the return buffer, packets that fill the write queue
   OnCore("vector", 4, <<[Moving(1, "ub", 1024, 0, 1, 32, 0, 0) EXCEPT !.word = 7], [Moving(2, "ub", 4096, 2048, 1, 24, 0, 0) EXCEPT !.word = 7]>>),
   OnCore("vector", 3, <<Moving(1, "ub", 512, 0, 3, 2, 0, 1), [Moving(2, "ub", 1024, 512, 2, 6, 0, 3) EXCEPT !.word = 7]>>),
   OnCore("vector", 2, <<[Moving(1, "pad", 130, 0, 3, 50, 6, 0) EXCEPT !.left = 2, !.right = 3, !.element = 2],
                         [Moving(2, "pad", 515, 512, 8, 21, 0, 0) EXCEPT !.word = 5]>>),
   OnCore("vector", 1, <<[Moving(1, "pad", 97, 0, 5, 1, 3, 1) EXCEPT !.element = 1], Moving(2, "pad", 256, 256, 2, 96, 32, 1),
                         [Moving(3, "pad", 601, 1024, 2, 130, 0, 0) EXCEPT !.element = 1, !.right = 4]>>)}

Output(kind, source, target, count, length, sourceGap, targetGap) ==
  [kind |-> kind, bytewise |-> FALSE, source |-> source, target |-> target, count |-> count, length |-> length,
   sourceGap |-> sourceGap, targetGap |-> targetGap, word |-> 0, busWord |-> 0]
Bytewise(output) == [output EXCEPT !.bytewise = TRUE]
InWords(output, word, busWord) == [output EXCEPT !.word = word, !.busWord = busWord]
FlagCommand == Output("notify", 0, 0, 0, 0, 0, 0)
MCOutputs ==
  {<<Output("out", 32, 1920, 1, 20, 0, 0), FlagCommand, Output("out", 1024, 96, 3, 3, 1, 1), Output("out", 0, 0, 0, 4, 0, 0)>>,
   \* Requests that the bus cuts again, bytes, and a gather across the regions
   <<InWords(Output("out", 64, 1664, 2, 12, 2, 0), 7, 3), Output("pad", 1000, 2100, 3, 50, 1, 6), FlagCommand>>,
   <<Output("out", 0, 1792, 6, 2, 3, 0), InWords(Output("pad", 2048, 1984, 2, 64, 1, 0), 0, 5), FlagCommand, FlagCommand,
     Bytewise(Output("out", 512, 77, 2, 45, 0, 0))>>,
   <<Bytewise(Output("out", 96, 2031, 1, 70, 0, 0)), FlagCommand, InWords(Output("out", 128, 512, 1, 22, 0, 0), 7, 3)>>}
Ticks(dbid, completion) == [dbid |-> dbid, completion |-> completion]
\* In step; DBIDs out of step; responses out of step
MCOutPrograms ==
  {[period |-> period, tags |-> room, limit |-> IF room = 2 THEN 1 ELSE room, outputs |-> outputs, boundary |-> 2048,
    latency |-> [ddr |-> l[1], l2 |-> l[2]]] :
     period \in {1, 3}, room \in {2, 6}, outputs \in MCOutputs,
     l \in {<<Ticks(1, 3), Ticks(1, 3)>>, <<Ticks(12, 2), Ticks(1, 2)>>, <<Ticks(1, 14), Ticks(2, 1)>>}}

-----------------------------------------------------------------------------
\* The hand-overs of the front end and of the cores go as their programs say.
\* (buffer.rs:205-405, predicate_buffer.rs:83-148, predicate.rs:17-71, device_flags.rs:42-71)
HandshakesHold == FrontEndInOrder /\ DeviceFlagsHold

-----------------------------------------------------------------------------
\* Words, field by field
Key(k, low) == (k * (2^24)) + low
RegistersOf(d, n, m) == (d * (2^17)) + (n * (2^12)) + (m * (2^7))
Typed(dtype) == dtype * (2^22)
Unsigned(v, n) == v % (2^n)
Arithmetic(op, dtype, d, n, m) == Key(0, Typed(dtype) + RegistersOf(d, n, m) + op)
Unary(sub, dtype, d, n) == Key(2, Typed(dtype) + RegistersOf(d, n, sub))
LoadWord(dtype, d, n, offset) == Key(3, Typed(dtype) + RegistersOf(d, n, 0) + Unsigned(offset, 12))
LoadPost(dtype, d, n, offset) == Key(19, Typed(dtype) + RegistersOf(d, n, 0) + Unsigned(offset, 12))
StoreWord(dtype, d, n, offset) == Key(4, Typed(dtype) + RegistersOf(d, n, 0) + Unsigned(offset, 12))
StorePost(dtype, d, n, offset) == Key(20, Typed(dtype) + RegistersOf(d, n, 0) + Unsigned(offset, 12))
LoadIndexed(dtype, d, n, m, post) == Key(1, Typed(dtype) + RegistersOf(d, n, m) + (8 * post))
StoreIndexed(dtype, d, n, m, post) == Key(1, Typed(dtype) + RegistersOf(d, n, m) + 32 + (8 * post))
LoadPair(dtype, d, n, m, offset) == Key(9, Typed(dtype) + RegistersOf(d, n, m) + (2 * Unsigned(offset, 6)))
StorePair(dtype, d, n, m, offset) == LoadPair(dtype, d, n, m, offset) + 1
StoreConstant(dtype, n, value, post) == Key(15, Typed(dtype) + RegistersOf(0, n, 0) + value + (4 * post))
DirectWord(dtype, d, n, offset) == Key(24, Typed(dtype) + RegistersOf(d, n, 0) + offset)
AtomicWord(dtype, d, n, offset, post) == Key(22 + post, Typed(dtype) + RegistersOf(d, n, 0) + offset)
PreloadWord(n, offset) == Key(8, Typed(3) + RegistersOf(0, n, 0) + offset)
MoveTo(spr, n) == Key(2, (spr * (2^17)) + RegistersOf(0, n, 18))
MoveFrom(spr, d) == Key(2, Typed(spr \div 32) + RegistersOf(d, spr % 32, 17))
SprConstant(spr, v) == Key(18, (spr * (2^17)) + v)
MoveConstant(d, v) == Key(7, RegistersOf(d, 0, 0) + v)
Flow(low) == (2^30) + low
EndWord == Flow(11 * (2^21))
BarrierAll == BarrierWords["All"]
CleanLine(n) == Flow((2^21) + (3 * (2^18)) + RegistersOf(0, n, 0))
CleanAll == Flow((2^21) + (3 * (2^18)) + (2^17))
JumpWord(offset) == Flow(Unsigned(offset, 16))
JumpWhen(offset) == Flow((2^21) + Unsigned(offset, 16))
JumpIf(dtype, condition, n, m, offset) ==
  Flow((2^27) + (dtype * (2^25)) + (condition * (2^18)) + ((n \div 2) * (2^21)) + ((n % 2) * (2^15)) + (2^16)
       + Unsigned(m, 5) + (32 * Unsigned(offset, 10)))

\* Registers 1 to 8 hold values, 20 to 24 addresses: external, of a stack, of the unified buffer
MCXregs ==
  [r \in 0..31 |->
     CASE r \in 1..8 -> <<7, 65533, 300, 2, 32768, 4660, 0, 21845>>[r]
       [] r \in 20..24 -> <<2048, 2068, 136, 66, 2112>>[r - 19] [] OTHER -> r]
MCSprs == [k \in Sprs |-> CASE k = 68 -> 4096 [] k = 90 -> 2 [] OTHER -> 0]
Program(words) == [words |-> words, x |-> MCXregs, spr |-> MCSprs, mode |-> "Retirement"]
Bypassing(words) == [Program(words) EXCEPT !.mode = "DataBypass"]

MCScalarPrograms ==
  {\* A load, readers of its result, writers of its register
   Program(<<LoadWord(3, 9, 20, 0), Arithmetic(1, 0, 10, 9, 1), Arithmetic(5, 0, 9, 3, 4), Unary(16, 0, 11, 9), EndWord>>),
   Program(<<LoadWord(1, 9, 20, 4), MoveConstant(9, 3), Arithmetic(3, 0, 10, 9, 3), StoreWord(3, 10, 22, 0), EndWord>>),
   Program(<<LoadPost(0, 9, 20, 2), LoadPost(1, 20, 20, 4), Arithmetic(4, 0, 20, 1, 4), EndWord>>),
   \* Loads and stores of one cell, in every form
   Program(<<StorePost(3, 6, 20, 8), StoreWord(1, 3, 20, -4), LoadIndexed(2, 9, 24, 7, 1), LoadWord(3, 10, 20, -8), EndWord>>),
   Program(<<StoreIndexed(1, 8, 23, 4, 0), StoreConstant(0, 23, 2, 1), LoadWord(2, 9, 23, 3), CleanLine(9), EndWord>>),
   Program(<<StorePair(2, 3, 21, 6, 0), LoadPair(2, 9, 21, 10, 0), Arithmetic(1, 0, 11, 10, 9), BarrierAll, EndWord>>),
   Program(<<LoadPair(2, 9, 20, 10, 0), LoadPair(1, 10, 21, 9, 2), Unary(1, 0, 12, 10), EndWord>>),
   Program(<<LoadPair(2, 9, 21, 10, 0), MoveConstant(9, 1), LoadWord(0, 10, 20, 0), EndWord>>),
   Bypassing(<<LoadPair(2, 9, 21, 10, 0), Unary(16, 0, 11, 10), EndWord>>),
   Bypassing(<<LoadWord(2, 9, 21, 0), LoadWord(1, 9, 20, 0), Unary(16, 0, 11, 9), EndWord>>),
   \* Divisions and roots, results in one register, moves of special registers
   Program(<<Arithmetic(5, 1, 9, 3, 1), Unary(0, 0, 10, 3), Arithmetic(6, 0, 9, 2, 4), Arithmetic(5, 0, 11, 9, 7), EndWord>>),
   Program(<<Arithmetic(5, 0, 9, 5, 2), MoveConstant(9, 4), LoadWord(0, 9, 20, 0), Unary(3, 3, 9, 9), EndWord>>),
   Program(<<MoveTo(11, 4), MoveFrom(11, 9), JumpWhen(2), MoveConstant(10, 1), SprConstant(90, 3), BarrierAll, EndWord>>),
   Program(<<MoveTo(67, 2), LoadWord(1, 9, 22, 0), MoveTo(68, 5), StoreWord(1, 9, 22, 2), EndWord>>),
   Program(<<StoreWord(1, 9, 22, 2), MoveTo(67, 2), LoadWord(1, 9, 22, 0), EndWord>>),
   \* Atomic and direct stores, preloads
   Program(<<AtomicWord(1, 3, 24, 0, 0), SprConstant(90, 1), AtomicWord(1, 4, 24, 2, 1), EndWord>>),
   Program(<<AtomicWord(1, 3, 24, 4, 1), BarrierAll, SprConstant(3, 5), MoveTo(90, 4), AtomicWord(1, 4, 24, 0, 1), MoveConstant(24, 9), EndWord>>),
   Program(<<DirectWord(1, 3, 20, 0), PreloadWord(20, 64), LoadWord(1, 9, 20, 0), CleanAll, BarrierAll, EndWord>>),
   \* A loop that stores a counter
   Program(<<Arithmetic(1, 0, 9, 9, 4), StorePost(0, 9, 20, 1), LoadWord(0, 10, 20, -1), JumpIf(0, 2, 9, 12, -3), EndWord>>)}

\* Floats and atomics give unknown results of their operands
MCFloatEvaluate(op, a, b, c) == [bits |-> ((a * 3) + (b * 5) + (c * 7)) % Half, overflow |-> a > b, underflow |-> a = b]
MCConversionEvaluate(op, v, control) ==
  [value |-> (v + control) % Size, overflow |-> v % 3 = 0, underflow |-> FALSE, nan |-> v % 5 = 0, infinity |-> FALSE]
MCAtomicCombine(type, control, source, previous) == (source + (3 * previous) + type + control) % Size

-----------------------------------------------------------------------------
(* Words of every key, type and subcode, with low bits of every kind       *)
MCProbedXregs == [r \in 0..31 |-> 2048 + (7 * r)]
OtherKeys == {1, 3, 4, 7, 8, 9, 10, 14, 15, 16, 18, 19, 20, 22, 23, 24, 25}
ScalarProbes ==
  {Key(0, Typed(t) + RegistersOf(9, 10, 11) + low) : t \in 0..3, low \in 0..127}
  \cup {Key(2, Typed(t) + RegistersOf(9, 10, sub) + low) : t \in 0..3, sub \in 0..31, low \in {0, 1, 8, 33, 64, 71, 96}}
  \cup {Key(k, Typed(t) + RegistersOf(9, 10, 11) + low) :
          k \in OtherKeys, t \in 0..3, low \in {0, 1, 2, 3, 4, 5, 8, 9, 32, 40, 80, 88, 112, 120}}
FlowProbes ==
  {Flow((top * (2^25)) + (op * (2^21)) + (form * (2^18)) + (bits * (2^16)) + 43210) :
     top \in {0, 1, 2, 4, 5, 6, 12}, op \in 0..15, form \in 0..7, bits \in 0..3}
  \cup {BarrierWords[scope] : scope \in DOMAIN BarrierWords}
\* A word that names a register the machine does not have is no program's
MCProbedWords ==
  {w \in ScalarProbes \cup FlowProbes : GateRegisters(Instruction("Dav2201", w)) \subseteq 0..31}

-----------------------------------------------------------------------------
hostVars == <<matrixVars, issueVars, probed, bufferVars, flagVars, dmaVars, outVars>>
\* Kinds that are not on start with the program of nothing to do
Idle == <<>>
MatrixAtRest == MatrixInit /\ todo.order = Reverse(Stages)
IssueAtRest == code = <<>> /\ core = <<>> /\ ref = <<>> /\ stray = TRUE
NoProbe == probed = Absent
BuffersAtRest == BuffersStart({Idle}, {FALSE})
FlagsAtRest == FlagsStart({[c \in Cores |-> Idle]})
CoresIdle == \A c \in Cores : sequence[c] = Idle
ReadsAtRest == dma = DmaStart(OnCore("cube", 1, Idle))
WritesAtRest == dmaOut = Idle
TransfersAtRest == ReadsAtRest /\ WritesAtRest
HostInit ==
  \/ MatrixInit /\ IssueAtRest /\ NoProbe /\ BuffersAtRest /\ FlagsAtRest /\ TransfersAtRest
  \/ MatrixAtRest /\ IssueInit /\ NoProbe /\ BuffersAtRest /\ FlagsAtRest /\ TransfersAtRest
  \/ MatrixAtRest /\ IssueAtRest /\ ProbeInit /\ BuffersAtRest /\ FlagsAtRest /\ TransfersAtRest
  \/ MatrixAtRest /\ IssueAtRest /\ NoProbe /\ BuffersInit /\ FlagsAtRest /\ TransfersAtRest
  \/ MatrixAtRest /\ IssueAtRest /\ NoProbe /\ BuffersAtRest /\ FlagsInit /\ TransfersAtRest
  \/ MatrixAtRest /\ IssueAtRest /\ NoProbe /\ BuffersAtRest /\ FlagsAtRest /\ DmaInit /\ WritesAtRest
  \/ MatrixAtRest /\ IssueAtRest /\ NoProbe /\ BuffersAtRest /\ FlagsAtRest /\ ReadsAtRest /\ OutInit
HostNext ==
  \/ /\ NoProbe /\ code = <<>> /\ steps = Idle /\ CoresIdle /\ dma.transfers = Idle /\ dmaOut = Idle /\ MatrixNext
     /\ UNCHANGED <<issueVars, probed, bufferVars, flagVars, dmaVars, outVars>>
  \/ code # <<>> /\ IssueNext /\ UNCHANGED <<matrixVars, probed, bufferVars, flagVars, dmaVars, outVars>>
  \/ steps # Idle /\ BuffersNext /\ UNCHANGED <<matrixVars, issueVars, probed, flagVars, dmaVars, outVars>>
  \/ ~CoresIdle /\ FlagsNext /\ UNCHANGED <<matrixVars, issueVars, probed, bufferVars, dmaVars, outVars>>
  \/ dma.transfers # Idle /\ DmaNext /\ UNCHANGED <<matrixVars, issueVars, probed, bufferVars, flagVars, outVars>>
  \/ dmaOut # Idle /\ OutNext /\ UNCHANGED <<matrixVars, issueVars, probed, bufferVars, flagVars, dmaVars>>
HostSpec == HostInit /\ [][HostNext]_hostVars

\* Every command retires, and what it wrote is complete by then (RetiredWritten,
\* EverythingRetires)
CommandsComplete == RetiredWritten /\ EverythingRetires
\* Transfers read and write what they should, once, and all of them end
\* (ReadsExact, WritesExact)
TransfersExact == ReadsExact /\ (dmaOut # Idle => WritesExact)
=============================================================================
