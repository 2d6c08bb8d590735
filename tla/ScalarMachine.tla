----------------------------- MODULE ScalarMachine -----------------------------
(***************************************************************************)
(* The functional scalar machine: registers, special registers and memory, *)
(* and what each instruction does to them, one after the other.            *)
(*   src/src/sim/common/scalar/{mod,integer,alu,memory,stepper}.rs         *)
(*   src/src/sim/c220/scalar/{execute,spr,compare,float,conversion,        *)
(*                            address,bus}.rs                              *)
(*                                                                         *)
(* The machine is the code's with a smaller word.  A register has Bits     *)
(* bits (64 in the code), a byte is a cell of Bits \div 8 bits, a halfword *)
(* lane has Bits \div 4 and a float Bits \div 2.  A shift count counts     *)
(* modulo Bits.  Addresses keep the code's layout (a local offset, the bit *)
(* that selects the unified buffer, four bits of bank, the external bit,   *)
(* the root) with shorter fields.  The value of a float operation is an    *)
(* unknown function of its operands, the same one everywhere.              *)
(***************************************************************************)
EXTENDS ScalarWords, FiniteSetsExt

CONSTANTS Bits,          \* width of a register
          Sprs,          \* the special registers of the model
          LocalBits,     \* width of a local offset (19)
          AddressBits,   \* width of an external address (48)
          JumpSignBit,   \* sign of a jump offset held in a register (45)
          UbCells,       \* cells of the unified buffer (0x30000)
          FloatEvaluate(_, _, _, _),    \* operation, operands, accumulator -> [bits, overflow, underflow]
          ConversionEvaluate(_, _, _),  \* conversion, operand, SPR 3 -> [value, overflow, underflow, nan, infinity]
          AtomicCombine(_, _, _, _)     \* type, SPR 3, source and previous value -> stored value

Absent == -1
Size == 2^Bits
Half == 2^(Bits \div 2)
LaneBits == Bits \div 4
CellBits == Bits \div 8
Narrow(v) == v % Size
AsSigned(v) == IF v >= Size \div 2 THEN v - Size ELSE v
FitsSigned(v) == v >= -(Size \div 2) /\ v < Size \div 2
AllOnes == Size - 1

\* A value as the set of its bits
BitSet(v) == {k \in 0..(Bits - 1) : IsSet(v, k)}
OfBits(S) == MapThenSumSet(LAMBDA k : 2^k, S)
BitAnd(a, b) == OfBits(BitSet(a) \cap BitSet(b))
BitOr(a, b) == OfBits(BitSet(a) \cup BitSet(b))
BitXor(a, b) == OfBits((BitSet(a) \cup BitSet(b)) \ (BitSet(a) \cap BitSet(b)))
BitsFrom(low, n) == OfBits({k \in 0..(Bits - 1) : k >= low /\ k < low + n})
Without(v, mask) == v - BitAnd(v, mask)
SignExtended(v, n) == IF n >= Bits THEN v ELSE Narrow(SignedField(v, 0, n))

-----------------------------------------------------------------------------
(* Registers *)

SprLimit(arch) == IF arch = "Dav2201" THEN 187 ELSE 243
NewMachine(arch, xregs, sprs) == [arch |-> arch, x |-> xregs, x32 |-> 0, spr2 |-> 0, spr |-> sprs, time |-> Absent]

\* X32 is a register of the C220 that only loads, stores and preloads reach
XregValue(m, r) == CASE r < 32 -> m.x[r] [] r = 32 /\ m.arch = "Dav2201" -> m.x32 [] OTHER -> Absent
ReadXreg(m, r) == IF XregValue(m, r) = Absent THEN 0 ELSE XregValue(m, r)
SetXreg(m, r, v) ==
  CASE r < 32 -> [m EXCEPT !.x[r] = v] [] r = 32 /\ m.arch = "Dav2201" -> [m EXCEPT !.x32 = v] [] OTHER -> m
SprValue(m, s) == IF s = 2 THEN m.spr2 ELSE IF s \in Sprs THEN m.spr[s] ELSE Absent
SetSpr(m, s, v) == IF s = 2 THEN [m EXCEPT !.spr[2] = v, !.spr2 = v] ELSE [m EXCEPT !.spr[s] = v]

\* SPR 2 collects the kinds of exceptions and a byte of the PC of the last one
NegateFlag == 8
OverflowFlag == 16
FloatOverflowFlag == 32
UnderflowFlag == 64
InvalidFlag == 128
StatusPc(pc) == ((pc \div 4) % 16) * 256
UpdateStatus(spr2, pc, flags) ==
  IF flags = 0 THEN spr2 ELSE BitOr(Without(spr2, BitsFrom(8, 4)) + StatusPc(pc), flags)
\* The Dav3510 clears the exception bits and keeps the byte of the PC, into which it ORs the new one
UpdateNegateStatus(arch, spr2, pc) ==
  IF arch = "Dav2201" THEN UpdateStatus(spr2, pc, NegateFlag)
  ELSE BitOr(BitOr(Without(spr2, BitsFrom(3, 5)), StatusPc(pc)), NegateFlag)

-----------------------------------------------------------------------------
(* Integer instructions: the value of the destination and the new SPR 2    *)

Refused == [ok |-> FALSE]
Value(m, v) == [ok |-> TRUE, value |-> v, spr2 |-> m.spr2]
Checked(m, pc, v, overflow) ==
  [ok |-> TRUE, value |-> Narrow(v), spr2 |-> UpdateStatus(m.spr2, pc, IF overflow THEN OverflowFlag ELSE 0)]

Magnitude(v) == IF v < 0 THEN -v ELSE v
TruncatedQuotient(a, b) ==
  LET q == Magnitude(a) \div Magnitude(b) IN IF (a < 0) = (b < 0) THEN q ELSE -q
\* A division by zero saturates, the smallest number by -1 stays
SignedQuotient(a, b) ==
  IF b = 0 THEN IF a < 0 THEN -(Size \div 2) ELSE (Size \div 2) - 1 ELSE TruncatedQuotient(a, b)
SignedRemainder(a, b) == IF b = 0 THEN a ELSE a - (b * TruncatedQuotient(a, b))

Compared(a, b, condition) ==
  CASE condition = 0 -> a = b [] condition = 1 -> a # b [] condition = 2 -> a < b
    [] condition = 3 -> a > b [] condition = 4 -> a >= b [] OTHER -> a <= b

Key0Result(m, pc, i) ==
  LET ua == m.x[i.n]
      ub == m.x[i.m]
      a == AsSigned(ua)
      b == AsSigned(ub)
      product == AsSigned(Narrow(a * b))
      sum == AsSigned(m.x[i.d]) + product
      form == <<i.op, i.dtype>>
  IN CASE form = <<"Add", 0>> -> Checked(m, pc, a + b, ~FitsSigned(a + b))
       [] form = <<"Subtract", 0>> -> Checked(m, pc, a - b, ~FitsSigned(a - b))
       [] form = <<"Multiply", 0>> -> Checked(m, pc, product, ~FitsSigned(a * b))
       [] form = <<"MultiplyAdd", 0>> -> Checked(m, pc, sum, ~FitsSigned(a * b) \/ ~FitsSigned(sum))
       [] form = <<"Divide", 0>> -> Value(m, Narrow(SignedQuotient(a, b)))
       [] form = <<"Divide", 1>> -> Value(m, IF ub = 0 THEN AllOnes ELSE ua \div ub)
       [] form = <<"Remainder", 0>> -> Value(m, Narrow(SignedRemainder(a, b)))
       [] form = <<"Remainder", 1>> -> Value(m, IF ub = 0 THEN ua ELSE ua % ub)
       [] form = <<"Minimum", 0>> -> Value(m, IF a <= b THEN ua ELSE ub)
       [] form = <<"Maximum", 0>> -> Value(m, IF a > b THEN ua ELSE ub)
       [] form = <<"And", 3>> -> Value(m, BitAnd(ua, ub))
       [] form = <<"Or", 3>> -> Value(m, BitOr(ua, ub))
       [] form = <<"Xor", 3>> -> Value(m, BitXor(ua, ub))
       [] OTHER -> Refused

ShiftResult(m, i) ==
  LET n == (IF i.byRegister THEN m.x[i.count] ELSE i.immediate) % Bits
      v == m.x[i.d]
  IN CASE i.kind = "ShiftLeft" /\ i.dtype = 3 -> Value(m, (v % (2^(Bits - n))) * (2^n))
       [] i.kind = "ShiftRight" /\ i.dtype = 0 -> Value(m, Narrow(AsSigned(v) \div (2^n)))
       [] i.kind = "ShiftRight" /\ i.dtype = 1 -> Value(m, v \div (2^n))
       [] OTHER -> Refused

LeadingEqual(v, bit) ==
  LET other == IF bit THEN (0..(Bits - 1)) \ BitSet(v) ELSE BitSet(v)
  IN IF other = {} THEN Bits ELSE (Bits - 1) - Max(other)
BitCountResult(m, i) ==
  LET v == m.x[i.n]
      ones == Cardinality(BitSet(v))
  IN Value(m, CASE i.op = "Ones" -> ones
                [] i.op = "Zeros" -> Bits - ones
                [] i.op = "LeadingZeros" -> LeadingEqual(v, FALSE)
                [] v \in {0, AllOnes} -> AllOnes
                [] OTHER -> LeadingEqual(v, v >= Size \div 2) - 1)
FindFirstResult(m, i) ==
  LET found == IF i.set THEN BitSet(m.x[i.n]) ELSE (0..(Bits - 1)) \ BitSet(m.x[i.n])
  IN Value(m, IF found = {} THEN AllOnes ELSE Min(found))

IntegerRoot(v) == Max({r \in 0..(2^(Bits \div 2)) : r * r <= v})
UnaryResult(m, pc, i) ==
  LET v == m.x[i.n]
  IN CASE i.kind = "Move" -> Value(m, v)
       [] i.kind = "Negate" /\ i.dtype = 0 ->
            [ok |-> TRUE, value |-> Narrow(-v),
             spr2 |-> IF v = Size \div 2 THEN UpdateNegateStatus(m.arch, m.spr2, pc) ELSE m.spr2]
       [] i.kind = "Absolute" /\ i.dtype = 0 -> Value(m, IF AsSigned(v) < 0 THEN Narrow(-v) ELSE v)
       [] i.kind = "Sqrt" /\ i.dtype = 0 -> Value(m, IntegerRoot(Magnitude(AsSigned(v))))
       [] i.kind = "Not" /\ i.dtype = 3 -> Value(m, AllOnes - v)
       [] OTHER -> Refused
ExtendResult(m, i) ==
  LET n == i.bytes * CellBits
  IN Value(m, IF i.kind = "ZeroExtend" THEN m.x[i.n] % (2^n) ELSE SignExtended(m.x[i.n], n))

\* Width bits of a value replace those of the destination from bit low on
Inserted(prior, v, low, width) ==
  LET mask == BitsFrom(low, width) IN Without(prior, mask) + BitAnd(Narrow((v % (2^(Bits - low))) * (2^low)), mask)
SignificantBits(v) == IF v = 0 THEN 1 ELSE Max({k \in 1..8 : v >= 2^(k - 1)})
InsertResult(m, i) ==
  LET low == IF i.kind = "Insert" THEN i.lsb ELSE i.position
      width == IF i.kind = "Insert" THEN i.bits ELSE IF i.extended THEN 8 ELSE SignificantBits(i.immediate)
  IN IF low + width > Bits THEN Refused
     ELSE Value(m, Inserted(m.x[i.d], IF i.kind = "Insert" THEN m.x[i.n] ELSE i.immediate, low, width))
BitSetResult(m, i) ==
  LET k == m.x[i.n] % Bits
  IN Value(m, OfBits(IF i.set THEN BitSet(m.x[i.d]) \cup {k} ELSE BitSet(m.x[i.d]) \ {k}))

MoveResult(m, i) ==
  LET half == i.immediate % (2^LaneBits)
  IN CASE i.kind = "MoveX8" -> Value(m, Narrow(half * 8))
       [] i.kind = "MoveImmediate" -> Value(m, half)
       [] OTHER -> Value(m, Inserted(m.x[i.d], half, i.lane * LaneBits, LaneBits))
Key8Result(m, pc, i) ==
  LET a == AsSigned(m.x[i.n])
      v == CASE i.op = "Add" -> a + i.immediate [] i.op = "Subtract" -> a - i.immediate
             [] OTHER -> a * SignedField(i.immediate, 0, 12)
  IN Checked(m, pc, v, ~FitsSigned(v))

SixBitRegisters(i) == CASE i.kind = "Key0" -> {i.d, i.n, i.m}
                        [] i.kind \in {"Move", "Negate", "Absolute", "Sqrt", "Not", "ZeroExtend", "SignExtend"} -> {i.d, i.n}
                        [] OTHER -> {}
IntegerResult(m, pc, i) ==
  CASE \E r \in SixBitRegisters(i) : r > 31 -> Refused
    [] i.kind = "Key0" -> Key0Result(m, pc, i)
    [] i.kind \in {"ShiftLeft", "ShiftRight"} -> ShiftResult(m, i)
    [] i.kind = "BitCount" -> BitCountResult(m, i)
    [] i.kind = "FindFirst" -> FindFirstResult(m, i)
    [] i.kind \in {"Move", "Negate", "Absolute", "Sqrt", "Not"} -> UnaryResult(m, pc, i)
    [] i.kind \in {"ZeroExtend", "SignExtend"} -> ExtendResult(m, i)
    [] i.kind \in {"Insert", "InsertImmediate"} -> InsertResult(m, i)
    [] i.kind = "BitSet" -> BitSetResult(m, i)
    [] i.kind \in {"MoveX8", "MoveImmediate", "MoveKeep"} -> MoveResult(m, i)
    [] i.kind = "Key8" -> Key8Result(m, pc, i)
    [] OTHER -> Refused

-----------------------------------------------------------------------------
(* The outcome of a word: the machine, the memory, the next PC.  An error  *)
(* leaves them as they were.                                               *)

Outcome(m, mem, next) == [m |-> m, mem |-> mem, next |-> next, end |-> FALSE, error |-> "None"]
Failure(m, mem, pc, what) == [m |-> m, mem |-> mem, next |-> pc, end |-> FALSE, error |-> what]
After(pc) == Narrow(pc + 4)

Written(m, mem, pc, i, r) ==
  IF ~r.ok THEN Failure(m, mem, pc, "UnsupportedWord")
  ELSE Outcome([m EXCEPT !.x[i.d] = r.value, !.spr2 = r.spr2], mem, After(pc))
ExecuteWord(m, mem, pc, i) == Written(m, mem, pc, i, IntegerResult(m, pc, i))

\* Comparisons set SPR 11 or a register to 0 or 1
Flag(b) == IF b THEN 1 ELSE 0
IntegerCompare(i, a, b) ==
  CASE i.dtype = 0 -> Flag(Compared(AsSigned(a), AsSigned(b), i.condition)) [] OTHER -> Flag(Compared(a, b, i.condition))
CompareWord(m, mem, pc, i) ==
  IF i.condition > 5 \/ i.dtype > 1 THEN Failure(m, mem, pc, "UnsupportedWord")
  ELSE Outcome(SetSpr(m, 11, IntegerCompare(i, m.x[i.n], m.x[i.m])), mem, After(pc))
CompareRegisterWord(m, mem, pc, i) ==
  IF i.condition > 5 \/ i.dtype > 1 THEN Failure(m, mem, pc, "UnsupportedWord")
  ELSE Outcome([m EXCEPT !.x[i.d] = IntegerCompare(i, m.x[i.n], m.x[i.m])], mem, After(pc))
CompareImmediateWord(m, mem, pc, i) ==
  IF i.condition > 5 THEN Failure(m, mem, pc, "UnsupportedWord")
  ELSE Outcome(SetSpr(m, 11, Flag(Compared(AsSigned(m.x[i.n]), SignedField(i.immediate, 0, 12), i.condition))), mem, After(pc))
SelectWord(m, mem, pc, i) ==
  IF SprValue(m, 11) = Absent THEN Failure(m, mem, pc, "SprValueUnavailable")
  ELSE Outcome([m EXCEPT !.x[i.d] = IF SprValue(m, 11) # 0 THEN m.x[i.n] ELSE m.x[i.m]], mem, After(pc))

\* SPR 0 reads as the PC, SPR 72 of the Dav3510 as the time; the C220 hides the low bit of SPR 7
SprReadWord(m, mem, pc, i) ==
  LET v == CASE i.spr = 0 -> pc [] i.spr = 72 /\ m.arch = "Dav3510" -> m.time [] OTHER -> SprValue(m, i.spr)
  IN CASE i.spr >= SprLimit(m.arch) -> Failure(m, mem, pc, "SprRegisterOutOfRange")
       [] v = Absent -> Failure(m, mem, pc, "SprValueUnavailable")
       [] OTHER -> Outcome([m EXCEPT !.x[i.d] = IF m.arch = "Dav2201" /\ i.spr = 7 THEN v - (v % 2) ELSE v], mem, After(pc))
\* The general machine writes few special registers, the rest belongs to the C220
SprWriteWord(m, mem, pc, i) ==
  LET mask == CASE i.spr = 3 \/ (m.arch = "Dav3510" /\ i.spr \in {105, 112}) -> AllOnes
                [] m.arch = "Dav3510" /\ i.spr = 11 -> 1
                [] m.arch = "Dav3510" /\ i.spr = 90 -> (2^CellBits) - 1
                [] OTHER -> 0
  IN IF mask = 0 \/ i.n > 31 THEN Failure(m, mem, pc, "UnsupportedWord")
     ELSE Outcome([m EXCEPT !.spr[i.spr] = BitAnd(m.x[i.n], mask)], mem, After(pc))

-----------------------------------------------------------------------------
(* Addresses and memory.  A cell of memory is named by an integer: the     *)
(* external address, or Size + offset in the unified buffer.               *)

ExternalBit == LocalBits + 5
Root(v) == Field(v, ExternalBit + 1, AddressBits - ExternalBit)
MappedAddress(a, spr67, spr68) ==
  LET bank == Field(a, LocalBits + 1, 5)
      external(address, stack) == [ok |-> TRUE, address |-> address, ub |-> FALSE, stack |-> stack]
      local(stack) == [ok |-> TRUE, address |-> a % (2^LocalBits), ub |-> TRUE, stack |-> stack]
  IN CASE IsSet(a, ExternalBit) \/ Root(a) # Root(spr67) -> external(a % (2^AddressBits), FALSE)
       [] bank = 0 /\ IsSet(a, LocalBits) -> local(FALSE)
       [] bank % 16 = 0 -> Refused
       [] Root(spr67) = Root(spr68) -> local(TRUE)
       [] OTHER -> external(Narrow(((spr68 % (2^AddressBits)) - (2^(LocalBits + 1))) + (a % (2^ExternalBit))), TRUE)
\* Stack addresses can have a cache partition of their own
CacheAddress(mapped, partition) == IF mapped.stack /\ partition THEN Size + mapped.address ELSE mapped.address

\* Where the functional machine finds an address
RouteOf(mapped) ==
  CASE ~mapped.ok -> [to |-> "Unsupported", at |-> 0]
    [] ~mapped.ub -> [to |-> "Hbm", at |-> mapped.address]
    [] ~mapped.stack \/ mapped.address < UbCells -> [to |-> "Ub", at |-> mapped.address]
    [] OTHER -> [to |-> "Unsupported", at |-> 0]
ScalarRoute(m, a) == RouteOf(MappedAddress(a, SprValue(m, 67), SprValue(m, 68)))
\* The whole access lies in one memory, at consecutive places
Routed(at) == [ok |-> TRUE, at |-> at, error |-> "None"]
Unrouted(what) == [ok |-> FALSE, at |-> 0, error |-> what]
JoinedRoute(first, last, n) ==
  CASE first.to = "Hbm" /\ last.to = "Hbm" /\ first.at + (n - 1) = last.at -> Routed(first.at)
    [] first.to = "Ub" /\ last.to = "Ub" /\ first.at + n <= UbCells -> Routed(Size + first.at)
    [] first.to = "Unsupported" -> Unrouted("UnsupportedLocal")
    [] OTHER -> Unrouted("AliasBoundary")
BusRoute(m, a, n) ==
  CASE m.arch # "Dav2201" -> Routed(a)
    [] a + n >= Size -> Unrouted("AddressOverflow")
    [] Absent \in {SprValue(m, 67), SprValue(m, 68)} -> Unrouted("MissingLocalRoots")
    [] OTHER -> JoinedRoute(ScalarRoute(m, a), ScalarRoute(m, a + (n - 1)), n)

\* Memory as a function of the cells that were written; others hold a pattern
CellAt(mem, k) == IF k \in DOMAIN mem THEN mem[k] ELSE k % (2^CellBits)
ReadCells(mem, at, n) == MapThenSumSet(LAMBDA k : CellAt(mem, at + k) * (2^(CellBits * k)), 0..(n - 1))
WriteCells(mem, at, n, v) == [k \in at..(at + (n - 1)) |-> Field(v, CellBits * (k - at), CellBits)] @@ mem

\* A post-indexed access uses the base and moves it afterwards
AddressEffect(base, adjusted, post) ==
  [address |-> IF post THEN base ELSE adjusted, updated |-> IF post THEN adjusted ELSE Absent]
ImmediateEffect(m, i) == LET b == ReadXreg(m, i.base) IN AddressEffect(b, Narrow(b + i.offset), i.post)
IndexedEffect(m, i) ==
  LET b == ReadXreg(m, i.base) IN AddressEffect(b, Narrow(b + (ReadXreg(m, i.offsetRegister) * i.width)), i.post)
UpdateBase(m, i, effect) == IF effect.updated = Absent THEN m ELSE SetXreg(m, i.base, effect.updated)
ConstantValue(name) == CASE name = "Zero" -> 0 [] name = "One" -> 1 [] OTHER -> AllOnes
Loaded(v, width, sign) == IF sign /\ width < 8 THEN SignExtended(v, width * CellBits) ELSE v

\* A store of one value: the memory changes before the base does
StoreRouted(m, mem, pc, i, effect, v, route) ==
  IF ~route.ok THEN Failure(m, mem, pc, route.error)
  ELSE Outcome(UpdateBase(m, i, effect), WriteCells(mem, route.at, i.width, v), After(pc))
StoreAt(m, mem, pc, i, effect, v) == StoreRouted(m, mem, pc, i, effect, v, BusRoute(m, effect.address, i.width))
\* A load of one value: the base changes before the destination does
LoadRouted(m, mem, pc, i, effect, sign, route) ==
  IF ~route.ok THEN Failure(m, mem, pc, route.error)
  ELSE Outcome(SetXreg(UpdateBase(m, i, effect), i.data, Loaded(ReadCells(mem, route.at, i.width), i.width, sign)),
               mem, After(pc))
LoadAt(m, mem, pc, i, effect, sign) == LoadRouted(m, mem, pc, i, effect, sign, BusRoute(m, effect.address, i.width))

MemoryWord(m, mem, pc, i) ==
  CASE m.arch # "Dav2201" /\ i.post /\ i.kind = "Load" /\ i.data = i.base -> Failure(m, mem, pc, "AliasedPostIndex")
    [] i.kind = "Load" -> LoadAt(m, mem, pc, i, ImmediateEffect(m, i), i.sign)
    [] OTHER -> StoreAt(m, mem, pc, i, ImmediateEffect(m, i), m.x[i.data])
IndexedLoadWord(m, mem, pc, i) == LoadAt(m, mem, pc, i, IndexedEffect(m, i), FALSE)
IndexedStoreWord(m, mem, pc, i) == StoreAt(m, mem, pc, i, IndexedEffect(m, i), ReadXreg(m, i.data))
IndexedImmediateStoreWord(m, mem, pc, i) == StoreAt(m, mem, pc, i, IndexedEffect(m, i), ConstantValue(i.value))
ImmediateStoreWord(m, mem, pc, i) ==
  IF i.post /\ m.arch # "Dav2201" THEN Failure(m, mem, pc, "UnsupportedWord")
  ELSE StoreAt(m, mem, pc, i, ImmediateEffect(m, i), ConstantValue(i.value))

PairAddress(m, i) == Narrow(m.x[i.base] + i.offset)
LoadPairFrom(m, mem, pc, i, first, second) ==
  LET loaded(at) == Loaded(ReadCells(mem, at, i.width), i.width, i.sign)
  IN CASE ~first.ok -> Failure(m, mem, pc, first.error)
       [] ~second.ok -> Failure(m, mem, pc, second.error)
       \* With two equal destinations the first value stays on the C220, the second on the Dav3510
       [] m.arch = "Dav2201" ->
            Outcome([m EXCEPT !.x[i.second] = loaded(second.at), !.x[i.first] = loaded(first.at)], mem, After(pc))
       [] OTHER -> Outcome([m EXCEPT !.x[i.first] = loaded(first.at), !.x[i.second] = loaded(second.at)], mem, After(pc))
PairLoadWord(m, mem, pc, i) ==
  LoadPairFrom(m, mem, pc, i, BusRoute(m, PairAddress(m, i), i.width), BusRoute(m, Narrow(PairAddress(m, i) + i.width), i.width))
\* A refused second half leaves the first one written
StorePairTo(m, mem, pc, i, first, second) ==
  LET half == WriteCells(mem, first.at, i.width, m.x[i.first])
  IN CASE ~first.ok -> Failure(m, mem, pc, first.error)
       [] ~second.ok -> Failure(m, half, pc, second.error)
       [] OTHER -> Outcome(m, WriteCells(half, second.at, i.width, m.x[i.second]), After(pc))
PairStoreWord(m, mem, pc, i) ==
  StorePairTo(m, mem, pc, i, BusRoute(m, PairAddress(m, i), i.width), BusRoute(m, Narrow(PairAddress(m, i) + i.width), i.width))

-----------------------------------------------------------------------------
(* Floats.  A float is the lower half of a register: a sign, an exponent   *)
(* and a fraction of LaneBits bits.                                        *)

FloatMagnitude(v) == v % (Half \div 2)
FloatInfinity == (Half \div 2) - (2^LaneBits)
IsNan(v) == FloatMagnitude(v) > FloatInfinity
IsInfinity(v) == FloatMagnitude(v) = FloatInfinity
IsNegative(v) == v % Half >= Half \div 2
FloatOrder(v) == IF IsNegative(v) THEN -FloatMagnitude(v) ELSE FloatMagnitude(v)
FloatCompared(a, b, condition) ==
  ~IsNan(a) /\ ~IsNan(b) /\ condition <= 5 /\ Compared(FloatOrder(a), FloatOrder(b), condition)

IsFloatCompare(i) == i.kind \in {"Compare", "CompareRegister"} /\ i.dtype = 2
\* A comparison with an operand that is not finite notes it in SPR 2
FloatCompareWord(m, mem, pc, i) ==
  LET a == m.x[i.n]
      b == m.x[i.m]
      v == Flag(FloatCompared(a, b, i.condition))
      special == i.condition <= 5 /\ (IsNan(a) \/ IsNan(b) \/ IsInfinity(a) \/ IsInfinity(b))
      written == IF i.kind = "CompareRegister" THEN SetXreg(m, i.d, v) ELSE SetSpr(m, 11, v)
  IN Outcome(SetSpr(written, 2, UpdateStatus(m.spr2, pc, IF special THEN InvalidFlag ELSE 0)), mem, After(pc))

IsFloat(i) ==
  \/ i.kind = "Key0" /\ i.dtype = 2 /\ i.op \in {"Add", "Subtract", "Multiply", "MultiplyAdd", "Divide", "Minimum", "Maximum"}
  \/ i.kind \in {"Negate", "Absolute", "Sqrt"} /\ i.dtype = 2
FloatResult(m, i) ==
  LET a == m.x[i.n] % Half
      special == IsNan(a) \/ IsInfinity(a)
      second == IF i.kind = "Key0" THEN m.x[i.m] % Half ELSE 0
      op == IF i.kind = "Key0" THEN i.op ELSE i.kind
      third == IF op = "MultiplyAdd" THEN m.x[i.d] % Half ELSE 0
      r == FloatEvaluate(op, a, second, third)
      flags == (IF r.overflow THEN FloatOverflowFlag ELSE 0) + (IF r.underflow THEN UnderflowFlag ELSE 0)
               + (IF \E v \in {a, second, third} : IsNan(v) \/ IsInfinity(v) THEN InvalidFlag ELSE 0)
  IN CASE op = "Negate" -> [bits |-> IF special THEN 0 ELSE (a + (Half \div 2)) % Half,
                            flags |-> IF m.x[i.n] = Size \div 2 THEN NegateFlag ELSE 0]
       [] op = "Sqrt" -> [bits |-> IF IsNan(a) \/ (IsNegative(a) /\ FloatMagnitude(a) # 0) THEN (Half \div 2) - 1 ELSE r.bits,
                          flags |-> IF special THEN InvalidFlag ELSE 0]
       [] OTHER -> [bits |-> r.bits, flags |-> flags]
FloatWritten(m, mem, pc, i, r) == Outcome(SetSpr(SetXreg(m, i.d, r.bits), 2, UpdateStatus(m.spr2, pc, r.flags)), mem, After(pc))
FloatWord(m, mem, pc, i) ==
  IF \E r \in SixBitRegisters(i) : r > 31 THEN Failure(m, mem, pc, "UnsupportedWord")
  ELSE FloatWritten(m, mem, pc, i, FloatResult(m, i))

ConversionResult(m, pc, i) ==
  LET v == m.x[i.n]
      r == ConversionEvaluate(i.op, v, SprValue(m, 3))
      special == r.nan \/ r.infinity
      cleared == i.op \notin {"S32ToF32", "F16ToF32", "F32ToF16"} /\ special
      flags == (IF r.overflow THEN FloatOverflowFlag ELSE 0) + (IF r.underflow THEN UnderflowFlag ELSE 0)
               + (IF special THEN InvalidFlag ELSE 0)
  IN [value |-> IF cleared THEN 0 ELSE r.value, spr2 |-> UpdateStatus(m.spr2, pc, flags)]
ConversionWord(m, mem, pc, i) ==
  IF SprValue(m, 3) = Absent THEN Failure(m, mem, pc, "SprValueUnavailable")
  ELSE LET r == ConversionResult(m, pc, i) IN Outcome(SetSpr(SetXreg(m, i.d, r.value), 2, r.spr2), mem, After(pc))

-----------------------------------------------------------------------------
(* Special registers of the C220: which can be written, and which bits     *)

FullSprs == {0, 2, 3, 4, 5, 6, 8, 14, 20, 21, 59, 72, 76, 88, 89, 104, 105}
ScalarWriteMask(s) ==
  CASE s \in FullSprs -> AllOnes
    [] s \in {1, 9, 16, 73, 85, 86} -> (2^LaneBits) - 1
    [] s \in {7, 74, 87, 107, 108} -> Half - 1
    [] s \in {18, 90} -> (2^CellBits) - 1
    [] s \in {11, 62, 75, 77, 91} -> 1
    [] s \in {67, 68} -> (2^(AddressBits + 1)) - 1
    [] OTHER -> 0
\* The special register a word writes on the C220, or Absent
WriteDestination(c) ==
  LET s == IF c.immediate # NoWord THEN c.immediate.spr
           ELSE IF c.scalar.kind = "MoveToSpr" THEN c.scalar.spr ELSE Absent
  IN IF s # Absent /\ ScalarWriteMask(s) # 0 THEN s ELSE Absent
\* An immediate written to SPR 3 is taken as 0
SprWrite(m, mem, pc, c) ==
  LET s == WriteDestination(c)
      v == IF c.immediate # NoWord THEN IF s = 3 THEN 0 ELSE c.immediate.immediate % (2^LaneBits) ELSE m.x[c.scalar.n]
  IN Outcome(SetSpr(m, s, BitAnd(v, ScalarWriteMask(s))), mem, After(pc))

-----------------------------------------------------------------------------
(* Flow control *)

\* An offset in a register is extended from its sign bit; without it the register counts as it is
JumpOffset(m, i) ==
  LET v == IF i.byRegister THEN m.x[i.offset] ELSE 0
  IN CASE ~i.byRegister -> i.offset
       [] IsSet(v, JumpSignBit) -> SignedField(v, 0, JumpSignBit + 1)
       [] OTHER -> v
TakenTarget(m, pc, i) == Narrow(pc + (4 * JumpOffset(m, i)))
JumpTaken(m, i) ==
  LET a == m.x[i.n]
      b == IF i.secondByRegister THEN m.x[i.second] ELSE Narrow(i.second)
  IN CASE i.dtype = 0 -> Compared(AsSigned(a), AsSigned(b), i.condition)
       [] i.dtype = 1 -> Compared(a, b, i.condition)
       [] OTHER -> FloatCompared(a, b, i.condition)
JumpCompareWord(m, mem, pc, i) ==
  CASE i.dtype > 2 -> Failure(m, mem, pc, "UnsupportedDtype")
    [] i.condition > 5 -> Failure(m, mem, pc, "UnsupportedCondition")
    [] OTHER -> Outcome(SetSpr(m, 11, Flag(JumpTaken(m, i))), mem, IF JumpTaken(m, i) THEN TakenTarget(m, pc, i) ELSE After(pc))
ConditionalJumpWord(m, mem, pc, i) ==
  IF m.spr[11] = Absent THEN Failure(m, mem, pc, "SprValueUnavailable")
  ELSE Outcome(m, mem, IF m.spr[11] # 0 THEN TakenTarget(m, pc, i) ELSE After(pc))
\* The first decoder that takes the word executes it
FlowWord(m, mem, pc, c) ==
  CASE c.end # NoWord -> [Outcome(m, mem, After(pc)) EXCEPT !.end = TRUE]
    [] c.nop # NoWord -> Outcome(m, mem, After(pc))
    [] c.jump # NoWord -> Outcome(m, mem, TakenTarget(m, pc, c.jump))
    [] c.conditional # NoWord -> ConditionalJumpWord(m, mem, pc, c.conditional)
    [] c.compare # NoWord -> JumpCompareWord(m, mem, pc, c.compare)
    [] OTHER -> Failure(m, mem, pc, "UnsupportedWord")

-----------------------------------------------------------------------------
(* One word of a program.  Instruction lists what each decoder makes of a  *)
(* word, so that the order in which the executors ask them is theirs.      *)
Instruction(arch, w) ==
  [word |-> w, class |-> AicClass(w), scalar |-> ScalarWord(arch, w),
   barrier |-> PipelineBarrier(arch, w), dcci |-> Dcci(w), dsb |-> Dsb(w),
   end |-> FlowEnd(w), nop |-> FlowNop(w), jump |-> UnconditionalJump(w), conditional |-> ConditionalJump(w),
   compare |-> JumpCompare(w), flag |-> FlagInstruction(w), crossCore |-> SetCrossCore(w), deviceFlag |-> WaitDeviceFlag(w),
   immediate |-> C220SprImmediate(w), conversion |-> C220Conversion(w), preload |-> C220Preload(w),
   atomic |-> C220AtomicStore(w), direct |-> C220DirectStore(w), device |-> C220DeviceLoad(w)]

\* Barriers, cache maintenance and synchronisation are the backend's to accept
ExecuteFlow(m, mem, pc, c, accepted) ==
  LET backend(what) == IF accepted THEN Outcome(m, mem, After(pc)) ELSE Failure(m, mem, pc, what)
  IN CASE c.barrier # NoWord \/ (c.dcci = NoWord /\ c.dsb # NoWord) -> backend("SynchronizationUnsupported")
       [] c.dcci # NoWord -> backend("CacheMaintenanceUnsupported")
       [] OTHER -> FlowWord(m, mem, pc, c)
ExecuteInstruction(m, mem, pc, c, accepted) ==
  LET i == c.scalar
  IN CASE c.class = "FlowControl" -> ExecuteFlow(m, mem, pc, c, accepted)
       [] i.kind = "Compare" -> CompareWord(m, mem, pc, i)
       [] i.kind = "CompareRegister" -> CompareRegisterWord(m, mem, pc, i)
       [] i.kind = "CompareImmediate" -> CompareImmediateWord(m, mem, pc, i)
       [] i.kind = "Select" -> SelectWord(m, mem, pc, i)
       [] i.kind = "PairLoad" -> PairLoadWord(m, mem, pc, i)
       [] i.kind = "PairStore" -> PairStoreWord(m, mem, pc, i)
       [] i.kind = "IndexedLoad" -> IndexedLoadWord(m, mem, pc, i)
       [] i.kind = "IndexedStore" -> IndexedStoreWord(m, mem, pc, i)
       [] i.kind = "IndexedImmediateStore" -> IndexedImmediateStoreWord(m, mem, pc, i)
       [] i.kind = "DcPreload" -> Outcome(m, mem, After(pc))
       [] i.kind \in {"Load", "Store"} -> MemoryWord(m, mem, pc, i)
       [] i.kind = "StoreImmediate" -> ImmediateStoreWord(m, mem, pc, i)
       [] i.kind = "MoveFromSpr" -> SprReadWord(m, mem, pc, i)
       [] i.kind = "MoveToSpr" -> SprWriteWord(m, mem, pc, i)
       [] i.kind = "None" -> Failure(m, mem, pc, "UnsupportedWord")
       [] OTHER -> ExecuteWord(m, mem, pc, i)
\* The C220 asks its own executors first
StepScalarWord(m, mem, pc, c, accepted) ==
  CASE m.arch # "Dav2201" -> ExecuteInstruction(m, mem, pc, c, accepted)
    [] IsFloatCompare(c.scalar) -> FloatCompareWord(m, mem, pc, c.scalar)
    [] IsFloat(c.scalar) -> FloatWord(m, mem, pc, c.scalar)
    [] WriteDestination(c) # Absent -> SprWrite(m, mem, pc, c)
    [] c.conversion # NoWord -> ConversionWord(m, mem, pc, c.conversion)
    [] OTHER -> ExecuteInstruction(m, mem, pc, c, accepted)
=============================================================================
