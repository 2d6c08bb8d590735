------------------------------ MODULE ScalarWords ------------------------------
(***************************************************************************)
(* The instruction words of the scalar unit and of flow control: which     *)
(* word is which instruction, and the fields it carries.  A word is a      *)
(* signed 32-bit integer, so that every word is an integer of TLC; its     *)
(* fields are cut out by Field, which floors and therefore reads the bits  *)
(* of the two's complement.                                                *)
(*   src/src/isa/class.rs, scalar.rs, flow.rs, c220/scalar.rs, control.rs  *)
(* NoWord stands for the None of the decoders.                             *)
(***************************************************************************)
EXTENDS Integers, Sequences, FiniteSets, TLC

NoWord == [kind |-> "None"]

Field(w, lo, n) == (w \div (2^lo)) % (2^n)
IsSet(w, k) == Field(w, k, 1) = 1
SignedField(w, lo, n) == LET v == Field(w, lo, n) IN IF v >= 2^(n - 1) THEN v - 2^n ELSE v

\* The class of a word is its top three bits
AicClass(w) ==
  LET c == Field(w, 29, 3)
  IN CASE c = 0 -> "Scalar" [] c = 2 -> "FlowControl" [] c = 3 -> "MemoryTransfer"
       [] c = 4 -> "Vector" [] c = 6 -> "Fixp" [] c = 7 -> "Cube" [] OTHER -> "Unregistered"

ScalarKey(w) == Field(w, 24, 5)
Key2(w) == Field(w, 7, 5)
Dtype(w) == Field(w, 22, 2)
WidthOf(w) == 2^Dtype(w)
Xd(w) == Field(w, 17, 5)
Xn(w) == Field(w, 12, 5)
Xm(w) == Field(w, 7, 5)

\* Three ways of extending a register number to six bits
IndexedRegisters(w) == [data |-> Xd(w) + 32 * Field(w, 2, 1), base |-> Xn(w) + 32 * Field(w, 1, 1),
                        offset |-> Xm(w) + 32 * Field(w, 0, 1)]
Key0Registers(arch, w) ==
  LET wide == IF arch = "Dav2201" THEN 32 ELSE 0
  IN [d |-> Xd(w) + wide * Field(w, 6, 1), n |-> Xn(w) + wide * Field(w, 5, 1), m |-> Xm(w) + wide * Field(w, 4, 1)]
Key2Registers(arch, w) ==
  LET wide == IF arch = "Dav2201" THEN 32 ELSE 0
  IN [d |-> Xd(w) + wide * Field(w, 6, 1), n |-> Xn(w) + wide * Field(w, 5, 1)]

StoreImmediateValue(w) == <<"Zero", "One", "Ones">>[Field(w, 0, 2) + 1]

-----------------------------------------------------------------------------
(* Loads and stores *)

\* A load or a store of one register at a base and an offset of twelve bits
LoadStoreHint(w, operation, post, sign) ==
  [kind |-> operation, width |-> WidthOf(w), data |-> Xd(w), base |-> Xn(w),
   offset |-> SignedField(w, 0, 12), post |-> post, sign |-> sign]

\* Offset in a register: loads and stores of a register, stores of a constant
IndexedForm(arch, w) ==
  LET r == IndexedRegisters(w)
      form == [width |-> WidthOf(w), data |-> r.data, base |-> r.base, offsetRegister |-> r.offset, post |-> IsSet(w, 3)]
  IN CASE arch = "Dav2201" /\ ScalarKey(w) = 1 /\ Field(w, 4, 3) = 2 -> [kind |-> "IndexedStore"] @@ form
       [] ScalarKey(w) = 1 /\ Field(w, 4, 3) = 0 /\ (arch = "Dav2201" \/ Field(w, 0, 4) = 0) ->
            [kind |-> "IndexedLoad"] @@ form
       [] ScalarKey(w) = 14 /\ (arch = "Dav2201" \/ Field(w, 2, 5) = 0) /\ Field(w, 0, 2) # 3 ->
            [kind |-> "IndexedImmediateStore", width |-> WidthOf(w), base |-> Xn(w), offsetRegister |-> Xm(w),
             value |-> StoreImmediateValue(w), post |-> arch = "Dav2201" /\ IsSet(w, 2)]
       [] OTHER -> NoWord

\* Two registers at consecutive addresses
PairForm(arch, w) ==
  IF ~(ScalarKey(w) = 9 \/ (arch = "Dav3510" /\ ScalarKey(w) \in {12, 13})) THEN NoWord
  ELSE [kind |-> IF IsSet(w, 0) THEN "PairStore" ELSE "PairLoad", width |-> WidthOf(w),
        first |-> Xd(w), second |-> Xm(w), base |-> Xn(w), offset |-> SignedField(w, 1, 6),
        sign |-> ~IsSet(w, 0) /\ arch = "Dav3510" /\ IsSet(w, 24)]

LoadStoreForm(arch, w) ==
  LET k == ScalarKey(w)
  IN CASE arch = "Dav2201" /\ k \in {3, 19} -> LoadStoreHint(w, "Load", IsSet(w, 28), FALSE)
       [] arch = "Dav2201" /\ k \in {4, 20} -> LoadStoreHint(w, "Store", IsSet(w, 28), FALSE)
       [] arch = "Dav3510" /\ k \in {28, 31} -> LoadStoreHint(w, "Load", IsSet(w, 25), IsSet(w, 24))
       [] arch = "Dav3510" /\ k \in {3, 19} -> LoadStoreHint(w, "Store", IsSet(w, 28), FALSE)
       [] OTHER -> NoWord

StoreImmediateForm(w) ==
  IF ScalarKey(w) # 15 \/ Field(w, 0, 2) = 3 THEN NoWord
  ELSE LET raw == 128 * Field(w, 17, 5) + Field(w, 5, 7)
       IN [kind |-> "StoreImmediate", width |-> WidthOf(w), base |-> Xn(w),
           offset |-> IF raw >= 2048 THEN raw - 4096 ELSE raw, post |-> IsSet(w, 2),
           value |-> StoreImmediateValue(w)]

-----------------------------------------------------------------------------
(* Arithmetic, logic and moves *)

Key0Operations ==
  <<"Add", "Subtract", "Multiply", "MultiplyAdd", "Divide", "Remainder", "Maximum", "Minimum",
    "None", "And", "Or", "Xor">>

Key0Form(arch, w) ==
  LET low == Field(w, 0, 4)
      r == Key0Registers(arch, w)
      compare == [dtype |-> Dtype(w), condition |-> Field(w, 4, 3), n |-> Xn(w), m |-> Xm(w)]
  IN CASE ScalarKey(w) # 0 -> NoWord
       [] low = 9 -> [kind |-> "Select", dtype |-> Dtype(w)] @@ r
       [] low = 14 -> [kind |-> "Compare"] @@ compare
       [] low = 15 -> [kind |-> "CompareRegister", d |-> Xd(w)] @@ compare
       [] low \in {0, 13} -> NoWord
       [] OTHER -> [kind |-> "Key0", op |-> Key0Operations[low], dtype |-> Dtype(w)] @@ r

ShiftForm(w, kind) ==
  [kind |-> kind, dtype |-> Dtype(w), d |-> Xd(w), byRegister |-> IsSet(w, 6), count |-> Xn(w),
   immediate |-> Field(w, 0, 6)]

\* Counting and searching bits: some bits of the word must be clear
BitForm(arch, w) ==
  LET r == [d |-> Xd(w), n |-> Xn(w)]
      sub == Key2(w)
      clear == arch = "Dav3510" \/ Field(w, 4, 2) = 0
  IN CASE sub = 7 /\ clear -> [kind |-> "FindFirst", set |-> IsSet(w, 6)] @@ r
       [] sub = 8 /\ clear -> [kind |-> "BitSet", set |-> IsSet(w, 6)] @@ r
       [] arch = "Dav2201" /\ sub = 6 /\ Field(w, 4, 2) = 0 ->
            [kind |-> "BitCount", op |-> IF IsSet(w, 6) THEN "Ones" ELSE "Zeros"] @@ r
       [] arch = "Dav2201" /\ sub \in {9, 10} /\ Field(w, 5, 2) = 0 ->
            [kind |-> "BitCount", op |-> IF sub = 9 THEN "LeadingZeros" ELSE "LeadingSignBits"] @@ r
       [] OTHER -> NoWord

\* Moves between general and special registers
SprForm(arch, w) ==
  LET high == IF arch = "Dav3510" THEN 128 * Field(w, 0, 1) ELSE 0
  IN CASE Key2(w) = 17 -> [kind |-> "MoveFromSpr", d |-> Xd(w), spr |-> high + 32 * Field(w, 22, 2) + Xn(w)]
       [] Key2(w) = 18 -> [kind |-> "MoveToSpr", spr |-> high + Field(w, 17, 7),
                           n |-> Xn(w) + (IF arch = "Dav2201" THEN 32 * Field(w, 5, 1) ELSE 0)]
       [] OTHER -> NoWord

ExtendForm(arch, w) ==
  IF Key2(w) \notin {19, 20} \/ Dtype(w) = 3 THEN NoWord
  ELSE [kind |-> IF Key2(w) = 19 THEN "SignExtend" ELSE "ZeroExtend", bytes |-> 2^Dtype(w)] @@ Key2Registers(arch, w)

InsertForm(w) ==
  CASE Key2(w) \in {22, 23} ->
         [kind |-> "InsertImmediate", d |-> Xd(w), position |-> 32 * Field(w, 22, 1) + Xn(w),
          immediate |-> Field(w, 0, 8), extended |-> IsSet(w, 23)]
    [] Key2(w) \in 24..27 ->
         [kind |-> "Insert", d |-> Xd(w), n |-> Xn(w), lsb |-> 16 * Field(w, 22, 2) + Field(w, 5, 4),
          bits |-> Field(w, 0, 5) + 1]
    [] OTHER -> NoWord

Key2Form(arch, w) ==
  LET sub == Key2(w)
      unary(kind) == [kind |-> kind, dtype |-> Dtype(w)] @@ Key2Registers(arch, w)
  IN CASE ScalarKey(w) # 2 -> NoWord
       [] sub = 0 -> unary("Sqrt")
       [] sub = 1 -> unary("Negate")
       [] sub = 2 -> unary("Absolute")
       [] sub = 3 -> unary("Not")
       [] sub = 16 -> unary("Move")
       [] sub = 4 -> ShiftForm(w, "ShiftLeft")
       [] sub = 5 -> ShiftForm(w, "ShiftRight")
       [] sub \in 6..10 -> BitForm(arch, w)
       [] sub \in {17, 18} -> SprForm(arch, w)
       [] sub \in {19, 20} -> ExtendForm(arch, w)
       [] OTHER -> InsertForm(w)

Key7Form(w) ==
  [kind |-> IF IsSet(w, 16) THEN "MoveKeep" ELSE "MoveImmediate", d |-> Xd(w), immediate |-> Field(w, 0, 16),
   lane |-> IF IsSet(w, 16) THEN Dtype(w) ELSE 0]
Key8Form(w) ==
  IF Dtype(w) = 3 THEN [kind |-> "DcPreload", n |-> Field(w, 12, 6), immediate |-> Field(w, 0, 12)]
  ELSE [kind |-> "Key8", op |-> <<"Add", "Multiply", "Subtract">>[Dtype(w) + 1], d |-> Xd(w), n |-> Xn(w),
        immediate |-> Field(w, 0, 12)]

-----------------------------------------------------------------------------
(* The C220 forms beside the common ones *)

C220DeviceLoad(w) ==
  IF Field(w, 29, 3) # 0 \/ Field(w, 25, 4) # 13 THEN NoWord
  ELSE [kind |-> "DeviceLoad", d |-> Xd(w), base |-> Xn(w), width |-> WidthOf(w), offset |-> SignedField(w, 0, 12)]
C220DirectStore(w) ==
  IF Field(w, 29, 3) # 0 \/ Field(w, 25, 4) # 12 THEN NoWord
  ELSE [kind |-> "DirectStore", data |-> Xd(w), base |-> Xn(w), width |-> WidthOf(w), offset |-> SignedField(w, 0, 12)]
C220Preload(w) ==
  CASE Field(w, 29, 3) # 0 -> NoWord
    [] ScalarKey(w) = 1 /\ Field(w, 4, 3) = 5 ->
         [kind |-> "Preload", base |-> IndexedRegisters(w).base, byRegister |-> TRUE,
          offset |-> IndexedRegisters(w).offset, post |-> IsSet(w, 3)]
    [] ScalarKey(w) = 8 /\ Dtype(w) = 3 ->
         [kind |-> "Preload", base |-> Field(w, 12, 6), byRegister |-> FALSE, offset |-> Field(w, 0, 12), post |-> FALSE]
    [] OTHER -> NoWord
C220AtomicStore(w) ==
  LET form == [kind |-> "AtomicStore", data |-> Xd(w), base |-> Xn(w), width |-> WidthOf(w)]
  IN CASE Field(w, 29, 3) # 0 -> NoWord
       [] ScalarKey(w) = 1 /\ Field(w, 4, 3) = 7 -> [byRegister |-> TRUE, offset |-> Xm(w), post |-> IsSet(w, 3)] @@ form
       [] ScalarKey(w) \in {22, 23} ->
            [byRegister |-> FALSE, offset |-> SignedField(w, 0, 12), post |-> IsSet(w, 24)] @@ form
       [] OTHER -> NoWord
C220SprImmediate(w) ==
  IF Field(w, 29, 3) # 0 \/ ScalarKey(w) # 18 THEN NoWord
  ELSE [kind |-> "SprImmediate", spr |-> Field(w, 17, 7), immediate |-> Field(w, 0, 16)]
C220Conversions ==
  <<"F32ToS32NearestAway", "F32ToS32Floor", "F32ToS32Ceil", "F32ToS32Truncate", "F32ToS32NearestEven",
    "S32ToF32", "F32ToF16", "F16ToF32", "F32ToF16Odd">>
C220Conversion(w) ==
  IF Field(w, 29, 3) # 0 \/ ScalarKey(w) # 2 \/ Key2(w) # 11 \/ Field(w, 0, 5) > 8 THEN NoWord
  ELSE [kind |-> "Conversion", op |-> C220Conversions[Field(w, 0, 5) + 1], d |-> Xd(w), n |-> Xn(w)]

-----------------------------------------------------------------------------
(* Every scalar word.  The order of the arms is the order of the source:   *)
(* a device load of the C220 is read before the common keys.               *)
ScalarWord(arch, w) ==
  LET k == ScalarKey(w)
  IN CASE AicClass(w) # "Scalar" -> NoWord
       [] arch = "Dav2201" /\ C220DeviceLoad(w) # NoWord -> LoadStoreHint(w, "Load", FALSE, FALSE)
       [] k \in {1, 14} -> IndexedForm(arch, w)
       [] k \in {9, 12, 13} -> PairForm(arch, w)
       [] k \in {3, 4, 19, 20, 28, 31} -> LoadStoreForm(arch, w)
       [] k = 15 -> StoreImmediateForm(w)
       [] k = 16 -> [kind |-> "MoveX8", d |-> Xd(w), immediate |-> Field(w, 0, 16)]
       [] k = 10 -> [kind |-> "CompareImmediate", condition |-> Field(w, 22, 3), n |-> Xn(w), immediate |-> Field(w, 0, 12)]
       [] k = 0 -> Key0Form(arch, w)
       [] k = 2 -> Key2Form(arch, w)
       [] k = 7 -> Key7Form(w)
       [] k = 8 -> Key8Form(w)
       [] OTHER -> NoWord

-----------------------------------------------------------------------------
(* Flow control *)

IsFlow(w) == AicClass(w) = "FlowControl"
FlowOp(w) == Field(w, 21, 4)

FlowEnd(w) == IF IsFlow(w) /\ FlowOp(w) = 11 THEN [kind |-> "End"] ELSE NoWord
FlowNop(w) == IF IsFlow(w) /\ Field(w, 27, 2) # 1 /\ FlowOp(w) = 10 THEN [kind |-> "Nop"] ELSE NoWord

\* Seven exact words; BAR.ALL is the only one that both architectures have
BarrierWords ==
  ("Vector" :> 1088422912 @@ "Cube" :> 1088423936 @@ "Mte1" :> 1088424960 @@ "Mte2" :> 1088425984
   @@ "Mte3" :> 1088427008 @@ "Fix" :> 1088432128 @@ "All" :> 1088428032)
PipelineBarrier(arch, w) ==
  LET scopes == {s \in DOMAIN BarrierWords : BarrierWords[s] = w /\ (arch = "Dav2201" \/ s = "All")}
  IN IF scopes = {} THEN NoWord ELSE [kind |-> "Barrier", scope |-> CHOOSE s \in scopes : TRUE]

FlagInstruction(w) ==
  IF ~IsFlow(w) \/ IsSet(w, 25) \/ FlowOp(w) \notin {5, 6} THEN NoWord
  ELSE [kind |-> "Flag", op |-> IF FlowOp(w) = 5 THEN "Set" ELSE "Wait",
        sourcePipe |-> Field(w, 10, 4), triggerPipe |-> Field(w, 7, 3) + 8 * Field(w, 14, 1),
        byRegister |-> IsSet(w, 17),
        id |-> IF IsSet(w, 17) THEN Field(w, 2, 5) ELSE 4 * Field(w, 18, 1) + Field(w, 0, 2)]

Dsb(w) == IF IsFlow(w) /\ FlowOp(w) = 14 THEN [kind |-> "Dsb", scope |-> Field(w, 16, 3)] ELSE NoWord
Dcci(w) ==
  IF ~IsFlow(w) \/ Field(w, 25, 4) = 1 \/ FlowOp(w) # 1 \/ Field(w, 18, 3) # 3 THEN NoWord
  ELSE [kind |-> "Dcci", n |-> Xn(w), entire |-> IsSet(w, 17), op |-> Field(w, 0, 2)]

\* The offset of a jump, in words, is an immediate or a register
OffsetSource(w) ==
  IF IsSet(w, 17) THEN [byRegister |-> TRUE, offset |-> Xn(w)]
  ELSE [byRegister |-> FALSE, offset |-> SignedField(w, 0, 16)]
UnconditionalJump(w) ==
  IF ~IsFlow(w) \/ Field(w, 20, 5) # 0 \/ Field(w, 25, 4) # 0 THEN NoWord
  ELSE [kind |-> "Jump"] @@ OffsetSource(w)
ConditionalJump(w) ==
  IF ~IsFlow(w) \/ Field(w, 20, 5) # 2 \/ Field(w, 18, 3) # 0 \/ Field(w, 25, 4) # 0 THEN NoWord
  ELSE [kind |-> "ConditionalJump"] @@ OffsetSource(w)
JumpCompare(w) ==
  IF Field(w, 27, 5) # 9 THEN NoWord
  ELSE [kind |-> "JumpCompare", dtype |-> Field(w, 25, 2), condition |-> Field(w, 18, 3),
        n |-> 2 * Field(w, 21, 4) + Field(w, 15, 1), secondByRegister |-> IsSet(w, 16),
        second |-> IF IsSet(w, 16) THEN Field(w, 0, 5) ELSE SignedField(w, 0, 5),
        byRegister |-> IsSet(w, 17),
        offset |-> IF IsSet(w, 17) THEN Field(w, 5, 5) ELSE SignedField(w, 5, 10)]

\* Cross-core flags and device flags share one form of flow control
SpecialFlowForm(w) == IF IsFlow(w) /\ Field(w, 27, 2) # 1 /\ FlowOp(w) = 15 THEN Field(w, 18, 3) ELSE 8
SetCrossCore(w) ==
  IF SpecialFlowForm(w) \notin {4, 5} THEN NoWord
  ELSE [kind |-> "SetCrossCore", n |-> Field(w, 2, 5), pipe |-> Field(w, 10, 4)]
WaitDeviceFlag(w) ==
  CASE SpecialFlowForm(w) = 1 -> [kind |-> "WaitDeviceFlag", byRegister |-> TRUE, id |-> Field(w, 0, 5)]
    [] SpecialFlowForm(w) = 3 -> [kind |-> "WaitDeviceFlag", byRegister |-> FALSE, id |-> Field(w, 0, 8)]
    [] OTHER -> NoWord

\* Control instructions of the vector unit, told apart by exact low bits
VectorControl(w) ==
  LET low == Field(w, 0, 7)
      top == Field(w, 22, 10)
      element == <<"Byte", "Half", "Word">>
  IN CASE top = 515 -> [kind |-> "VectorControl", op |-> "BlockDescriptor"]
       [] top = 512 /\ low \in {1, 9} -> [kind |-> "VectorControl", op |-> "ScMerge", element |-> element[(low \div 8) + 1]]
       [] top = 512 /\ low \in {2, 10} -> [kind |-> "VectorControl", op |-> "ScSplit", element |-> element[(low \div 8) + 1]]
       [] top = 512 /\ low \in {34, 42} -> [kind |-> "VectorControl", op |-> "Padding", element |-> element[((low - 34) \div 8) + 2]]
       [] top = 512 /\ low \in {98, 106} -> [kind |-> "VectorControl", op |-> "Scatter", element |-> element[((low - 98) \div 8) + 2]]
       [] top = 512 /\ low \in {18, 26} -> [kind |-> "VectorControl", op |-> IF low = 18 THEN "L0cLockSet" ELSE "L0cLockRelease"]
       [] top = 512 /\ low \in {7, 15, 23} -> [kind |-> "VectorControl", op |-> "Shuffle", element |-> element[(low \div 8) + 1]]
       [] OTHER -> NoWord
=============================================================================
