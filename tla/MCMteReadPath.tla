--------------------------- MODULE MCMteReadPath ---------------------------
(***************************************************************************)
(* Instances of MteReadPath.  A logical read takes two accesses, an output *)
(* two fragments, and every queue holds one or two entries, so that the    *)
(* generators, the interface and the write ports push back on each other.  *)
(***************************************************************************)
EXTENDS MteReadPath

C(op, to, blocks, merge, flags) ==
  [op |-> op, to |-> to, blocks |-> blocks, merge |-> merge, flags |-> flags]

Load2d  == C("Load2d", "L0a", 1, 1, {"wait"})
Sparse  == C("Load2dSparse", "L0b", 1, 1, {})
Load3d  == C("Load3dv2", "L0a", 1, 2, {})
Load3dB == C("Load3dv2", "L0b", 1, 1, {"set"})
Bt      == C("Bt", "Bt", 2, 1, {})
Smask   == C("Smask", "Smask", 1, 1, {"wait"})
Fill    == C("Set2d", "L0a", 1, 1, {})
Nop     == C("Load2d", "L0a", 0, 1, {"wait", "set"})
Spr     == C("WriteSpr", "External", 0, 1, {})
Flag    == C("HardwareFlag", "External", 0, 1, {})
Trigger == C("HardwareFlag", "External", 0, 1, {"set"})
Cross   == C("CrossCore", "External", 0, 1, {"wait"})

Factor  == C("Factor", "Fb", 1, 1, {})
Out     == C("L1Output", "External", 1, 1, {})
Mask2   == C("ExternalSmask", "Smask", 1, 1, {})
Load2   == C("ExternalLoad2d", "L0a", 1, 1, {})

W(own, foreign) == [mte1 |-> own, others |-> foreign]

MCWorkloads ==
  { W(<<Load2d, Bt, Fill>>, <<Factor>>),
    W(<<Sparse, Smask, Flag>>, <<Out>>),
    W(<<Load3d, Fill, Cross>>, <<Load2>>),
    W(<<Load3dB, Bt>>, <<Out>>),
    W(<<Fill, Load2d, Spr>>, <<Mask2>>),
    W(<<Load3dB>>, <<Out, Factor>>),
    W(<<Sparse, Sparse, Bt>>, <<>>),
    W(<<Nop, Load3d, Trigger>>, <<>>) }

MCGeneratedCapacity == [g \in Generators |-> IF g = "Set2d" THEN 2 ELSE 1]
MCWriteCapacity == [p \in WritePorts |-> 1]
=============================================================================
