-------------------------- MODULE MCHardwareFlags --------------------------
(* Small instances of HardwareFlags: one run takes each mix of counters as a *)
(* program of its own.                                                      *)
EXTENDS HardwareFlags

Key(d, m, e) == [dest |-> d, memory |-> m, event |-> e]

\* Cube to FIX on two events and FIX to Cube.
CubeKeys == {Key(10, "L0c", 0), Key(10, "L0c", 1), Key(2, "L0c", 0)}
\* MTE1 to Cube and Cube to MTE1 over the same memory.
MteKeys  == {Key(2, "L0a", 0), Key(3, "L0a", 0)}
AllKeys  == CubeKeys \cup MteKeys

Stages == [q \in 0..2 |-> IF q = 2 THEN 2 ELSE 1]

\* The counters, transfers, last tick and length of a program.
CubeMix == [keys |-> CubeKeys, transfers |-> {}, ticks |-> 3, length |-> 4]
MteMix  == [keys |-> MteKeys, transfers |-> {"L0a"}, ticks |-> 3, length |-> 3]

CONSTANT Mixes
VARIABLE mix

UsedKeys == {p.key : p \in pending \cup CubeFlags \cup mteFlags}

MixInit == Init /\ mix \in Mixes
MixNext ==
  /\ Next
  /\ UNCHANGED mix
  /\ target' <= mix.ticks
  /\ nextId' <= mix.length
  /\ UsedKeys' \subseteq mix.keys
  /\ mix.transfers = {} => commands' = <<>>
MixSpec == MixInit /\ [][MixNext]_<<vars, mix>>

\* Every call of advance_to runs to its end.
FairMixSpec == MixSpec /\ WF_vars(Notify) /\ WF_vars(AdvanceDone)

BothMixes == {CubeMix, MteMix}
=============================================================================
