---------------------------- MODULE MCScalarLsu ----------------------------
(* Programs over one UB line and two external lines for ScalarLsu: one run    *)
(* takes each mix of instructions as a program of its own.                    *)
EXTENDS ScalarLsu

U1 == <<"Ub", 1>>
E1 == <<"External", 1>>
E2 == <<"External", 2>>

Plain(kind, line, bytes) == [kind |-> kind, line |-> line, bytes |-> bytes, target |-> "Line"]
Sweep(line, target) == [kind |-> "clean", line |-> line, bytes |-> {}, target |-> target]
Uses(kinds, lines, bytes) == {Plain(k, l, bytes) : k \in kinds, l \in lines}

TwoBytes == {0, 1}
AllLines == {U1, E1, E2}

\* Loads and stores of a UB line beside an external load.
DataMix == Uses({"load", "store"}, {U1}, {0}) \cup Uses({"load"}, {E1}, {0})
\* More lines than ways: every third line evicts, a preloaded one too.
EvictMix == Uses({"store"}, {E1}, {0}) \cup Uses({"load"}, {E1, U1}, {0})
            \cup Uses({"preload"}, {E2}, {})
\* Cleans beside stores and a preload of a line they sweep.
CleanMix == Uses({"store"}, {E1, E2}, {0}) \cup Uses({"preload"}, {E1}, {})
            \cup {Sweep(E1, "Line"), Sweep(E2, "All")}
\* ST_DEV beside cached accesses of its line and of another.
DirectMix == Uses({"load", "store", "direct"}, {E1}, {0}) \cup Uses({"direct"}, {E2}, {0})
\* Full buffers, a timeout and a clean.
ProgressMix == Uses({"load"}, {E2}, {0}) \cup Uses({"store"}, {E1}, {0}) \cup {Sweep(E1, "Line")}
\* Stores that half fill or fill a UB line.
UbMix == Uses({"load", "store"}, {U1}, {0}) \cup Uses({"store"}, {U1}, {1})

AllOperations == UNION {DataMix, EvictMix, CleanMix, DirectMix, ProgressMix, UbMix}

CONSTANT Mixes
VARIABLE mix

MixInit == Init /\ mix \in Mixes
MixNext ==
  /\ Next
  /\ UNCHANGED mix
  /\ admitted' > admitted => Last(ops') \in mix
MixSpec == MixInit /\ [][MixNext]_<<vars, mix>>
FairMixSpec == MixSpec /\ Fairness

DataMixes     == {DataMix, EvictMix, CleanMix, DirectMix}
ProgressMixes == {ProgressMix, UbMix}
JustEvict     == {EvictMix}
=============================================================================
