-------------------------- MODULE MCPipeFrontends --------------------------
(* Small instances of PipeFrontends: one run takes each mix of instructions  *)
(* as a program of its own.                                                  *)
EXTENDS PipeFrontends

Plain(p, k)   == [pipe |-> p, kind |-> k, route |-> <<0, 0>>, flag |-> 0]
SetTo(p, q)   == [pipe |-> p, kind |-> "set", route |-> <<p, q>>, flag |-> 0]
WaitFor(p, q) == [pipe |-> q, kind |-> "wait", route |-> <<p, q>>, flag |-> 0]
Other(w)      == [w EXCEPT !.flag = 1]

\* MTE1 and MTE2: SPR writes that enter both queues, then flags of two ids
\* with cross-core commands and SPR reads.
SprWords == {Plain(3, "command"), Plain(3, "spr"), Plain(3, "barrier"), SetTo(3, 4),
             WaitFor(3, 4), Plain(4, "command"), Plain(4, "barrier")}
MteWords == {Plain(3, "command"), Plain(3, "read_spr"), SetTo(3, 4), Other(SetTo(3, 4)),
             Plain(4, "command"), Plain(4, "cross"), Plain(3, "barrier")}

\* FIX and Vector, with the scalar unit's flags and BAR.ALL.
FixWords == {Plain(10, "command"), Plain(10, "barrier"), SetTo(10, 1), WaitFor(10, 1),
             Plain(1, "command"), Plain(1, "cross"), SetTo(1, 0), WaitFor(1, 0),
             SetTo(0, 10), WaitFor(0, 10), Plain(0, "barrier_all")}

\* Cube alone, every instruction it receives.
CubeWords == {Plain(2, "command"), Plain(2, "empty"), Plain(2, "hflag"), Plain(2, "spr"),
              Plain(2, "cross"), SetTo(2, 0), WaitFor(2, 0), Plain(2, "barrier")}

\* MTE3 and Vector up to the end of the program.
DrainWords == {Plain(5, "command"), Plain(5, "cross"), Plain(5, "barrier"), SetTo(5, 1),
               WaitFor(5, 1), Plain(1, "command"), Plain(1, "barrier"), Plain(0, "end")}

AllPipes == {1, 2, 3, 4, 5, 10}
AllWords == SprWords \cup MteWords \cup FixWords \cup CubeWords \cup DrainWords

Issues   == [p \in AllPipes |-> IF p = 2 THEN 3 ELSE 2]
Receives == [p \in AllPipes |-> IF p = 2 THEN 1 ELSE 2]
Limits   == [p \in AllPipes |-> IF p = 5 THEN 2 ELSE 3]

\* The instructions and the length of a program.
SprMix   == [words |-> SprWords, length |-> 5]
MteMix   == [words |-> MteWords, length |-> 5]
FixMix   == [words |-> FixWords, length |-> 5]
CubeMix  == [words |-> CubeWords, length |-> 5]
DrainMix == [words |-> DrainWords, length |-> 5]

CONSTANT Mixes
VARIABLE mix

MixInit == Init /\ mix \in Mixes
MixNext ==
  /\ \/ \E w \in mix.words : DispatchWord(w)
     \/ MteStep \/ FixpStep \/ VectorStep \/ CubeStep
     \/ AdvanceTermination
  /\ nextId' <= mix.length
  /\ UNCHANGED mix
MixSpec == MixInit /\ [][MixNext]_<<vars, mix>>
FairMixSpec == MixSpec /\ Fairness

OrderMixes == {SprMix, MteMix, FixMix, CubeMix}
JustCube   == {CubeMix}
JustDrain  == {DrainMix}
=============================================================================
