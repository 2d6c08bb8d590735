--------------------------- MODULE CommandService --------------------------
(***************************************************************************)
(* What the program order of a pipe may rely on: the engine accepts        *)
(* commands one after the other, finishes each one once and in any order,  *)
(* and retires them in the order in which it accepted them.                *)
(***************************************************************************)
EXTENDS Naturals

VARIABLES
  accepted,   \* number of commands accepted; command i is the i-th of them
  finished,   \* the commands whose work is done
  retired     \* the commands that have left the engine

vars == <<accepted, finished, retired>>

Init == accepted = 0 /\ finished = {} /\ retired = {}

\* A command without work is finished when it is accepted.
Accept ==
  /\ accepted' = accepted + 1
  /\ finished' \in {finished, finished \cup {accepted + 1}}
  /\ UNCHANGED retired

Finish(i) ==
  /\ i \in 1..accepted
  /\ finished' = finished \cup {i}
  /\ UNCHANGED <<accepted, retired>>

Retire(i) ==
  /\ i \in finished \ retired
  /\ \A j \in 1..(i - 1) : j \in retired
  /\ retired' = retired \cup {i}
  /\ UNCHANGED <<accepted, finished>>

Next ==
  \/ Accept
  \/ \E i \in 1..accepted : Finish(i) \/ Retire(i)

Spec == Init /\ [][Next]_vars
=============================================================================
