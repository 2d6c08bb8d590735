----------------------------- MODULE L1Service -----------------------------
(***************************************************************************)
(* What a client of the shared L1 memory may rely on: on each port, every  *)
(* request that was taken is answered once, and in the order of the        *)
(* requests.  Between ports nothing is promised.                           *)
(***************************************************************************)
EXTENDS Sequences

CONSTANTS
  Port,      \* the ports of the memory
  Requests   \* per port: the requests its client may send

VARIABLE outstanding   \* per port: requests taken and not yet answered

Init == outstanding = [p \in Port |-> <<>>]

\* The memory takes a request.
Take(p, r) == outstanding' = [outstanding EXCEPT ![p] = Append(@, r)]

\* The client receives the answer to its oldest request.
Answer(p) ==
  /\ outstanding[p] # <<>>
  /\ outstanding' = [outstanding EXCEPT ![p] = Tail(@)]

Next == \E p \in Port : Answer(p) \/ \E r \in Requests[p] : Take(p, r)

Spec == Init /\ [][Next]_outstanding
=============================================================================
