---------------------------- MODULE LsuPipeline ----------------------------
(***************************************************************************)
(* The request pipeline of the scalar load/store unit: tag lookup (M0) and *)
(* the two data-cache stages (M1, M2), with replay.                        *)
(*                                                                         *)
(* Requests are numbered in admission order and live in three counters:    *)
(* consumed <= issued <= admitted.  M0 issues request number `issued'.  A  *)
(* hazard in M1 or M2 empties the stages behind it and rewinds `issued' to *)
(* the blocked request.  The hazards are the caller's: here a stage may be *)
(* blocked at any evaluation.                                              *)
(*                                                                         *)
(* A ready tick is at most one tick ahead, so it is kept relative to the   *)
(* current tick: "now" or "next", and a stage is evaluated at most once    *)
(* between two Ticks (last_evaluation).  The order of the stages within a  *)
(* tick is the caller's and is left open.                                  *)
(***************************************************************************)
EXTENDS Integers, Sequences

CONSTANTS
  Capacity,     \* capacity: bound that admission puts on issued requests
  MaxRequests   \* bound on the request sequence

ASSUME CapacityAssumption == Capacity \in Nat /\ Capacity >= 2
ASSUME MaxRequestsAssumption == MaxRequests \in Nat

VARIABLES
  admitted,          \* next request id
  issued,            \* next request for M0
  consumed,          \* requests that left M2
  admissionBlocked,  \* admission_blocked
  m0Ready,           \* m0_ready: "none", "now" or "next"
  m1, m2,            \* stage queues
  evaluated          \* stages with last_evaluation = tick

pipeVars == <<admitted, issued, consumed, admissionBlocked, m0Ready, m1, m2, evaluated>>

Stages == {"M0", "M1", "M2"}
StageEntry == [request : Nat, ready : {"now", "next"}]

PipeTypeOK ==
  /\ admitted \in 0..MaxRequests
  /\ issued \in 0..MaxRequests
  /\ consumed \in 0..MaxRequests
  /\ admissionBlocked \in BOOLEAN
  /\ m0Ready \in {"none", "now", "next"}
  /\ m1 \in Seq(StageEntry)
  /\ m2 \in Seq(StageEntry)
  /\ evaluated \subseteq Stages

PipeInit ==
  /\ admitted = 0
  /\ issued = 0
  /\ consumed = 0
  /\ admissionBlocked = FALSE
  /\ m0Ready = "none"
  /\ m1 = <<>>
  /\ m2 = <<>>
  /\ evaluated = {}

ScheduleNext(ready) == IF ready = "now" THEN "now" ELSE "next"

-----------------------------------------------------------------------------
(* Admission *)

\* A split pair reserves two places.
AdmissionBlock(count) ==
  \/ issued - consumed >= Capacity - (IF count = 2 THEN 2 ELSE 0)
  \/ admissionBlocked

\* One request, or both halves of a split pair.
AdmitRequests(count) ==
  /\ admitted + count <= MaxRequests
  /\ ~AdmissionBlock(count)
  /\ admitted' = admitted + count
  /\ m0Ready' = ScheduleNext(m0Ready)
  /\ UNCHANGED <<issued, consumed, admissionBlocked, m1, m2, evaluated>>

-----------------------------------------------------------------------------
(* Stages *)

HasHead(stage) ==
  CASE stage = "M0" -> m0Ready # "none" /\ issued < admitted
    [] stage = "M1" -> m1 # <<>>
    [] stage = "M2" -> m2 # <<>>

HeadReady(stage) ==
  /\ HasHead(stage)
  /\ stage = "M0" => m0Ready = "now"
  /\ stage = "M1" => Head(m1).ready = "now"
  /\ stage = "M2" => Head(m2).ready = "now"

HeadRequest(stage) ==
  CASE stage = "M0" -> issued
    [] stage = "M1" -> Head(m1).request
    [] stage = "M2" -> Head(m2).request

Evaluates(stage) == stage \notin evaluated /\ HeadReady(stage)

\* A hazard closes admission; a drain only holds the request.
HoldM0(blocked) ==
  /\ Evaluates("M0")
  /\ admissionBlocked' = blocked
  /\ m0Ready' = "next"
  /\ evaluated' = evaluated \cup {"M0"}
  /\ UNCHANGED <<admitted, issued, consumed, m1, m2>>

IssueM0 ==
  /\ Evaluates("M0")
  /\ admissionBlocked' = FALSE
  /\ m1' = Append(m1, [request |-> issued, ready |-> "next"])
  /\ issued' = issued + 1
  /\ m0Ready' = IF issued + 1 < admitted THEN "next" ELSE "none"
  /\ evaluated' = evaluated \cup {"M0"}
  /\ UNCHANGED <<admitted, consumed, m2>>

AdvanceM1 ==
  /\ Evaluates("M1")
  /\ m1' = Tail(m1)
  /\ m2' = Append(m2, [request |-> Head(m1).request, ready |-> "next"])
  /\ evaluated' = evaluated \cup {"M1"}
  /\ UNCHANGED <<admitted, issued, consumed, admissionBlocked, m0Ready>>

AdvanceM2 ==
  /\ Evaluates("M2")
  /\ m2' = Tail(m2)
  /\ consumed' = consumed + 1
  /\ evaluated' = evaluated \cup {"M2"}
  /\ UNCHANGED <<admitted, issued, admissionBlocked, m0Ready, m1>>

\* Faulty variant: an M2 replay that leaves the younger request in M1.
ReplayKeepsM1(stage) ==
  /\ stage \in {"M1", "M2"}
  /\ Evaluates(stage)
  /\ m1' = IF stage = "M2" THEN m1 ELSE <<>>
  /\ m2' = IF stage = "M2" THEN <<>> ELSE m2
  /\ issued' = HeadRequest(stage)
  /\ m0Ready' = ScheduleNext(m0Ready)
  /\ evaluated' = evaluated \cup {stage}
  /\ UNCHANGED <<admitted, consumed, admissionBlocked>>

\* Faulty variant: a replay that does not schedule M0 again.
ReplayWithoutWakeup(stage) ==
  /\ stage \in {"M1", "M2"}
  /\ Evaluates(stage)
  /\ m1' = <<>>
  /\ m2' = IF stage = "M2" THEN <<>> ELSE m2
  /\ issued' = HeadRequest(stage)
  /\ evaluated' = evaluated \cup {stage}
  /\ UNCHANGED <<admitted, consumed, admissionBlocked, m0Ready>>

\* A blocked data stage: requests from the blocked one on are issued again.
Replay(stage) ==
  /\ stage \in {"M1", "M2"}
  /\ Evaluates(stage)
  /\ m1' = <<>>
  /\ m2' = IF stage = "M2" THEN <<>> ELSE m2
  /\ issued' = HeadRequest(stage)
  /\ m0Ready' = ScheduleNext(m0Ready)
  /\ evaluated' = evaluated \cup {stage}
  /\ UNCHANGED <<admitted, consumed, admissionBlocked>>

Ready(queue) == [i \in DOMAIN queue |-> [queue[i] EXCEPT !.ready = "now"]]

PipeTick ==
  /\ m0Ready' = IF m0Ready = "next" THEN "now" ELSE m0Ready
  /\ m1' = Ready(m1)
  /\ m2' = Ready(m2)
  /\ evaluated' = {}
  /\ UNCHANGED <<admitted, issued, consumed, admissionBlocked>>

PipeNext ==
  \/ \E count \in {1, 2} : AdmitRequests(count)
  \/ \E blocked \in BOOLEAN : HoldM0(blocked)
  \/ IssueM0
  \/ AdvanceM1
  \/ AdvanceM2
  \/ \E stage \in {"M1", "M2"} : Replay(stage)
  \/ PipeTick

PipeSpec == PipeInit /\ [][PipeNext]_pipeVars
-----------------------------------------------------------------------------
(* Properties *)

\* M2 and M1 together hold exactly the issued, unconsumed requests in program
\* order: a replay neither loses, duplicates nor reorders a request.  The code
\* asserts one consequence, that the request leaving M2 is number `consumed'.
InFlightInOrder ==
  /\ issued = consumed + Len(m2) + Len(m1)
  /\ \A i \in 1..Len(m2) : m2[i].request = consumed + i - 1
  /\ \A i \in 1..Len(m1) : m1[i].request = consumed + Len(m2) + i - 1

\* M0 is scheduled exactly while an admitted request has to be issued, so no
\* request is forgotten, whatever replay rewound it; and admission is closed
\* only while a scheduled M0 evaluation can open it again.
NoLostWakeup ==
  /\ issued < admitted <=> m0Ready # "none"
  /\ admissionBlocked => m0Ready # "none"
=============================================================================
