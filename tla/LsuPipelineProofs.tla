------------------------- MODULE LsuPipelineProofs -------------------------
(***************************************************************************)
(* Proofs about LsuPipeline for every capacity and number of requests.     *)
(* Program order and the wakeup rule support each other with the bound     *)
(* issued <= admitted: a replay rewinds `issued' to the head of a stage,   *)
(* which program order places strictly before `issued', hence before       *)
(* `admitted', so the M0 evaluation the replay schedules has a request.    *)
(***************************************************************************)
EXTENDS LsuPipeline, TLAPS

\* Only admitted requests are issued.
IssuedAdmitted == issued <= admitted

IInv == PipeTypeOK /\ IssuedAdmitted /\ InFlightInOrder /\ NoLostWakeup

-----------------------------------------------------------------------------
(* Stage queues *)

LEMMA AppendFacts ==
  ASSUME NEW S, NEW q \in Seq(S), NEW e \in S
  PROVE  /\ Append(q, e) \in Seq(S)
         /\ Len(Append(q, e)) = Len(q) + 1
         /\ Len(q) \in Nat
         /\ \A i \in 1..Len(q) : Append(q, e)[i] = q[i]
         /\ Append(q, e)[Len(q) + 1] = e
  OBVIOUS

LEMMA HeadTailFacts ==
  ASSUME NEW S, NEW q \in Seq(S), q # <<>>
  PROVE  /\ Tail(q) \in Seq(S)
         /\ Len(q) \in Nat
         /\ Len(q) >= 1
         /\ Len(Tail(q)) = Len(q) - 1
         /\ Head(q) = q[1]
         /\ Head(q) \in S
         /\ \A i \in 1..Len(Tail(q)) : Tail(q)[i] = q[i + 1]
  OBVIOUS

\* A new tick makes every entry of a stage ready and leaves its request alone.
LEMMA ReadyFacts ==
  ASSUME NEW q \in Seq(StageEntry)
  PROVE  /\ Ready(q) \in Seq(StageEntry)
         /\ Len(Ready(q)) = Len(q)
         /\ \A i \in 1..Len(q) : Ready(q)[i].request = q[i].request
<1>1. DOMAIN q = 1..Len(q) /\ Len(q) \in Nat
  OBVIOUS
<1>2. \A i \in 1..Len(q) : q[i] \in StageEntry
  OBVIOUS
<1>3. \A i \in 1..Len(q) : /\ [q[i] EXCEPT !.ready = "now"] \in StageEntry
                           /\ [q[i] EXCEPT !.ready = "now"].request = q[i].request
  BY <1>2 DEF StageEntry
<1>4. Ready(q) \in [1..Len(q) -> StageEntry]
  BY <1>1, <1>3 DEF Ready
<1>5. Ready(q) \in Seq(StageEntry) /\ Len(Ready(q)) = Len(q)
  <2> HIDE DEF Ready, StageEntry
  <2> QED BY <1>1, <1>4
<1> QED
  BY <1>1, <1>3, <1>5 DEF Ready

LEMMA EntryType ==
  ASSUME NEW r \in Nat
  PROVE  /\ [request |-> r, ready |-> "next"] \in StageEntry
         /\ [request |-> r, ready |-> "next"].request = r
BY DEF StageEntry

-----------------------------------------------------------------------------
(* Facts about a state *)

\* The head of a data stage is an issued request, not yet consumed, and the
\* queue behind it is what program order says.
LEMMA HeadIssued ==
  ASSUME IInv
  PROVE  /\ m2 # <<>> => Head(m2).request = consumed /\ consumed < issued
         /\ m1 # <<>> => /\ Head(m1).request = consumed + Len(m2)
                         /\ consumed + Len(m2) < issued
<1> HIDE DEF StageEntry
<1>1. m1 \in Seq(StageEntry) /\ m2 \in Seq(StageEntry) /\ consumed \in Nat /\ issued \in Nat
  BY MaxRequestsAssumption DEF IInv, PipeTypeOK
<1>2. Len(m1) \in Nat /\ Len(m2) \in Nat
  BY <1>1
<1>3. ASSUME m2 # <<>>
      PROVE  Head(m2).request = consumed /\ consumed < issued
  <2>1. Len(m2) >= 1 /\ Head(m2) = m2[1]
    BY <1>1, <1>3, HeadTailFacts
  <2>2. m2[1].request = consumed + 1 - 1
    BY <1>2, <2>1 DEF IInv, InFlightInOrder
  <2>3. consumed < issued
    BY <1>1, <1>2, <2>1 DEF IInv, InFlightInOrder
  <2> QED
    BY <1>1, <2>1, <2>2, <2>3
<1>4. ASSUME m1 # <<>>
      PROVE  Head(m1).request = consumed + Len(m2) /\ consumed + Len(m2) < issued
  <2>1. Len(m1) >= 1 /\ Head(m1) = m1[1]
    BY <1>1, <1>4, HeadTailFacts
  <2>2. m1[1].request = consumed + Len(m2) + 1 - 1
    BY <1>2, <2>1 DEF IInv, InFlightInOrder
  <2>3. consumed + Len(m2) < issued
    BY <1>1, <1>2, <2>1 DEF IInv, InFlightInOrder
  <2> QED
    BY <1>1, <1>2, <2>1, <2>2, <2>3
<1> QED
  BY <1>3, <1>4

-----------------------------------------------------------------------------
(* The inductive invariant *)

LEMMA InitHolds == PipeInit => IInv
<1> SUFFICES ASSUME PipeInit PROVE IInv
  OBVIOUS
<1> HIDE DEF StageEntry
<1>1. m1 \in Seq(StageEntry) /\ m2 \in Seq(StageEntry) /\ Len(m1) = 0 /\ Len(m2) = 0
  BY DEF PipeInit
<1>2. PipeTypeOK
  <2>1. 0 \in 0..MaxRequests
    BY MaxRequestsAssumption
  <2> QED
    BY <1>1, <2>1 DEF PipeInit, PipeTypeOK
<1>3. IssuedAdmitted /\ InFlightInOrder /\ NoLostWakeup
  BY <1>1 DEF PipeInit, IssuedAdmitted, InFlightInOrder, NoLostWakeup
<1> QED
  BY <1>2, <1>3 DEF IInv

\* What the actions use of the invariant, with the queues' element type opaque.
LEMMA Facts ==
  ASSUME IInv
  PROVE  /\ MaxRequests \in Nat
         /\ admitted \in 0..MaxRequests /\ issued \in 0..MaxRequests /\ consumed \in 0..MaxRequests
         /\ m1 \in Seq(StageEntry) /\ m2 \in Seq(StageEntry)
         /\ Len(m1) \in Nat /\ Len(m2) \in Nat
         /\ issued = consumed + Len(m2) + Len(m1)
         /\ \A i \in 1..Len(m2) : m2[i].request = consumed + i - 1
         /\ \A i \in 1..Len(m1) : m1[i].request = consumed + Len(m2) + i - 1
<1> HIDE DEF StageEntry
<1>1. m1 \in Seq(StageEntry) /\ m2 \in Seq(StageEntry)
  BY DEF IInv, PipeTypeOK
<1>2. Len(m1) \in Nat /\ Len(m2) \in Nat
  BY <1>1
<1> QED
  BY <1>1, <1>2, MaxRequestsAssumption DEF IInv, PipeTypeOK, InFlightInOrder

LEMMA StepHolds == IInv /\ [PipeNext]_pipeVars => IInv'
<1> SUFFICES ASSUME IInv, [PipeNext]_pipeVars PROVE IInv'
  OBVIOUS
<1> HIDE DEF StageEntry
<1> USE Facts
<1> DEFINE Typed == PipeTypeOK'
           Bound == IssuedAdmitted'
           Order == InFlightInOrder'
           Wake == NoLostWakeup'
<1>1. ASSUME NEW count \in {1, 2}, AdmitRequests(count) PROVE IInv'
  <2>1. Order
    BY <1>1 DEF AdmitRequests, InFlightInOrder
  <2>2. Typed
    BY <1>1 DEF AdmitRequests, IInv, PipeTypeOK, ScheduleNext
  <2>3. Bound /\ Wake
    BY <1>1 DEF AdmitRequests, IInv, IssuedAdmitted, NoLostWakeup, ScheduleNext
  <2> QED
    BY <2>1, <2>2, <2>3 DEF IInv
<1>2. ASSUME NEW blocked \in BOOLEAN, HoldM0(blocked) PROVE IInv'
  <2>1. Order
    BY <1>2 DEF HoldM0, InFlightInOrder
  <2>2. Typed
    BY <1>2 DEF HoldM0, IInv, PipeTypeOK, Stages
  <2>3. Bound /\ Wake
    BY <1>2 DEF HoldM0, Evaluates, HeadReady, HasHead, IInv, IssuedAdmitted, NoLostWakeup
  <2> QED
    BY <2>1, <2>2, <2>3 DEF IInv
<1>3. CASE IssueM0
  <2> DEFINE e == [request |-> issued, ready |-> "next"]
  <2>1. issued < admitted
    BY <1>3 DEF IssueM0, Evaluates, HeadReady, HasHead
  <2>2. e \in StageEntry /\ e.request = issued
    BY EntryType
  <2>3. m1' = Append(m1, e)
    BY <1>3 DEF IssueM0
  <2> HIDE DEF e
  <2>4. /\ m1' \in Seq(StageEntry)
        /\ Len(m1') = Len(m1) + 1
        /\ \A i \in 1..Len(m1) : m1'[i] = m1[i]
        /\ m1'[Len(m1) + 1] = e
    BY <2>2, <2>3, AppendFacts
  <2>5. Order
    <3>1. \A i \in 1..Len(m1') : m1'[i].request = consumed + Len(m2) + i - 1
      <4> SUFFICES ASSUME NEW i \in 1..Len(m1')
                   PROVE  m1'[i].request = consumed + Len(m2) + i - 1
        OBVIOUS
      <4>1. CASE i \in 1..Len(m1)
        BY <2>4, <4>1
      <4>2. CASE i = Len(m1) + 1
        BY <2>2, <2>4, <4>2
      <4> QED
        BY <2>4, <4>1, <4>2
    <3> QED
      BY <1>3, <2>4, <3>1 DEF IssueM0, InFlightInOrder
  <2>6. Typed
    <3>1. issued' \in 0..MaxRequests
      BY <1>3, <2>1 DEF IssueM0
    <3> QED
      BY <1>3, <2>4, <3>1 DEF IssueM0, IInv, PipeTypeOK, Stages
  <2>7. Bound /\ Wake
    BY <1>3, <2>1 DEF IssueM0, IInv, IssuedAdmitted, NoLostWakeup
  <2> QED
    BY <2>5, <2>6, <2>7 DEF IInv
<1>4. CASE AdvanceM1
  <2>1. m1 # <<>>
    BY <1>4 DEF AdvanceM1, Evaluates, HeadReady, HasHead
  <2> DEFINE e == [request |-> Head(m1).request, ready |-> "next"]
  <2>2. Head(m1).request = consumed + Len(m2)
    BY <2>1, HeadIssued
  <2>3. e \in StageEntry /\ e.request = consumed + Len(m2)
    BY <2>2, EntryType
  <2>4. m2' = Append(m2, e) /\ m1' = Tail(m1)
    BY <1>4 DEF AdvanceM1
  <2> HIDE DEF e
  <2>5. /\ m2' \in Seq(StageEntry)
        /\ Len(m2') = Len(m2) + 1
        /\ \A i \in 1..Len(m2) : m2'[i] = m2[i]
        /\ m2'[Len(m2) + 1] = e
    BY <2>3, <2>4, AppendFacts
  <2>6. /\ m1' \in Seq(StageEntry)
        /\ Len(m1') = Len(m1) - 1
        /\ \A i \in 1..Len(m1') : m1'[i] = m1[i + 1]
    BY <2>1, <2>4, HeadTailFacts
  <2>7. Order
    <3>1. \A i \in 1..Len(m2') : m2'[i].request = consumed + i - 1
      <4> SUFFICES ASSUME NEW i \in 1..Len(m2') PROVE m2'[i].request = consumed + i - 1
        OBVIOUS
      <4>1. CASE i \in 1..Len(m2)
        BY <2>5, <4>1
      <4>2. CASE i = Len(m2) + 1
        BY <2>3, <2>5, <4>2
      <4> QED
        BY <2>5, <4>1, <4>2
    <3>2. \A i \in 1..Len(m1') : m1'[i].request = consumed + Len(m2') + i - 1
      <4> SUFFICES ASSUME NEW i \in 1..Len(m1')
                   PROVE  m1'[i].request = consumed + Len(m2') + i - 1
        OBVIOUS
      <4>0. i + 1 \in 1..Len(m1)
        BY <2>6, SMT
      <4>1. m1'[i] = m1[i + 1]
        BY <2>6
      <4>2. m1[i + 1].request = consumed + Len(m2) + (i + 1) - 1
        BY <4>0
      <4> QED
        BY <2>5, <4>1, <4>2
    <3> QED
      BY <1>4, <2>5, <2>6, <3>1, <3>2 DEF AdvanceM1, InFlightInOrder
  <2>8. Typed
    BY <1>4, <2>5, <2>6 DEF AdvanceM1, IInv, PipeTypeOK, Stages
  <2>9. Bound /\ Wake
    BY <1>4 DEF AdvanceM1, IInv, IssuedAdmitted, NoLostWakeup
  <2> QED
    BY <2>7, <2>8, <2>9 DEF IInv
<1>5. CASE AdvanceM2
  <2>1. m2 # <<>>
    BY <1>5 DEF AdvanceM2, Evaluates, HeadReady, HasHead
  <2>2. consumed < issued
    BY <2>1, HeadIssued
  <2>3. m2' = Tail(m2)
    BY <1>5 DEF AdvanceM2
  <2>4. /\ m2' \in Seq(StageEntry)
        /\ Len(m2') = Len(m2) - 1
        /\ Len(m2) >= 1
        /\ \A i \in 1..Len(m2') : m2'[i] = m2[i + 1]
    BY <2>1, <2>3, HeadTailFacts
  <2>5. Order
    <3>1. \A i \in 1..Len(m2') : m2'[i].request = consumed + 1 + i - 1
      <4> SUFFICES ASSUME NEW i \in 1..Len(m2') PROVE m2'[i].request = consumed + 1 + i - 1
        OBVIOUS
      <4>0. i + 1 \in 1..Len(m2)
        BY <2>4, SMT
      <4>1. m2'[i] = m2[i + 1]
        BY <2>4
      <4>2. m2[i + 1].request = consumed + (i + 1) - 1
        BY <4>0
      <4> QED
        BY <4>1, <4>2
    <3> QED
      <4>1. consumed' = consumed + 1 /\ issued' = issued /\ m1' = m1
        BY <1>5 DEF AdvanceM2
      <4>2. \A i \in 1..Len(m1) : m1[i].request = consumed + 1 + (Len(m2) - 1) + i - 1
        OBVIOUS
      <4>3. \A i \in 1..Len(m1) : m1[i].request = consumed' + Len(m2') + i - 1
        BY <2>4, <4>1, <4>2
      <4>4. issued' = consumed' + Len(m2') + Len(m1')
        BY <2>4, <4>1
      <4> QED
        BY <3>1, <4>1, <4>3, <4>4 DEF InFlightInOrder
  <2>6. Typed
    BY <1>5, <2>2, <2>4 DEF AdvanceM2, IInv, PipeTypeOK, Stages
  <2>7. Bound /\ Wake
    BY <1>5 DEF AdvanceM2, IInv, IssuedAdmitted, NoLostWakeup
  <2> QED
    BY <2>5, <2>6, <2>7 DEF IInv
<1>6. ASSUME NEW stage \in {"M1", "M2"}, Replay(stage) PROVE IInv'
  <2>1. /\ stage = "M1" => m1 # <<>>
        /\ stage = "M2" => m2 # <<>>
    BY <1>6 DEF Replay, Evaluates, HeadReady, HasHead
  <2>2. /\ issued' = IF stage = "M2" THEN consumed ELSE consumed + Len(m2)
        /\ issued' < issued
    BY <1>6, <2>1, HeadIssued DEF Replay, HeadRequest
  <2>3. /\ m1' = <<>>
        /\ m2' = IF stage = "M2" THEN <<>> ELSE m2
        /\ consumed' = consumed
        /\ admitted' = admitted
    BY <1>6 DEF Replay
  <2>4. m1' \in Seq(StageEntry) /\ m2' \in Seq(StageEntry) /\ Len(m1') = 0
    BY <2>3
  <2>5. Order
    BY <2>2, <2>3, <2>4 DEF InFlightInOrder
  <2>6. Typed
    BY <1>6, <2>2, <2>4 DEF Replay, IInv, PipeTypeOK, Stages, ScheduleNext
  <2>7. Bound /\ Wake
    BY <1>6, <2>2 DEF Replay, IInv, IssuedAdmitted, NoLostWakeup, ScheduleNext
  <2> QED
    BY <2>5, <2>6, <2>7 DEF IInv
<1>7. CASE PipeTick
  <2>1. m1' = Ready(m1) /\ m2' = Ready(m2)
    BY <1>7 DEF PipeTick
  <2>2. /\ m1' \in Seq(StageEntry) /\ m2' \in Seq(StageEntry)
        /\ Len(m1') = Len(m1) /\ Len(m2') = Len(m2)
        /\ \A i \in 1..Len(m1) : m1'[i].request = m1[i].request
        /\ \A i \in 1..Len(m2) : m2'[i].request = m2[i].request
    BY <2>1, ReadyFacts
  <2>3. Order
    BY <1>7, <2>2 DEF PipeTick, InFlightInOrder
  <2>4. Typed
    BY <1>7, <2>2 DEF PipeTick, IInv, PipeTypeOK
  <2>5. Bound /\ Wake
    BY <1>7 DEF PipeTick, IInv, IssuedAdmitted, NoLostWakeup
  <2> QED
    BY <2>3, <2>4, <2>5 DEF IInv
<1>8. CASE UNCHANGED pipeVars
  BY <1>8 DEF pipeVars, IInv, PipeTypeOK, IssuedAdmitted, InFlightInOrder, NoLostWakeup
<1> QED
  BY <1>1, <1>2, <1>3, <1>4, <1>5, <1>6, <1>7, <1>8 DEF PipeNext

-----------------------------------------------------------------------------
(* Results *)

\* The invariant holds in every reachable state of the request pipeline.
THEOREM Invariance == PipeSpec => []IInv
<1>1. PipeInit => IInv
  BY InitHolds
<1>2. IInv /\ [PipeNext]_pipeVars => IInv'
  BY StepHolds
<1> QED
  BY <1>1, <1>2, PTL DEF PipeSpec

\* The counters and queues of the request pipeline keep their types: `issued'
\* and `consumed' never leave the requests that exist.
THEOREM TypeCorrect == PipeSpec => []PipeTypeOK
<1>1. IInv => PipeTypeOK
  BY DEF IInv
<1> QED
  BY <1>1, Invariance, PTL

\* Whatever advance_data_stage replays, M2 and M1 hold the issued, unconsumed
\* requests in program order.
THEOREM ReplayKeepsProgramOrder == PipeSpec => []InFlightInOrder
<1>1. IInv => InFlightInOrder
  BY DEF IInv
<1> QED
  BY <1>1, Invariance, PTL

\* M0 is scheduled exactly while an admitted request is not issued, and blocked
\* admission always has an evaluation to come.
THEOREM WakeupNeverLost == PipeSpec => []NoLostWakeup
<1>1. IInv => NoLostWakeup
  BY DEF IInv
<1> QED
  BY <1>1, Invariance, PTL
=============================================================================
