------------------------ MODULE HardwareFlagsProofs ------------------------
(***************************************************************************)
(* Theorems of HardwareFlags, for every set of counters, every limit and   *)
(* every bound: its state is well typed (so no counter leaves              *)
(* 0..Capacity), no admitted set is ever stranded, no set is in two places *)
(* and no token of any flag is lost or made up; a step admits the sets of  *)
(* a Cube queue from its front only and retires no transfer before its     *)
(* flags.                                                                  *)
(*                                                                         *)
(* None is inductive.  A counter's range after a scan needs the pending    *)
(* list to be finite, hence the queues that feed it; a kept timestamp      *)
(* never lies past the notification armed with it only because captured    *)
(* timestamps lie in the past, which in turn needs the clock to be         *)
(* monotonic while advance_to runs.  The tokens of a key are conserved     *)
(* because an admission adds as many entries as it counts, and that holds  *)
(* because every id is in one of the queues, transfers or pending sets.    *)
(***************************************************************************)
EXTENDS HardwareFlags, FiniteSetTheorems, TLAPS

\* The lists the table is fed from are finite.
FiniteOK ==
  /\ IsFiniteSet(pending)
  /\ \A q \in 0..2 : IsFiniteSet(cubeSets[q])
  /\ IsFiniteSet(mteFlags)
  /\ \A i \in DOMAIN commands : IsFiniteSet(commands[i].sets)

\* A captured timestamp is never in the future.
CapturedInPast ==
  /\ advancing => now <= target
  /\ \A f \in mteFlags : f.timestamp <= now
  /\ \A i \in DOMAIN commands : \A f \in commands[i].sets : f.timestamp <= now

Inv == TypeOK /\ FiniteOK /\ CapturedInPast /\ NoStrandedSet

PendingType == [id : Nat, key : Keys, admitted : Nat, timestamp : Nat]

\* Images under a function of finite sets are finite.
LEMMA FiniteImage ==
  ASSUME NEW S, IsFiniteSet(S), NEW f
  PROVE  IsFiniteSet({f[x] : x \in S})
<1> DEFINE T == {f[x] : x \in S}
           g == [x \in S |-> f[x]]
<1>1. g \in Surjection(S, T)
  BY DEF Surjection
<1> QED
  BY <1>1, FS_Surjection

\* A checkpoint is added to one of the four queues.
LEMMA CheckpointAppend ==
  ASSUME NEW cp \in [0..3 -> Seq(Point)], NEW q \in 0..3, NEW t \in Nat, NEW i \in Nat
  PROVE  [cp EXCEPT ![q] = Append(@, [tick |-> t, id |-> i])] \in [0..3 -> Seq(Point)]
<1> DEFINE x == [tick |-> t, id |-> i]
<1>1. x \in Point
  BY DEF Point
<1> HIDE DEF x
<1>2. Append(cp[q], x) \in Seq(Point)
  BY <1>1
<1>3. [cp EXCEPT ![q] = Append(@, x)] \in [0..3 -> Seq(Point)]
  BY <1>2, Zenon
<1> QED
  BY <1>3 DEF x

\* Parts and updates of a non-empty sequence.
LEMMA SeqParts ==
  ASSUME NEW T, NEW s \in Seq(T), s # <<>>
  PROVE  /\ Head(s) \in T /\ s[1] \in T /\ Tail(s) \in Seq(T)
         /\ \A x \in T, i \in DOMAIN s : [s EXCEPT ![i] = x] \in Seq(T)
  OBVIOUS

\* Nothing is invented by admitting: the new entries are well typed, finite
\* in number and each is covered by the notification armed for it.
LEMMA AdmitEntries ==
  ASSUME NEW S, IsFiniteSet(S), NEW t \in Nat,
         \A e \in S : e.id \in Nat /\ e.key \in Keys /\ e.timestamp \in Nat /\ e.timestamp <= t
  PROVE  LET new == {PendingEntry(e, t) : e \in S}
             ticks == {NotificationTick(e, t) : e \in S}
         IN /\ new \subseteq PendingType
            /\ ticks \subseteq Nat
            /\ IsFiniteSet(new)
            /\ \A p \in new : \E n \in ticks : n >= p.admitted /\ n >= p.timestamp
<1> DEFINE new == {PendingEntry(e, t) : e \in S}
           ticks == {NotificationTick(e, t) : e \in S}
           f == [e \in S |-> PendingEntry(e, t)]
<1>1. \A e \in S : NotificationTick(e, t) \in Nat /\ NotificationTick(e, t) >= t + 1
  BY DEF NotificationTick, VisibilityTicks
<1>2. \A e \in S : PendingEntry(e, t) \in PendingType
  BY <1>1 DEF PendingEntry, PendingType
<1>3. IsFiniteSet({f[e] : e \in S})
  BY FiniteImage
<1>4. {f[e] : e \in S} = new
  OBVIOUS
<1>5. \A e \in S : /\ NotificationTick(e, t) >= PendingEntry(e, t).admitted
                   /\ NotificationTick(e, t) >= PendingEntry(e, t).timestamp
  BY <1>1 DEF PendingEntry
<1> QED
  BY <1>1, <1>2, <1>3, <1>4, <1>5

LEMMA ScheduleKeeps ==
  ASSUME Inv, NEW S, IsFiniteSet(S), Schedule(S, now),
         \A e \in S : e.id \in Nat /\ e.key \in Keys /\ e.timestamp \in Nat /\ e.timestamp <= now
  PROVE  /\ pending' \subseteq PendingType
         /\ notifications' \subseteq Nat
         /\ IsFiniteSet(pending')
         /\ NoStrandedSet'
<1> DEFINE new == {PendingEntry(e, now) : e \in S}
           ticks == {NotificationTick(e, now) : e \in S}
<1>1. /\ new \subseteq PendingType
      /\ ticks \subseteq Nat
      /\ IsFiniteSet(new)
      /\ \A p \in new : \E n \in ticks : n >= p.admitted /\ n >= p.timestamp
  BY AdmitEntries DEF Inv, TypeOK
<1>2. pending' = pending \cup new /\ notifications' = notifications \cup ticks
  BY DEF Schedule
<1> HIDE DEF new, ticks
<1>3. IsFiniteSet(pending')
  BY <1>1, <1>2, FS_Union DEF Inv, FiniteOK
<1>4. NoStrandedSet'
  BY <1>1, <1>2 DEF Inv, NoStrandedSet
<1> QED
  BY <1>1, <1>2, <1>3, <1>4 DEF Inv, TypeOK, PendingType

LEMMA ConsumeKeeps ==
  ASSUME TypeOK, NEW K, K \subseteq Keys, \A k \in K : counters[k] > 0, Consume(K)
  PROVE  counters' \in [Keys -> 0..Capacity]
  BY LimitAssumption DEF TypeOK, Consume

LEMMA InitInv == Init => Inv
<1> SUFFICES ASSUME Init PROVE Inv
  OBVIOUS
<1>1. TypeOK
  <2>1. counters \in [Keys -> 0..Capacity]
    BY LimitAssumption DEF Init
  <2>2. <<>> \in Seq(Nat) /\ <<>> \in Seq(Command) /\ <<>> \in Seq(Point)
    OBVIOUS
  <2> HIDE DEF Command, Point
  <2> QED
    BY <2>1, <2>2 DEF Init, TypeOK
<1>2. FiniteOK
  BY FS_EmptySet DEF Init, FiniteOK
<1>3. CapturedInPast /\ NoStrandedSet
  BY DEF Init, CapturedInPast, NoStrandedSet
<1> QED
  BY <1>1, <1>2, <1>3 DEF Inv

\* One turn of advance_to: delivered sets leave the pending list together
\* with the notification that covered them.
LEMMA NotifyKeeps ==
  ASSUME Inv, Notify
  PROVE  Inv'
<1>1. PICK t \in WakeTicks : 
        LET c  == VisibleAfter(t)
            r(q) == CheckpointRelease(q, cubeSets[q], t, c)
            left == cubeSets[2] \ r(2)
            r3   == CheckpointRelease(3, left, t, c)
            all  == r(0) \cup r(1) \cup r(2) \cup r3
        IN /\ counters' = c
           /\ pending' = LeftAfter(t) \cup {PendingEntry(Untimed(s), t) : s \in all}
           /\ notifications' = (notifications \ {t})
                                 \cup {NotificationTick(Untimed(s), t) : s \in all}
           /\ cubeSets' = [q \in 0..2 |-> IF q = 2 THEN left \ r3 ELSE cubeSets[q] \ r(q)]
           /\ checkpoints' = [q \in 0..3 |->
                                Rearmed(q, IF q = 3 THEN left ELSE cubeSets[q], t, c)]
  BY DEF Notify
<1> DEFINE c  == VisibleAfter(t)
           r(q) == CheckpointRelease(q, cubeSets[q], t, c)
           left == cubeSets[2] \ r(2)
           r3   == CheckpointRelease(3, left, t, c)
           all  == r(0) \cup r(1) \cup r(2) \cup r3
           S    == {Untimed(s) : s \in all}
           new  == {PendingEntry(e, t) : e \in S}
           ticks == {NotificationTick(e, t) : e \in S}
<1>u. /\ UNCHANGED <<now, target, advancing, cubeWaits, flights, head, mteFlags, commands,
                      attempted, nextId>>
  BY DEF Notify, timeVars, mteVars
<1>2. t \in Nat
  <2>1. \A q \in 0..3 : checkpoints[q] # <<>> => Head(checkpoints[q]).tick \in Nat
    <3> SUFFICES ASSUME NEW q \in 0..3, checkpoints[q] # <<>>
                 PROVE  Head(checkpoints[q]).tick \in Nat
      OBVIOUS
    <3>1. checkpoints[q] \in Seq(Point)
      BY DEF Inv, TypeOK
    <3>2. Head(checkpoints[q]) \in Point
      BY <3>1, SeqParts
    <3> QED
      BY <3>2 DEF Point
  <2>2. HeadTicks \subseteq Nat
    BY <2>1 DEF HeadTicks
  <2> QED
    BY <2>2 DEF WakeTicks, Inv, TypeOK
<1>3. \A q \in 0..2 : r(q) \subseteq cubeSets[q]
  BY DEF CheckpointRelease, Released
<1>4. r3 \subseteq cubeSets[2]
  BY DEF CheckpointRelease, Released
<1> HIDE DEF r, r3
<1>5. all \subseteq Flag /\ IsFiniteSet(all)
  <2>1. all \subseteq cubeSets[0] \cup cubeSets[1] \cup cubeSets[2]
    BY <1>3, <1>4
  <2>2. IsFiniteSet(cubeSets[0] \cup cubeSets[1] \cup cubeSets[2])
    <3>1. IsFiniteSet(cubeSets[0]) /\ IsFiniteSet(cubeSets[1]) /\ IsFiniteSet(cubeSets[2])
      BY DEF Inv, FiniteOK
    <3>2. IsFiniteSet(cubeSets[0] \cup cubeSets[1])
      BY <3>1, FS_Union
    <3> QED
      BY <3>1, <3>2, FS_Union
  <2>3. IsFiniteSet(all)
    BY <2>1, <2>2, FS_Subset
  <2>4. cubeSets[0] \cup cubeSets[1] \cup cubeSets[2] \subseteq Flag
    BY DEF Inv, TypeOK
  <2> QED
    BY <2>1, <2>3, <2>4
<1>6. /\ IsFiniteSet(S)
      /\ \A e \in S : e.id \in Nat /\ e.key \in Keys /\ e.timestamp \in Nat /\ e.timestamp <= t
  <2> DEFINE f == [s \in all |-> Untimed(s)]
  <2> HIDE DEF all
  <2>1. IsFiniteSet({f[s] : s \in all})
    BY <1>5, FiniteImage
  <2>2. {f[s] : s \in all} = S
    OBVIOUS
  <2>3. \A s \in all : /\ Untimed(s).id \in Nat /\ Untimed(s).key \in Keys
                        /\ Untimed(s).timestamp = 0
    BY <1>5 DEF Untimed, Flag
  <2> QED
    BY <1>2, <2>1, <2>2, <2>3
<1>7. /\ pending' = LeftAfter(t) \cup new
      /\ notifications' = (notifications \ {t}) \cup ticks
  BY <1>1 DEF r, r3
<1> HIDE DEF all, S
<1>8. /\ new \subseteq PendingType
      /\ ticks \subseteq Nat
      /\ IsFiniteSet(new)
      /\ \A p \in new : \E n \in ticks : n >= p.admitted /\ n >= p.timestamp
  BY <1>2, <1>6, AdmitEntries
<1> HIDE DEF new, ticks
<1>9. LeftAfter(t) \subseteq pending
  BY DEF LeftAfter
<1>10. IsFiniteSet(pending')
  <2>1. IsFiniteSet(LeftAfter(t))
    BY <1>9, FS_Subset DEF Inv, FiniteOK
  <2> QED
    BY <1>7, <1>8, <2>1, FS_Union
<1>11. NoStrandedSet'
  <2>1. ASSUME NEW p \in LeftAfter(t)
        PROVE  \E n \in notifications \ {t} : n >= p.admitted /\ n >= p.timestamp
    <3>1. PICK n \in notifications : n >= p.admitted /\ n >= p.timestamp
      BY <1>9, <2>1 DEF Inv, NoStrandedSet
    <3>2. CASE t \in notifications
      <4>1. p \notin Due(t)
        BY <2>1, <3>2 DEF LeftAfter
      <4>2. p \in pending
        BY <1>9, <2>1
      <4> QED
        BY <3>1, <4>1, <4>2 DEF Due
    <3>3. CASE t \notin notifications
      BY <3>1, <3>3
    <3> QED
      BY <3>2, <3>3
  <2> QED
    BY <1>7, <1>8, <2>1 DEF NoStrandedSet
<1>12. c \in [Keys -> 0..Capacity]
  <2>1. \A k \in Keys : DueCount(t, k) \in Nat
    <3> SUFFICES ASSUME NEW k \in Keys PROVE DueCount(t, k) \in Nat
      OBVIOUS
    <3>1. Of(Due(t), k) \subseteq pending
      BY DEF Due, Of
    <3>2. IsFiniteSet(Of(Due(t), k))
      BY <3>1, FS_Subset DEF Inv, FiniteOK
    <3> QED
      BY <3>2, FS_CardinalityType DEF DueCount
  <2>2. \A k \in Keys : Delivered(t, k) \in 0..Capacity
    BY <2>1, LimitAssumption DEF Delivered, Inv, TypeOK
  <2> QED
    BY <2>2 DEF VisibleAfter, Inv, TypeOK
<1>13. cubeSets' \in [0..2 -> SUBSET Flag] /\ \A q \in 0..2 : IsFiniteSet(cubeSets'[q])
  <2>1. cubeSets' = [q \in 0..2 |-> IF q = 2 THEN left \ r3 ELSE cubeSets[q] \ r(q)]
    BY <1>1 DEF r, r3
  <2>2. \A q \in 0..2 : cubeSets'[q] \subseteq cubeSets[q]
    BY <2>1
  <2>3. \A q \in 0..2 : IsFiniteSet(cubeSets'[q])
    BY <2>2, FS_Subset DEF Inv, FiniteOK
  <2> QED
    BY <2>1, <2>2, <2>3 DEF Inv, TypeOK
<1>14. checkpoints' \in [0..3 -> Seq(Point)]
  <2>1. ASSUME NEW q \in 0..3, NEW Q
        PROVE  Rearmed(q, Q, t, c) \in Seq(Point)
    <3> DEFINE s == checkpoints[q]
    <3>1. s \in Seq(Point)
      BY DEF Inv, TypeOK
    <3>2. CASE ~DueHead(q, t)
      BY <3>1, <3>2 DEF Rearmed
    <3>3. CASE DueHead(q, t)
      <4> DEFINE rest == IF AllReleased(Q, Head(checkpoints[q]).id, c)
                         THEN Tail(checkpoints[q]) ELSE checkpoints[q]
      <4>0. s # <<>>
        BY <3>3 DEF DueHead
      <4>1. rest \in Seq(Point)
        <5> HIDE DEF c
        <5>1. Tail(s) \in Seq(Point)
          BY <3>1, <4>0, SeqParts
        <5> QED
          BY <3>1, <5>1
      <4>2. Rearmed(q, Q, t, c) =
              IF rest = <<>> THEN <<>> ELSE [rest EXCEPT ![1].tick = NextTurn(@, t)]
        <5> HIDE DEF c
        <5> QED
          BY <3>3, Zenon DEF Rearmed
      <4> HIDE DEF rest
      <4>3. rest # <<>> => rest[1] \in Point
        BY <4>1, SeqParts
      <4>4. rest # <<>> => NextTurn(rest[1].tick, t) \in Nat
        BY <1>2, <4>3 DEF NextTurn, Point
      <4>5. rest # <<>> => [rest[1] EXCEPT !.tick = NextTurn(@, t)] \in Point
        BY <4>3, <4>4 DEF Point
      <4>6. ASSUME rest # <<>>
            PROVE  [rest EXCEPT ![1].tick = NextTurn(@, t)] \in Seq(Point)
        <5>1. [rest EXCEPT ![1] = [rest[1] EXCEPT !.tick = NextTurn(@, t)]] \in Seq(Point)
          BY <4>1, <4>5, <4>6, SeqParts
        <5> QED
          BY <5>1, Zenon
      <4> QED
        BY <4>2, <4>6
    <3> QED
      BY <3>2, <3>3
  <2> QED
    BY <1>1, <2>1
<1>15. TypeOK'
  BY <1>1, <1>u, <1>2, <1>7, <1>8, <1>9, <1>12, <1>13, <1>14
     DEF Inv, TypeOK, PendingType
<1>16. FiniteOK' /\ CapturedInPast'
  BY <1>u, <1>10, <1>13 DEF Inv, FiniteOK, CapturedInPast
<1> QED
  BY <1>11, <1>15, <1>16 DEF Inv

\* The Cube actions.
LEMMA CubeKeeps ==
  ASSUME Inv,
         \/ \E k \in Keys : DispatchCubeSet(k) \/ DispatchCubeTriggeredSet(k)
                               \/ DispatchCubeWait(k) \/ DispatchCubeTriggeredWait(k)
         \/ AcceptMmad \/ GateMmad \/ BiasCheckpoint \/ FinishMmad
         \/ \E b \in BOOLEAN : StartMmad(b)
  PROVE  Inv'
<1> USE DEF timeVars, tableVars, mteVars, cubeVars, histVars
<1>1. ASSUME NEW k \in Keys, DispatchCubeSet(k) PROVE Inv'
  <2> DEFINE e == [id |-> nextId, key |-> k]
  <2>1. e \in Flag
    BY DEF Inv, TypeOK, Flag
  <2>2. CubeSetQueue(k) \in 0..2
    BY DEF CubeSetQueue
  <2> HIDE DEF e
  <2>3. cubeSets' = [cubeSets EXCEPT ![CubeSetQueue(k)] = @ \cup {e}]
    BY <1>1 DEF DispatchCubeSet, e
  <2>4. \A q \in 0..2 : IsFiniteSet(cubeSets[q] \cup {e})
    BY FS_AddElement DEF Inv, FiniteOK
  <2>5. TypeOK'
    BY <1>1, <2>1, <2>2, <2>3 DEF Inv, TypeOK, DispatchCubeSet, Fresh
  <2>6. FiniteOK'
    BY <1>1, <2>2, <2>3, <2>4 DEF Inv, TypeOK, FiniteOK, DispatchCubeSet
  <2>7. CapturedInPast' /\ NoStrandedSet'
    BY <1>1 DEF Inv, CapturedInPast, NoStrandedSet, DispatchCubeSet
  <2> QED
    BY <2>5, <2>6, <2>7 DEF Inv
<1>2. ASSUME NEW k \in Keys, DispatchCubeTriggeredSet(k) PROVE Inv'
  <2> DEFINE S == {[id |-> nextId, key |-> k, timestamp |-> 0]}
  <2>1. IsFiniteSet(S) /\ Schedule(S, now)
    BY <1>2, FS_Singleton DEF DispatchCubeTriggeredSet
  <2>2. \A e \in S : e.id \in Nat /\ e.key \in Keys /\ e.timestamp \in Nat /\ e.timestamp <= now
    BY DEF Inv, TypeOK
  <2> HIDE DEF S
  <2>3. /\ pending' \subseteq PendingType /\ notifications' \subseteq Nat
        /\ IsFiniteSet(pending') /\ NoStrandedSet'
    BY <2>1, <2>2, ScheduleKeeps
  <2>n. nextId' \in Nat
    BY <1>2 DEF Inv, TypeOK, DispatchCubeTriggeredSet, Fresh
  <2>u. UNCHANGED <<now, target, advancing, counters, cubeWaits, cubeSets, checkpoints, flights, head, mteFlags, commands, attempted>>
    BY <1>2 DEF DispatchCubeTriggeredSet
  <2>t. TypeOK'
    BY <2>3, <2>n, <2>u DEF Inv, TypeOK, PendingType
  <2>f. FiniteOK'
    BY <1>2, <2>3 DEF Inv, FiniteOK, DispatchCubeTriggeredSet
  <2>c. CapturedInPast' /\ NoStrandedSet'
    BY <1>2, <2>3 DEF Inv, CapturedInPast, NoStrandedSet, DispatchCubeTriggeredSet
  <2> QED
    BY <2>t, <2>f, <2>c DEF Inv
<1>3. ASSUME NEW k \in Keys, DispatchCubeWait(k) PROVE Inv'
  <2>1. cubeWaits' \subseteq Flag
    BY <1>3 DEF Inv, TypeOK, Flag, DispatchCubeWait
  <2>n. nextId' \in Nat
    BY <1>3 DEF Inv, TypeOK, DispatchCubeWait, Fresh
  <2>u. UNCHANGED <<now, target, advancing, counters, pending, notifications, cubeSets, checkpoints, flights, head, mteFlags, commands, attempted>>
    BY <1>3 DEF DispatchCubeWait
  <2>t. TypeOK'
    BY <2>1, <2>n, <2>u DEF Inv, TypeOK
  <2>f. FiniteOK'
    BY <1>3, <2>1 DEF Inv, FiniteOK, DispatchCubeWait
  <2>c. CapturedInPast' /\ NoStrandedSet'
    BY <1>3, <2>1 DEF Inv, CapturedInPast, NoStrandedSet, DispatchCubeWait
  <2> QED
    BY <2>t, <2>f, <2>c DEF Inv
<1>4. ASSUME NEW k \in Keys, DispatchCubeTriggeredWait(k) PROVE Inv'
  <2>1. counters' \in [Keys -> 0..Capacity]
    BY <1>4, ConsumeKeeps DEF Inv, DispatchCubeTriggeredWait
  <2>t. TypeOK'
    BY <1>4, <2>1 DEF Inv, TypeOK, DispatchCubeTriggeredWait, Fresh
  <2>f. FiniteOK'
    BY <1>4, <2>1 DEF Inv, FiniteOK, DispatchCubeTriggeredWait
  <2>c. CapturedInPast' /\ NoStrandedSet'
    BY <1>4, <2>1 DEF Inv, CapturedInPast, NoStrandedSet, DispatchCubeTriggeredWait
  <2> QED
    BY <2>t, <2>f, <2>c DEF Inv
<1>5. CASE AcceptMmad
  <2>1. flights' \in Seq(Nat)
    BY <1>5 DEF Inv, TypeOK, AcceptMmad
  <2> QED
    BY <1>5, <2>1 DEF Inv, TypeOK, FiniteOK, CapturedInPast, NoStrandedSet, AcceptMmad, Fresh
<1>6. CASE GateMmad
  <2> DEFINE go == Gated(Head(flights))
  <2>1. go \subseteq cubeWaits /\ \A w \in go : w.key \in Keys /\ counters[w.key] > 0
    <3>1. \A w \in cubeWaits : w.id \in Nat /\ w.key \in Keys
      BY DEF Inv, TypeOK, Flag
    <3> QED
      BY <3>1 DEF Gated
  <2>2. Consume({w.key : w \in go}) /\ cubeWaits' = cubeWaits \ go
    BY <1>6 DEF GateMmad
  <2>3. counters' \in [Keys -> 0..Capacity]
    BY <2>1, <2>2, ConsumeKeeps DEF Inv
  <2> QED
    BY <1>6, <2>2, <2>3 DEF Inv, TypeOK, FiniteOK, CapturedInPast, NoStrandedSet, GateMmad
<1>7. CASE BiasCheckpoint
  <2>1. checkpoints' \in [0..3 -> Seq(Point)]
    <3>1. Head(flights) \in Nat
      BY <1>7, SeqParts DEF Inv, TypeOK, BiasCheckpoint
    <3>2. now + StageDelay[1] \in Nat
      BY StageAssumption DEF Inv, TypeOK
    <3> QED
      BY <1>7, <3>1, <3>2, CheckpointAppend DEF BiasCheckpoint, Checkpoint, Inv, TypeOK
  <2> QED
    BY <1>7, <2>1 DEF Inv, TypeOK, FiniteOK, CapturedInPast, NoStrandedSet, BiasCheckpoint
<1>8. CASE FinishMmad
  <2> DEFINE t(q) == now + StageDelay[q]
             one == [checkpoints EXCEPT ![0] = Append(@, [tick |-> t(0), id |-> Head(flights)])]
  <2>1. Head(flights) \in Nat /\ Tail(flights) \in Seq(Nat)
    BY <1>8, SeqParts DEF Inv, TypeOK, FinishMmad
  <2>2. t(0) \in Nat /\ t(2) \in Nat
    BY StageAssumption DEF Inv, TypeOK
  <2>3. checkpoints' = [one EXCEPT ![2] = Append(@, [tick |-> t(2), id |-> Head(flights)])]
    BY <1>8 DEF FinishMmad
  <2>4. checkpoints' \in [0..3 -> Seq(Point)]
    <3> HIDE DEF t
    <3>1. one \in [0..3 -> Seq(Point)]
      BY <2>1, <2>2, CheckpointAppend DEF Inv, TypeOK
    <3> HIDE DEF one
    <3> QED
      BY <2>1, <2>2, <2>3, <3>1, CheckpointAppend
  <2> QED
    BY <1>8, <2>1, <2>4 DEF Inv, TypeOK, FiniteOK, CapturedInPast, NoStrandedSet, FinishMmad
<1>9. ASSUME NEW b \in BOOLEAN, StartMmad(b) PROVE Inv'
  <2>1. CASE ~b
    BY <1>9, <2>1 DEF Inv, TypeOK, FiniteOK, CapturedInPast, NoStrandedSet, StartMmad
  <2>2. CASE b
    <3> DEFINE go == Released(cubeSets[2], Head(flights), counters)
               S  == {Untimed(s) : s \in go}
               f  == [s \in go |-> Untimed(s)]
    <3>1. go \subseteq cubeSets[2] /\ go \subseteq Flag /\ IsFiniteSet(go)
      <4>1. go \subseteq cubeSets[2]
        BY DEF Released
      <4>2. IsFiniteSet(go)
        BY <4>1, FS_Subset DEF Inv, FiniteOK
      <4> QED
        BY <4>1, <4>2 DEF Inv, TypeOK
    <3>2. /\ Schedule(S, now)
          /\ cubeSets' = [cubeSets EXCEPT ![2] = @ \ go]
          /\ checkpoints' = checkpoints \/ checkpoints' = Checkpoint(3, now + 1)
      BY <1>9, <2>2 DEF StartMmad
    <3> HIDE DEF go
    <3>3. IsFiniteSet({f[s] : s \in go})
      BY <3>1, FiniteImage
    <3>4. S = {f[s] : s \in go}
      OBVIOUS
    <3>5. \A e \in S : e.id \in Nat /\ e.key \in Keys /\ e.timestamp \in Nat /\ e.timestamp <= now
      BY <3>1 DEF Untimed, Flag, Inv, TypeOK
    <3> HIDE DEF S, f
    <3>6. /\ pending' \subseteq PendingType /\ notifications' \subseteq Nat
          /\ IsFiniteSet(pending') /\ NoStrandedSet'
      BY <3>2, <3>3, <3>4, <3>5, ScheduleKeeps
    <3>7. cubeSets' \in [0..2 -> SUBSET Flag] /\ \A q \in 0..2 : IsFiniteSet(cubeSets'[q])
      <4>1. \A q \in 0..2 : cubeSets'[q] \subseteq cubeSets[q]
        BY <3>2 DEF Inv, TypeOK
      <4>2. \A q \in 0..2 : IsFiniteSet(cubeSets'[q])
        BY <4>1, FS_Subset DEF Inv, FiniteOK
      <4> QED
        BY <3>2, <4>1, <4>2 DEF Inv, TypeOK
    <3>8. checkpoints' \in [0..3 -> Seq(Point)]
      <4>1. Head(flights) \in Nat
        BY <1>9, SeqParts DEF Inv, TypeOK, StartMmad
      <4>2. now + 1 \in Nat
        BY DEF Inv, TypeOK
      <4>3. Checkpoint(3, now + 1) \in [0..3 -> Seq(Point)]
        BY <4>1, <4>2, CheckpointAppend DEF Checkpoint, Inv, TypeOK
      <4> QED
        BY <3>2, <4>3 DEF Inv, TypeOK
    <3> QED
      BY <1>9, <3>6, <3>7, <3>8 DEF Inv, TypeOK, FiniteOK, CapturedInPast, StartMmad, PendingType
  <2> QED
    BY <2>1, <2>2
<1> QED
  BY <1>1, <1>2, <1>3, <1>4, <1>5, <1>6, <1>7, <1>8, <1>9

\* A wrapped tick is not later than the tick.
LEMMA WrapDown ==
  ASSUME NEW n \in Nat, NEW w \in Nat \ {0}
  PROVE  n % w \in Nat /\ n % w <= n
<1>1. n % w \in 0..(w - 1)
  OBVIOUS
<1>2. CASE n < w
  <2>1. n % w = n
    BY <1>2
  <2> QED
    BY <2>1
<1>3. CASE n >= w
  BY <1>1, <1>3
<1> QED
  BY <1>2, <1>3

\* A command's sets and waits, typed and, for the sets, admissible now.
LEMMA CommandSets ==
  ASSUME Inv, NEW i \in DOMAIN commands
  PROVE  /\ commands[i] \in Command
         /\ IsFiniteSet(commands[i].sets)
         /\ \A e \in commands[i].sets :
              e.id \in Nat /\ e.key \in Keys /\ e.timestamp \in Nat /\ e.timestamp <= now
         /\ \A e \in commands[i].waits : e.key \in Keys
<1>1. commands[i] \in Command
  BY DEF Inv, TypeOK
<1>2. commands[i].sets \subseteq MteFlag /\ commands[i].waits \subseteq MteFlag
  BY <1>1 DEF Command
<1>3. \A e \in MteFlag : e.id \in Nat /\ e.key \in Keys /\ e.timestamp \in Nat
  BY DEF MteFlag
<1> QED
  BY <1>1, <1>2, <1>3 DEF Inv, FiniteOK, CapturedInPast

\* Replacing one command by one with fewer sets.
LEMMA CommandUpdate ==
  ASSUME Inv, NEW i \in DOMAIN commands, NEW x \in Command, x.sets \subseteq commands[i].sets,
         commands' = [commands EXCEPT ![i] = x]
  PROVE  /\ commands' \in Seq(Command)
         /\ \A j \in DOMAIN commands' : IsFiniteSet(commands'[j].sets)
         /\ \A j \in DOMAIN commands' : \A f \in commands'[j].sets : f.timestamp <= now
<1>1. commands \in Seq(Command)
  BY DEF Inv, TypeOK
<1>2. commands' \in Seq(Command) /\ DOMAIN commands' = DOMAIN commands
  BY <1>1
<1>3. \A j \in DOMAIN commands : commands'[j].sets \subseteq commands[j].sets
  BY <1>1
<1>4. \A j \in DOMAIN commands : IsFiniteSet(commands'[j].sets)
  BY <1>3, FS_Subset DEF Inv, FiniteOK
<1> QED
  BY <1>2, <1>3, <1>4 DEF Inv, CapturedInPast

\* The MTE1 and FIX actions.
LEMMA MteKeeps ==
  ASSUME Inv,
         \/ \E k \in Keys : TriggeredMteSet(k) \/ TriggeredMteWait(k)
                               \/ \E op \in {"set", "wait"} : EnqueueMteFlag(op, k)
         \/ \E m \in TransferMemories, p \in {"generating", "disabled"} : IssueTransfer(m, p)
         \/ \E i \in DOMAIN commands : ResolveDisabled(i) \/ ResolveWaits(i) \/ CompleteTransfer(i)
         \/ RetireTransfer
  PROVE  Inv'
<1> USE DEF timeVars, tableVars, mteVars, cubeVars, histVars
<1>0. CaptureMte \in Nat /\ CaptureMte <= now
  BY WrapAssumption, WrapDown DEF Inv, TypeOK, CaptureMte
<1>1. ASSUME NEW k \in Keys, TriggeredMteSet(k) PROVE Inv'
  <2> DEFINE S == {[id |-> nextId, key |-> k, timestamp |-> CaptureMte]}
  <2>1. IsFiniteSet(S) /\ Schedule(S, now)
    BY <1>1, FS_Singleton DEF TriggeredMteSet
  <2>2. \A e \in S : e.id \in Nat /\ e.key \in Keys /\ e.timestamp \in Nat /\ e.timestamp <= now
    BY <1>0 DEF Inv, TypeOK
  <2> HIDE DEF S
  <2>3. /\ pending' \subseteq PendingType /\ notifications' \subseteq Nat
        /\ IsFiniteSet(pending') /\ NoStrandedSet'
    BY <2>1, <2>2, ScheduleKeeps
  <2>4. nextId' \in Nat
    BY <1>1 DEF Inv, TypeOK, TriggeredMteSet, Fresh
  <2>5. UNCHANGED <<now, target, advancing, counters, cubeVars, mteFlags, commands, attempted>>
    BY <1>1 DEF TriggeredMteSet
  <2>6. TypeOK'
    BY <2>3, <2>4, <2>5 DEF Inv, TypeOK, PendingType
  <2>7. FiniteOK' /\ CapturedInPast'
    BY <2>3, <2>5 DEF Inv, FiniteOK, CapturedInPast
  <2> QED
    BY <2>3, <2>6, <2>7 DEF Inv
<1>2. ASSUME NEW k \in Keys, TriggeredMteWait(k) PROVE Inv'
  <2>1. counters' \in [Keys -> 0..Capacity]
    BY <1>2, ConsumeKeeps DEF Inv, TriggeredMteWait
  <2>2. nextId' \in Nat
    BY <1>2 DEF Inv, TypeOK, TriggeredMteWait, Fresh
  <2>3. UNCHANGED <<now, target, advancing, pending, notifications, cubeVars, mteVars>>
    BY <1>2 DEF TriggeredMteWait
  <2>4. TypeOK'
    BY <2>1, <2>2, <2>3 DEF Inv, TypeOK
  <2> QED
    BY <2>3, <2>4 DEF Inv, FiniteOK, CapturedInPast, NoStrandedSet
<1>3. ASSUME NEW k \in Keys, NEW op \in {"set", "wait"}, EnqueueMteFlag(op, k) PROVE Inv'
  <2> DEFINE e == [id |-> nextId, op |-> op, key |-> k, timestamp |-> CaptureMte]
  <2>1. e \in MteFlag /\ e.timestamp <= now
    BY <1>0 DEF Inv, TypeOK, MteFlag
  <2> HIDE DEF e
  <2>2. mteFlags' = mteFlags \/ mteFlags' = mteFlags \cup {e}
    BY <1>3 DEF EnqueueMteFlag, e
  <2>3. mteFlags' \subseteq MteFlag /\ IsFiniteSet(mteFlags') /\ \A f \in mteFlags' : f.timestamp <= now
    BY <2>1, <2>2, FS_AddElement DEF Inv, TypeOK, FiniteOK, CapturedInPast
  <2>4. nextId' \in Nat
    BY <1>3 DEF Inv, TypeOK, EnqueueMteFlag, Mte1Dispatch, Fresh
  <2>5. UNCHANGED <<now, target, advancing, counters, pending, notifications, cubeVars, commands, attempted>>
    BY <1>3 DEF EnqueueMteFlag
  <2>6. TypeOK'
    BY <2>3, <2>4, <2>5 DEF Inv, TypeOK
  <2> QED
    BY <2>3, <2>5, <2>6 DEF Inv, FiniteOK, CapturedInPast, NoStrandedSet
<1>4. ASSUME NEW m \in TransferMemories, NEW p \in {"generating", "disabled"}, IssueTransfer(m, p)
      PROVE  Inv'
  <2> DEFINE mine == {f \in mteFlags : f.id < nextId /\ f.key.memory = m}
             x == [id |-> nextId, phase |-> p, done |-> {},
                   waits |-> {f \in mine : f.op = "wait"}, sets |-> {f \in mine : f.op = "set"}]
  <2>1. mteFlags' = mteFlags \ mine /\ commands' = Append(commands, x)
    BY <1>4 DEF IssueTransfer
  <2>2. mine \subseteq mteFlags
    OBVIOUS
  <2> HIDE DEF mine
  <2>3. x \in Command
    BY <2>2 DEF Command, Inv, TypeOK
  <2>4. x.sets \subseteq mteFlags
    BY <2>2
  <2> HIDE DEF x
  <2>5. IsFiniteSet(x.sets) /\ IsFiniteSet(mteFlags')
    BY <2>1, <2>4, FS_Subset DEF Inv, FiniteOK
  <2>6. commands \in Seq(Command)
    BY DEF Inv, TypeOK
  <2>7. /\ commands' \in Seq(Command)
        /\ \A j \in DOMAIN commands' : commands'[j] = x \/ (j \in DOMAIN commands /\ commands'[j] = commands[j])
    BY <2>1, <2>3, <2>6
  <2>8. nextId' \in Nat
    BY <1>4 DEF Inv, TypeOK, IssueTransfer, Mte1Dispatch, Fresh
  <2>9. UNCHANGED <<now, target, advancing, counters, pending, notifications, cubeVars, attempted>>
    BY <1>4 DEF IssueTransfer
  <2>10. TypeOK'
    BY <2>1, <2>7, <2>8, <2>9 DEF Inv, TypeOK
  <2>11. FiniteOK'
    BY <2>5, <2>7, <2>9 DEF Inv, FiniteOK
  <2>12. CapturedInPast' /\ NoStrandedSet'
    BY <2>1, <2>4, <2>7, <2>9 DEF Inv, CapturedInPast, NoStrandedSet
  <2> QED
    BY <2>10, <2>11, <2>12 DEF Inv
<1>5. ASSUME NEW i \in DOMAIN commands, ResolveDisabled(i) PROVE Inv'
  <2> DEFINE sets  == {f \in commands[i].sets : Admits(counters, f.key)}
             waits == IF sets # commands[i].sets THEN {}
                      ELSE {f \in commands[i].waits : counters[f.key] > 0}
             cmd   == commands[i]
             done  == [cmd EXCEPT !.sets = {}, !.waits = {}, !.phase = "sent", !.done = {now}]
             part  == [cmd EXCEPT !.sets = @ \ sets, !.waits = @ \ waits]
  <2>1. /\ Schedule(sets, now) /\ Consume({f.key : f \in waits})
        /\ commands' = [commands EXCEPT ![i] = done] \/ commands' = [commands EXCEPT ![i] = part]
    BY <1>5 DEF ResolveDisabled
  <2>2. sets \subseteq commands[i].sets
    OBVIOUS
  <2>3. waits \subseteq commands[i].waits /\ \A f \in waits : counters[f.key] > 0
    OBVIOUS
  <2> HIDE DEF sets, waits
  <2>4. IsFiniteSet(sets)
    BY <2>2, FS_Subset, CommandSets
  <2>5. /\ pending' \subseteq PendingType /\ notifications' \subseteq Nat
        /\ IsFiniteSet(pending') /\ NoStrandedSet'
    BY <2>1, <2>2, <2>4, CommandSets, ScheduleKeeps
  <2>6. counters' \in [Keys -> 0..Capacity]
    BY <2>1, <2>3, CommandSets, ConsumeKeeps DEF Inv
  <2>7. done \in Command /\ part \in Command /\ done.sets \subseteq commands[i].sets /\ part.sets \subseteq commands[i].sets
    BY CommandSets DEF Command, Inv, TypeOK
  <2> HIDE DEF done, part
  <2>8. /\ commands' \in Seq(Command)
        /\ \A j \in DOMAIN commands' : IsFiniteSet(commands'[j].sets)
        /\ \A j \in DOMAIN commands' : \A f \in commands'[j].sets : f.timestamp <= now
    BY <2>1, <2>7, CommandUpdate
  <2>9. UNCHANGED <<now, target, advancing, cubeVars, mteFlags, attempted, nextId>>
    BY <1>5 DEF ResolveDisabled
  <2>10. TypeOK'
    BY <2>5, <2>6, <2>8, <2>9 DEF Inv, TypeOK, PendingType
  <2>11. FiniteOK' /\ CapturedInPast'
    BY <2>5, <2>8, <2>9 DEF Inv, FiniteOK, CapturedInPast
  <2> QED
    BY <2>5, <2>10, <2>11 DEF Inv
<1>6. ASSUME NEW i \in DOMAIN commands, ResolveWaits(i) PROVE Inv'
  <2> DEFINE go  == {f \in commands[i].waits : counters[f.key] > 0}
             cmd == commands[i]
             ph  == IF go = cmd.waits THEN "sent" ELSE cmd.phase
             x   == [cmd EXCEPT !.waits = @ \ go, !.phase = ph]
  <2>1. Consume({f.key : f \in go}) /\ commands' = [commands EXCEPT ![i] = x]
    BY <1>6 DEF ResolveWaits
  <2>2. counters' \in [Keys -> 0..Capacity]
    BY <2>1, CommandSets, ConsumeKeeps DEF Inv
  <2>3. ph \in {"generating", "disabled", "sent"}
    BY CommandSets DEF Command
  <2> HIDE DEF go, ph
  <2>4. x \in Command /\ x.sets \subseteq commands[i].sets
    BY <2>3, CommandSets DEF Command
  <2> HIDE DEF x
  <2>5. /\ commands' \in Seq(Command)
        /\ \A j \in DOMAIN commands' : IsFiniteSet(commands'[j].sets)
        /\ \A j \in DOMAIN commands' : \A f \in commands'[j].sets : f.timestamp <= now
    BY <2>1, <2>4, CommandUpdate
  <2>6. UNCHANGED <<now, target, advancing, pending, notifications, cubeVars, mteFlags, attempted, nextId>>
    BY <1>6 DEF ResolveWaits
  <2>7. TypeOK'
    BY <2>2, <2>5, <2>6 DEF Inv, TypeOK
  <2> QED
    BY <2>5, <2>6, <2>7 DEF Inv, FiniteOK, CapturedInPast, NoStrandedSet
<1>7. ASSUME NEW i \in DOMAIN commands, CompleteTransfer(i) PROVE Inv'
  <2> DEFINE cmd == commands[i]
             x   == [cmd EXCEPT !.done = {now}]
  <2>1. commands' = [commands EXCEPT ![i] = x]
    BY <1>7 DEF CompleteTransfer
  <2>2. x \in Command /\ x.sets \subseteq commands[i].sets
    BY CommandSets DEF Command, Inv, TypeOK
  <2> HIDE DEF x
  <2>3. /\ commands' \in Seq(Command)
        /\ \A j \in DOMAIN commands' : IsFiniteSet(commands'[j].sets)
        /\ \A j \in DOMAIN commands' : \A f \in commands'[j].sets : f.timestamp <= now
    BY <2>1, <2>2, CommandUpdate
  <2>4. UNCHANGED <<now, target, advancing, counters, pending, notifications, cubeVars, mteFlags, attempted, nextId>>
    BY <1>7 DEF CompleteTransfer
  <2>5. TypeOK'
    BY <2>3, <2>4 DEF Inv, TypeOK
  <2> QED
    BY <2>3, <2>4, <2>5 DEF Inv, FiniteOK, CapturedInPast, NoStrandedSet
<1>8. CASE RetireTransfer
  <2> DEFINE go  == {f \in Head(commands).sets : Admits(counters, f.key)}
             cmd == commands[1]
             x   == [cmd EXCEPT !.sets = @ \ go]
  <2>0. commands \in Seq(Command) /\ commands # <<>>
    BY <1>8 DEF RetireTransfer, Inv, TypeOK
  <2>1. 1 \in DOMAIN commands /\ Head(commands) = commands[1]
    BY <2>0
  <2>2. /\ Schedule(go, now)
        /\ commands' = Tail(commands) \/ commands' = [commands EXCEPT ![1] = x]
    BY <1>8 DEF RetireTransfer
  <2>3. go \subseteq commands[1].sets
    BY <2>1
  <2> HIDE DEF go
  <2>4. IsFiniteSet(go)
    BY <2>1, <2>3, FS_Subset, CommandSets
  <2>5. /\ pending' \subseteq PendingType /\ notifications' \subseteq Nat
        /\ IsFiniteSet(pending') /\ NoStrandedSet'
    BY <2>1, <2>2, <2>3, <2>4, CommandSets, ScheduleKeeps
  <2>6. x \in Command /\ x.sets \subseteq commands[1].sets
    BY <2>1, CommandSets DEF Command
  <2> HIDE DEF x
  <2>7. /\ commands' \in Seq(Command)
        /\ \A j \in DOMAIN commands' : IsFiniteSet(commands'[j].sets)
        /\ \A j \in DOMAIN commands' : \A f \in commands'[j].sets : f.timestamp <= now
    <3>1. CASE commands' = [commands EXCEPT ![1] = x]
      BY <2>1, <2>6, <3>1, CommandUpdate
    <3>2. CASE commands' = Tail(commands)
      <4>1. /\ commands' \in Seq(Command)
            /\ \A j \in DOMAIN commands' : j + 1 \in DOMAIN commands /\ commands'[j] = commands[j + 1]
        BY <2>0, <3>2
      <4> QED
        BY <4>1 DEF Inv, FiniteOK, CapturedInPast
    <3> QED
      BY <2>2, <3>1, <3>2
  <2>8. UNCHANGED <<now, target, advancing, counters, cubeVars, mteFlags, nextId>> /\ attempted' = {now}
    BY <1>8 DEF RetireTransfer
  <2>9. TypeOK'
    BY <2>5, <2>7, <2>8 DEF Inv, TypeOK, PendingType
  <2>10. FiniteOK' /\ CapturedInPast'
    BY <2>5, <2>7, <2>8 DEF Inv, FiniteOK, CapturedInPast
  <2> QED
    BY <2>5, <2>9, <2>10 DEF Inv
<1> QED
  BY <1>1, <1>2, <1>3, <1>4, <1>5, <1>6, <1>7, <1>8

\* Every step of the table and of its clients keeps the invariant.
LEMMA StepInv == Inv /\ [Next]_vars => Inv'
<1> SUFFICES ASSUME Inv, [Next]_vars PROVE Inv'
  OBVIOUS
<1>1. CASE AdvanceTo
  <2>1. PICK t \in now..MaxTick : target' = t
    BY <1>1 DEF AdvanceTo
  <2>2. UNCHANGED <<now, tableVars, cubeVars, mteVars, nextId>> /\ advancing' = TRUE
    BY <1>1 DEF AdvanceTo
  <2>3. target' \in Nat /\ now <= target'
    BY <2>1, BoundAssumption DEF Inv, TypeOK
  <2>4. TypeOK'
    BY <2>2, <2>3 DEF Inv, TypeOK, tableVars, cubeVars, mteVars
  <2> QED
    BY <2>2, <2>3, <2>4 DEF Inv, FiniteOK, CapturedInPast, NoStrandedSet, tableVars, cubeVars, mteVars
<1>2. CASE AdvanceDone
  <2>1. now' = target /\ advancing' = FALSE /\ advancing
        /\ UNCHANGED <<target, tableVars, cubeVars, mteVars, nextId>>
    BY <1>2 DEF AdvanceDone
  <2>2. now <= now' /\ now' \in Nat
    BY <2>1 DEF Inv, TypeOK, CapturedInPast
  <2>3. TypeOK'
    BY <2>1, <2>2 DEF Inv, TypeOK, tableVars, cubeVars, mteVars
  <2>4. CapturedInPast'
    <3>1. \A f \in mteFlags : f.timestamp \in Nat
      BY DEF Inv, TypeOK, MteFlag
    <3>2. \A i \in DOMAIN commands : \A f \in commands[i].sets : f.timestamp \in Nat
      BY CommandSets
    <3> QED
      BY <2>1, <2>2, <3>1, <3>2 DEF Inv, TypeOK, CapturedInPast, mteVars
  <2> QED
    BY <2>1, <2>3, <2>4 DEF Inv, FiniteOK, NoStrandedSet, tableVars, cubeVars, mteVars
<1>3. CASE UNCHANGED vars
  BY <1>3 DEF Inv, TypeOK, FiniteOK, CapturedInPast, NoStrandedSet,
              vars, timeVars, tableVars, cubeVars, mteVars
<1> QED
  BY <1>1, <1>2, <1>3, NotifyKeeps, CubeKeeps, MteKeeps DEF Next

\* The invariant of the flag table holds in every reachable state.
THEOREM Invariance == Spec => []Inv
<1>1. Init => Inv
  BY InitInv
<1>2. Inv /\ [Next]_vars => Inv'
  BY StepInv
<1> QED
  BY <1>1, <1>2, PTL DEF Spec

\* The state is well typed: whatever the interleaving of scans, admissions
\* and waits, consume_wait never underflows a counter and deliver_at never
\* raises one above C220_HARDWARE_FLAG_CAPACITY.
THEOREM TypeCorrect == Spec => []TypeOK
<1>1. Inv => TypeOK
  BY DEF Inv
<1> QED
  BY <1>1, Invariance, PTL

\* Every set schedule_event admitted is covered by an armed notification
\* late enough for deliver_at to take it.
THEOREM NothingStranded == Spec => []NoStrandedSet
<1>1. Inv => NoStrandedSet
  BY DEF Inv
<1> QED
  BY <1>1, Invariance, PTL

-----------------------------------------------------------------------------
(* Where the sets are, and what became of them                             *)

\* No two entries have one id.
OneEach(S) == \A a, b \in S : a.id = b.id => a = b

\* No entry of S has the id of one of T.
Apart(S, T) == \A a \in S, b \in T : a.id # b.id

\* Ids below n.
Older(S, n) == \A a \in S : a.id \in Nat /\ a.id < n

\* Every admitted or waiting set has an id of its own, in one place.
OneHome ==
  /\ Older(pending, nextId) /\ OneEach(pending)
  /\ Older(mteFlags, nextId) /\ OneEach(mteFlags) /\ Apart(mteFlags, pending)
  /\ \A q \in 0..2 :
       /\ Older(cubeSets[q], nextId) /\ OneEach(cubeSets[q])
       /\ Apart(cubeSets[q], pending) /\ Apart(cubeSets[q], mteFlags)
       /\ \A r \in 0..2 : q # r => Apart(cubeSets[q], cubeSets[r])
  /\ \A i \in DOMAIN commands :
       LET S == commands[i].sets
       IN  /\ Older(S, nextId) /\ OneEach(S)
           /\ Apart(S, pending) /\ Apart(S, mteFlags)
           /\ \A q \in 0..2 : Apart(S, cubeSets[q])
           /\ \A j \in DOMAIN commands : i # j => Apart(S, commands[j].sets)

\* Renaming entries of a set that keeps ids and keys keeps their number.
LEMMA Renamed ==
  ASSUME NEW S, IsFiniteSet(S), OneEach(S), NEW f,
         \A x \in S : f[x].id = x.id /\ f[x].key = x.key, NEW k
  PROVE  LET T == {f[x] : x \in S}
         IN  /\ IsFiniteSet(T) /\ OneEach(T)
             /\ IsFiniteSet(Of(T, k))
             /\ Cardinality(Of(T, k)) = Cardinality(Of(S, k))
<1> DEFINE T == {f[x] : x \in S}
           g == [x \in Of(S, k) |-> f[x]]
<1>1. IsFiniteSet(T)
  BY FiniteImage
<1>2. OneEach(T)
  BY DEF OneEach
<1>3. Of(S, k) \subseteq S /\ IsFiniteSet(Of(S, k)) /\ Of(T, k) \subseteq T
  BY FS_Subset DEF Of
<1>4. \A x \in Of(S, k) : f[x] \in Of(T, k)
  BY DEF Of
<1>5. \A y \in Of(T, k) : \E x \in Of(S, k) : f[x] = y
  BY DEF Of
<1>6. g \in Bijection(Of(S, k), Of(T, k))
  <2>1. g \in Injection(Of(S, k), Of(T, k))
    <3>1. g \in [Of(S, k) -> Of(T, k)]
      BY <1>4
    <3>2. \A a, b \in Of(S, k) : g[a] = g[b] => a = b
      BY <1>3 DEF OneEach
    <3> QED
      BY <3>1, <3>2 DEF Injection, IsInjective
  <2>2. g \in Surjection(Of(S, k), Of(T, k))
    BY <1>4, <1>5 DEF Surjection
  <2> QED
    BY <2>1, <2>2 DEF Bijection
<1>7. ExistsBijection(Of(S, k), Of(T, k))
  BY <1>6 DEF ExistsBijection
<1>8. Cardinality(Of(T, k)) = Cardinality(Of(S, k))
  BY <1>3, <1>7, FS_Bijection
<1> QED
  BY <1>1, <1>2, <1>3, <1>8, FS_Subset

\* Two disjoint parts are counted apart.
LEMMA Parts ==
  ASSUME NEW A, IsFiniteSet(A), NEW B, IsFiniteSet(B), A \cap B = {}
  PROVE  /\ Cardinality(A) \in Nat /\ Cardinality(B) \in Nat
         /\ Cardinality(A \cup B) = Cardinality(A) + Cardinality(B)
<1>1. Cardinality(A) \in Nat /\ Cardinality(B) \in Nat
  BY FS_CardinalityType
<1>2. Cardinality(A \cup B) = Cardinality(A) + Cardinality(B) - Cardinality(A \cap B)
  BY FS_Union
<1>3. Cardinality(A \cap B) = 0
  BY FS_EmptySet
<1> QED
  BY <1>1, <1>2, <1>3

\* Admitting S puts one entry per set of S under its key into the list.
LEMMA AdmitCounts ==
  ASSUME NEW P, IsFiniteSet(P), NEW S, IsFiniteSet(S), OneEach(S), Apart(S, P), NEW t, NEW k
  PROVE  LET new == {PendingEntry(e, t) : e \in S}
         IN  Cardinality(Of(P \cup new, k)) = Cardinality(Of(P, k)) + Cardinality(Of(S, k))
<1> DEFINE f == [e \in S |-> PendingEntry(e, t)]
           new == {f[e] : e \in S}
<1>1. \A e \in S : f[e].id = e.id /\ f[e].key = e.key
  BY DEF PendingEntry
<1>2. new = {PendingEntry(e, t) : e \in S}
  OBVIOUS
<1> HIDE DEF f
<1>3. /\ IsFiniteSet(Of(new, k))
      /\ Cardinality(Of(new, k)) = Cardinality(Of(S, k))
  BY <1>1, Renamed
<1>4. Of(P \cup new, k) = Of(P, k) \cup Of(new, k)
  BY DEF Of
<1>5. Of(P, k) \cap Of(new, k) = {}
  BY <1>1 DEF Of, Apart
<1>6. IsFiniteSet(Of(P, k))
  BY FS_Subset DEF Of
<1>7. Cardinality(Of(P, k) \cup Of(new, k)) = Cardinality(Of(P, k)) + Cardinality(Of(new, k))
  BY <1>3, <1>5, <1>6, Parts
<1> HIDE DEF new
<1>8. Cardinality(Of(P \cup new, k)) = Cardinality(Of(P, k)) + Cardinality(Of(S, k))
  BY <1>3, <1>4, <1>7, Zenon
<1> QED
  BY <1>2, <1>8

\* Admitting S out of where its sets waited, or on arrival, leaves every id
\* in one place; the commands may lose their head.
LEMMA HomeAdmit ==
  ASSUME OneHome, nextId \in Nat, NEW S, Older(S, nextId'), OneEach(S), Apart(S, pending), NEW t,
         nextId' \in Nat, nextId <= nextId',
         pending' \subseteq pending \cup {PendingEntry(e, t) : e \in S},
         mteFlags' = mteFlags, Apart(S, mteFlags),
         \A q \in 0..2 : cubeSets'[q] \subseteq cubeSets[q] /\ Apart(S, cubeSets'[q]),
         NEW d \in {0, 1},
         DOMAIN commands' \subseteq Nat,
         \A j \in DOMAIN commands' :
           /\ j + d \in DOMAIN commands
           /\ commands'[j].sets \subseteq commands[j + d].sets
           /\ Apart(S, commands'[j].sets)
  PROVE  OneHome'
<1> DEFINE new == {PendingEntry(e, t) : e \in S}
<1>1. \A p \in new : \E e \in S : p.id = e.id /\ p = PendingEntry(e, t)
  BY DEF PendingEntry
<1>3. Older(pending', nextId') /\ Older(mteFlags', nextId')
  BY <1>1 DEF Older, OneHome
<1>4. OneEach(pending)' /\ OneEach(mteFlags)' /\ Apart(mteFlags, pending)'
  <2>1. OneEach(pending)'
    <3> SUFFICES ASSUME NEW a \in pending', NEW b \in pending', a.id = b.id PROVE a = b
      BY DEF OneEach
    <3>1. a \in pending \/ \E e \in S : a.id = e.id /\ a = PendingEntry(e, t)
      BY <1>1
    <3>2. b \in pending \/ \E e \in S : b.id = e.id /\ b = PendingEntry(e, t)
      BY <1>1
    <3> QED
      BY <3>1, <3>2 DEF OneHome, OneEach, Apart
  <2>2. OneEach(mteFlags)'
    BY DEF OneHome, OneEach
  <2>3. Apart(mteFlags, pending)'
    <3> SUFFICES ASSUME NEW a \in mteFlags, NEW b \in pending' PROVE a.id # b.id
      BY DEF Apart
    <3>1. b \in pending \/ \E e \in S : b.id = e.id
      BY <1>1
    <3> QED
      BY <3>1 DEF OneHome, Apart
  <2> QED
    BY <2>1, <2>2, <2>3
<1> HIDE DEF new
<1>5. ASSUME NEW q \in 0..2
      PROVE  /\ Older(cubeSets'[q], nextId') /\ OneEach(cubeSets'[q])
             /\ Apart(cubeSets'[q], pending') /\ Apart(cubeSets'[q], mteFlags')
             /\ \A r \in 0..2 : q # r => Apart(cubeSets'[q], cubeSets'[r])
  <2>1. Older(cubeSets'[q], nextId') /\ OneEach(cubeSets'[q])
    BY DEF Older, OneEach, OneHome
  <2>2. Apart(cubeSets'[q], pending')
    BY <1>1 DEF Apart, OneHome, new
  <2>3. Apart(cubeSets'[q], mteFlags') /\ \A r \in 0..2 : q # r => Apart(cubeSets'[q], cubeSets'[r])
    BY DEF Apart, OneHome
  <2> QED
    BY <2>1, <2>2, <2>3
<1>6. ASSUME NEW j \in DOMAIN commands'
      PROVE  LET X == commands'[j].sets
             IN  /\ Older(X, nextId') /\ OneEach(X)
                 /\ Apart(X, pending') /\ Apart(X, mteFlags')
                 /\ \A q \in 0..2 : Apart(X, cubeSets'[q])
                 /\ \A i \in DOMAIN commands' : j # i => Apart(X, commands'[i].sets)
  <2> DEFINE X == commands'[j].sets
  <2>1. j + d \in DOMAIN commands /\ X \subseteq commands[j + d].sets /\ Apart(S, X)
    OBVIOUS
  <2>2. \A i \in DOMAIN commands' : i # j => j + d # i + d
    OBVIOUS
  <2>3. \A i \in DOMAIN commands' : j # i => Apart(X, commands'[i].sets)
    <3> SUFFICES ASSUME NEW i \in DOMAIN commands', j # i PROVE Apart(X, commands'[i].sets)
      OBVIOUS
    <3>1. i + d \in DOMAIN commands /\ commands'[i].sets \subseteq commands[i + d].sets
      OBVIOUS
    <3>2. Apart(commands[j + d].sets, commands[i + d].sets)
      BY <2>1, <2>2, <3>1 DEF OneHome
    <3> HIDE DEF X
    <3> QED
      BY <2>1, <3>1, <3>2 DEF Apart
  <2> HIDE DEF X
  <2>4. Older(X, nextId') /\ OneEach(X)
    BY <2>1 DEF Older, OneEach, OneHome
  <2>5. Apart(X, pending')
    BY <1>1, <2>1 DEF Apart, OneHome, new
  <2>6. Apart(X, mteFlags')
    BY <2>1 DEF Apart, OneHome
  <2>7. \A q \in 0..2 : Apart(X, cubeSets'[q])
    BY <2>1 DEF Apart, OneHome
  <2> QED
    BY <2>3, <2>4, <2>5, <2>6, <2>7 DEF X
<1> QED
  BY <1>3, <1>4, <1>5, <1>6, Zenon DEF OneHome

\* The counts of the history are the table's: what was admitted is pending,
\* visible, taken or dropped.
Balance ==
  /\ issued \in [Keys -> Nat] /\ consumed \in [Keys -> Nat] /\ saturated \in [Keys -> Nat]
  /\ TokenConservation

Ledger == Inv /\ OneHome /\ Balance

LEMMA NoneAdmitted ==
  ASSUME NEW S, S = {}, NEW X
  PROVE  IsFiniteSet(S) /\ OneEach(S) /\ Apart(S, X) /\ \A n : Older(S, n)
  BY FS_EmptySet DEF OneEach, Apart, Older

\* Admissions and waits of one step keep the balance.
LEMMA BalanceKeeps ==
  ASSUME Ledger, NEW S, IsFiniteSet(S), OneEach(S), Apart(S, pending),
         NEW K, K \subseteq Keys, \A k \in K : counters[k] > 0,
         Schedule(S, now) \/ (S = {} /\ UNCHANGED <<pending, issued>>),
         Consume(K) \/ (K = {} /\ UNCHANGED <<counters, consumed>>),
         saturated' = saturated
  PROVE  Balance'
<1> DEFINE n(k) == Cardinality(Of(S, k))
           p(k) == Cardinality(Of(pending, k))
<1>t. /\ counters \in [Keys -> Nat] /\ issued \in [Keys -> Nat] /\ consumed \in [Keys -> Nat]
      /\ saturated \in [Keys -> Nat]
  BY LimitAssumption DEF Ledger, Balance, Inv, TypeOK
<1>1. \A k \in Keys : n(k) \in Nat /\ p(k) \in Nat
  <2>1. \A k \in Keys : IsFiniteSet(Of(S, k)) /\ IsFiniteSet(Of(pending, k))
    BY FS_Subset DEF Of, Ledger, Inv, FiniteOK
  <2> QED
    BY <2>1, FS_CardinalityType
<1>2. \A k \in Keys : /\ issued'[k] = issued[k] + n(k)
                      /\ Cardinality(Of(pending', k)) = p(k) + n(k)
  <2> SUFFICES ASSUME NEW k \in Keys
               PROVE  /\ issued'[k] = issued[k] + n(k)
                      /\ Cardinality(Of(pending', k)) = p(k) + n(k)
    OBVIOUS
  <2>1. CASE Schedule(S, now)
    <3>1. pending' = pending \cup {PendingEntry(e, now) : e \in S}
      BY <2>1 DEF Schedule
    <3>2. Cardinality(Of(pending', k)) = p(k) + n(k)
      BY <3>1, AdmitCounts DEF Ledger, Inv, FiniteOK
    <3> QED
      BY <2>1, <3>2 DEF Schedule, Issue
  <2>2. CASE S = {} /\ UNCHANGED <<pending, issued>>
    <3>1. Of(S, k) = {}
      BY <2>2 DEF Of
    <3>2. n(k) = 0
      BY <3>1, FS_EmptySet
    <3> HIDE DEF n
    <3> QED
      BY <1>1, <1>t, <2>2, <3>2
  <2> QED
    BY <2>1, <2>2
<1>3. issued' \in [Keys -> Nat]
  BY <1>1, <1>2, <1>t DEF Schedule, Issue
<1>4. /\ consumed' \in [Keys -> Nat]
      /\ \A k \in Keys : counters'[k] \in Nat /\ counters'[k] + consumed'[k] = counters[k] + consumed[k]
  BY <1>t DEF Consume
<1> HIDE DEF n, p
<1>5. \A k \in Keys : issued[k] = p(k) + counters[k] + consumed[k] + saturated[k]
  BY DEF Ledger, Balance, TokenConservation, p
<1>6. ASSUME NEW k \in Keys
      PROVE  issued'[k] = Cardinality(Of(pending', k)) + counters'[k] + consumed'[k] + saturated'[k]
  <2>1. issued'[k] = issued[k] + n(k) /\ Cardinality(Of(pending', k)) = p(k) + n(k)
    BY <1>2
  <2>2. counters'[k] \in Nat /\ counters'[k] + consumed'[k] = counters[k] + consumed[k]
    BY <1>4
  <2>3. issued[k] = p(k) + counters[k] + consumed[k] + saturated[k]
    BY <1>5
  <2>4. /\ n(k) \in Nat /\ p(k) \in Nat /\ counters[k] \in Nat /\ consumed[k] \in Nat
        /\ consumed'[k] \in Nat /\ saturated[k] \in Nat /\ saturated'[k] = saturated[k]
    BY <1>1, <1>4, <1>t
  <2> QED
    BY <2>1, <2>2, <2>3, <2>4
<1>7. TokenConservation'
  BY <1>6 DEF TokenConservation
<1> QED
  BY <1>3, <1>4, <1>7, <1>t DEF Balance

\* One command gives up the sets S, which are admitted.
LEMMA HomeCommand ==
  ASSUME Ledger, NEW i \in DOMAIN commands, NEW S, S \subseteq commands[i].sets,
         NEW x \in Command, x.sets \subseteq commands[i].sets \ S,
         commands' = [commands EXCEPT ![i] = x],
         pending' \subseteq pending \cup {PendingEntry(e, now) : e \in S},
         UNCHANGED <<mteFlags, cubeSets, nextId>>
  PROVE  OneEach(S) /\ Apart(S, pending) /\ OneHome'
<1>1. commands \in Seq(Command) /\ nextId \in Nat
  BY DEF Ledger, Inv, TypeOK
<1>2. /\ DOMAIN commands' = DOMAIN commands /\ DOMAIN commands \subseteq Nat
      /\ \A j \in DOMAIN commands : commands'[j] = IF j = i THEN x ELSE commands[j]
  BY <1>1
<1>3. /\ OneEach(S) /\ Older(S, nextId') /\ Apart(S, pending) /\ Apart(S, mteFlags)
      /\ \A q \in 0..2 : Apart(S, cubeSets'[q])
  BY DEF Ledger, OneHome, OneEach, Older, Apart
<1>4. \A j \in DOMAIN commands :
        commands'[j].sets \subseteq commands[j].sets /\ Apart(S, commands'[j].sets)
  <2> SUFFICES ASSUME NEW j \in DOMAIN commands
               PROVE  commands'[j].sets \subseteq commands[j].sets /\ Apart(S, commands'[j].sets)
    OBVIOUS
  <2>1. CASE j = i
    <3>1. commands'[j] = x
      BY <1>2, <2>1
    <3>2. OneEach(commands[i].sets)
      BY DEF Ledger, OneHome
    <3> QED
      BY <2>1, <3>1, <3>2 DEF OneEach, Apart
  <2>2. CASE j # i
    <3>1. commands'[j] = commands[j]
      BY <1>2, <2>2
    <3>2. Apart(commands[i].sets, commands[j].sets)
      BY <2>2 DEF Ledger, OneHome
    <3> QED
      BY <3>1, <3>2 DEF Apart
  <2> QED
    BY <2>1, <2>2
<1>5. OneHome'
  <2>1. \A j \in DOMAIN commands' :
          /\ j + 0 \in DOMAIN commands
          /\ commands'[j].sets \subseteq commands[j + 0].sets
          /\ Apart(S, commands'[j].sets)
    BY <1>2, <1>4
  <2>2. /\ nextId \in Nat /\ nextId' \in Nat /\ nextId <= nextId' /\ 0 \in {0, 1}
        /\ DOMAIN commands' \subseteq Nat /\ mteFlags' = mteFlags
        /\ \A q \in 0..2 : cubeSets'[q] \subseteq cubeSets[q] /\ Apart(S, cubeSets'[q])
    BY <1>1, <1>2, <1>3
  <2>3. OneHome
    BY DEF Ledger
  <2> QED
    BY <1>3, <2>1, <2>2, <2>3, HomeAdmit
<1> QED
  BY <1>3, <1>5

\* Nothing moves: the sets stay where they are.
LEMMA HomeStays ==
  ASSUME Ledger, UNCHANGED <<pending, mteFlags, cubeSets, commands>>,
         nextId' = nextId \/ nextId' = nextId + 1
  PROVE  OneHome'
<1>1. /\ commands \in Seq(Command) /\ nextId \in Nat /\ nextId' \in Nat /\ nextId <= nextId'
  BY DEF Ledger, Inv, TypeOK
<1>2. \A S : Older(S, nextId) => Older(S, nextId')
  BY <1>1 DEF Older
<1> QED
  BY <1>2 DEF Ledger, OneHome

\* Nothing is admitted or taken.
LEMMA BalanceStays ==
  ASSUME Ledger, UNCHANGED <<pending, counters, saturated, issued, consumed>>
  PROVE  Balance'
  BY DEF Ledger, Balance, TokenConservation

\* A set that is admitted on arrival.
LEMMA TriggeredSet ==
  ASSUME Ledger, NEW S, NEW e, S = {e}, e.id = nextId, Schedule(S, now),
         nextId' = nextId + 1,
         UNCHANGED <<mteFlags, cubeSets, commands, counters, saturated, consumed>>
  PROVE  OneHome' /\ Balance'
<1>1. commands \in Seq(Command) /\ nextId \in Nat /\ DOMAIN commands \subseteq Nat
  BY DEF Ledger, Inv, TypeOK
<1>2. /\ OneEach(S) /\ Older(S, nextId') /\ Apart(S, pending) /\ Apart(S, mteFlags)
      /\ \A q \in 0..2 : Apart(S, cubeSets[q])
      /\ \A j \in DOMAIN commands : Apart(S, commands[j].sets)
  BY <1>1 DEF Ledger, OneHome, OneEach, Older, Apart
<1>3. pending' = pending \cup {PendingEntry(f, now) : f \in S}
  BY DEF Schedule
<1>4. \A j \in DOMAIN commands' : j + 0 = j
  BY <1>1
<1>5. OneHome'
  <2>1. \A j \in DOMAIN commands' :
          /\ j + 0 \in DOMAIN commands
          /\ commands'[j].sets \subseteq commands[j + 0].sets
          /\ Apart(S, commands'[j].sets)
    BY <1>2, <1>4
  <2>2. /\ nextId \in Nat /\ nextId' \in Nat /\ nextId <= nextId' /\ 0 \in {0, 1}
        /\ DOMAIN commands' \subseteq Nat /\ mteFlags' = mteFlags
        /\ \A q \in 0..2 : cubeSets'[q] \subseteq cubeSets[q] /\ Apart(S, cubeSets'[q])
    BY <1>1, <1>2
  <2>3. OneHome
    BY DEF Ledger
  <2> QED
    BY <1>2, <1>3, <2>1, <2>2, <2>3, HomeAdmit
<1>6. IsFiniteSet(S)
  BY FS_Singleton
<1>7. Balance'
  <2> DEFINE K == {}
  <2>1. K \subseteq Keys /\ (\A k \in K : counters[k] > 0) /\ K = {}
    OBVIOUS
  <2> HIDE DEF K
  <2> QED
    BY <1>2, <1>6, <2>1, BalanceKeeps
<1> QED
  BY <1>5, <1>7

\* Waits take visible tokens.
LEMMA Taken ==
  ASSUME Ledger, NEW K, K \subseteq Keys, \A k \in K : counters[k] > 0, Consume(K),
         UNCHANGED <<pending, saturated, issued>>
  PROVE  Balance'
<1> DEFINE S == {}
<1>1. S = {}
  OBVIOUS
<1> HIDE DEF S
<1>2. IsFiniteSet(S) /\ OneEach(S) /\ Apart(S, pending)
  BY <1>1, NoneAdmitted
<1> QED
  BY <1>1, <1>2, BalanceKeeps

\* A set queued for a checkpoint.
LEMMA QueuedSet ==
  ASSUME Ledger, NEW k \in Keys, DispatchCubeSet(k)
  PROVE  OneHome' /\ Balance'
<1> DEFINE e == [id |-> nextId, key |-> k]
<1>1. /\ CubeSetQueue(k) \in 0..2 /\ nextId \in Nat /\ nextId' = nextId + 1
      /\ cubeSets \in [0..2 -> SUBSET Flag]
  BY DEF CubeSetQueue, DispatchCubeSet, Fresh, Ledger, Inv, TypeOK
<1>2. /\ cubeSets' = [cubeSets EXCEPT ![CubeSetQueue(k)] = @ \cup {e}]
      /\ UNCHANGED <<pending, counters, saturated, mteFlags, commands, issued, consumed>>
  BY DEF DispatchCubeSet, tableVars, mteVars, histVars
<1>3. e.id = nextId
  OBVIOUS
<1> HIDE DEF e
<1>4. \A q \in 0..2 : \A f \in cubeSets'[q] : f \in cubeSets[q] \/ (f = e /\ q = CubeSetQueue(k))
  BY <1>1, <1>2
<1>5. OneHome
  BY DEF Ledger
<1>6. /\ Older(pending', nextId') /\ OneEach(pending')
      /\ Older(mteFlags', nextId') /\ OneEach(mteFlags') /\ Apart(mteFlags', pending')
  BY <1>1, <1>2, <1>5 DEF OneHome, Older
<1>7. ASSUME NEW q \in 0..2
      PROVE  /\ Older(cubeSets'[q], nextId') /\ OneEach(cubeSets'[q])
             /\ Apart(cubeSets'[q], pending') /\ Apart(cubeSets'[q], mteFlags')
             /\ \A r \in 0..2 : q # r => Apart(cubeSets'[q], cubeSets'[r])
  <2>1. Older(cubeSets'[q], nextId') /\ OneEach(cubeSets'[q])
    BY <1>1, <1>3, <1>4, <1>5 DEF OneHome, Older, OneEach
  <2>2. Apart(cubeSets'[q], pending') /\ Apart(cubeSets'[q], mteFlags')
    BY <1>1, <1>2, <1>3, <1>4, <1>5 DEF OneHome, Older, Apart
  <2>3. ASSUME NEW r \in 0..2, q # r PROVE Apart(cubeSets'[q], cubeSets'[r])
    <3> SUFFICES ASSUME NEW a \in cubeSets'[q], NEW b \in cubeSets'[r] PROVE a.id # b.id
      BY DEF Apart
    <3>1. Apart(cubeSets[q], cubeSets[r]) /\ Older(cubeSets[q], nextId) /\ Older(cubeSets[r], nextId)
      BY <1>5, <2>3 DEF OneHome
    <3> QED
      BY <1>1, <1>3, <1>4, <2>3, <3>1 DEF Older, Apart
  <2> QED
    BY <2>1, <2>2, <2>3
<1>8. ASSUME NEW i \in DOMAIN commands'
      PROVE  LET S == commands'[i].sets
             IN  /\ Older(S, nextId') /\ OneEach(S)
                 /\ Apart(S, pending') /\ Apart(S, mteFlags')
                 /\ \A q \in 0..2 : Apart(S, cubeSets'[q])
                 /\ \A j \in DOMAIN commands' : i # j => Apart(S, commands'[j].sets)
  <2> DEFINE S == commands'[i].sets
  <2>1. /\ Older(S, nextId) /\ OneEach(S) /\ Apart(S, pending') /\ Apart(S, mteFlags')
        /\ \A q \in 0..2 : Apart(S, cubeSets[q])
        /\ \A j \in DOMAIN commands' : i # j => Apart(S, commands'[j].sets)
    BY <1>2, <1>5 DEF OneHome
  <2> HIDE DEF S
  <2>2. Older(S, nextId') /\ \A q \in 0..2 : Apart(S, cubeSets'[q])
    BY <1>1, <1>3, <1>4, <2>1 DEF Older, Apart
  <2> QED
    BY <2>1, <2>2 DEF S
<1>9. OneHome'
  BY <1>6, <1>7, <1>8, Zenon DEF OneHome
<1> QED
  BY <1>2, <1>9, BalanceStays

\* A flag queued for a transfer.
LEMMA QueuedFlag ==
  ASSUME Ledger, NEW op \in {"set", "wait"}, NEW k \in Keys, EnqueueMteFlag(op, k)
  PROVE  OneHome' /\ Balance'
<1> DEFINE e == [id |-> nextId, op |-> op, key |-> k, timestamp |-> CaptureMte]
<1>1. /\ nextId \in Nat /\ nextId' = nextId + 1
      /\ UNCHANGED <<pending, counters, saturated, cubeSets, commands, issued, consumed>>
      /\ mteFlags' = mteFlags \/ mteFlags' = mteFlags \cup {e}
  BY DEF EnqueueMteFlag, Mte1Dispatch, Fresh, tableVars, cubeVars, histVars, Ledger, Inv, TypeOK
<1>2. e.id = nextId
  OBVIOUS
<1> HIDE DEF e
<1>3. \A f \in mteFlags' : f \in mteFlags \/ f = e
  BY <1>1
<1>4. OneHome
  BY DEF Ledger
<1>5. /\ Older(pending', nextId') /\ OneEach(pending')
      /\ Older(mteFlags', nextId') /\ OneEach(mteFlags') /\ Apart(mteFlags', pending')
  BY <1>1, <1>2, <1>3, <1>4 DEF OneHome, Older, OneEach, Apart
<1>6. \A q \in 0..2 :
        /\ Older(cubeSets'[q], nextId') /\ OneEach(cubeSets'[q])
        /\ Apart(cubeSets'[q], pending') /\ Apart(cubeSets'[q], mteFlags')
        /\ \A r \in 0..2 : q # r => Apart(cubeSets'[q], cubeSets'[r])
  BY <1>1, <1>2, <1>3, <1>4 DEF OneHome, Older, Apart
<1>7. ASSUME NEW i \in DOMAIN commands'
      PROVE  LET S == commands'[i].sets
             IN  /\ Older(S, nextId') /\ OneEach(S)
                 /\ Apart(S, pending') /\ Apart(S, mteFlags')
                 /\ \A q \in 0..2 : Apart(S, cubeSets'[q])
                 /\ \A j \in DOMAIN commands' : i # j => Apart(S, commands'[j].sets)
  <2> DEFINE S == commands'[i].sets
  <2>1. /\ Older(S, nextId) /\ OneEach(S) /\ Apart(S, pending') /\ Apart(S, mteFlags)
        /\ \A q \in 0..2 : Apart(S, cubeSets'[q])
        /\ \A j \in DOMAIN commands' : i # j => Apart(S, commands'[j].sets)
    BY <1>1, <1>4 DEF OneHome
  <2> HIDE DEF S
  <2>2. Older(S, nextId') /\ Apart(S, mteFlags')
    BY <1>1, <1>2, <1>3, <2>1 DEF Older, Apart
  <2> QED
    BY <2>1, <2>2 DEF S
<1>8. OneHome'
  BY <1>5, <1>6, <1>7, Zenon DEF OneHome
<1> QED
  BY <1>1, <1>8, BalanceStays

\* A transfer captures the sets of its memory.
LEMMA Captured ==
  ASSUME Ledger, NEW m \in TransferMemories, NEW p \in {"generating", "disabled"}, IssueTransfer(m, p)
  PROVE  OneHome' /\ Balance'
<1> DEFINE mine == {f \in mteFlags : f.id < nextId /\ f.key.memory = m}
           x == [id |-> nextId, phase |-> p, done |-> {},
                 waits |-> {f \in mine : f.op = "wait"}, sets |-> {f \in mine : f.op = "set"}]
<1>1. /\ mteFlags' = mteFlags \ mine /\ commands' = Append(commands, x)
      /\ UNCHANGED <<pending, counters, saturated, cubeSets, issued, consumed>>
      /\ nextId \in Nat /\ nextId' = nextId + 1
  BY DEF IssueTransfer, Mte1Dispatch, Fresh, tableVars, cubeVars, histVars, Ledger, Inv, TypeOK
<1>2. x.sets \subseteq mine /\ mine \subseteq mteFlags
  OBVIOUS
<1> HIDE DEF mine, x
<1>3. commands \in Seq(Command)
  BY DEF Ledger, Inv, TypeOK
<1>4. \A j \in DOMAIN commands' : \/ j \in DOMAIN commands /\ commands'[j] = commands[j]
                                  \/ j = Len(commands) + 1 /\ j \notin DOMAIN commands /\ commands'[j] = x
  BY <1>1, <1>3
<1>5. OneHome
  BY DEF Ledger
<1>6. /\ Older(pending', nextId') /\ OneEach(pending')
      /\ Older(mteFlags', nextId') /\ OneEach(mteFlags') /\ Apart(mteFlags', pending')
  BY <1>1, <1>5 DEF OneHome, Older, OneEach, Apart
<1>7. \A q \in 0..2 :
        /\ Older(cubeSets'[q], nextId') /\ OneEach(cubeSets'[q])
        /\ Apart(cubeSets'[q], pending') /\ Apart(cubeSets'[q], mteFlags')
        /\ \A r \in 0..2 : q # r => Apart(cubeSets'[q], cubeSets'[r])
  BY <1>1, <1>5 DEF OneHome, Older, Apart
<1>8. ASSUME NEW i \in DOMAIN commands'
      PROVE  LET S == commands'[i].sets
             IN  /\ Older(S, nextId') /\ OneEach(S)
                 /\ Apart(S, pending') /\ Apart(S, mteFlags')
                 /\ \A q \in 0..2 : Apart(S, cubeSets'[q])
                 /\ \A j \in DOMAIN commands' : i # j => Apart(S, commands'[j].sets)
  <2> DEFINE S == commands'[i].sets
  <2>1. CASE i \in DOMAIN commands /\ S = commands[i].sets
    <3>1. /\ Older(S, nextId) /\ OneEach(S) /\ Apart(S, pending') /\ Apart(S, mteFlags)
          /\ \A q \in 0..2 : Apart(S, cubeSets'[q])
          /\ \A j \in DOMAIN commands : i # j => Apart(S, commands[j].sets)
      BY <1>1, <1>5, <2>1 DEF OneHome
    <3> HIDE DEF S
    <3>2. Older(S, nextId') /\ Apart(S, mteFlags') /\ Apart(S, x.sets)
      BY <1>1, <1>2, <3>1 DEF Older, Apart
    <3>3. \A j \in DOMAIN commands' : i # j => Apart(S, commands'[j].sets)
      BY <1>4, <3>1, <3>2
    <3> QED
      BY <3>1, <3>2, <3>3 DEF S
  <2>2. CASE i \notin DOMAIN commands /\ S = x.sets
    <3>1. S \subseteq mteFlags /\ S \cap mteFlags' = {}
      BY <1>1, <1>2, <2>2
    <3>2. \A j \in DOMAIN commands' : i # j => j \in DOMAIN commands /\ commands'[j] = commands[j]
      BY <1>4, <2>2
    <3> HIDE DEF S
    <3>3. Older(S, nextId') /\ OneEach(S) /\ Apart(S, pending') /\ Apart(S, mteFlags')
      BY <1>1, <1>5, <3>1 DEF OneHome, Older, OneEach, Apart
    <3>4. \A q \in 0..2 : Apart(S, cubeSets'[q])
      BY <1>1, <1>5, <3>1 DEF OneHome, Apart
    <3>5. \A j \in DOMAIN commands' : i # j => Apart(S, commands'[j].sets)
      BY <1>5, <3>1, <3>2 DEF OneHome, Apart
    <3> QED
      BY <3>3, <3>4, <3>5 DEF S
  <2> QED
    BY <1>4, <2>1, <2>2
<1>9. OneHome'
  BY <1>6, <1>7, <1>8, Zenon DEF OneHome
<1> QED
  BY <1>1, <1>9, BalanceStays

\* Sets of the Cube queues, as they are admitted.
LEMMA UntimedSets ==
  ASSUME NEW go, IsFiniteSet(go), OneEach(go), NEW k
  PROVE  LET S == {Untimed(s) : s \in go}
         IN  /\ IsFiniteSet(S) /\ OneEach(S)
             /\ Cardinality(Of(S, k)) = Cardinality(Of(go, k))
<1> DEFINE f == [s \in go |-> Untimed(s)]
           S == {f[s] : s \in go}
<1>1. \A s \in go : f[s].id = s.id /\ f[s].key = s.key
  BY DEF Untimed
<1>2. S = {Untimed(s) : s \in go}
  OBVIOUS
<1> HIDE DEF f
<1>3. IsFiniteSet(S) /\ OneEach(S) /\ Cardinality(Of(S, k)) = Cardinality(Of(go, k))
  BY <1>1, Renamed
<1> QED
  BY <1>2, <1>3, Zenon

\* Sets leave the Cube queues for the pending list.
LEMMA HomeReleased ==
  ASSUME Ledger, NEW go, go \subseteq cubeSets[0] \cup cubeSets[1] \cup cubeSets[2], NEW t,
         \A q \in 0..2 : cubeSets'[q] \subseteq cubeSets[q] \ go,
         pending' \subseteq pending \cup {PendingEntry(e, t) : e \in {Untimed(s) : s \in go}},
         UNCHANGED <<mteFlags, commands, nextId>>
  PROVE  /\ IsFiniteSet(go) /\ OneEach(go)
         /\ Apart({Untimed(s) : s \in go}, pending)
         /\ OneHome'
<1> DEFINE S == {Untimed(s) : s \in go}
<1>1. /\ commands \in Seq(Command) /\ nextId \in Nat /\ DOMAIN commands \subseteq Nat
      /\ OneHome
  BY DEF Ledger, Inv, TypeOK
<1>2. \A s \in go : \E q \in 0..2 : s \in cubeSets[q]
  OBVIOUS
<1>3. OneEach(go) /\ Older(go, nextId') /\ Apart(go, pending) /\ Apart(go, mteFlags)
  BY <1>1, <1>2 DEF OneHome, OneEach, Older, Apart
<1>4. \A q \in 0..2 : Apart(go, cubeSets'[q])
  <2> SUFFICES ASSUME NEW q \in 0..2, NEW a \in go, NEW b \in cubeSets'[q] PROVE a.id # b.id
    BY DEF Apart
  <2>1. PICK r \in 0..2 : a \in cubeSets[r]
    BY <1>2
  <2>2. b \in cubeSets[q] /\ a # b
    OBVIOUS
  <2> QED
    BY <1>1, <2>1, <2>2 DEF OneHome, OneEach, Apart
<1>5. \A j \in DOMAIN commands : Apart(go, commands[j].sets)
  BY <1>1, <1>2 DEF OneHome, Apart
<1>6. IsFiniteSet(go)
  <2>1. IsFiniteSet(cubeSets[0]) /\ IsFiniteSet(cubeSets[1]) /\ IsFiniteSet(cubeSets[2])
    BY DEF Ledger, Inv, FiniteOK
  <2>2. IsFiniteSet(cubeSets[0] \cup cubeSets[1])
    BY <2>1, FS_Union
  <2>3. IsFiniteSet(cubeSets[0] \cup cubeSets[1] \cup cubeSets[2])
    BY <2>1, <2>2, FS_Union
  <2> QED
    BY <2>3, FS_Subset
<1>7. \A e \in S : \E s \in go : e.id = s.id
  BY DEF Untimed
<1>8. OneEach(S)
  BY <1>3, <1>6, UntimedSets
<1> HIDE DEF S
<1>9. Older(S, nextId') /\ Apart(S, pending) /\ Apart(S, mteFlags)
  BY <1>3, <1>7 DEF Older, Apart
<1>10. \A q \in 0..2 : cubeSets'[q] \subseteq cubeSets[q] /\ Apart(S, cubeSets'[q])
  BY <1>4, <1>7 DEF Apart
<1>11. \A j \in DOMAIN commands' :
         /\ j + 0 \in DOMAIN commands
         /\ commands'[j].sets \subseteq commands[j + 0].sets
         /\ Apart(S, commands'[j].sets)
  BY <1>1, <1>5, <1>7 DEF Apart
<1>12. pending' \subseteq pending \cup {PendingEntry(e, t) : e \in S}
  BY DEF S
<1>13. /\ nextId' \in Nat /\ nextId <= nextId' /\ 0 \in {0, 1}
       /\ DOMAIN commands' \subseteq Nat /\ mteFlags' = mteFlags
  BY <1>1
<1>14. OneHome'
  BY <1>1, <1>8, <1>9, <1>10, <1>11, <1>12, <1>13, HomeAdmit
<1> QED
  BY <1>3, <1>6, <1>9, <1>14 DEF S

\* The unit-flag release at the start of an MMAD.
LEMMA StartedMmad ==
  ASSUME Ledger, NEW b \in BOOLEAN, StartMmad(b)
  PROVE  OneHome' /\ Balance'
<1>0. UNCHANGED <<mteFlags, commands, nextId, counters, saturated, consumed>>
  BY DEF StartMmad, mteVars
<1>1. CASE ~b
  <2>1. UNCHANGED <<pending, issued, cubeSets>>
    BY <1>1 DEF StartMmad
  <2> QED
    BY <1>0, <2>1, HomeStays, BalanceStays
<1>2. CASE b
  <2> DEFINE go == Released(cubeSets[2], Head(flights), counters)
             S  == {Untimed(s) : s \in go}
  <2>1. Schedule(S, now) /\ cubeSets' = [cubeSets EXCEPT ![2] = @ \ go]
    BY <1>2 DEF StartMmad
  <2>2. go \subseteq cubeSets[2]
    BY DEF Released
  <2> HIDE DEF go
  <2>3. \A q \in 0..2 : cubeSets'[q] \subseteq cubeSets[q] \ go
    <3> SUFFICES ASSUME NEW q \in 0..2, NEW s \in cubeSets'[q] PROVE s \in cubeSets[q] /\ s \notin go
      OBVIOUS
    <3>1. cubeSets \in [0..2 -> SUBSET Flag] /\ OneHome
      BY DEF Ledger, Inv, TypeOK
    <3>2. CASE q = 2
      BY <2>1, <3>1, <3>2
    <3>3. CASE q # 2
      <4>1. s \in cubeSets[q]
        BY <2>1, <3>1, <3>3
      <4>2. Apart(cubeSets[q], cubeSets[2])
        BY <3>1, <3>3 DEF OneHome
      <4> QED
        BY <2>2, <4>1, <4>2 DEF Apart
    <3> QED
      BY <3>2, <3>3
  <2>4. pending' \subseteq pending \cup {PendingEntry(e, now) : e \in S}
    BY <2>1 DEF Schedule
  <2>5. IsFiniteSet(go) /\ OneEach(go) /\ Apart(S, pending) /\ OneHome'
    BY <1>0, <2>2, <2>3, <2>4, HomeReleased
  <2>6. IsFiniteSet(S) /\ OneEach(S)
    BY <2>5, UntimedSets
  <2> HIDE DEF S
  <2>7. Balance'
    <3> DEFINE K == {}
    <3>1. K \subseteq Keys /\ (\A k \in K : counters[k] > 0) /\ K = {}
      OBVIOUS
    <3> HIDE DEF K
    <3> QED
      BY <1>0, <2>1, <2>5, <2>6, <3>1, BalanceKeeps
  <2> QED
    BY <2>5, <2>7
<1> QED
  BY <1>1, <1>2

\* The command actions.
LEMMA CommandSteps ==
  ASSUME Ledger, NEW i \in DOMAIN commands,
         ResolveDisabled(i) \/ ResolveWaits(i) \/ CompleteTransfer(i)
  PROVE  OneHome' /\ Balance'
<1> DEFINE cmd == commands[i]
<1>0. Inv /\ commands \in Seq(Command) /\ now \in Nat
  BY DEF Ledger, Inv, TypeOK
<1>1. CASE ResolveDisabled(i)
  <2> DEFINE sets  == {f \in commands[i].sets : Admits(counters, f.key)}
             waits == IF sets # commands[i].sets THEN {}
                      ELSE {f \in commands[i].waits : counters[f.key] > 0}
             done  == [cmd EXCEPT !.sets = {}, !.waits = {}, !.phase = "sent", !.done = {now}]
             part  == [cmd EXCEPT !.sets = @ \ sets, !.waits = @ \ waits]
             K     == {f.key : f \in waits}
  <2>1. /\ Schedule(sets, now) /\ Consume(K)
        /\ \/ commands' = [commands EXCEPT ![i] = done] /\ sets = commands[i].sets
           \/ commands' = [commands EXCEPT ![i] = part]
        /\ UNCHANGED <<saturated, cubeSets, mteFlags, nextId>>
    BY <1>1 DEF ResolveDisabled, cubeVars
  <2>2. sets \subseteq commands[i].sets /\ waits \subseteq commands[i].waits
        /\ \A f \in waits : counters[f.key] > 0
    OBVIOUS
  <2> HIDE DEF sets, waits
  <2>3. /\ done \in Command /\ done.sets = {}
        /\ part \in Command /\ part.sets = commands[i].sets \ sets
    BY <1>0, CommandSets DEF Command
  <2> HIDE DEF done, part
  <2>4. pending' \subseteq pending \cup {PendingEntry(e, now) : e \in sets}
    BY <2>1 DEF Schedule
  <2>5. OneEach(sets) /\ Apart(sets, pending) /\ OneHome'
    <3>1. CASE commands' = [commands EXCEPT ![i] = done] /\ sets = commands[i].sets
      BY <2>1, <2>2, <2>3, <2>4, <3>1, HomeCommand
    <3>2. CASE commands' = [commands EXCEPT ![i] = part]
      BY <2>1, <2>2, <2>3, <2>4, <3>2, HomeCommand
    <3> QED
      BY <2>1, <3>1, <3>2
  <2>6. IsFiniteSet(sets)
    BY <1>0, <2>2, FS_Subset, CommandSets
  <2>7. K \subseteq Keys /\ \A k \in K : counters[k] > 0
    BY <1>0, <2>2, CommandSets
  <2> HIDE DEF K
  <2> QED
    BY <2>1, <2>5, <2>6, <2>7, BalanceKeeps
<1>2. CASE ResolveWaits(i)
  <2> DEFINE go == {f \in commands[i].waits : counters[f.key] > 0}
             ph == IF go = cmd.waits THEN "sent" ELSE cmd.phase
             x  == [cmd EXCEPT !.waits = @ \ go, !.phase = ph]
             K  == {f.key : f \in go}
             S  == {}
  <2>1. /\ Consume(K) /\ commands' = [commands EXCEPT ![i] = x]
        /\ UNCHANGED <<pending, saturated, cubeSets, mteFlags, nextId, issued>>
    BY <1>2 DEF ResolveWaits, cubeVars
  <2>2. ph \in {"generating", "disabled", "sent"}
    BY <1>0, CommandSets DEF Command
  <2>3. K \subseteq Keys /\ \A k \in K : counters[k] > 0
    BY <1>0, CommandSets
  <2> HIDE DEF go, ph, K
  <2>4. x \in Command /\ x.sets = commands[i].sets \ S /\ S \subseteq commands[i].sets
    BY <1>0, <2>2, CommandSets DEF Command
  <2> HIDE DEF x, S
  <2>5. pending' \subseteq pending \cup {PendingEntry(e, now) : e \in S}
    BY <2>1
  <2>6. OneHome'
    BY <2>1, <2>4, <2>5, HomeCommand
  <2> QED
    BY <2>1, <2>3, <2>6, Taken
<1>3. CASE CompleteTransfer(i)
  <2> DEFINE x == [cmd EXCEPT !.done = {now}]
             S == {}
  <2>1. /\ commands' = [commands EXCEPT ![i] = x]
        /\ UNCHANGED <<pending, counters, consumed, saturated, cubeSets, mteFlags, nextId, issued>>
    BY <1>3 DEF CompleteTransfer, cubeVars, tableVars, histVars
  <2>2. x \in Command /\ x.sets = commands[i].sets \ S /\ S \subseteq commands[i].sets
    BY <1>0, CommandSets DEF Command
  <2> HIDE DEF x, S
  <2>3. pending' \subseteq pending \cup {PendingEntry(e, now) : e \in S}
    BY <2>1
  <2>4. OneHome'
    BY <2>1, <2>2, <2>3, HomeCommand
  <2> QED
    BY <2>1, <2>4, BalanceStays
<1> QED
  BY <1>1, <1>2, <1>3

\* The retirement of the first transfer, complete or not.
LEMMA Retired ==
  ASSUME Ledger, RetireTransfer
  PROVE  OneHome' /\ Balance'
<1> DEFINE go  == {f \in Head(commands).sets : Admits(counters, f.key)}
           cmd == commands[1]
           x   == [cmd EXCEPT !.sets = @ \ go]
<1>0. Inv /\ commands \in Seq(Command) /\ commands # <<>> /\ now \in Nat /\ nextId \in Nat
  BY DEF RetireTransfer, Ledger, Inv, TypeOK
<1>1. 1 \in DOMAIN commands /\ Head(commands) = commands[1]
  BY <1>0
<1>2. /\ Schedule(go, now)
      /\ commands' = Tail(commands) \/ commands' = [commands EXCEPT ![1] = x]
      /\ UNCHANGED <<counters, saturated, cubeSets, mteFlags, nextId, consumed>>
  BY DEF RetireTransfer, cubeVars
<1>3. go \subseteq commands[1].sets
  BY <1>1
<1> HIDE DEF go
<1>4. IsFiniteSet(go)
  BY <1>0, <1>1, <1>3, FS_Subset, CommandSets
<1>5. x \in Command /\ x.sets = commands[1].sets \ go
  BY <1>0, <1>1, CommandSets DEF Command
<1> HIDE DEF x
<1>6. pending' \subseteq pending \cup {PendingEntry(e, now) : e \in go}
  BY <1>2 DEF Schedule
<1>7. OneEach(go) /\ Apart(go, pending) /\ OneHome'
  <2>1. CASE commands' = [commands EXCEPT ![1] = x]
    BY <1>1, <1>2, <1>3, <1>5, <1>6, <2>1, HomeCommand
  <2>2. CASE commands' = Tail(commands)
    <3>1. /\ DOMAIN commands' \subseteq Nat \ {0}
          /\ \A j \in DOMAIN commands' : j + 1 \in DOMAIN commands /\ commands'[j] = commands[j + 1]
      BY <1>0, <2>2
    <3>2. OneHome
      BY DEF Ledger
    <3>3. /\ OneEach(go) /\ Older(go, nextId') /\ Apart(go, pending) /\ Apart(go, mteFlags)
          /\ \A q \in 0..2 : cubeSets'[q] \subseteq cubeSets[q] /\ Apart(go, cubeSets'[q])
      BY <1>1, <1>2, <1>3, <3>2 DEF OneHome, OneEach, Older, Apart
    <3>4. \A j \in DOMAIN commands' : 
            /\ j + 1 \in DOMAIN commands
            /\ commands'[j].sets \subseteq commands[j + 1].sets
            /\ Apart(go, commands'[j].sets)
      <4> SUFFICES ASSUME NEW j \in DOMAIN commands'
                   PROVE  /\ j + 1 \in DOMAIN commands
                          /\ commands'[j].sets \subseteq commands[j + 1].sets
                          /\ Apart(go, commands'[j].sets)
        OBVIOUS
      <4>1. j + 1 \in DOMAIN commands /\ commands'[j] = commands[j + 1] /\ j + 1 # 1
        BY <3>1
      <4>2. Apart(commands[1].sets, commands[j + 1].sets)
        BY <1>1, <3>2, <4>1 DEF OneHome
      <4> QED
        BY <1>3, <4>1, <4>2 DEF Apart
    <3>5. /\ nextId \in Nat /\ nextId' \in Nat /\ nextId <= nextId' /\ 1 \in {0, 1}
          /\ DOMAIN commands' \subseteq Nat /\ mteFlags' = mteFlags
      BY <1>0, <1>2, <3>1
    <3>6. OneHome'
      BY <1>6, <3>2, <3>3, <3>4, <3>5, HomeAdmit
    <3> QED
      BY <3>3, <3>6
  <2> QED
    BY <1>2, <2>1, <2>2
<1>8. Balance'
  <2> DEFINE K == {}
  <2>1. K \subseteq Keys /\ (\A k \in K : counters[k] > 0) /\ K = {}
    OBVIOUS
  <2> HIDE DEF K
  <2> QED
    BY <1>2, <1>4, <1>7, <2>1, BalanceKeeps
<1> QED
  BY <1>7, <1>8

\* A delivery scan takes what is due from the list to the counters.
LEMMA DeliveryCounts ==
  ASSUME Ledger, NEW t, NEW k \in Keys
  PROVE  LET left == Cardinality(Of(LeftAfter(t), k))
         IN  /\ left \in Nat /\ VisibleAfter(t)[k] \in Nat /\ Overflow(t, k) \in Nat
             /\ left + VisibleAfter(t)[k] + Overflow(t, k)
                  = Cardinality(Of(pending, k)) + counters[k]
<1>1. IsFiniteSet(pending) /\ counters \in [Keys -> 0..Capacity]
  BY DEF Ledger, Inv, FiniteOK, TypeOK
<1>2. CASE t \notin notifications
  <2>1. LeftAfter(t) = pending /\ VisibleAfter(t) = counters /\ Overflow(t, k) = 0
    BY <1>2 DEF LeftAfter, VisibleAfter, Overflow
  <2>2. IsFiniteSet(Of(pending, k))
    BY <1>1, FS_Subset DEF Of
  <2>3. Cardinality(Of(pending, k)) \in Nat
    BY <2>2, FS_CardinalityType
  <2>4. counters[k] \in Nat
    BY <1>1, LimitAssumption
  <2> QED
    BY <2>1, <2>3, <2>4
<1>3. CASE t \in notifications
  <2> DEFINE A == Of(pending \ Due(t), k)
             B == Of(Due(t), k)
             d == DueCount(t, k)
  <2>1. Due(t) \subseteq pending
    BY DEF Due
  <2>2. IsFiniteSet(A) /\ IsFiniteSet(B) /\ A \cup B = Of(pending, k) /\ A \cap B = {}
    BY <1>1, <2>1, FS_Subset DEF Of
  <2>3. d = Cardinality(B)
    BY DEF DueCount
  <2>4. LeftAfter(t) = pending \ Due(t) /\ VisibleAfter(t)[k] = Delivered(t, k)
        /\ Overflow(t, k) = counters[k] + d - Delivered(t, k)
    BY <1>3 DEF LeftAfter, VisibleAfter, Overflow
  <2>5. Delivered(t, k) = IF counters[k] + d <= Capacity THEN counters[k] + d ELSE Capacity
    BY DEF Delivered
  <2> HIDE DEF A, B, d
  <2>6. /\ Cardinality(A) \in Nat /\ Cardinality(B) \in Nat
        /\ Cardinality(A \cup B) = Cardinality(A) + Cardinality(B)
    BY <2>2, Parts
  <2>7. Cardinality(Of(pending, k)) = Cardinality(A) + d
    BY <2>2, <2>3, <2>6, Zenon
  <2>8. counters[k] \in Nat /\ d \in Nat
    BY <1>1, <2>3, <2>6, LimitAssumption
  <2>9. /\ Delivered(t, k) \in Nat /\ Overflow(t, k) \in Nat
        /\ Delivered(t, k) + Overflow(t, k) = counters[k] + d
    BY <2>4, <2>5, <2>8, LimitAssumption
  <2>10. Cardinality(Of(LeftAfter(t), k)) = Cardinality(A)
    BY <2>4 DEF A
  <2> QED
    BY <2>4, <2>6, <2>7, <2>8, <2>9, <2>10
<1> QED
  BY <1>2, <1>3

\* One turn of advance_to's loop.
LEMMA Notified ==
  ASSUME Ledger, Notify
  PROVE  OneHome' /\ Balance'
<1>1. PICK t \in WakeTicks :
        LET c  == VisibleAfter(t)
            r(q) == CheckpointRelease(q, cubeSets[q], t, c)
            left == cubeSets[2] \ r(2)
            r3   == CheckpointRelease(3, left, t, c)
            all  == r(0) \cup r(1) \cup r(2) \cup r3
        IN /\ counters' = c
           /\ pending' = LeftAfter(t) \cup {PendingEntry(Untimed(s), t) : s \in all}
           /\ Issue(all)
           /\ saturated' = [k \in Keys |-> saturated[k] + Overflow(t, k)]
           /\ cubeSets' = [q \in 0..2 |-> IF q = 2 THEN left \ r3 ELSE cubeSets[q] \ r(q)]
  BY DEF Notify
<1> DEFINE c  == VisibleAfter(t)
           r(q) == CheckpointRelease(q, cubeSets[q], t, c)
           left == cubeSets[2] \ r(2)
           r3   == CheckpointRelease(3, left, t, c)
           all  == r(0) \cup r(1) \cup r(2) \cup r3
           S    == {Untimed(s) : s \in all}
           new  == {PendingEntry(e, t) : e \in S}
<1>2. UNCHANGED <<mteFlags, commands, nextId, consumed>>
  BY DEF Notify, mteVars
<1>3. \A q \in 0..2 : r(q) \subseteq cubeSets[q]
  BY DEF CheckpointRelease, Released
<1>4. r3 \subseteq cubeSets[2]
  BY DEF CheckpointRelease, Released
<1>5. /\ cubeSets' = [q \in 0..2 |-> IF q = 2 THEN left \ r3 ELSE cubeSets[q] \ r(q)]
      /\ pending' = LeftAfter(t) \cup new
      /\ counters' = c /\ Issue(all)
      /\ saturated' = [k \in Keys |-> saturated[k] + Overflow(t, k)]
  BY <1>1
<1> HIDE DEF r, r3
<1>6. all \subseteq cubeSets[0] \cup cubeSets[1] \cup cubeSets[2]
  BY <1>3, <1>4
<1>7. \A q \in 0..2 : cubeSets'[q] \subseteq cubeSets[q] \ all
  <2> SUFFICES ASSUME NEW q \in 0..2, NEW s \in cubeSets'[q] PROVE s \in cubeSets[q] /\ s \notin all
    OBVIOUS
  <2>1. s \in cubeSets[q] /\ s \notin r(q) /\ (q = 2 => s \notin r3)
    BY <1>5
  <2>2. \A p \in 0..2 : p # q => s \notin cubeSets[p]
    BY <2>1 DEF Ledger, OneHome, Apart
  <2> QED
    BY <1>3, <1>4, <2>1, <2>2
<1>8. LeftAfter(t) \subseteq pending
  BY DEF LeftAfter
<1> HIDE DEF all, c
<1>9. IsFiniteSet(all) /\ OneEach(all) /\ Apart(S, pending) /\ OneHome'
  <2>1. pending' \subseteq pending \cup {PendingEntry(e, t) : e \in {Untimed(s) : s \in all}}
    BY <1>5, <1>8
  <2> QED
    BY <1>2, <1>6, <1>7, <2>1, HomeReleased
<1>10. /\ IsFiniteSet(S) /\ OneEach(S)
       /\ \A k : Cardinality(Of(S, k)) = Cardinality(Of(all, k))
  BY <1>9, UntimedSets
<1> HIDE DEF S
<1>11. IsFiniteSet(LeftAfter(t)) /\ Apart(S, LeftAfter(t))
  BY <1>8, <1>9, FS_Subset DEF Apart, Ledger, Inv, FiniteOK
<1>12. \A k : Cardinality(Of(pending', k)) = Cardinality(Of(LeftAfter(t), k)) + Cardinality(Of(S, k))
  BY <1>5, <1>10, <1>11, AdmitCounts
<1>13. \A k : IsFiniteSet(Of(S, k)) /\ Cardinality(Of(S, k)) \in Nat
  <2>1. \A k : Of(S, k) \subseteq S
    BY DEF Of
  <2>2. \A k : IsFiniteSet(Of(S, k))
    BY <1>10, <2>1, FS_Subset
  <2> QED
    BY <2>2, FS_CardinalityType
<1>14. ASSUME NEW k \in Keys
       PROVE  /\ issued'[k] \in Nat /\ saturated'[k] \in Nat
              /\ issued'[k] = Cardinality(Of(pending', k)) + counters'[k] + consumed'[k] + saturated'[k]
  <2> DEFINE n == Cardinality(Of(S, k))
             l == Cardinality(Of(LeftAfter(t), k))
  <2>1. /\ issued[k] \in Nat /\ consumed[k] \in Nat /\ saturated[k] \in Nat
        /\ issued[k] = Cardinality(Of(pending, k)) + counters[k] + consumed[k] + saturated[k]
    BY DEF Ledger, Balance, TokenConservation
  <2>2. /\ l \in Nat /\ counters'[k] \in Nat /\ Overflow(t, k) \in Nat
        /\ l + counters'[k] + Overflow(t, k) = Cardinality(Of(pending, k)) + counters[k]
    BY <1>5, DeliveryCounts DEF c
  <2>3. Cardinality(Of(pending', k)) = l + n /\ n \in Nat
    BY <1>12, <1>13
  <2>4. issued'[k] = issued[k] + n
    BY <1>5, <1>10 DEF Issue
  <2>5. saturated'[k] = saturated[k] + Overflow(t, k) /\ consumed'[k] = consumed[k]
    BY <1>2, <1>5
  <2>6. Cardinality(Of(pending, k)) \in Nat /\ counters[k] \in Nat
    <3>1. IsFiniteSet(Of(pending, k))
      BY FS_Subset DEF Of, Ledger, Inv, FiniteOK
    <3>2. counters[k] \in Nat
      BY LimitAssumption DEF Ledger, Inv, TypeOK
    <3> QED
      BY <3>1, <3>2, FS_CardinalityType
  <2> HIDE DEF n, l
  <2>7. issued'[k] \in Nat /\ saturated'[k] \in Nat
    BY <2>1, <2>2, <2>3, <2>4, <2>5
  <2>8. issued'[k] = (l + n) + counters'[k] + consumed'[k] + saturated'[k]
    BY <2>1, <2>2, <2>3, <2>4, <2>5, <2>6
  <2> QED
    BY <2>3, <2>7, <2>8
<1>15. issued' \in [Keys -> Nat] /\ saturated' \in [Keys -> Nat] /\ consumed' \in [Keys -> Nat]
  <2>1. issued' = [k \in Keys |-> issued'[k]] /\ saturated' = [k \in Keys |-> saturated'[k]]
    BY <1>5 DEF Issue
  <2> QED
    BY <1>2, <1>14, <2>1 DEF Ledger, Balance
<1> QED
  BY <1>9, <1>14, <1>15 DEF Balance, TokenConservation

LEMMA InitLedger == Init => Ledger
<1> SUFFICES ASSUME Init PROVE Ledger
  OBVIOUS
<1>1. Inv
  BY InitInv
<1>2. OneHome
  BY DEF Init, OneHome, Older, OneEach, Apart
<1>3. Balance
  <2>1. ASSUME NEW k \in Keys
        PROVE  /\ issued[k] = 0 /\ counters[k] = 0 /\ consumed[k] = 0 /\ saturated[k] = 0
               /\ Of(pending, k) = {}
    BY DEF Init, Of
  <2>2. Cardinality({}) = 0
    BY FS_EmptySet
  <2>3. TokenConservation
    BY <2>1, <2>2 DEF TokenConservation
  <2> QED
    BY <2>3 DEF Init, Balance
<1> QED
  BY <1>1, <1>2, <1>3 DEF Ledger

\* Every step keeps each id in one place and the counts balanced.
LEMMA StepLedger == Ledger /\ [Next]_vars => Ledger'
<1> SUFFICES ASSUME Ledger, [Next]_vars PROVE OneHome' /\ Balance'
  BY StepInv DEF Ledger
<1> USE DEF timeVars, tableVars, cubeVars, mteVars, histVars
<1>1. CASE AdvanceTo \/ AdvanceDone \/ BiasCheckpoint \/ FinishMmad \/ UNCHANGED vars
  <2>1. UNCHANGED <<pending, mteFlags, cubeSets, commands, nextId, counters, saturated, issued, consumed>>
    BY <1>1 DEF AdvanceTo, AdvanceDone, BiasCheckpoint, FinishMmad, vars
  <2> QED
    BY <2>1, HomeStays, BalanceStays
<1>2. CASE AcceptMmad \/ \E k \in Keys : DispatchCubeWait(k)
  <2>1. /\ UNCHANGED <<pending, mteFlags, cubeSets, commands, counters, saturated, issued, consumed>>
        /\ nextId' = nextId + 1
    BY <1>2 DEF AcceptMmad, DispatchCubeWait, Fresh
  <2> QED
    BY <2>1, HomeStays, BalanceStays
<1>3. ASSUME NEW k \in Keys, DispatchCubeTriggeredSet(k) \/ TriggeredMteSet(k)
      PROVE  OneHome' /\ Balance'
  <2>1. PICK e \in {[id |-> nextId, key |-> k, timestamp |-> 0],
                    [id |-> nextId, key |-> k, timestamp |-> CaptureMte]} : Schedule({e}, now)
    BY <1>3 DEF DispatchCubeTriggeredSet, TriggeredMteSet
  <2>2. /\ UNCHANGED <<mteFlags, cubeSets, commands, counters, saturated, consumed>>
        /\ nextId' = nextId + 1
    BY <1>3 DEF DispatchCubeTriggeredSet, TriggeredMteSet, Fresh
  <2>3. e.id = nextId
    BY <2>1
  <2> DEFINE S == {e}
  <2>4. S = {e} /\ Schedule(S, now)
    BY <2>1
  <2> HIDE DEF S
  <2> QED
    BY <2>2, <2>3, <2>4, TriggeredSet
<1>4. ASSUME NEW k \in Keys, DispatchCubeTriggeredWait(k) \/ TriggeredMteWait(k)
      PROVE  OneHome' /\ Balance'
  <2>1. /\ UNCHANGED <<pending, mteFlags, cubeSets, commands, saturated, issued>>
        /\ nextId' = nextId + 1 /\ counters[k] > 0 /\ Consume({k})
    BY <1>4 DEF DispatchCubeTriggeredWait, TriggeredMteWait, Fresh
  <2>2. OneHome'
    BY <2>1, HomeStays
  <2> DEFINE K == {k}
  <2>3. K \subseteq Keys /\ (\A j \in K : counters[j] > 0) /\ Consume(K)
    BY <2>1
  <2> HIDE DEF K
  <2> QED
    BY <2>1, <2>2, <2>3, Taken
<1>5. CASE GateMmad
  <2> DEFINE go == Gated(Head(flights))
             K  == {w.key : w \in go}
  <2>1. /\ UNCHANGED <<pending, mteFlags, cubeSets, commands, nextId, saturated, issued>>
        /\ Consume(K)
    BY <1>5 DEF GateMmad
  <2>2. K \subseteq Keys /\ \A k \in K : counters[k] > 0
    <3>1. \A w \in cubeWaits : w.id \in Nat /\ w.key \in Keys
      BY DEF Ledger, Inv, TypeOK, Flag
    <3> QED
      BY <3>1 DEF Gated
  <2>3. OneHome'
    BY <2>1, HomeStays
  <2> HIDE DEF K
  <2> QED
    BY <2>1, <2>2, <2>3, Taken
<1> QED
  BY <1>1, <1>2, <1>3, <1>4, <1>5, QueuedSet, QueuedFlag, Captured, StartedMmad, CommandSteps,
     Retired, Notified DEF Next

\* No token of any flag is lost, made up or moved to another flag: what
\* schedule_event admitted under a key is in the pending list, in the key's
\* counter, taken by consume_wait or counted in saturated_deliveries.
THEOREM TokensConserved == Spec => []TokenConservation
<1>1. Init => Ledger
  BY InitLedger
<1>2. Ledger /\ [Next]_vars => Ledger'
  BY StepLedger
<1>3. Ledger => TokenConservation
  BY DEF Ledger, Balance
<1> QED
  BY <1>1, <1>2, <1>3, PTL DEF Spec

\* Every set has one home: an instruction's set is never both still queued
\* (in a Cube queue, as an MTE1 flag or with a captured transfer) and already
\* admitted, nor in two of them, so that none is delivered twice.
THEOREM SetsHaveOneHome == Spec => []OneHome
<1>1. Init => Ledger
  BY InitLedger
<1>2. Ledger /\ [Next]_vars => Ledger'
  BY StepLedger
<1>3. Ledger => OneHome
  BY DEF Ledger
<1> QED
  BY <1>1, <1>2, <1>3, PTL DEF Spec

-----------------------------------------------------------------------------
(* What a step may do                                                      *)

\* What a checkpoint releases of a queue is a prefix of it.
LEMMA ReleasedPrefix ==
  ASSUME NEW Q, Q \subseteq Flag, NEW id \in Nat, NEW c,
         NEW s \in Released(Q, id, c), NEW r \in Q, r.id < s.id
  PROVE  r \in Released(Q, id, c)
<1>1. \A x \in Q : x.id \in Nat
  BY DEF Flag
<1>2. s \in Q /\ s.id < id /\ \A x \in Q : x.id <= s.id => Admits(c, x.key)
  BY DEF Released
<1>3. r.id < id
  BY <1>1, <1>2
<1>4. \A x \in Q : x.id <= r.id => Admits(c, x.key)
  BY <1>1, <1>2
<1> QED
  BY <1>3, <1>4 DEF Released

\* The checkpoints carry instruction ids.
LEMMA PointIds ==
  ASSUME TypeOK, NEW q \in 0..3, checkpoints[q] # <<>>
  PROVE  Head(checkpoints[q]).id \in Nat
<1>1. checkpoints[q] \in Seq(Point)
  BY DEF TypeOK
<1>2. Head(checkpoints[q]) \in Point
  BY <1>1, SeqParts
<1> QED
  BY <1>2 DEF Point

LEMMA CheckpointPrefix ==
  ASSUME TypeOK, NEW q \in 0..3, NEW Q, Q \subseteq Flag, NEW t, NEW c,
         NEW s \in CheckpointRelease(q, Q, t, c), NEW r \in Q, r.id < s.id
  PROVE  r \in CheckpointRelease(q, Q, t, c)
<1>1. DueHead(q, t) /\ s \in Released(Q, Head(checkpoints[q]).id, c)
  BY DEF CheckpointRelease
<1>2. Head(checkpoints[q]).id \in Nat
  BY <1>1, PointIds DEF DueHead
<1>3. r \in Released(Q, Head(checkpoints[q]).id, c)
  BY <1>1, <1>2, ReleasedPrefix
<1> QED
  BY <1>1, <1>3 DEF CheckpointRelease

\* One queue loses sets only from its front.
OldestFirst(Q, rest) == \A s \in Q \ rest : \A r \in Q : r.id < s.id => r \notin rest

LEMMA NotifyInOrder ==
  ASSUME Inv, Notify, NEW q \in 0..2
  PROVE  OldestFirst(cubeSets[q], cubeSets'[q])
<1>1. PICK t \in WakeTicks :
        LET c  == VisibleAfter(t)
            r(p) == CheckpointRelease(p, cubeSets[p], t, c)
            left == cubeSets[2] \ r(2)
            r3   == CheckpointRelease(3, left, t, c)
        IN cubeSets' = [p \in 0..2 |-> IF p = 2 THEN left \ r3 ELSE cubeSets[p] \ r(p)]
  BY DEF Notify
<1> DEFINE c  == VisibleAfter(t)
           r(p) == CheckpointRelease(p, cubeSets[p], t, c)
           left == cubeSets[2] \ r(2)
           r3   == CheckpointRelease(3, left, t, c)
<1>2. cubeSets' = [p \in 0..2 |-> IF p = 2 THEN left \ r3 ELSE cubeSets[p] \ r(p)]
  BY <1>1
<1>3. TypeOK /\ \A p \in 0..2 : cubeSets[p] \subseteq Flag
  BY DEF Inv, TypeOK
<1> HIDE DEF c
<1>4. \A p \in 0..2 : \A s \in r(p) : \A x \in cubeSets[p] : x.id < s.id => x \in r(p)
  BY <1>3, CheckpointPrefix
<1>5. \A s \in r3 : \A x \in left : x.id < s.id => x \in r3
  BY <1>3, CheckpointPrefix
<1> HIDE DEF r, r3
<1>6. CASE q # 2
  <2>1. cubeSets'[q] = cubeSets[q] \ r(q)
    BY <1>2, <1>6
  <2> QED
    BY <1>4, <2>1 DEF OldestFirst
<1>7. CASE q = 2
  <2>1. cubeSets'[q] = (cubeSets[2] \ r(2)) \ r3
    BY <1>2, <1>7
  <2> SUFFICES ASSUME NEW s \in cubeSets[2], s \in r(2) \/ s \in r3,
                      NEW x \in cubeSets[2], x.id < s.id
               PROVE  x \in r(2) \/ x \in r3
    BY <1>7, <2>1 DEF OldestFirst
  <2> QED
    BY <1>4, <1>5
<1> QED
  BY <1>6, <1>7

LEMMA StartInOrder ==
  ASSUME Inv, NEW b \in BOOLEAN, StartMmad(b), NEW q \in 0..2
  PROVE  OldestFirst(cubeSets[q], cubeSets'[q])
<1> DEFINE go == Released(cubeSets[2], Head(flights), counters)
<1>1. cubeSets' = cubeSets \/ cubeSets' = [cubeSets EXCEPT ![2] = @ \ go]
  BY DEF StartMmad
<1>2. cubeSets \in [0..2 -> SUBSET Flag] /\ Head(flights) \in Nat
  BY SeqParts DEF Inv, TypeOK, StartMmad
<1>3. \A s \in go : \A x \in cubeSets[2] : x.id < s.id => x \in go
  BY <1>2, ReleasedPrefix
<1> HIDE DEF go
<1>4. CASE q = 2 /\ cubeSets' = [cubeSets EXCEPT ![2] = @ \ go]
  <2>1. cubeSets'[q] = cubeSets[2] \ go
    BY <1>2, <1>4
  <2> QED
    BY <1>3, <1>4, <2>1 DEF OldestFirst
<1>5. CASE ~(q = 2 /\ cubeSets' = [cubeSets EXCEPT ![2] = @ \ go])
  <2>1. cubeSets'[q] = cubeSets[q]
    BY <1>1, <1>2, <1>5
  <2> QED
    BY <2>1 DEF OldestFirst
<1> QED
  BY <1>4, <1>5

\* The sets of one Cube queue are admitted in instruction order, also when a
\* full counter stops release_cube_sets in the middle and when the retry
\* checkpoint and the queue's own come in the same turn of advance_to.
THEOREM ReleasedInOrder == Spec => SetsReleasedInOrder
<1>1. Inv /\ [Next]_vars
        => [\A q \in 0..2 : \A s \in cubeSets[q] \ cubeSets'[q] :
              \A r \in cubeSets[q] : r.id < s.id => r \notin cubeSets'[q]]_vars
  <2> SUFFICES ASSUME Inv, [Next]_vars, NEW q \in 0..2
               PROVE  OldestFirst(cubeSets[q], cubeSets'[q])
    BY DEF OldestFirst
  <2> USE DEF timeVars, tableVars, cubeVars, mteVars, histVars
  <2>1. ASSUME cubeSets' = cubeSets PROVE OldestFirst(cubeSets[q], cubeSets'[q])
    BY <2>1 DEF OldestFirst
  <2>2. ASSUME NEW k \in Keys, DispatchCubeSet(k) PROVE OldestFirst(cubeSets[q], cubeSets'[q])
    <3>1. cubeSets[q] \subseteq cubeSets'[q]
      BY <2>2 DEF DispatchCubeSet, Inv, TypeOK
    <3> QED
      BY <3>1 DEF OldestFirst
  <2>3. CASE UNCHANGED vars
    BY <2>1, <2>3 DEF vars
  <2>4. CASE AdvanceTo \/ AdvanceDone
    BY <2>1, <2>4 DEF AdvanceTo, AdvanceDone
  <2>5. CASE \E k \in Keys : DispatchCubeTriggeredSet(k) \/ DispatchCubeWait(k)
                               \/ DispatchCubeTriggeredWait(k) \/ TriggeredMteSet(k)
                               \/ TriggeredMteWait(k) \/ \E op \in {"set", "wait"} : EnqueueMteFlag(op, k)
    BY <2>1, <2>5 DEF DispatchCubeTriggeredSet, DispatchCubeWait, DispatchCubeTriggeredWait,
                      TriggeredMteSet, TriggeredMteWait, EnqueueMteFlag
  <2>6. CASE AcceptMmad \/ GateMmad \/ BiasCheckpoint \/ FinishMmad
    BY <2>1, <2>6 DEF AcceptMmad, GateMmad, BiasCheckpoint, FinishMmad
  <2>7. CASE \/ \E m \in TransferMemories, p \in {"generating", "disabled"} : IssueTransfer(m, p)
             \/ \E i \in DOMAIN commands : ResolveDisabled(i) \/ ResolveWaits(i) \/ CompleteTransfer(i)
             \/ RetireTransfer
    BY <2>1, <2>7 DEF IssueTransfer, ResolveDisabled, ResolveWaits, CompleteTransfer, RetireTransfer
  <2> QED
    BY <2>2, <2>3, <2>4, <2>5, <2>6, <2>7, NotifyInOrder, StartInOrder DEF Next
<1> QED
  BY <1>1, Invariance, PTL DEF Spec, SetsReleasedInOrder

\* A transfer whose requests are sent waits for no flag; only such a one is
\* acknowledged.
SentFree ==
  \A i \in DOMAIN commands :
    /\ commands[i].phase = "sent" => commands[i].waits = {}
    /\ commands[i].done # {} => commands[i].phase = "sent"

LEMMA StepSentFree == Inv /\ SentFree /\ [Next]_vars => SentFree'
<1> SUFFICES ASSUME Inv, SentFree, [Next]_vars PROVE SentFree'
  OBVIOUS
<1> USE DEF timeVars, tableVars, cubeVars, mteVars, histVars
<1>0. commands \in Seq(Command) /\ \A i \in DOMAIN commands : commands[i] \in Command
  BY DEF Inv, TypeOK
<1>1. ASSUME commands' = commands PROVE SentFree'
  BY <1>1 DEF SentFree
<1>2. CASE AdvanceTo \/ Notify \/ AdvanceDone \/ AcceptMmad \/ GateMmad \/ BiasCheckpoint \/ FinishMmad
           \/ UNCHANGED vars \/ \E b \in BOOLEAN : StartMmad(b)
  BY <1>1, <1>2 DEF AdvanceTo, Notify, AdvanceDone, AcceptMmad, GateMmad, BiasCheckpoint, FinishMmad,
                    StartMmad, vars
<1>3. CASE \E k \in Keys : DispatchCubeSet(k) \/ DispatchCubeTriggeredSet(k) \/ DispatchCubeWait(k)
                             \/ DispatchCubeTriggeredWait(k) \/ TriggeredMteSet(k)
                             \/ TriggeredMteWait(k) \/ \E op \in {"set", "wait"} : EnqueueMteFlag(op, k)
  BY <1>1, <1>3 DEF DispatchCubeSet, DispatchCubeTriggeredSet, DispatchCubeWait,
                    DispatchCubeTriggeredWait, TriggeredMteSet, TriggeredMteWait, EnqueueMteFlag
<1>4. ASSUME NEW m \in TransferMemories, NEW p \in {"generating", "disabled"}, IssueTransfer(m, p)
      PROVE  SentFree'
  <2>1. PICK x : commands' = Append(commands, x) /\ x.phase = p /\ x.done = {}
    BY <1>4 DEF IssueTransfer
  <2>2. \A i \in DOMAIN commands' : commands'[i] = x \/ (i \in DOMAIN commands /\ commands'[i] = commands[i])
    BY <1>0, <2>1
  <2> QED
    BY <2>1, <2>2 DEF SentFree
<1>5. ASSUME NEW i \in DOMAIN commands, NEW x,
             commands' = [commands EXCEPT ![i] = x],
             x.phase = "sent" => x.waits = {}, x.done # {} => x.phase = "sent"
      PROVE  SentFree'
  <2>1. \A j \in DOMAIN commands' : j \in DOMAIN commands /\ commands'[j] = IF j = i THEN x ELSE commands[j]
    BY <1>0, <1>5
  <2> QED
    BY <1>5, <2>1 DEF SentFree
<1>6. ASSUME NEW i \in DOMAIN commands, ResolveDisabled(i) PROVE SentFree'
  <2> DEFINE cmd == commands[i]
             sets  == {f \in cmd.sets : Admits(counters, f.key)}
             waits == IF sets # cmd.sets THEN {} ELSE {f \in cmd.waits : counters[f.key] > 0}
             done  == [cmd EXCEPT !.sets = {}, !.waits = {}, !.phase = "sent", !.done = {now}]
             part  == [cmd EXCEPT !.sets = @ \ sets, !.waits = @ \ waits]
  <2>1. commands' = [commands EXCEPT ![i] = done] \/ commands' = [commands EXCEPT ![i] = part]
    BY <1>6 DEF ResolveDisabled
  <2> HIDE DEF sets, waits
  <2>2. done.phase = "sent" /\ done.waits = {}
    BY <1>0 DEF Command
  <2>3. part.phase = "disabled" /\ part.done = {}
    BY <1>0, <1>6 DEF Command, ResolveDisabled, InPhase, SentFree
  <2> HIDE DEF done, part
  <2> QED
    BY <1>5, <2>1, <2>2, <2>3
<1>7. ASSUME NEW i \in DOMAIN commands, ResolveWaits(i) PROVE SentFree'
  <2> DEFINE cmd == commands[i]
             go == {f \in cmd.waits : counters[f.key] > 0}
             x  == [cmd EXCEPT !.waits = @ \ go, !.phase = IF go = cmd.waits THEN "sent" ELSE @]
  <2>1. commands' = [commands EXCEPT ![i] = x]
    BY <1>7 DEF ResolveWaits
  <2>2. cmd.phase = "generating" /\ cmd.done = {}
    BY <1>7 DEF ResolveWaits, InPhase, SentFree
  <2> HIDE DEF go
  <2>3. x.done = {} /\ (x.phase = "sent" => x.waits = {})
    BY <1>0, <2>2 DEF Command
  <2> HIDE DEF x
  <2> QED
    BY <1>5, <2>1, <2>3
<1>8. ASSUME NEW i \in DOMAIN commands, CompleteTransfer(i) PROVE SentFree'
  <2> DEFINE cmd == commands[i]
             x   == [cmd EXCEPT !.done = {now}]
  <2>1. commands' = [commands EXCEPT ![i] = x]
    BY <1>8 DEF CompleteTransfer
  <2>2. x.phase = "sent" /\ x.waits = {}
    BY <1>0, <1>8 DEF CompleteTransfer, InPhase, SentFree, Command
  <2> HIDE DEF x
  <2> QED
    BY <1>5, <2>1, <2>2
<1>9. CASE RetireTransfer
  <2> DEFINE cmd == commands[1]
             go == {f \in Head(commands).sets : Admits(counters, f.key)}
             x   == [cmd EXCEPT !.sets = @ \ go]
  <2>0. commands # <<>> /\ 1 \in DOMAIN commands
    BY <1>0, <1>9 DEF RetireTransfer
  <2>1. commands' = Tail(commands) \/ commands' = [commands EXCEPT ![1] = x]
    BY <1>9 DEF RetireTransfer
  <2> HIDE DEF go
  <2>2. x.phase = cmd.phase /\ x.waits = cmd.waits /\ x.done = cmd.done
    BY <1>0, <2>0 DEF Command
  <2>3. /\ x.phase = "sent" => x.waits = {}
        /\ x.done # {} => x.phase = "sent"
    BY <2>0, <2>2 DEF SentFree
  <2> HIDE DEF x
  <2>4. CASE commands' = Tail(commands)
    <3>1. \A j \in DOMAIN commands' : j + 1 \in DOMAIN commands /\ commands'[j] = commands[j + 1]
      BY <1>0, <2>0, <2>4
    <3> QED
      BY <3>1 DEF SentFree
  <2> QED
    BY <1>5, <2>0, <2>1, <2>3, <2>4
<1> QED
  BY <1>2, <1>3, <1>4, <1>6, <1>7, <1>8, <1>9 DEF Next

\* try_retire_head lets a transfer go only with all its flags done: the waits
\* it captured have taken their tokens and each of its sets is in the pending
\* list, although refused sets are retried one by one.
THEOREM RetiresWithItsFlags == Spec => RetiredWithItsFlags
<1> DEFINE Leaves == Len(commands') < Len(commands) =>
                       /\ Head(commands).waits = {}
                       /\ \A f \in Head(commands).sets : \E p \in pending' : p.id = f.id
<1>1. Init => SentFree
  BY DEF Init, SentFree
<1>2. Inv /\ SentFree /\ [Next]_vars => [Leaves]_vars
  <2> SUFFICES ASSUME Inv, SentFree, [Next]_vars, Len(commands') < Len(commands)
               PROVE  /\ Head(commands).waits = {}
                      /\ \A f \in Head(commands).sets : \E p \in pending' : p.id = f.id
    OBVIOUS
  <2> USE DEF timeVars, tableVars, cubeVars, mteVars, histVars
  <2>0. commands \in Seq(Command) /\ commands' # commands
    BY DEF Inv, TypeOK
  <2>1. CASE RetireTransfer
    <3> DEFINE go == {f \in Head(commands).sets : Admits(counters, f.key)}
               S  == Head(commands).sets
    <3>0. commands # <<>> /\ 1 \in DOMAIN commands /\ Head(commands) = commands[1]
      BY <2>0, <2>1 DEF RetireTransfer
    <3>1. go = S
      <4>1. CASE Retires(go)
        BY <4>1 DEF Retires
      <4>2. CASE ~Retires(go)
        <5> DEFINE x == [commands[1] EXCEPT !.sets = @ \ go]
        <5>1. commands' = [commands EXCEPT ![1] = x]
          BY <2>1, <4>2, <3>0 DEF RetireTransfer
        <5> HIDE DEF x
        <5>2. Len(commands') = Len(commands)
          BY <2>0, <5>1
        <5> QED
          BY <5>2, <2>0
      <4> QED
        BY <4>1, <4>2
    <3>2. Schedule(S, now)
      BY <2>1, <3>1 DEF RetireTransfer
    <3>3. \A f \in S : PendingEntry(f, now) \in pending' /\ PendingEntry(f, now).id = f.id
      BY <3>2 DEF Schedule, PendingEntry
    <3>4. Head(commands).waits = {}
      BY <2>1, <3>0 DEF RetireTransfer, SentFree
    <3> QED
      BY <3>3, <3>4
  <2>2. ASSUME ~RetireTransfer PROVE FALSE
    <3>1. CASE \E m \in TransferMemories, p \in {"generating", "disabled"} : IssueTransfer(m, p)
      <4>1. PICK x : commands' = Append(commands, x)
        BY <3>1 DEF IssueTransfer
      <4> QED
        BY <2>0, <4>1
    <3>2. CASE \E i \in DOMAIN commands : ResolveDisabled(i) \/ ResolveWaits(i) \/ CompleteTransfer(i)
      <4>1. PICK i \in DOMAIN commands : \E x : commands' = [commands EXCEPT ![i] = x]
        BY <3>2 DEF ResolveDisabled, ResolveWaits, CompleteTransfer
      <4>2. Len(commands') = Len(commands)
        BY <2>0, <4>1
      <4> QED
        BY <2>0, <4>2
    <3>3. commands' = commands
      BY <2>2, <3>1, <3>2
         DEF Next, vars, AdvanceTo, Notify, AdvanceDone, AcceptMmad, GateMmad, BiasCheckpoint,
             FinishMmad, StartMmad, DispatchCubeSet, DispatchCubeTriggeredSet, DispatchCubeWait,
             DispatchCubeTriggeredWait, TriggeredMteSet, TriggeredMteWait, EnqueueMteFlag
    <3> QED
      BY <2>0, <3>3
  <2> QED
    BY <2>1, <2>2
<1>3. Spec => []SentFree
  BY <1>1, StepSentFree, Invariance, PTL DEF Spec
<1> QED
  BY <1>2, <1>3, Invariance, PTL DEF Spec, RetiredWithItsFlags
=============================================================================
