--------------------------- MODULE DeviceFlagsProofs ---------------------------
(***************************************************************************)
(* The flags between cores: DeviceFlags for every number of cores, every   *)
(* program, credit limit and order of delivery.  DeviceFlagsHold is        *)
(* inductive with the types of the counters.                               *)
(***************************************************************************)
EXTENDS DeviceFlags, TLAPS

\* A count of every flag a core can have, for every core
Counts == [Cores -> [Deliverable -> Nat]]
\* The counters are counts, and what a core waits for is a flag of a program.
FlagsTyped ==
  /\ sequence \in [Cores -> Seq(FlagOps)] /\ position \in [Cores -> Nat]
  /\ credits \in Counts /\ inFlight \in Counts
  /\ sentTo \in Counts /\ takenBy \in Counts /\ clearedOf \in Counts
  /\ blocked \in [Cores -> BOOLEAN] /\ waitingFor \in [Cores -> FlagIds \cup {NoFlag}]

\* The inductive invariant
FlagsInv == FlagsTyped /\ DeviceFlagsHold

\* What a core dispatches is an operation of its program.
LEMMA DispatchedOp ==
  ASSUME FlagsTyped, NEW c \in Cores, CanDispatch(c)
  PROVE  Current(c) \in FlagOps
BY DEF FlagsTyped, CanDispatch, Current

\* Every count is a number.
LEMMA CountsAreNumbers ==
  ASSUME FlagsTyped, NEW d \in Cores, NEW g \in Deliverable
  PROVE  /\ credits[d][g] \in Nat /\ inFlight[d][g] \in Nat
         /\ sentTo[d][g] \in Nat /\ takenBy[d][g] \in Nat /\ clearedOf[d][g] \in Nat
BY DEF FlagsTyped, Counts

LEMMA FlagsStartHolds == FlagsInit => FlagsInv
<1> SUFFICES ASSUME FlagsInit PROVE FlagsInv
  OBVIOUS
<1>1. FlagsTyped
  BY FlagAssumption DEF FlagsInit, FlagsStart, FlagsTyped, Counts, PerFlag
<1>2. NoSleepOnCredit
  BY DEF FlagsInit, FlagsStart, NoSleepOnCredit
<1>3. CreditsExact
  BY DEF FlagsInit, FlagsStart, CreditsExact, PerFlag
<1> QED
  BY <1>1, <1>2, <1>3 DEF FlagsInv, DeviceFlagsHold

LEMMA SetFlagKeeps ==
  ASSUME FlagsInv, NEW c \in Cores, SetFlag(c)
  PROVE  FlagsInv'
<1> USE DEF FlagsInv, DeviceFlagsHold
<1> DEFINE f == Current(c).flag
<1>1. /\ inFlight' = [d \in Cores |-> IF d = c THEN inFlight[d] ELSE [inFlight[d] EXCEPT ![f] = @ + 1]]
      /\ sentTo' = [d \in Cores |-> IF d = c THEN sentTo[d] ELSE [sentTo[d] EXCEPT ![f] = @ + 1]]
      /\ position' = [position EXCEPT ![c] = @ + 1]
      /\ UNCHANGED <<sequence, credits, blocked, waitingFor, resets, takenBy, clearedOf>>
  BY DEF SetFlag, Advance
<1> HIDE DEF f
<1>2. /\ inFlight' \in Counts /\ sentTo' \in Counts
      /\ \A d \in Cores : \A g \in Deliverable :
           /\ inFlight'[d][g] = IF d # c /\ g = f THEN inFlight[d][g] + 1 ELSE inFlight[d][g]
           /\ sentTo'[d][g] = IF d # c /\ g = f THEN sentTo[d][g] + 1 ELSE sentTo[d][g]
  <2>1. ASSUME NEW d \in Cores
        PROVE  /\ inFlight[d] \in [Deliverable -> Nat] /\ sentTo[d] \in [Deliverable -> Nat]
               /\ inFlight'[d] = IF d = c THEN inFlight[d] ELSE [inFlight[d] EXCEPT ![f] = @ + 1]
               /\ sentTo'[d] = IF d = c THEN sentTo[d] ELSE [sentTo[d] EXCEPT ![f] = @ + 1]
    BY <1>1 DEF FlagsTyped, Counts
  <2>2. ASSUME NEW d \in Cores, NEW g \in Deliverable
        PROVE  /\ inFlight'[d][g] = IF d # c /\ g = f THEN inFlight[d][g] + 1 ELSE inFlight[d][g]
               /\ sentTo'[d][g] = IF d # c /\ g = f THEN sentTo[d][g] + 1 ELSE sentTo[d][g]
               /\ inFlight'[d][g] \in Nat /\ sentTo'[d][g] \in Nat
    <3>1. inFlight[d][g] \in Nat /\ sentTo[d][g] \in Nat
      BY <2>1
    <3>2. CASE d = c
      BY <2>1, <3>1, <3>2
    <3>3. CASE d # c /\ g = f
      <4>1. inFlight'[d][g] = inFlight[d][g] + 1
        BY <2>1, <3>3
      <4>2. sentTo'[d][g] = sentTo[d][g] + 1
        BY <2>1, <3>3
      <4> QED
        BY <3>1, <3>3, <4>1, <4>2
    <3>4. CASE d # c /\ g # f
      <4>1. inFlight'[d][g] = inFlight[d][g]
        <5>1. inFlight'[d] = [inFlight[d] EXCEPT ![f] = inFlight[d][f] + 1]
          BY <2>1, <3>4
        <5> QED
          BY <2>1, <3>4, <5>1, Zenon
      <4>2. sentTo'[d][g] = sentTo[d][g]
        <5>1. sentTo'[d] = [sentTo[d] EXCEPT ![f] = sentTo[d][f] + 1]
          BY <2>1, <3>4
        <5> QED
          BY <2>1, <3>4, <5>1, Zenon
      <4> QED
        BY <3>1, <3>4, <4>1, <4>2
    <3> QED
      BY <3>2, <3>3, <3>4
  <2>3. ASSUME NEW d \in Cores
        PROVE  inFlight'[d] \in [Deliverable -> Nat] /\ sentTo'[d] \in [Deliverable -> Nat]
    BY <2>1, <2>2
  <2> QED
    BY <1>1, <2>2, <2>3 DEF Counts
<1>3. FlagsTyped'
  BY <1>1, <1>2 DEF FlagsTyped
<1>4. NoSleepOnCredit'
  BY <1>1 DEF NoSleepOnCredit, Credit
<1>5. CreditsExact'
  <2> SUFFICES ASSUME NEW d \in Cores, NEW g \in Deliverable
               PROVE  sentTo'[d][g] = inFlight'[d][g] + credits'[d][g] + takenBy'[d][g] + clearedOf'[d][g]
    BY DEF CreditsExact
  <2>1. sentTo[d][g] = inFlight[d][g] + credits[d][g] + takenBy[d][g] + clearedOf[d][g]
    BY DEF CreditsExact
  <2>2. /\ credits[d][g] \in Nat /\ inFlight[d][g] \in Nat
        /\ sentTo[d][g] \in Nat /\ takenBy[d][g] \in Nat /\ clearedOf[d][g] \in Nat
    BY CountsAreNumbers
  <2>3. /\ inFlight'[d][g] = IF d # c /\ g = f THEN inFlight[d][g] + 1 ELSE inFlight[d][g]
        /\ sentTo'[d][g] = IF d # c /\ g = f THEN sentTo[d][g] + 1 ELSE sentTo[d][g]
        /\ credits' = credits /\ takenBy' = takenBy /\ clearedOf' = clearedOf
    BY <1>1, <1>2
  <2> QED
    BY <2>1, <2>2, <2>3
<1> QED
  BY <1>3, <1>4, <1>5

LEMMA TakeCreditKeeps ==
  ASSUME FlagsInv, NEW c \in Cores, TakeCredit(c)
  PROVE  FlagsInv'
<1> USE DEF FlagsInv, DeviceFlagsHold
<1> DEFINE f == Current(c).flag
<1>1. f \in Deliverable /\ credits[c][f] # 0
  BY DEF TakeCredit, Credit
<1>2. /\ credits' = [credits EXCEPT ![c][f] = @ - 1]
      /\ takenBy' = [takenBy EXCEPT ![c][f] = @ + 1]
      /\ waitingFor' = [waitingFor EXCEPT ![c] = NoFlag]
      /\ position' = [position EXCEPT ![c] = @ + 1] /\ ~blocked[c]
      /\ UNCHANGED <<sequence, blocked, inFlight, resets, sentTo, clearedOf>>
  BY DEF TakeCredit, Advance, CanDispatch
<1> HIDE DEF f
<1>3. credits[c][f] - 1 \in Nat /\ takenBy[c][f] + 1 \in Nat
  BY <1>1 DEF FlagsTyped, Counts
<1>4. /\ credits' \in Counts /\ takenBy' \in Counts
      /\ \A d \in Cores : \A g \in Deliverable :
           /\ credits'[d][g] = IF d = c /\ g = f THEN credits[c][f] - 1 ELSE credits[d][g]
           /\ takenBy'[d][g] = IF d = c /\ g = f THEN takenBy[c][f] + 1 ELSE takenBy[d][g]
  BY <1>1, <1>2, <1>3 DEF FlagsTyped, Counts
<1>5. FlagsTyped'
  BY <1>2, <1>4 DEF FlagsTyped
<1>6. NoSleepOnCredit'
  BY <1>2, <1>4 DEF NoSleepOnCredit, Credit, FlagsTyped
<1>7. CreditsExact'
  <2> SUFFICES ASSUME NEW d \in Cores, NEW g \in Deliverable
               PROVE  sentTo'[d][g] = inFlight'[d][g] + credits'[d][g] + takenBy'[d][g] + clearedOf'[d][g]
    BY DEF CreditsExact
  <2>1. sentTo[d][g] = inFlight[d][g] + credits[d][g] + takenBy[d][g] + clearedOf[d][g]
    BY DEF CreditsExact
  <2>2. /\ credits[d][g] \in Nat /\ inFlight[d][g] \in Nat
        /\ sentTo[d][g] \in Nat /\ takenBy[d][g] \in Nat /\ clearedOf[d][g] \in Nat
    BY CountsAreNumbers
  <2>3. /\ credits'[d][g] = IF d = c /\ g = f THEN credits[d][g] - 1 ELSE credits[d][g]
        /\ takenBy'[d][g] = IF d = c /\ g = f THEN takenBy[d][g] + 1 ELSE takenBy[d][g]
        /\ inFlight' = inFlight /\ sentTo' = sentTo /\ clearedOf' = clearedOf
    BY <1>2, <1>4
  <2> QED
    BY <2>1, <2>2, <2>3
<1> QED
  BY <1>5, <1>6, <1>7

LEMMA BlockKeeps ==
  ASSUME FlagsInv, NEW c \in Cores, Block(c)
  PROVE  FlagsInv'
<1> USE DEF FlagsInv, DeviceFlagsHold
<1>1. Current(c) \in FlagOps
  BY DispatchedOp DEF Block
<1> DEFINE f == Current(c).flag
<1>2. f \in FlagIds /\ f # NoFlag
  BY <1>1, FlagAssumption DEF FlagOps, NoFlag
<1>3. /\ Credit(c, f) = 0
      /\ blocked' = [blocked EXCEPT ![c] = TRUE] /\ waitingFor' = [waitingFor EXCEPT ![c] = f]
      /\ UNCHANGED <<sequence, position, credits, inFlight, resets, sentTo, takenBy, clearedOf>>
  BY DEF Block
<1> HIDE DEF f
<1>4. FlagsTyped'
  BY <1>2, <1>3 DEF FlagsTyped
<1>5. NoSleepOnCredit'
  BY <1>2, <1>3 DEF NoSleepOnCredit, Credit, FlagsTyped
<1>6. CreditsExact'
  BY <1>3 DEF CreditsExact
<1> QED
  BY <1>4, <1>5, <1>6

\* A first credit is below the limit, so that the delivery that gives it opens the dispatch.
LEMMA DeliverFlagKeeps ==
  ASSUME FlagsInv, NEW c \in Cores, NEW f \in Deliverable, DeliverFlag(c, f)
  PROVE  FlagsInv'
<1> USE DEF FlagsInv, DeviceFlagsHold
<1>1. /\ credits' = [credits EXCEPT ![c][f] = @ + 1]
      /\ inFlight[c][f] > 0 /\ inFlight' = [inFlight EXCEPT ![c][f] = @ - 1]
      /\ blocked' = [blocked EXCEPT ![c] = @ /\ credits[c][f] + 1 > CreditLimit]
      /\ UNCHANGED <<sequence, position, waitingFor, resets, sentTo, takenBy, clearedOf>>
  BY DEF DeliverFlag, Receive, Overflows
<1>2. credits[c][f] + 1 \in Nat /\ inFlight[c][f] - 1 \in Nat
  BY <1>1 DEF FlagsTyped, Counts
<1>3. /\ credits' \in Counts /\ inFlight' \in Counts
      /\ \A d \in Cores : \A g \in Deliverable :
           /\ credits'[d][g] = IF d = c /\ g = f THEN credits[c][f] + 1 ELSE credits[d][g]
           /\ inFlight'[d][g] = IF d = c /\ g = f THEN inFlight[c][f] - 1 ELSE inFlight[d][g]
  BY <1>1, <1>2 DEF FlagsTyped, Counts
<1>4. FlagsTyped'
  BY <1>1, <1>3 DEF FlagsTyped
<1>5. NoSleepOnCredit'
  <2> SUFFICES ASSUME NEW d \in Cores, blocked'[d]
               PROVE  waitingFor[d] # NoFlag /\ Credit(d, waitingFor[d])' = 0
    BY <1>1 DEF NoSleepOnCredit, Credit
  <2>1. blocked[d] /\ (d = c => credits[c][f] + 1 > CreditLimit)
    BY <1>1 DEF FlagsTyped
  <2>2. waitingFor[d] # NoFlag /\ Credit(d, waitingFor[d]) = 0
    BY <2>1 DEF NoSleepOnCredit
  <2>3. ~(d = c /\ waitingFor[d] = f)
    BY <1>2, <2>1, <2>2, FlagAssumption DEF Credit
  <2> QED
    BY <1>1, <1>3, <2>2, <2>3 DEF Credit
<1>6. CreditsExact'
  BY <1>1, <1>3, CountsAreNumbers DEF CreditsExact
<1> QED
  BY <1>4, <1>5, <1>6

LEMMA ResetCountersKeeps ==
  ASSUME FlagsInv, NEW c \in Cores, ResetCounters(c)
  PROVE  FlagsInv'
<1> USE DEF FlagsInv, DeviceFlagsHold
<1>1. /\ credits' = [credits EXCEPT ![c] = [f \in Deliverable |-> 0]]
      /\ clearedOf' = [clearedOf EXCEPT ![c] = [f \in Deliverable |-> clearedOf[c][f] + credits[c][f]]]
      /\ UNCHANGED <<sequence, position, blocked, waitingFor, inFlight, sentTo, takenBy>>
  BY DEF ResetCounters
<1>2. /\ credits' \in Counts /\ clearedOf' \in Counts
      /\ \A d \in Cores : \A g \in Deliverable :
           /\ credits'[d][g] = IF d = c THEN 0 ELSE credits[d][g]
           /\ clearedOf'[d][g] = IF d = c THEN clearedOf[c][g] + credits[c][g] ELSE clearedOf[d][g]
  BY <1>1 DEF FlagsTyped, Counts
<1>3. FlagsTyped'
  BY <1>1, <1>2 DEF FlagsTyped
<1>4. NoSleepOnCredit'
  BY <1>1, <1>2 DEF NoSleepOnCredit, Credit, FlagsTyped
<1>5. CreditsExact'
  BY <1>1, <1>2, CountsAreNumbers DEF CreditsExact
<1> QED
  BY <1>3, <1>4, <1>5

\* No core sleeps on a credit it has, and no notification is lost or counted twice, whatever the
\* programs, the order of deliveries and the resets of the host.  (device_flags.rs:42-75)
THEOREM FlagsHold == FlagsSpec => []DeviceFlagsHold
<1>1. FlagsInv /\ [FlagsNext]_flagVars => FlagsInv'
  <2> SUFFICES ASSUME FlagsInv, [FlagsNext]_flagVars PROVE FlagsInv'
    OBVIOUS
  <2>1. CASE UNCHANGED flagVars
    BY <2>1 DEF flagVars, FlagsInv, FlagsTyped, Counts, DeviceFlagsHold, NoSleepOnCredit, CreditsExact, Credit
  <2>2. CASE FlagsNext
    BY <2>2, SetFlagKeeps, TakeCreditKeeps, BlockKeeps, DeliverFlagKeeps, ResetCountersKeeps DEF FlagsNext
  <2> QED
    BY <2>1, <2>2
<1>2. FlagsInv => DeviceFlagsHold
  BY DEF FlagsInv
<1> QED
  BY FlagsStartHolds, <1>1, <1>2, PTL DEF FlagsSpec
================================================================================
