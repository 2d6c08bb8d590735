------------------------ MODULE PipeFrontendsProofs ------------------------
(***************************************************************************)
(* Theorems of PipeFrontends, for every program, every set of pipes and    *)
(* every queue depth: no set is deferred behind an instruction that will   *)
(* not retire, no event is visible before its pipe has retired all that is *)
(* older, sets and barriers keep program order together, a pipe found      *)
(* drained stays drained, and no queue exceeds its depth.                  *)
(*                                                                         *)
(* None is inductive.  All rest on the ages of what a pipe holds (IInv):   *)
(* the running commands are older than the received ones and these older   *)
(* than the issued ones, the last received command is the youngest         *)
(* outstanding one, and an event deferred behind a command is older than   *)
(* every instruction received after that command.  To these BInv adds the  *)
(* ages of barriers and what a barrier may still wait for when its         *)
(* predecessor is gone, OInv the order of the events behind different      *)
(* outstanding commands.                                                   *)
(***************************************************************************)
EXTENDS PipeFrontends, FiniteSetTheorems, WellFoundedInduction, TLAPS

Types ==
  /\ nextId \in Ids
  /\ issued \in [Pipes -> SUBSET Entry]
  /\ commands \in [Pipes -> SUBSET Ids]
  /\ running \in [Pipes -> SUBSET Ids]
  /\ lastReceived \in [Pipes -> Ids \cup {None}]
  /\ deferred \in [Pipes \X Ids -> Seq(Event)]
  /\ ready \in Seq(Event)

\* Issued instructions are the program's, younger than every outstanding one.
IssuedAges ==
  \A p \in Pipes : \A e \in issued[p] :
    /\ e.id < nextId
    /\ e.word \in Words
    /\ e.word.kind \in Flags => e.word.pipe = p
    /\ \A f \in issued[p] : f.id = e.id => f = e
    /\ \A id \in Outstanding(p) : id < e.id

\* Commands are dispatched in the order of their reception.
OutstandingAges ==
  \A p \in Pipes :
    /\ \A id \in Outstanding(p) : id < nextId
    /\ \A r \in running[p], c \in commands[p] : r < c

\* The last received command is the youngest one, and outstanding as long as
\* any is.
LastAges ==
  \A p \in Pipes :
    /\ lastReceived[p] < nextId
    /\ \A e \in issued[p] : lastReceived[p] < e.id
    /\ p # Mte1 => \A id \in Outstanding(p) : id <= lastReceived[p]
    /\ p # Mte1 /\ p \in Ordered /\ Outstanding(p) # {} => lastReceived[p] \in Outstanding(p)

\* Without hardware flags the active slot of Cube stays empty.
CubeSlot == Cube \in Ordered => commands[Cube] = {}

\* What is deferred behind an instruction is older than all that its pipe
\* receives after that instruction.
DeferredAges ==
  \A p \in Pipes, id \in Ids : \A d \in ToSet(deferred[<<p, id>>]) :
    /\ d.route[1] = p
    /\ d.id < nextId
    /\ \A e \in issued[p] : d.id < e.id
    /\ \A o \in Outstanding(p) : o <= id \/ d.id < o

\* A published event is older than everything its source pipe still holds.
ReadyAges ==
  \A e \in ToSet(ready) :
    /\ e.id < nextId
    /\ e.route[1] \in Pipes => \A id \in Pending(e.route[1]) : e.id < id

IInv ==
  /\ Types /\ IssuedAges /\ OutstandingAges /\ LastAges /\ CubeSlot
  /\ DeferredAges /\ ReadyAges /\ NoStrandedEvent

-----------------------------------------------------------------------------
(* Sets of ids and sequences of events *)

\* Changing one entry of a function keeps its type and its other entries.
LEMMA UpdateTyped ==
  ASSUME NEW D, NEW S, NEW f \in [D -> S], NEW k \in D, NEW v \in S
  PROVE  /\ [f EXCEPT ![k] = v] \in [D -> S]
         /\ \A j \in D : [f EXCEPT ![k] = v][j] = IF j = k THEN v ELSE f[j]
OBVIOUS


\* A set of ids has a least and a greatest member.
LEMMA LeastId ==
  ASSUME NEW S, S \subseteq Nat, S # {}
  PROVE  \E x \in S : \A y \in S : x <= y
<1> DEFINE R == OpToRel(<, Nat)
<1>1. \E x \in S : \A y \in S : <<y, x>> \notin R
  <2> HIDE DEF R
  <2>1. IsWellFoundedOn(R, Nat)
    BY NatLessThanWellFounded DEF R
  <2> QED
    BY <2>1, WFMin
<1>2. \A x, y \in S : <<y, x>> \notin R => x <= y
  BY DEF OpToRel
<1> QED
  BY <1>1, <1>2

LEMMA GreatestId ==
  ASSUME NEW S, S \subseteq Ids, S # {}
  PROVE  \E x \in S : \A y \in S : x >= y
<1> DEFINE T == {MaxId - x : x \in S}
<1>0. MaxId \in Nat /\ \A x \in S : x \in Nat /\ x <= MaxId
  BY DepthAssumption DEF Ids
<1>1. T \subseteq Nat /\ T # {}
  BY <1>0
<1>2. PICK t \in T : \A u \in T : t <= u
  BY <1>1, LeastId
<1>3. PICK x \in S : t = MaxId - x
  BY <1>2
<1>4. \A y \in S : MaxId - x <= MaxId - y
  BY <1>2, <1>3
<1> QED
  BY <1>0, <1>4

LEMMA MinOf ==
  ASSUME NEW S, S \subseteq Ids, S # {}
  PROVE  Min(S) \in S /\ \A y \in S : Min(S) <= y
<1>1. S \subseteq Nat
  BY DEF Ids
<1> QED
  BY <1>1, LeastId DEF Min

LEMMA MaxOf ==
  ASSUME NEW S, S \subseteq Ids, S # {}
  PROVE  Max(S) \in S /\ \A y \in S : y <= Max(S)
<1>1. Max(S) \in S /\ \A y \in S : Max(S) >= y
  BY GreatestId DEF Max
<1>2. \A y \in S : y \in Int
  BY DEF Ids
<1> QED
  BY <1>1, <1>2

LEMMA OldestOfSet ==
  ASSUME NEW S, S \subseteq Entry, S # {}
  PROVE  Oldest(S) \in S /\ \A f \in S : Oldest(S).id <= f.id
<1>1. \A e \in S : e.id \in Nat
  BY DEF Entry, Ids
<1> DEFINE I == {e.id : e \in S}
<1>2. I \subseteq Nat /\ I # {}
  BY <1>1
<1>3. \E x \in I : \A y \in I : x <= y
  <2> HIDE DEF I
  <2> QED
    BY <1>2, LeastId
<1>4. \E e \in S : \A f \in S : e.id <= f.id
  BY <1>3
<1> QED
  BY <1>4 DEF Oldest

\* The members of the sequences the event queues build.
LEMMA ToSetAppend ==
  ASSUME NEW T, NEW s \in Seq(T), NEW x \in T
  PROVE  ToSet(Append(s, x)) = ToSet(s) \cup {x} /\ Append(s, x) \in Seq(T)
<1> DEFINE u == Append(s, x)
<1>1. u \in Seq(T) /\ u[Len(s) + 1] = x /\ Len(s) + 1 \in DOMAIN u
  OBVIOUS
<1>2. \A i \in DOMAIN s : u[i] = s[i] /\ i \in DOMAIN u
  OBVIOUS
<1>3. \A i \in DOMAIN u : (i \in DOMAIN s /\ u[i] = s[i]) \/ u[i] = x
  OBVIOUS
<1> HIDE DEF u
<1>4. ToSet(u) \subseteq ToSet(s) \cup {x}
  BY <1>3 DEF ToSet
<1>5. ToSet(s) \cup {x} \subseteq ToSet(u)
  BY <1>1, <1>2 DEF ToSet
<1> QED
  BY <1>1, <1>4, <1>5 DEF u

LEMMA ToSetConcat ==
  ASSUME NEW T, NEW s \in Seq(T), NEW t \in Seq(T)
  PROVE  ToSet(s \o t) = ToSet(s) \cup ToSet(t) /\ s \o t \in Seq(T)
<1> DEFINE u == s \o t
<1>1. u \in Seq(T) /\ \A i \in DOMAIN t : u[Len(s) + i] = t[i] /\ Len(s) + i \in DOMAIN u
  OBVIOUS
<1>2. \A i \in DOMAIN s : u[i] = s[i] /\ i \in DOMAIN u
  OBVIOUS
<1>3. \A i \in DOMAIN u : \/ i \in DOMAIN s /\ u[i] = s[i]
                          \/ i - Len(s) \in DOMAIN t /\ u[i] = t[i - Len(s)]
  OBVIOUS
<1> HIDE DEF u
<1>4. ToSet(u) \subseteq ToSet(s) \cup ToSet(t)
  BY <1>3 DEF ToSet
<1>5. ToSet(s) \cup ToSet(t) \subseteq ToSet(u)
  BY <1>1, <1>2 DEF ToSet
<1> QED
  BY <1>1, <1>4, <1>5 DEF u

LEMMA ToSetRemove ==
  ASSUME NEW T, NEW s \in Seq(T), NEW i \in DOMAIN s
  PROVE  ToSet(RemoveAt(s, i)) \subseteq ToSet(s) /\ RemoveAt(s, i) \in Seq(T)
<1> DEFINE a == SubSeq(s, 1, i - 1)
           b == SubSeq(s, i + 1, Len(s))
<1>1. a \in Seq(T) /\ ToSet(a) \subseteq ToSet(s)
  BY DEF ToSet
<1>2. b \in Seq(T) /\ ToSet(b) \subseteq ToSet(s)
  BY DEF ToSet
<1> HIDE DEF a, b
<1>3. ToSet(a \o b) = ToSet(a) \cup ToSet(b) /\ a \o b \in Seq(T)
  BY <1>1, <1>2, ToSetConcat
<1> QED
  BY <1>1, <1>2, <1>3 DEF RemoveAt, a, b

LEMMA ToSetEmpty ==
  ASSUME NEW T
  PROVE  /\ ToSet(<<>>) = {} /\ <<>> \in Seq(T)
  BY DEF ToSet

LEMMA EventIds ==
  ASSUME NEW s \in Seq(Event), NEW d \in ToSet(s)
  PROVE  d \in Event /\ d.id \in Ids /\ d.id \in Int
<1>1. PICK i \in DOMAIN s : d = s[i]
  BY DEF ToSet
<1>2. d \in Event
  <2> HIDE DEF Event
  <2> QED
    BY <1>1
<1> QED
  BY <1>2 DEF Event, Ids

-----------------------------------------------------------------------------
(* The parts of a step *)

LEMMA EntryFacts ==
  ASSUME Types, IssuedAges, NEW p \in Pipes, NEW e \in issued[p]
  PROVE  /\ e.id \in Ids /\ e.id < nextId
         /\ EventOf(e) \in Event /\ EventOf(e).id = e.id
         /\ e.word.kind = "set" => EventOf(e).route[1] = p
<1>1. e \in Entry
  BY DEF Types
<1>2. e.id \in Ids /\ e.word \in Word
  BY <1>1 DEF Entry
<1>3. EventOf(e) \in Event
  BY <1>2 DEF EventOf, Event, Word
<1>4. e.word.kind = "set" => e.word.route[1] = p
  BY WordsAssumption DEF IssuedAges, Flags
<1> QED
  BY <1>2, <1>3, <1>4 DEF EventOf, IssuedAges

LEMMA DequeuedIsOldest ==
  ASSUME Types, IssuedAges, NEW p \in Pipes, NEW e \in issued[p], Dequeue(p, e)
  PROVE  /\ \A f \in issued[p] \ {e} : e.id < f.id
         /\ issued' = [issued EXCEPT ![p] = @ \ {e}]
         /\ nextId' = nextId
<1>1. issued[p] \subseteq Entry /\ issued[p] # {}
  BY DEF Types
<1>2. \A f \in issued[p] : e.id <= f.id
  BY <1>1, OldestOfSet DEF Dequeue
<1>3. \A f \in issued[p] : f.id \in Ids
  BY EntryFacts
<1> QED
  BY <1>2, <1>3 DEF Dequeue, IssuedAges, Ids

LEMMA MatchingPosition ==
  ASSUME Types, NEW w, Matching(w) # 0
  PROVE  Matching(w) \in DOMAIN ready
<1> DEFINE M == {i \in DOMAIN ready : ready[i].route = w.route /\ ready[i].flag = w.flag}
<1>1. M \subseteq Nat
  BY DEF Types
<1>2. M # {} => \E x \in M : \A y \in M : x <= y
  <2> HIDE DEF M
  <2> QED
    BY <1>1, LeastId
<1>3. Matching(w) = IF M = {} THEN 0 ELSE CHOOSE i \in M : \A j \in M : i <= j
  BY DEF Matching
<1>4. Matching(w) \in M
  <2> HIDE DEF M
  <2> QED
    BY <1>2, <1>3
<1> QED
  BY <1>4

LEMMA ConsumeShrinks ==
  ASSUME Types, NEW w, Matching(w) # 0, Consume(w)
  PROVE  ready' \in Seq(Event) /\ ToSet(ready') \subseteq ToSet(ready)
<1> HIDE DEF Event
<1>1. ready \in Seq(Event)
  BY DEF Types
<1> QED
  BY <1>1, MatchingPosition, ToSetRemove DEF Consume

\* Min(running[p]) is the oldest running command.
LEMMA OldestRunning ==
  ASSUME IInv, NEW p \in Pipes, running[p] # {}
  PROVE  /\ Min(running[p]) \in running[p] /\ Min(running[p]) \in Ids
         /\ \A r \in running[p] : Min(running[p]) <= r /\ r \in Int
<1>1. running[p] \subseteq Ids
  BY DEF IInv, Types
<1>2. \A r \in running[p] : r \in Int
  BY <1>1 DEF Ids
<1>3. Min(running[p]) \in running[p] /\ \A r \in running[p] : Min(running[p]) <= r
  BY <1>1, MinOf
<1> QED
  BY <1>1, <1>2, <1>3

\* The command a set is deferred behind is the youngest outstanding one.
LEMMA PredecessorIsYoungest ==
  ASSUME IInv, NEW p \in Pipes
  PROVE  /\ Predecessor(p) = None <=> Outstanding(p) = {}
         /\ Predecessor(p) # None =>
              /\ Predecessor(p) \in Ids
              /\ \A id \in Outstanding(p) : id <= Predecessor(p)
              /\ p \in Ordered => Predecessor(p) \in Outstanding(p)
<1>1. commands[p] \subseteq Ids /\ running[p] \subseteq Ids
  BY DEF IInv, Types
<1>2. \A x \in Ids : x # None /\ x \in Int
  BY DEF Ids, None
<1>3. CASE p = Mte1
  <2>1. CASE commands[p] # {}
    <3>1. Max(commands[p]) \in commands[p] /\ \A y \in commands[p] : y <= Max(commands[p])
      BY <1>1, <2>1, MaxOf
    <3>2. \A y \in running[p] : y <= Max(commands[p])
      BY <1>1, <1>2, <3>1 DEF IInv, OutstandingAges
    <3> QED
      BY <1>1, <1>2, <1>3, <2>1, <3>1, <3>2 DEF Predecessor, BackOf, Outstanding
  <2>2. CASE commands[p] = {} /\ running[p] # {}
    <3>1. Max(running[p]) \in running[p] /\ \A y \in running[p] : y <= Max(running[p])
      BY <1>1, <2>2, MaxOf
    <3> QED
      BY <1>1, <1>2, <1>3, <2>2, <3>1 DEF Predecessor, BackOf, Outstanding
  <2>3. CASE commands[p] = {} /\ running[p] = {}
    BY <1>3, <2>3 DEF Predecessor, BackOf, Outstanding
  <2> QED
    BY <2>1, <2>2, <2>3
<1>4. CASE p # Mte1
  <2>1. CASE Outstanding(p) = {}
    BY <1>4, <2>1 DEF Predecessor
  <2>2. CASE Outstanding(p) # {}
    <3>1. lastReceived[p] \in Ids \cup {None}
      BY DEF IInv, Types
    <3>2. \A id \in Outstanding(p) : id <= lastReceived[p] /\ id \in Ids
      BY <1>1, <1>4 DEF IInv, LastAges, Outstanding
    <3>3. lastReceived[p] # None
      BY <2>2, <3>2 DEF Ids, None
    <3> QED
      BY <1>4, <2>2, <3>1, <3>2, <3>3 DEF Predecessor, IInv, LastAges
  <2> QED
    BY <2>1, <2>2
<1> QED
  BY <1>3, <1>4

-----------------------------------------------------------------------------
(* One lemma per action *)

LEMMA InitIInv == Init => IInv
<1> SUFFICES ASSUME Init PROVE IInv
  OBVIOUS
<1> HIDE DEF Event, Entry
<1>0. <<>> \in Seq(Event) /\ ToSet(<<>>) = {}
  BY ToSetEmpty
<1>1. Types
  BY <1>0, DepthAssumption DEF Init, Types, Ids
<1>2. IssuedAges /\ OutstandingAges /\ CubeSlot
  BY DEF Init, IssuedAges, OutstandingAges, CubeSlot, Outstanding, Ordered
<1>3. LastAges
  BY DEF Init, LastAges, Outstanding, None
<1>4. DeferredAges /\ NoStrandedEvent
  BY <1>0 DEF Init, DeferredAges, NoStrandedEvent, Ordered
<1>5. ReadyAges
  BY <1>0 DEF Init, ReadyAges
<1> QED
  BY <1>1, <1>2, <1>3, <1>4, <1>5 DEF IInv

queues == <<issued, commands, running, lastReceived, deferred, ready>>

\* Steps that only use up an id: barriers, observations of a drained pipe and
\* the steps of termination; so do steps that touch none of these variables.
LEMMA UseIdKeeps ==
  ASSUME IInv, nextId' \in Ids, nextId <= nextId', UNCHANGED queues
  PROVE  IInv'
<1> HIDE DEF Event, Entry
<1>0. /\ issued' = issued /\ commands' = commands /\ running' = running
      /\ lastReceived' = lastReceived /\ deferred' = deferred /\ ready' = ready
  BY DEF queues
<1>1. \A p : Outstanding(p)' = Outstanding(p) /\ Pending(p)' = Pending(p)
  BY <1>0 DEF Outstanding, Pending, IdsOf
<1>2. Types'
  BY <1>0 DEF IInv, Types
<1>3. \A x \in Int : x < nextId => x < nextId'
  BY DEF IInv, Types, Ids
<1>4. \A p \in Pipes : \A e \in issued[p] : e.id \in Int
  BY EntryFacts DEF IInv, Ids
<1>5. IssuedAges'
  BY <1>0, <1>1, <1>3, <1>4 DEF IInv, IssuedAges
<1>6. OutstandingAges'
  BY <1>0, <1>1, <1>3 DEF IInv, Types, OutstandingAges, Outstanding, Ids
<1>7. LastAges'
  BY <1>0, <1>1, <1>3 DEF IInv, Types, LastAges, Ids, None
<1>8. CubeSlot' /\ NoStrandedEvent'
  BY <1>0, <1>1 DEF IInv, CubeSlot, NoStrandedEvent
<1>9. \A s \in Seq(Event) : \A d \in ToSet(s) : d.id \in Int
  BY EventIds
<1>10. DeferredAges'
  BY <1>0, <1>1, <1>3, <1>9 DEF IInv, Types, DeferredAges
<1>11. ReadyAges'
  BY <1>0, <1>1, <1>3, <1>9 DEF IInv, Types, ReadyAges
<1> QED
  BY <1>2, <1>5, <1>6, <1>7, <1>8, <1>10, <1>11 DEF IInv

LEMMA EnqueueKeeps ==
  ASSUME IInv, NEW w \in Words, NEW P, P \subseteq Pipes, Enqueue(w, P),
         w.kind \in Flags => P = {w.pipe}
  PROVE  IInv'
<1> HIDE DEF Event
<1> DEFINE new == [id |-> nextId, word |-> w]
<1>0. /\ commands' = commands /\ running' = running
      /\ lastReceived' = lastReceived /\ deferred' = deferred /\ ready' = ready
      /\ nextId' = nextId + 1 /\ nextId < MaxId
      /\ issued' = [p \in Pipes |-> IF p \in P THEN issued[p] \cup {new} ELSE issued[p]]
  BY DEF Enqueue, events, CanIssue
<1>a. nextId \in Int /\ nextId \in Ids /\ nextId' \in Ids
  BY <1>0, DepthAssumption DEF IInv, Types, Ids
<1>1. /\ new \in Entry /\ new.id = nextId /\ new.word = w
      /\ nextId \in Int /\ nextId \in Ids /\ nextId' \in Ids
  BY <1>a, WordsAssumption DEF Entry
<1> HIDE DEF new, Entry
<1>2. \A p : Outstanding(p)' = Outstanding(p)
  BY <1>0 DEF Outstanding
<1>3. Types'
  BY <1>0, <1>1 DEF IInv, Types
<1>4. \A x \in Int : x < nextId => x < nextId'
  BY <1>0, <1>1
<1>5. \A p \in Pipes : \A e \in issued[p] : e.id \in Int /\ e.id < nextId
  BY EntryFacts DEF IInv, Ids
<1>6. \A p \in Pipes : \A e \in issued'[p] : e \in issued[p] \/ (e = new /\ p \in P)
  BY <1>0
<1>7. IssuedAges'
  <2> SUFFICES ASSUME NEW p \in Pipes, NEW e \in issued'[p]
      PROVE  /\ e.id < nextId'
             /\ e.word \in Words
             /\ e.word.kind \in Flags => e.word.pipe = p
             /\ \A f \in issued'[p] : f.id = e.id => f = e
             /\ \A id \in Outstanding(p) : id < e.id
    BY <1>2 DEF IssuedAges
  <2>1. CASE e \in issued[p]
    BY <1>1, <1>4, <1>5, <1>6, <2>1 DEF IInv, IssuedAges
  <2>2. CASE e = new /\ p \in P
    BY <1>0, <1>1, <1>5, <1>6, <2>2 DEF IInv, OutstandingAges
  <2> QED
    BY <1>6, <2>1, <2>2
<1>8. OutstandingAges'
  BY <1>0, <1>2, <1>4 DEF IInv, Types, OutstandingAges, Outstanding, Ids
<1>9. LastAges'
  BY <1>0, <1>1, <1>2, <1>4, <1>6 DEF IInv, Types, LastAges, Ids, None
<1>10. CubeSlot' /\ NoStrandedEvent'
  BY <1>0, <1>2 DEF IInv, CubeSlot, NoStrandedEvent
<1>11. \A s \in Seq(Event) : \A d \in ToSet(s) : d.id \in Int
  BY EventIds
<1>12. DeferredAges'
  BY <1>0, <1>1, <1>2, <1>4, <1>6, <1>11 DEF IInv, Types, DeferredAges
<1>13. \A p \in Pipes : \A id \in Pending(p)' : id \in Pending(p) \/ id = nextId
  BY <1>1, <1>2, <1>6 DEF Pending, IdsOf
<1>14. ReadyAges'
  BY <1>0, <1>1, <1>4, <1>11, <1>13 DEF IInv, Types, ReadyAges
<1> QED
  BY <1>3, <1>7, <1>8, <1>9, <1>10, <1>12, <1>14 DEF IInv

LEMMA ScalarFlagKeeps ==
  ASSUME IInv, NEW w \in Words, ScalarSet(w) \/ ScalarWait(w)
  PROVE  IInv'
<1> HIDE DEF Event, Entry
<1>0. /\ commands' = commands /\ running' = running /\ lastReceived' = lastReceived
      /\ deferred' = deferred /\ issued' = issued /\ nextId' = nextId + 1 /\ nextId < MaxId
  BY DEF ScalarSet, ScalarWait, SetEvent, frontend, CanIssue
<1>1. nextId \in Ids /\ nextId' \in Ids /\ nextId <= nextId' /\ nextId < nextId'
  BY <1>0, DepthAssumption DEF IInv, Types, Ids
<1>2. /\ ready' \in Seq(Event)
      /\ \A e \in ToSet(ready') : \/ e \in ToSet(ready)
                                  \/ e.id = nextId /\ e.route[1] \notin Pipes
  <2>1. CASE ScalarWait(w)
    BY <2>1, ConsumeShrinks DEF ScalarWait, IInv
  <2>2. CASE ScalarSet(w)
    <3> DEFINE new == EventOf([id |-> nextId, word |-> w])
    <3>1. w \in Word
      BY WordsAssumption
    <3>2. new \in Event /\ new.id = nextId /\ new.route = w.route
      BY <1>1, <3>1 DEF EventOf, Event, Word
    <3>3. w.route[1] \notin Pipes
      BY <2>2, WordsAssumption, PipesAssumption
      DEF ScalarSet, Scalar, Vector, Cube, Mte1, Mte2, Mte3, Fix
    <3>4. ready' = Append(ready, new)
      BY <2>2 DEF ScalarSet, SetEvent
    <3> HIDE DEF new
    <3>5. ToSet(ready') = ToSet(ready) \cup {new} /\ ready' \in Seq(Event)
      BY <3>2, <3>4, ToSetAppend DEF IInv, Types
    <3> QED
      BY <3>2, <3>3, <3>5
  <2> QED
    BY <2>1, <2>2
<1>3. \A p : Outstanding(p)' = Outstanding(p) /\ Pending(p)' = Pending(p)
  BY <1>0 DEF Outstanding, Pending, IdsOf
<1>4. \A x \in Int : x < nextId => x < nextId'
  BY <1>0 DEF IInv, Types, Ids
<1>5. Types'
  BY <1>0, <1>1, <1>2 DEF IInv, Types
<1>6. \A p \in Pipes : \A e \in issued[p] : e.id \in Int
  BY EntryFacts DEF IInv, Ids
<1>7. IssuedAges'
  BY <1>0, <1>3, <1>4, <1>6 DEF IInv, IssuedAges
<1>8. OutstandingAges'
  BY <1>0, <1>3, <1>4 DEF IInv, Types, OutstandingAges, Outstanding, Ids
<1>9. LastAges'
  BY <1>0, <1>3, <1>4 DEF IInv, Types, LastAges, Ids, None
<1>10. CubeSlot' /\ NoStrandedEvent'
  BY <1>0, <1>3 DEF IInv, CubeSlot, NoStrandedEvent
<1>11. \A s \in Seq(Event) : \A d \in ToSet(s) : d.id \in Int
  BY EventIds
<1>12. DeferredAges'
  BY <1>0, <1>3, <1>4, <1>11 DEF IInv, Types, DeferredAges
<1>13. ReadyAges'
  BY <1>1, <1>2, <1>3, <1>4, <1>11 DEF IInv, Types, ReadyAges
<1> QED
  BY <1>5, <1>7, <1>8, <1>9, <1>10, <1>12, <1>13 DEF IInv

LEMMA ReceiveSetKeeps ==
  ASSUME IInv, NEW p \in Pipes, ReceiveSet(p)
  PROVE  IInv'
<1> HIDE DEF Event, Entry
<1>0. PICK e \in issued[p] : /\ e.word.kind = "set" /\ Dequeue(p, e)
                             /\ SetEvent(p, e, Predecessor(p))
                             /\ UNCHANGED <<commands, running, lastReceived>>
  BY DEF ReceiveSet
<1> DEFINE new == EventOf(e)
           pre == Predecessor(p)
<1>1. /\ new \in Event /\ new.id = e.id /\ new.route[1] = p
      /\ e.id \in Ids /\ e.id \in Int /\ e.id < nextId
  BY <1>0, EntryFacts DEF IInv, Ids
<1>2. /\ \A f \in issued[p] \ {e} : e.id < f.id
      /\ issued' = [issued EXCEPT ![p] = @ \ {e}] /\ nextId' = nextId
      /\ commands' = commands /\ running' = running /\ lastReceived' = lastReceived
  BY <1>0, DequeuedIsOldest DEF IInv
<1>3. /\ pre = None <=> Outstanding(p) = {}
      /\ pre # None => /\ pre \in Ids
                       /\ \A id \in Outstanding(p) : id <= pre
                       /\ p \in Ordered => pre \in Outstanding(p)
  BY PredecessorIsYoungest
<1>4. \/ pre = None /\ ready' = Append(ready, new) /\ deferred' = deferred
      \/ /\ pre # None /\ ready' = ready
         /\ deferred' = [deferred EXCEPT ![<<p, pre>>] = Append(@, new)]
  BY <1>0 DEF SetEvent
<1> HIDE DEF new, pre
<1>5. \A q : Outstanding(q)' = Outstanding(q)
  BY <1>2 DEF Outstanding
<1>6. \A q \in Pipes : issued'[q] \subseteq issued[q]
  BY <1>2 DEF IInv, Types
<1>7. \A q \in Pipes : Pending(q)' \subseteq Pending(q)
  BY <1>5, <1>6 DEF Pending, IdsOf
<1>8. ready \in Seq(Event) /\ deferred \in [Pipes \X Ids -> Seq(Event)]
  BY DEF IInv, Types
<1>9. ready' \in Seq(Event) /\ \A x \in ToSet(ready') : x \in ToSet(ready) \/ (x = new /\ pre = None)
  <2>1. /\ Append(ready, new) \in Seq(Event)
        /\ ToSet(Append(ready, new)) = ToSet(ready) \cup {new}
    BY <1>1, <1>8, ToSetAppend
  <2> QED
    BY <1>4, <1>8, <2>1
<1>10. /\ deferred' \in [Pipes \X Ids -> Seq(Event)]
       /\ \A q \in Pipes, id \in Ids : \A d \in ToSet(deferred'[<<q, id>>]) :
            \/ d \in ToSet(deferred[<<q, id>>])
            \/ d = new /\ q = p /\ id = pre /\ pre # None
  <2>1. CASE pre = None
    BY <1>4, <1>8, <2>1
  <2>2. CASE pre # None
    <3>1. <<p, pre>> \in Pipes \X Ids /\ deferred[<<p, pre>>] \in Seq(Event)
      BY <1>3, <1>8, <2>2
    <3>2. /\ Append(deferred[<<p, pre>>], new) \in Seq(Event)
          /\ ToSet(Append(deferred[<<p, pre>>], new)) = ToSet(deferred[<<p, pre>>]) \cup {new}
      BY <1>1, <3>1, ToSetAppend
    <3>3. deferred' = [deferred EXCEPT ![<<p, pre>>] = Append(deferred[<<p, pre>>], new)]
      BY <1>4, <2>2
    <3> QED
      BY <1>8, <2>2, <3>1, <3>2, <3>3
  <2> QED
    BY <2>1, <2>2
<1>11. Types'
  BY <1>2, <1>9, <1>10 DEF IInv, Types
<1>12. IssuedAges'
  BY <1>2, <1>5, <1>6 DEF IInv, IssuedAges
<1>13. OutstandingAges' /\ CubeSlot'
  BY <1>2, <1>5 DEF IInv, OutstandingAges, CubeSlot
<1>14. LastAges'
  BY <1>2, <1>5, <1>6 DEF IInv, LastAges
<1>15. DeferredAges'
  <2> SUFFICES ASSUME NEW q \in Pipes, NEW id \in Ids, NEW d \in ToSet(deferred'[<<q, id>>])
      PROVE  /\ d.route[1] = q
             /\ d.id < nextId
             /\ \A f \in issued'[q] : d.id < f.id
             /\ \A o \in Outstanding(q) : o <= id \/ d.id < o
    BY <1>2, <1>5 DEF DeferredAges
  <2>1. CASE d \in ToSet(deferred[<<q, id>>])
    BY <1>6, <2>1 DEF IInv, DeferredAges
  <2>2. CASE d = new /\ q = p /\ id = pre /\ pre # None
    BY <1>1, <1>2, <1>3, <2>2 DEF IInv, Types
  <2> QED
    BY <1>10, <2>1, <2>2
<1>16. ReadyAges'
  <2> SUFFICES ASSUME NEW x \in ToSet(ready')
      PROVE  x.id < nextId /\ (x.route[1] \in Pipes => \A id \in Pending(x.route[1])' : x.id < id)
    BY <1>2 DEF ReadyAges
  <2>1. CASE x \in ToSet(ready)
    BY <1>7, <2>1 DEF IInv, ReadyAges
  <2>2. CASE x = new /\ pre = None
    <3>1. \A id \in Pending(p)' : \E f \in issued[p] \ {e} : id = f.id
      BY <1>2, <1>3, <1>5, <2>2 DEF Pending, IdsOf, IInv, Types
    <3> QED
      BY <1>1, <1>2, <2>2, <3>1
  <2> QED
    BY <1>9, <2>1, <2>2
<1>17. NoStrandedEvent'
  <2> SUFFICES ASSUME NEW q \in Ordered, NEW id \in Ids, deferred'[<<q, id>>] # <<>>
      PROVE  id \in Outstanding(q)
    BY <1>5 DEF NoStrandedEvent
  <2>1. q \in Pipes
    BY DEF Ordered
  <2>2. CASE deferred'[<<q, id>>] = deferred[<<q, id>>]
    BY <2>2 DEF IInv, NoStrandedEvent
  <2>3. CASE deferred'[<<q, id>>] # deferred[<<q, id>>]
    BY <1>3, <1>4, <1>8, <2>1, <2>3
  <2> QED
    BY <2>2, <2>3
<1> QED
  BY <1>11, <1>12, <1>13, <1>14, <1>15, <1>16, <1>17 DEF IInv

LEMMA ReceiveWaitKeeps ==
  ASSUME IInv, NEW p \in Pipes, ReceiveWait(p)
  PROVE  IInv'
<1> HIDE DEF Event, Entry
<1>0. PICK e \in issued[p] : /\ e.word.kind = "wait" /\ Dequeue(p, e) /\ Consume(e.word)
                             /\ UNCHANGED <<commands, running, lastReceived, deferred>>
  BY DEF ReceiveWait
<1>1. /\ issued' = [issued EXCEPT ![p] = @ \ {e}] /\ nextId' = nextId
      /\ commands' = commands /\ running' = running /\ lastReceived' = lastReceived
      /\ deferred' = deferred
  BY <1>0, DequeuedIsOldest DEF IInv
<1>2. ready' \in Seq(Event) /\ ToSet(ready') \subseteq ToSet(ready)
  BY <1>0, ConsumeShrinks DEF Dequeue, Receivable, IInv
<1>3. \A q : Outstanding(q)' = Outstanding(q)
  BY <1>1 DEF Outstanding
<1>4. \A q \in Pipes : issued'[q] \subseteq issued[q]
  BY <1>1 DEF IInv, Types
<1>5. \A q \in Pipes : Pending(q)' \subseteq Pending(q)
  BY <1>3, <1>4 DEF Pending, IdsOf
<1>6. Types'
  BY <1>1, <1>2 DEF IInv, Types
<1>7. IssuedAges'
  BY <1>1, <1>3, <1>4 DEF IInv, IssuedAges
<1>8. OutstandingAges' /\ CubeSlot' /\ NoStrandedEvent'
  BY <1>1, <1>3 DEF IInv, OutstandingAges, CubeSlot, NoStrandedEvent
<1>9. LastAges'
  BY <1>1, <1>3, <1>4 DEF IInv, LastAges
<1>10. DeferredAges'
  BY <1>1, <1>3, <1>4 DEF IInv, DeferredAges
<1>11. ReadyAges'
  BY <1>1, <1>2, <1>5 DEF IInv, ReadyAges
<1> QED
  BY <1>6, <1>7, <1>8, <1>9, <1>10, <1>11 DEF IInv

\* A received command is younger than all that is outstanding, so it goes to
\* the back; it becomes the last received one.
LEMMA ReceiveCommandKeeps ==
  ASSUME IInv, NEW p \in Pipes, NEW e \in issued[p], Dequeue(p, e), Remember(p, e.id),
         \/ /\ p # Cube /\ running' = running
            /\ commands' = [commands EXCEPT ![p] = @ \cup {e.id}]
         \/ /\ p = Cube /\ commands' = commands
            /\ running' = [running EXCEPT ![p] = @ \cup {e.id}],
         UNCHANGED events
  PROVE  IInv'
<1> HIDE DEF Event, Entry
<1>1. e.id \in Ids /\ e.id \in Int /\ e.id < nextId
  BY EntryFacts DEF IInv, Ids
<1>2. /\ \A f \in issued[p] \ {e} : e.id < f.id
      /\ issued' = [issued EXCEPT ![p] = @ \ {e}] /\ nextId' = nextId
      /\ ready' = ready /\ deferred' = deferred
  BY DequeuedIsOldest DEF IInv, events
<1>3. p = Cube => commands[p] = {}
  <2>1. IsFiniteSet(commands[p])
    <3>1. IsFiniteSet(Ids)
      BY FS_Interval, DepthAssumption DEF Ids
    <3>2. commands[p] \in SUBSET Ids
      BY DEF IInv, Types
    <3> QED
      BY <3>1, <3>2, FS_Subset
  <2> QED
    BY <2>1, FS_EmptySet, FS_CardinalityType, DepthAssumption
    DEF Dequeue, Receivable, RoomToReceive
<1>4. \A q \in Pipes : Outstanding(q)' = IF q = p THEN Outstanding(q) \cup {e.id} ELSE Outstanding(q)
  BY <1>1 DEF Outstanding, IInv, Types
<1>5. \A q \in Pipes : issued'[q] \subseteq issued[q]
  BY <1>2 DEF IInv, Types
<1>6. \A q \in Pipes : Pending(q)' \subseteq Pending(q)
  BY <1>2, <1>4, <1>5 DEF Pending, IdsOf
<1>7. Types'
  <2>1. commands' \in [Pipes -> SUBSET Ids] /\ running' \in [Pipes -> SUBSET Ids]
    BY <1>1 DEF IInv, Types
  <2>2. lastReceived' \in [Pipes -> Ids \cup {None}]
    BY <1>1 DEF IInv, Types, Remember
  <2> QED
    BY <1>2, <2>1, <2>2 DEF IInv, Types
<1>8. IssuedAges'
  BY <1>2, <1>4, <1>5 DEF IInv, IssuedAges, Types
<1>9. \A id \in Outstanding(p) : id < e.id
  BY DEF IInv, IssuedAges
<1>10. OutstandingAges'
  <2>1. \A q \in Pipes : \A id \in Outstanding(q)' : id < nextId'
    BY <1>1, <1>2, <1>4 DEF IInv, OutstandingAges
  <2>2. \A q \in Pipes : \A r \in running'[q], c \in commands'[q] : r < c
    <3>1. \A q \in Pipes : \A r \in running[q], c \in commands[q] : r < c
      BY DEF IInv, OutstandingAges
    <3>2. \A r \in running[p] : r < e.id
      BY <1>9 DEF Outstanding
    <3>3. \/ /\ running'[p] = running[p]
             /\ commands'[p] = commands[p] \cup {e.id}
          \/ /\ running'[p] = running[p] \cup {e.id}
             /\ commands'[p] = {}
      BY <1>3 DEF IInv, Types
    <3>4. \A q \in Pipes : q # p => running'[q] = running[q] /\ commands'[q] = commands[q]
      BY DEF IInv, Types
    <3> QED
      BY <3>1, <3>2, <3>3, <3>4
  <2> QED
    BY <2>1, <2>2 DEF OutstandingAges
<1>11. LastAges'
  <2>1. \A q \in Pipes : lastReceived'[q] = IF q = p /\ p # Mte1 THEN e.id ELSE lastReceived[q]
    BY DEF IInv, Types, Remember
  <2> SUFFICES ASSUME NEW q \in Pipes
      PROVE  /\ lastReceived'[q] < nextId
             /\ \A f \in issued'[q] : lastReceived'[q] < f.id
             /\ q # Mte1 => \A id \in Outstanding(q)' : id <= lastReceived'[q]
             /\ q # Mte1 /\ q \in Ordered /\ Outstanding(q)' # {}
                  => lastReceived'[q] \in Outstanding(q)'
    BY <1>2 DEF LastAges
  <2>2. CASE q # p \/ p = Mte1
    BY <1>4, <1>5, <2>1, <2>2 DEF IInv, LastAges
  <2>3. CASE q = p /\ p # Mte1
    <3>1. issued'[p] = issued[p] \ {e}
      BY <1>2 DEF IInv, Types
    <3>2. \A id \in Outstanding(p) : id \in Int
      BY DEF IInv, Types, Outstanding, Ids
    <3> QED
      BY <1>1, <1>2, <1>4, <1>9, <2>1, <2>3, <3>1, <3>2
  <2> QED
    BY <2>2, <2>3
<1>12. CubeSlot' /\ NoStrandedEvent'
  <2>1. CubeSlot'
    BY DEF IInv, CubeSlot, Types, Ordered
  <2>2. NoStrandedEvent'
    BY <1>2, <1>4 DEF IInv, NoStrandedEvent, Ordered
  <2> QED
    BY <2>1, <2>2
<1>13. DeferredAges'
  BY <1>2, <1>4, <1>5 DEF IInv, DeferredAges
<1>14. ReadyAges'
  BY <1>2, <1>6 DEF IInv, ReadyAges
<1> QED
  BY <1>7, <1>8, <1>10, <1>11, <1>12, <1>13, <1>14 DEF IInv

\* Cube control that completes at once is the last received instruction, but
\* without hardware flags and empty MMADs it meets an idle pipe.
LEMMA CubeControlKeeps ==
  ASSUME IInv, Cube \in Pipes, ReceiveControl \/ ReceiveBlockedFlag
  PROVE  IInv'
<1> HIDE DEF Event, Entry
<1>0. PICK e \in issued[Cube] :
        /\ Dequeue(Cube, e) /\ Remember(Cube, e.id) /\ UNCHANGED <<running, events>>
        /\ \/ /\ e.word.kind \in {"spr", "cross", "hflag", "empty"}
              /\ commands' = commands
           \/ /\ e.word.kind = "hflag"
              /\ commands' = [commands EXCEPT ![Cube] = {e.id}]
  BY DEF ReceiveControl, ReceiveBlockedFlag
<1>1. e.id \in Ids /\ e.id \in Int /\ e.id < nextId
  BY EntryFacts DEF IInv, Ids
<1>2. /\ \A f \in issued[Cube] \ {e} : e.id < f.id
      /\ issued' = [issued EXCEPT ![Cube] = @ \ {e}] /\ nextId' = nextId
      /\ ready' = ready /\ deferred' = deferred /\ running' = running
  BY <1>0, DequeuedIsOldest DEF IInv, events
<1>3. Cube \in Ordered => Outstanding(Cube) = {} /\ commands' = commands
  <2>1. e.word \in Words
    BY DEF IInv, IssuedAges
  <2>2. Cube \in Ordered => e.word.kind \in {"spr", "cross"}
    BY <1>0, <2>1 DEF Ordered, PlainCube
  <2> QED
    BY <1>0, <2>2 DEF Dequeue, Receivable, NeedsIdle
<1>4. /\ \A q \in Pipes : Outstanding(q)' \subseteq Outstanding(q) \cup (IF q = Cube THEN {e.id} ELSE {})
      /\ \A q \in Ordered : Outstanding(q)' = Outstanding(q)
  BY <1>0, <1>2, <1>3 DEF Outstanding, IInv, Types, Ordered
<1>5. \A q \in Pipes : issued'[q] \subseteq issued[q]
  BY <1>2 DEF IInv, Types
<1>6. \A q \in Pipes : Pending(q)' \subseteq Pending(q)
  BY <1>2, <1>4, <1>5 DEF Pending, IdsOf
<1>7. Types'
  <2>1. commands' \in [Pipes -> SUBSET Ids]
    <3>1. commands \in [Pipes -> SUBSET Ids] /\ {e.id} \in SUBSET Ids
      BY <1>1 DEF IInv, Types
    <3>2. commands' = commands \/ commands' = [commands EXCEPT ![Cube] = {e.id}]
      BY <1>0
    <3> QED
      BY <3>1, <3>2
  <2>2. lastReceived' \in [Pipes -> Ids \cup {None}]
    BY <1>0, <1>1 DEF IInv, Types, Remember
  <2> QED
    BY <1>2, <2>1, <2>2 DEF IInv, Types
<1>8. IssuedAges'
  BY <1>2, <1>4, <1>5 DEF IInv, IssuedAges, Types
<1>9. \A id \in Outstanding(Cube) : id < e.id /\ id \in Int
  BY DEF IInv, IssuedAges, Types, Outstanding, Ids
<1>10. OutstandingAges'
  <2>1. \A q \in Pipes : \A id \in Outstanding(q)' : id < nextId'
    BY <1>1, <1>2, <1>4 DEF IInv, OutstandingAges
  <2>2. \A q \in Pipes : \A r \in running'[q], c \in commands'[q] : r < c
    BY <1>0, <1>2, <1>9 DEF IInv, OutstandingAges, Types, Outstanding
  <2> QED
    BY <2>1, <2>2 DEF OutstandingAges
<1>11. LastAges'
  <2>1. \A q \in Pipes : lastReceived'[q] = IF q = Cube THEN e.id ELSE lastReceived[q]
    BY <1>0 DEF IInv, Types, Remember, Cube, Mte1
  <2> SUFFICES ASSUME NEW q \in Pipes
      PROVE  /\ lastReceived'[q] < nextId
             /\ \A f \in issued'[q] : lastReceived'[q] < f.id
             /\ q # Mte1 => \A id \in Outstanding(q)' : id <= lastReceived'[q]
             /\ q # Mte1 /\ q \in Ordered /\ Outstanding(q)' # {}
                  => lastReceived'[q] \in Outstanding(q)'
    BY <1>2 DEF LastAges
  <2>2. CASE q # Cube
    BY <1>4, <1>5, <2>1, <2>2 DEF IInv, LastAges
  <2>3. CASE q = Cube
    <3>1. issued'[Cube] = issued[Cube] \ {e}
      BY <1>2 DEF IInv, Types
    <3> QED
      BY <1>1, <1>2, <1>3, <1>4, <1>9, <2>1, <2>3, <3>1
  <2> QED
    BY <2>2, <2>3
<1>12. CubeSlot' /\ NoStrandedEvent'
  BY <1>2, <1>3, <1>4 DEF IInv, CubeSlot, NoStrandedEvent
<1>13. DeferredAges'
  BY <1>2, <1>4, <1>5 DEF IInv, DeferredAges
<1>14. ReadyAges'
  BY <1>2, <1>6 DEF IInv, ReadyAges
<1> QED
  BY <1>7, <1>8, <1>10, <1>11, <1>12, <1>13, <1>14 DEF IInv

LEMMA FinishActiveFlagKeeps ==
  ASSUME IInv, Cube \in Pipes, FinishActiveFlag
  PROVE  IInv'
<1> HIDE DEF Event, Entry
<1>1. /\ issued' = issued /\ running' = running /\ lastReceived' = lastReceived
      /\ deferred' = deferred /\ ready' = ready /\ nextId' = nextId
      /\ commands' = [commands EXCEPT ![Cube] = {}]
      /\ Cube \notin Ordered
  BY DEF FinishActiveFlag, events, IInv, CubeSlot
<1>2. /\ \A q \in Pipes : Outstanding(q)' \subseteq Outstanding(q)
      /\ \A q \in Ordered : Outstanding(q)' = Outstanding(q)
      /\ \A q \in Pipes : commands'[q] \subseteq commands[q]
  BY <1>1 DEF Outstanding, IInv, Types, Ordered
<1>3. \A q \in Pipes : Pending(q)' \subseteq Pending(q)
  BY <1>1, <1>2 DEF Pending, IdsOf
<1>4. Types'
  BY <1>1 DEF IInv, Types
<1>5. IssuedAges' /\ OutstandingAges' /\ LastAges'
  BY <1>1, <1>2 DEF IInv, IssuedAges, OutstandingAges, LastAges
<1>6. CubeSlot' /\ NoStrandedEvent'
  BY <1>1, <1>2 DEF IInv, CubeSlot, NoStrandedEvent
<1>7. DeferredAges'
  BY <1>1, <1>2 DEF IInv, DeferredAges
<1>8. ReadyAges'
  BY <1>1, <1>3 DEF IInv, ReadyAges
<1> QED
  BY <1>4, <1>5, <1>6, <1>7, <1>8 DEF IInv

LEMMA DispatchKeeps ==
  ASSUME IInv, NEW p \in Pipes, Dispatch(p)
  PROVE  IInv'
<1> HIDE DEF Event, Entry
<1> DEFINE id == Min(commands[p])
<1>1. /\ issued' = issued /\ lastReceived' = lastReceived
      /\ deferred' = deferred /\ ready' = ready /\ nextId' = nextId
      /\ commands' = [commands EXCEPT ![p] = @ \ {id}]
      /\ running' = [running EXCEPT ![p] = @ \cup {id}]
      /\ commands[p] # {} /\ p # Cube
  BY DEF Dispatch, events
<1>2. /\ id \in commands[p] /\ id \in Ids /\ \A c \in commands[p] : id <= c /\ c \in Int
  BY <1>1, MinOf DEF IInv, Types, Ids
<1> HIDE DEF id
<1>3. \A q \in Pipes : Outstanding(q)' = Outstanding(q)
  BY <1>1, <1>2 DEF Outstanding, IInv, Types
<1>4. \A q \in Pipes : Pending(q)' = Pending(q)
  BY <1>1, <1>3 DEF Pending, IdsOf
<1>5. Types'
  BY <1>1, <1>2 DEF IInv, Types
<1>6. IssuedAges' /\ LastAges'
  BY <1>1, <1>3 DEF IInv, IssuedAges, LastAges
<1>7. OutstandingAges'
  <2>1. \A q \in Pipes : \A r \in running'[q], c \in commands'[q] : r < c
    BY <1>1, <1>2 DEF IInv, OutstandingAges, Types, Ids
  <2> QED
    BY <1>1, <1>3, <2>1 DEF IInv, OutstandingAges
<1>8. CubeSlot' /\ NoStrandedEvent'
  BY <1>1, <1>3 DEF IInv, CubeSlot, NoStrandedEvent, Types, Ordered
<1>9. DeferredAges'
  BY <1>1, <1>3 DEF IInv, DeferredAges
<1>10. ReadyAges'
  BY <1>1, <1>4 DEF IInv, ReadyAges
<1> QED
  BY <1>5, <1>6, <1>7, <1>8, <1>9, <1>10 DEF IInv

\* The oldest outstanding command retires: what was deferred behind it is
\* older than all that stays.
LEMMA RetireKeeps ==
  ASSUME IInv, NEW p \in Pipes, Retire(p)
  PROVE  IInv'
<1> HIDE DEF Event, Entry
<1> DEFINE id == Min(running[p])
           out == deferred[<<p, id>>]
<1>1. /\ issued' = issued /\ lastReceived' = lastReceived
      /\ commands' = commands /\ nextId' = nextId
      /\ running' = [running EXCEPT ![p] = @ \ {id}]
      /\ running[p] # {}
      /\ ready' = ready \o out
      /\ deferred' = [deferred EXCEPT ![<<p, id>>] = <<>>]
  BY DEF Retire, Retired, PublishDeferred
<1>2. id \in running[p] /\ id \in Ids /\ \A r \in running[p] : id <= r /\ r \in Int
  BY <1>1, OldestRunning
<1>3. <<p, id>> \in Pipes \X Ids /\ out \in Seq(Event) /\ ready \in Seq(Event)
  BY <1>2 DEF IInv, Types
<1>4. ready' \in Seq(Event) /\ ToSet(ready') = ToSet(ready) \cup ToSet(out)
  <2> HIDE DEF out
  <2>1. ready \o out \in Seq(Event) /\ ToSet(ready \o out) = ToSet(ready) \cup ToSet(out)
    BY <1>3, ToSetConcat
  <2> QED
    BY <1>1, <2>1
<1>5. /\ deferred' \in [Pipes \X Ids -> Seq(Event)]
      /\ \A k \in Pipes \X Ids :
           deferred'[k] = IF k = <<p, id>> THEN <<>> ELSE deferred[k]
  <2>1. deferred \in [Pipes \X Ids -> Seq(Event)] /\ <<>> \in Seq(Event)
    BY ToSetEmpty DEF IInv, Types
  <2> QED
    BY <1>1, <1>3, <2>1, UpdateTyped
<1>6. \A q \in Pipes, i \in Ids : ToSet(deferred'[<<q, i>>]) \subseteq ToSet(deferred[<<q, i>>])
  BY <1>5, ToSetEmpty
<1>7. ToSet(out) = ToSet(deferred[<<p, id>>])
  OBVIOUS
<1> HIDE DEF id, out
<1>8. \A q \in Pipes : Outstanding(q)' = IF q = p THEN Outstanding(q) \ {id} ELSE Outstanding(q)
  <2>1. id \notin commands[p]
    BY <1>2 DEF IInv, OutstandingAges, Types, Ids
  <2> QED
    BY <1>1, <2>1 DEF Outstanding, IInv, Types
<1>9. \A o \in Outstanding(p)' : id < o /\ o \in Int
  <2>1. \A c \in commands[p] : id < c /\ c \in Int
    BY <1>2 DEF IInv, OutstandingAges, Types, Ids
  <2>2. \A r \in running'[p] : id < r /\ r \in Int
    BY <1>1, <1>2 DEF IInv, Types, Ids
  <2> QED
    BY <1>1, <2>1, <2>2 DEF Outstanding
<1>10. \A q \in Pipes : Pending(q)' \subseteq Pending(q)
  BY <1>1, <1>8 DEF Pending, IdsOf
<1>11. Types'
  BY <1>1, <1>4, <1>5 DEF IInv, Types
<1>12. IssuedAges'
  BY <1>1, <1>8 DEF IInv, IssuedAges
<1>13. OutstandingAges'
  BY <1>1, <1>8 DEF IInv, OutstandingAges, Types
<1>14. LastAges'
  <2> SUFFICES ASSUME NEW q \in Pipes
      PROVE  /\ lastReceived[q] < nextId
             /\ \A f \in issued[q] : lastReceived[q] < f.id
             /\ q # Mte1 => \A i \in Outstanding(q)' : i <= lastReceived[q]
             /\ q # Mte1 /\ q \in Ordered /\ Outstanding(q)' # {}
                  => lastReceived[q] \in Outstanding(q)'
    BY <1>1 DEF LastAges
  <2>1. CASE q # p
    BY <1>8, <2>1 DEF IInv, LastAges
  <2>2. CASE q = p
    <3>1. lastReceived[p] \in Int
      BY DEF IInv, Types, Ids, None
    <3>2. p # Mte1 /\ Outstanding(p)' # {} => lastReceived[p] # id
      BY <1>2, <1>8, <1>9, <3>1 DEF IInv, LastAges, Ids
    <3> QED
      BY <1>8, <2>2, <3>2 DEF IInv, LastAges
  <2> QED
    BY <2>1, <2>2
<1>15. CubeSlot'
  BY <1>1 DEF IInv, CubeSlot
<1>16. NoStrandedEvent'
  BY <1>3, <1>5, <1>8 DEF IInv, NoStrandedEvent, Ordered
<1>17. DeferredAges'
  BY <1>1, <1>6, <1>8 DEF IInv, DeferredAges
<1>18. ReadyAges'
  <2> SUFFICES ASSUME NEW x \in ToSet(ready')
      PROVE  x.id < nextId /\ (x.route[1] \in Pipes => \A i \in Pending(x.route[1])' : x.id < i)
    BY <1>1 DEF ReadyAges
  <2>1. CASE x \in ToSet(ready)
    BY <1>10, <2>1 DEF IInv, ReadyAges
  <2>2. CASE x \in ToSet(out)
    <3>1. /\ x.route[1] = p /\ x.id < nextId
          /\ \A f \in issued[p] : x.id < f.id
          /\ \A o \in Outstanding(p) : o <= id \/ x.id < o
      BY <1>2, <1>7, <2>2 DEF IInv, DeferredAges
    <3>2. \A o \in Outstanding(p)' : x.id < o
      BY <1>2, <1>8, <1>9, <3>1 DEF Ids
    <3> QED
      BY <1>1, <3>1, <3>2 DEF Pending, IdsOf
  <2> QED
    BY <1>4, <2>1, <2>2
<1> QED
  BY <1>11, <1>12, <1>13, <1>14, <1>15, <1>16, <1>17, <1>18 DEF IInv

-----------------------------------------------------------------------------
LEMMA DispatchWordKeeps ==
  ASSUME IInv, NEW w \in Words, DispatchWord(w)
  PROVE  IInv'
<1>1. nextId \in Ids /\ (CanIssue => nextId + 1 \in Ids /\ nextId <= nextId + 1)
  BY DepthAssumption DEF IInv, Types, Ids, CanIssue
<1>2. ASSUME NEW P, P \subseteq Pipes, Enqueue(w, P), w.kind \in Flags => P = {w.pipe}
      PROVE  IInv'
  BY <1>2, EnqueueKeeps
<1>3. ASSUME NEW p, IssueBarrier(w, p)
      PROVE  IInv'
  BY <1>1, <1>3, UseIdKeeps DEF IssueBarrier, events, queues
<1>4. ASSUME NEW P, CanIssue, Observe(P)
      PROVE  IInv'
  BY <1>1, <1>4, UseIdKeeps DEF Observe, events, frontend, queues
<1>5. w \in Word /\ (w.kind = "spr" => w.pipe = Cube \/ (w.pipe = Mte1 /\ Mte2 \in Pipes))
  BY WordsAssumption
<1>6. w.pipe \in Pipes \cup {Scalar}
  BY <1>5 DEF Word
<1>7. CASE AcceptMte1(w)
  <2>1. Mte1 \in Pipes
    BY <1>6, <1>7 DEF AcceptMte1, Mte1, Scalar
  <2>2. w.kind = "spr" => {Mte1, Mte2} \subseteq Pipes /\ w.kind \notin Flags
    BY <1>5, <1>7, <2>1 DEF AcceptMte1, Mte1, Cube, Flags
  <2> QED
    BY <1>2, <1>7, <2>1, <2>2 DEF AcceptMte1
<1>8. CASE AcceptMte2(w)
  BY <1>2, <1>6, <1>8 DEF AcceptMte2, Mte2, Scalar
<1>9. CASE AcceptMte3(w)
  BY <1>2, <1>6, <1>9 DEF AcceptMte3, Mte3, Scalar
<1>10. CASE AcceptCube(w)
  BY <1>2, <1>6, <1>10 DEF AcceptCube, Cube, Scalar
<1>11. CASE AcceptFixp(w)
  BY <1>2, <1>6, <1>11 DEF AcceptFixp, Fix, Scalar
<1>12. CASE AcceptVector(w)
  BY <1>2, <1>6, <1>12 DEF AcceptVector, Vector, Scalar
<1>13. CASE \/ IssueMte1Barrier(w) \/ IssueMte2Barrier(w) \/ IssueMte3Barrier(w)
            \/ IssueCubeBarrier(w) \/ IssueFixpBarrier(w) \/ IssueVectorBarrier(w)
  BY <1>3, <1>13 DEF IssueMte1Barrier, IssueMte2Barrier, IssueMte3Barrier,
                     IssueCubeBarrier, IssueFixpBarrier, IssueVectorBarrier
<1>14. CASE ScalarSet(w) \/ ScalarWait(w)
  BY <1>14, ScalarFlagKeeps
<1>15. CASE IssueBarrierAll(w) \/ ReadSpr(w) \/ SendVectorCrossCore(w)
  BY <1>4, <1>15 DEF IssueBarrierAll, ReadSpr, SendVectorCrossCore
<1>16. CASE BeginTermination(w)
  BY <1>1, <1>16, UseIdKeeps DEF BeginTermination, events, frontend, queues
<1> QED
  BY <1>7, <1>8, <1>9, <1>10, <1>11, <1>12, <1>13, <1>14, <1>15, <1>16 DEF DispatchWord

LEMMA StepKeeps ==
  ASSUME IInv, [Next]_vars
  PROVE  IInv'
<1>1. nextId \in Ids /\ nextId <= nextId
  BY DEF IInv, Types, Ids
<1>2. ASSUME NEW p \in Pipes, Receive(p), p # Cube
      PROVE  IInv'
  <2>1. CASE ReceiveSet(p) \/ ReceiveWait(p)
    BY <2>1, ReceiveSetKeeps, ReceiveWaitKeeps
  <2>2. CASE ReceiveCommand(p)
    <3>1. PICK e \in issued[p] : /\ Dequeue(p, e) /\ Remember(p, e.id)
                                 /\ commands' = [commands EXCEPT ![p] = @ \cup {e.id}]
                                 /\ UNCHANGED <<running, events>>
      BY <2>2 DEF ReceiveCommand
    <3> QED
      BY <1>2, <3>1, ReceiveCommandKeeps
  <2> QED
    BY <1>2, <2>1, <2>2 DEF Receive
<1>3. CASE \E w \in Words : DispatchWord(w)
  BY <1>3, DispatchWordKeeps
<1>4. CASE MteStep
  BY <1>2, <1>4, DispatchKeeps, RetireKeeps
  DEF MteStep, TransferMte1Issue, TransferMte2Issue, TransferMte3Issue,
      DispatchMte1Head, DispatchMte2Head, DispatchMte3Head,
      RetireMte1, RetireMte2, RetireMte3, Mte1, Mte2, Mte3, Cube
<1>5. CASE FixpStep
  <2>1. CASE ReleaseFixBarriers
    BY <1>1, <2>1, UseIdKeeps DEF ReleaseFixBarriers, events, queues
  <2> QED
    BY <1>2, <1>5, <2>1, DispatchKeeps, RetireKeeps
    DEF FixpStep, TransferFixpIssue, DispatchFixpHead, RetireFixp, Fix, Cube
<1>6. CASE VectorStep
  BY <1>2, <1>6, DispatchKeeps, RetireKeeps
  DEF VectorStep, AdvanceVectorFrontend, DispatchVector, RetireVector, Vector, Cube
<1>7. CASE CubeStep
  <2>1. Cube \in Pipes
    BY <1>7 DEF CubeStep
  <2>2. CASE DispatchCubeFlag
    BY <2>1, <2>2, ReceiveSetKeeps, ReceiveWaitKeeps DEF DispatchCubeFlag
  <2>3. CASE ReceiveMmad
    <3>1. PICK e \in issued[Cube] : /\ Dequeue(Cube, e) /\ Remember(Cube, e.id)
                                    /\ running' = [running EXCEPT ![Cube] = @ \cup {e.id}]
                                    /\ UNCHANGED <<commands, events>>
      BY <2>3 DEF ReceiveMmad
    <3> QED
      BY <2>1, <3>1, ReceiveCommandKeeps
  <2> QED
    BY <1>7, <2>1, <2>2, <2>3, CubeControlKeeps, FinishActiveFlagKeeps, RetireKeeps
    DEF CubeStep, RetireCube
<1>8. CASE AdvanceTermination \/ UNCHANGED vars
  BY <1>1, <1>8, UseIdKeeps DEF AdvanceTermination, vars, events, frontend, queues
<1> QED
  BY <1>3, <1>4, <1>5, <1>6, <1>7, <1>8 DEF Next

\* The ages of what the pipes hold are an inductive invariant.
THEOREM Invariance == Spec => []IInv
<1>1. IInv /\ [Next]_vars => IInv'
  BY StepKeeps
<1> QED
  BY InitIInv, <1>1, PTL DEF Spec

\* No set is deferred behind an instruction that will not retire: in every
\* pipe whose commands all pass through its engine, a deferred event waits
\* for an outstanding command (C220PipelineEvents::set and retire).
THEOREM NoEventStranded == Spec => []NoStrandedEvent
<1>1. IInv => NoStrandedEvent
  BY DEF IInv
<1> QED
  BY Invariance, <1>1, PTL

\* An event becomes visible only when every older command of its source pipe
\* has retired, whatever the program (C220PipelineEvents::retire).
THEOREM EventsOrderPipes == Spec => []PublishedAfterOlder
<1>1. IInv => PublishedAfterOlder
  <2> SUFFICES ASSUME IInv, NEW i \in DOMAIN ready, ready[i].route[1] \in Pipes,
                      NEW id \in Pending(ready[i].route[1])
               PROVE  id > ready[i].id
    BY DEF PublishedAfterOlder
  <2>1. ready[i] \in ToSet(ready)
    BY DEF ToSet
  <2>2. ready[i].id < id
    BY <2>1 DEF IInv, ReadyAges
  <2>3. ready[i].id \in Int
    BY <2>1, EventIds DEF IInv, Types
  <2>4. id \in Int
    BY EntryFacts DEF Pending, IdsOf, Outstanding, IInv, Types, Ids
  <2> QED
    BY <2>2, <2>3, <2>4
<1> QED
  BY Invariance, <1>1, PTL

-----------------------------------------------------------------------------
(* Barriers, depths and drained pipes                                      *)

\* The last accepted instruction is the youngest one the pipe holds.
AcceptedAges ==
  \A p \in Pipes :
    /\ lastAccepted[p] \in Ids \cup {None} /\ lastAccepted[p] < nextId
    /\ \A id \in Pending(p) : id <= lastAccepted[p]

\* A pending barrier came after its predecessor and before all that was
\* accepted later.
BarrierAges ==
  \A p \in Pipes : \A b \in barriers[p] :
    /\ b.predecessor < b.id /\ b.id < nextId
    /\ \A id \in Pending(p) : id <= b.predecessor \/ b.id < id

\* What b may still have to wait for when its predecessor is gone: a flag
\* completes before the older commands of its pipe, nothing else does.
WaitsFor(b, p) ==
  /\ b.predecessor \notin Pending(p) =>
       \A id \in IF b.requiresIdle THEN IdsOf(issued[p]) ELSE Pending(p) : b.id < id
  /\ ~ b.requiresIdle =>
       \A e \in issued[p] : e.id = b.predecessor => e.word.kind \notin Flags

BarrierWaits == \A p \in Ordered : \A b \in barriers[p] : WaitsFor(b, p)

\* A completed barrier is older than all that is still to be issued.
CompletedAges ==
  \A c \in completed : c \in [pipe : Pipes, id : Ids, waited : BOOLEAN] /\ c.id < nextId

DrainedAges ==
  \A p \in Pipes : drained[p] \in Ids \cup {None} /\ drained[p] < nextId

Depths ==
  \A p \in Pipes :
    /\ IsFiniteSet(issued[p])
    /\ Cardinality(issued[p]) <= IssueDepth[p]
    /\ Cardinality(commands[p]) <= CommandDepth[p]
    /\ Cardinality(Outstanding(p)) <= OutstandingLimit[p]

\* The events of pipe p that are published or deferred.
EventsOf(p) ==
  {x \in ToSet(ready) : x.route[1] = p} \cup UNION {ToSet(deferred[<<p, id>>]) : id \in Ids}

BarrierTypes ==
  /\ barriers \in [Pipes -> SUBSET Barrier]
  /\ lastAccepted \in [Pipes -> Ids \cup {None}]
  /\ drained \in [Pipes -> Ids \cup {None}]
  /\ termination \in {"running", "draining", "complete"}

Waiting(b, pend, out) == b.predecessor \in pend \/ (b.requiresIdle /\ out # {})

\* NoOverlookedBarrier, for one pipe.
FrontWaits(p) ==
  \A b \in barriers[p] : \E a \in barriers[p] :
    a.id <= b.id /\ Waiting(a, Pending(p), Outstanding(p))

\* The invariants about barriers, by the events of a pipe.
HoldsYounger ==
  \A p \in Pipes : \A b \in barriers[p] :
    /\ \A id \in Outstanding(p) : id < b.id
    /\ \A x \in EventsOf(p) : x.id < b.id

StaysDrained ==
  \A p \in Ordered :
    /\ \A id \in Pending(p) : id > drained[p]
    /\ \A b \in barriers[p] : b.id > drained[p]
    /\ \A id \in Ids : \A d \in ToSet(deferred[<<p, id>>]) : d.id > drained[p]

BInv ==
  /\ BarrierTypes /\ AcceptedAges /\ BarrierAges /\ BarrierWaits
  /\ CompletedAges /\ DrainedAges /\ Depths
  /\ HoldsYounger /\ WaitedBarrierOrders /\ StaysDrained
  /\ \A p \in Pipes \ {Fix} : FrontWaits(p)

LEMMA BarrierIds ==
  ASSUME BarrierTypes, NEW p \in Pipes, NEW b \in barriers[p]
  PROVE  /\ b \in Barrier /\ b.id \in Ids /\ b.id \in Int
         /\ b.predecessor \in Ids /\ b.predecessor \in Int /\ b.requiresIdle \in BOOLEAN
  BY DEF BarrierTypes, Barrier, Ids

LEMMA PendingIds ==
  ASSUME Types, NEW p \in Pipes
  PROVE  /\ \A id \in Pending(p) : id \in Ids /\ id \in Int
         /\ \A id \in Outstanding(p) : id \in Ids /\ id \in Int
         /\ \A e \in issued[p] : e \in Entry /\ e.id \in Ids /\ e.id \in Int
         /\ Outstanding(p) \subseteq Pending(p) /\ IdsOf(issued[p]) \subseteq Pending(p)
<1>1. \A id \in Outstanding(p) : id \in Ids /\ id \in Int
  BY DEF Types, Outstanding, Ids
<1>2. \A e \in issued[p] : e \in Entry /\ e.id \in Ids /\ e.id \in Int
  BY DEF Types, Entry, Ids
<1> QED
  BY <1>1, <1>2 DEF Pending, IdsOf

LEMMA KeptIsSubset ==
  ASSUME NEW p, NEW pend, NEW out
  PROVE  /\ KeptBarriers(p, pend, out) \subseteq barriers[p]
         /\ \A b \in barriers[p] \ KeptBarriers(p, pend, out) :
              \A a \in barriers[p] : a.id <= b.id => ~ Waiting(a, pend, out)
         /\ \A b \in KeptBarriers(p, pend, out) : \E a \in barriers[p] :
              a.id <= b.id /\ Waiting(a, pend, out)
  BY DEF KeptBarriers, Waiting

LEMMA KeptMembers ==
  ASSUME BarrierTypes, NEW p \in Pipes, NEW pend, NEW out
  PROVE  \A b \in KeptBarriers(p, pend, out) : \E a \in KeptBarriers(p, pend, out) :
              a.id <= b.id /\ Waiting(a, pend, out)
<1> SUFFICES ASSUME NEW b \in KeptBarriers(p, pend, out)
             PROVE  \E a \in KeptBarriers(p, pend, out) : a.id <= b.id /\ Waiting(a, pend, out)
  OBVIOUS
<1>1. PICK a \in barriers[p] : a.id <= b.id /\ Waiting(a, pend, out)
  BY KeptIsSubset
<1>2. a.id <= a.id
  BY BarrierIds
<1>3. a \in KeptBarriers(p, pend, out)
  BY <1>1, <1>2, KeptIsSubset
<1> QED
  BY <1>1, <1>3

\* Fewer instructions keep fewer barriers.
LEMMA KeptShrinks ==
  ASSUME NEW p, NEW pend, NEW out, NEW pend1, NEW out1,
         pend \subseteq pend1, out # {} => out1 # {}
  PROVE  KeptBarriers(p, pend, out) \subseteq KeptBarriers(p, pend1, out1)
  BY DEF KeptBarriers

LEMMA NoneOverlooked ==
  NoOverlookedBarrier <=> \A p \in Pipes \ {Fix} : FrontWaits(p)
  BY DEF NoOverlookedBarrier, FrontWaits, KeptBarriers, Waiting

LEMMA EventMembers ==
  ASSUME NEW p \in Pipes
  PROVE  /\ \A i \in DOMAIN ready : ready[i].route[1] = p => ready[i] \in EventsOf(p)
         /\ \A id \in Ids : \A i \in DOMAIN deferred[<<p, id>>] : deferred[<<p, id>>][i] \in EventsOf(p)
         /\ \A x \in EventsOf(p) :
              \/ \E i \in DOMAIN ready : x = ready[i] /\ ready[i].route[1] = p
              \/ \E id \in Ids : \E i \in DOMAIN deferred[<<p, id>>] : x = deferred[<<p, id>>][i]
<1>1. \A x \in ToSet(ready) : \E i \in DOMAIN ready : x = ready[i]
  BY DEF ToSet
<1>2. \A i \in DOMAIN ready : ready[i] \in ToSet(ready)
  BY DEF ToSet
<1>3. \A id \in Ids : \A x \in ToSet(deferred[<<p, id>>]) :
        \E i \in DOMAIN deferred[<<p, id>>] : x = deferred[<<p, id>>][i]
  BY DEF ToSet
<1>4. \A id \in Ids : \A i \in DOMAIN deferred[<<p, id>>] :
        deferred[<<p, id>>][i] \in ToSet(deferred[<<p, id>>])
  BY DEF ToSet
<1> QED
  BY <1>1, <1>2, <1>3, <1>4 DEF EventsOf

LEMMA HoldsYoungerDef == BarrierHoldsYounger <=> HoldsYounger
<1>1. ASSUME BarrierHoldsYounger PROVE HoldsYounger
  <2> SUFFICES ASSUME NEW p \in Pipes, NEW b \in barriers[p], NEW x \in EventsOf(p)
               PROVE  x.id < b.id
    BY <1>1 DEF BarrierHoldsYounger, HoldsYounger
  <2>1. CASE \E i \in DOMAIN ready : x = ready[i] /\ ready[i].route[1] = p
    BY <1>1, <2>1 DEF BarrierHoldsYounger
  <2>2. CASE \E id \in Ids : \E i \in DOMAIN deferred[<<p, id>>] : x = deferred[<<p, id>>][i]
    BY <1>1, <2>2 DEF BarrierHoldsYounger
  <2> QED
    BY <2>1, <2>2, EventMembers
<1>2. ASSUME HoldsYounger PROVE BarrierHoldsYounger
  BY <1>2, EventMembers DEF BarrierHoldsYounger, HoldsYounger
<1> QED
  BY <1>1, <1>2

LEMMA StaysDrainedDef == DrainedStaysDrained <=> StaysDrained
<1>1. \A p \in Ordered, id \in Ids :
        (\A d \in ToSet(deferred[<<p, id>>]) : d.id > drained[p])
        <=> \A i \in DOMAIN deferred[<<p, id>>] : deferred[<<p, id>>][i].id > drained[p]
  BY DEF ToSet
<1>2. \A p \in Ordered :
        (\A id \in Pending(p) \cup IdsOf(barriers[p]) : id > drained[p])
        <=> /\ \A id \in Pending(p) : id > drained[p]
            /\ \A b \in barriers[p] : b.id > drained[p]
  BY DEF IdsOf
<1> QED
  BY <1>1, <1>2 DEF DrainedStaysDrained, StaysDrained

-----------------------------------------------------------------------------
(* What a step of an engine may do to the pipe p it runs *)

\* An instruction that is received is not behind a barrier that stays.
Passes(p, id) == \A b \in barriers'[p] : id <= b.predecessor

NewEvent(p, x) == x.route[1] = p /\ x.id \in Pending(p) /\ Passes(p, x.id)

\* An instruction leaves before all younger ones, but a flag may leave before
\* the outstanding older commands.
LeavesInOrder(p) ==
  p \in Ordered =>
    \A x \in Pending(p) \ Pending(p)', y \in Pending(p)' :
      \/ x < y
      \/ /\ y \notin IdsOf(issued'[p])
         /\ \E e \in issued[p] : e.id = x /\ e.word.kind \in Flags

\* Barriers are released by what is pending after the step.  FIX releases
\* before it receives; a step that frees no barrier does not look at them.
ReleasesBarriers(p) ==
  \/ Release(p, Pending(p)', Outstanding(p)')
  \/ p = Fix /\ Pending(p)' = Pending(p) /\ Release(p, Pending(p), Outstanding(p))
  \/ UNCHANGED <<barriers, completed>> /\ p = Fix
  \/ /\ UNCHANGED <<barriers, completed>>
     /\ Pending(p)' = Pending(p) /\ Outstanding(p) \subseteq Outstanding(p)'

PipeStep(p) ==
  /\ UNCHANGED <<nextId, lastAccepted, drained, termination>>
  /\ \A q \in Pipes \ {p} :
       /\ issued'[q] = issued[q] /\ commands'[q] = commands[q]
       /\ Outstanding(q)' = Outstanding(q)
  /\ issued'[p] \subseteq issued[p]
  /\ Pending(p)' \subseteq Pending(p)
  /\ LeavesInOrder(p)
  /\ \A o \in Outstanding(p)' : o \in Outstanding(p) \/ Passes(p, o)
  /\ \A q \in Pipes : \A x \in EventsOf(q)' : x \in EventsOf(q) \/ (q = p /\ NewEvent(p, x))
  /\ \A q \in Pipes, id \in Ids : \A d \in ToSet(deferred'[<<q, id>>]) :
       d \in ToSet(deferred[<<q, id>>]) \/ (q = p /\ NewEvent(p, d))
  /\ ReleasesBarriers(p)
  /\ Cardinality(commands'[p]) <= CommandDepth[p]
  /\ Cardinality(Outstanding(p)') <= OutstandingLimit[p]

\* A barrier that is released has waited for all that is older.
LEMMA ReleasedIsOldest ==
  ASSUME BarrierTypes, NEW p \in Pipes, NEW b \in barriers[p],
         NEW ids, NEW pend, NEW out,
         pend = ids \cup out,
         b.predecessor \notin pend => \A id \in IF b.requiresIdle THEN ids ELSE pend : b.id < id,
         b \notin KeptBarriers(p, pend, out)
  PROVE  \A id \in pend : b.id < id
<1>1. b.id <= b.id
  BY BarrierIds
<1>2. ~ Waiting(b, pend, out)
  BY <1>1, KeptIsSubset
<1> QED
  BY <1>2 DEF Waiting

LEMMA PipeStepKeeps ==
  ASSUME IInv, IInv', BInv, NEW p \in Pipes, PipeStep(p)
  PROVE  BInv'
<1>0. /\ nextId' = nextId /\ lastAccepted' = lastAccepted
      /\ drained' = drained /\ termination' = termination
      /\ nextId \in Int
  BY DEF PipeStep, IInv, Types, Ids
<1>1. \A q \in Pipes : /\ issued'[q] \subseteq issued[q]
                       /\ Pending(q)' \subseteq Pending(q)
                       /\ q # p => Outstanding(q)' = Outstanding(q) /\ Pending(q)' = Pending(q)
  BY DEF PipeStep, Pending
<1>2. /\ BarrierTypes'
      /\ \A q \in Pipes : barriers'[q] \subseteq barriers[q]
      /\ \A q \in Pipes \ {p} : barriers'[q] = barriers[q]
  <2>1. \/ barriers' = barriers
        \/ \E pend, out : barriers' = [barriers EXCEPT ![p] = KeptBarriers(p, pend, out)]
    BY DEF PipeStep, ReleasesBarriers, Release
  <2>2. barriers \in [Pipes -> SUBSET Barrier]
    BY DEF BInv, BarrierTypes
  <2>3. ASSUME NEW pend, NEW out PROVE KeptBarriers(p, pend, out) \subseteq barriers[p]
    BY KeptIsSubset
  <2>4. /\ barriers' \in [Pipes -> SUBSET Barrier]
        /\ \A q \in Pipes : barriers'[q] \subseteq barriers[q]
        /\ \A q \in Pipes \ {p} : barriers'[q] = barriers[q]
    <3>1. CASE barriers' = barriers
      BY <2>2, <3>1
    <3>2. CASE \E pend, out : barriers' = [barriers EXCEPT ![p] = KeptBarriers(p, pend, out)]
      <4>1. PICK pend, out : barriers' = [barriers EXCEPT ![p] = KeptBarriers(p, pend, out)]
        BY <3>2
      <4>2. KeptBarriers(p, pend, out) \in SUBSET Barrier
        BY <2>2, <2>3
      <4> QED
        BY <2>2, <2>3, <4>1, <4>2, UpdateTyped
    <3> QED
      BY <2>1, <3>1, <3>2
  <2> QED
    BY <1>0, <2>4 DEF BInv, BarrierTypes
<1>3. AcceptedAges' /\ DrainedAges'
  BY <1>0, <1>1 DEF BInv, AcceptedAges, DrainedAges
<1>4. BarrierAges'
  BY <1>0, <1>1, <1>2 DEF BInv, BarrierAges
<1>5. \A q \in Ordered : \A b \in barriers[q] : WaitsFor(b, q)'
  <2> SUFFICES ASSUME NEW q \in Ordered, NEW b \in barriers[q] PROVE WaitsFor(b, q)'
    OBVIOUS
  <2>1. q \in Pipes /\ WaitsFor(b, q) /\ IdsOf(issued'[q]) \subseteq IdsOf(issued[q])
    BY <1>1 DEF BInv, BarrierWaits, Ordered, IdsOf
  <2>2. ~ b.requiresIdle =>
          \A e \in issued'[q] : e.id = b.predecessor => e.word.kind \notin Flags
    BY <1>1, <2>1 DEF WaitsFor
  <2>3. ASSUME b.predecessor \notin Pending(q)',
               NEW id \in IF b.requiresIdle THEN IdsOf(issued'[q]) ELSE Pending(q)'
        PROVE  b.id < id
    <3>1. id \in Pending(q)' /\ id \in Pending(q) /\ id \in Int
      BY <1>1, <2>1, <2>3, PendingIds DEF Pending, IInv
    <3>2. CASE b.predecessor \notin Pending(q)
      BY <2>1, <2>3, <3>1, <3>2 DEF WaitsFor
    <3>3. CASE b.predecessor \in Pending(q)
      <4>1. q = p
        BY <1>1, <2>1, <2>3, <3>3
      <4>2. id <= b.predecessor \/ b.id < id
        BY <2>1, <3>1 DEF BInv, BarrierAges
      <4>3. b.predecessor \in Int
        BY <2>1, BarrierIds DEF BInv
      <4>4. \/ b.predecessor < id
            \/ /\ id \notin IdsOf(issued'[q])
               /\ \E e \in issued[q] : e.id = b.predecessor /\ e.word.kind \in Flags
        BY <2>3, <3>1, <3>3, <4>1 DEF PipeStep, LeavesInOrder
      <4> QED
        BY <2>1, <2>3, <3>1, <4>2, <4>3, <4>4 DEF WaitsFor
    <3> QED
      BY <3>2, <3>3
  <2> QED
    BY <2>2, <2>3 DEF WaitsFor
<1>6. BarrierWaits'
  BY <1>2, <1>5 DEF BarrierWaits, Ordered
<1>7. \A c \in completed' : c \in completed \/
        \E b \in barriers[p] : /\ c = [pipe |-> p, id |-> b.id, waited |-> TRUE]
                               /\ p \in Ordered => \A id \in Pending(p)' : b.id < id
  <2>1. CASE UNCHANGED completed
    BY <2>1
  <2>2. CASE Release(p, Pending(p)', Outstanding(p)')
    <3> SUFFICES ASSUME NEW b \in barriers[p], p \in Ordered,
                        b \notin KeptBarriers(p, Pending(p)', Outstanding(p)')
                 PROVE  \A id \in Pending(p)' : b.id < id
      BY <2>2 DEF Release
    <3>1. Pending(p)' = IdsOf(issued'[p]) \cup Outstanding(p)'
      BY DEF Pending
    <3>2. b.predecessor \notin Pending(p)' =>
            \A id \in IF b.requiresIdle THEN IdsOf(issued'[p]) ELSE Pending(p)' : b.id < id
      BY <1>5 DEF WaitsFor
    <3> QED
      BY <3>1, <3>2, ReleasedIsOldest DEF BInv
  <2>3. CASE Pending(p)' = Pending(p) /\ Release(p, Pending(p), Outstanding(p))
    <3> SUFFICES ASSUME NEW b \in barriers[p], p \in Ordered,
                        b \notin KeptBarriers(p, Pending(p), Outstanding(p))
                 PROVE  \A id \in Pending(p) : b.id < id
      BY <2>3 DEF Release
    <3>1. Pending(p) = IdsOf(issued[p]) \cup Outstanding(p)
      BY DEF Pending
    <3>2. b.predecessor \notin Pending(p) =>
            \A id \in IF b.requiresIdle THEN IdsOf(issued[p]) ELSE Pending(p) : b.id < id
      BY DEF WaitsFor, BInv, BarrierWaits
    <3> QED
      BY <3>1, <3>2, ReleasedIsOldest DEF BInv
  <2> QED
    BY <2>1, <2>2, <2>3 DEF PipeStep, ReleasesBarriers
<1>8. CompletedAges'
  <2> SUFFICES ASSUME NEW c \in completed'
      PROVE  c \in [pipe : Pipes, id : Ids, waited : BOOLEAN] /\ c.id < nextId
    BY <1>0 DEF CompletedAges
  <2>1. CASE c \in completed
    BY <2>1 DEF BInv, CompletedAges
  <2>2. CASE \E b \in barriers[p] : c = [pipe |-> p, id |-> b.id, waited |-> TRUE]
    BY <2>2, BarrierIds DEF BInv, BarrierAges
  <2> QED
    BY <1>7, <2>1, <2>2
<1>9. WaitedBarrierOrders'
  <2> SUFFICES ASSUME NEW c \in completed', c.waited, c.pipe \in Ordered,
                      NEW id \in Pending(c.pipe)'
               PROVE  id > c.id
    BY DEF WaitedBarrierOrders, Ordered
  <2>1. id \in Int
    BY PendingIds, <1>1 DEF Ordered, IInv
  <2>2. CASE c \in completed
    BY <1>1, <2>2 DEF BInv, WaitedBarrierOrders, Ordered
  <2>3. CASE \E b \in barriers[p] : /\ c = [pipe |-> p, id |-> b.id, waited |-> TRUE]
                                    /\ p \in Ordered => \A i \in Pending(p)' : b.id < i
    <3>1. PICK b \in barriers[p] : /\ c = [pipe |-> p, id |-> b.id, waited |-> TRUE]
                                   /\ p \in Ordered => \A i \in Pending(p)' : b.id < i
      BY <2>3
    <3>2. c.pipe = p /\ c.id = b.id /\ b.id \in Int
      BY <3>1, BarrierIds DEF BInv
    <3> QED
      BY <2>1, <3>1, <3>2
  <2> QED
    BY <1>7, <2>2, <2>3
<1>10. Depths'
  <2> SUFFICES ASSUME NEW q \in Pipes
      PROVE  /\ IsFiniteSet(issued'[q])
             /\ Cardinality(issued'[q]) <= IssueDepth[q]
             /\ Cardinality(commands'[q]) <= CommandDepth[q]
             /\ Cardinality(Outstanding(q)') <= OutstandingLimit[q]
    BY DEF Depths
  <2>1. /\ IsFiniteSet(issued[q])
        /\ Cardinality(issued[q]) <= IssueDepth[q]
        /\ Cardinality(commands[q]) <= CommandDepth[q]
        /\ Cardinality(Outstanding(q)) <= OutstandingLimit[q]
    BY DEF BInv, Depths
  <2>2. /\ IsFiniteSet(issued'[q])
        /\ Cardinality(issued'[q]) <= Cardinality(issued[q])
        /\ Cardinality(issued'[q]) \in Nat /\ Cardinality(issued[q]) \in Nat
    BY <1>1, <2>1, FS_Subset, FS_CardinalityType
  <2>3. IssueDepth[q] \in Nat
    BY DepthAssumption
  <2> QED
    BY <2>1, <2>2, <2>3 DEF PipeStep
<1>11. HoldsYounger'
  <2> SUFFICES ASSUME NEW q \in Pipes, NEW b \in barriers'[q]
      PROVE  /\ \A id \in Outstanding(q)' : id < b.id
             /\ \A x \in EventsOf(q)' : x.id < b.id
    BY DEF HoldsYounger
  <2>1. /\ b \in barriers[q] /\ b.predecessor < b.id
        /\ b.id \in Int /\ b.predecessor \in Int
    BY <1>2, BarrierIds DEF BInv, BarrierAges
  <2>2. ASSUME NEW id \in Outstanding(q)' PROVE id < b.id
    <3>1. CASE id \in Outstanding(q)
      BY <2>1, <3>1 DEF BInv, HoldsYounger
    <3>2. CASE q = p /\ Passes(p, id)
      <4>1. id \in Int
        BY <2>2, PendingIds, <1>1 DEF IInv, Pending
      <4> QED
        BY <2>1, <3>2, <4>1 DEF Passes
    <3> QED
      BY <1>1, <2>2, <3>1, <3>2 DEF PipeStep
  <2>3. ASSUME NEW x \in EventsOf(q)' PROVE x.id < b.id
    <3>1. CASE x \in EventsOf(q)
      BY <2>1, <3>1 DEF BInv, HoldsYounger
    <3>2. CASE q = p /\ NewEvent(p, x)
      <4>1. x.id \in Int
        BY <3>2, PendingIds DEF IInv, NewEvent
      <4> QED
        BY <2>1, <3>2, <4>1 DEF Passes, NewEvent
    <3> QED
      BY <2>3, <3>1, <3>2 DEF PipeStep
  <2> QED
    BY <2>2, <2>3
<1>12. StaysDrained'
  <2> SUFFICES ASSUME NEW q \in Ordered
      PROVE  /\ \A id \in Pending(q)' : id > drained[q]
             /\ \A b \in barriers'[q] : b.id > drained[q]
             /\ \A id \in Ids : \A d \in ToSet(deferred'[<<q, id>>]) : d.id > drained[q]
    BY <1>0 DEF StaysDrained, Ordered
  <2>1. q \in Pipes
    BY DEF Ordered
  <2>2. \A id \in Ids : \A d \in ToSet(deferred'[<<q, id>>]) :
          d \in ToSet(deferred[<<q, id>>]) \/ d.id \in Pending(q)
    BY <2>1 DEF PipeStep, NewEvent
  <2> QED
    BY <1>1, <1>2, <2>1, <2>2 DEF BInv, StaysDrained
<1>13. \A q \in Pipes \ {Fix} : FrontWaits(q)'
  <2> SUFFICES ASSUME NEW q \in Pipes \ {Fix}, NEW b \in barriers'[q]
      PROVE  \E a \in barriers'[q] : a.id <= b.id /\ Waiting(a, Pending(q)', Outstanding(q)')
    BY DEF FrontWaits, Waiting
  <2>1. b \in barriers[q]
    BY <1>2
  <2>2. PICK a \in barriers[q] : a.id <= b.id /\ Waiting(a, Pending(q), Outstanding(q))
    BY <2>1 DEF BInv, FrontWaits
  <2>3. CASE q # p
    BY <1>1, <1>2, <2>2, <2>3
  <2>4. CASE q = p /\ Release(p, Pending(p)', Outstanding(p)')
    <3>1. barriers'[p] = KeptBarriers(p, Pending(p)', Outstanding(p)')
      BY <2>4 DEF Release, BInv, BarrierTypes
    <3> QED
      BY <2>4, <3>1, KeptMembers DEF BInv
  <2>5. CASE /\ q = p /\ UNCHANGED barriers
             /\ Pending(p)' = Pending(p) /\ Outstanding(p) \subseteq Outstanding(p)'
    BY <2>2, <2>5 DEF Waiting
  <2> QED
    BY <2>3, <2>4, <2>5 DEF PipeStep, ReleasesBarriers
<1> QED
  BY <1>2, <1>3, <1>4, <1>6, <1>8, <1>9, <1>10, <1>11, <1>12, <1>13 DEF BInv

-----------------------------------------------------------------------------
(* Every step of an engine is a PipeStep *)

LEMMA IdSetsFinite ==
  ASSUME NEW S, S \subseteq Ids
  PROVE  IsFiniteSet(S) /\ Cardinality(S) \in Nat
<1>1. IsFiniteSet(Ids)
  BY FS_Interval, DepthAssumption DEF Ids
<1> QED
  BY <1>1, FS_Subset, FS_CardinalityType

LEMMA OneMore ==
  ASSUME NEW S, IsFiniteSet(S), NEW x
  PROVE  Cardinality(S \cup {x}) \in Nat /\ Cardinality(S \cup {x}) <= Cardinality(S) + 1
<1>1. Cardinality(S \cup {x}) = IF x \in S THEN Cardinality(S) ELSE Cardinality(S) + 1
  BY FS_AddElement
<1>2. Cardinality(S) \in Nat
  BY FS_CardinalityType
<1> QED
  BY <1>1, <1>2

LEMMA DequeuePasses ==
  ASSUME IInv, BInv, NEW p \in Pipes, NEW e \in issued[p], Dequeue(p, e),
         NEW pend, NEW out, pend \subseteq Pending(p), p = Fix /\ out # {} => Outstanding(p) # {},
         barriers' = [barriers EXCEPT ![p] = KeptBarriers(p, pend, out)]
  PROVE  Passes(p, e.id)
<1>1. barriers'[p] = KeptBarriers(p, pend, out)
  BY DEF BInv, BarrierTypes
<1>2. e.id \in Int /\ \A b \in barriers[p] : b.predecessor \in Int
  BY BarrierIds, PendingIds DEF BInv, IInv
<1>3. KeptBarriers(p, pend, out) \subseteq barriers[p]
  BY KeptIsSubset
<1>4. p = Fix => KeptBarriers(p, pend, out) \subseteq KeptBarriers(p, Pending(p), Outstanding(p))
  BY KeptShrinks
<1>5. \A b \in KeptBarriers(p, pend, out) : ~ b.predecessor < e.id
  BY <1>3, <1>4 DEF Dequeue, Receivable, BarrierAhead
<1> QED
  BY <1>1, <1>2, <1>3, <1>5 DEF Passes

LEMMA EventsStep ==
  ASSUME NEW p \in Pipes,
         \A x \in ToSet(ready') : \/ x \in ToSet(ready)
                                  \/ x.route[1] = p /\ (x \in EventsOf(p) \/ NewEvent(p, x)),
         \A q \in Pipes, id \in Ids : \A d \in ToSet(deferred'[<<q, id>>]) :
           d \in ToSet(deferred[<<q, id>>]) \/ (q = p /\ NewEvent(p, d))
  PROVE  \A q \in Pipes : \A x \in EventsOf(q)' : x \in EventsOf(q) \/ (q = p /\ NewEvent(p, x))
BY DEF EventsOf

LEMMA ReceiveSetStep ==
  ASSUME IInv, BInv, NEW p \in Pipes, ReceiveSet(p)
  PROVE  PipeStep(p)
<1> HIDE DEF Event, Entry
<1>0. PICK e \in issued[p] : /\ e.word.kind = "set" /\ Dequeue(p, e)
                             /\ SetEvent(p, e, Predecessor(p))
                             /\ Release(p, PendingWithout(p, e), Outstanding(p))
                             /\ UNCHANGED <<commands, running, lastReceived>>
  BY DEF ReceiveSet
<1>1. Types /\ IssuedAges
  BY DEF IInv
<1>2. /\ \A f \in issued[p] \ {e} : e.id < f.id
      /\ UNCHANGED <<nextId, lastAccepted, termination, drained>>
      /\ issued' = [issued EXCEPT ![p] = @ \ {e}]
      /\ commands' = commands /\ running' = running
  BY <1>0, <1>1, DequeuedIsOldest DEF Dequeue
<1>3. /\ \A q : Outstanding(q)' = Outstanding(q)
      /\ issued'[p] = issued[p] \ {e} /\ \A q \in Pipes \ {p} : issued'[q] = issued[q]
  BY <1>1, <1>2 DEF Outstanding, Types
<1>4. Pending(p)' = PendingWithout(p, e) /\ PendingWithout(p, e) \subseteq Pending(p)
  BY <1>3 DEF Pending, PendingWithout, IdsOf
<1>5. LeavesInOrder(p)
  <2> SUFFICES ASSUME NEW x \in Pending(p) \ Pending(p)', NEW y \in Pending(p)'
      PROVE  \/ x < y
             \/ /\ y \notin IdsOf(issued'[p])
                /\ \E f \in issued[p] : f.id = x /\ f.word.kind \in Flags
    BY DEF LeavesInOrder
  <2>1. x = e.id
    BY <1>3 DEF Pending, IdsOf
  <2>2. y \in IdsOf(issued'[p]) => x < y
    BY <1>2, <1>3, <2>1 DEF IdsOf
  <2> QED
    BY <1>0, <2>1, <2>2 DEF Flags
<1>6. Passes(p, e.id) /\ e.id \in Pending(p)
  <2>1. barriers' = [barriers EXCEPT ![p] = KeptBarriers(p, PendingWithout(p, e), Outstanding(p))]
    BY <1>0 DEF Release
  <2> QED
    BY <1>0, <1>4, <2>1, DequeuePasses DEF Pending, IdsOf
<1> DEFINE new == EventOf(e)
           pre == Predecessor(p)
<1>7. NewEvent(p, new) /\ new.route[1] = p /\ new \in Event
  BY <1>0, <1>1, <1>6, EntryFacts DEF NewEvent
<1>8. pre # None => pre \in Ids
  BY PredecessorIsYoungest
<1>9. /\ ready \in Seq(Event) /\ deferred \in [Pipes \X Ids -> Seq(Event)]
      /\ \/ pre = None /\ ready' = Append(ready, new) /\ deferred' = deferred
         \/ /\ pre # None /\ ready' = ready
            /\ deferred' = [deferred EXCEPT ![<<p, pre>>] = Append(@, new)]
  BY <1>0, <1>1 DEF SetEvent, Types
<1> HIDE DEF new, pre
<1>10. \A x \in ToSet(ready') : x \in ToSet(ready) \/ x = new
  <2>1. ToSet(Append(ready, new)) = ToSet(ready) \cup {new}
    BY <1>7, <1>9, ToSetAppend
  <2> QED
    BY <1>9, <2>1
<1>11. \A q \in Pipes, id \in Ids : \A d \in ToSet(deferred'[<<q, id>>]) :
         d \in ToSet(deferred[<<q, id>>]) \/ (q = p /\ d = new)
  <2>1. CASE pre = None
    BY <1>9, <2>1
  <2>2. CASE pre # None
    <3>1. <<p, pre>> \in Pipes \X Ids /\ deferred[<<p, pre>>] \in Seq(Event)
      BY <1>8, <1>9, <2>2
    <3>2. ToSet(Append(deferred[<<p, pre>>], new)) = ToSet(deferred[<<p, pre>>]) \cup {new}
      BY <1>7, <3>1, ToSetAppend
    <3>3. deferred' = [deferred EXCEPT ![<<p, pre>>] = Append(deferred[<<p, pre>>], new)]
      BY <1>9, <2>2
    <3> QED
      BY <1>9, <3>1, <3>2, <3>3
  <2> QED
    BY <2>1, <2>2
<1>12. \A q \in Pipes : \A x \in EventsOf(q)' : x \in EventsOf(q) \/ (q = p /\ NewEvent(p, x))
  BY <1>7, <1>10, <1>11, EventsStep
<1>13. ReleasesBarriers(p)
  BY <1>0, <1>3, <1>4 DEF ReleasesBarriers
<1>14. /\ Cardinality(commands'[p]) <= CommandDepth[p]
       /\ Cardinality(Outstanding(p)') <= OutstandingLimit[p]
  BY <1>2, <1>3 DEF BInv, Depths
<1> QED
  BY <1>2, <1>3, <1>4, <1>5, <1>7, <1>11, <1>12, <1>13, <1>14 DEF PipeStep

LEMMA ReceiveWaitStep ==
  ASSUME IInv, BInv, NEW p \in Pipes, ReceiveWait(p)
  PROVE  PipeStep(p)
<1> HIDE DEF Event, Entry
<1>0. PICK e \in issued[p] : /\ e.word.kind = "wait" /\ Dequeue(p, e)
                             /\ Consume(e.word)
                             /\ Release(p, PendingWithout(p, e), Outstanding(p))
                             /\ UNCHANGED <<commands, running, lastReceived, deferred>>
  BY DEF ReceiveWait
<1>1. Types /\ IssuedAges
  BY DEF IInv
<1>2. /\ \A f \in issued[p] \ {e} : e.id < f.id
      /\ UNCHANGED <<nextId, lastAccepted, termination, drained>>
      /\ issued' = [issued EXCEPT ![p] = @ \ {e}]
      /\ commands' = commands /\ running' = running
  BY <1>0, <1>1, DequeuedIsOldest DEF Dequeue
<1>3. /\ \A q : Outstanding(q)' = Outstanding(q)
      /\ issued'[p] = issued[p] \ {e} /\ \A q \in Pipes \ {p} : issued'[q] = issued[q]
  BY <1>1, <1>2 DEF Outstanding, Types
<1>4. Pending(p)' = PendingWithout(p, e) /\ PendingWithout(p, e) \subseteq Pending(p)
  BY <1>3 DEF Pending, PendingWithout, IdsOf
<1>5. LeavesInOrder(p)
  <2> SUFFICES ASSUME NEW x \in Pending(p) \ Pending(p)', NEW y \in Pending(p)'
      PROVE  \/ x < y
             \/ /\ y \notin IdsOf(issued'[p])
                /\ \E f \in issued[p] : f.id = x /\ f.word.kind \in Flags
    BY DEF LeavesInOrder
  <2>1. x = e.id
    BY <1>3 DEF Pending, IdsOf
  <2>2. y \in IdsOf(issued'[p]) => x < y
    BY <1>2, <1>3, <2>1 DEF IdsOf
  <2> QED
    BY <1>0, <2>1, <2>2 DEF Flags
<1>6. ToSet(ready') \subseteq ToSet(ready) /\ deferred' = deferred
  BY <1>0, <1>1, ConsumeShrinks DEF Dequeue, Receivable
<1>7. \A q \in Pipes : \A x \in EventsOf(q)' : x \in EventsOf(q)
  BY <1>6 DEF EventsOf
<1>8. ReleasesBarriers(p)
  BY <1>0, <1>3, <1>4 DEF ReleasesBarriers
<1>9. /\ Cardinality(commands'[p]) <= CommandDepth[p]
      /\ Cardinality(Outstanding(p)') <= OutstandingLimit[p]
  BY <1>2, <1>3 DEF BInv, Depths
<1> QED
  BY <1>2, <1>3, <1>4, <1>5, <1>6, <1>7, <1>8, <1>9 DEF PipeStep

\* A command that enters the engine, through the command queue or as an MMAD.
LEMMA ReceiveCommandStep ==
  ASSUME IInv, BInv, NEW p \in Pipes, NEW e \in issued[p], Dequeue(p, e),
         \/ /\ p # Cube /\ running' = running
            /\ commands' = [commands EXCEPT ![p] = @ \cup {e.id}]
         \/ /\ p = Cube /\ commands' = commands
            /\ running' = [running EXCEPT ![p] = @ \cup {e.id}],
         Release(p, Pending(p), IF p = Fix THEN Outstanding(p) ELSE Outstanding(p) \cup {e.id}),
         UNCHANGED events
  PROVE  PipeStep(p)
<1>1. Types /\ IssuedAges
  BY DEF IInv
<1>2. /\ UNCHANGED <<nextId, lastAccepted, termination, drained>>
      /\ issued' = [issued EXCEPT ![p] = @ \ {e}]
      /\ ready' = ready /\ deferred' = deferred /\ e.id \in Ids
  BY <1>1, EntryFacts DEF Dequeue, events
<1>3. /\ Outstanding(p)' = Outstanding(p) \cup {e.id}
      /\ \A q \in Pipes \ {p} : Outstanding(q)' = Outstanding(q) /\ commands'[q] = commands[q]
      /\ issued'[p] = issued[p] \ {e} /\ \A q \in Pipes \ {p} : issued'[q] = issued[q]
  BY <1>1, <1>2 DEF Outstanding, Types
<1>4. Pending(p)' = Pending(p)
  BY <1>3 DEF Pending, IdsOf
<1>5. LeavesInOrder(p)
  BY <1>4 DEF LeavesInOrder
<1>6. Passes(p, e.id)
  <2>1. \/ p = Fix /\ barriers' = [barriers EXCEPT ![p] = KeptBarriers(p, Pending(p), Outstanding(p))]
        \/ /\ p # Fix
           /\ barriers' = [barriers EXCEPT ![p] = KeptBarriers(p, Pending(p), Outstanding(p) \cup {e.id})]
    BY DEF Release
  <2> QED
    BY <2>1, DequeuePasses
<1>7. \A q \in Pipes : EventsOf(q)' = EventsOf(q)
  BY <1>2 DEF EventsOf
<1>8. ReleasesBarriers(p)
  <2>1. CASE p = Fix
    BY <1>4, <2>1 DEF ReleasesBarriers
  <2>2. CASE p # Fix
    BY <1>3, <1>4, <2>2 DEF ReleasesBarriers
  <2> QED
    BY <2>1, <2>2
<1>9. /\ Cardinality(commands[p]) < CommandDepth[p] /\ Cardinality(Outstanding(p)) < OutstandingLimit[p]
      /\ IsFiniteSet(commands[p]) /\ Cardinality(commands[p]) \in Nat
      /\ IsFiniteSet(Outstanding(p)) /\ Cardinality(Outstanding(p)) \in Nat
      /\ CommandDepth[p] \in Nat /\ OutstandingLimit[p] \in Nat
  <2>1. commands[p] \subseteq Ids /\ Outstanding(p) \subseteq Ids
    BY <1>1 DEF Types, Outstanding
  <2> QED
    BY <2>1, IdSetsFinite, DepthAssumption DEF Dequeue, Receivable, RoomToReceive
<1>10. /\ Cardinality(commands[p] \cup {e.id}) \in Nat
       /\ Cardinality(commands[p] \cup {e.id}) <= Cardinality(commands[p]) + 1
       /\ Cardinality(Outstanding(p) \cup {e.id}) \in Nat
       /\ Cardinality(Outstanding(p) \cup {e.id}) <= Cardinality(Outstanding(p)) + 1
  BY <1>9, OneMore
<1>11. /\ Cardinality(commands'[p]) <= CommandDepth[p]
       /\ Cardinality(Outstanding(p)') <= OutstandingLimit[p]
  <2>1. commands'[p] = commands[p] \/ commands'[p] = commands[p] \cup {e.id}
    BY <1>1 DEF Types
  <2>2. Cardinality(Outstanding(p)') <= OutstandingLimit[p]
    BY <1>3, <1>9, <1>10
  <2>3. Cardinality(commands'[p]) <= CommandDepth[p]
    <3>1. CASE commands'[p] = commands[p]
      BY <1>9, <3>1
    <3>2. CASE commands'[p] = commands[p] \cup {e.id}
      <4>1. Cardinality(commands'[p]) = Cardinality(commands[p] \cup {e.id})
        BY <3>2
      <4> QED
        BY <1>9, <1>10, <4>1
    <3> QED
      BY <2>1, <3>1, <3>2
  <2> QED
    BY <2>2, <2>3
<1> QED
  BY <1>2, <1>3, <1>4, <1>5, <1>6, <1>7, <1>8, <1>11 DEF PipeStep

LEMMA ReceiveControlStep ==
  ASSUME IInv, BInv, Cube \in Pipes, ReceiveControl
  PROVE  PipeStep(Cube)
<1>0. PICK e \in issued[Cube] : /\ e.word.kind \in {"spr", "cross", "hflag", "empty"}
                                /\ Dequeue(Cube, e)
                                /\ Release(Cube, PendingWithout(Cube, e), Outstanding(Cube))
                                /\ UNCHANGED <<commands, running, events>>
  BY DEF ReceiveControl
<1>1. Types /\ IssuedAges
  BY DEF IInv
<1>2. /\ \A f \in issued[Cube] \ {e} : e.id < f.id
      /\ UNCHANGED <<nextId, lastAccepted, termination, drained>>
      /\ issued' = [issued EXCEPT ![Cube] = @ \ {e}]
      /\ commands' = commands /\ running' = running
      /\ ready' = ready /\ deferred' = deferred
  BY <1>0, <1>1, DequeuedIsOldest DEF Dequeue, events
<1>3. /\ \A q : Outstanding(q)' = Outstanding(q)
      /\ issued'[Cube] = issued[Cube] \ {e} /\ \A q \in Pipes \ {Cube} : issued'[q] = issued[q]
  BY <1>1, <1>2 DEF Outstanding, Types
<1>4. Pending(Cube)' = PendingWithout(Cube, e) /\ PendingWithout(Cube, e) \subseteq Pending(Cube)
  BY <1>3 DEF Pending, PendingWithout, IdsOf
<1>5. LeavesInOrder(Cube)
  <2> SUFFICES ASSUME Cube \in Ordered, NEW x \in Pending(Cube) \ Pending(Cube)', NEW y \in Pending(Cube)'
      PROVE  x < y
    BY DEF LeavesInOrder
  <2>1. x = e.id
    BY <1>3 DEF Pending, IdsOf
  <2>2. Outstanding(Cube) = {}
    <3>1. e.word \in Words
      BY <1>1 DEF IssuedAges
    <3>2. e.word.kind \in {"spr", "cross"}
      BY <1>0, <3>1 DEF Ordered, PlainCube
    <3> QED
      BY <1>0, <3>2 DEF Dequeue, Receivable, NeedsIdle
  <2> QED
    BY <1>2, <1>3, <2>1, <2>2 DEF Pending, IdsOf
<1>6. \A q \in Pipes : EventsOf(q)' = EventsOf(q)
  BY <1>2 DEF EventsOf
<1>7. ReleasesBarriers(Cube)
  BY <1>0, <1>3, <1>4 DEF ReleasesBarriers
<1>8. /\ Cardinality(commands'[Cube]) <= CommandDepth[Cube]
      /\ Cardinality(Outstanding(Cube)') <= OutstandingLimit[Cube]
  BY <1>2, <1>3 DEF BInv, Depths
<1> QED
  BY <1>2, <1>3, <1>4, <1>5, <1>6, <1>7, <1>8 DEF PipeStep

LEMMA ReceiveBlockedFlagStep ==
  ASSUME IInv, BInv, Cube \in Pipes, ReceiveBlockedFlag
  PROVE  PipeStep(Cube)
<1>0. PICK e \in issued[Cube] : /\ e.word.kind = "hflag" /\ Dequeue(Cube, e)
                                /\ commands' = [commands EXCEPT ![Cube] = {e.id}]
                                /\ UNCHANGED <<running, barriers, completed, events>>
  BY DEF ReceiveBlockedFlag
<1>1. Types /\ IssuedAges
  BY DEF IInv
<1>2. /\ UNCHANGED <<nextId, lastAccepted, termination, drained>>
      /\ issued' = [issued EXCEPT ![Cube] = @ \ {e}]
      /\ running' = running /\ barriers' = barriers /\ completed' = completed
      /\ ready' = ready /\ deferred' = deferred /\ e.id \in Ids
  BY <1>0, <1>1, EntryFacts DEF Dequeue, events
<1>3. /\ IsFiniteSet(Outstanding(Cube)) /\ Cardinality(Outstanding(Cube)) \in Nat
      /\ commands[Cube] = {}
  <2>1. commands[Cube] \subseteq Ids /\ Outstanding(Cube) \subseteq Ids
    BY <1>1 DEF Types, Outstanding
  <2>2. Cardinality(commands[Cube]) < 1
    BY <1>0, DepthAssumption DEF Dequeue, Receivable, RoomToReceive
  <2>3. IsFiniteSet(commands[Cube]) /\ Cardinality(commands[Cube]) \in Nat
    BY <2>1, IdSetsFinite
  <2>4. commands[Cube] = {}
    BY <2>2, <2>3, FS_EmptySet
  <2> QED
    BY <2>1, <2>4, IdSetsFinite
<1>4. /\ Outstanding(Cube)' = Outstanding(Cube) \cup {e.id}
      /\ \A q \in Pipes \ {Cube} : Outstanding(q)' = Outstanding(q) /\ commands'[q] = commands[q]
      /\ commands'[Cube] = {e.id}
      /\ issued'[Cube] = issued[Cube] \ {e} /\ \A q \in Pipes \ {Cube} : issued'[q] = issued[q]
  BY <1>0, <1>1, <1>2, <1>3 DEF Outstanding, Types
<1>5. Pending(Cube)' = Pending(Cube)
  BY <1>4 DEF Pending, IdsOf
<1>6. LeavesInOrder(Cube)
  BY <1>5 DEF LeavesInOrder
<1>7. Passes(Cube, e.id)
  <2>1. \A b \in barriers[Cube] : ~ b.predecessor < e.id
    BY <1>0 DEF Dequeue, Receivable, BarrierAhead, Cube, Fix
  <2>2. e.id \in Int /\ \A b \in barriers[Cube] : b.predecessor \in Int
    BY BarrierIds, PendingIds DEF BInv, IInv
  <2> QED
    BY <1>2, <2>1, <2>2 DEF Passes
<1>8. \A q \in Pipes : EventsOf(q)' = EventsOf(q)
  BY <1>2 DEF EventsOf
<1>9. ReleasesBarriers(Cube)
  BY <1>2, <1>4, <1>5 DEF ReleasesBarriers
<1>10. /\ Cardinality(commands'[Cube]) <= CommandDepth[Cube]
       /\ Cardinality(Outstanding(Cube)') <= OutstandingLimit[Cube]
  <2>1. Cardinality(commands'[Cube]) = 1 /\ CommandDepth[Cube] = 1
    BY <1>4, FS_Singleton, DepthAssumption
  <2>2. Cardinality(Outstanding(Cube)') \in Nat
        /\ Cardinality(Outstanding(Cube)') <= Cardinality(Outstanding(Cube)) + 1
    BY <1>3, <1>4, OneMore
  <2>3. Cardinality(Outstanding(Cube)) < OutstandingLimit[Cube] /\ OutstandingLimit[Cube] \in Nat
    BY <1>0, DepthAssumption DEF Dequeue, Receivable, RoomToReceive
  <2> QED
    BY <1>3, <2>1, <2>2, <2>3
<1> QED
  BY <1>2, <1>4, <1>5, <1>6, <1>7, <1>8, <1>9, <1>10 DEF PipeStep

\* Fewer commands are queued and outstanding: the depths are kept.
LEMMA FewerCommands ==
  ASSUME Types, BInv, NEW p \in Pipes, commands'[p] \subseteq commands[p],
         Outstanding(p)' \subseteq Outstanding(p)
  PROVE  /\ Cardinality(commands'[p]) <= CommandDepth[p]
         /\ Cardinality(Outstanding(p)') <= OutstandingLimit[p]
<1>1. commands[p] \subseteq Ids /\ Outstanding(p) \subseteq Ids
  BY DEF Types, Outstanding
<1>2. /\ Cardinality(commands'[p]) <= Cardinality(commands[p])
      /\ Cardinality(commands'[p]) \in Nat /\ Cardinality(commands[p]) \in Nat
  BY <1>1, IdSetsFinite, FS_Subset
<1>3. /\ Cardinality(Outstanding(p)') <= Cardinality(Outstanding(p))
      /\ Cardinality(Outstanding(p)') \in Nat /\ Cardinality(Outstanding(p)) \in Nat
  <2> DEFINE S == Outstanding(p)
             R == Outstanding(p)'
  <2>1. S \subseteq Ids /\ R \subseteq S
    BY <1>1
  <2> HIDE DEF S, R
  <2>2. Cardinality(R) <= Cardinality(S) /\ Cardinality(R) \in Nat /\ Cardinality(S) \in Nat
    BY <2>1, IdSetsFinite, FS_Subset
  <2> QED
    BY <2>2 DEF S, R
<1> QED
  BY <1>2, <1>3, DepthAssumption DEF BInv, Depths

LEMMA FinishActiveFlagStep ==
  ASSUME IInv, BInv, Cube \in Pipes, FinishActiveFlag
  PROVE  PipeStep(Cube)
<1>1. /\ UNCHANGED <<nextId, lastAccepted, termination, drained>>
      /\ issued' = issued /\ running' = running
      /\ ready' = ready /\ deferred' = deferred
      /\ commands' = [commands EXCEPT ![Cube] = {}]
      /\ Cube \notin Ordered
      /\ Release(Cube, IdsOf(issued[Cube]) \cup running[Cube], running[Cube])
  BY DEF FinishActiveFlag, events, IInv, CubeSlot
<1>2. /\ \A q \in Pipes \ {Cube} : Outstanding(q)' = Outstanding(q) /\ commands'[q] = commands[q]
      /\ commands'[Cube] = {} /\ Outstanding(Cube)' = running[Cube]
  BY <1>1 DEF Outstanding, IInv, Types
<1>3. Outstanding(Cube)' \subseteq Outstanding(Cube)
  BY <1>2 DEF Outstanding
<1>4. /\ Pending(Cube)' = IdsOf(issued[Cube]) \cup running[Cube]
      /\ Pending(Cube)' \subseteq Pending(Cube)
  BY <1>1, <1>2, <1>3 DEF Pending
<1>5. LeavesInOrder(Cube)
  BY <1>1 DEF LeavesInOrder
<1>6. \A q \in Pipes : EventsOf(q)' = EventsOf(q)
  BY <1>1 DEF EventsOf
<1>7. ReleasesBarriers(Cube)
  BY <1>1, <1>2, <1>4 DEF ReleasesBarriers
<1>8. /\ Cardinality(commands'[Cube]) <= CommandDepth[Cube]
      /\ Cardinality(Outstanding(Cube)') <= OutstandingLimit[Cube]
  BY <1>2, <1>3, FewerCommands DEF IInv
<1> QED
  BY <1>1, <1>2, <1>3, <1>4, <1>5, <1>6, <1>7, <1>8 DEF PipeStep

LEMMA DispatchStep ==
  ASSUME IInv, BInv, NEW p \in Pipes, Dispatch(p)
  PROVE  PipeStep(p)
<1> DEFINE id == Min(commands[p])
<1>1. /\ UNCHANGED <<nextId, lastAccepted, termination, drained>>
      /\ issued' = issued /\ barriers' = barriers /\ completed' = completed
      /\ ready' = ready /\ deferred' = deferred
      /\ commands' = [commands EXCEPT ![p] = @ \ {id}]
      /\ running' = [running EXCEPT ![p] = @ \cup {id}]
      /\ commands[p] # {}
  BY DEF Dispatch, events, history
<1>2. id \in commands[p] /\ id \in Ids
  BY <1>1, MinOf DEF IInv, Types
<1> HIDE DEF id
<1>3. /\ \A q : q \in Pipes => Outstanding(q)' = Outstanding(q)
      /\ \A q \in Pipes \ {p} : commands'[q] = commands[q]
      /\ commands'[p] \subseteq commands[p]
  BY <1>1, <1>2 DEF Outstanding, IInv, Types
<1>4. Pending(p)' = Pending(p)
  BY <1>1, <1>3 DEF Pending
<1>5. LeavesInOrder(p) /\ ReleasesBarriers(p)
  BY <1>1, <1>3, <1>4 DEF LeavesInOrder, ReleasesBarriers
<1>6. \A q \in Pipes : EventsOf(q)' = EventsOf(q)
  BY <1>1 DEF EventsOf
<1>7. /\ Cardinality(commands'[p]) <= CommandDepth[p]
      /\ Cardinality(Outstanding(p)') <= OutstandingLimit[p]
  BY <1>3, FewerCommands DEF IInv
<1> QED
  BY <1>1, <1>3, <1>4, <1>5, <1>6, <1>7 DEF PipeStep

\* The oldest command retires: nothing that stays is older.
LEMMA RetireStep ==
  ASSUME IInv, BInv, NEW p \in Pipes, Retire(p)
  PROVE  PipeStep(p)
<1> HIDE DEF Event, Entry
<1> DEFINE id == Min(running[p])
           late == deferred[<<p, id>>]
<1>1. /\ UNCHANGED <<nextId, lastAccepted, termination, drained>>
      /\ issued' = issued /\ commands' = commands
      /\ running' = [running EXCEPT ![p] = @ \ {id}] /\ running[p] # {}
      /\ ready' = ready \o late
      /\ deferred' = [deferred EXCEPT ![<<p, id>>] = <<>>]
      /\ IF p = Fix THEN UNCHANGED <<barriers, completed>>
         ELSE Release(p, IdsOf(issued[p]) \cup (Outstanding(p) \ {id}), Outstanding(p) \ {id})
  BY DEF Retire, Retired, PublishDeferred
<1>2. id \in running[p] /\ id \in Ids /\ \A r \in running[p] : id <= r /\ r \in Int
  BY <1>1, OldestRunning
<1>3. /\ <<p, id>> \in Pipes \X Ids /\ late \in Seq(Event) /\ ready \in Seq(Event)
      /\ late = deferred[<<p, id>>]
  BY <1>2 DEF IInv, Types
<1>4. ToSet(ready') = ToSet(ready) \cup ToSet(late)
  BY <1>1, <1>3, ToSetConcat
<1>5. \A k \in Pipes \X Ids : deferred'[k] = IF k = <<p, id>> THEN <<>> ELSE deferred[k]
  <2>1. deferred \in [Pipes \X Ids -> Seq(Event)] /\ <<>> \in Seq(Event)
    BY ToSetEmpty DEF IInv, Types
  <2> QED
    BY <1>1, <1>3, <2>1, UpdateTyped
<1>6. \A q \in Pipes, i \in Ids : ToSet(deferred'[<<q, i>>]) \subseteq ToSet(deferred[<<q, i>>])
  BY <1>5, ToSetEmpty
<1>7. \A x \in ToSet(late) : x \in EventsOf(p) /\ x.route[1] = p
  BY <1>2, <1>3 DEF EventsOf, IInv, DeferredAges
<1> HIDE DEF id, late
<1>8. \A q \in Pipes : \A x \in EventsOf(q)' : x \in EventsOf(q)
  <2> SUFFICES ASSUME NEW q \in Pipes, NEW x \in EventsOf(q)' PROVE x \in EventsOf(q)
    OBVIOUS
  <2>1. CASE x \in ToSet(ready') /\ x.route[1] = q
    BY <1>4, <1>7, <2>1 DEF EventsOf
  <2>2. CASE \E i \in Ids : x \in ToSet(deferred'[<<q, i>>])
    BY <1>6, <2>2 DEF EventsOf
  <2> QED
    BY <2>1, <2>2 DEF EventsOf
<1>9. /\ Outstanding(p)' = Outstanding(p) \ {id}
      /\ \A q \in Pipes \ {p} : Outstanding(q)' = Outstanding(q)
  <2>1. id \notin commands[p]
    BY <1>2 DEF IInv, OutstandingAges, Types, Ids
  <2> QED
    BY <1>1, <2>1 DEF Outstanding, IInv, Types
<1>10. \A y \in Outstanding(p)' : id < y
  <2>1. \A c \in commands[p] : id < c
    BY <1>2 DEF IInv, OutstandingAges
  <2>2. \A r \in running[p] \ {id} : id < r
    BY <1>2 DEF Ids
  <2> QED
    BY <1>9, <2>1, <2>2 DEF Outstanding
<1>11. \A e \in issued[p] : id < e.id
  BY <1>2 DEF IInv, IssuedAges, Outstanding
<1>12. /\ Pending(p)' = IdsOf(issued[p]) \cup (Outstanding(p) \ {id})
       /\ Pending(p)' \subseteq Pending(p) /\ Pending(p) \subseteq Pending(p)' \cup {id}
  BY <1>1, <1>9 DEF Pending
<1>13. LeavesInOrder(p)
  <2>1. \A y \in Pending(p)' : id < y
    BY <1>9, <1>10, <1>11, <1>12 DEF IdsOf
  <2> QED
    BY <1>12, <2>1 DEF LeavesInOrder
<1>14. ReleasesBarriers(p)
  BY <1>1, <1>9, <1>12 DEF ReleasesBarriers
<1>15. /\ Cardinality(commands'[p]) <= CommandDepth[p]
       /\ Cardinality(Outstanding(p)') <= OutstandingLimit[p]
  BY <1>1, <1>9, FewerCommands DEF IInv
<1> QED
  BY <1>1, <1>6, <1>8, <1>9, <1>12, <1>13, <1>14, <1>15 DEF PipeStep

LEMMA ReleaseFixBarriersStep ==
  ASSUME IInv, BInv, ReleaseFixBarriers
  PROVE  PipeStep(Fix)
<1>1. /\ UNCHANGED <<nextId, lastAccepted, termination, drained>>
      /\ issued' = issued /\ commands' = commands /\ running' = running
      /\ ready' = ready /\ deferred' = deferred /\ Fix \in Pipes
      /\ Release(Fix, Pending(Fix), Outstanding(Fix))
  BY DEF ReleaseFixBarriers, events
<1>2. \A q : Outstanding(q)' = Outstanding(q) /\ Pending(q)' = Pending(q) /\ EventsOf(q)' = EventsOf(q)
  BY <1>1 DEF Outstanding, Pending, EventsOf
<1>3. LeavesInOrder(Fix) /\ ReleasesBarriers(Fix)
  BY <1>1, <1>2 DEF LeavesInOrder, ReleasesBarriers
<1> QED
  BY <1>1, <1>2, <1>3 DEF PipeStep, BInv, Depths

-----------------------------------------------------------------------------
(* Steps of the scalar unit *)

\* Steps that move no instruction and no barrier.  They may observe that a
\* pipe is drained.
LEMMA QuietKeeps ==
  ASSUME IInv, BInv, nextId' \in Ids, nextId <= nextId',
         UNCHANGED <<issued, commands, running, barriers, lastAccepted, deferred, completed>>,
         \A q \in Pipes : EventsOf(q)' \subseteq EventsOf(q),
         termination' \in {"running", "draining", "complete"},
         \/ drained' = drained
         \/ /\ nextId < nextId'
            /\ \E P : /\ drained' = [p \in Pipes |-> IF p \in P THEN nextId ELSE drained[p]]
                      /\ \A p \in Pipes : p \in P => /\ Pending(p) = {} /\ barriers[p] = {}
                                                     /\ ~ DeferredFrom(p)
  PROVE  BInv'
<1>1. \A q : Outstanding(q)' = Outstanding(q) /\ Pending(q)' = Pending(q)
  BY DEF Outstanding, Pending, IdsOf
<1>2. nextId \in Int /\ nextId' \in Int /\ nextId \in Ids
  BY DEF IInv, Types, Ids
<1>3. \A x \in Int : x < nextId => x < nextId'
  BY <1>2
<1>4. /\ drained' \in [Pipes -> Ids \cup {None}]
      /\ \A p \in Pipes : drained'[p] < nextId'
      /\ \A p \in Pipes : \/ drained'[p] = drained[p]
                          \/ Pending(p) = {} /\ barriers[p] = {} /\ ~ DeferredFrom(p)
  <2>1. \A p \in Pipes : drained[p] < nextId /\ drained[p] \in Int
    BY DEF BInv, DrainedAges, BarrierTypes, Ids, None
  <2>2. drained \in [Pipes -> Ids \cup {None}]
    BY DEF BInv, BarrierTypes
  <2>3. CASE drained' = drained
    BY <1>3, <2>1, <2>2, <2>3
  <2>4. CASE nextId < nextId' /\ \E P : /\ drained' = [p \in Pipes |-> IF p \in P THEN nextId ELSE drained[p]]
                      /\ \A p \in Pipes : p \in P => /\ Pending(p) = {} /\ barriers[p] = {}
                                                     /\ ~ DeferredFrom(p)
    BY <1>2, <1>3, <2>1, <2>2, <2>4
  <2> QED
    BY <2>3, <2>4
<1>5. BarrierTypes'
  BY <1>4 DEF BInv, BarrierTypes
<1>6. AcceptedAges'
  BY <1>1, <1>3 DEF BInv, AcceptedAges, Ids, None
<1>7. BarrierAges'
  BY <1>1, <1>3, BarrierIds DEF BInv, BarrierAges
<1>8. BarrierWaits'
  BY <1>1 DEF BInv, BarrierWaits, WaitsFor
<1>9. CompletedAges'
  BY <1>3 DEF BInv, CompletedAges, Ids
<1>10. DrainedAges'
  BY <1>4 DEF DrainedAges
<1>11. Depths' /\ HoldsYounger' /\ WaitedBarrierOrders'
  BY <1>1 DEF BInv, Depths, HoldsYounger, WaitedBarrierOrders
<1>12. StaysDrained'
  <2> SUFFICES ASSUME NEW p \in Ordered
      PROVE  /\ \A id \in Pending(p) : id > drained'[p]
             /\ \A b \in barriers[p] : b.id > drained'[p]
             /\ \A id \in Ids : \A d \in ToSet(deferred[<<p, id>>]) : d.id > drained'[p]
    BY <1>1 DEF StaysDrained
  <2>1. p \in Pipes
    BY DEF Ordered
  <2>2. CASE drained'[p] = drained[p]
    BY <2>2 DEF BInv, StaysDrained
  <2>3. CASE Pending(p) = {} /\ barriers[p] = {} /\ ~ DeferredFrom(p)
    BY <2>3, ToSetEmpty DEF DeferredFrom
  <2> QED
    BY <1>4, <2>1, <2>2, <2>3
<1>13. \A p \in Pipes \ {Fix} : FrontWaits(p)'
  BY <1>1 DEF BInv, FrontWaits
<1> QED
  BY <1>5, <1>6, <1>7, <1>8, <1>9, <1>10, <1>11, <1>12, <1>13 DEF BInv

\* A new instruction is younger than everything else.
LEMMA EnqueueBarriers ==
  ASSUME IInv, BInv, NEW w \in Words, NEW P, P \subseteq Pipes, Enqueue(w, P)
  PROVE  BInv'
<1> DEFINE new == [id |-> nextId, word |-> w]
<1>0. /\ UNCHANGED <<commands, running, barriers, deferred, ready, termination, completed, drained>>
      /\ nextId' = nextId + 1 /\ nextId < MaxId
      /\ issued' = [p \in Pipes |-> IF p \in P THEN issued[p] \cup {new} ELSE issued[p]]
      /\ lastAccepted' = [p \in Pipes |-> IF p \in P THEN nextId ELSE lastAccepted[p]]
      /\ \A p \in P : HasRoom(p)
  BY DEF Enqueue, events, history, CanIssue
<1>1. new.id = nextId /\ nextId \in Int /\ nextId \in Ids /\ nextId' \in Int
  BY <1>0 DEF IInv, Types, Ids
<1> HIDE DEF new
<1>2. \A q : Outstanding(q)' = Outstanding(q)
  BY <1>0 DEF Outstanding
<1>3. \A q : EventsOf(q)' = EventsOf(q)
  BY <1>0 DEF EventsOf
<1>4. \A p \in Pipes : \A e \in issued'[p] : e \in issued[p] \/ (e = new /\ p \in P)
  BY <1>0
<1>5. \A p \in Pipes : /\ \A id \in Pending(p)' : id \in Pending(p) \/ (id = nextId /\ p \in P)
                       /\ Pending(p) \subseteq Pending(p)'
                       /\ IdsOf(issued'[p]) \subseteq IdsOf(issued[p]) \cup {nextId}
  BY <1>0, <1>1, <1>2, <1>4 DEF Pending, IdsOf
<1>6. \A x \in Int : x < nextId => x < nextId'
  BY <1>0, <1>1
<1>7. \A p \in Pipes : \A b \in barriers[p] :
        b.id < nextId /\ b.predecessor < nextId /\ b.id \in Int /\ b.predecessor \in Int
  BY <1>1, BarrierIds DEF BInv, BarrierAges
<1>8. BarrierTypes'
  BY <1>0, <1>1 DEF BInv, BarrierTypes
<1>9. AcceptedAges'
  <2>1. \A p \in Pipes : \A id \in Pending(p) : id <= lastAccepted[p] /\ id \in Int /\ lastAccepted[p] \in Int
    BY PendingIds DEF IInv, BInv, AcceptedAges, Ids, None
  <2>2. \A p \in Pipes : lastAccepted[p] \in Ids \cup {None} /\ lastAccepted[p] < nextId
    BY DEF BInv, AcceptedAges
  <2> SUFFICES ASSUME NEW p \in Pipes
      PROVE  /\ lastAccepted'[p] \in Ids \cup {None} /\ lastAccepted'[p] < nextId'
             /\ \A id \in Pending(p)' : id <= lastAccepted'[p]
    BY DEF AcceptedAges
  <2>3. CASE p \in P
    <3>1. lastAccepted'[p] = nextId
      BY <1>0, <2>3
    <3>2. \A id \in Pending(p) : id <= nextId
      BY <1>1, <2>1, <2>2
    <3>3. \A id \in Pending(p)' : id <= nextId
      BY <1>1, <1>5, <3>2
    <3>4. nextId < nextId'
      BY <1>0, <1>1
    <3> QED
      BY <1>1, <3>1, <3>3, <3>4
  <2>4. CASE p \notin P
    <3>1. lastAccepted'[p] = lastAccepted[p] /\ lastAccepted[p] \in Int
      BY <1>0, <2>2, <2>4 DEF Ids, None
    <3>2. \A id \in Pending(p)' : id <= lastAccepted[p]
      BY <1>5, <2>1, <2>4
    <3>3. lastAccepted[p] < nextId'
      BY <1>6, <2>2, <3>1
    <3> QED
      BY <2>2, <3>1, <3>2, <3>3
  <2> QED
    BY <2>3, <2>4
<1>10. BarrierAges'
  BY <1>0, <1>5, <1>6, <1>7 DEF BInv, BarrierAges
<1>11. BarrierWaits'
  <2> SUFFICES ASSUME NEW p \in Ordered, NEW b \in barriers[p] PROVE WaitsFor(b, p)'
    BY <1>0 DEF BarrierWaits, Ordered
  <2>1. WaitsFor(b, p) /\ p \in Pipes
    BY DEF BInv, BarrierWaits, Ordered
  <2>2. ASSUME b.predecessor \notin Pending(p)',
               NEW id \in IF b.requiresIdle THEN IdsOf(issued'[p]) ELSE Pending(p)'
        PROVE  b.id < id
    BY <1>5, <1>7, <2>1, <2>2 DEF WaitsFor
  <2>3. ~ b.requiresIdle => \A e \in issued'[p] : e.id = b.predecessor => e.word.kind \notin Flags
    BY <1>1, <1>4, <1>7, <2>1 DEF WaitsFor
  <2> QED
    BY <2>2, <2>3 DEF WaitsFor
<1>12. CompletedAges'
  BY <1>0, <1>6 DEF BInv, CompletedAges, Ids
<1>13. DrainedAges'
  BY <1>0, <1>6 DEF BInv, DrainedAges, Ids, None
<1>14. Depths'
  <2> SUFFICES ASSUME NEW p \in P, p \in Pipes
      PROVE  IsFiniteSet(issued'[p]) /\ Cardinality(issued'[p]) <= IssueDepth[p]
    BY <1>0, <1>2 DEF BInv, Depths
  <2>1. IsFiniteSet(issued[p]) /\ issued'[p] = issued[p] \cup {new}
    BY <1>0 DEF BInv, Depths
  <2>2. IsFiniteSet(issued'[p])
    BY <2>1, FS_AddElement
  <2>3. /\ Cardinality(issued[p] \cup {new}) \in Nat
        /\ Cardinality(issued[p] \cup {new}) <= Cardinality(issued[p]) + 1
    BY <2>1, OneMore
  <2>4. Cardinality(issued[p]) < IssueDepth[p] /\ Cardinality(issued[p]) \in Nat /\ IssueDepth[p] \in Nat
    BY <1>0, <2>1, FS_CardinalityType, DepthAssumption DEF HasRoom
  <2>5. Cardinality(issued'[p]) <= IssueDepth[p]
    BY <2>1, <2>3, <2>4
  <2> QED
    BY <2>2, <2>5
<1>15. HoldsYounger'
  BY <1>0, <1>2, <1>3 DEF BInv, HoldsYounger
<1>16. WaitedBarrierOrders'
  <2> SUFFICES ASSUME NEW c \in completed, c.waited, c.pipe \in Ordered, NEW id \in Pending(c.pipe)'
               PROVE  id > c.id
    BY <1>0 DEF WaitedBarrierOrders, Ordered
  <2>1. c.pipe \in Pipes /\ c.id < nextId /\ c.id \in Int
    BY DEF BInv, CompletedAges, Ids
  <2> QED
    BY <1>1, <1>5, <2>1 DEF BInv, WaitedBarrierOrders
<1>17. StaysDrained'
  BY <1>0, <1>1, <1>5 DEF BInv, StaysDrained, Ordered, DrainedAges, Ids, None
<1>18. \A p \in Pipes \ {Fix} : FrontWaits(p)'
  <2>1. \A p \in Pipes : \A a : Waiting(a, Pending(p), Outstanding(p))
                                => Waiting(a, Pending(p)', Outstanding(p)')
    BY <1>2, <1>5 DEF Waiting
  <2> QED
    BY <1>0, <2>1 DEF BInv, FrontWaits
<1> QED
  BY <1>8, <1>9, <1>10, <1>11, <1>12, <1>13, <1>14, <1>15, <1>16, <1>17, <1>18 DEF BInv

\* PIPE_BARRIER waits for the last accepted instruction if that is pending.
LEMMA IssueBarrierKeeps ==
  ASSUME IInv, BInv, NEW w, NEW p \in Pipes, IssueBarrier(w, p)
  PROVE  BInv'
<1> DEFINE new == [id |-> nextId, predecessor |-> lastAccepted[p], requiresIdle |-> LastQueuedIsFlag(p)]
           pending == lastAccepted[p] \in Pending(p)
<1>0. /\ UNCHANGED <<issued, commands, running, lastAccepted, deferred, ready, termination, drained>>
      /\ nextId' = nextId + 1 /\ nextId < MaxId
      /\ barriers' = IF pending THEN [barriers EXCEPT ![p] = @ \cup {new}] ELSE barriers
      /\ completed' = IF pending THEN completed
           ELSE completed \cup {[pipe |-> p, id |-> nextId, waited |-> FALSE]}
  BY DEF IssueBarrier, events, CanIssue
<1>1. /\ nextId \in Int /\ nextId \in Ids /\ nextId' \in Int
      /\ new.id = nextId /\ new.predecessor = lastAccepted[p]
      /\ new.requiresIdle = LastQueuedIsFlag(p)
  BY <1>0 DEF IInv, Types, Ids
<1>2. \A q : Outstanding(q)' = Outstanding(q) /\ Pending(q)' = Pending(q) /\ EventsOf(q)' = EventsOf(q)
  BY <1>0 DEF Outstanding, Pending, IdsOf, EventsOf
<1>3. pending => new \in Barrier
  BY <1>1, PendingIds DEF Barrier, LastQueuedIsFlag, IInv
<1> HIDE DEF new
<1>4. /\ barriers' \in [Pipes -> SUBSET Barrier]
      /\ \A q \in Pipes : \A b \in barriers'[q] : b \in barriers[q] \/ (pending /\ b = new /\ q = p)
      /\ \A q \in Pipes : barriers[q] \subseteq barriers'[q]
  BY <1>0, <1>3 DEF BInv, BarrierTypes
<1>5. \A x \in Int : x < nextId => x < nextId'
  BY <1>0, <1>1
<1>6. BarrierTypes'
  BY <1>0, <1>4 DEF BInv, BarrierTypes
<1>7. AcceptedAges'
  BY <1>0, <1>2, <1>5 DEF BInv, AcceptedAges, Ids, None
<1>8. \A id \in Pending(p) : id <= lastAccepted[p] /\ lastAccepted[p] < nextId
  BY DEF BInv, AcceptedAges
<1>9. BarrierAges'
  <2> SUFFICES ASSUME NEW q \in Pipes, NEW b \in barriers'[q]
      PROVE  /\ b.predecessor < b.id /\ b.id < nextId'
             /\ \A id \in Pending(q) : id <= b.predecessor \/ b.id < id
    BY <1>2 DEF BarrierAges
  <2>1. CASE b \in barriers[q]
    BY <1>5, <2>1, BarrierIds DEF BInv, BarrierAges
  <2>2. CASE pending /\ b = new /\ q = p
    BY <1>0, <1>1, <1>8, <2>2
  <2> QED
    BY <1>4, <2>1, <2>2
<1>10. BarrierWaits'
  <2> SUFFICES ASSUME NEW q \in Ordered, NEW b \in barriers'[q] PROVE WaitsFor(b, q)'
    BY DEF BarrierWaits, Ordered
  <2>1. q \in Pipes
    BY DEF Ordered
  <2>2. WaitsFor(b, q)' <=> WaitsFor(b, q)
    BY <1>0, <1>2 DEF WaitsFor
  <2>3. CASE b \in barriers[q]
    BY <2>2, <2>3 DEF BInv, BarrierWaits
  <2>4. CASE pending /\ b = new /\ q = p
    <3>1. b.predecessor \in Pending(q) /\ b.requiresIdle = LastQueuedIsFlag(q)
      BY <1>1, <2>4
    <3>2. ASSUME ~ LastQueuedIsFlag(q), NEW e \in issued[q], e.id = b.predecessor
          PROVE  e.word.kind \notin Flags
      <4>1. \A f \in issued[q] : f.id <= e.id
        BY <1>1, <1>8, <2>4, <3>2 DEF Pending, IdsOf
      <4> QED
        BY <3>2, <4>1 DEF LastQueuedIsFlag
    <3>3. WaitsFor(b, q)
      BY <3>1, <3>2 DEF WaitsFor
    <3> QED
      BY <2>2, <3>3
  <2> QED
    BY <1>4, <2>1, <2>3, <2>4
<1>11. \A c \in completed' : \/ c \in completed
                             \/ c = [pipe |-> p, id |-> nextId, waited |-> FALSE]
  BY <1>0
<1>12. CompletedAges'
  <2> SUFFICES ASSUME NEW c \in completed'
      PROVE  c \in [pipe : Pipes, id : Ids, waited : BOOLEAN] /\ c.id < nextId'
    BY DEF CompletedAges
  <2>1. CASE c \in completed
    BY <1>5, <2>1 DEF BInv, CompletedAges, Ids
  <2>2. CASE c = [pipe |-> p, id |-> nextId, waited |-> FALSE]
    BY <1>0, <1>1, <2>2
  <2> QED
    BY <1>11, <2>1, <2>2
<1>13. DrainedAges'
  BY <1>0, <1>5 DEF BInv, DrainedAges, Ids, None
<1>14. Depths'
  BY <1>0, <1>2 DEF BInv, Depths
<1>15. HoldsYounger'
  <2> SUFFICES ASSUME NEW q \in Pipes, NEW b \in barriers'[q]
      PROVE  /\ \A id \in Outstanding(q) : id < b.id
             /\ \A x \in EventsOf(q) : x.id < b.id
    BY <1>2 DEF HoldsYounger
  <2>1. CASE b \in barriers[q]
    BY <2>1 DEF BInv, HoldsYounger
  <2>2. CASE pending /\ b = new /\ q = p
    <3>1. \A id \in Outstanding(q) : id < nextId
      BY DEF IInv, OutstandingAges
    <3>2. \A x \in ToSet(ready) : x.id < nextId
      BY DEF IInv, ReadyAges
    <3>3. \A id \in Ids : \A x \in ToSet(deferred[<<q, id>>]) : x.id < nextId
      BY DEF IInv, DeferredAges
    <3> QED
      BY <1>1, <2>2, <3>1, <3>2, <3>3 DEF EventsOf
  <2> QED
    BY <1>4, <2>1, <2>2
<1>16. WaitedBarrierOrders'
  <2> SUFFICES ASSUME NEW c \in completed', c.waited, c.pipe \in Ordered, NEW id \in Pending(c.pipe)
               PROVE  id > c.id
    BY <1>2 DEF WaitedBarrierOrders, Ordered
  <2> QED
    BY <1>11 DEF BInv, WaitedBarrierOrders
<1>17. StaysDrained'
  <2> SUFFICES ASSUME NEW q \in Ordered, NEW b \in barriers'[q] PROVE b.id > drained[q]
    BY <1>0, <1>2 DEF BInv, StaysDrained
  <2>1. q \in Pipes
    BY DEF Ordered
  <2>2. drained[q] < nextId /\ drained[q] \in Int
    BY <2>1 DEF BInv, DrainedAges, Ids, None
  <2> QED
    BY <1>1, <1>4, <2>1, <2>2 DEF BInv, StaysDrained
<1>18. \A q \in Pipes \ {Fix} : FrontWaits(q)'
  <2> SUFFICES ASSUME NEW q \in Pipes \ {Fix}, NEW b \in barriers'[q]
      PROVE  \E a \in barriers'[q] : a.id <= b.id /\ Waiting(a, Pending(q), Outstanding(q))
    BY <1>2 DEF FrontWaits, Waiting
  <2>1. CASE b \in barriers[q]
    BY <1>4, <2>1 DEF BInv, FrontWaits
  <2>2. CASE pending /\ b = new /\ q = p
    BY <1>1, <2>2 DEF Waiting
  <2> QED
    BY <1>4, <2>1, <2>2
<1> QED
  BY <1>6, <1>7, <1>9, <1>10, <1>12, <1>13, <1>14, <1>15, <1>16, <1>17, <1>18 DEF BInv

\* A pipe without pending instructions holds back no barrier and no set.
LEMMA IdleIsDrained ==
  ASSUME IInv, BInv, NEW p \in Pipes \ {Fix}, p \in Ordered, Pending(p) = {}
  PROVE  barriers[p] = {} /\ ~ DeferredFrom(p)
<1>1. Outstanding(p) = {}
  BY DEF Pending
<1>2. barriers[p] = {}
  BY <1>1 DEF BInv, FrontWaits, Waiting
<1> QED
  BY <1>1, <1>2 DEF DeferredFrom, IInv, NoStrandedEvent

LEMMA ObserveKeeps ==
  ASSUME IInv, BInv, NEW P, Observe(P), CanIssue,
         \A p \in Pipes : p \in P => Pending(p) = {} /\ barriers[p] = {} /\ ~ DeferredFrom(p)
  PROVE  BInv'
<1>1. /\ UNCHANGED <<issued, commands, running, barriers, lastAccepted, deferred, ready, completed, termination>>
      /\ nextId' = nextId + 1
      /\ drained' = [p \in Pipes |-> IF p \in P THEN nextId ELSE drained[p]]
  BY DEF Observe, frontend, events
<1>2. nextId' \in Ids /\ nextId < nextId' /\ nextId <= nextId'
  BY <1>1, DepthAssumption DEF CanIssue, IInv, Types, Ids
<1>3. \A q : EventsOf(q)' = EventsOf(q)
  BY <1>1 DEF EventsOf
<1>4. termination' \in {"running", "draining", "complete"}
  BY <1>1 DEF BInv, BarrierTypes
<1> QED
  BY <1>1, <1>2, <1>3, <1>4, QuietKeeps

\* The scalar pipe's own events belong to no execution pipe.
LEMMA ScalarFlagBarriers ==
  ASSUME IInv, BInv, NEW w \in Words, ScalarSet(w) \/ ScalarWait(w)
  PROVE  BInv'
<1> HIDE DEF Event
<1>1. /\ UNCHANGED <<issued, commands, running, barriers, lastAccepted, deferred, completed,
                     termination, drained>>
      /\ nextId' = nextId + 1 /\ CanIssue
  BY DEF ScalarSet, ScalarWait, SetEvent, frontend, history
<1>2. nextId' \in Ids /\ nextId \in Ids /\ nextId <= nextId'
  BY <1>1, DepthAssumption DEF CanIssue, IInv, Types, Ids
<1>3. \A x \in ToSet(ready') : x \in ToSet(ready) \/ x.route[1] \notin Pipes
  <2>1. CASE ScalarWait(w)
    BY <2>1, ConsumeShrinks DEF ScalarWait, IInv
  <2>2. CASE ScalarSet(w)
    <3> DEFINE new == EventOf([id |-> nextId, word |-> w])
    <3>1. w \in Word
      BY WordsAssumption
    <3>2. new \in Event /\ new.route = w.route
      BY <1>2, <3>1 DEF EventOf, Event, Word
    <3>3. w.route[1] \notin Pipes
      BY <2>2, WordsAssumption, PipesAssumption
      DEF ScalarSet, Scalar, Vector, Cube, Mte1, Mte2, Mte3, Fix
    <3>4. ready' = Append(ready, new)
      BY <2>2 DEF ScalarSet, SetEvent
    <3> HIDE DEF new
    <3>5. ToSet(ready') = ToSet(ready) \cup {new}
      BY <3>2, <3>4, ToSetAppend DEF IInv, Types
    <3> QED
      BY <3>2, <3>3, <3>5
  <2> QED
    BY <2>1, <2>2
<1>4. \A q \in Pipes : EventsOf(q)' \subseteq EventsOf(q)
  BY <1>1, <1>3 DEF EventsOf
<1>5. termination' \in {"running", "draining", "complete"}
  BY <1>1 DEF BInv, BarrierTypes
<1> QED
  BY <1>1, <1>2, <1>4, <1>5, QuietKeeps

-----------------------------------------------------------------------------
LEMMA InitBInv == Init => BInv
<1> SUFFICES ASSUME Init PROVE BInv
  OBVIOUS
<1>1. \A p \in Pipes : /\ issued[p] = {} /\ commands[p] = {} /\ barriers[p] = {}
                       /\ Pending(p) = {} /\ Outstanding(p) = {}
                       /\ lastAccepted[p] = None /\ drained[p] = None
  BY DEF Init, Pending, Outstanding, IdsOf
<1>2. BarrierTypes
  BY DEF Init, BarrierTypes
<1>3. AcceptedAges /\ DrainedAges /\ BarrierAges /\ BarrierWaits /\ CompletedAges
  BY <1>1 DEF Init, AcceptedAges, DrainedAges, BarrierAges, BarrierWaits, CompletedAges, None, Ordered
<1>4. Depths
  <2>1. IsFiniteSet({}) /\ Cardinality({}) = 0
    BY FS_EmptySet
  <2>2. \A p \in Pipes : 0 <= IssueDepth[p] /\ 0 <= CommandDepth[p] /\ 0 <= OutstandingLimit[p]
    BY DepthAssumption
  <2> QED
    BY <1>1, <2>1, <2>2 DEF Depths
<1>5. HoldsYounger /\ WaitedBarrierOrders /\ \A p \in Pipes \ {Fix} : FrontWaits(p)
  BY <1>1 DEF Init, HoldsYounger, WaitedBarrierOrders, FrontWaits
<1>6. StaysDrained
  BY <1>1, ToSetEmpty DEF Init, StaysDrained, Ordered
<1> QED
  BY <1>2, <1>3, <1>4, <1>5, <1>6 DEF BInv

LEMMA DispatchWordBarriers ==
  ASSUME IInv, BInv, NEW w \in Words, DispatchWord(w)
  PROVE  BInv'
<1>1. /\ w \in Word /\ w.pipe \in Pipes \cup {Scalar}
      /\ w.kind = "spr" => w.pipe = Cube \/ (w.pipe = Mte1 /\ Mte2 \in Pipes)
      /\ w.kind = "barrier" => w.pipe \in Pipes
      /\ w.kind = "cross" => w.pipe \in Pipes
      /\ w.kind = "read_spr" => w.pipe \in {Vector, Mte1} \cap Pipes
  BY WordsAssumption DEF Word
<1>2. ASSUME NEW P, P \subseteq Pipes, Enqueue(w, P) PROVE BInv'
  BY <1>2, EnqueueBarriers
<1>3. CASE AcceptMte1(w)
  <2>1. Mte1 \in Pipes
    BY <1>1, <1>3 DEF AcceptMte1, Mte1, Scalar
  <2>2. w.kind = "spr" => {Mte1, Mte2} \subseteq Pipes
    BY <1>1, <1>3, <2>1 DEF AcceptMte1, Mte1, Cube
  <2> QED
    BY <1>2, <1>3, <2>1, <2>2 DEF AcceptMte1
<1>4. CASE AcceptMte2(w)
  BY <1>1, <1>2, <1>4 DEF AcceptMte2, Mte2, Scalar
<1>5. CASE AcceptMte3(w)
  BY <1>1, <1>2, <1>5 DEF AcceptMte3, Mte3, Scalar
<1>6. CASE AcceptCube(w)
  BY <1>1, <1>2, <1>6 DEF AcceptCube, Cube, Scalar
<1>7. CASE AcceptFixp(w)
  BY <1>1, <1>2, <1>7 DEF AcceptFixp, Fix, Scalar
<1>8. CASE AcceptVector(w)
  BY <1>1, <1>2, <1>8 DEF AcceptVector, Vector, Scalar
<1>9. ASSUME NEW p, w.pipe = p, IssueBarrier(w, p) PROVE BInv'
  BY <1>1, <1>9, IssueBarrierKeeps DEF IssueBarrier
<1>10. CASE \/ IssueMte1Barrier(w) \/ IssueMte2Barrier(w) \/ IssueMte3Barrier(w)
            \/ IssueCubeBarrier(w) \/ IssueFixpBarrier(w) \/ IssueVectorBarrier(w)
  BY <1>9, <1>10 DEF IssueMte1Barrier, IssueMte2Barrier, IssueMte3Barrier,
                     IssueCubeBarrier, IssueFixpBarrier, IssueVectorBarrier
<1>11. CASE ScalarSet(w) \/ ScalarWait(w)
  BY <1>11, ScalarFlagBarriers
<1>12. CASE IssueBarrierAll(w)
  BY <1>12, ObserveKeeps DEF IssueBarrierAll, BarrierAllBlocker, Active
<1>13. CASE ReadSpr(w)
  BY <1>13, ObserveKeeps DEF ReadSpr, Active
<1>14. CASE SendVectorCrossCore(w)
  <2>1. Vector \in Pipes \ {Fix} /\ Vector \in Ordered /\ Pending(Vector) = {}
    BY <1>1, <1>14 DEF SendVectorCrossCore, VectorDrained, Ordered, Vector, Fix, Cube
  <2>2. barriers[Vector] = {} /\ ~ DeferredFrom(Vector)
    BY <2>1, IdleIsDrained
  <2> QED
    BY <1>14, <2>1, <2>2, ObserveKeeps DEF SendVectorCrossCore
<1>15. CASE BeginTermination(w)
  <2>1. /\ UNCHANGED <<issued, commands, running, barriers, lastAccepted, deferred, ready,
                       completed, drained>>
        /\ nextId' = nextId + 1 /\ termination' = "draining" /\ CanIssue
    BY <1>15 DEF BeginTermination, frontend, events, history
  <2>2. nextId' \in Ids /\ nextId <= nextId'
    BY <2>1, DepthAssumption DEF CanIssue, IInv, Types, Ids
  <2>3. \A q : EventsOf(q)' = EventsOf(q)
    BY <2>1 DEF EventsOf
  <2> QED
    BY <2>1, <2>2, <2>3, QuietKeeps
<1> QED
  BY <1>3, <1>4, <1>5, <1>6, <1>7, <1>8, <1>10, <1>11, <1>12, <1>13, <1>14, <1>15 DEF DispatchWord

\* Every step is a step of the scalar unit, of one engine, or of termination.
LEMMA StepKinds ==
  ASSUME IInv, BInv, [Next]_vars
  PROVE  \/ \E w \in Words : DispatchWord(w)
         \/ \E p \in Pipes : PipeStep(p)
         \/ AdvanceTermination \/ UNCHANGED vars
<1>1. ASSUME NEW p \in Pipes, Receive(p), p # Cube PROVE PipeStep(p)
  <2>1. CASE ReceiveCommand(p)
    <3>1. PICK e \in issued[p] :
            /\ Dequeue(p, e)
            /\ commands' = [commands EXCEPT ![p] = @ \cup {e.id}]
            /\ Release(p, Pending(p), IF p = Fix THEN Outstanding(p) ELSE Outstanding(p) \cup {e.id})
            /\ UNCHANGED <<running, events>>
      BY <2>1 DEF ReceiveCommand
    <3> QED
      BY <1>1, <3>1, ReceiveCommandStep
  <2> QED
    BY <1>1, <2>1, ReceiveSetStep, ReceiveWaitStep DEF Receive
<1>2. CASE MteStep
  BY <1>1, <1>2, DispatchStep, RetireStep
  DEF MteStep, TransferMte1Issue, TransferMte2Issue, TransferMte3Issue,
      DispatchMte1Head, DispatchMte2Head, DispatchMte3Head,
      RetireMte1, RetireMte2, RetireMte3, Mte1, Mte2, Mte3, Cube
<1>3. CASE FixpStep
  BY <1>1, <1>3, DispatchStep, RetireStep, ReleaseFixBarriersStep
  DEF FixpStep, TransferFixpIssue, DispatchFixpHead, RetireFixp, ReleaseFixBarriers, Fix, Cube
<1>4. CASE VectorStep
  BY <1>1, <1>4, DispatchStep, RetireStep
  DEF VectorStep, AdvanceVectorFrontend, DispatchVector, RetireVector, Vector, Cube
<1>5. CASE CubeStep
  <2>1. Cube \in Pipes
    BY <1>5 DEF CubeStep
  <2>2. CASE ReceiveMmad
    <3>1. PICK e \in issued[Cube] :
            /\ Dequeue(Cube, e)
            /\ running' = [running EXCEPT ![Cube] = @ \cup {e.id}]
            /\ Release(Cube, Pending(Cube), Outstanding(Cube) \cup {e.id})
            /\ UNCHANGED <<commands, events>>
      BY <2>2 DEF ReceiveMmad
    <3> QED
      <4>1. Cube # Fix
        BY DEF Cube, Fix
      <4>2. Release(Cube, Pending(Cube),
                    IF Cube = Fix THEN Outstanding(Cube) ELSE Outstanding(Cube) \cup {e.id})
        BY <3>1, <4>1
      <4>3. PipeStep(Cube)
        BY <2>1, <3>1, <4>2, ReceiveCommandStep
      <4> QED
        BY <2>1, <4>3
  <2> QED
    BY <1>5, <2>1, <2>2, ReceiveSetStep, ReceiveWaitStep, ReceiveControlStep,
       ReceiveBlockedFlagStep, FinishActiveFlagStep, RetireStep
    DEF CubeStep, DispatchCubeFlag, RetireCube
<1> QED
  BY <1>2, <1>3, <1>4, <1>5 DEF Next

LEMMA StepKeepsBarriers ==
  ASSUME IInv, BInv, [Next]_vars
  PROVE  BInv'
<1>1. IInv'
  BY StepKeeps
<1>2. CASE AdvanceTermination \/ UNCHANGED vars
  <2>1. /\ UNCHANGED <<nextId, issued, commands, running, barriers, lastAccepted, deferred, ready,
                       completed, drained>>
        /\ termination' = termination \/ termination' = "complete"
    BY <1>2 DEF AdvanceTermination, vars, frontend, events, history
  <2>2. nextId' \in Ids /\ nextId <= nextId'
    BY <2>1 DEF IInv, Types, Ids
  <2>3. \A q : EventsOf(q)' = EventsOf(q)
    BY <2>1 DEF EventsOf
  <2>4. termination' \in {"running", "draining", "complete"}
    BY <2>1 DEF BInv, BarrierTypes
  <2> QED
    BY <2>1, <2>2, <2>3, <2>4, QuietKeeps
<1> QED
  BY <1>1, <1>2, StepKinds, DispatchWordBarriers, PipeStepKeeps

\* The ages of barriers and the depths of the queues are kept too.
THEOREM BarrierInvariance == Spec => [](IInv /\ BInv)
<1>1. IInv /\ BInv /\ [Next]_vars => (IInv /\ BInv)'
  BY StepKeeps, StepKeepsBarriers
<1> QED
  BY InitIInv, InitBInv, <1>1, PTL DEF Spec

-----------------------------------------------------------------------------
(* The order of events *)

\* Of the events of one source the older one is further in front.
InOrder(s) ==
  \A i, j \in DOMAIN s : i < j /\ s[i].route[1] = s[j].route[1] => s[i].id < s[j].id

\* An event is deferred behind an instruction received before all that waits.
DeferredBehind ==
  \A p \in Pipes, id \in Ids :
    deferred[<<p, id>>] # <<>> => id < nextId /\ \A e \in issued[p] : id < e.id

\* Behind outstanding commands events are deferred in program order, after
\* those that are published.
DeferredInOrder ==
  \A p \in Pipes, id \in Ids :
    /\ InOrder(deferred[<<p, id>>])
    /\ id \in Outstanding(p) =>
         \A d \in ToSet(deferred[<<p, id>>]) :
           /\ \A x \in ToSet(ready) : x.route[1] = p => x.id < d.id
           /\ \A i \in Outstanding(p) : i < id =>
                \A c \in ToSet(deferred[<<p, i>>]) : c.id < d.id

OInv == InOrder(ready) /\ DeferredBehind /\ DeferredInOrder

LEMMA InOrderAppend ==
  ASSUME NEW T, NEW s \in Seq(T), NEW x \in T, InOrder(s),
         \A y \in ToSet(s) : y.route[1] = x.route[1] => y.id < x.id
  PROVE  InOrder(Append(s, x))
<1> DEFINE u == Append(s, x)
<1>1. \A i \in DOMAIN u : (i \in DOMAIN s /\ u[i] = s[i]) \/ (i = Len(s) + 1 /\ u[i] = x)
  OBVIOUS
<1>2. \A i \in DOMAIN s : i \in Int /\ i < Len(s) + 1 /\ s[i] \in ToSet(s)
  BY DEF ToSet
<1>3. Len(s) \in Nat
  OBVIOUS
<1> HIDE DEF u
<1>4. InOrder(u)
  <2> SUFFICES ASSUME NEW i \in DOMAIN u, NEW j \in DOMAIN u, i < j, u[i].route[1] = u[j].route[1]
      PROVE  u[i].id < u[j].id
    BY DEF InOrder
  <2>1. CASE j \in DOMAIN s /\ u[j] = s[j]
    <3>1. i \in DOMAIN s /\ u[i] = s[i]
      BY <1>1, <1>2, <1>3, <2>1
    <3> QED
      BY <2>1, <3>1 DEF InOrder
  <2>2. CASE j = Len(s) + 1 /\ u[j] = x
    <3>1. i \in DOMAIN s /\ u[i] = s[i]
      BY <1>1, <1>3, <2>2
    <3> QED
      BY <1>2, <2>2, <3>1
  <2> QED
    BY <1>1, <2>1, <2>2
<1> QED
  BY <1>4 DEF u

LEMMA ConcatMembers ==
  ASSUME NEW T, NEW s \in Seq(T), NEW t \in Seq(T)
  PROVE  \A i \in DOMAIN (s \o t) :
           /\ i \in Int
           /\ \/ i \in DOMAIN s /\ (s \o t)[i] = s[i] /\ i <= Len(s)
              \/ i - Len(s) \in DOMAIN t /\ (s \o t)[i] = t[i - Len(s)] /\ i > Len(s)
OBVIOUS

LEMMA InOrderConcat ==
  ASSUME NEW T, NEW s \in Seq(T), NEW t \in Seq(T), InOrder(s), InOrder(t),
         \A x \in ToSet(s), y \in ToSet(t) : x.route[1] = y.route[1] => x.id < y.id
  PROVE  InOrder(s \o t)
<1> DEFINE u == s \o t
<1>1. \A i \in DOMAIN u : \/ i \in DOMAIN s /\ u[i] = s[i] /\ i <= Len(s)
                          \/ i - Len(s) \in DOMAIN t /\ u[i] = t[i - Len(s)] /\ i > Len(s)
  BY ConcatMembers
<1>2. \A i \in DOMAIN u : i \in Int
  BY ConcatMembers
<1>3. Len(s) \in Nat
  OBVIOUS
<1>4. (\A i \in DOMAIN s : s[i] \in ToSet(s)) /\ \A i \in DOMAIN t : t[i] \in ToSet(t)
  BY DEF ToSet
<1> HIDE DEF u
<1>5. InOrder(u)
  <2> SUFFICES ASSUME NEW i \in DOMAIN u, NEW j \in DOMAIN u, i < j, u[i].route[1] = u[j].route[1]
      PROVE  u[i].id < u[j].id
    BY DEF InOrder
  <2>0. i \in Int /\ j \in Int
    BY <1>2
  <2>1. CASE j \in DOMAIN s /\ u[j] = s[j] /\ j <= Len(s)
    <3>1. i \in DOMAIN s /\ u[i] = s[i]
      BY <1>1, <1>3, <2>0, <2>1
    <3> QED
      BY <2>1, <3>1 DEF InOrder
  <2>2. CASE j - Len(s) \in DOMAIN t /\ u[j] = t[j - Len(s)] /\ j > Len(s)
    <3>1. CASE i \in DOMAIN s /\ u[i] = s[i]
      BY <1>4, <2>2, <3>1
    <3>2. CASE i - Len(s) \in DOMAIN t /\ u[i] = t[i - Len(s)]
      <4>1. i - Len(s) < j - Len(s)
        BY <1>3, <2>0
      <4> QED
        BY <2>2, <3>2, <4>1 DEF InOrder
    <3> QED
      BY <1>1, <3>1, <3>2
  <2> QED
    BY <1>1, <2>1, <2>2
<1> QED
  BY <1>5 DEF u

LEMMA InOrderRemove ==
  ASSUME NEW T, NEW s \in Seq(T), NEW k \in DOMAIN s, InOrder(s)
  PROVE  InOrder(RemoveAt(s, k))
<1> DEFINE u == RemoveAt(s, k)
           at(i) == IF i < k THEN i ELSE i + 1
<1>1. u = SubSeq(s, 1, k - 1) \o SubSeq(s, k + 1, Len(s))
  BY DEF RemoveAt
<1>2. \A i \in DOMAIN u : i \in Int /\ at(i) \in DOMAIN s /\ u[i] = s[at(i)]
  <2> DEFINE a == SubSeq(s, 1, k - 1)
             b == SubSeq(s, k + 1, Len(s))
  <2>0. k \in 1..Len(s) /\ Len(s) \in Nat
    OBVIOUS
  <2>1. a \in Seq(T) /\ Len(a) = k - 1 /\ \A i \in 1..(k - 1) : a[i] = s[i]
    BY <2>0
  <2>2. b \in Seq(T) /\ Len(b) = Len(s) - k /\ \A i \in 1..(Len(s) - k) : b[i] = s[i + k]
    BY <2>0
  <2> HIDE DEF a, b
  <2>3. \A i \in DOMAIN (a \o b) :
          /\ i \in Int
          /\ \/ i \in DOMAIN a /\ (a \o b)[i] = a[i] /\ i <= Len(a)
             \/ i - Len(a) \in DOMAIN b /\ (a \o b)[i] = b[i - Len(a)] /\ i > Len(a)
    BY <2>1, <2>2, ConcatMembers
  <2>4. u = a \o b
    BY <1>1 DEF a, b
  <2>5. DOMAIN a = 1..(k - 1) /\ DOMAIN b = 1..(Len(s) - k)
    BY <2>1, <2>2
  <2>6. \A i \in DOMAIN u : \/ i \in 1..(k - 1) /\ u[i] = s[i]
                            \/ i \in Int /\ i - (k - 1) \in 1..(Len(s) - k) /\ u[i] = s[i + 1]
    <3> SUFFICES ASSUME NEW i \in DOMAIN u
        PROVE  \/ i \in 1..(k - 1) /\ u[i] = s[i]
               \/ i \in Int /\ i - (k - 1) \in 1..(Len(s) - k) /\ u[i] = s[i + 1]
      OBVIOUS
    <3>1. CASE i \in DOMAIN a /\ u[i] = a[i]
      BY <2>1, <2>5, <3>1
    <3>2. CASE i - Len(a) \in DOMAIN b /\ u[i] = b[i - Len(a)] /\ i \in Int
      <4>1. i - (k - 1) \in 1..(Len(s) - k) /\ u[i] = b[i - (k - 1)]
        BY <2>1, <2>5, <3>2
      <4>2. (i - (k - 1)) + k = i + 1
        BY <2>0, <3>2
      <4>3. b[i - (k - 1)] = s[i + 1]
        BY <2>2, <4>1, <4>2
      <4> QED
        BY <3>2, <4>1, <4>3
    <3> QED
      BY <2>3, <2>4, <3>1, <3>2
  <2> QED
    BY <2>0, <2>6
<1>3. \A i, j \in Int : i < j => at(i) < at(j)
  OBVIOUS
<1> HIDE DEF u, at
<1>4. InOrder(u)
  BY <1>2, <1>3 DEF InOrder
<1> QED
  BY <1>4 DEF u

\* A step that neither raises nor publishes an event.
LEMMA EventsKept ==
  ASSUME IInv, OInv, UNCHANGED events, nextId' \in Int, nextId <= nextId',
         \A p \in Pipes : \A e \in issued'[p] : e \in issued[p] \/ e.id = nextId,
         \A p \in Pipes : \A o \in Outstanding(p)' : o \in Outstanding(p) \/ o \in IdsOf(issued[p])
  PROVE  OInv'
<1>1. ready' = ready /\ deferred' = deferred
  BY DEF events
<1>2. nextId \in Int /\ nextId' \in Int
  BY DEF IInv, Types, Ids
<1>3. DeferredBehind'
  <2> SUFFICES ASSUME NEW p \in Pipes, NEW id \in Ids, deferred[<<p, id>>] # <<>>
      PROVE  id < nextId' /\ \A e \in issued'[p] : id < e.id
    BY <1>1 DEF DeferredBehind
  <2>1. id \in Int /\ id < nextId /\ \A e \in issued[p] : id < e.id
    BY DEF OInv, DeferredBehind, Ids
  <2> QED
    BY <1>2, <2>1
<1>4. \A p \in Pipes, id \in Ids : \A d \in ToSet(deferred[<<p, id>>]) :
        id \in Outstanding(p)' => id \in Outstanding(p)
  <2> SUFFICES ASSUME NEW p \in Pipes, NEW id \in Ids, NEW d \in ToSet(deferred[<<p, id>>]),
                      id \in IdsOf(issued[p])
               PROVE  FALSE
    OBVIOUS
  <2>1. deferred[<<p, id>>] # <<>>
    BY ToSetEmpty
  <2>2. PICK e \in issued[p] : e.id = id
    BY DEF IdsOf
  <2>3. id < id /\ id \in Int
    BY <2>1, <2>2 DEF OInv, DeferredBehind, Ids
  <2> QED
    BY <2>3
<1>5. \A p \in Pipes : \A o \in Outstanding(p)' : o \in Ids
  BY DEF IInv, Types, Outstanding, IdsOf, Entry
<1>6. DeferredInOrder'
  BY <1>1, <1>4, <1>5 DEF OInv, DeferredInOrder
<1> QED
  BY <1>1, <1>3, <1>6 DEF OInv

LEMMA ReceiveSetOrder ==
  ASSUME IInv, OInv, NEW p \in Pipes, ReceiveSet(p)
  PROVE  OInv'
<1> HIDE DEF Event, Entry
<1>0. PICK e \in issued[p] : /\ e.word.kind = "set" /\ Dequeue(p, e)
                             /\ SetEvent(p, e, Predecessor(p))
                             /\ UNCHANGED <<commands, running>>
  BY DEF ReceiveSet
<1> DEFINE new == EventOf(e)
           pre == Predecessor(p)
<1>1. new \in Event /\ new.id = e.id /\ new.route[1] = p /\ e.id \in Pending(p)
  BY <1>0, EntryFacts DEF IInv, Pending, IdsOf
<1>2. /\ nextId' = nextId /\ nextId \in Int
      /\ \A q \in Pipes : issued'[q] \subseteq issued[q] /\ Outstanding(q)' = Outstanding(q)
  BY <1>0, DequeuedIsOldest DEF IInv, Types, Outstanding, Ids
<1>3. /\ pre = None <=> Outstanding(p) = {}
      /\ pre # None => /\ pre \in Ids /\ pre \in Int
                       /\ \A id \in Outstanding(p) : id <= pre /\ id \in Int
                       /\ pre < nextId /\ \A f \in issued[p] : pre < f.id
  <2>1. /\ pre = None <=> Outstanding(p) = {}
        /\ pre # None => /\ pre \in Ids /\ \A id \in Outstanding(p) : id <= pre
                         /\ p \in Ordered => pre \in Outstanding(p)
    BY PredecessorIsYoungest
  <2>2. ASSUME pre # None PROVE pre < nextId /\ \A f \in issued[p] : pre < f.id
    <3>1. CASE p = Mte1
      <4>1. pre \in Outstanding(p)
        BY <2>1, <2>2, <3>1 DEF Ordered, Mte1, Cube
      <4> QED
        BY <4>1 DEF IInv, OutstandingAges, IssuedAges
    <3>2. CASE p # Mte1
      <4>1. pre = lastReceived[p]
        BY <2>2, <3>2 DEF Predecessor
      <4> QED
        BY <4>1 DEF IInv, LastAges
    <3> QED
      BY <3>1, <3>2
  <2>3. \A id \in Outstanding(p) : id \in Int
    BY PendingIds DEF IInv
  <2> QED
    BY <2>1, <2>2, <2>3 DEF Ids
<1>4. /\ ready \in Seq(Event) /\ deferred \in [Pipes \X Ids -> Seq(Event)]
      /\ \/ pre = None /\ ready' = Append(ready, new) /\ deferred' = deferred
         \/ /\ pre # None /\ ready' = ready
            /\ deferred' = [deferred EXCEPT ![<<p, pre>>] = Append(@, new)]
  BY <1>0 DEF SetEvent, IInv, Types
<1> HIDE DEF new, pre
<1>5. \A x \in ToSet(ready) : x.route[1] = p => x.id < new.id
  BY <1>1 DEF IInv, ReadyAges
<1>6. \A id \in Ids : \A d \in ToSet(deferred[<<p, id>>]) : d.id < new.id /\ d.route[1] = p
  BY <1>1 DEF IInv, DeferredAges
<1>7. CASE pre = None
  <2>1. /\ ready' = Append(ready, new) /\ deferred' = deferred
        /\ ToSet(ready') = ToSet(ready) \cup {new}
    BY <1>1, <1>4, <1>7, ToSetAppend
  <2>2. InOrder(ready')
    BY <1>1, <1>4, <1>5, <2>1, InOrderAppend DEF OInv
  <2>3. DeferredBehind'
    BY <1>2, <2>1 DEF OInv, DeferredBehind
  <2>4. DeferredInOrder'
    <3>1. \A q \in Pipes : Outstanding(q) # {} => new.route[1] # q
      BY <1>1, <1>3, <1>7
    <3> QED
      BY <1>2, <2>1, <3>1 DEF OInv, DeferredInOrder
  <2> QED
    BY <2>2, <2>3, <2>4 DEF OInv
<1>8. CASE pre # None
  <2>1. /\ ready' = ready /\ <<p, pre>> \in Pipes \X Ids
        /\ deferred[<<p, pre>>] \in Seq(Event)
        /\ deferred' = [deferred EXCEPT ![<<p, pre>>] = Append(deferred[<<p, pre>>], new)]
    BY <1>3, <1>4, <1>8
  <2> DEFINE more == Append(deferred[<<p, pre>>], new)
  <2>2. more \in Seq(Event) /\ ToSet(more) = ToSet(deferred[<<p, pre>>]) \cup {new}
    BY <1>1, <2>1, ToSetAppend
  <2>3. InOrder(more)
    BY <1>1, <1>3, <1>6, <1>8, <2>1, InOrderAppend DEF OInv, DeferredInOrder
  <2>4. deferred' = [deferred EXCEPT ![<<p, pre>>] = more]
    BY <2>1
  <2> HIDE DEF more
  <2>5. \A q \in Pipes, id \in Ids :
          deferred'[<<q, id>>] = IF q = p /\ id = pre THEN more ELSE deferred[<<q, id>>]
    <3>1. \A k \in Pipes \X Ids : deferred'[k] = IF k = <<p, pre>> THEN more ELSE deferred[k]
      BY <1>4, <2>1, <2>2, <2>4, UpdateTyped
    <3> QED
      BY <3>1
  <2>6. \A q \in Pipes, id \in Ids : \A d \in ToSet(deferred'[<<q, id>>]) :
          d \in ToSet(deferred[<<q, id>>]) \/ (q = p /\ id = pre /\ d = new)
    BY <2>2, <2>5
  <2>7. DeferredBehind'
    BY <1>2, <1>3, <1>8, <2>5 DEF OInv, DeferredBehind
  <2>8. \A q \in Pipes, id \in Ids : InOrder(deferred'[<<q, id>>])
    BY <2>3, <2>5 DEF OInv, DeferredInOrder
  <2>9. ASSUME NEW q \in Pipes, NEW id \in Ids, id \in Outstanding(q),
               NEW d \in ToSet(deferred'[<<q, id>>])
        PROVE  /\ \A x \in ToSet(ready) : x.route[1] = q => x.id < d.id
               /\ \A i \in Outstanding(q) : i < id =>
                    \A c \in ToSet(deferred'[<<q, i>>]) : c.id < d.id
    <3>0. \A i \in Outstanding(q) : i \in Ids
      BY PendingIds DEF IInv
    <3>1. CASE d \in ToSet(deferred[<<q, id>>])
      <4>1. \A i \in Outstanding(q) : i < id =>
              \A c \in ToSet(deferred'[<<q, i>>]) : c \in ToSet(deferred[<<q, i>>])
        BY <1>3, <1>8, <2>6, <2>9, <3>0 DEF Ids
      <4> QED
        BY <2>9, <3>1, <4>1 DEF OInv, DeferredInOrder
    <3>2. CASE q = p /\ id = pre /\ d = new
      <4>1. \A i \in Outstanding(q) : i < id =>
              \A c \in ToSet(deferred'[<<q, i>>]) : c \in ToSet(deferred[<<q, i>>])
        BY <1>3, <1>8, <2>6, <2>9, <3>0, <3>2
      <4> QED
        BY <1>5, <1>6, <3>0, <3>2, <4>1
    <3> QED
      BY <2>6, <2>9, <3>1, <3>2
  <2>10. DeferredInOrder'
    BY <1>2, <2>1, <2>8, <2>9 DEF DeferredInOrder
  <2> QED
    BY <2>1, <2>7, <2>10 DEF OInv
<1> QED
  BY <1>7, <1>8

\* Taking an event keeps the others in their order.
LEMMA ConsumeOrder ==
  ASSUME IInv, OInv, NEW w, Matching(w) # 0, Consume(w), deferred' = deferred,
         nextId' \in Int, nextId <= nextId',
         \A p \in Pipes : issued'[p] \subseteq issued[p] /\ Outstanding(p)' = Outstanding(p)
  PROVE  OInv'
<1> HIDE DEF Event, Entry
<1>1. ToSet(ready') \subseteq ToSet(ready)
  BY ConsumeShrinks DEF IInv
<1>2. InOrder(ready')
  <2>1. ready \in Seq(Event) /\ Matching(w) \in DOMAIN ready
    BY MatchingPosition DEF IInv, Types
  <2> QED
    BY <2>1, InOrderRemove DEF Consume, OInv
<1>3. DeferredBehind'
  BY DEF OInv, DeferredBehind, IInv, Types, Ids
<1>4. DeferredInOrder'
  BY <1>1 DEF OInv, DeferredInOrder
<1> QED
  BY <1>2, <1>3, <1>4 DEF OInv

LEMMA ScalarSetOrder ==
  ASSUME IInv, OInv, NEW w \in Words, ScalarSet(w)
  PROVE  OInv'
<1> HIDE DEF Event
<1> DEFINE new == EventOf([id |-> nextId, word |-> w])
<1>1. /\ issued' = issued /\ commands' = commands /\ running' = running /\ deferred' = deferred
      /\ nextId' = nextId + 1 /\ nextId \in Ids /\ nextId \in Int
      /\ ready' = Append(ready, new)
  BY DEF ScalarSet, SetEvent, frontend, IInv, Types, Ids
<1>2. w \in Word /\ w.route[1] \notin Pipes
  BY WordsAssumption, PipesAssumption
  DEF ScalarSet, Scalar, Vector, Cube, Mte1, Mte2, Mte3, Fix
<1>3. new \in Event /\ new.route[1] \notin Pipes /\ new.id = nextId
  BY <1>1, <1>2 DEF EventOf, Event, Word
<1> HIDE DEF new
<1>4. ready \in Seq(Event) /\ ToSet(ready') = ToSet(ready) \cup {new}
  BY <1>1, <1>3, ToSetAppend DEF IInv, Types
<1>5. InOrder(ready')
  BY <1>1, <1>3, <1>4, InOrderAppend DEF IInv, ReadyAges, OInv
<1>6. \A q : Outstanding(q)' = Outstanding(q)
  BY <1>1 DEF Outstanding
<1>7. DeferredBehind'
  BY <1>1 DEF OInv, DeferredBehind, Ids
<1>8. DeferredInOrder'
  BY <1>1, <1>3, <1>4, <1>6 DEF OInv, DeferredInOrder
<1> QED
  BY <1>5, <1>7, <1>8 DEF OInv

\* What was deferred behind the oldest command is older than what stays.
LEMMA RetireOrder ==
  ASSUME IInv, OInv, NEW p \in Pipes, Retire(p)
  PROVE  OInv'
<1> HIDE DEF Event, Entry
<1> DEFINE id == Min(running[p])
           late == deferred[<<p, id>>]
<1>1. /\ nextId' = nextId /\ issued' = issued /\ commands' = commands
      /\ running' = [running EXCEPT ![p] = @ \ {id}] /\ running[p] # {}
      /\ ready' = ready \o late
      /\ deferred' = [deferred EXCEPT ![<<p, id>>] = <<>>]
  BY DEF Retire, Retired, PublishDeferred
<1>2. id \in running[p] /\ id \in Ids /\ \A r \in running[p] : id <= r /\ r \in Int
  BY <1>1, OldestRunning
<1>3. /\ <<p, id>> \in Pipes \X Ids /\ late \in Seq(Event) /\ ready \in Seq(Event)
      /\ late = deferred[<<p, id>>] /\ id \in Outstanding(p)
  BY <1>2 DEF IInv, Types, Outstanding
<1>4. ToSet(ready') = ToSet(ready) \cup ToSet(late)
  BY <1>1, <1>3, ToSetConcat
<1>5. \A k \in Pipes \X Ids : deferred'[k] = IF k = <<p, id>> THEN <<>> ELSE deferred[k]
  <2>1. deferred \in [Pipes \X Ids -> Seq(Event)] /\ <<>> \in Seq(Event)
    BY ToSetEmpty DEF IInv, Types
  <2> QED
    BY <1>1, <1>3, <2>1, UpdateTyped
<1>6. \A q \in Pipes, i \in Ids :
        deferred'[<<q, i>>] = IF q = p /\ i = id THEN <<>> ELSE deferred[<<q, i>>]
  BY <1>5
<1>7. \A d \in ToSet(late) : d.route[1] = p /\ \A x \in ToSet(ready) : x.route[1] = p => x.id < d.id
  BY <1>2, <1>3 DEF IInv, DeferredAges, OInv, DeferredInOrder
<1> HIDE DEF id, late
<1>8. /\ \A q \in Pipes : Outstanding(q)' \subseteq Outstanding(q)
      /\ \A o \in Outstanding(p)' : id < o
  <2>1. \A c \in commands[p] : id < c
    BY <1>2 DEF IInv, OutstandingAges
  <2>2. \A r \in running[p] \ {id} : id < r
    BY <1>2 DEF Ids
  <2> QED
    BY <1>1, <2>1, <2>2 DEF Outstanding, IInv, Types
<1>9. InOrder(ready')
  <2>1. InOrder(late)
    BY <1>2, <1>3 DEF OInv, DeferredInOrder
  <2>2. \A x \in ToSet(ready), y \in ToSet(late) : x.route[1] = y.route[1] => x.id < y.id
    BY <1>7
  <2> QED
    BY <1>1, <1>3, <2>1, <2>2, InOrderConcat DEF OInv
<1>10. DeferredBehind'
  BY <1>1, <1>6 DEF OInv, DeferredBehind
<1>11. \A q \in Pipes, i \in Ids : InOrder(deferred'[<<q, i>>])
  BY <1>6 DEF OInv, DeferredInOrder, InOrder
<1>12. ASSUME NEW q \in Pipes, NEW i \in Ids, i \in Outstanding(q)',
              NEW d \in ToSet(deferred'[<<q, i>>])
       PROVE  /\ \A x \in ToSet(ready') : x.route[1] = q => x.id < d.id
              /\ \A j \in Outstanding(q)' : j < i =>
                   \A c \in ToSet(deferred'[<<q, j>>]) : c.id < d.id
  <2>1. \A j \in Outstanding(q) : j \in Ids
    BY PendingIds DEF IInv
  <2>2. \A j \in Ids : ToSet(deferred'[<<q, j>>]) \subseteq ToSet(deferred[<<q, j>>])
    BY <1>6, ToSetEmpty
  <2>3. /\ d \in ToSet(deferred[<<q, i>>]) /\ i \in Outstanding(q)
        /\ \A x \in ToSet(ready) : x.route[1] = q => x.id < d.id
        /\ \A j \in Outstanding(q) : j < i => \A c \in ToSet(deferred[<<q, j>>]) : c.id < d.id
    BY <1>8, <1>12, <2>2 DEF OInv, DeferredInOrder
  <2>4. \A x \in ToSet(late) : x.route[1] = q => x.id < d.id
    BY <1>3, <1>7, <1>8, <1>12, <2>3
  <2> QED
    BY <1>4, <1>8, <2>1, <2>2, <2>3, <2>4
<1>13. DeferredInOrder'
  BY <1>11, <1>12 DEF DeferredInOrder
<1> QED
  BY <1>9, <1>10, <1>13 DEF OInv

LEMMA InitOInv == Init => OInv
<1> SUFFICES ASSUME Init PROVE OInv
  OBVIOUS
<1>1. ready = <<>> /\ \A p \in Pipes, id \in Ids : deferred[<<p, id>>] = <<>>
  BY DEF Init
<1>2. InOrder(<<>>)
  BY DEF InOrder
<1>3. ToSet(<<>>) = {}
  BY ToSetEmpty
<1>4. DeferredBehind
  BY <1>1 DEF DeferredBehind
<1>5. DeferredInOrder
  BY <1>1, <1>2, <1>3 DEF DeferredInOrder
<1> QED
  BY <1>1, <1>2, <1>4, <1>5 DEF OInv

LEMMA StepKeepsOrder ==
  ASSUME IInv, OInv, [Next]_vars
  PROVE  OInv'
<1>0. nextId \in Int /\ nextId <= nextId
  BY DEF IInv, Types, Ids
<1>1. ASSUME nextId' = nextId \/ nextId' = nextId + 1, UNCHANGED <<issued, commands, running, events>>
      PROVE  OInv'
  <2>1. \A p : Outstanding(p)' = Outstanding(p)
    BY <1>1 DEF Outstanding
  <2> QED
    BY <1>0, <1>1, <2>1, EventsKept
<1>2. ASSUME NEW w \in Words, NEW P, Enqueue(w, P) PROVE OInv'
  <2>1. /\ UNCHANGED <<commands, running, events>> /\ nextId' = nextId + 1
        /\ issued' = [p \in Pipes |-> IF p \in P
                        THEN issued[p] \cup {[id |-> nextId, word |-> w]} ELSE issued[p]]
    BY <1>2 DEF Enqueue
  <2>2. \A p : Outstanding(p)' = Outstanding(p)
    BY <2>1 DEF Outstanding
  <2>3. \A p \in Pipes : \A e \in issued'[p] : e \in issued[p] \/ e.id = nextId
    BY <2>1
  <2> QED
    BY <1>0, <2>1, <2>2, <2>3, EventsKept
<1>3. ASSUME NEW p \in Pipes, NEW e \in issued[p], Dequeue(p, e), UNCHANGED events,
             \A q \in Pipes : \A o \in Outstanding(q)' : o \in Outstanding(q) \/ (q = p /\ o = e.id)
      PROVE  OInv'
  <2>1. nextId' = nextId /\ \A q \in Pipes : issued'[q] \subseteq issued[q]
    BY <1>3, DequeuedIsOldest DEF IInv, Types
  <2>2. e.id \in IdsOf(issued[p])
    BY DEF IdsOf
  <2> QED
    BY <1>0, <1>3, <2>1, <2>2, EventsKept
<1>4. ASSUME NEW p \in Pipes, ReceiveWait(p) PROVE OInv'
  <2>1. PICK e \in issued[p] : /\ e.word.kind = "wait" /\ Dequeue(p, e) /\ Consume(e.word)
                               /\ UNCHANGED <<commands, running, deferred>>
    BY <1>4 DEF ReceiveWait
  <2>2. Matching(e.word) # 0 /\ nextId' = nextId /\ \A q \in Pipes : issued'[q] \subseteq issued[q]
    BY <2>1, DequeuedIsOldest DEF Dequeue, Receivable, IInv, Types
  <2>3. \A q : Outstanding(q)' = Outstanding(q)
    BY <2>1 DEF Outstanding
  <2> QED
    BY <1>0, <2>1, <2>2, <2>3, ConsumeOrder
<1>5. ASSUME NEW p \in Pipes, Receive(p) PROVE OInv'
  <2>1. CASE ReceiveCommand(p)
    <3>1. PICK e \in issued[p] : /\ Dequeue(p, e)
                                 /\ commands' = [commands EXCEPT ![p] = @ \cup {e.id}]
                                 /\ UNCHANGED <<running, events>>
      BY <2>1 DEF ReceiveCommand
    <3>2. \A q \in Pipes : \A o \in Outstanding(q)' : o \in Outstanding(q) \/ (q = p /\ o = e.id)
      BY <3>1 DEF Outstanding, IInv, Types
    <3> QED
      BY <1>3, <3>1, <3>2
  <2> QED
    BY <1>4, <1>5, <2>1, ReceiveSetOrder DEF Receive
<1>6. ASSUME NEW p \in Pipes, Dispatch(p) PROVE OInv'
  <2>1. /\ UNCHANGED <<nextId, issued, events>>
        /\ commands' = [commands EXCEPT ![p] = @ \ {Min(commands[p])}]
        /\ running' = [running EXCEPT ![p] = @ \cup {Min(commands[p])}]
        /\ commands[p] # {}
    BY <1>6 DEF Dispatch
  <2>2. Min(commands[p]) \in commands[p]
    BY <2>1, MinOf DEF IInv, Types
  <2>3. \A q \in Pipes : \A o \in Outstanding(q)' : o \in Outstanding(q)
    BY <2>1, <2>2 DEF Outstanding, IInv, Types
  <2> QED
    BY <1>0, <2>1, <2>3, EventsKept
<1>7. ASSUME NEW w \in Words, DispatchWord(w) PROVE OInv'
  <2>1. CASE \/ AcceptMte1(w) \/ AcceptMte2(w) \/ AcceptMte3(w)
             \/ AcceptCube(w) \/ AcceptFixp(w) \/ AcceptVector(w)
    BY <1>2, <2>1 DEF AcceptMte1, AcceptMte2, AcceptMte3, AcceptCube, AcceptFixp, AcceptVector
  <2>2. ASSUME NEW p, IssueBarrier(w, p) PROVE OInv'
    BY <1>1, <2>2 DEF IssueBarrier
  <2>3. CASE \/ IssueMte1Barrier(w) \/ IssueMte2Barrier(w) \/ IssueMte3Barrier(w)
             \/ IssueCubeBarrier(w) \/ IssueFixpBarrier(w) \/ IssueVectorBarrier(w)
    BY <2>2, <2>3 DEF IssueMte1Barrier, IssueMte2Barrier, IssueMte3Barrier,
                      IssueCubeBarrier, IssueFixpBarrier, IssueVectorBarrier
  <2>4. CASE ScalarSet(w)
    BY <2>4, ScalarSetOrder
  <2>5. CASE ScalarWait(w)
    <3>1. /\ Matching(w) # 0 /\ Consume(w) /\ deferred' = deferred /\ nextId' = nextId + 1
          /\ issued' = issued /\ commands' = commands /\ running' = running
      BY <2>5 DEF ScalarWait, frontend
    <3>2. \A q : Outstanding(q)' = Outstanding(q)
      BY <3>1 DEF Outstanding
    <3> QED
      BY <1>0, <3>1, <3>2, ConsumeOrder
  <2>6. ASSUME NEW P, Observe(P) PROVE OInv'
    BY <1>1, <2>6 DEF Observe, frontend
  <2>7. CASE IssueBarrierAll(w) \/ ReadSpr(w) \/ SendVectorCrossCore(w)
    BY <2>6, <2>7 DEF IssueBarrierAll, ReadSpr, SendVectorCrossCore
  <2>8. CASE BeginTermination(w)
    BY <1>1, <2>8 DEF BeginTermination, frontend
  <2> QED
    BY <1>7, <2>1, <2>3, <2>4, <2>5, <2>7, <2>8 DEF DispatchWord
<1>8. CASE MteStep
  BY <1>5, <1>6, <1>8, RetireOrder
  DEF MteStep, TransferMte1Issue, TransferMte2Issue, TransferMte3Issue,
      DispatchMte1Head, DispatchMte2Head, DispatchMte3Head, RetireMte1, RetireMte2, RetireMte3
<1>9. CASE FixpStep
  <2>1. CASE ReleaseFixBarriers
    BY <1>1, <2>1 DEF ReleaseFixBarriers
  <2> QED
    BY <1>5, <1>6, <1>9, <2>1, RetireOrder
    DEF FixpStep, TransferFixpIssue, DispatchFixpHead, RetireFixp
<1>10. CASE VectorStep
  BY <1>5, <1>6, <1>10, RetireOrder
  DEF VectorStep, AdvanceVectorFrontend, DispatchVector, RetireVector
<1>11. CASE CubeStep
  <2>1. Cube \in Pipes
    BY <1>11 DEF CubeStep
  <2>2. CASE ReceiveMmad
    <3>1. PICK e \in issued[Cube] : /\ Dequeue(Cube, e)
                                    /\ running' = [running EXCEPT ![Cube] = @ \cup {e.id}]
                                    /\ UNCHANGED <<commands, events>>
      BY <2>2 DEF ReceiveMmad
    <3>2. \A q \in Pipes : \A o \in Outstanding(q)' : o \in Outstanding(q) \/ (q = Cube /\ o = e.id)
      BY <3>1 DEF Outstanding, IInv, Types
    <3> QED
      BY <1>3, <2>1, <3>1, <3>2
  <2>3. CASE ReceiveControl
    <3>1. PICK e \in issued[Cube] : Dequeue(Cube, e) /\ UNCHANGED <<commands, running, events>>
      BY <2>3 DEF ReceiveControl
    <3>2. \A q \in Pipes : Outstanding(q)' = Outstanding(q)
      BY <3>1 DEF Outstanding
    <3> QED
      BY <1>3, <2>1, <3>1, <3>2
  <2>4. CASE ReceiveBlockedFlag
    <3>1. PICK e \in issued[Cube] : /\ Dequeue(Cube, e)
                                    /\ commands' = [commands EXCEPT ![Cube] = {e.id}]
                                    /\ UNCHANGED <<running, events>>
      BY <2>4 DEF ReceiveBlockedFlag
    <3>2. \A q \in Pipes : \A o \in Outstanding(q)' : o \in Outstanding(q) \/ (q = Cube /\ o = e.id)
      BY <3>1 DEF Outstanding, IInv, Types
    <3> QED
      BY <1>3, <2>1, <3>1, <3>2
  <2>5. CASE FinishActiveFlag
    <3>1. /\ UNCHANGED <<nextId, issued, events, running>>
          /\ commands' = [commands EXCEPT ![Cube] = {}]
      BY <2>5 DEF FinishActiveFlag
    <3>2. \A q \in Pipes : \A o \in Outstanding(q)' : o \in Outstanding(q)
      BY <3>1 DEF Outstanding, IInv, Types
    <3> QED
      BY <1>0, <3>1, <3>2, EventsKept
  <2> QED
    BY <1>4, <1>11, <2>1, <2>2, <2>3, <2>4, <2>5, ReceiveSetOrder, RetireOrder
    DEF CubeStep, DispatchCubeFlag, RetireCube
<1>12. CASE AdvanceTermination \/ UNCHANGED vars
  BY <1>1, <1>12 DEF AdvanceTermination, vars, frontend, events
<1> QED
  BY <1>7, <1>8, <1>9, <1>10, <1>11, <1>12 DEF Next

\* The order of the events is kept.
THEOREM OrderInvariance == Spec => [](IInv /\ OInv)
<1>1. IInv /\ OInv /\ [Next]_vars => (IInv /\ OInv)'
  BY StepKeeps, StepKeepsOrder
<1> QED
  BY InitIInv, InitOInv, <1>1, PTL DEF Spec

\* Every variable has its type, and no queue exceeds its configured depth,
\* whatever the depths are: the issue queues, also when MTE1 writes an SPR into
\* two of them, the command queues, and the commands received and not retired.
THEOREM TypeCorrect == Spec => []TypeOK
<1>1. IInv /\ BInv => TypeOK
  <2> SUFFICES ASSUME IInv, BInv PROVE TypeOK
    OBVIOUS
  <2>1. completed \subseteq [pipe : Pipes, id : Ids, waited : BOOLEAN]
    BY DEF BInv, CompletedAges
  <2> QED
    BY <2>1 DEF IInv, Types, BInv, BarrierTypes, Depths, TypeOK
<1> QED
  BY BarrierInvariance, <1>1, PTL

\* Sets and barriers keep program order together: the sets of a pipe become
\* visible oldest first; nothing passes a pending barrier, a barrier that
\* waited completes after all that is older, and none is overlooked
\* (C220PipelineEvents, release_*_barriers_at).
THEOREM EventsInOrder == Spec => []EventsKeepOrder
<1>1. IInv /\ OInv => PublishedInOrder
  <2> SUFFICES ASSUME IInv, OInv PROVE PublishedInOrder
    OBVIOUS
  <2>1. ASSUME NEW p \in Ordered, NEW id \in Ids, NEW i \in DOMAIN ready,
               NEW j \in DOMAIN deferred[<<p, id>>], ready[i].route[1] = p
        PROVE  ready[i].id < deferred[<<p, id>>][j].id
    <3>1. /\ deferred[<<p, id>>][j] \in ToSet(deferred[<<p, id>>])
          /\ ready[i] \in ToSet(ready)
      BY DEF ToSet
    <3>2. p \in Pipes /\ id \in Outstanding(p)
      BY <3>1, ToSetEmpty DEF IInv, NoStrandedEvent, Ordered
    <3> QED
      BY <2>1, <3>1, <3>2 DEF OInv, DeferredInOrder
  <2> QED
    BY <2>1 DEF OInv, InOrder, PublishedInOrder
<1>2. BInv => BarriersOrder
  BY HoldsYoungerDef, NoneOverlooked DEF BInv, BarriersOrder
<1> QED
  BY BarrierInvariance, OrderInvariance, <1>1, <1>2, PTL DEF EventsKeepOrder

\* An instruction that found a pipe drained leaves nothing older behind in it,
\* although the Vector cross-core notification looks neither at barriers nor
\* at deferred events (barrier_all_blocker).
THEOREM DrainedPipesStayDrained == Spec => []DrainedStaysDrained
<1>1. BInv => DrainedStaysDrained
  BY StaysDrainedDef DEF BInv
<1> QED
  BY BarrierInvariance, <1>1, PTL
=============================================================================
