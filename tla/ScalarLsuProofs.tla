-------------------------- MODULE ScalarLsuProofs --------------------------
(***************************************************************************)
(* Proofs about ScalarLsu for every set of lines, program, number of ways  *)
(* and capacity.  The unit runs the pipeline of LsuPipeline, so what is    *)
(* proved of that holds in the unit: the request at M2 is one that was     *)
(* admitted, issued and looked up.  With it the types of all buffers,      *)
(* queues and ways are inductive, and with those the structure: what the   *)
(* miss buffer, the store buffer, the queues, the ways and the evicted     *)
(* data say of one line fits together, as long as no race has happened.    *)
(***************************************************************************)
EXTENDS ScalarLsu, LsuPipelineProofs, FiniteSetTheorems, WellFoundedInduction

-----------------------------------------------------------------------------
(* The request pipeline inside the unit *)

\* Every step of the unit is a step of its request pipeline or leaves it alone.
LEMMA StepRunsPipeline == [Next]_vars => [PipeNext]_pipeVars
<1> SUFFICES ASSUME [Next]_vars PROVE [PipeNext]_pipeVars
  OBVIOUS
<1>1. ASSUME NEW op \in Operations, Admit(op) PROVE PipeNext
  BY <1>1 DEF Admit, PipeNext
<1>2. CASE TriggerFlush \/ UbWriteResponse \/ UbReadResponse \/ ProcessDirectStores
  BY <1>2 DEF TriggerFlush, UbWriteResponse, UbReadResponse, ReadResponse, ProcessDirectStores
<1>3. ASSUME NEW i \in DOMAIN reads, ExternalReadResponse(i) PROVE UNCHANGED pipeVars
  BY <1>3 DEF ExternalReadResponse, ReadResponse
<1>4. ASSUME NEW i \in DOMAIN writes, ExternalWriteResponse(i) PROVE UNCHANGED pipeVars
  BY <1>4 DEF ExternalWriteResponse
<1>5. CASE AdvanceTimeouts \/ FlushStore \/ EndFlush \/ ReleaseMaintenance
  BY <1>5 DEF AdvanceTimeouts, FlushStore, FlushHit, FlushMiss, EndFlush, ReleaseMaintenance
<1>6. CASE M2(consumed)
  BY <1>6 DEF M2, LoadHit, PreloadHit, LoadMiss, StoreM2, DirectStoreM2, Clean, AtM2, PipeNext
<1>7. ASSUME NEW stage \in {"M1", "M2"}, ReplayStage(stage) PROVE PipeNext
  BY <1>7 DEF ReplayStage, PipeNext
<1>8. CASE M1 \/ BlockM0 \/ DrainM0 \/ M0
  BY <1>8 DEF M1, BlockM0, DrainM0, M0, PipeNext
<1>9. ASSUME NEW accepts \in SUBSET {"Ub", "External"}, SendReads(accepts) \/ SendWrites(accepts)
      PROVE [PipeNext]_pipeVars
  BY <1>9 DEF SendReads, SendWrites, PipeNext
<1>10. CASE ErrorReturn \/ Skip
  BY <1>10 DEF ErrorReturn, Fail, Skip, Pass
<1>11. CASE UNCHANGED vars
  BY <1>11 DEF vars
<1> QED
  BY <1>1, <1>2, <1>3, <1>4, <1>5, <1>6, <1>7, <1>8, <1>9, <1>10, <1>11 DEF Next

\* The unit with its cache, buffers, hazards and maintenance implements the
\* request pipeline: what holds of the pipeline with arbitrary hazards holds of it.
THEOREM UnitRunsPipeline == Spec => PipeSpec
<1>1. Init => PipeInit
  BY DEF Init
<1> QED
  BY <1>1, StepRunsPipeline, PTL DEF Spec, PipeSpec
-----------------------------------------------------------------------------
(* Sequences and minima *)

\* A set of numbers has a least member, which Min names.
LEMMA MinFacts ==
  ASSUME NEW S, S \subseteq Nat, S # {}
  PROVE  Min(S) \in S /\ \A y \in S : Min(S) <= y
<1> DEFINE R == OpToRel(<, Nat)
<1>1. \E x \in S : \A y \in S : <<y, x>> \notin R
  <2> HIDE DEF R
  <2>1. IsWellFoundedOn(R, Nat)
    BY NatLessThanWellFounded DEF R
  <2> QED BY <2>1, WFMin
<1>2. \A x, y \in S : <<y, x>> \notin R => x <= y
  BY DEF OpToRel
<1> QED
  BY <1>1, <1>2 DEF Min

\* What a sequence holds has its type.
LEMMA ElementType ==
  ASSUME NEW S, NEW q \in Seq(S), NEW i \in 1..Len(q)
  PROVE  q[i] \in S
OBVIOUS

\* A concatenation has the elements of both, in order.
LEMMA ConcatFacts ==
  ASSUME NEW S, NEW q \in Seq(S), NEW t \in Seq(S)
  PROVE  /\ q \o t \in Seq(S)
         /\ Len(q) \in Nat /\ Len(t) \in Nat /\ Len(q \o t) = Len(q) + Len(t)
         /\ \A j \in 1..Len(q) : (q \o t)[j] = q[j]
         /\ \A j \in 1..Len(t) : (q \o t)[Len(q) + j] = t[j]
OBVIOUS

\* RemoveAt closes the gap.
LEMMA RemoveFacts ==
  ASSUME NEW S, NEW q \in Seq(S), NEW i \in DOMAIN q
  PROVE  /\ RemoveAt(q, i) \in Seq(S)
         /\ Len(q) \in Nat /\ Len(q) >= 1
         /\ Len(RemoveAt(q, i)) = Len(q) - 1
         /\ \A j \in 1..Len(q) - 1 : RemoveAt(q, i)[j] = q[IF j < i THEN j ELSE j + 1]
<1>1. i \in 1..Len(q) /\ Len(q) \in Nat
  OBVIOUS
<1> DEFINE a == SubSeq(q, 1, i - 1)
           b == SubSeq(q, i + 1, Len(q))
<1>2. a \in Seq(S) /\ Len(a) = i - 1 /\ \A j \in 1..i - 1 : a[j] = q[j]
  BY <1>1
<1>3. b \in Seq(S) /\ Len(b) = Len(q) - i /\ \A j \in 1..Len(q) - i : b[j] = q[j + i]
  BY <1>1
<1> HIDE DEF a, b
<1>4. Len(a) = i - 1 /\ Len(b) = Len(q) - i
  BY <1>2, <1>3
<1>5. /\ a \o b \in Seq(S) /\ Len(a \o b) = Len(a) + Len(b)
      /\ \A j \in 1..Len(a) : (a \o b)[j] = a[j]
      /\ \A j \in 1..Len(b) : (a \o b)[Len(a) + j] = b[j]
  <2>1. a \in Seq(S) /\ b \in Seq(S)
    BY <1>2, <1>3
  <2> QED BY <2>1, ConcatFacts
<1>6. ASSUME NEW j \in 1..Len(q) - 1 PROVE (a \o b)[j] = q[IF j < i THEN j ELSE j + 1]
  <2>1. CASE j < i
    <3>1. j \in 1..Len(a)
      BY <1>1, <1>4, <2>1
    <3>2. (a \o b)[j] = a[j] /\ a[j] = q[j]
      BY <1>2, <1>4, <1>5, <3>1
    <3> QED BY <2>1, <3>2
  <2>2. CASE ~(j < i)
    <3> DEFINE m == j - (i - 1)
    <3>1. m \in 1..Len(q) - i /\ (i - 1) + m = j /\ m + i = j + 1
      BY <1>1, <2>2
    <3> HIDE DEF m
    <3>2. (a \o b)[(i - 1) + m] = b[m]
      BY <1>4, <1>5, <3>1
    <3>3. b[m] = q[m + i]
      BY <1>3, <3>1
    <3> QED BY <2>2, <3>1, <3>2, <3>3
  <2> QED BY <2>1, <2>2
<1>7. Len(q) >= 1 /\ Len(a) + Len(b) = Len(q) - 1
  BY <1>1, <1>4
<1> QED
  BY <1>1, <1>5, <1>6, <1>7 DEF RemoveAt, a, b

\* What is left after a removal, by position, both ways.
LEMMA RemoveMembers ==
  ASSUME NEW S, NEW q \in Seq(S), NEW i \in DOMAIN q
  PROVE  /\ \A j \in DOMAIN RemoveAt(q, i) : \E k \in DOMAIN q : k # i /\ RemoveAt(q, i)[j] = q[k]
         /\ \A k \in DOMAIN q : k # i => \E j \in DOMAIN RemoveAt(q, i) : RemoveAt(q, i)[j] = q[k]
<1>0. i \in 1..Len(q) /\ DOMAIN q = 1..Len(q)
  OBVIOUS
<1> DEFINE r == RemoveAt(q, i)
<1>1. /\ r \in Seq(S) /\ Len(q) \in Nat /\ Len(r) = Len(q) - 1
      /\ \A j \in 1..Len(q) - 1 : r[j] = q[IF j < i THEN j ELSE j + 1]
  BY RemoveFacts
<1> HIDE DEF r
<1>2. DOMAIN r = 1..Len(q) - 1
  BY <1>1
<1>3. ASSUME NEW j \in DOMAIN r PROVE \E k \in DOMAIN q : k # i /\ r[j] = q[k]
  <2>1. (IF j < i THEN j ELSE j + 1) \in DOMAIN q /\ (IF j < i THEN j ELSE j + 1) # i
    BY <1>0, <1>1, <1>2
  <2> QED BY <1>1, <1>2, <2>1
<1>4. ASSUME NEW k \in DOMAIN q, k # i PROVE \E j \in DOMAIN r : r[j] = q[k]
  <2>1. CASE k < i
    <3>1. k \in 1..Len(q) - 1
      BY <1>0, <1>1, <2>1
    <3> QED BY <1>1, <1>2, <2>1, <3>1
  <2>2. CASE k > i
    <3>1. k - 1 \in 1..Len(q) - 1 /\ ~(k - 1 < i) /\ (k - 1) + 1 = k
      BY <1>0, <1>1, <2>2
    <3> QED BY <1>1, <1>2, <3>1
  <2> QED BY <1>0, <1>1, <1>4, <2>1, <2>2
<1> QED
  BY <1>3, <1>4 DEF r

-----------------------------------------------------------------------------
(* Types *)

MissRec == [state : {"Idle", "Fetching"}, requests : Seq(Requests)]
StoreRec == [line : Lines, state : {"Idle", "Fetching", "Ready"}, hit : BOOLEAN,
             forbidden : BOOLEAN, remaining : 0..Timeout, requests : Seq(Requests),
             bytes : Data, valid : SUBSET Offsets]
ReadRec == [line : Lines, owner : {"Miss", "Store"}, state : {"Queued", "InFlight"}]
WriteRec == [line : Lines \cup {ZeroLine}, state : {"Queued", "InFlight"}, way : 0..Ways]
DirectRec == [line : Lines, request : Requests, bytes : Data]
WayRec == [line : Lines \cup {ZeroLine}, valid : BOOLEAN, dirty : BOOLEAN, data : Data]

OpsT == /\ ops \in Seq(Operations) /\ Len(ops) = admitted
        /\ lookup \in Seq(NotLooked..Ways) /\ Len(lookup) = admitted
MissT == DOMAIN misses \subseteq Lines /\ misses \in [DOMAIN misses -> MissRec]
StoreT == stores \in Seq(StoreRec)
DirectT == direct \in Seq(DirectRec)
ReadT == reads \in Seq(ReadRec)
WriteT == writes \in Seq(WriteRec)
EvictT == DOMAIN evict \subseteq Nat /\ evict \in [DOMAIN evict -> Data]
CacheT == cache \in [1..Ways -> WayRec]
MemoryT == memory \in [Lines -> Data]
EventT == {storeEvent, directEvent, maintActive, raced} \subseteq BOOLEAN
          /\ maintRelease \in {"none", "next", "now"}
DoneT == done \subseteq Requests
PhaseT == phase \in ToSet(Phases) \cup {"failed"}

Types == /\ OpsT /\ MissT /\ StoreT /\ DirectT /\ ReadT /\ WriteT
         /\ EvictT /\ CacheT /\ MemoryT /\ EventT /\ DoneT /\ PhaseT

\* A request that M0 issued has a lookup result.
LookedUpFirst == \A k \in 0..issued - 1 : lookup[k + 1] # NotLooked

\* A step keeps the type of what it leaves alone.
LEMMA TypeFrames ==
  /\ OpsT /\ UNCHANGED <<ops, lookup, admitted>> => OpsT'
  /\ MissT /\ UNCHANGED misses => MissT'
  /\ StoreT /\ UNCHANGED stores => StoreT'
  /\ DirectT /\ UNCHANGED direct => DirectT'
  /\ ReadT /\ UNCHANGED reads => ReadT'
  /\ WriteT /\ UNCHANGED writes => WriteT'
  /\ EvictT /\ UNCHANGED evict => EvictT'
  /\ CacheT /\ UNCHANGED cache => CacheT'
  /\ MemoryT /\ UNCHANGED memory => MemoryT'
  /\ EventT /\ UNCHANGED <<storeEvent, directEvent, maintActive, maintRelease, raced>> => EventT'
  /\ DoneT /\ UNCHANGED done => DoneT'
<1> HIDE DEF StoreRec, ReadRec, WriteRec, DirectRec, WayRec, MissRec, Data
<1> QED
  BY DEF OpsT, MissT, StoreT, DirectT, ReadT, WriteT, EvictT, CacheT, MemoryT, EventT, DoneT

\* advance_lsu_at has fourteen phases.
LEMMA PhaseFacts ==
  /\ Len(Phases) = 14 /\ DOMAIN Phases = 1..14
  /\ \A i \in 1..14 : Phases[i] \in ToSet(Phases)
  /\ {"admit", "ubWrite", "ubRead", "externalRead", "externalWrite", "direct", "stores", "flush",
      "release", "M2", "M1", "M0", "sendReads", "sendWrites"} \subseteq ToSet(Phases)
<1>1. Len(Phases) = 14 /\ DOMAIN Phases = 1..14
  BY DEF Phases
<1>2. /\ Phases[1] = "admit" /\ Phases[2] = "ubWrite" /\ Phases[3] = "ubRead"
      /\ Phases[4] = "externalRead" /\ Phases[5] = "externalWrite" /\ Phases[6] = "direct"
      /\ Phases[7] = "stores" /\ Phases[8] = "flush" /\ Phases[9] = "release"
      /\ Phases[10] = "M2" /\ Phases[11] = "M1" /\ Phases[12] = "M0"
      /\ Phases[13] = "sendReads" /\ Phases[14] = "sendWrites"
  BY DEF Phases
<1> QED
  <2> HIDE DEF Phases
  <2> QED BY <1>1, <1>2 DEF ToSet

\* Each phase is followed by a phase.
LEMMA NextPhase ==
  ASSUME NEW p \in ToSet(Phases), Then(p)
  PROVE  PhaseT'
<1>1. PICK i \in 1..14 : Phases[i] = p
  BY PhaseFacts DEF ToSet
<1> DEFINE k == CHOOSE j \in DOMAIN Phases : Phases[j] = p
<1>2. k \in 1..14
  BY <1>1, PhaseFacts
<1>4. phase' = Phases[(k % 14) + 1]
  BY PhaseFacts DEF Then
<1> HIDE DEF k
<1>3. (k % 14) + 1 \in 1..14
  BY <1>2
<1> QED
  BY <1>3, <1>4, PhaseFacts DEF PhaseT
-----------------------------------------------------------------------------
(* What the buffers, queues and ways say of a line *)

ReadBy(line, owner) == \E i \in DOMAIN reads : reads[i].line = line /\ reads[i].owner = owner
HasRead(line) == \E i \in DOMAIN reads : reads[i].line = line
Cached(line) == \E w \in 1..Ways : cache[w].valid /\ cache[w].line = line
Tagged(line) == \E w \in 1..Ways : cache[w].line = line
Evicted(line) == External(line) /\ line[2] \in DOMAIN evict
Plain(line) == Cardinality(PlainWrites(line))
DirectCount(line) == Cardinality({d \in DOMAIN direct : direct[d].line = line})


\* The request pipeline's invariant, in the numbers the unit uses.
PipeFacts == /\ admitted \in Nat /\ issued \in Nat /\ consumed \in Nat /\ MaxRequests \in Nat
             /\ admitted <= MaxRequests /\ issued <= admitted /\ consumed <= issued
             /\ Requests = 0..MaxRequests - 1

\* The pipeline invariant, as numbers.
LEMMA PipeNumbers == IInv => PipeFacts
<1> SUFFICES ASSUME IInv PROVE PipeFacts
  OBVIOUS
<1> HIDE DEF StageEntry
<1> QED BY Facts DEF IInv, IssuedAdmitted, PipeFacts, Requests

\* M2 evaluates the oldest request in flight, M0 the next admitted one.
LEMMA M2Request ==
  ASSUME IInv, AdvanceM2
  PROVE  /\ consumed < issued /\ consumed' = consumed + 1
         /\ issued' = issued /\ admitted' = admitted
<1>1. consumed < issued
  BY HeadIssued DEF AdvanceM2, Evaluates, HeadReady, HasHead
<1> QED BY <1>1 DEF AdvanceM2

\* M0 evaluates a request that has been admitted.
LEMMA M0Request ==
  ASSUME IInv, Evaluates("M0")
  PROVE  issued < admitted
BY DEF Evaluates, HeadReady, HasHead

\* An admitted request has an instruction of the program and a lookup result.
LEMMA OpFacts ==
  ASSUME OpsT, PipeFacts, NEW k \in Nat, k < admitted
  PROVE  /\ Op(k) \in Operations
         /\ Op(k).kind \in Kinds /\ Op(k).line \in Lines
         /\ Op(k).bytes \subseteq Offsets /\ Op(k).target \in Targets
         /\ k \in Requests /\ k + 1 \in 0..MaxRequests
         /\ lookup[k + 1] \in NotLooked..Ways
<1>1. k + 1 \in 1..Len(ops) /\ k + 1 \in 1..Len(lookup)
  BY DEF OpsT, PipeFacts
<1>2. ops[k + 1] \in Operations /\ lookup[k + 1] \in NotLooked..Ways
  BY <1>1, ElementType DEF OpsT
<1>3. Op(k) \in Operation
  BY <1>2, LsuAssumption DEF Op
<1>4. k \in Requests /\ k + 1 \in 0..MaxRequests
  BY DEF PipeFacts
<1> QED
  BY <1>2, <1>3, <1>4 DEF Op, Operation

\* A line is of one of the two memories; line 0 is external.
LEMMA LineFacts ==
  /\ \A l \in Lines : l[2] \in Nat /\ (Ub(l) \/ External(l)) /\ ~(Ub(l) /\ External(l))
  /\ External(ZeroLine) /\ ~Ub(ZeroLine) /\ ZeroLine[2] = 0
<1>1. \A l \in Lines : l \in {"Ub", "External"} \X Nat
  BY LsuAssumption
<1> QED
  BY <1>1 DEF Ub, External, ZeroLine

\* The first way of a set, or 0: the shape of the three tag searches.
LEMMA FirstWay ==
  ASSUME NEW W, W \subseteq 1..Ways
  PROVE  LET w == Min(W \cup {Ways + 1}) % (Ways + 1)
         IN  /\ W = {} => w = 0
             /\ W # {} => w \in W /\ \A v \in W : w <= v
             /\ w \in 0..Ways
<1> DEFINE m == Min(W \cup {Ways + 1})
<1>0. Ways \in Nat /\ Ways >= 1
  BY LsuAssumption
<1>1. W \cup {Ways + 1} \subseteq Nat /\ W \cup {Ways + 1} # {}
  BY <1>0
<1>2. m \in W \cup {Ways + 1} /\ \A v \in W \cup {Ways + 1} : m <= v
  BY <1>1, MinFacts
<1> HIDE DEF m
<1>3. \A n \in 1..Ways : n % (Ways + 1) = n
  BY <1>0
<1>4. (Ways + 1) % (Ways + 1) = 0
  BY <1>0
<1>5. CASE W = {}
  <2>1. m = Ways + 1
    BY <1>2, <1>5
  <2> QED BY <1>0, <1>4, <1>5, <2>1 DEF m
<1>6. CASE W # {}
  <2>0. PICK v \in W : TRUE
    BY <1>6
  <2>1. v <= Ways /\ m <= v
    BY <1>0, <1>2, <2>0
  <2>2. m \in W
    BY <1>0, <1>2, <2>1
  <2>3. m % (Ways + 1) = m
    BY <1>3, <2>2
  <2>4. m \in W /\ m \in 0..Ways /\ \A u \in W : m <= u
    BY <1>0, <1>2, <2>2
  <2>5. Min(W \cup {Ways + 1}) % (Ways + 1) = m
    BY <2>3 DEF m
  <2> HIDE DEF m
  <2> QED BY <1>6, <2>4, <2>5
<1> QED BY <1>5, <1>6

\* find_way and lookup return the first way of a line, or none.
LEMMA TagSearch ==
  ASSUME NEW l
  PROVE  /\ FindWay(l) \in 0..Ways
         /\ FindWay(l) = 0 <=> ~Tagged(l)
         /\ FindWay(l) # 0 => /\ FindWay(l) \in 1..Ways /\ cache[FindWay(l)].line = l
                              /\ \A w \in 1..Ways : cache[w].line = l => FindWay(l) <= w
         /\ Lookup(l) \in 0..Ways
         /\ Lookup(l) = 0 <=> ~Cached(l)
         /\ Lookup(l) # 0 => /\ Lookup(l) \in 1..Ways
                             /\ cache[Lookup(l)].valid /\ cache[Lookup(l)].line = l
<1>1. {w \in 1..Ways : cache[w].line = l} \subseteq 1..Ways
  OBVIOUS
<1>2. {w \in 1..Ways : cache[w].valid /\ cache[w].line = l} \subseteq 1..Ways
  OBVIOUS
<1>3. Ways \in Nat
  BY LsuAssumption
<1>4. /\ FindWay(l) \in 0..Ways
      /\ {w \in 1..Ways : cache[w].line = l} = {} => FindWay(l) = 0
      /\ {w \in 1..Ways : cache[w].line = l} # {} =>
            /\ FindWay(l) \in {w \in 1..Ways : cache[w].line = l}
            /\ \A v \in {w \in 1..Ways : cache[w].line = l} : FindWay(l) <= v
  BY <1>1, FirstWay DEF FindWay
<1>5. /\ Lookup(l) \in 0..Ways
      /\ {w \in 1..Ways : cache[w].valid /\ cache[w].line = l} = {} => Lookup(l) = 0
      /\ {w \in 1..Ways : cache[w].valid /\ cache[w].line = l} # {} =>
            Lookup(l) \in {w \in 1..Ways : cache[w].valid /\ cache[w].line = l}
  BY <1>2, FirstWay DEF Lookup
<1> QED
  BY <1>3, <1>4, <1>5 DEF Tagged, Cached

\* lookup_maintenance returns a valid way with the address, in either memory.
LEMMA MaintenanceSearch ==
  ASSUME NEW l
  PROVE  /\ LookupMaintenance(l) \in 0..Ways
         /\ LookupMaintenance(l) = 0 <=> ~\E w \in 1..Ways : cache[w].valid /\ cache[w].line[2] = l[2]
         /\ LookupMaintenance(l) # 0 =>
              /\ LookupMaintenance(l) \in 1..Ways
              /\ cache[LookupMaintenance(l)].valid
              /\ cache[LookupMaintenance(l)].line[2] = l[2]
<1> DEFINE W == {w \in 1..Ways : cache[w].valid /\ cache[w].line[2] = l[2]}
<1>1. W \subseteq 1..Ways
  OBVIOUS
<1>2. Ways \in Nat
  BY LsuAssumption
<1>3. /\ LookupMaintenance(l) \in 0..Ways
      /\ W = {} => LookupMaintenance(l) = 0
      /\ W # {} => LookupMaintenance(l) \in W
  <2> HIDE DEF W
  <2>1. LookupMaintenance(l) = Min(W \cup {Ways + 1}) % (Ways + 1)
    BY DEF LookupMaintenance, W
  <2> QED BY <1>1, <2>1, FirstWay
<1> QED
  BY <1>2, <1>3

\* A valid way is replaced only when all of them are.
LEMMA VictimFacts ==
  ASSUME NEW v \in Victims
  PROVE  /\ v \in 1..Ways
         /\ cache[v].valid => \A w \in 1..Ways : cache[w].valid
<1> DEFINE I == {w \in 1..Ways : ~cache[w].valid}
<1>1. CASE I = {}
  BY <1>1 DEF Victims
<1>2. CASE I # {}
  <2>1. I \subseteq Nat
    BY LsuAssumption
  <2> HIDE DEF I
  <2>2. Min(I) \in I
    BY <1>2, <2>1, MinFacts
  <2>3. v = Min(I)
    BY <1>2 DEF Victims, I
  <2> QED BY <2>2, <2>3 DEF I
<1> QED BY <1>1, <1>2

\* The entry that the store buffer finds for a line is of that line.
LEMMA StoreFacts ==
  ASSUME StoreT, NEW l, HasStore(l)
  PROVE  /\ StoreIndex(l) \in DOMAIN stores /\ stores[StoreIndex(l)].line = l
         /\ StoreEntry(l) = stores[StoreIndex(l)] /\ StoreEntry(l) \in StoreRec
         /\ StoreEntry(l).line = l /\ l \in Lines
<1>1. \E i \in DOMAIN stores : stores[i].line = l
  BY DEF HasStore
<1>2. StoreIndex(l) \in DOMAIN stores /\ stores[StoreIndex(l)].line = l
  BY <1>1 DEF StoreIndex
<1>3. stores[StoreIndex(l)] \in StoreRec
  <2> HIDE DEF StoreRec
  <2> QED BY <1>2 DEF StoreT
<1> QED BY <1>2, <1>3 DEF StoreEntry, StoreRec

\* remove takes the oldest direct store of a line.
LEMMA DirectFirst ==
  ASSUME DirectT, NEW l, HasDirect(l)
  PROVE  /\ DirectIndex(l) \in DOMAIN direct /\ direct[DirectIndex(l)].line = l
         /\ \A i \in DOMAIN direct : direct[i].line = l => DirectIndex(l) <= i
<1> DEFINE I == {i \in DOMAIN direct : direct[i].line = l}
<1>1. I \subseteq Nat /\ I # {}
  BY DEF HasDirect, DirectT
<1> HIDE DEF I
<1>2. Min(I) \in I /\ \A i \in I : Min(I) <= i
  BY <1>1, MinFacts
<1> QED BY <1>2 DEF DirectIndex, I

\* A function keeps its type under an update.
LEMMA UpdateTyped ==
  ASSUME NEW D, NEW S, NEW f \in [D -> S], NEW k \in D, NEW x \in S
  PROVE  [f EXCEPT ![k] = x] \in [D -> S]
OBVIOUS
-----------------------------------------------------------------------------
(* Every step keeps the types *)

\* An element of a sequence changes in place.
LEMMA SeqUpdate ==
  ASSUME NEW S, NEW q \in Seq(S), NEW i \in DOMAIN q, NEW x \in S
  PROVE  /\ [q EXCEPT ![i] = x] \in Seq(S)
         /\ DOMAIN [q EXCEPT ![i] = x] = DOMAIN q
         /\ \A j \in DOMAIN q : [q EXCEPT ![i] = x][j] = IF j = i THEN x ELSE q[j]
OBVIOUS

\* A sequence mapped element by element.
LEMMA SeqMap ==
  ASSUME NEW S, NEW q, NEW f, q \in Seq(S), DOMAIN f = DOMAIN q, f = [i \in DOMAIN f |-> f[i]],
         \A i \in DOMAIN q : f[i] \in S
  PROVE  f \in Seq(S) /\ Len(f) = Len(q)
<1>1. DOMAIN q = 1..Len(q) /\ Len(q) \in Nat
  OBVIOUS
<1>2. f \in [1..Len(q) -> S]
  BY <1>1
<1> QED BY <1>1, <1>2

\* The changes that the unit makes to a store entry keep its type.
LEMMA StoreRecUpdates ==
  ASSUME NEW e \in StoreRec
  PROVE  /\ [e EXCEPT !.remaining = 0] \in StoreRec
         /\ [e EXCEPT !.remaining = IF @ = 0 THEN 0 ELSE @ - 1] \in StoreRec
         /\ [e EXCEPT !.state = "Fetching"] \in StoreRec
         /\ e.line \in Lines /\ e.bytes \in Data /\ e.valid \subseteq Offsets
         /\ e.requests \in Seq(Requests)
<1>1. Timeout \in Nat
  BY LsuAssumption
<1>2. 0 \in 0..Timeout /\ \A n \in 0..Timeout : n = 0 \/ n - 1 \in 0..Timeout
  BY <1>1
<1> HIDE DEF Requests, Data
<1> QED BY <1>2 DEF StoreRec

\* A merged line is a line.
LEMMA MergeTyped ==
  ASSUME NEW e \in StoreRec, NEW d \in Data
  PROVE  Merge(e, d) \in Data /\ EmptyLine \in Data
<1>1. 0 \in 0..MaxRequests
  BY MaxRequestsAssumption
<1> QED BY <1>1, StoreRecUpdates DEF Merge, Data, EmptyLine

\* Admission keeps the types.
LEMMA AdmitTyped ==
  ASSUME Types, IInv, NEW op \in Operations, Admit(op)
  PROVE  Types'
<1>1. PhaseT'
  BY NextPhase, PhaseFacts DEF Admit
<1>2. admitted' = admitted + 1
  BY DEF Admit, AdmitRequests
<1>3. OpsT'
  <2>1. NotLooked \in NotLooked..Ways
    BY LsuAssumption DEF NotLooked
  <2>2. ops' \in Seq(Operations) /\ Len(ops') = Len(ops) + 1
    BY DEF Admit, Types, OpsT
  <2>3. lookup' \in Seq(NotLooked..Ways) /\ Len(lookup') = Len(lookup) + 1
    BY <2>1, AppendFacts DEF Admit, Types, OpsT
  <2> QED BY <1>2, <2>2, <2>3 DEF OpsT, Types
<1> QED
  BY <1>1, <1>3, TypeFrames DEF Types, Admit, buffers, queues, storage, events, maint, outcome

\* trigger_idle_flush keeps the types.
LEMMA TriggerTyped ==
  ASSUME Types, TriggerFlush
  PROVE  Types'
<1> HIDE DEF StoreRec
<1>1. \A i \in DOMAIN stores : stores[i] \in StoreRec
  BY DEF Types, StoreT
<1>2. stores' = [i \in DOMAIN stores |->
                  IF stores[i].state = "Idle" THEN [stores[i] EXCEPT !.remaining = 0] ELSE stores[i]]
  BY DEF TriggerFlush
<1>3. \A i \in DOMAIN stores : stores'[i] \in StoreRec
  BY <1>1, <1>2, StoreRecUpdates
<1>4. StoreT'
  BY <1>2, <1>3, SeqMap DEF Types, StoreT
<1>5. PhaseT'
  BY DEF TriggerFlush, Types, PhaseT
<1> QED
  BY <1>4, <1>5, TypeFrames DEF Types, TriggerFlush, queues, storage, events, maint, outcome, pipeVars

\* advance_timeouts keeps the types.
LEMMA TimeoutsTyped ==
  ASSUME Types, AdvanceTimeouts
  PROVE  Types'
<1> HIDE DEF StoreRec
<1>1. \A i \in DOMAIN stores : stores[i] \in StoreRec
  BY DEF Types, StoreT
<1>2. stores' = [i \in DOMAIN stores |-> [stores[i] EXCEPT !.remaining = IF @ = 0 THEN 0 ELSE @ - 1]]
  BY DEF AdvanceTimeouts
<1>3. \A i \in DOMAIN stores : stores'[i] \in StoreRec
  BY <1>1, <1>2, StoreRecUpdates
<1>4. StoreT'
  BY <1>2, <1>3, SeqMap DEF Types, StoreT
<1>5. PhaseT'
  BY NextPhase, PhaseFacts DEF AdvanceTimeouts
<1> QED
  BY <1>4, <1>5, TypeFrames DEF Types, AdvanceTimeouts, queues, storage, events, maint, outcome, pipeVars

\* The steps that touch no typed collection but the phase.
LEMMA QuietTyped ==
  ASSUME Types, \/ ErrorReturn \/ Skip \/ EndFlush \/ ReleaseMaintenance
  PROVE  Types'
<1>1. ASSUME NEW p, NEW why, Fail(p, why) PROVE Types'
  <2>1. PhaseT'
    BY <1>1 DEF Fail, PhaseT
  <2>2. EventT'
    <3>1. raced' \in BOOLEAN
      BY <1>1 DEF Fail
    <3> QED BY <1>1, <3>1 DEF Fail, Types, EventT, events, maint
  <2> QED BY <1>1, <2>1, <2>2, TypeFrames DEF Types, Fail, buffers, queues, storage, outcome, pipeVars
<1>2. ASSUME NEW p \in ToSet(Phases), Pass(p) PROVE Types'
  <2>1. PhaseT'
    BY <1>2, NextPhase DEF Pass
  <2> QED BY <1>2, <2>1, TypeFrames
      DEF Types, Pass, buffers, queues, storage, events, maint, outcome, pipeVars
<1>3. CASE EndFlush
  <2>1. PhaseT'
    BY <1>3, NextPhase, PhaseFacts DEF EndFlush
  <2>2. EventT'
    BY <1>3 DEF EndFlush, Types, EventT, maint
  <2> QED BY <1>3, <2>1, <2>2, TypeFrames DEF Types, EndFlush, buffers, queues, storage, outcome, pipeVars
<1>4. CASE ReleaseMaintenance
  <2>1. PhaseT'
    BY <1>4, NextPhase, PhaseFacts DEF ReleaseMaintenance
  <2>2. EventT'
    BY <1>4 DEF ReleaseMaintenance, Types, EventT, events
  <2> QED BY <1>4, <2>1, <2>2, TypeFrames
      DEF Types, ReleaseMaintenance, buffers, queues, storage, outcome, pipeVars
<1>5. CASE ErrorReturn
  BY <1>1, <1>5 DEF ErrorReturn
<1>6. CASE Skip
  BY <1>2, <1>6, PhaseFacts DEF Skip, Stages
<1> QED BY <1>3, <1>4, <1>5, <1>6

\* Drop leaves the other lines alone.
LEMMA DropFacts ==
  ASSUME NEW S, NEW f, f \in [DOMAIN f -> S], NEW l
  PROVE  /\ DOMAIN Drop(f, l) = DOMAIN f \ {l} /\ Drop(f, l) \in [DOMAIN Drop(f, l) -> S]
         /\ \A k \in DOMAIN Drop(f, l) : Drop(f, l)[k] = f[k]
BY DEF Drop

\* Put leaves the other lines alone.
LEMMA PutFacts ==
  ASSUME NEW S, NEW f, f \in [DOMAIN f -> S], NEW l, NEW x \in S
  PROVE  /\ DOMAIN Put(f, l, x) = DOMAIN f \cup {l}
         /\ Put(f, l, x) \in [DOMAIN Put(f, l, x) -> S]
         /\ Put(f, l, x)[l] = x
         /\ \A k \in DOMAIN f : k # l => Put(f, l, x)[k] = f[k]
BY DEF Put

\* Entries hold requests that exist.
LEMMA RequestSets ==
  ASSUME Types
  PROVE  /\ \A l : MissRequests(l) \subseteq Requests
         /\ \A l : HasStore(l) => ToSet(StoreEntry(l).requests) \subseteq Requests
<1>1. ASSUME NEW l, HasMiss(l) PROVE MissRequests(l) \subseteq Requests
  <2>1. misses[l] \in MissRec
    BY <1>1 DEF Types, MissT, HasMiss
  <2>2. misses[l].requests \in Seq(Requests)
    <3> HIDE DEF Requests
    <3> QED BY <2>1 DEF MissRec
  <2> HIDE DEF Requests
  <2> QED BY <1>1, <2>2 DEF MissRequests, ToSet
<1>2. ASSUME NEW l, HasStore(l) PROVE ToSet(StoreEntry(l).requests) \subseteq Requests
  <2>1. StoreEntry(l) \in StoreRec
    BY <1>2, StoreFacts DEF Types
  <2>2. StoreEntry(l).requests \in Seq(Requests)
    BY <2>1, StoreRecUpdates
  <2> HIDE DEF Requests
  <2> QED BY <2>2 DEF ToSet
<1> QED BY <1>1, <1>2 DEF MissRequests

\* A way has a line, or the tag of line 0.
LEMMA WayTyped ==
  ASSUME Types, NEW w \in 1..Ways
  PROVE  /\ cache[w] \in WayRec /\ cache[w].data \in Data
         /\ cache[w].line \in Lines \cup {ZeroLine} /\ cache[w].line[2] \in Nat
         /\ cache[w].valid \in BOOLEAN /\ cache[w].dirty \in BOOLEAN
<1>1. cache[w] \in WayRec
  <2> HIDE DEF WayRec
  <2> QED BY DEF Types, CacheT
<1> HIDE DEF Data
<1>2. cache[w].line \in Lines \cup {ZeroLine}
  BY <1>1 DEF WayRec
<1> QED BY <1>1, <1>2, LineFacts DEF WayRec

\* What the queues hold.
LEMMA QueueItems ==
  ASSUME Types
  PROVE  /\ \A i \in DOMAIN reads : /\ reads[i] \in ReadRec /\ reads[i].line \in Lines
                                    /\ reads[i].owner \in {"Miss", "Store"}
         /\ \A i \in DOMAIN writes : /\ writes[i] \in WriteRec /\ writes[i].way \in 0..Ways
                                     /\ writes[i].line \in Lines \cup {ZeroLine}
                                     /\ Ub(writes[i].line) => writes[i].line \in Lines
         /\ \A i \in DOMAIN direct : /\ direct[i] \in DirectRec /\ direct[i].line \in Lines
                                     /\ direct[i].request \in Requests /\ direct[i].bytes \in Data
         /\ \A l \in Lines : \A w \in 0..Ways : WriteOf(l, w) \in WriteRec
         /\ \A w \in 0..Ways : WriteOf(ZeroLine, w) \in WriteRec
         /\ \A l \in Lines : \A o \in {"Miss", "Store"} : ReadOf(l, o) \in ReadRec
<1>1. /\ \A i \in DOMAIN reads : reads[i] \in ReadRec
      /\ \A i \in DOMAIN writes : writes[i] \in WriteRec
      /\ \A i \in DOMAIN direct : direct[i] \in DirectRec
  <2> HIDE DEF ReadRec, WriteRec, DirectRec
  <2> QED BY DEF Types, ReadT, WriteT, DirectT
<1>2. \A i \in DOMAIN reads : reads[i].line \in Lines /\ reads[i].owner \in {"Miss", "Store"}
  BY <1>1 DEF ReadRec
<1>3. \A i \in DOMAIN writes : writes[i].way \in 0..Ways /\ writes[i].line \in Lines \cup {ZeroLine}
  BY <1>1 DEF WriteRec
<1> HIDE DEF Data, Requests
<1>4. \A i \in DOMAIN direct : /\ direct[i].line \in Lines
                               /\ direct[i].request \in Requests /\ direct[i].bytes \in Data
  BY <1>1 DEF DirectRec
<1>5. /\ \A l \in Lines : \A w \in 0..Ways : WriteOf(l, w) \in WriteRec
      /\ \A w \in 0..Ways : WriteOf(ZeroLine, w) \in WriteRec
  BY DEF WriteOf, WriteRec
<1>6. \A l \in Lines : \A o \in {"Miss", "Store"} : ReadOf(l, o) \in ReadRec
  BY DEF ReadOf, ReadRec
<1> QED BY <1>1, <1>2, <1>3, <1>4, <1>5, <1>6, LineFacts

\* The oldest request in flight is one of the queue.
LEMMA QueueHead ==
  ASSUME NEW q, NEW S, q \in Seq(S), NEW m, InFlight(q, m) # {}
  PROVE  Min(InFlight(q, m)) \in InFlight(q, m) /\ InFlight(q, m) \subseteq DOMAIN q
<1>1. InFlight(q, m) \subseteq DOMAIN q /\ DOMAIN q \subseteq Nat
  BY DEF InFlight
<1> QED BY <1>1, MinFacts

\* The acknowledgement of a UB write keeps the types.
LEMMA UbWriteTyped ==
  ASSUME Types, UbWriteResponse
  PROVE  Types'
<1> DEFINE i == Min(InFlight(writes, "Ub"))
           line == writes[i].line
           entry == StoreEntry(line)
<1> HIDE DEF StoreRec, Data
<1>1. i \in DOMAIN writes /\ Ub(line)
  <2>1. InFlight(writes, "Ub") # {} /\ writes \in Seq(WriteRec)
    BY DEF UbWriteResponse, Types, WriteT
  <2>2. i \in InFlight(writes, "Ub")
    BY <2>1, QueueHead
  <2> HIDE DEF i
  <2> QED BY <2>2 DEF InFlight, Ub
<1>2. line \in Lines
  BY <1>1, QueueItems
<1>3. RemoveAt(writes, i) \in Seq(WriteRec)
  BY <1>1, RemoveFacts DEF Types, WriteT
<1>4. PhaseT'
  BY NextPhase, PhaseFacts DEF UbWriteResponse
<1>5. WriteT'
  BY <1>3 DEF UbWriteResponse, WriteT
<1>6. CASE HasStore(line)
  <2>1. /\ memory' = [memory EXCEPT ![line] = Merge(entry, @)]
        /\ done' = done \cup ToSet(entry.requests) \cup MissRequests(line)
        /\ stores' = RemoveAt(stores, StoreIndex(line))
        /\ misses' = Drop(misses, line)
        /\ UNCHANGED <<pipeVars, ops, lookup, direct, reads, cache, evict, events, maint, raced, failure>>
    BY <1>6 DEF UbWriteResponse, Complete
  <2> HIDE DEF i
  <2>2. StoreT'
    BY <1>6, <2>1, StoreFacts, RemoveFacts DEF Types, StoreT
  <2>3. MissT'
    <3>1. /\ DOMAIN Drop(misses, line) = DOMAIN misses \ {line}
          /\ Drop(misses, line) \in [DOMAIN Drop(misses, line) -> MissRec]
      <4>1. misses \in [DOMAIN misses -> MissRec]
        BY DEF Types, MissT
      <4> HIDE DEF line
      <4> QED BY <4>1, DropFacts
    <3> QED BY <2>1, <3>1 DEF Types, MissT
  <2>4. MemoryT'
    <3>1. memory[line] \in Data /\ Merge(entry, memory[line]) \in Data
      BY <1>2, <1>6, MergeTyped, StoreFacts DEF Types, MemoryT
    <3> QED BY <1>2, <2>1, <3>1 DEF Types, MemoryT
  <2>5. DoneT'
    BY <1>6, <2>1, RequestSets DEF Types, DoneT
  <2> QED BY <1>4, <1>5, <2>1, <2>2, <2>3, <2>4, <2>5, TypeFrames DEF Types, events, maint, pipeVars
<1>7. CASE ~HasStore(line)
  <2>1. /\ memory' = [memory EXCEPT ![line] = cache[FindWay(line)].data]
        /\ FindWay(line) # 0
        /\ UNCHANGED <<pipeVars, ops, lookup, buffers, reads, cache, evict, events, maint, outcome,
                           raced, failure>>
    BY <1>7 DEF UbWriteResponse
  <2> HIDE DEF i
  <2>4. MemoryT'
    <3>1. cache[FindWay(line)].data \in Data
      BY <2>1, TagSearch, WayTyped
    <3> QED BY <1>2, <2>1, <3>1 DEF Types, MemoryT
  <2> QED BY <1>4, <1>5, <2>1, <2>4, TypeFrames DEF Types, buffers, events, maint, outcome, pipeVars
<1> QED BY <1>6, <1>7

\* A read response by its parts: what is merged, evicted and queued.
Merged(i) == IF HasStore(reads[i].line) THEN Merge(StoreEntry(reads[i].line), memory[reads[i].line])
                                        ELSE memory[reads[i].line]
Refills(i) == External(reads[i].line) \/ CacheUb
Evicts(i, v) == Refills(i) /\ NeedsWriteback(v)
WritesBack(i, v) == IF Evicts(i, v) THEN <<WriteOf(cache[v].line, 0)>> ELSE <<>>
WritesThrough(i) == IF HasStore(reads[i].line) /\ Ub(reads[i].line)
                    THEN <<WriteOf(reads[i].line, 0)>> ELSE <<>>
Serves(i) == reads[i].owner = "Miss" \/ External(reads[i].line)

Readied(i) == Filled(StoreEntry(reads[i].line), Merged(i), ~(reads[i].owner = "Miss"))

\* complete_miss_read and complete_store_read, variable by variable.
LEMMA ReadResponseParts ==
  ASSUME NEW i, NEW v, ReadResponse(i, v)
  PROVE  LET line == reads[i].line
             entry == StoreEntry(line)
         IN  /\ Owned(reads[i])
             /\ cache' = IF Refills(i) THEN Install(v, line, Merged(i), External(line) /\ HasStore(line))
                                       ELSE cache
             /\ evict' = IF Evicts(i, v) THEN Put(evict, cache[v].line[2], cache[v].data) ELSE evict
             /\ writes' = writes \o WritesBack(i, v) \o WritesThrough(i)
             /\ results' = LoadResults(IF Serves(i) THEN MissRequests(line) ELSE {},
                                       IF reads[i].owner = "Miss" THEN memory[line] ELSE Merged(i))
             /\ done' = done \cup (IF HasStore(line) /\ External(line) THEN ToSet(entry.requests) ELSE {})
                             \cup (IF Serves(i) THEN MissRequests(line) ELSE {})
             /\ misses' = IF Serves(i) THEN Drop(misses, line) ELSE misses
             /\ ~HasStore(line) => stores' = stores
             /\ HasStore(line) /\ External(line) => stores' = RemoveAt(stores, StoreIndex(line))
             /\ HasStore(line) /\ ~External(line) =>
                  stores' = [stores EXCEPT ![StoreIndex(line)] = Readied(i)]
             /\ reads' = RemoveAt(reads, i)
             /\ raced' = (raced \/ (Refills(i) /\ BeingWritten(v)))
             /\ UNCHANGED <<pipeVars, ops, lookup, direct, memory, events, maint, failure>>
<1> HIDE DEF pipeVars, events, maint
<1>1. CASE HasStore(reads[i].line)
  <2>1. CASE External(reads[i].line)
    BY <1>1, <2>1 DEF ReadResponse, Merged, Refills, Evicts, WritesBack, WritesThrough, Serves, Complete
  <2>2. CASE ~External(reads[i].line)
    <3>1. stores' = [stores EXCEPT ![StoreIndex(reads[i].line)] = Readied(i)]
      BY <1>1, <2>2 DEF ReadResponse, Merged, Readied
    <3> HIDE DEF Readied
    <3> QED BY <1>1, <2>2, <3>1
        DEF ReadResponse, Merged, Refills, Evicts, WritesBack, WritesThrough, Serves, Complete
  <2> QED BY <2>1, <2>2
<1>2. CASE ~HasStore(reads[i].line)
  BY <1>2 DEF ReadResponse, Merged, Refills, Evicts, WritesBack, WritesThrough, Serves, Complete
<1> QED BY <1>1, <1>2

\* merge_line fills the entry.
LEMMA StoreReady ==
  ASSUME NEW e \in StoreRec, NEW d \in Data, NEW b \in BOOLEAN
  PROVE  /\ Filled(e, d, b) \in StoreRec
         /\ Filled(e, d, b).line = e.line /\ Filled(e, d, b).state = "Ready"
         /\ Filled(e, d, b).bytes = d /\ Filled(e, d, b).valid = Offsets
         /\ Filled(e, d, b).requests = e.requests /\ Filled(e, d, b).hit = e.hit
<1> HIDE DEF Data, Requests
<1> QED BY DEF StoreRec, Filled

\* install replaces one way.
LEMMA InstallTyped ==
  ASSUME CacheT, NEW v \in 1..Ways, NEW l \in Lines, NEW d \in Data, NEW b \in BOOLEAN
  PROVE  /\ Install(v, l, d, b) \in [1..Ways -> WayRec]
         /\ Install(v, l, d, b)[v] = [line |-> l, valid |-> TRUE, dirty |-> b, data |-> d]
         /\ \A w \in 1..Ways : w # v => Install(v, l, d, b)[w] = cache[w]
<1>1. [line |-> l, valid |-> TRUE, dirty |-> b, data |-> d] \in WayRec
  <2> HIDE DEF Data
  <2> QED BY DEF WayRec
<1> HIDE DEF WayRec
<1> QED BY <1>1 DEF CacheT, Install

\* A read response keeps the types.
LEMMA ReadResponseTyped ==
  ASSUME Types, NEW i \in DOMAIN reads, NEW v \in 1..Ways, ReadResponse(i, v), PhaseT'
  PROVE  Types'
<1> DEFINE line == reads[i].line
<1> HIDE DEF StoreRec, Data, ReadRec, WriteRec, MissRec, WayRec
<1>0. /\ cache' = IF Refills(i) THEN Install(v, line, Merged(i), External(line) /\ HasStore(line))
                               ELSE cache
      /\ evict' = IF Evicts(i, v) THEN Put(evict, cache[v].line[2], cache[v].data) ELSE evict
      /\ writes' = writes \o WritesBack(i, v) \o WritesThrough(i)
      /\ done' = done \cup (IF HasStore(line) /\ External(line) THEN ToSet(StoreEntry(line).requests) ELSE {})
                      \cup (IF Serves(i) THEN MissRequests(line) ELSE {})
      /\ misses' = IF Serves(i) THEN Drop(misses, line) ELSE misses
      /\ reads' = RemoveAt(reads, i)
  BY ReadResponseParts
<1>s. /\ ~HasStore(line) => stores' = stores
      /\ HasStore(line) /\ External(line) => stores' = RemoveAt(stores, StoreIndex(line))
      /\ HasStore(line) /\ ~External(line) =>
           stores' = [stores EXCEPT ![StoreIndex(line)] = Readied(i)]
  BY ReadResponseParts
<1>u. /\ raced' = (raced \/ (Refills(i) /\ BeingWritten(v)))
      /\ UNCHANGED <<pipeVars, ops, lookup, direct, memory, events, maint, failure>>
  BY ReadResponseParts
<1>1. line \in Lines /\ reads[i].owner \in {"Miss", "Store"}
  BY QueueItems
<1>2. memory[line] \in Data /\ Merged(i) \in Data
  <2>1. memory[line] \in Data
    BY <1>1 DEF Types, MemoryT
  <2>2. HasStore(line) => Merge(StoreEntry(line), memory[line]) \in Data
    BY <2>1, MergeTyped, StoreFacts DEF Types
  <2> QED BY <2>1, <2>2 DEF Merged
<1>3. CacheT'
  <2>1. (External(line) /\ HasStore(line)) \in BOOLEAN
    BY DEF External, HasStore
  <2>2. CacheT
    BY DEF Types
  <2>3. Install(v, line, Merged(i), External(line) /\ HasStore(line)) \in [1..Ways -> WayRec]
    BY <1>1, <1>2, <2>1, <2>2, InstallTyped
  <2> QED BY <1>0, <2>2, <2>3 DEF CacheT
<1>4. EvictT'
  <2> DEFINE a == cache[v].line[2]
             d == cache[v].data
  <2>1. a \in Nat /\ d \in Data
    BY WayTyped
  <2>2. evict \in [DOMAIN evict -> Data] /\ DOMAIN evict \subseteq Nat
    BY DEF Types, EvictT
  <2>4. evict' = IF Evicts(i, v) THEN Put(evict, a, d) ELSE evict
    BY <1>0
  <2> HIDE DEF a, d
  <2>3. /\ DOMAIN Put(evict, a, d) = DOMAIN evict \cup {a}
        /\ Put(evict, a, d) \in [DOMAIN Put(evict, a, d) -> Data]
    <3>1. Put(evict, a, d) = [l \in DOMAIN evict \cup {a} |-> IF l = a THEN d ELSE evict[l]]
      BY DEF Put
    <3>2. \A l \in DOMAIN evict : evict[l] \in Data
      BY <2>2
    <3>3. Put(evict, a, d) \in [DOMAIN evict \cup {a} -> Data]
      BY <2>1, <3>1, <3>2
    <3>4. DOMAIN Put(evict, a, d) = DOMAIN evict \cup {a}
      BY <3>1
    <3> QED BY <3>3, <3>4
  <2> QED BY <2>1, <2>2, <2>3, <2>4 DEF EvictT
<1>5. WriteT'
  <2>1. WriteOf(cache[v].line, 0) \in WriteRec /\ WriteOf(line, 0) \in WriteRec
    <3>1. 0 \in 0..Ways
      BY LsuAssumption
    <3> QED BY <1>1, <3>1, WayTyped, QueueItems
  <2>2. WritesBack(i, v) \in Seq(WriteRec) /\ WritesThrough(i) \in Seq(WriteRec)
    BY <2>1 DEF WritesBack, WritesThrough
  <2>3. writes \in Seq(WriteRec)
    BY DEF Types, WriteT
  <2>4. writes \o WritesBack(i, v) \o WritesThrough(i) \in Seq(WriteRec)
    BY <2>2, <2>3
  <2> QED BY <1>0, <2>4 DEF WriteT
<1>6. DoneT'
  BY <1>0, RequestSets DEF Types, DoneT
<1>7. MissT'
  <2>1. misses \in [DOMAIN misses -> MissRec] /\ DOMAIN misses \subseteq Lines
    BY DEF Types, MissT
  <2>2. /\ DOMAIN Drop(misses, line) = DOMAIN misses \ {line}
        /\ Drop(misses, line) \in [DOMAIN Drop(misses, line) -> MissRec]
    <3> HIDE DEF line
    <3> QED BY <2>1, DropFacts
  <2> QED BY <1>0, <2>1, <2>2 DEF MissT
<1>8. StoreT'
  <2>1. stores \in Seq(StoreRec)
    BY DEF Types, StoreT
  <2>2. CASE ~HasStore(line)
    BY <1>s, <2>1, <2>2 DEF StoreT
  <2>3. CASE HasStore(line) /\ External(line)
    BY <1>s, <2>1, <2>3, StoreFacts, RemoveFacts DEF Types, StoreT
  <2>4. CASE HasStore(line) /\ ~External(line)
    <3>1. StoreIndex(line) \in DOMAIN stores /\ StoreEntry(line) \in StoreRec
      BY <2>4, StoreFacts DEF Types
    <3>2. Readied(i) \in StoreRec
      <4>1. (~(reads[i].owner = "Miss")) \in BOOLEAN
        OBVIOUS
      <4> QED BY <1>2, <3>1, <4>1, StoreReady DEF Readied
    <3>3. stores' = [stores EXCEPT ![StoreIndex(line)] = Readied(i)]
      BY <1>s, <2>4
    <3> QED BY <2>1, <3>1, <3>2, <3>3, SeqUpdate DEF StoreT
  <2> QED BY <2>2, <2>3, <2>4
<1>9. ReadT'
  BY <1>0, RemoveFacts DEF Types, ReadT
<1>10. EventT'
  <2>1. raced' \in BOOLEAN
    BY <1>u DEF BeingWritten, Refills, Types, EventT, External
  <2> QED BY <1>u, <2>1 DEF Types, EventT, events, maint
<1> QED
  BY <1>u, <1>3, <1>4, <1>5, <1>6, <1>7, <1>8, <1>9, <1>10, TypeFrames DEF Types, pipeVars

\* Read responses of both memories keep the types.
LEMMA ReadTyped ==
  ASSUME Types, UbReadResponse \/ \E i \in DOMAIN reads : ExternalReadResponse(i)
  PROVE  Types'
<1>1. CASE UbReadResponse
  <2>1. InFlight(reads, "Ub") # {} /\ reads \in Seq(ReadRec)
    BY <1>1 DEF UbReadResponse, Types, ReadT
  <2>2. Min(InFlight(reads, "Ub")) \in DOMAIN reads
    BY <2>1, QueueHead
  <2>3. PhaseT'
    BY <1>1, NextPhase, PhaseFacts DEF UbReadResponse
  <2> QED BY <1>1, <2>2, <2>3, ReadResponseTyped, VictimFacts DEF UbReadResponse
<1>2. ASSUME NEW i \in DOMAIN reads, ExternalReadResponse(i) PROVE Types'
  <2>3. PhaseT'
    BY <1>2, NextPhase, PhaseFacts DEF ExternalReadResponse
  <2> QED BY <1>2, <2>3, ReadResponseTyped, VictimFacts DEF ExternalReadResponse
<1> QED BY <1>1, <1>2

\* The acknowledgement of an external write keeps the types.
LEMMA ExternalWriteTyped ==
  ASSUME Types, NEW i \in DOMAIN writes, ExternalWriteResponse(i)
  PROVE  Types'
<1> DEFINE line == writes[i].line
           way == writes[i].way
<1> HIDE DEF Data, WayRec, WriteRec, DirectRec
<1>1. way \in 0..Ways /\ line \in Lines \cup {ZeroLine}
  BY QueueItems
<1>2. PhaseT'
  BY NextPhase, PhaseFacts DEF ExternalWriteResponse
<1>3. WriteT'
  <2>1. writes' = RemoveAt(writes, i)
    BY DEF ExternalWriteResponse
  <2> QED BY <2>1, RemoveFacts DEF Types, WriteT
<1>4. ASSUME NEW d \in Data, memory' = [memory EXCEPT ![line] = d] PROVE MemoryT'
  BY <1>4 DEF Types, MemoryT
<1>5. CASE way # 0
  <2>1. /\ memory' = [memory EXCEPT ![line] = cache[way].data]
        /\ cache' = [cache EXCEPT ![way].line = ZeroLine, ![way].valid = TRUE, ![way].dirty = FALSE]
        /\ UNCHANGED <<pipeVars, ops, lookup, buffers, reads, evict, events, maint, outcome, raced,
                           failure>>
    BY <1>5 DEF ExternalWriteResponse
  <2>2. way \in 1..Ways
    BY <1>1, <1>5, LsuAssumption
  <2>3. cache[way].data \in Data /\ cache[way] \in WayRec
    BY <2>2, WayTyped
  <2>4. CacheT'
    <3> DEFINE c == [cache[way] EXCEPT !.line = ZeroLine, !.valid = TRUE, !.dirty = FALSE]
    <3>1. c \in WayRec
      BY <2>3 DEF WayRec
    <3>2. cache \in [1..Ways -> WayRec]
      BY DEF Types, CacheT
    <3>3. cache' = [cache EXCEPT ![way] = c]
      BY <2>1, <2>2, <3>2
    <3> HIDE DEF c
    <3> QED BY <3>1, <3>2, <3>3, UpdateTyped DEF CacheT
  <2>5. MemoryT'
    BY <1>4, <2>1, <2>3
  <2> QED BY <1>2, <1>3, <2>1, <2>4, <2>5, TypeFrames DEF Types, buffers, events, maint, outcome, pipeVars
<1>6. CASE way = 0 /\ line[2] \in DOMAIN evict
  <2>1. /\ memory' = [memory EXCEPT ![line] = evict[line[2]]]
        /\ evict' = Drop(evict, line[2])
        /\ UNCHANGED <<pipeVars, ops, lookup, buffers, reads, cache, events, maint, outcome, raced,
                           failure>>
    BY <1>6 DEF ExternalWriteResponse
  <2> DEFINE a == line[2]
  <2>2. evict[a] \in Data
    BY <1>6 DEF Types, EvictT
  <2>3. MemoryT'
    BY <1>4, <2>1, <2>2
  <2>4. EvictT'
    <3>1. evict \in [DOMAIN evict -> Data] /\ DOMAIN evict \subseteq Nat /\ evict' = Drop(evict, a)
      BY <2>1 DEF Types, EvictT
    <3> HIDE DEF a
    <3>2. DOMAIN Drop(evict, a) = DOMAIN evict \ {a} /\ Drop(evict, a) \in [DOMAIN Drop(evict, a) -> Data]
      BY <3>1, DropFacts
    <3> QED BY <3>1, <3>2 DEF EvictT
  <2> QED BY <1>2, <1>3, <2>1, <2>3, <2>4, TypeFrames DEF Types, buffers, events, maint, outcome, pipeVars
<1>7. CASE way = 0 /\ line[2] \notin DOMAIN evict
  <2>1. /\ HasDirect(line)
        /\ memory' = [memory EXCEPT ![line] = direct[DirectIndex(line)].bytes]
        /\ done' = done \cup {direct[DirectIndex(line)].request}
        /\ direct' = RemoveAt(direct, DirectIndex(line))
        /\ UNCHANGED <<pipeVars, ops, lookup, misses, stores, reads, cache, evict, events, maint,
                           results, raced, failure>>
    BY <1>7 DEF ExternalWriteResponse
  <2>2. DirectIndex(line) \in DOMAIN direct
    BY <2>1, DirectFirst DEF Types
  <2>3. direct[DirectIndex(line)].bytes \in Data /\ direct[DirectIndex(line)].request \in Requests
    BY <2>2, QueueItems
  <2>4. MemoryT'
    BY <1>4, <2>1, <2>3
  <2>5. DirectT'
    BY <2>1, <2>2, RemoveFacts DEF Types, DirectT
  <2>6. DoneT'
    BY <2>1, <2>3 DEF Types, DoneT
  <2> QED BY <1>2, <1>3, <2>1, <2>4, <2>5, <2>6, TypeFrames DEF Types, events, maint, pipeVars
<1> QED BY <1>5, <1>6, <1>7

\* process_direct_stores keeps the types.
LEMMA ProcessTyped ==
  ASSUME Types, ProcessDirectStores
  PROVE  Types'
<1> HIDE DEF WriteRec, DirectRec
<1>1. PhaseT'
  BY NextPhase, PhaseFacts DEF ProcessDirectStores
<1>2. WriteT'
  <2> DEFINE new == [i \in DOMAIN direct |-> WriteOf(direct[i].line, 0)]
  <2>1. \A i \in DOMAIN direct : new[i] \in WriteRec
    <3>1. 0 \in 0..Ways
      BY LsuAssumption
    <3> QED BY <3>1, QueueItems
  <2>2. direct \in Seq(DirectRec) /\ writes \in Seq(WriteRec)
    BY DEF Types, DirectT, WriteT
  <2>3. DOMAIN direct = 1..Len(direct) /\ Len(direct) \in Nat
    BY <2>2
  <2>4. new \in [1..Len(direct) -> WriteRec]
    BY <2>1, <2>3
  <2>5. writes' = writes \o new
    BY DEF ProcessDirectStores
  <2> HIDE DEF new
  <2>6. new \in Seq(WriteRec)
    BY <2>3, <2>4
  <2> QED BY <2>2, <2>5, <2>6, ConcatFacts DEF WriteT
<1>3. EventT'
  <2>1. raced' \in BOOLEAN /\ directEvent' = FALSE
    BY DEF ProcessDirectStores, Types, EventT
  <2> QED BY <2>1 DEF ProcessDirectStores, Types, EventT, maint
<1> QED BY <1>1, <1>2, <1>3, TypeFrames DEF Types, ProcessDirectStores, buffers, storage, outcome, pipeVars

\* A due entry is flushed into the way that holds its line now.
LEMMA FlushHitTyped ==
  ASSUME Types, NEW i \in DOMAIN stores, FlushHit(i)
  PROVE  Types'
<1> DEFINE e == stores[i]
           way == FindWay(e.line)
           d == lookup[Head(e.requests) + 1]
<1> HIDE DEF Data, WayRec, WriteRec, StoreRec, Requests
<1>1. e \in StoreRec /\ e.line \in Lines
  <2>1. e \in StoreRec
    BY DEF Types, StoreT
  <2> QED BY <2>1, StoreRecUpdates
<1>2. way \in 1..Ways
  BY TagSearch DEF FlushHit
<1>3. PhaseT'
  BY DEF FlushHit, Types, PhaseT
<1>4. CacheT'
  <2> DEFINE m == Merge(e, cache[way].data)
             c == [cache[way] EXCEPT !.data = m]
             written == [cache EXCEPT ![way] = c]
  <2>1. m \in Data /\ cache[way] \in WayRec
    BY <1>1, <1>2, MergeTyped, WayTyped
  <2>2. c \in WayRec
    <3> HIDE DEF m
    <3> QED BY <2>1 DEF WayRec
  <2>3. cache \in [1..Ways -> WayRec]
    BY DEF Types, CacheT
  <2>4. [cache EXCEPT ![way].data = Merge(e, @)] = written
    BY <1>2, <2>3
  <2> HIDE DEF c
  <2>5. written \in [1..Ways -> WayRec]
    BY <1>2, <2>2, <2>3
  <2> HIDE DEF written
  <2>6. \A w \in 1..Ways : [written[w] EXCEPT !.dirty = TRUE] \in WayRec
    <3>1. \A w \in 1..Ways : written[w] \in WayRec
      BY <2>5
    <3> QED BY <3>1 DEF WayRec
  <2>7. [written EXCEPT ![d].dirty = TRUE] \in [1..Ways -> WayRec]
    <3> HIDE DEF d
    <3>1. CASE d \in 1..Ways
      BY <2>5, <2>6, <3>1
    <3>2. CASE d \notin 1..Ways
      BY <2>5, <3>2
    <3> QED BY <3>1, <3>2
  <2>8. cache' = IF External(e.line) THEN [written EXCEPT ![d].dirty = TRUE] ELSE written
    BY <2>4 DEF FlushHit, FlushedCache
  <2> QED BY <2>5, <2>7, <2>8 DEF CacheT
<1>5. WriteT'
  <2>1. 0 \in 0..Ways
    BY LsuAssumption
  <2>2. WriteOf(e.line, 0) \in WriteRec
    BY <1>1, <2>1, QueueItems
  <2>3. writes' = IF Ub(e.line) THEN Append(writes, WriteOf(e.line, 0)) ELSE writes
    BY DEF FlushHit
  <2> QED BY <2>2, <2>3, AppendFacts DEF Types, WriteT
<1>6. StoreT'
  <2>1. stores' = RemoveAt(stores, i)
    BY DEF FlushHit
  <2> QED BY <2>1, RemoveFacts DEF Types, StoreT
<1>7. DoneT'
  <2>1. e.requests \in Seq(Requests)
    BY <1>1, StoreRecUpdates
  <2>2. ToSet(e.requests) \subseteq Requests
    BY <2>1 DEF ToSet
  <2> QED BY <2>2 DEF FlushHit, Types, DoneT
<1>8. EventT'
  <2>1. raced' \in BOOLEAN
    BY DEF FlushHit, Stale, Types, EventT
  <2> QED BY <2>1 DEF FlushHit, Types, EventT, events, maint
<1> QED BY <1>3, <1>4, <1>5, <1>6, <1>7, <1>8, TypeFrames DEF FlushHit, Types, pipeVars

\* A flushed miss keeps the types.
LEMMA FlushMissTyped ==
  ASSUME Types, NEW i \in DOMAIN stores, FlushMiss(i)
  PROVE  Types'
<1> DEFINE e == stores[i]
<1> HIDE DEF Data, WayRec, WriteRec, StoreRec, ReadRec
<1>1. e \in StoreRec /\ e.line \in Lines
  <2>1. e \in StoreRec
    BY DEF Types, StoreT
  <2> QED BY <2>1, StoreRecUpdates
<1>2. PhaseT'
  BY DEF FlushMiss, Types, PhaseT
<1>3. StoreT'
  <2> DEFINE f == [e EXCEPT !.state = "Fetching"]
  <2>1. f \in StoreRec
    BY <1>1, StoreRecUpdates
  <2>2. stores' = [stores EXCEPT ![i] = f]
    BY DEF FlushMiss
  <2> HIDE DEF f
  <2> QED BY <2>1, <2>2, SeqUpdate DEF Types, StoreT
<1>4. WriteT'
  <2>1. 0 \in 0..Ways
    BY LsuAssumption
  <2>2. WriteOf(e.line, 0) \in WriteRec
    BY <1>1, <2>1, QueueItems
  <2>3. writes' \in {writes, Append(writes, WriteOf(e.line, 0))}
    BY DEF FlushMiss
  <2> QED BY <2>2, <2>3, AppendFacts DEF Types, WriteT
<1>5. ReadT'
  <2>1. ReadOf(e.line, "Store") \in ReadRec
    BY <1>1, QueueItems
  <2>2. reads' \in {reads, Append(reads, ReadOf(e.line, "Store"))}
    BY DEF FlushMiss
  <2> QED BY <2>1, <2>2, AppendFacts DEF Types, ReadT
<1>6. EventT'
  <2>1. raced' \in BOOLEAN
    BY DEF FlushMiss, Types, EventT
  <2> QED BY <2>1 DEF FlushMiss, Types, EventT, events, maint
<1> QED BY <1>2, <1>3, <1>4, <1>5, <1>6, TypeFrames DEF FlushMiss, Types, storage, outcome, pipeVars

\* A request that reaches M2, with what AtM2 leaves alone.
LEMMA AtM2Facts ==
  ASSUME Types, IInv, NEW kinds, AtM2(kinds)
  PROVE  /\ PhaseT' /\ OpsT' /\ failure' = failure
         /\ PipeFacts /\ consumed < admitted /\ consumed < issued
         /\ Op(consumed).kind \in kinds /\ ~Hazard(consumed)
         /\ AdvanceM2 /\ UNCHANGED <<ops, lookup>>
         /\ Op(consumed).line \in Lines /\ Op(consumed).bytes \subseteq Offsets
         /\ consumed \in Requests /\ consumed + 1 \in 0..MaxRequests
         /\ lookup[consumed + 1] \in NotLooked..Ways
<1>1. PhaseT'
  BY NextPhase, PhaseFacts DEF AtM2
<1>2. AdvanceM2 /\ UNCHANGED <<ops, lookup>> /\ failure' = failure
  BY DEF AtM2
<1>3. admitted' = admitted /\ consumed < issued
  BY <1>2, M2Request
<1>4. OpsT'
  BY <1>2, <1>3, TypeFrames DEF Types
<1>5. PipeFacts
  BY PipeNumbers
<1>6. consumed < admitted /\ consumed \in Nat
  BY <1>3, <1>5 DEF PipeFacts
<1> QED BY <1>1, <1>2, <1>3, <1>4, <1>5, <1>6, OpFacts DEF AtM2, Types

\* A load or preload that hits keeps the types.
LEMMA HitTyped ==
  ASSUME Types, IInv, LoadHit(consumed) \/ PreloadHit(consumed)
  PROVE  Types'
<1>1. AtM2({"load", "preload"})
  BY DEF LoadHit, PreloadHit, AtM2
<1>2. DoneT'
  <2>1. done' = done \cup {} \cup {consumed}
    BY DEF LoadHit, PreloadHit, Complete
  <2> QED BY <1>1, <2>1, AtM2Facts DEF Types, DoneT
<1>3. EventT'
  <2>1. raced' \in BOOLEAN
    BY DEF LoadHit, PreloadHit, Stale, Types, EventT
  <2> QED BY <2>1 DEF LoadHit, PreloadHit, Types, EventT, events, maint
<1>4. UNCHANGED <<buffers, queues, storage>>
  BY DEF LoadHit, PreloadHit
<1> QED BY <1>1, <1>2, <1>3, <1>4, AtM2Facts, TypeFrames DEF Types, buffers, queues, storage

\* A load that misses keeps the types.
LEMMA LoadMissTyped ==
  ASSUME Types, IInv, LoadMiss(consumed)
  PROVE  Types'
<1> DEFINE line == Op(consumed).line
           old == IF HasMiss(line) THEN misses[line] ELSE [state |-> "Idle", requests |-> <<>>]
           store == IF HasStore(line) THEN StoreEntry(line).state ELSE "none"
           new == [state |-> IF old.state = "Idle" /\ store = "Ready" THEN "Idle" ELSE "Fetching",
                   requests |-> Append(old.requests, consumed)]
<1> HIDE DEF Data, WayRec, WriteRec, StoreRec, ReadRec, Requests
<1>1. AtM2({"load", "preload"})
  BY DEF LoadMiss
<1>2. line \in Lines /\ consumed \in Requests
  BY <1>1, AtM2Facts
<1>3. MissT'
  <2>1. old \in MissRec
    <3>1. CASE HasMiss(line)
      <4>1. misses[line] \in MissRec
        <5> HIDE DEF MissRec
        <5> QED BY <3>1 DEF Types, MissT, HasMiss
      <4> QED BY <3>1, <4>1
    <3>2. CASE ~HasMiss(line)
      <4>1. <<>> \in Seq(Requests)
        OBVIOUS
      <4> QED BY <3>2, <4>1 DEF MissRec
    <3> QED BY <3>1, <3>2
  <2>2. new \in MissRec
    <3>1. old.requests \in Seq(Requests)
      <4> HIDE DEF old
      <4> QED BY <2>1 DEF MissRec
    <3> HIDE DEF old, store
    <3>2. Append(old.requests, consumed) \in Seq(Requests)
      BY <1>2, <3>1
    <3> QED BY <3>2 DEF MissRec
  <2>3. misses' = Put(misses, line, new)
    BY DEF LoadMiss
  <2>4. misses \in [DOMAIN misses -> MissRec] /\ DOMAIN misses \subseteq Lines
    BY DEF Types, MissT
  <2> HIDE DEF new, line, MissRec
  <2>5. /\ DOMAIN Put(misses, line, new) = DOMAIN misses \cup {line}
        /\ Put(misses, line, new) \in [DOMAIN Put(misses, line, new) -> MissRec]
    <3>1. Put(misses, line, new)
            = [l \in DOMAIN misses \cup {line} |-> IF l = line THEN new ELSE misses[l]]
      BY DEF Put
    <3>2. \A l \in DOMAIN misses : misses[l] \in MissRec
      BY <2>4
    <3>3. Put(misses, line, new) \in [DOMAIN misses \cup {line} -> MissRec]
      BY <2>2, <3>1, <3>2
    <3> QED BY <3>1, <3>3
  <2> QED BY <1>2, <2>3, <2>4, <2>5 DEF MissT
<1>4. StoreT'
  <2> DEFINE k == StoreIndex(line)
             f == [stores[k] EXCEPT !.state = "Fetching"]
  <2>1. stores' = stores \/ (HasStore(line) /\ stores' = [stores EXCEPT ![k] = f])
    BY DEF LoadMiss
  <2>2. CASE HasStore(line) /\ stores' = [stores EXCEPT ![k] = f]
    <3>1. k \in DOMAIN stores /\ stores[k] \in StoreRec
      BY <2>2, StoreFacts DEF Types
    <3>2. f \in StoreRec
      BY <3>1, StoreRecUpdates
    <3> HIDE DEF f, k
    <3> QED BY <2>2, <3>1, <3>2, SeqUpdate DEF Types, StoreT
  <2> QED BY <2>1, <2>2 DEF Types, StoreT
<1>5. ReadT'
  <2>1. ReadOf(line, "Miss") \in ReadRec
    BY <1>2, QueueItems
  <2>2. reads' \in {reads, Append(reads, ReadOf(line, "Miss"))}
    BY DEF LoadMiss
  <2> QED BY <2>1, <2>2, AppendFacts DEF Types, ReadT
<1>6. EventT'
  <2>1. raced' \in BOOLEAN
    BY DEF LoadMiss, Stale, Types, EventT
  <2> QED BY <2>1 DEF LoadMiss, Types, EventT, events, maint
<1>7. UNCHANGED <<direct, writes, storage, outcome>>
  BY DEF LoadMiss
<1> QED BY <1>1, <1>3, <1>4, <1>5, <1>6, <1>7, AtM2Facts, TypeFrames DEF Types, storage, outcome

\* The entry a store joins or starts, with the store's bytes in it.
Fresh(id) == [line |-> Op(id).line, state |-> "Idle", hit |-> lookup[id + 1] # 0, forbidden |-> FALSE,
              remaining |-> Timeout, requests |-> <<>>, bytes |-> EmptyLine, valid |-> {}]
Into(id, e) == [e EXCEPT !.requests = Append(@, id),
                         !.bytes = [o \in Offsets |-> IF o \in Op(id).bytes THEN id + 1 ELSE @[o]],
                         !.valid = @ \cup Op(id).bytes]

\* A store joins an entry.
LEMMA IntoTyped ==
  ASSUME NEW id \in Requests, id + 1 \in 0..MaxRequests, Op(id).bytes \subseteq Offsets,
         NEW e \in StoreRec
  PROVE  /\ Into(id, e) \in StoreRec
         /\ Into(id, e).line = e.line /\ Into(id, e).state = e.state /\ Into(id, e).hit = e.hit
         /\ Into(id, e).requests = Append(e.requests, id)
         /\ Into(id, e).bytes = [o \in Offsets |-> IF o \in Op(id).bytes THEN id + 1 ELSE e.bytes[o]]
         /\ Into(id, e).valid = e.valid \cup Op(id).bytes
<1> HIDE DEF Requests
<1>1. Append(e.requests, id) \in Seq(Requests)
  <2>1. e.requests \in Seq(Requests)
    <3> HIDE DEF Data
    <3> QED BY DEF StoreRec
  <2> QED BY <2>1
<1>2. [o \in Offsets |-> IF o \in Op(id).bytes THEN id + 1 ELSE e.bytes[o]] \in Data
  BY StoreRecUpdates DEF Data
<1>3. e.valid \cup Op(id).bytes \in SUBSET Offsets
  <2>1. e.valid \subseteq Offsets
    <3> HIDE DEF Data
    <3> QED BY DEF StoreRec
  <2> HIDE DEF StoreRec
  <2> QED BY <2>1
<1> HIDE DEF Data
<1> QED BY <1>1, <1>2, <1>3 DEF Into, StoreRec

\* A new entry is empty.
LEMMA FreshTyped ==
  ASSUME NEW id, Op(id).line \in Lines
  PROVE  /\ Fresh(id) \in StoreRec
         /\ Fresh(id).line = Op(id).line /\ Fresh(id).state = "Idle"
         /\ Fresh(id).hit <=> lookup[id + 1] # 0
         /\ Fresh(id).requests = <<>> /\ Fresh(id).valid = {}
<1>1. EmptyLine \in Data /\ Timeout \in 0..Timeout
  BY MaxRequestsAssumption, LsuAssumption DEF Data, EmptyLine
<1>2. <<>> \in Seq(Requests)
  OBVIOUS
<1> HIDE DEF Data, Requests
<1> QED BY <1>1, <1>2 DEF Fresh, StoreRec

\* advance_store_data, for an old entry and a new one.
LEMMA StoreM2Parts ==
  ASSUME StoreM2(consumed)
  PROVE  /\ HasStore(Op(consumed).line) =>
              stores' = [stores EXCEPT ![StoreIndex(Op(consumed).line)]
                           = Into(consumed, StoreEntry(Op(consumed).line))]
         /\ ~HasStore(Op(consumed).line) => stores' = Append(stores, Into(consumed, Fresh(consumed)))
BY DEF StoreM2, Into, Fresh, StoreEntry

\* A store in M2 keeps the types.
LEMMA StoreM2Typed ==
  ASSUME Types, IInv, StoreM2(consumed)
  PROVE  Types'
<1> DEFINE line == Op(consumed).line
<1> HIDE DEF StoreRec, Requests
<1>1. AtM2({"store"})
  BY DEF StoreM2
<1>2. /\ line \in Lines /\ consumed \in Requests /\ consumed + 1 \in 0..MaxRequests
      /\ Op(consumed).bytes \subseteq Offsets
  BY <1>1, AtM2Facts
<1>3. StoreT'
  <2>1. CASE HasStore(line)
    <3>1. StoreIndex(line) \in DOMAIN stores /\ StoreEntry(line) \in StoreRec
      BY <2>1, StoreFacts DEF Types
    <3>2. Into(consumed, StoreEntry(line)) \in StoreRec
      BY <1>2, <3>1, IntoTyped
    <3> QED BY <2>1, <3>1, <3>2, StoreM2Parts, SeqUpdate DEF Types, StoreT
  <2>2. CASE ~HasStore(line)
    <3>1. Fresh(consumed) \in StoreRec
      BY <1>2, FreshTyped
    <3>2. Into(consumed, Fresh(consumed)) \in StoreRec
      BY <1>2, <3>1, IntoTyped
    <3> QED BY <2>2, <3>2, StoreM2Parts, AppendFacts DEF Types, StoreT
  <2> QED BY <2>1, <2>2
<1>4. EventT'
  <2>1. raced' \in BOOLEAN
    BY DEF StoreM2, Stale, Types, EventT
  <2> QED BY <2>1 DEF StoreM2, Types, EventT, maint
<1>5. UNCHANGED <<misses, direct, queues, storage, outcome>>
  BY DEF StoreM2
<1> QED BY <1>1, <1>3, <1>4, <1>5, AtM2Facts, TypeFrames DEF Types, queues, storage, outcome

\* A direct store keeps the types.
LEMMA DirectTyped ==
  ASSUME Types, IInv, DirectStoreM2(consumed)
  PROVE  Types'
<1> HIDE DEF Requests
<1>1. AtM2({"direct"})
  BY DEF DirectStoreM2
<1>2. DirectT'
  <2> DEFINE b == [o \in Offsets |-> IF o \in Op(consumed).bytes THEN consumed + 1 ELSE 0]
             d == [line |-> Op(consumed).line, request |-> consumed, bytes |-> b]
  <2>1. b \in Data
    <3>1. 0 \in 0..MaxRequests
      BY MaxRequestsAssumption
    <3> QED BY <1>1, <3>1, AtM2Facts DEF Data
  <2> HIDE DEF b, Data
  <2>2. d \in DirectRec
    BY <1>1, <2>1, AtM2Facts DEF DirectRec
  <2>3. direct' = Append(direct, d)
    BY DEF DirectStoreM2, b
  <2> HIDE DEF d, DirectRec
  <2> QED BY <2>2, <2>3, AppendFacts DEF Types, DirectT
<1>3. EventT'
  BY DEF DirectStoreM2, Types, EventT, maint
<1>4. UNCHANGED <<misses, stores, queues, storage, outcome>>
  BY DEF DirectStoreM2
<1> QED BY <1>1, <1>2, <1>3, <1>4, AtM2Facts, TypeFrames DEF Types, queues, storage, outcome

\* The writes of a clean: the dirty ways in increasing order.
CleanWays(id) == MaintenanceWays(id)
DirtyWays(id) == {w \in MaintenanceWays(id) : cache[w].valid /\ cache[w].dirty}
Increasing(order) == \A i, j \in DOMAIN order : i < j => order[i] < order[j]
WayWrites(order) == [i \in DOMAIN order |-> WriteOf(cache[order[i]].line, order[i])]
Invalidated(ways) == [w \in 1..Ways |-> [cache[w] EXCEPT !.valid = @ /\ w \notin ways]]

\* advance_maintenance_stage, variable by variable.
LEMMA CleanParts ==
  ASSUME Clean(consumed)
  PROVE  /\ AtM2({"clean"}) /\ ~CleanLost
         /\ cache' = Invalidated(MaintenanceWays(consumed))
         /\ \E order \in [1..Cardinality(DirtyWays(consumed)) -> DirtyWays(consumed)] :
              Increasing(order) /\ writes' = writes \o WayWrites(order)
         /\ maintActive' = (DirtyWays(consumed) # {} \/ Op(consumed).target = "Line")
         /\ maintRelease' = IF DirtyWays(consumed) # {} \/ Op(consumed).target = "Line"
                            THEN "next" ELSE maintRelease
         /\ done' = done \cup {consumed}
         /\ UNCHANGED <<buffers, reads, memory, evict, events, results, raced>>
BY DEF Clean, DirtyWays, Increasing, WayWrites, Invalidated

\* A clean works on ways of the cache.
LEMMA MaintenanceWaysFacts ==
  ASSUME Types, IInv, AtM2({"clean"})
  PROVE  /\ MaintenanceWays(consumed) \subseteq -1..Ways
         /\ DirtyWays(consumed) \subseteq MaintenanceWays(consumed)
         /\ lookup[consumed + 1] # NotLooked =>
              MaintenanceWays(consumed) \subseteq 1..Ways /\ DirtyWays(consumed) \subseteq 1..Ways
<1>1. lookup[consumed + 1] \in NotLooked..Ways /\ Ways \in Nat
  BY AtM2Facts, LsuAssumption
<1>2. MaintenanceWays(consumed) \subseteq {lookup[consumed + 1]} \cup 1..Ways
  BY DEF MaintenanceWays
<1>3. 0 \notin MaintenanceWays(consumed)
  BY <1>1 DEF MaintenanceWays
<1> QED BY <1>1, <1>2, <1>3 DEF DirtyWays, NotLooked

\* A clean keeps the types.
LEMMA CleanTyped ==
  ASSUME Types, IInv, LookedUpFirst, Clean(consumed)
  PROVE  Types'
<1> DEFINE dirty == DirtyWays(consumed)
<1> HIDE DEF Data, WayRec, WriteRec
<1>1. AtM2({"clean"})
  BY DEF Clean
<1>2. dirty \subseteq 1..Ways
  <2>1. consumed \in 0..issued - 1
    BY <1>1, AtM2Facts DEF PipeFacts
  <2> QED BY <1>1, <2>1, MaintenanceWaysFacts DEF LookedUpFirst
<1>3. CacheT'
  <2>1. \A w \in 1..Ways : [cache[w] EXCEPT !.valid = @ /\ w \notin MaintenanceWays(consumed)] \in WayRec
    <3>1. \A w \in 1..Ways : cache[w] \in WayRec
      BY WayTyped
    <3> QED BY <3>1 DEF WayRec
  <2>2. cache' = Invalidated(MaintenanceWays(consumed))
    BY CleanParts
  <2> QED BY <2>1, <2>2 DEF CacheT, Invalidated
<1>4. WriteT'
  <2>1. PICK order \in [1..Cardinality(dirty) -> dirty] : writes' = writes \o WayWrites(order)
    BY CleanParts
  <2>2. Cardinality(dirty) \in Nat
    <3>1. IsFiniteSet(1..Ways)
      <4>1. 1 \in Int /\ Ways \in Int
        BY LsuAssumption
      <4> QED BY <4>1, FS_Interval
    <3> QED BY <1>2, <3>1, FS_Subset, FS_CardinalityType
  <2>3. \A i \in 1..Cardinality(dirty) : WriteOf(cache[order[i]].line, order[i]) \in WriteRec
    <3> TAKE i \in 1..Cardinality(dirty)
    <3>1. order[i] \in 1..Ways
      BY <1>2, <2>1
    <3>2. cache[order[i]].line \in Lines \cup {ZeroLine} /\ order[i] \in 0..Ways
      BY <3>1, WayTyped, LsuAssumption
    <3> QED BY <3>2, QueueItems
  <2> DEFINE new == WayWrites(order)
             n == Cardinality(dirty)
  <2>4. DOMAIN order = 1..n
    BY <2>1
  <2>5. new \in [1..n -> WriteRec]
    BY <2>3, <2>4 DEF WayWrites
  <2> HIDE DEF new, n
  <2>6. n \in Nat
    BY <2>2 DEF n
  <2>7. new \in Seq(WriteRec)
    BY <2>5, <2>6
  <2>8. writes \in Seq(WriteRec) /\ writes' = writes \o new
    BY <2>1 DEF Types, WriteT, new
  <2> QED BY <2>7, <2>8, ConcatFacts DEF WriteT
<1>5. EventT'
  <2>1. maintActive' \in BOOLEAN /\ maintRelease' \in {"none", "next", "now"}
    BY CleanParts DEF Types, EventT
  <2> QED BY <2>1, CleanParts DEF Types, EventT, events
<1>6. DoneT'
  BY <1>1, AtM2Facts, CleanParts DEF Types, DoneT
<1>7. UNCHANGED <<buffers, reads, memory, evict>>
  BY CleanParts
<1> QED BY <1>1, <1>3, <1>4, <1>5, <1>6, <1>7, AtM2Facts, TypeFrames DEF Types, buffers

\* Replay, M1 and a blocked M0 leave the collections alone.
LEMMA StageTyped ==
  ASSUME Types, IInv, M1 \/ BlockM0 \/ \E stage \in {"M1", "M2"} : ReplayStage(stage)
  PROVE  Types'
<1>1. PhaseT'
  BY NextPhase, PhaseFacts DEF M1, BlockM0, ReplayStage
<1>2. /\ UNCHANGED <<ops, lookup, buffers, queues, storage, events, maint, outcome, raced>>
      /\ admitted' = admitted
  BY DEF M1, BlockM0, ReplayStage, AdvanceM1, HoldM0, Replay
<1> QED BY <1>1, <1>2, TypeFrames DEF Types, buffers, queues, storage, events, maint, outcome

\* A lookup yields a way or a miss.
LEMMA LookedUpTyped ==
  ASSUME Types, IInv, Evaluates("M0")
  PROVE  /\ LookedUp(issued) \in Seq(NotLooked..Ways) /\ Len(LookedUp(issued)) = Len(lookup)
         /\ LookedUp(issued)[issued + 1] \in 0..Ways
         /\ \A k \in 0..admitted - 1 : k # issued => LookedUp(issued)[k + 1] = lookup[k + 1]
<1> DEFINE l == Op(issued).line
           way == IF Op(issued).kind # "clean" THEN Lookup(l)
                  ELSE IF Op(issued).target = "Line" THEN LookupMaintenance(l) ELSE 0
           old == lookup[issued + 1]
           new == IF way # 0 THEN way ELSE Max({0, old})
<1>1. PipeFacts /\ issued < admitted
  BY PipeNumbers, M0Request
<1>2. issued + 1 \in 1..Len(lookup) /\ lookup \in Seq(NotLooked..Ways) /\ Ways \in Nat
      /\ Len(lookup) = admitted
  BY <1>1, LsuAssumption DEF PipeFacts, Types, OpsT
<1>3. way \in 0..Ways
  BY <1>2, TagSearch, MaintenanceSearch
<1>4. old \in NotLooked..Ways
  BY <1>2, ElementType
<1>5. Max({0, old}) \in 0..Ways
  <2>1. CASE old >= 0
    BY <1>2, <1>4, <2>1 DEF Max, NotLooked
  <2>2. CASE old < 0
    BY <1>2, <1>4, <2>2 DEF Max, NotLooked
  <2> QED BY <1>4, <2>1, <2>2 DEF NotLooked
<1>6. new \in 0..Ways
  BY <1>3, <1>5
<1>7. LookedUp(issued) = [lookup EXCEPT ![issued + 1] = new]
  BY DEF LookedUp
<1> HIDE DEF new
<1>8. 0..Ways \subseteq NotLooked..Ways
  BY <1>2 DEF NotLooked
<1> HIDE DEF NotLooked
<1>9. LookedUp(issued) \in Seq(NotLooked..Ways) /\ Len(LookedUp(issued)) = Len(lookup)
  BY <1>2, <1>6, <1>7, <1>8
<1>10. LookedUp(issued)[issued + 1] = new
  BY <1>2, <1>7
<1>11. \A k \in 0..admitted - 1 : k # issued => LookedUp(issued)[k + 1] = lookup[k + 1]
  BY <1>1, <1>2, <1>7 DEF PipeFacts
<1> QED BY <1>6, <1>9, <1>10, <1>11

\* M0 keeps the types.
LEMMA IssueTyped ==
  ASSUME Types, IInv, DrainM0 \/ M0
  PROVE  Types'
<1>1. PhaseT'
  BY NextPhase, PhaseFacts DEF DrainM0, M0
<1>2. /\ Evaluates("M0") /\ lookup' = LookedUp(issued) /\ admitted' = admitted
      /\ UNCHANGED <<ops, buffers, queues, storage, events, maintRelease, outcome, raced>>
      /\ maintActive' \in BOOLEAN
  BY DEF DrainM0, M0, HoldM0, IssueM0, maint, Types, EventT
<1>3. OpsT'
  BY <1>2, LookedUpTyped DEF Types, OpsT
<1>4. EventT'
  BY <1>2 DEF Types, EventT, events
<1> QED BY <1>1, <1>2, <1>3, <1>4, TypeFrames DEF Types, buffers, queues, storage, outcome

\* What dispatch_clock does to one queue: it only marks requests as sent.
Sent(q, m, capacity, accepts) ==
  LET queued == {i \in DOMAIN q : q[i].line[1] = m /\ q[i].state = "Queued"}
      outstanding == Cardinality({i \in DOMAIN q : q[i].state = "InFlight"})
  IN  IF m \in accepts /\ queued # {} /\ outstanding < capacity
      THEN [q EXCEPT ![Min(queued)].state = "InFlight"] ELSE q

Launched(x) == [x EXCEPT !.state = "InFlight"]

\* Dispatch to one memory changes the state of one request.
LEMMA SentFacts ==
  ASSUME NEW S, NEW q \in Seq(S), NEW m, NEW capacity, NEW accepts,
         \A x \in S : Launched(x) \in S
  PROVE  /\ Sent(q, m, capacity, accepts) \in Seq(S)
         /\ DOMAIN Sent(q, m, capacity, accepts) = DOMAIN q
         /\ \A i \in DOMAIN q :
              \/ Sent(q, m, capacity, accepts)[i] = q[i]
              \/ Sent(q, m, capacity, accepts)[i] = Launched(q[i])
<1> DEFINE queued == {i \in DOMAIN q : q[i].line[1] = m /\ q[i].state = "Queued"}
           k == Min(queued)
           x == Launched(q[k])
<1>1. CASE Sent(q, m, capacity, accepts) = q
  BY <1>1
<1>2. CASE queued # {} /\ Sent(q, m, capacity, accepts) = [q EXCEPT ![k] = x]
  <2>1. queued \subseteq Nat
    OBVIOUS
  <2> HIDE DEF queued
  <2>2. k \in queued
    BY <1>2, <2>1, MinFacts
  <2>3. k \in DOMAIN q
    BY <2>2 DEF queued
  <2> HIDE DEF k
  <2>4. q[k] \in S
    BY <2>3
  <2>5. x \in S
    BY <2>4
  <2>6. x = Launched(q[k])
    OBVIOUS
  <2> HIDE DEF x
  <2>7. /\ [q EXCEPT ![k] = x] \in Seq(S)
        /\ DOMAIN [q EXCEPT ![k] = x] = DOMAIN q
        /\ \A j \in DOMAIN q : [q EXCEPT ![k] = x][j] = IF j = k THEN x ELSE q[j]
    BY <2>3, <2>5, SeqUpdate
  <2>8. ASSUME NEW j \in DOMAIN q
        PROVE  \/ [q EXCEPT ![k] = x][j] = q[j]
               \/ [q EXCEPT ![k] = x][j] = Launched(q[j])
    <3>1. CASE j = k
      BY <2>6, <2>7, <3>1
    <3>2. CASE j # k
      BY <2>7, <3>2
    <3> QED BY <3>1, <3>2
  <2> HIDE DEF Sent
  <2> QED BY <1>2, <2>7, <2>8
<1>3. Sent(q, m, capacity, accepts) = q
      \/ (queued # {} /\ Sent(q, m, capacity, accepts) = [q EXCEPT ![k] = x])
  BY DEF Sent, Launched
<1> QED BY <1>1, <1>2, <1>3

\* Dispatch changes the states of requests only.
LEMMA DispatchedFacts ==
  ASSUME NEW S, NEW q \in Seq(S), NEW capacity, NEW accepts,
         \A x \in S : Launched(x) \in S
                      /\ Launched(Launched(x)) = Launched(x)
  PROVE  /\ Dispatched(q, capacity, accepts) \in Seq(S)
         /\ DOMAIN Dispatched(q, capacity, accepts) = DOMAIN q
         /\ \A i \in DOMAIN q :
              \/ Dispatched(q, capacity, accepts)[i] = q[i]
              \/ Dispatched(q, capacity, accepts)[i] = Launched(q[i])
<1> DEFINE p == Sent(q, "Ub", capacity, accepts)
           r == Sent(p, "External", capacity, accepts)
<1>1. Dispatched(q, capacity, accepts) = r
  BY DEF Dispatched, Sent
<1>0. \A x \in S : Launched(x) \in S
  OBVIOUS
<1>2. /\ p \in Seq(S) /\ DOMAIN p = DOMAIN q
      /\ \A i \in DOMAIN q : p[i] = q[i] \/ p[i] = Launched(q[i])
  BY <1>0, SentFacts
<1> HIDE DEF p
<1>3. /\ r \in Seq(S) /\ DOMAIN r = DOMAIN p
      /\ \A i \in DOMAIN p : r[i] = p[i] \/ r[i] = Launched(p[i])
  BY <1>0, <1>2, SentFacts
<1> HIDE DEF r
<1>4. \A i \in DOMAIN q : q[i] \in S
  <2>1. DOMAIN q = 1..Len(q)
    OBVIOUS
  <2> QED BY <2>1, ElementType
<1>5. ASSUME NEW i \in DOMAIN q
      PROVE  r[i] = q[i] \/ r[i] = Launched(q[i])
  BY <1>2, <1>3, <1>4
<1> QED BY <1>1, <1>2, <1>3, <1>5

\* Dispatch keeps the types.
LEMMA SendTyped ==
  ASSUME Types, NEW accepts, SendReads(accepts) \/ SendWrites(accepts)
  PROVE  Types'
<1>1. PhaseT'
  BY NextPhase, PhaseFacts DEF SendReads, SendWrites
<1>2. \A x \in ReadRec : Launched(x) \in ReadRec /\ Launched(Launched(x)) = Launched(x)
  BY DEF ReadRec, Launched
<1>3. \A x \in WriteRec : Launched(x) \in WriteRec /\ Launched(Launched(x)) = Launched(x)
  BY DEF WriteRec, Launched
<1> HIDE DEF ReadRec, WriteRec
<1>4. CASE SendReads(accepts)
  <2>1. ReadT'
    BY <1>2, <1>4, DispatchedFacts DEF SendReads, Types, ReadT
  <2> QED BY <1>1, <1>4, <2>1, TypeFrames
      DEF SendReads, Types, buffers, storage, events, maint, outcome, pipeVars
<1>5. CASE SendWrites(accepts)
  <2>1. WriteT'
    BY <1>3, <1>5, DispatchedFacts DEF SendWrites, Types, WriteT
  <2>2. EventT'
    BY <1>5 DEF SendWrites, Types, EventT, events
  <2> QED BY <1>1, <1>5, <2>1, <2>2, TypeFrames
      DEF SendWrites, PipeTick, Types, buffers, storage, events, maint, outcome
<1> QED BY <1>4, <1>5

\* Init is typed; the initial cache is empty.
LEMMA InitTyped == Init => Types /\ LookedUpFirst
<1> SUFFICES ASSUME Init PROVE Types /\ LookedUpFirst
  OBVIOUS
<1>1. EmptyLine \in Data
  BY MaxRequestsAssumption DEF EmptyLine, Data
<1>2. PhaseT
  BY PhaseFacts DEF Init, PhaseT
<1> HIDE DEF Data
<1>3. CacheT
  BY <1>1 DEF Init, CacheT, WayRec
<1>4. MemoryT
  BY <1>1 DEF Init, MemoryT
<1>5. MissT /\ EvictT
  BY DEF Init, MissT, EvictT
<1>6. StoreT /\ DirectT /\ ReadT /\ WriteT
  <2> HIDE DEF StoreRec, DirectRec, ReadRec, WriteRec
  <2> QED BY DEF Init, StoreT, DirectT, ReadT, WriteT
<1>7. OpsT /\ LookedUpFirst
  BY DEF Init, OpsT, PipeInit, LookedUpFirst
<1>8. EventT /\ DoneT
  BY DEF Init, EventT, DoneT
<1> QED BY <1>2, <1>3, <1>4, <1>5, <1>6, <1>7, <1>8 DEF Types

\* Every step keeps the types.
LEMMA TypeStep ==
  ASSUME Types, IInv, LookedUpFirst, [Next]_vars
  PROVE  Types'
<1>1. CASE Next
  <2>1. CASE UbWriteResponse \/ UbReadResponse \/ \E i \in DOMAIN reads : ExternalReadResponse(i)
    BY <2>1, UbWriteTyped, ReadTyped
  <2>2. CASE \E i \in DOMAIN writes : ExternalWriteResponse(i)
    BY <2>2, ExternalWriteTyped
  <2>3. CASE FlushStore
    <3>1. DueEntries \subseteq DOMAIN stores /\ DueEntries \subseteq Nat /\ DueEntries # {}
      BY <2>3 DEF FlushStore, DueEntries, Types, StoreT
    <3>2. Min(DueEntries) \in DOMAIN stores
      BY <3>1, MinFacts
    <3> QED BY <2>3, <3>2, FlushHitTyped, FlushMissTyped DEF FlushStore
  <2>4. CASE M2(consumed)
    BY <2>4, HitTyped, LoadMissTyped, StoreM2Typed, DirectTyped, CleanTyped DEF M2
  <2>5. CASE M1 \/ BlockM0 \/ DrainM0 \/ M0 \/ \E stage \in {"M1", "M2"} : ReplayStage(stage)
    BY <2>5, StageTyped, IssueTyped
  <2> QED
    BY <1>1, <2>1, <2>2, <2>3, <2>4, <2>5, AdmitTyped, TriggerTyped, TimeoutsTyped, QuietTyped,
       ProcessTyped, SendTyped DEF Next
<1>2. CASE UNCHANGED vars
  <2>1. PhaseT'
    BY <1>2 DEF vars, Types, PhaseT
  <2> QED BY <1>2, <2>1, TypeFrames
      DEF vars, Types, buffers, queues, storage, events, maint, outcome, pipeVars
<1> QED BY <1>1, <1>2

\* Only M0 issues a request, and it looks the tag up.
LEMMA LookedUpStep ==
  ASSUME Types, IInv, LookedUpFirst, [Next]_vars
  PROVE  LookedUpFirst'
<1>0. PipeFacts /\ Ways \in Nat
  BY PipeNumbers, LsuAssumption
<1>1. ASSUME lookup' = lookup, issued' <= issued, issued' \in Nat PROVE LookedUpFirst'
  <2>1. \A k \in 0..issued' - 1 : k \in 0..issued - 1
    <3>1. issued \in Nat
      BY <1>0 DEF PipeFacts
    <3>2. issued' <= issued /\ issued' \in Nat
      BY <1>1
    <3> HIDE DEF LookedUpFirst
    <3> DEFINE n == issued'
    <3>3. n <= issued /\ n \in Nat
      BY <3>2
    <3> HIDE DEF n
    <3>4. \A k \in 0..n - 1 : k \in 0..issued - 1
      BY <3>1, <3>3
    <3> QED BY <3>4 DEF n
  <2>2. \A k \in 0..issued - 1 : lookup[k + 1] # NotLooked
    BY DEF LookedUpFirst
  <2> QED BY <1>1, <2>1, <2>2 DEF LookedUpFirst
<1>2. ASSUME NEW op \in Operations, Admit(op) PROVE LookedUpFirst'
  <2>1. lookup' = Append(lookup, NotLooked) /\ issued' = issued
    BY <1>2 DEF Admit, AdmitRequests
  <2>2. \A k \in 0..issued - 1 : k + 1 \in 1..Len(lookup)
    BY <1>0 DEF PipeFacts, Types, OpsT
  <2>3. \A k \in 1..Len(lookup) : Append(lookup, NotLooked)[k] = lookup[k]
    BY DEF Types, OpsT
  <2> QED BY <2>1, <2>2, <2>3 DEF LookedUpFirst
<1>3. CASE DrainM0 \/ M0
  <2>1. /\ Evaluates("M0") /\ lookup' = LookedUp(issued)
        /\ issued' = issued \/ issued' = issued + 1
    BY <1>3 DEF DrainM0, M0, HoldM0, IssueM0
  <2>2. /\ lookup'[issued + 1] \in 0..Ways
        /\ \A k \in 0..admitted - 1 : k # issued => lookup'[k + 1] = lookup[k + 1]
    BY <2>1, LookedUpTyped
  <2>3. issued < admitted
    BY <2>1, M0Request
  <2>4. \A k \in 0..issued' - 1 : k \in 0..admitted - 1 /\ (k # issued => k \in 0..issued - 1)
    BY <1>0, <2>1, <2>3 DEF PipeFacts
  <2>5. NotLooked \notin 0..Ways
    BY <1>0 DEF NotLooked
  <2> QED BY <2>2, <2>4, <2>5 DEF LookedUpFirst
<1>4. ASSUME NEW stage \in {"M1", "M2"}, ReplayStage(stage) PROVE LookedUpFirst'
  <2>1. HeadRequest(stage) <= issued /\ HeadRequest(stage) \in Nat
    <3>1. consumed + Len(m2) \in Nat
      BY <1>0, Facts DEF PipeFacts
    <3>2. CASE stage = "M1"
      <4>1. m1 # <<>> /\ HeadRequest(stage) = Head(m1).request
        BY <1>4, <3>2 DEF ReplayStage, Replay, Evaluates, HeadReady, HasHead, HeadRequest
      <4>2. Head(m1).request = consumed + Len(m2) /\ consumed + Len(m2) < issued
        BY <4>1, HeadIssued
      <4> QED BY <1>0, <3>1, <4>1, <4>2 DEF PipeFacts
    <3>3. CASE stage = "M2"
      <4>1. m2 # <<>> /\ HeadRequest(stage) = Head(m2).request
        BY <1>4, <3>3 DEF ReplayStage, Replay, Evaluates, HeadReady, HasHead, HeadRequest
      <4>2. Head(m2).request = consumed /\ consumed < issued
        BY <4>1, HeadIssued
      <4> QED BY <1>0, <4>1, <4>2 DEF PipeFacts
    <3> QED BY <3>2, <3>3
  <2> QED BY <1>1, <1>4, <2>1 DEF ReplayStage, Replay
<1>5. CASE UNCHANGED <<pipeVars, lookup>>
  BY <1>0, <1>1, <1>5 DEF pipeVars, PipeFacts
<1>6. CASE M2(consumed) \/ M1 \/ BlockM0
  <2>1. issued' = issued /\ lookup' = lookup
    BY <1>6 DEF M2, LoadHit, PreloadHit, LoadMiss, StoreM2, DirectStoreM2, Clean, AtM2, AdvanceM2,
                M1, AdvanceM1, BlockM0, HoldM0
  <2> QED BY <1>0, <1>1, <2>1 DEF PipeFacts
<1>7. ASSUME NEW accepts, SendReads(accepts) \/ SendWrites(accepts) PROVE LookedUpFirst'
  <2>1. issued' = issued /\ lookup' = lookup
    BY <1>7 DEF SendReads, SendWrites, PipeTick, pipeVars
  <2> QED BY <1>0, <1>1, <2>1 DEF PipeFacts
<1>8. ASSUME NEW i, ExternalWriteResponse(i) \/ ExternalReadResponse(i)
      PROVE UNCHANGED <<pipeVars, lookup>>
  BY <1>8 DEF ExternalWriteResponse, ExternalReadResponse, ReadResponse
<1>9. CASE \/ TriggerFlush \/ UbWriteResponse \/ UbReadResponse \/ ProcessDirectStores
           \/ AdvanceTimeouts \/ FlushStore \/ EndFlush \/ ReleaseMaintenance \/ ErrorReturn \/ Skip
           \/ UNCHANGED vars
  <2>1. UNCHANGED <<pipeVars, lookup>>
    <3>1. CASE UbWriteResponse \/ UbReadResponse
      BY <3>1 DEF UbWriteResponse, UbReadResponse, ReadResponse
    <3>2. CASE TriggerFlush \/ ProcessDirectStores \/ AdvanceTimeouts \/ FlushStore \/ EndFlush
      BY <3>2 DEF TriggerFlush, ProcessDirectStores, AdvanceTimeouts, FlushStore, FlushHit, FlushMiss,
                  EndFlush
    <3>3. CASE ReleaseMaintenance \/ ErrorReturn \/ Skip
      BY <3>3 DEF ReleaseMaintenance, ErrorReturn, Fail, Skip, Pass
    <3> QED BY <1>9, <3>1, <3>2, <3>3 DEF vars
  <2> QED BY <1>5, <2>1
<1> QED
  BY <1>2, <1>3, <1>4, <1>5, <1>6, <1>7, <1>8, <1>9 DEF Next

\* The types are those of TypeOK.
LEMMA TypesImply == Types /\ IInv => TypeOK
<1> SUFFICES ASSUME Types, IInv PROVE TypeOK
  OBVIOUS
<1>1. PipeTypeOK
  BY DEF IInv
<1>2. ToSet(ops) \subseteq Operations /\ ToSet(lookup) \subseteq NotLooked..Ways
      /\ Len(ops) = admitted /\ Len(lookup) = admitted
  <2>1. \A i \in DOMAIN ops : ops[i] \in Operations
    BY DEF Types, OpsT
  <2>2. \A i \in DOMAIN lookup : lookup[i] \in NotLooked..Ways
    <3> HIDE DEF NotLooked
    <3>1. DOMAIN lookup = 1..Len(lookup) /\ lookup \in Seq(NotLooked..Ways)
      BY DEF Types, OpsT
    <3> QED BY <3>1, ElementType
  <2>3. Len(ops) = admitted /\ Len(lookup) = admitted
    BY DEF Types, OpsT
  <2> QED BY <2>1, <2>2, <2>3 DEF ToSet
<1>3. \A l \in DOMAIN misses :
        misses[l].state \in {"Idle", "Fetching"} /\ ToSet(misses[l].requests) \subseteq Requests
  <2> TAKE l \in DOMAIN misses
  <2>1. misses[l] \in MissRec
    <3> HIDE DEF MissRec
    <3> QED BY DEF Types, MissT
  <2>2. misses[l].state \in {"Idle", "Fetching"} /\ misses[l].requests \in Seq(Requests)
    <3> HIDE DEF Requests
    <3> QED BY <2>1 DEF MissRec
  <2> HIDE DEF Requests
  <2> QED BY <2>2 DEF ToSet
<1>4. \A e \in ToSet(stores) :
       /\ e.line \in Lines
       /\ e.state \in {"Idle", "Fetching", "Ready"}
       /\ e.hit \in BOOLEAN /\ e.forbidden \in BOOLEAN
       /\ e.remaining \in 0..Timeout
       /\ ToSet(e.requests) \subseteq Requests
       /\ e.bytes \in Data /\ e.valid \subseteq Offsets
  <2> TAKE e \in ToSet(stores)
  <2>1. e \in StoreRec
    <3> HIDE DEF StoreRec
    <3> QED BY DEF Types, StoreT, ToSet
  <2>2. /\ e.state \in {"Idle", "Fetching", "Ready"} /\ e.hit \in BOOLEAN /\ e.forbidden \in BOOLEAN
        /\ e.remaining \in 0..Timeout /\ e.requests \in Seq(Requests) /\ e.line \in Lines
        /\ e.bytes \in Data /\ e.valid \subseteq Offsets
    <3> HIDE DEF Requests, Data
    <3> QED BY <2>1 DEF StoreRec
  <2>3. ToSet(e.requests) \subseteq Requests
    <3> HIDE DEF Requests
    <3> QED BY <2>2 DEF ToSet
  <2> QED BY <2>2, <2>3
<1>5. /\ \A r \in ToSet(reads) :
           r \in [line : Lines, owner : {"Miss", "Store"}, state : {"Queued", "InFlight"}]
      /\ \A w \in ToSet(writes) :
           w \in [line : Lines \cup {ZeroLine}, state : {"Queued", "InFlight"}, way : 0..Ways]
      /\ \A d \in ToSet(direct) : d \in [line : Lines, request : Requests, bytes : Data]
  <2>1. (\A r \in ToSet(reads) : r \in ReadRec) /\ (\A w \in ToSet(writes) : w \in WriteRec)
        /\ \A d \in ToSet(direct) : d \in DirectRec
    <3> HIDE DEF ReadRec, WriteRec, DirectRec
    <3> QED BY DEF Types, ReadT, WriteT, DirectT, ToSet
  <2> QED BY <2>1 DEF ReadRec, WriteRec, DirectRec
<1>6. cache \in [1..Ways -> [line : Lines \cup {ZeroLine}, valid : BOOLEAN,
                            dirty : BOOLEAN, data : Data]]
  BY DEF Types, CacheT, WayRec
<1> QED
  BY <1>1, <1>2, <1>3, <1>4, <1>5, <1>6
  DEF Types, TypeOK, PhaseT, MissT, MemoryT, EvictT, EventT, DoneT

\* The types and the lookup of every issued request hold throughout.
LEMMA TypesHold == Spec => [](Types /\ LookedUpFirst /\ IInv)
<1>1. Init => Types /\ LookedUpFirst
  BY InitTyped
<1>2. Types /\ LookedUpFirst /\ IInv /\ [Next]_vars => Types' /\ LookedUpFirst'
  BY TypeStep, LookedUpStep
<1>3. Spec => []IInv
  BY UnitRunsPipeline, Invariance, PTL
<1> QED
  BY <1>1, <1>2, <1>3, PTL DEF Spec

\* Whatever advance_lsu_at's phases do in whatever order arrivals come, entries,
\* queues, ways and evicted data keep their types: a request number is one that
\* was admitted, a way is one of the cache's, a write is of a line or of an
\* invalidated way.
THEOREM UnitTypeCorrect == Spec => []TypeOK
BY TypesHold, TypesImply, PTL
-----------------------------------------------------------------------------
(* The inductive invariant: structure *)

\* No two store entries, and no two reads, are of one line.
StoresApart == \A i, j \in DOMAIN stores : stores[i].line = stores[j].line => i = j
ReadsApart == \A i, j \in DOMAIN reads : reads[i].line = reads[j].line => i = j

\* A read belongs to a fetching entry.
Owners ==
  \A l \in Lines :
    /\ ReadBy(l, "Miss") => HasMiss(l) /\ misses[l].state = "Fetching"
    /\ ReadBy(l, "Store") => HasStore(l) /\ StoreEntry(l).state = "Fetching"

\* A store entry beside a miss of its line has been flushed.
StoreBesideMiss == \A l \in Lines : HasMiss(l) /\ HasStore(l) => StoreEntry(l).state # "Idle"

\* A UB line has one write at a time, whose bytes the store entry or a way holds.
UbWrites ==
  \A l \in Lines : Ub(l) /\ HasWrite(l) =>
    /\ Plain(l) = 1
    /\ ~HasRead(l)
    /\ HasStore(l) => /\ StoreEntry(l).state # "Idle"
                      /\ UbWriteAllocate => StoreEntry(l).valid = Offsets
    /\ ~HasStore(l) => Tagged(l)

\* Only external lines are dirty.
DirtyExternal == \A w \in 1..Ways : cache[w].dirty => External(cache[w].line) /\ cache[w].line \in Lines

\* A maintenance write keeps its way, one write to a way; every write is of a program line.
WritesKnown == \A i \in DOMAIN writes : writes[i].line \in Lines
WaysHeld ==
  \A i \in DOMAIN writes : writes[i].way # 0 =>
    /\ External(writes[i].line)
    /\ cache[writes[i].way].line = writes[i].line
    /\ ~cache[writes[i].way].valid
    /\ maintActive /\ issued = consumed
WaysApart == \A i, j \in DOMAIN writes : writes[i].way = writes[j].way /\ writes[i].way # 0 => i = j
WaysKept == WritesKnown /\ WaysHeld /\ WaysApart

\* Direct stores bypass the cache to external memory.
DirectExternal == \A i \in DOMAIN direct : External(direct[i].line)

\* While a clean is under way the unit holds nothing else.
Maintained ==
  /\ maintActive => /\ misses = <<>> /\ stores = <<>> /\ direct = <<>> /\ reads = <<>>
                    /\ issued <= consumed + 1
                    /\ issued = consumed + 1 => Op(consumed).kind = "clean"
  /\ \A k \in consumed..issued - 1 : Op(k).kind = "clean" => maintActive
  /\ maintRelease # "none" => maintActive /\ issued = consumed

\* What a store entry collects.
Entries ==
  \A l \in Lines : HasStore(l) =>
    /\ StoreEntry(l).requests # <<>>
    /\ \A id \in ToSet(StoreEntry(l).requests) :
         id < consumed /\ Op(id).kind = "store" /\ Op(id).line = l

\* A line is in one way, and in none while it is fetched.
OneCopy ==
  /\ \A l \in Lines : HasRead(l) => ~Cached(l)
  /\ \A v, w \in 1..Ways : cache[v].valid /\ cache[w].valid /\ cache[v].line = cache[w].line
                           /\ cache[v].line \in Lines => v = w
  /\ \A l \in Lines : HasStore(l) /\ StoreEntry(l).state = "Idle" /\ ~StoreEntry(l).hit => ~Cached(l)

\* An evicted line is nowhere else, and nobody fetches it.
EvictedAlone ==
  \A l \in Lines : Evicted(l) =>
    /\ Plain(l) >= 1
    /\ ~Cached(l) /\ ~HasRead(l) /\ ~HasMiss(l)
    /\ HasStore(l) => StoreEntry(l).state = "Idle" /\ StoreEntry(l).hit

\* An external line that is waited for is being read.
Fetched ==
  \A l \in Lines : External(l) =>
    /\ HasMiss(l) => HasRead(l)
    /\ HasStore(l) => StoreEntry(l).state \in {"Idle", "Fetching"}
    /\ HasStore(l) /\ StoreEntry(l).state = "Fetching" => HasRead(l)

\* Every plain external write has evicted data or a direct store of its own.
ExternalWrites ==
  \A l \in Lines : External(l) => Plain(l) <= (IF Evicted(l) THEN 1 ELSE 0) + DirectCount(l)

Struct ==
  /\ StoresApart /\ ReadsApart /\ Owners /\ StoreBesideMiss /\ UbWrites /\ DirtyExternal
  /\ WaysKept /\ DirectExternal /\ Maintained /\ Entries /\ OneCopy /\ EvictedAlone
  /\ Fetched /\ ExternalWrites

StructInv == ~raced => Struct /\ failure = "none"
-----------------------------------------------------------------------------
(* How a step changes what the buffers say of a line *)

\* A line's only entry is the one StoreIndex chooses.
LEMMA OnlyEntry ==
  ASSUME StoresApart, NEW i \in DOMAIN stores
  PROVE  HasStore(stores[i].line) /\ StoreIndex(stores[i].line) = i
         /\ StoreEntry(stores[i].line) = stores[i]
<1>1. \A j \in DOMAIN stores : stores[j].line = stores[i].line => j = i
  BY DEF StoresApart
<1> QED BY <1>1 DEF HasStore, StoreIndex, StoreEntry

\* Removing an entry leaves those of the other lines.
LEMMA StoreRemoved ==
  ASSUME StoreT, StoresApart, NEW k \in DOMAIN stores, NEW line, line = stores[k].line,
         stores' = RemoveAt(stores, k)
  PROVE  /\ StoresApart' /\ ~HasStore(line)'
         /\ \A l : l # line => /\ HasStore(l)' <=> HasStore(l)
                               /\ HasStore(l) => StoreEntry(l)' = StoreEntry(l)
<1> HIDE DEF StoreRec
<1>1. stores \in Seq(StoreRec)
  BY DEF StoreT
<1>2. \A j \in DOMAIN stores' : \E i \in DOMAIN stores : i # k /\ stores'[j] = stores[i]
  BY <1>1, RemoveMembers
<1>3. \A i \in DOMAIN stores : i # k => \E j \in DOMAIN stores' : stores'[j] = stores[i]
  BY <1>1, RemoveMembers
<1>4. /\ Len(stores') = Len(stores) - 1 /\ Len(stores) \in Nat /\ stores' \in Seq(StoreRec)
      /\ \A j \in 1..Len(stores) - 1 : stores'[j] = stores[IF j < k THEN j ELSE j + 1]
  BY <1>1, RemoveFacts
<1>5. k \in 1..Len(stores) /\ DOMAIN stores = 1..Len(stores) /\ DOMAIN stores' = 1..Len(stores) - 1
  BY <1>1, <1>4
<1>6. StoresApart'
  <2> SUFFICES ASSUME NEW i \in DOMAIN stores', NEW j \in DOMAIN stores',
                      stores'[i].line = stores'[j].line
               PROVE  i = j
    BY DEF StoresApart
  <2> DEFINE a == IF i < k THEN i ELSE i + 1
             b == IF j < k THEN j ELSE j + 1
  <2>1. a \in DOMAIN stores /\ b \in DOMAIN stores /\ stores'[i] = stores[a] /\ stores'[j] = stores[b]
    BY <1>4, <1>5
  <2>2. a = b => i = j
    BY <1>4, <1>5
  <2> HIDE DEF a, b
  <2>3. a = b
    BY <2>1 DEF StoresApart
  <2> QED BY <2>2, <2>3
<1>7. ~HasStore(line)'
  BY <1>2 DEF HasStore, StoresApart
<1>8. ASSUME NEW l, l # line PROVE HasStore(l)' <=> HasStore(l)
  BY <1>2, <1>3, <1>8 DEF HasStore
<1>9. ASSUME NEW l, l # line, HasStore(l) PROVE StoreEntry(l)' = StoreEntry(l)
  <2>1. PICK i \in DOMAIN stores : stores[i].line = l
    BY <1>9 DEF HasStore
  <2>2. StoreEntry(l) = stores[i]
    BY <2>1, OnlyEntry
  <2>3. PICK j \in DOMAIN stores' : stores'[j] = stores[i]
    BY <1>3, <1>9, <2>1
  <2>4. \A m \in DOMAIN stores' : stores'[m].line = l => m = j
    BY <1>6, <2>1, <2>3 DEF StoresApart
  <2>5. stores'[StoreIndex(l)'].line = l /\ StoreIndex(l)' = j
    BY <2>1, <2>3, <2>4 DEF StoreIndex
  <2> QED BY <2>2, <2>3, <2>5 DEF StoreEntry
<1> QED BY <1>6, <1>7, <1>8, <1>9

\* Entries change in place.
LEMMA StoresUpdated ==
  ASSUME StoresApart, DOMAIN stores' = DOMAIN stores,
         \A i \in DOMAIN stores : stores'[i].line = stores[i].line
  PROVE  /\ StoresApart'
         /\ \A l : HasStore(l)' <=> HasStore(l)
         /\ \A l : HasStore(l) => \E i \in DOMAIN stores : /\ stores[i].line = l
                                                           /\ StoreEntry(l) = stores[i]
                                                           /\ StoreEntry(l)' = stores'[i]
<1>1. StoresApart'
  BY DEF StoresApart
<1>2. \A l : HasStore(l)' <=> HasStore(l)
  BY DEF HasStore
<1>3. ASSUME NEW l, HasStore(l)
      PROVE \E i \in DOMAIN stores : /\ stores[i].line = l /\ StoreEntry(l) = stores[i]
                                     /\ StoreEntry(l)' = stores'[i]
  <2>1. PICK i \in DOMAIN stores : stores[i].line = l
    BY <1>3 DEF HasStore
  <2>2. StoreEntry(l) = stores[i]
    BY <2>1, OnlyEntry
  <2>3. StoreIndex(l)' = i
    <3>1. i \in DOMAIN stores' /\ stores'[i].line = l
          /\ \A m \in DOMAIN stores' : stores'[m].line = l => m = i
      BY <1>1, <2>1 DEF StoresApart
    <3> QED BY <3>1 DEF StoreIndex
  <2> QED BY <2>1, <2>2, <2>3 DEF StoreEntry
<1> QED BY <1>1, <1>2, <1>3

\* Replacing an entry leaves those of the other lines.
LEMMA StoreReplaced ==
  ASSUME StoreT, StoresApart, NEW k \in DOMAIN stores, NEW x \in StoreRec, NEW line,
         line = stores[k].line, x.line = line, stores' = [stores EXCEPT ![k] = x]
  PROVE  /\ StoresApart' /\ HasStore(line)' /\ StoreEntry(line)' = x
         /\ \A l : l # line => /\ HasStore(l)' <=> HasStore(l)
                               /\ HasStore(l) => StoreEntry(l)' = StoreEntry(l)
<1> HIDE DEF StoreRec
<1>1. /\ DOMAIN stores' = DOMAIN stores
      /\ \A j \in DOMAIN stores : stores'[j] = IF j = k THEN x ELSE stores[j]
  BY SeqUpdate DEF StoreT
<1>2. \A i \in DOMAIN stores : stores'[i].line = stores[i].line
  BY <1>1
<1>3. /\ StoresApart'
      /\ \A l : HasStore(l)' <=> HasStore(l)
      /\ \A l : HasStore(l) => \E i \in DOMAIN stores : /\ stores[i].line = l
                                                        /\ StoreEntry(l) = stores[i]
                                                        /\ StoreEntry(l)' = stores'[i]
  BY <1>1, <1>2, StoresUpdated
<1>4. HasStore(line)
  BY DEF HasStore
<1>5. StoreEntry(line)' = x
  BY <1>1, <1>3, <1>4 DEF StoresApart
<1>6. ASSUME NEW l, l # line, HasStore(l) PROVE StoreEntry(l)' = StoreEntry(l)
  BY <1>1, <1>3, <1>6
<1> QED BY <1>3, <1>4, <1>5, <1>6

\* A new entry leaves those of the other lines.
LEMMA StoreAppended ==
  ASSUME StoreT, StoresApart, NEW x \in StoreRec, NEW line, x.line = line, ~HasStore(line),
         stores' = Append(stores, x)
  PROVE  /\ StoresApart' /\ HasStore(line)' /\ StoreEntry(line)' = x
         /\ \A l : l # line => /\ HasStore(l)' <=> HasStore(l)
                               /\ HasStore(l) => StoreEntry(l)' = StoreEntry(l)
<1> HIDE DEF StoreRec
<1> DEFINE n == Len(stores) + 1
<1>1. /\ stores' \in Seq(StoreRec) /\ Len(stores') = n /\ Len(stores) \in Nat
      /\ \A i \in 1..Len(stores) : stores'[i] = stores[i]
      /\ stores'[n] = x
  BY AppendFacts DEF StoreT
<1>2. DOMAIN stores = 1..Len(stores) /\ DOMAIN stores' = DOMAIN stores \cup {n} /\ n \notin DOMAIN stores
  BY <1>1 DEF StoreT
<1> HIDE DEF n
<1>3. /\ \A i \in DOMAIN stores : stores'[i] = stores[i] /\ stores[i].line # line
      /\ stores'[n] = x
  BY <1>1, <1>2 DEF HasStore
<1>4. StoresApart'
  BY <1>2, <1>3 DEF StoresApart
<1>5. HasStore(line)' /\ StoreEntry(line)' = x
  <2>1. n \in DOMAIN stores' /\ stores'[n].line = line
        /\ \A m \in DOMAIN stores' : stores'[m].line = line => m = n
    BY <1>2, <1>3
  <2> QED BY <1>3, <2>1 DEF HasStore, StoreEntry, StoreIndex
<1>6. ASSUME NEW l, l # line PROVE HasStore(l)' <=> HasStore(l)
  BY <1>2, <1>3, <1>6 DEF HasStore
<1>7. ASSUME NEW l, l # line, HasStore(l) PROVE StoreEntry(l)' = StoreEntry(l)
  <2>1. PICK i \in DOMAIN stores : stores[i].line = l
    BY <1>7 DEF HasStore
  <2>2. StoreEntry(l) = stores[i]
    BY <2>1, OnlyEntry
  <2>3. i \in DOMAIN stores' /\ stores'[i] = stores[i]
        /\ \A m \in DOMAIN stores' : stores'[m].line = l => m = i
    BY <1>2, <1>3, <1>4, <2>1 DEF StoresApart
  <2>4. StoreIndex(l)' = i
    BY <2>1, <2>3 DEF StoreIndex
  <2> QED BY <2>2, <2>3, <2>4 DEF StoreEntry
<1> QED BY <1>4, <1>5, <1>6, <1>7

\* Removing a read leaves those of the other lines.
LEMMA ReadRemoved ==
  ASSUME ReadT, ReadsApart, NEW k \in DOMAIN reads, NEW line, line = reads[k].line,
         reads' = RemoveAt(reads, k)
  PROVE  /\ ReadsApart' /\ ~HasRead(line)'
         /\ \A l : l # line => (HasRead(l)' <=> HasRead(l))
         /\ \A l, o : l # line => (ReadBy(l, o)' <=> ReadBy(l, o))
         /\ \A o : ~ReadBy(line, o)'
<1> HIDE DEF ReadRec
<1>1. reads \in Seq(ReadRec)
  BY DEF ReadT
<1>2. \A j \in DOMAIN reads' : \E i \in DOMAIN reads : i # k /\ reads'[j] = reads[i]
  BY <1>1, RemoveMembers
<1>3. \A i \in DOMAIN reads : i # k => \E j \in DOMAIN reads' : reads'[j] = reads[i]
  BY <1>1, RemoveMembers
<1>4. /\ Len(reads') = Len(reads) - 1 /\ Len(reads) \in Nat /\ reads' \in Seq(ReadRec)
      /\ \A j \in 1..Len(reads) - 1 : reads'[j] = reads[IF j < k THEN j ELSE j + 1]
  BY <1>1, RemoveFacts
<1>5. k \in 1..Len(reads) /\ DOMAIN reads = 1..Len(reads) /\ DOMAIN reads' = 1..Len(reads) - 1
  BY <1>1, <1>4
<1>6. ReadsApart'
  <2> SUFFICES ASSUME NEW i \in DOMAIN reads', NEW j \in DOMAIN reads',
                      reads'[i].line = reads'[j].line
               PROVE  i = j
    BY DEF ReadsApart
  <2> DEFINE a == IF i < k THEN i ELSE i + 1
             b == IF j < k THEN j ELSE j + 1
  <2>1. a \in DOMAIN reads /\ b \in DOMAIN reads /\ reads'[i] = reads[a] /\ reads'[j] = reads[b]
    BY <1>4, <1>5
  <2>2. a = b => i = j
    BY <1>4, <1>5
  <2> HIDE DEF a, b
  <2>3. a = b
    BY <2>1 DEF ReadsApart
  <2> QED BY <2>2, <2>3
<1>7. ~HasRead(line)' /\ \A o : ~ReadBy(line, o)'
  BY <1>2 DEF HasRead, ReadBy, ReadsApart
<1>8. ASSUME NEW l, l # line
      PROVE (HasRead(l)' <=> HasRead(l)) /\ \A o : ReadBy(l, o)' <=> ReadBy(l, o)
  BY <1>2, <1>3, <1>8 DEF HasRead, ReadBy
<1> QED BY <1>6, <1>7, <1>8

\* A new read leaves those of the other lines.
LEMMA ReadAppended ==
  ASSUME ReadT, ReadsApart, NEW line \in Lines, NEW owner \in {"Miss", "Store"}, ~HasRead(line),
         reads' = Append(reads, ReadOf(line, owner))
  PROVE  /\ ReadsApart' /\ HasRead(line)'
         /\ \A l : l # line => (HasRead(l)' <=> HasRead(l))
         /\ \A l, o : l # line => (ReadBy(l, o)' <=> ReadBy(l, o))
         /\ \A o : ReadBy(line, o)' <=> o = owner
<1> DEFINE x == ReadOf(line, owner)
           n == Len(reads) + 1
<1>0. x \in ReadRec /\ x.line = line /\ x.owner = owner
  BY DEF ReadOf, ReadRec
<1> HIDE DEF ReadRec, x
<1>1. /\ reads' \in Seq(ReadRec) /\ Len(reads') = n /\ Len(reads) \in Nat
      /\ \A i \in 1..Len(reads) : reads'[i] = reads[i]
      /\ reads'[n] = x
  BY <1>0, AppendFacts DEF ReadT, x
<1>2. DOMAIN reads = 1..Len(reads) /\ DOMAIN reads' = DOMAIN reads \cup {n} /\ n \notin DOMAIN reads
  BY <1>1 DEF ReadT
<1> HIDE DEF n
<1>3. /\ \A i \in DOMAIN reads : reads'[i] = reads[i] /\ reads[i].line # line
      /\ reads'[n] = x
  BY <1>1, <1>2 DEF HasRead
<1>4. ReadsApart'
  BY <1>0, <1>2, <1>3 DEF ReadsApart
<1>5. HasRead(line)' /\ \A o : ReadBy(line, o)' <=> o = owner
  BY <1>0, <1>2, <1>3 DEF HasRead, ReadBy
<1>6. ASSUME NEW l, l # line
      PROVE (HasRead(l)' <=> HasRead(l)) /\ \A o : ReadBy(l, o)' <=> ReadBy(l, o)
  BY <1>0, <1>2, <1>3, <1>6 DEF HasRead, ReadBy
<1> QED BY <1>4, <1>5, <1>6

\* What is said of reads depends on lines and owners only.
LEMMA ReadsUpdated ==
  ASSUME DOMAIN reads' = DOMAIN reads,
         \A i \in DOMAIN reads : reads'[i].line = reads[i].line /\ reads'[i].owner = reads[i].owner
  PROVE  /\ ReadsApart => ReadsApart'
         /\ \A l : HasRead(l)' <=> HasRead(l)
         /\ \A l, o : ReadBy(l, o)' <=> ReadBy(l, o)
BY DEF ReadsApart, HasRead, ReadBy

\* Who reads a line.
LEMMA ReadOwners ==
  ASSUME Types
  PROVE  \A l : HasRead(l) <=> ReadBy(l, "Miss") \/ ReadBy(l, "Store")
BY QueueItems DEF HasRead, ReadBy
\* Elements of a sequence that are in a set, counted.
At(q, T) == {j \in DOMAIN q : q[j] \in T}
Many(q, T) == Cardinality(At(q, T))

\* A bijection keeps the number of elements.
LEMMA MappedCount ==
  ASSUME NEW A, IsFiniteSet(A), NEW B, NEW f \in [A -> B],
         \A x, y \in A : f[x] = f[y] => x = y,
         \A y \in B : \E x \in A : f[x] = y
  PROVE  IsFiniteSet(B) /\ Cardinality(B) = Cardinality(A)
<1>1. f \in Injection(A, B) /\ f \in Surjection(A, B)
  BY DEF Injection, Surjection, IsInjective
<1>2. ExistsBijection(A, B)
  BY <1>1 DEF ExistsBijection, Bijection
<1> QED BY <1>2, FS_Bijection

\* The number of occurrences is a number, 0 when there are none.
LEMMA ManyFinite ==
  ASSUME NEW S, NEW q \in Seq(S), NEW T
  PROVE  /\ IsFiniteSet(At(q, T)) /\ Many(q, T) \in Nat
         /\ Many(q, T) = 0 <=> \A j \in DOMAIN q : q[j] \notin T
<1>1. DOMAIN q = 1..Len(q) /\ Len(q) \in Nat
  OBVIOUS
<1>2. IsFiniteSet(DOMAIN q)
  <2>1. 1 \in Int /\ Len(q) \in Int
    BY <1>1
  <2> QED BY <1>1, <2>1, FS_Interval
<1>3. At(q, T) \in SUBSET DOMAIN q
  BY DEF At
<1>4. IsFiniteSet(At(q, T))
  BY <1>2, <1>3, FS_Subset
<1>5. Many(q, T) \in Nat /\ (Many(q, T) = 0 <=> At(q, T) = {})
  BY <1>4, FS_CardinalityType, FS_EmptySet DEF Many
<1> QED BY <1>4, <1>5 DEF At

\* Occurrences after an Append.
LEMMA ManyAppend ==
  ASSUME NEW S, NEW q \in Seq(S), NEW x \in S, NEW T
  PROVE  Many(Append(q, x), T) = Many(q, T) + (IF x \in T THEN 1 ELSE 0)
<1> DEFINE r == Append(q, x)
           n == Len(q) + 1
<1>1. /\ r \in Seq(S) /\ Len(r) = n /\ Len(q) \in Nat
      /\ \A i \in 1..Len(q) : r[i] = q[i]
      /\ r[n] = x
  BY AppendFacts
<1>2. DOMAIN q = 1..Len(q) /\ DOMAIN r = DOMAIN q \cup {n} /\ n \notin DOMAIN q
  BY <1>1
<1> HIDE DEF r, n
<1>3. \A i \in DOMAIN q : r[i] = q[i]
  BY <1>1, <1>2
<1>4. At(r, T) = At(q, T) \cup (IF x \in T THEN {n} ELSE {})
  BY <1>1, <1>2, <1>3 DEF At
<1>5. IsFiniteSet(At(q, T)) /\ Many(q, T) \in Nat /\ n \notin At(q, T)
  BY <1>2, ManyFinite DEF At
<1>6. CASE x \in T
  <2>1. Cardinality(At(q, T) \cup {n}) = Cardinality(At(q, T)) + 1
    BY <1>5, FS_AddElement
  <2> QED BY <1>4, <1>6, <2>1 DEF Many, r
<1>7. CASE x \notin T
  BY <1>4, <1>5, <1>7 DEF Many, r
<1> QED BY <1>6, <1>7

\* Occurrences in a concatenation.
LEMMA ManyConcat ==
  ASSUME NEW S, NEW q \in Seq(S), NEW t \in Seq(S), NEW T
  PROVE  Many(q \o t, T) = Many(q, T) + Many(t, T)
<1> DEFINE r == q \o t
           n == Len(q)
           B == {j \in DOMAIN r : j > n /\ r[j] \in T}
           f == [j \in At(t, T) |-> n + j]
<1>1. /\ r \in Seq(S) /\ Len(q) \in Nat /\ Len(t) \in Nat /\ Len(r) = Len(q) + Len(t)
      /\ \A j \in 1..Len(q) : r[j] = q[j]
      /\ \A j \in 1..Len(t) : r[Len(q) + j] = t[j]
  BY ConcatFacts
<1>2. DOMAIN q = 1..n /\ DOMAIN t = 1..Len(t) /\ DOMAIN r = 1..n + Len(t) /\ n \in Nat /\ Len(t) \in Nat
  BY <1>1
<1> HIDE DEF r
<1>3. At(r, T) = At(q, T) \cup B /\ At(q, T) \cap B = {}
  <2>1. \A j \in 1..n : r[j] = q[j]
    BY <1>1
  <2> HIDE DEF n
  <2> QED BY <1>2, <2>1 DEF At
<1>4. \A j \in At(t, T) : j \in 1..Len(t) /\ t[j] \in T
  BY <1>2 DEF At
<1>5. f \in [At(t, T) -> B]
  <2>1. \A j \in 1..Len(t) : r[n + j] = t[j]
    BY <1>1
  <2> HIDE DEF n
  <2>2. \A j \in At(t, T) : n + j \in B
    BY <1>2, <1>4, <2>1
  <2> HIDE DEF B
  <2> QED BY <2>2
<1>6. \A x, y \in At(t, T) : f[x] = f[y] => x = y
  <2> HIDE DEF n
  <2> QED BY <1>2, <1>4
<1>7. \A y \in B : \E x \in At(t, T) : f[x] = y
  <2>1. \A j \in 1..Len(t) : r[n + j] = t[j]
    BY <1>1
  <2> HIDE DEF n
  <2> TAKE y \in B
  <2>2. y - n \in 1..Len(t) /\ n + (y - n) = y
    BY <1>2
  <2>3. t[y - n] \in T
    BY <2>1, <2>2
  <2>4. y - n \in At(t, T)
    BY <1>2, <2>2, <2>3 DEF At
  <2> QED BY <2>2, <2>4
<1>8. IsFiniteSet(At(q, T)) /\ IsFiniteSet(At(t, T)) /\ Many(q, T) \in Nat /\ Many(t, T) \in Nat
  BY ManyFinite
<1> HIDE DEF f, B, n
<1>9. IsFiniteSet(B) /\ Cardinality(B) = Cardinality(At(t, T))
  BY <1>5, <1>6, <1>7, <1>8, MappedCount
<1>10. Cardinality(At(q, T) \cup B) = Cardinality(At(q, T)) + Cardinality(B) - Cardinality(At(q, T) \cap B)
  BY <1>8, <1>9, FS_Union
<1>11. Cardinality(At(q, T) \cap B) = 0
  BY <1>3, FS_EmptySet
<1> QED BY <1>3, <1>8, <1>9, <1>10, <1>11 DEF Many, r

\* Occurrences after a RemoveAt.
LEMMA ManyRemove ==
  ASSUME NEW S, NEW q \in Seq(S), NEW i \in DOMAIN q, NEW T
  PROVE  Many(RemoveAt(q, i), T) = Many(q, T) - (IF q[i] \in T THEN 1 ELSE 0)
<1> DEFINE r == RemoveAt(q, i)
           A == At(q, T) \ {i}
           f == [j \in At(r, T) |-> IF j < i THEN j ELSE j + 1]
<1>1. /\ r \in Seq(S) /\ Len(q) \in Nat /\ Len(r) = Len(q) - 1
      /\ \A j \in 1..Len(q) - 1 : r[j] = q[IF j < i THEN j ELSE j + 1]
  BY RemoveFacts
<1>2. DOMAIN q = 1..Len(q) /\ i \in 1..Len(q) /\ DOMAIN r = 1..Len(q) - 1
  <2> HIDE DEF r
  <2> QED BY <1>1
<1> HIDE DEF r
<1>3. f \in [At(r, T) -> A]
  <2>1. \A j \in At(r, T) : (IF j < i THEN j ELSE j + 1) \in A
    BY <1>1, <1>2 DEF At
  <2> HIDE DEF A
  <2> QED BY <2>1
<1>4. \A x, y \in At(r, T) : f[x] = f[y] => x = y
  BY <1>1, <1>2 DEF At
<1>5. \A y \in A : \E x \in At(r, T) : f[x] = y
  <2> TAKE y \in A
  <2>0. y \in 1..Len(q) /\ y # i /\ q[y] \in T
    BY <1>2 DEF At
  <2>1. CASE y < i
    <3>1. y \in 1..Len(q) - 1
      BY <1>1, <1>2, <2>0, <2>1
    <3>2. y \in At(r, T)
      BY <1>1, <1>2, <2>0, <2>1, <3>1 DEF At
    <3> QED BY <2>1, <3>2
  <2>2. CASE y > i
    <3>1. y - 1 \in 1..Len(q) - 1 /\ ~(y - 1 < i) /\ (y - 1) + 1 = y
      BY <1>1, <1>2, <2>0, <2>2
    <3>2. y - 1 \in At(r, T)
      BY <1>1, <1>2, <2>0, <3>1 DEF At
    <3> QED BY <3>1, <3>2
  <2> QED BY <1>1, <1>2, <2>0, <2>1, <2>2
<1>6. /\ IsFiniteSet(At(q, T)) /\ IsFiniteSet(At(r, T)) /\ Many(q, T) \in Nat /\ Many(r, T) \in Nat
  BY <1>1, ManyFinite
<1> HIDE DEF f
<1>7. Cardinality(A) = Cardinality(At(r, T))
  <2> HIDE DEF A
  <2> QED BY <1>3, <1>4, <1>5, <1>6, MappedCount
<1>8. Cardinality(A) = IF i \in At(q, T) THEN Cardinality(At(q, T)) - 1 ELSE Cardinality(At(q, T))
  BY <1>6, FS_RemoveElement
<1>9. i \in At(q, T) <=> q[i] \in T
  BY DEF At
<1> QED BY <1>6, <1>7, <1>8, <1>9 DEF Many, r
\* The plain writes of a line and its direct stores, as counts over the queues.
PlainOf(l) == {x \in WriteRec : x.line = l /\ x.way = 0}
DirectOf(l) == {x \in DirectRec : x.line = l}
WayWritten(l) == \E i \in DOMAIN writes : writes[i].line = l /\ writes[i].way # 0

\* Plain writes are counted in the queue.
LEMMA PlainCount ==
  ASSUME NEW q \in Seq(WriteRec), NEW l
  PROVE  Cardinality({j \in DOMAIN q : q[j].line = l /\ q[j].way = 0}) = Many(q, PlainOf(l))
<1> HIDE DEF WriteRec
<1>1. \A j \in DOMAIN q : q[j] \in WriteRec
  OBVIOUS
<1>2. {j \in DOMAIN q : q[j].line = l /\ q[j].way = 0} = At(q, PlainOf(l))
  BY <1>1 DEF At, PlainOf
<1> QED BY <1>2 DEF Many

\* Plain writes of a line, counted.
LEMMA PlainMany ==
  ASSUME WriteT, NEW l
  PROVE  /\ Plain(l) = Many(writes, PlainOf(l)) /\ Plain(l) \in Nat
         /\ HasWrite(l) <=> Plain(l) >= 1 \/ WayWritten(l)
         /\ Plain(l) = 0 <=> \A i \in DOMAIN writes : writes[i].line = l => writes[i].way # 0
<1> HIDE DEF WriteRec
<1>1. writes \in Seq(WriteRec)
  BY DEF WriteT
<1>2. \A i \in DOMAIN writes : writes[i] \in WriteRec
  BY <1>1
<1>3. PlainWrites(l) = At(writes, PlainOf(l))
  BY <1>2 DEF PlainWrites, At, PlainOf
<1>4. Plain(l) = Many(writes, PlainOf(l))
  BY <1>3 DEF Plain, Many
<1>5. Many(writes, PlainOf(l)) \in Nat
      /\ (Many(writes, PlainOf(l)) = 0 <=> \A i \in DOMAIN writes : writes[i] \notin PlainOf(l))
  BY <1>1, ManyFinite
<1>6. Plain(l) = 0 <=> \A i \in DOMAIN writes : writes[i].line = l => writes[i].way # 0
  BY <1>2, <1>4, <1>5 DEF PlainOf
<1> HIDE DEF Plain, Many
<1>7. HasWrite(l) <=> Plain(l) >= 1 \/ WayWritten(l)
  BY <1>4, <1>5, <1>6 DEF HasWrite, WayWritten
<1> QED BY <1>4, <1>5, <1>6, <1>7

\* Direct stores of a line, counted.
LEMMA DirectMany ==
  ASSUME DirectT, NEW l
  PROVE  /\ DirectCount(l) = Many(direct, DirectOf(l)) /\ DirectCount(l) \in Nat
         /\ DirectCount(l) = 0 <=> ~HasDirect(l)
<1> HIDE DEF DirectRec
<1>1. direct \in Seq(DirectRec)
  BY DEF DirectT
<1>2. \A i \in DOMAIN direct : direct[i] \in DirectRec
  BY <1>1
<1>3. {d \in DOMAIN direct : direct[d].line = l} = At(direct, DirectOf(l))
  BY <1>2 DEF At, DirectOf
<1>4. DirectCount(l) = Many(direct, DirectOf(l))
  BY <1>3 DEF DirectCount, Many
<1>5. Many(direct, DirectOf(l)) \in Nat
      /\ (Many(direct, DirectOf(l)) = 0 <=> \A i \in DOMAIN direct : direct[i] \notin DirectOf(l))
  BY <1>1, ManyFinite
<1> HIDE DEF Many
<1>6. DirectCount(l) = 0 <=> ~HasDirect(l)
  BY <1>2, <1>4, <1>5 DEF DirectOf, HasDirect
<1> QED BY <1>4, <1>5, <1>6

\* An acknowledged write leaves the others.
LEMMA WriteRemoved ==
  ASSUME WriteT, WriteT', NEW k \in DOMAIN writes, writes' = RemoveAt(writes, k)
  PROVE  /\ \A l : Plain(l)' = Plain(l) - (IF writes[k].line = l /\ writes[k].way = 0 THEN 1 ELSE 0)
         /\ \A l : l # writes[k].line => (HasWrite(l)' <=> HasWrite(l))
         /\ \A j \in DOMAIN writes' : \E i \in DOMAIN writes : i # k /\ writes'[j] = writes[i]
         /\ WaysApart => WaysApart'
<1> HIDE DEF WriteRec
<1>1. writes \in Seq(WriteRec)
  BY DEF WriteT
<1>2. /\ \A j \in DOMAIN writes' : \E i \in DOMAIN writes : i # k /\ writes'[j] = writes[i]
      /\ \A i \in DOMAIN writes : i # k => \E j \in DOMAIN writes' : writes'[j] = writes[i]
  BY <1>1, RemoveMembers
<1>3. ASSUME NEW l
      PROVE Plain(l)' = Plain(l) - (IF writes[k].line = l /\ writes[k].way = 0 THEN 1 ELSE 0)
  <2>1. Many(writes', PlainOf(l))
          = Many(writes, PlainOf(l)) - (IF writes[k] \in PlainOf(l) THEN 1 ELSE 0)
    BY <1>1, ManyRemove
  <2>2. writes[k] \in PlainOf(l) <=> writes[k].line = l /\ writes[k].way = 0
    <3>1. writes[k] \in WriteRec
      BY <1>1
    <3> QED BY <3>1 DEF PlainOf
  <2>3. Plain(l) = Many(writes, PlainOf(l)) /\ Plain(l)' = Many(writes', PlainOf(l))
    <3>1. Plain(l) = Many(writes, PlainOf(l))
      BY PlainMany
    <3>2. writes' \in Seq(WriteRec)
      BY DEF WriteT
    <3>3. Plain(l)' = Many(writes', PlainOf(l))
      BY <3>2, PlainCount DEF Plain, PlainWrites
    <3> QED BY <3>1, <3>3
  <2> QED BY <2>1, <2>2, <2>3
<1>4. ASSUME NEW l, l # writes[k].line PROVE HasWrite(l)' <=> HasWrite(l)
  BY <1>2, <1>4 DEF HasWrite
<1>5. ASSUME WaysApart PROVE WaysApart'
  <2>1. /\ Len(writes') = Len(writes) - 1 /\ Len(writes) \in Nat /\ writes' \in Seq(WriteRec)
        /\ \A j \in 1..Len(writes) - 1 : writes'[j] = writes[IF j < k THEN j ELSE j + 1]
    BY <1>1, RemoveFacts
  <2>2. k \in 1..Len(writes) /\ DOMAIN writes = 1..Len(writes) /\ DOMAIN writes' = 1..Len(writes) - 1
    BY <1>1, <2>1
  <2> SUFFICES ASSUME NEW i \in DOMAIN writes', NEW j \in DOMAIN writes',
                      writes'[i].way = writes'[j].way, writes'[i].way # 0
               PROVE  i = j
    BY DEF WaysApart
  <2> DEFINE a == IF i < k THEN i ELSE i + 1
             b == IF j < k THEN j ELSE j + 1
  <2>3. a \in DOMAIN writes /\ b \in DOMAIN writes /\ writes'[i] = writes[a] /\ writes'[j] = writes[b]
    BY <2>1, <2>2
  <2>4. a = b => i = j
    BY <2>1, <2>2
  <2> HIDE DEF a, b
  <2>5. a = b
    BY <1>5, <2>3 DEF WaysApart
  <2> QED BY <2>4, <2>5
<1> QED BY <1>2, <1>3, <1>4, <1>5

\* Writes are only added at the end.
LEMMA WritesExtended ==
  ASSUME WriteT, WriteT', NEW t \in Seq(WriteRec), writes' = writes \o t
  PROVE  /\ \A l : Plain(l)' = Plain(l) + Many(t, PlainOf(l))
         /\ \A l : HasWrite(l)' <=> HasWrite(l) \/ \E j \in DOMAIN t : t[j].line = l
         /\ \A j \in DOMAIN writes' : \/ j \in DOMAIN writes /\ writes'[j] = writes[j]
                                      \/ \E i \in DOMAIN t : writes'[j] = t[i] /\ j = Len(writes) + i
         /\ \A j \in DOMAIN writes : j \in DOMAIN writes' /\ writes'[j] = writes[j]
         /\ WaysApart /\ (\A j \in DOMAIN t : t[j].way = 0) => WaysApart'
<1> HIDE DEF WriteRec
<1>1. writes \in Seq(WriteRec)
  BY DEF WriteT
<1>2. /\ Len(writes) \in Nat /\ Len(t) \in Nat /\ Len(writes') = Len(writes) + Len(t)
      /\ \A j \in 1..Len(writes) : writes'[j] = writes[j]
      /\ \A j \in 1..Len(t) : writes'[Len(writes) + j] = t[j]
      /\ writes' \in Seq(WriteRec)
  BY <1>1, ConcatFacts
<1>3. DOMAIN writes = 1..Len(writes) /\ DOMAIN t = 1..Len(t)
      /\ DOMAIN writes' = 1..Len(writes) + Len(t)
  BY <1>1, <1>2
<1>4. ASSUME NEW j \in DOMAIN writes'
      PROVE  \/ j \in DOMAIN writes /\ writes'[j] = writes[j]
             \/ \E i \in DOMAIN t : writes'[j] = t[i] /\ j = Len(writes) + i
  <2>1. CASE j <= Len(writes)
    BY <1>2, <1>3, <2>1
  <2>2. CASE j > Len(writes)
    <3>1. j - Len(writes) \in 1..Len(t) /\ Len(writes) + (j - Len(writes)) = j
      BY <1>2, <1>3, <2>2
    <3> QED BY <1>2, <1>3, <3>1
  <2> QED BY <1>2, <1>3, <2>1, <2>2
<1>5. ASSUME NEW j \in DOMAIN writes PROVE j \in DOMAIN writes' /\ writes'[j] = writes[j]
  BY <1>2, <1>3
<1>6. ASSUME NEW j \in DOMAIN t
      PROVE Len(writes) + j \in DOMAIN writes' /\ writes'[Len(writes) + j] = t[j]
  BY <1>2, <1>3
<1>7. ASSUME NEW l PROVE HasWrite(l)' <=> HasWrite(l) \/ \E j \in DOMAIN t : t[j].line = l
  <2>1. ASSUME HasWrite(l)' PROVE HasWrite(l) \/ \E j \in DOMAIN t : t[j].line = l
    <3>1. PICK j \in DOMAIN writes' : writes'[j].line = l
      BY <2>1 DEF HasWrite
    <3> QED BY <1>4, <3>1 DEF HasWrite
  <2>2. ASSUME HasWrite(l) PROVE HasWrite(l)'
    BY <1>5, <2>2 DEF HasWrite
  <2>3. ASSUME NEW j \in DOMAIN t, t[j].line = l PROVE HasWrite(l)'
    <3>1. Len(writes) + j \in DOMAIN writes' /\ writes'[Len(writes) + j].line = l
      BY <1>6, <2>3
    <3> QED BY <3>1 DEF HasWrite
  <2> QED BY <2>1, <2>2, <2>3
<1>8. ASSUME NEW l PROVE Plain(l)' = Plain(l) + Many(t, PlainOf(l))
  <2>1. Many(writes', PlainOf(l)) = Many(writes, PlainOf(l)) + Many(t, PlainOf(l))
    BY <1>1, ManyConcat
  <2>2. Plain(l) = Many(writes, PlainOf(l))
    BY PlainMany
  <2>3. Plain(l)' = Many(writes', PlainOf(l))
    BY <1>2, PlainCount DEF Plain, PlainWrites
  <2> QED BY <2>1, <2>2, <2>3
<1>9. ASSUME WaysApart, \A j \in DOMAIN t : t[j].way = 0 PROVE WaysApart'
  BY <1>4, <1>5, <1>9 DEF WaysApart
<1> QED BY <1>4, <1>5, <1>7, <1>8, <1>9

\* Sending a write changes its state only.
LEMMA WritesMoved ==
  ASSUME WriteT, WriteT', DOMAIN writes' = DOMAIN writes,
         \A i \in DOMAIN writes : writes'[i].line = writes[i].line /\ writes'[i].way = writes[i].way
  PROVE  /\ \A l : Plain(l)' = Plain(l) /\ (HasWrite(l)' <=> HasWrite(l))
         /\ WaysApart => WaysApart'
<1>1. ASSUME NEW l PROVE PlainWrites(l)' = PlainWrites(l)
  BY DEF PlainWrites
<1>2. ASSUME NEW l PROVE HasWrite(l)' <=> HasWrite(l)
  BY DEF HasWrite
<1>3. WaysApart => WaysApart'
  BY DEF WaysApart
<1> QED BY <1>1, <1>2, <1>3 DEF Plain

\* One plain write.
LEMMA OnePlain ==
  ASSUME NEW x \in WriteRec, NEW l
  PROVE  /\ <<x>> \in Seq(WriteRec) /\ DOMAIN <<x>> = {1} /\ <<x>>[1] = x
         /\ Many(<<x>>, PlainOf(l)) = IF x.line = l /\ x.way = 0 THEN 1 ELSE 0
         /\ Many(<<>>, PlainOf(l)) = 0
<1> HIDE DEF WriteRec
<1>1. <<>> \in Seq(WriteRec) /\ <<x>> = Append(<<>>, x)
  OBVIOUS
<1>2. Many(<<>>, PlainOf(l)) = 0
  <2>1. \A j \in DOMAIN <<>> : <<>>[j] \notin PlainOf(l)
    OBVIOUS
  <2> QED BY <1>1, <2>1, ManyFinite
<1>3. Many(Append(<<>>, x), PlainOf(l)) = Many(<<>>, PlainOf(l)) + (IF x \in PlainOf(l) THEN 1 ELSE 0)
  BY <1>1, ManyAppend
<1>4. x \in PlainOf(l) <=> x.line = l /\ x.way = 0
  BY DEF PlainOf
<1>5. <<x>> \in Seq(WriteRec) /\ DOMAIN <<x>> = {1} /\ <<x>>[1] = x
  OBVIOUS
<1> QED BY <1>1, <1>2, <1>3, <1>4, <1>5

\* A new write leaves the others.
LEMMA WriteAppended ==
  ASSUME WriteT, WriteT', NEW line \in Lines, writes' = Append(writes, WriteOf(line, 0))
  PROVE  /\ \A l : Plain(l)' = Plain(l) + (IF l = line THEN 1 ELSE 0)
         /\ \A l : HasWrite(l)' <=> HasWrite(l) \/ l = line
         /\ \A j \in DOMAIN writes' : \/ j \in DOMAIN writes /\ writes'[j] = writes[j]
                                      \/ writes'[j].line = line /\ writes'[j].way = 0
         /\ WaysApart => WaysApart'
<1> DEFINE x == WriteOf(line, 0)
           t == <<x>>
<1>1. x \in WriteRec /\ x.line = line /\ x.way = 0
  <2>1. 0 \in 0..Ways
    BY LsuAssumption
  <2> QED BY <2>1 DEF WriteOf, WriteRec
<1> HIDE DEF WriteRec, x
<1>2. writes' = writes \o t
  BY DEF WriteT, x
<1>3. /\ t \in Seq(WriteRec) /\ DOMAIN t = {1} /\ t[1] = x
      /\ \A l : Many(t, PlainOf(l)) = IF x.line = l /\ x.way = 0 THEN 1 ELSE 0
  BY <1>1, OnePlain
<1> HIDE DEF t
<1>4. /\ \A l : Plain(l)' = Plain(l) + Many(t, PlainOf(l))
      /\ \A l : HasWrite(l)' <=> HasWrite(l) \/ \E j \in DOMAIN t : t[j].line = l
      /\ \A j \in DOMAIN writes' : \/ j \in DOMAIN writes /\ writes'[j] = writes[j]
                                   \/ \E i \in DOMAIN t : writes'[j] = t[i]
      /\ WaysApart /\ (\A j \in DOMAIN t : t[j].way = 0) => WaysApart'
  BY <1>2, <1>3, WritesExtended
<1> QED BY <1>1, <1>3, <1>4
-----------------------------------------------------------------------------
(* Steps that leave the structure alone *)

SameStores == /\ StoresApart' /\ (stores = <<>> => stores' = <<>>)
              /\ \A l : HasStore(l)' <=> HasStore(l)
              /\ \A l : HasStore(l) => /\ StoreEntry(l)'.state = StoreEntry(l).state
                                       /\ StoreEntry(l)'.hit = StoreEntry(l).hit
                                       /\ StoreEntry(l)'.valid = StoreEntry(l).valid
                                       /\ StoreEntry(l)'.requests = StoreEntry(l).requests
SameReads == /\ ReadsApart' /\ (reads = <<>> => reads' = <<>>)
             /\ \A l : HasRead(l)' <=> HasRead(l)
             /\ \A l, o : ReadBy(l, o)' <=> ReadBy(l, o)
SameWrites == /\ DOMAIN writes' = DOMAIN writes
              /\ \A i \in DOMAIN writes : writes'[i].line = writes[i].line /\ writes'[i].way = writes[i].way
              /\ \A l : Plain(l)' = Plain(l) /\ (HasWrite(l)' <=> HasWrite(l))
SameMisses == \A l : HasMiss(l)' <=> HasMiss(l)
SameDirect == \A l : DirectCount(l)' = DirectCount(l)
SameTags == \A l : (Cached(l)' <=> Cached(l)) /\ (Tagged(l)' <=> Tagged(l))
SameEvicted == \A l : Evicted(l)' <=> Evicted(l)

\* What a step does not change looks the same.
LEMMA ViewFrames ==
  /\ UNCHANGED stores /\ StoresApart => SameStores
  /\ UNCHANGED reads /\ ReadsApart => SameReads
  /\ UNCHANGED writes => SameWrites
  /\ UNCHANGED misses => SameMisses
  /\ UNCHANGED direct => SameDirect
  /\ UNCHANGED cache => SameTags
  /\ UNCHANGED evict => SameEvicted
<1>1. UNCHANGED stores /\ StoresApart => SameStores
  BY DEF SameStores, StoresApart, HasStore, StoreEntry, StoreIndex
<1>2. UNCHANGED reads /\ ReadsApart => SameReads
  BY DEF SameReads, ReadsApart, HasRead, ReadBy
<1>3. UNCHANGED writes => SameWrites
  BY DEF SameWrites, Plain, PlainWrites, HasWrite
<1>4. /\ UNCHANGED misses => SameMisses
      /\ UNCHANGED direct => SameDirect
      /\ UNCHANGED evict => SameEvicted
  BY DEF SameMisses, SameDirect, SameEvicted, HasMiss, DirectCount, Evicted
<1>5. UNCHANGED cache => SameTags
  BY DEF SameTags, Cached, Tagged
<1> QED BY <1>1, <1>2, <1>3, <1>4, <1>5

\* Admitted requests keep their instructions.
SameOps == \A k \in Nat : k < admitted => Op(k)' = Op(k)

\* Without an admission the requests stay.
LEMMA UnchangedOps == UNCHANGED ops => SameOps
BY DEF SameOps, Op

\* A store entry holds requests that are consumed.
LEMMA EntryRequests ==
  ASSUME Types, Entries, NEW l \in Lines, HasStore(l), NEW id \in ToSet(StoreEntry(l).requests)
  PROVE  id \in Nat /\ id < consumed /\ id \in Requests
<1>1. id < consumed
  BY DEF Entries
<1>2. id \in Requests
  BY RequestSets
<1>3. id \in Nat
  BY <1>2, MaxRequestsAssumption DEF Requests
<1> QED BY <1>1, <1>2, <1>3

\* The structure, when lines, ways and evicted data stay and maintenance is looked at separately.
LEMMA MostStruct ==
  ASSUME Types, PipeFacts, Struct, SameStores, SameReads, SameWrites, SameOps, consumed' = consumed,
         UNCHANGED <<misses, direct, cache, evict>>, WaysKept', Maintained'
  PROVE  Struct'
<1> USE DEF Struct
<1>0. SameMisses /\ SameDirect /\ SameTags /\ SameEvicted
  BY ViewFrames
<1>1. StoresApart' /\ ReadsApart'
  BY DEF SameStores, SameReads
<1>2. Owners'
  BY <1>0 DEF Owners, SameReads, SameStores, SameMisses
<1>3. StoreBesideMiss'
  BY <1>0 DEF StoreBesideMiss, SameStores, SameMisses
<1>4. UbWrites'
  BY <1>0 DEF UbWrites, SameStores, SameReads, SameWrites, SameTags
<1>5. DirtyExternal' /\ DirectExternal'
  BY DEF DirtyExternal, DirectExternal
<1>7. Entries'
  <2> SUFFICES ASSUME NEW l \in Lines, HasStore(l)
               PROVE  /\ StoreEntry(l).requests # <<>>
                      /\ \A id \in ToSet(StoreEntry(l).requests) :
                            id < consumed /\ Op(id)'.kind = "store" /\ Op(id)'.line = l
    BY DEF Entries, SameStores
  <2>1. \A id \in ToSet(StoreEntry(l).requests) : id \in Nat /\ id < consumed
    BY EntryRequests
  <2>2. \A id \in ToSet(StoreEntry(l).requests) : id < admitted
    BY <2>1 DEF PipeFacts
  <2> QED BY <2>1, <2>2 DEF Entries, SameOps
<1>8. OneCopy'
  BY <1>0 DEF OneCopy, SameReads, SameTags, SameStores
<1>9. EvictedAlone'
  BY <1>0 DEF EvictedAlone, SameEvicted, SameWrites, SameTags, SameReads, SameMisses, SameStores
<1>10. Fetched'
  BY <1>0 DEF Fetched, SameMisses, SameReads, SameStores
<1>11. ExternalWrites'
  BY <1>0 DEF ExternalWrites, SameWrites, SameEvicted, SameDirect
<1> QED BY <1>1, <1>2, <1>3, <1>4, <1>5, <1>7, <1>8, <1>9, <1>10, <1>11

\* The structure, when nothing but states of requests changes.
LEMMA SameStruct ==
  ASSUME Types, PipeFacts, Struct, SameStores, SameReads, SameWrites, SameOps, consumed' = consumed,
         UNCHANGED <<misses, direct, cache, evict>>,
         maintActive => maintActive' /\ issued' = issued, Maintained'
  PROVE  Struct'
<1>1. WaysKept'
  BY DEF Struct, WaysKept, WritesKnown, WaysHeld, WaysApart, SameWrites
<1> QED BY <1>1, MostStruct

\* Maintenance goes on as it was, and no request is issued.
LEMMA MaintainedKept ==
  ASSUME PipeFacts, Maintained, SameStores, SameReads, SameOps,
         UNCHANGED <<misses, direct, maintActive, consumed>>,
         maintRelease' # "none" => maintRelease # "none",
         issued' \in Nat, issued' <= issued, maintActive => issued' = issued
  PROVE  Maintained'
<1> DEFINE n == issued'
<1>1. n \in Nat /\ n <= issued /\ (maintActive => n = issued)
  OBVIOUS
<1>2. consumed \in Nat /\ issued \in Nat /\ issued <= admitted /\ admitted \in Nat
  BY DEF PipeFacts
<1> HIDE DEF n
<1>3. maintActive => /\ misses = <<>> /\ stores' = <<>> /\ direct = <<>> /\ reads' = <<>>
                     /\ n <= consumed + 1
  BY <1>1 DEF Maintained, SameStores, SameReads
<1>4. maintActive /\ n = consumed + 1 => Op(consumed)'.kind = "clean"
  <2>1. maintActive /\ n = consumed + 1 => Op(consumed).kind = "clean" /\ consumed < admitted
    BY <1>1, <1>2 DEF Maintained
  <2> QED BY <1>2, <2>1 DEF SameOps
<1>5. ASSUME NEW k \in consumed..n - 1, Op(k)'.kind = "clean" PROVE maintActive
  <2>1. k \in Nat /\ k < admitted /\ k \in consumed..issued - 1
    BY <1>1, <1>2
  <2>2. Op(k).kind = "clean"
    BY <1>5, <2>1 DEF SameOps
  <2> QED BY <2>1, <2>2 DEF Maintained
<1>6. maintRelease' # "none" => maintActive /\ n = consumed
  BY <1>1 DEF Maintained
<1>7. issued' = n
  BY DEF n
<1> QED BY <1>3, <1>4, <1>5, <1>6, <1>7 DEF Maintained

\* The structure, when nothing is issued.
LEMMA QuietStruct ==
  ASSUME Types, PipeFacts, Struct, SameStores, SameReads, SameWrites, SameOps,
         UNCHANGED <<misses, direct, cache, evict, maintActive, consumed>>,
         maintRelease' # "none" => maintRelease # "none",
         issued' \in Nat, issued' <= issued, maintActive => issued' = issued
  PROVE  Struct'
<1>1. Maintained'
  BY MaintainedKept DEF Struct
<1> QED BY <1>1, SameStruct

\* The structure, when nothing it speaks of changes.
LEMMA StillStruct ==
  ASSUME Types, PipeFacts, Struct,
         UNCHANGED <<ops, issued, consumed, buffers, queues, cache, evict, maintActive, maintRelease>>
  PROVE  Struct'
<1>1. SameStores /\ SameReads /\ SameWrites /\ SameOps
  BY ViewFrames, UnchangedOps DEF buffers, queues, Struct
<1>2. issued \in Nat
  BY DEF PipeFacts
<1> QED BY <1>1, <1>2, QuietStruct DEF buffers

\* Admission keeps the structure.
LEMMA AdmitStruct ==
  ASSUME Types, PipeFacts, Struct, NEW op \in Operations, Admit(op)
  PROVE  Struct'
<1>1. SameOps
  <2>1. ops' = Append(ops, op)
    BY DEF Admit
  <2>2. \A k \in Nat : k < admitted => k + 1 \in 1..Len(ops)
    BY DEF PipeFacts, Types, OpsT
  <2>3. \A k \in 1..Len(ops) : Append(ops, op)[k] = ops[k]
    BY DEF Types, OpsT
  <2> QED BY <2>1, <2>2, <2>3 DEF SameOps, Op
<1>2. /\ UNCHANGED <<issued, consumed, stores, reads, writes, misses, direct, cache, evict>>
      /\ UNCHANGED <<maintActive, maintRelease>>
  BY DEF Admit, AdmitRequests, buffers, queues, storage, maint
<1>3. SameStores /\ SameReads /\ SameWrites
  BY <1>2, ViewFrames DEF Struct
<1>4. issued \in Nat
  BY DEF PipeFacts
<1> QED BY <1>1, <1>2, <1>3, <1>4, QuietStruct

\* Timeouts change nothing else of an entry.
LEMMA TimersStruct ==
  ASSUME Types, Types', PipeFacts, Struct, TriggerFlush \/ AdvanceTimeouts
  PROVE  Struct'
<1>1. ASSUME NEW i \in DOMAIN stores
      PROVE  /\ stores'[i].line = stores[i].line /\ stores'[i].state = stores[i].state
             /\ stores'[i].hit = stores[i].hit /\ stores'[i].valid = stores[i].valid
             /\ stores'[i].requests = stores[i].requests
  <2>1. stores[i] \in StoreRec
    <3> HIDE DEF StoreRec
    <3> QED BY DEF Types, StoreT
  <2>2. \/ stores'[i] = stores[i]
        \/ stores'[i] = [stores[i] EXCEPT !.remaining = 0]
        \/ stores'[i] = [stores[i] EXCEPT !.remaining = IF @ = 0 THEN 0 ELSE @ - 1]
    BY DEF TriggerFlush, AdvanceTimeouts
  <2> HIDE DEF Data, Requests
  <2>3. DOMAIN stores[i] = {"line", "state", "hit", "forbidden", "remaining", "requests", "bytes", "valid"}
    BY <2>1 DEF StoreRec
  <2>4. stores'[i] = stores[i]
        \/ \E r : stores'[i] = [stores[i] EXCEPT !.remaining = r]
    BY <2>2
  <2> QED BY <2>1, <2>4 DEF StoreRec
<1>2. DOMAIN stores' = DOMAIN stores
  BY DEF TriggerFlush, AdvanceTimeouts
<1>3. SameStores
  <2>1. /\ StoresApart'
        /\ \A l : HasStore(l)' <=> HasStore(l)
        /\ \A l : HasStore(l) => \E i \in DOMAIN stores : /\ stores[i].line = l
                                                          /\ StoreEntry(l) = stores[i]
                                                          /\ StoreEntry(l)' = stores'[i]
    BY <1>1, <1>2, StoresUpdated DEF Struct
  <2>2. stores = <<>> => stores' = <<>>
    <3>1. stores \in Seq(StoreRec) /\ stores' \in Seq(StoreRec)
      BY DEF Types, StoreT
    <3> HIDE DEF StoreRec
    <3> QED BY <1>2, <3>1
  <2> QED BY <1>1, <2>1, <2>2 DEF SameStores
<1>4. /\ UNCHANGED <<ops, admitted, issued, consumed, reads, writes, misses, direct, cache, evict>>
      /\ UNCHANGED <<maintActive, maintRelease>>
  BY DEF TriggerFlush, AdvanceTimeouts, pipeVars, queues, storage, maint
<1>5. SameReads /\ SameWrites /\ SameOps /\ issued \in Nat
  BY <1>4, ViewFrames, UnchangedOps DEF Struct, PipeFacts
<1> QED BY <1>3, <1>4, <1>5, QuietStruct

\* Dispatch changes the states of requests.
LEMMA SendStruct ==
  ASSUME Types, Types', PipeFacts, Struct, NEW accepts, SendReads(accepts) \/ SendWrites(accepts)
  PROVE  Struct'
<1>1. \A x \in ReadRec : /\ Launched(x) \in ReadRec /\ Launched(Launched(x)) = Launched(x)
                         /\ Launched(x).line = x.line /\ Launched(x).owner = x.owner
  BY DEF Launched, ReadRec
<1>2. \A x \in WriteRec : /\ Launched(x) \in WriteRec /\ Launched(Launched(x)) = Launched(x)
                          /\ Launched(x).line = x.line /\ Launched(x).way = x.way
  BY DEF Launched, WriteRec
<1>3. /\ UNCHANGED <<ops, admitted, issued, consumed, stores, misses, direct, cache, evict, maintActive>>
      /\ maintRelease' # "none" => maintRelease # "none"
  BY DEF SendReads, SendWrites, PipeTick, pipeVars, buffers, storage, maint
<1> HIDE DEF ReadRec, WriteRec
<1>4. SameReads
  <2>1. CASE UNCHANGED reads
    BY <2>1, ViewFrames DEF Struct
  <2>2. CASE SendReads(accepts)
    <3>1. reads \in Seq(ReadRec) /\ reads' = Dispatched(reads, ReadCapacity, accepts)
      BY <2>2 DEF Types, ReadT, SendReads
    <3>2. \A x \in ReadRec : Launched(x) \in ReadRec /\ Launched(Launched(x)) = Launched(x)
      BY <1>1
    <3>3. /\ DOMAIN reads' = DOMAIN reads /\ reads' \in Seq(ReadRec)
          /\ \A i \in DOMAIN reads : reads'[i] = reads[i] \/ reads'[i] = Launched(reads[i])
      BY <3>1, <3>2, DispatchedFacts
    <3>4. \A i \in DOMAIN reads : reads[i] \in ReadRec
      BY <3>1
    <3>5. \A i \in DOMAIN reads : reads'[i].line = reads[i].line /\ reads'[i].owner = reads[i].owner
      BY <1>1, <3>3, <3>4
    <3>6. /\ ReadsApart' /\ \A l : HasRead(l)' <=> HasRead(l)
          /\ \A l, o : ReadBy(l, o)' <=> ReadBy(l, o)
      BY <3>3, <3>5, ReadsUpdated DEF Struct
    <3>7. reads = <<>> => reads' = <<>>
      BY <3>1, <3>3
    <3> QED BY <3>6, <3>7 DEF SameReads
  <2> QED BY <2>1, <2>2 DEF SendWrites
<1>5. SameWrites
  <2>1. CASE UNCHANGED writes
    BY <2>1, ViewFrames
  <2>2. CASE SendWrites(accepts)
    <3>1. writes \in Seq(WriteRec) /\ writes' = Dispatched(writes, WriteCapacity, accepts)
      BY <2>2 DEF Types, WriteT, SendWrites
    <3>2. \A x \in WriteRec : Launched(x) \in WriteRec /\ Launched(Launched(x)) = Launched(x)
      BY <1>2
    <3>3. /\ DOMAIN writes' = DOMAIN writes
          /\ \A i \in DOMAIN writes : writes'[i] = writes[i] \/ writes'[i] = Launched(writes[i])
      BY <3>1, <3>2, DispatchedFacts
    <3>4. \A i \in DOMAIN writes : writes[i] \in WriteRec
      BY <3>1
    <3>5. \A i \in DOMAIN writes : writes'[i].line = writes[i].line /\ writes'[i].way = writes[i].way
      BY <1>2, <3>3, <3>4
    <3>6. \A l : Plain(l)' = Plain(l) /\ (HasWrite(l)' <=> HasWrite(l))
      BY <3>3, <3>5, WritesMoved DEF Types
    <3> QED BY <3>3, <3>5, <3>6 DEF SameWrites
  <2> QED BY <2>1, <2>2 DEF SendReads
<1>6. SameStores /\ SameOps /\ issued \in Nat
  BY <1>3, ViewFrames, UnchangedOps DEF Struct, PipeFacts
<1> QED BY <1>3, <1>4, <1>5, <1>6, QuietStruct

\* Steps of the pipeline and of the phases that change no buffer.
LEMMA IdleStruct ==
  ASSUME Types, PipeFacts, Struct,
         M1 \/ BlockM0 \/ DrainM0 \/ EndFlush \/ ErrorReturn \/ Skip \/ UNCHANGED vars
  PROVE  Struct'
<1>1. CASE M1 \/ BlockM0 \/ DrainM0
  BY <1>1, StillStruct DEF M1, BlockM0, DrainM0, AdvanceM1, HoldM0, storage, maint
<1>2. CASE EndFlush \/ UNCHANGED vars
  BY <1>2, StillStruct DEF EndFlush, vars, pipeVars, storage, maint
<1>3. CASE ErrorReturn
  BY <1>3, StillStruct DEF ErrorReturn, Fail, pipeVars, storage, maint
<1>4. CASE Skip
  BY <1>4, StillStruct DEF Skip, Pass, pipeVars, storage, maint
<1> QED BY <1>1, <1>2, <1>3, <1>4

\* A blocked request is no clean, so there is no maintenance.
LEMMA ReplayStruct ==
  ASSUME Types, IInv, Struct, NEW stage \in {"M1", "M2"}, ReplayStage(stage)
  PROVE  Struct'
<1>0. PipeFacts
  BY PipeNumbers
<1> DEFINE n == HeadRequest(stage)
<1>1. n \in Nat /\ consumed <= n /\ n < issued
  <2>1. Len(m2) \in Nat
    BY Facts
  <2>2. CASE stage = "M1"
    <3>1. m1 # <<>> /\ n = Head(m1).request
      BY <2>2 DEF ReplayStage, Replay, Evaluates, HeadReady, HasHead, HeadRequest
    <3>2. Head(m1).request = consumed + Len(m2) /\ consumed + Len(m2) < issued
      BY <3>1, HeadIssued
    <3> QED BY <1>0, <2>1, <3>1, <3>2 DEF PipeFacts
  <2>3. CASE stage = "M2"
    <3>1. m2 # <<>> /\ n = Head(m2).request
      BY <2>3 DEF ReplayStage, Replay, Evaluates, HeadReady, HasHead, HeadRequest
    <3>2. Head(m2).request = consumed /\ consumed < issued
      BY <3>1, HeadIssued
    <3> QED BY <1>0, <3>1, <3>2 DEF PipeFacts
  <2> QED BY <2>2, <2>3
<1>2. issued' = n /\ Hazard(n)
  BY DEF ReplayStage, Replay
<1> HIDE DEF n
<1>3. ~maintActive
  <2> SUFFICES ASSUME maintActive PROVE FALSE
    OBVIOUS
  <2>1. issued <= consumed + 1 /\ (issued = consumed + 1 => Op(consumed).kind = "clean")
    BY DEF Struct, Maintained
  <2>2. n = consumed /\ issued = consumed + 1
    BY <1>0, <1>1, <2>1 DEF PipeFacts
  <2> QED BY <1>2, <2>1, <2>2 DEF Hazard
<1>4. /\ UNCHANGED <<ops, consumed, stores, reads, writes, misses, direct, cache, evict>>
      /\ UNCHANGED <<maintActive, maintRelease>>
  BY DEF ReplayStage, Replay, buffers, queues, storage, maint
<1>5. SameStores /\ SameReads /\ SameWrites /\ SameOps
  BY <1>4, ViewFrames, UnchangedOps DEF Struct
<1>6. n <= issued
  BY <1>0, <1>1 DEF PipeFacts
<1> QED BY <1>0, <1>1, <1>2, <1>3, <1>4, <1>5, <1>6, QuietStruct

\* M0 lets a clean go when the unit is empty.
LEMMA IssueStruct ==
  ASSUME Types, IInv, Struct, M0
  PROVE  Struct'
<1>0. PipeFacts
  BY PipeNumbers
<1>1. /\ Evaluates("M0") /\ issued' = issued + 1 /\ ~maintActive /\ ~NeedsDrain(issued)
      /\ maintActive' = (Op(issued).kind = "clean")
      /\ UNCHANGED <<ops, consumed, stores, reads, writes, misses, direct, cache, evict, maintRelease>>
  BY DEF M0, IssueM0, buffers, queues, storage
<1>2. SameStores /\ SameReads /\ SameWrites /\ SameOps
  BY <1>1, ViewFrames, UnchangedOps DEF Struct
<1>3. \A k \in consumed..issued - 1 : Op(k).kind # "clean"
  BY <1>1 DEF Struct, Maintained
<1>4. issued < admitted
  BY <1>1, M0Request
<1>5. maintRelease = "none"
  BY <1>1 DEF Struct, Maintained
<1>6. CASE Op(issued).kind = "clean"
  <2>1. m1 = <<>> /\ m2 = <<>> /\ misses = <<>> /\ stores = <<>> /\ direct = <<>>
    BY <1>1, <1>6 DEF NeedsDrain
  <2>2. issued = consumed
    <3>1. issued = consumed + Len(m2) + Len(m1)
      BY DEF IInv, InFlightInOrder
    <3>2. Len(m1) = 0 /\ Len(m2) = 0
      BY <2>1
    <3> QED BY <1>0, <3>1, <3>2 DEF PipeFacts
  <2>3. reads = <<>>
    <3>1. \A l \in Lines : ~HasStore(l) /\ ~HasMiss(l)
      BY <2>1 DEF HasStore, HasMiss
    <3>2. \A l \in Lines : ~HasRead(l)
      BY <3>1, ReadOwners DEF Struct, Owners
    <3>3. \A i \in DOMAIN reads : FALSE
      BY <3>2, QueueItems DEF HasRead
    <3>4. reads \in Seq(ReadRec)
      BY DEF Types, ReadT
    <3> HIDE DEF ReadRec
    <3> QED BY <3>3, <3>4
  <2>4. \A k \in consumed..issued' - 1 : Op(k).kind = "clean"
    BY <1>0, <1>1, <1>6, <2>2 DEF PipeFacts
  <2>5. issued' = consumed + 1
    BY <1>1, <2>2
  <2>6. Op(consumed).kind = "clean" /\ Op(consumed)' = Op(consumed)
    BY <1>1, <1>6, <2>2 DEF Op
  <2>7. Maintained'
    <3>1. issued' <= consumed + 1
      BY <1>0, <2>5 DEF PipeFacts
    <3> QED BY <1>1, <1>5, <1>6, <2>1, <2>3, <2>6, <3>1 DEF Maintained
  <2> QED BY <1>0, <1>1, <1>2, <2>7, SameStruct
<1>7. CASE Op(issued).kind # "clean"
  <2>1. \A k \in consumed..issued' - 1 : Op(k)'.kind # "clean"
    <3>1. \A k \in consumed..issued' - 1 : k \in consumed..issued - 1 \/ k = issued
      BY <1>0, <1>1 DEF PipeFacts
    <3>2. \A k : Op(k)' = Op(k)
      BY <1>1 DEF Op
    <3> QED BY <1>3, <1>7, <3>1, <3>2
  <2>2. Maintained'
    BY <1>1, <1>5, <1>7, <2>1 DEF Maintained
  <2> QED BY <1>0, <1>1, <1>2, <2>2, SameStruct
<1> QED BY <1>6, <1>7

\* Maintenance ends with its last write.
LEMMA ReleaseStruct ==
  ASSUME Types, IInv, Struct, ReleaseMaintenance
  PROVE  Struct'
<1>0. PipeFacts
  BY PipeNumbers
<1>1. /\ maintRelease = "now" /\ ~maintActive' /\ maintRelease' = "none"
      /\ \A i \in DOMAIN writes : ~External(writes[i].line)
      /\ UNCHANGED <<ops, consumed, issued, stores, reads, writes, misses, direct, cache, evict>>
  BY DEF ReleaseMaintenance, buffers, queues, storage, pipeVars
<1>2. SameStores /\ SameReads /\ SameWrites /\ SameOps
  BY <1>1, ViewFrames, UnchangedOps DEF Struct
<1>4. WaysKept'
  <2>1. \A i \in DOMAIN writes : writes[i].way = 0
    BY <1>1 DEF Struct, WaysKept, WaysHeld
  <2> QED BY <1>1, <2>1 DEF Struct, WaysKept, WritesKnown, WaysHeld, WaysApart
<1>5. Maintained'
  <2>1. \A k \in consumed..issued - 1 : FALSE
    BY <1>0, <1>1 DEF Struct, Maintained, PipeFacts
  <2> QED BY <1>1, <2>1 DEF Maintained
<1> QED
  BY <1>0, <1>1, <1>2, <1>4, <1>5, MostStruct
-----------------------------------------------------------------------------
(* The structure, line by line *)

SingleWay ==
  \A v, w \in 1..Ways : cache[v].valid /\ cache[w].valid /\ cache[v].line = cache[w].line
                        /\ cache[v].line \in Lines => v = w

Whole == /\ StoresApart /\ ReadsApart /\ DirtyExternal /\ WaysKept /\ DirectExternal /\ Maintained
         /\ SingleWay

OfReads(l) ==
  /\ ReadBy(l, "Miss") => HasMiss(l) /\ misses[l].state = "Fetching"
  /\ ReadBy(l, "Store") => HasStore(l) /\ StoreEntry(l).state = "Fetching"
  /\ HasRead(l) => ~Cached(l)

OfStores(l) ==
  /\ HasMiss(l) /\ HasStore(l) => StoreEntry(l).state # "Idle"
  /\ HasStore(l) /\ StoreEntry(l).state = "Idle" /\ ~StoreEntry(l).hit => ~Cached(l)

OfEntry(l) ==
  HasStore(l) =>
    /\ StoreEntry(l).requests # <<>>
    /\ \A id \in ToSet(StoreEntry(l).requests) :
         id < consumed /\ Op(id).kind = "store" /\ Op(id).line = l

OfUb(l) ==
  Ub(l) /\ HasWrite(l) =>
    /\ Plain(l) = 1
    /\ ~HasRead(l)
    /\ HasStore(l) => /\ StoreEntry(l).state # "Idle"
                      /\ UbWriteAllocate => StoreEntry(l).valid = Offsets
    /\ ~HasStore(l) => Tagged(l)

OfExternal(l) ==
  External(l) =>
    /\ HasMiss(l) => HasRead(l)
    /\ HasStore(l) => StoreEntry(l).state \in {"Idle", "Fetching"}
    /\ HasStore(l) /\ StoreEntry(l).state = "Fetching" => HasRead(l)
    /\ Plain(l) <= (IF Evicted(l) THEN 1 ELSE 0) + DirectCount(l)

OfEvicted(l) ==
  Evicted(l) =>
    /\ Plain(l) >= 1
    /\ ~Cached(l) /\ ~HasRead(l) /\ ~HasMiss(l)
    /\ HasStore(l) => StoreEntry(l).state = "Idle" /\ StoreEntry(l).hit

OfLine(l) == OfReads(l) /\ OfStores(l) /\ OfEntry(l) /\ OfUb(l) /\ OfExternal(l) /\ OfEvicted(l)

\* The structure is a matter of each line by itself and of a few parts of the whole.
LEMMA StructByLine ==
  /\ Struct <=> Whole /\ \A l \in Lines : OfLine(l)
  /\ Whole' /\ (\A l \in Lines : OfLine(l)') => Struct'
<1>1. Struct => Whole /\ \A l \in Lines : OfLine(l)
  BY DEF Struct, Whole, OfLine, OfReads, OfStores, OfEntry, OfUb, OfExternal, OfEvicted, SingleWay,
         Owners, StoreBesideMiss, UbWrites, Entries, OneCopy, EvictedAlone, Fetched, ExternalWrites
<1>2. ASSUME Whole, \A l \in Lines : OfLine(l) PROVE Struct
  <2>1. Owners /\ StoreBesideMiss /\ OneCopy
    BY <1>2 DEF OfLine, OfReads, OfStores, Owners, StoreBesideMiss, OneCopy, Whole, SingleWay
  <2>2. Entries
    BY <1>2 DEF OfLine, OfEntry, Entries
  <2>3. UbWrites /\ EvictedAlone
    BY <1>2 DEF OfLine, OfUb, OfEvicted, UbWrites, EvictedAlone
  <2>4. Fetched /\ ExternalWrites
    BY <1>2 DEF OfLine, OfExternal, Fetched, ExternalWrites
  <2> QED BY <1>2, <2>1, <2>2, <2>3, <2>4 DEF Struct, Whole
<1>3. ASSUME Whole', \A l \in Lines : OfLine(l)' PROVE Struct'
  <2>1. Owners' /\ StoreBesideMiss' /\ OneCopy'
    BY <1>3 DEF OfLine, OfReads, OfStores, Owners, StoreBesideMiss, OneCopy, Whole, SingleWay
  <2>2. Entries'
    BY <1>3 DEF OfLine, OfEntry, Entries
  <2>3. UbWrites' /\ EvictedAlone'
    BY <1>3 DEF OfLine, OfUb, OfEvicted, UbWrites, EvictedAlone
  <2>4. Fetched' /\ ExternalWrites'
    BY <1>3 DEF OfLine, OfExternal, Fetched, ExternalWrites
  <2> QED BY <1>3, <2>1, <2>2, <2>3, <2>4 DEF Struct, Whole
<1> QED BY <1>1, <1>2, <1>3

SameStore(l) == /\ HasStore(l)' <=> HasStore(l)
                /\ HasStore(l) => StoreEntry(l)' = StoreEntry(l)
SameMiss(l) == /\ HasMiss(l)' <=> HasMiss(l)
               /\ HasMiss(l) => misses'[l] = misses[l]
SameRead(l) == /\ HasRead(l)' <=> HasRead(l)
               /\ \A o : ReadBy(l, o)' <=> ReadBy(l, o)
SameWrite(l) == Plain(l)' = Plain(l) /\ (HasWrite(l)' <=> HasWrite(l))
SameWay(l) == (Cached(l)' <=> Cached(l)) /\ (Tagged(l)' <=> Tagged(l))
SameEvict(l) == Evicted(l)' <=> Evicted(l)
SameCount(l) == DirectCount(l)' = DirectCount(l)
SameLine(l) == /\ SameStore(l) /\ SameMiss(l) /\ SameRead(l) /\ SameWrite(l)
               /\ SameWay(l) /\ SameEvict(l) /\ SameCount(l)

\* What a step leaves alone it leaves alone for each line.
LEMMA UnchangedParts ==
  ASSUME NEW l
  PROVE  /\ UNCHANGED stores => SameStore(l)
         /\ UNCHANGED misses => SameMiss(l)
         /\ UNCHANGED reads => SameRead(l)
         /\ UNCHANGED writes => SameWrite(l)
         /\ UNCHANGED cache => SameWay(l)
         /\ UNCHANGED evict => SameEvict(l)
         /\ UNCHANGED direct => SameCount(l)
<1>1. UNCHANGED stores => SameStore(l)
  BY DEF SameStore, HasStore, StoreEntry, StoreIndex
<1>2. UNCHANGED misses => SameMiss(l)
  BY DEF SameMiss, HasMiss
<1>3. UNCHANGED reads => SameRead(l)
  BY DEF SameRead, HasRead, ReadBy
<1>4. UNCHANGED writes => SameWrite(l)
  BY DEF SameWrite, Plain, PlainWrites, HasWrite
<1>5. UNCHANGED cache => SameWay(l)
  BY DEF SameWay, Cached, Tagged
<1>6. UNCHANGED evict => SameEvict(l)
  BY DEF SameEvict, Evicted
<1>7. UNCHANGED direct => SameCount(l)
  BY DEF SameCount, DirectCount
<1> QED BY <1>1, <1>2, <1>3, <1>4, <1>5, <1>6, <1>7

\* An entry's requests stay what they were as long as the entry does.
LEMMA EntryKept ==
  ASSUME Types, PipeFacts, Struct, SameOps, consumed' \in Nat, consumed' >= consumed,
         NEW l \in Lines, HasStore(l)' => HasStore(l) /\ StoreEntry(l)'.requests = StoreEntry(l).requests
  PROVE  OfEntry(l)'
<1> DEFINE n == consumed'
<1>1. n \in Nat /\ n >= consumed /\ consumed' = n
  OBVIOUS
<1> HIDE DEF n
<1>2. Entries
  BY DEF Struct
<1> SUFFICES ASSUME HasStore(l), StoreEntry(l)'.requests = StoreEntry(l).requests
             PROVE  /\ StoreEntry(l).requests # <<>>
                    /\ \A id \in ToSet(StoreEntry(l).requests) :
                          id < n /\ Op(id)'.kind = "store" /\ Op(id)'.line = l
  BY <1>1 DEF OfEntry
<1>3. \A id \in ToSet(StoreEntry(l).requests) : id \in Nat /\ id < consumed
  BY <1>2, EntryRequests
<1>4. \A id \in ToSet(StoreEntry(l).requests) : id < admitted /\ id < n
  BY <1>1, <1>3 DEF PipeFacts
<1> QED BY <1>2, <1>3, <1>4 DEF Entries, SameOps

\* A line that a step does not touch keeps its structure.
LEMMA OtherLine ==
  ASSUME Types, PipeFacts, Struct, SameOps, consumed' \in Nat, consumed' >= consumed,
         NEW l \in Lines, SameLine(l)
  PROVE  OfLine(l)'
<1>0. OfLine(l)
  BY StructByLine
<1>1. SameStore(l) /\ SameMiss(l) /\ SameRead(l) /\ SameWrite(l) /\ SameWay(l) /\ SameEvict(l) /\ SameCount(l)
  BY DEF SameLine
<1>2. OfReads(l)' /\ OfStores(l)'
  BY <1>0, <1>1 DEF OfLine, OfReads, OfStores, SameStore, SameMiss, SameRead, SameWay
<1>3. OfEntry(l)'
  BY <1>1, EntryKept DEF SameStore
<1>4. OfUb(l)'
  BY <1>0, <1>1 DEF OfLine, OfUb, SameStore, SameRead, SameWrite, SameWay
<1>5. OfExternal(l)'
  BY <1>0, <1>1 DEF OfLine, OfExternal, SameStore, SameMiss, SameRead, SameWrite, SameEvict, SameCount
<1>6. OfEvicted(l)'
  BY <1>0, <1>1 DEF OfLine, OfEvicted, SameStore, SameMiss, SameRead, SameWrite, SameWay, SameEvict
<1> QED BY <1>2, <1>3, <1>4, <1>5, <1>6 DEF OfLine

\* Nothing starts maintenance but M0 and M2.
LEMMA NoMaintenance ==
  ASSUME PipeFacts, Maintained, ~maintActive, UNCHANGED <<maintActive, maintRelease, issued>>, SameOps,
         consumed' \in Nat, consumed' >= consumed
  PROVE  Maintained'
<1> DEFINE n == consumed'
<1>1. n \in Nat /\ n >= consumed /\ consumed' = n
  OBVIOUS
<1> HIDE DEF n
<1>2. \A k \in n..issued - 1 : k \in consumed..issued - 1 /\ k \in Nat /\ k < admitted
  BY <1>1 DEF PipeFacts
<1>3. \A k \in n..issued - 1 : Op(k)'.kind # "clean"
  BY <1>2 DEF Maintained, SameOps
<1>4. maintRelease = "none"
  BY DEF Maintained
<1> QED BY <1>1, <1>3, <1>4 DEF Maintained

\* The conditions of maintenance do not mention what the memories hold.
LEMMA MaintenanceGoesOn ==
  ASSUME Maintained, UNCHANGED <<ops, issued, consumed, maintActive, maintRelease, misses, stores, reads>>,
         direct = <<>> => direct' = <<>>
  PROVE  Maintained'
BY DEF Maintained, Op

\* Without maintenance no write is of a way.
LEMMA NoWays ==
  ASSUME Types, Struct, ~maintActive
  PROVE  /\ \A i \in DOMAIN writes : writes[i].way = 0
         /\ \A l : HasWrite(l) <=> Plain(l) >= 1
<1>1. \A i \in DOMAIN writes : writes[i].way = 0
  BY DEF Struct, WaysKept, WaysHeld
<1> QED BY <1>1, PlainMany DEF Types, WayWritten

\* Ways that stay keep their lines apart.
LEMMA SingleWayKept == UNCHANGED cache /\ Struct => SingleWay' /\ DirtyExternal'
BY DEF SingleWay, Struct, OneCopy, DirtyExternal

\* External lines differ in their addresses.
LEMMA SameAddress ==
  ASSUME NEW k \in Lines \cup {ZeroLine}, NEW l \in Lines \cup {ZeroLine}, External(k), External(l), k[2] = l[2]
  PROVE  k = l
<1>1. Lines \subseteq {"Ub", "External"} \X Nat
  BY LsuAssumption
<1>2. k \in {"Ub", "External"} \X Nat /\ l \in {"Ub", "External"} \X Nat
  BY <1>1 DEF ZeroLine
<1>3. k = <<k[1], k[2]>> /\ l = <<l[1], l[2]>>
  BY <1>2
<1> QED BY <1>3 DEF External
-----------------------------------------------------------------------------
(* The structure: M2 *)

\* Outside maintenance, the parts of the structure that are not about one line.
LEMMA FreeWhole ==
  ASSUME Types, Types', PipeFacts, Struct, ~maintActive, UNCHANGED <<maintActive, maintRelease, issued>>,
         SameOps, consumed' \in Nat, consumed' >= consumed,
         \A j \in DOMAIN writes' : \/ \E i \in DOMAIN writes : writes'[j] = writes[i]
                                   \/ writes'[j].way = 0 /\ writes'[j].line \in Lines,
         StoresApart', ReadsApart', DirtyExternal', DirectExternal', SingleWay'
  PROVE  Whole'
<1>1. Maintained'
  BY NoMaintenance DEF Struct
<1>2. \A j \in DOMAIN writes' : writes'[j].way = 0 /\ writes'[j].line \in Lines
  BY NoWays DEF Struct, WaysKept, WritesKnown
<1>3. WaysKept'
  BY <1>2 DEF WaysKept, WritesKnown, WaysHeld, WaysApart
<1> QED BY <1>1, <1>3 DEF Whole

\* Only a clean reaches M2 during maintenance.
LEMMA M2Free ==
  ASSUME Types, IInv, Struct, NEW kinds, AtM2(kinds), "clean" \notin kinds
  PROVE  /\ ~maintActive /\ PipeFacts /\ SameOps
         /\ consumed' \in Nat /\ consumed' >= consumed /\ consumed' = consumed + 1 /\ UNCHANGED issued
         /\ consumed < admitted /\ consumed \in Nat /\ Op(consumed).line \in Lines
         /\ Op(consumed).kind \in kinds /\ ~Hazard(consumed)
         /\ UNCHANGED <<ops, lookup>>
<1>1. /\ PipeFacts /\ consumed < admitted /\ consumed < issued
      /\ Op(consumed).kind \in kinds /\ ~Hazard(consumed)
      /\ AdvanceM2 /\ UNCHANGED <<ops, lookup>> /\ Op(consumed).line \in Lines
  BY AtM2Facts
<1>2. consumed' = consumed + 1 /\ issued' = issued
  BY <1>1, M2Request
<1>3. ~maintActive
  <2> SUFFICES ASSUME maintActive PROVE FALSE
    OBVIOUS
  <2>1. issued <= consumed + 1 /\ (issued = consumed + 1 => Op(consumed).kind = "clean")
    BY DEF Struct, Maintained
  <2> QED BY <1>1, <2>1 DEF PipeFacts
<1>4. SameOps
  BY <1>1, UnchangedOps
<1>5. consumed \in Nat /\ consumed' \in Nat /\ consumed' >= consumed
  BY <1>1, <1>2 DEF PipeFacts
<1> QED BY <1>1, <1>2, <1>3, <1>4, <1>5

\* A hit keeps the structure.
LEMMA HitStruct ==
  ASSUME Types, Types', IInv, Struct, LoadHit(consumed) \/ PreloadHit(consumed)
  PROVE  Struct'
<1>1. PICK kinds : AtM2(kinds) /\ "clean" \notin kinds
  <2>1. LoadHit(consumed) => AtM2({"load"})
    BY DEF LoadHit
  <2>2. PreloadHit(consumed) => AtM2({"preload"})
    BY DEF PreloadHit
  <2> QED BY <2>1, <2>2
<1>2. UNCHANGED <<misses, stores, direct, reads, writes, cache, evict, maintActive, maintRelease>>
  BY DEF LoadHit, PreloadHit, buffers, queues, storage, maint
<1>3. /\ ~maintActive /\ PipeFacts /\ SameOps
      /\ consumed' \in Nat /\ consumed' >= consumed /\ UNCHANGED issued
  BY <1>1, M2Free
<1>4. SingleWay' /\ DirtyExternal'
  BY <1>2, SingleWayKept
<1>5. StoresApart' /\ ReadsApart' /\ DirectExternal'
  BY <1>2 DEF Struct, StoresApart, ReadsApart, DirectExternal
<1>6. Whole'
  BY <1>2, <1>3, <1>4, <1>5, FreeWhole
<1>7. \A l \in Lines : OfLine(l)'
  BY <1>2, <1>3, UnchangedParts, OtherLine DEF SameLine
<1> QED BY <1>6, <1>7, StructByLine

\* ST_DEV keeps the structure.
LEMMA DirectStoreStruct ==
  ASSUME Types, Types', IInv, Struct, DirectStoreM2(consumed)
  PROVE  Struct'
<1> DEFINE line == Op(consumed).line
<1>1. /\ ~maintActive /\ PipeFacts /\ SameOps
      /\ consumed' \in Nat /\ consumed' >= consumed /\ UNCHANGED issued
      /\ Op(consumed).kind = "direct" /\ Op(consumed) \in Operations
  <2>1. AtM2({"direct"})
    BY DEF DirectStoreM2
  <2>2. Op(consumed) \in Operations
    BY <2>1, M2Free, OpFacts DEF Types
  <2> QED BY <2>1, <2>2, M2Free
<1>2. UNCHANGED <<misses, stores, reads, writes, cache, evict, maintActive, maintRelease>>
  BY DEF DirectStoreM2, queues, storage, maint
<1>3. External(line)
  BY <1>1, LsuAssumption
<1>4. PICK d \in DirectRec : d.line = line /\ direct' = Append(direct, d)
  <2> DEFINE d == [line |-> line, request |-> consumed,
                   bytes |-> [o \in Offsets |-> IF o \in Op(consumed).bytes THEN consumed + 1 ELSE 0]]
  <2>1. direct' = Append(direct, d)
    BY DEF DirectStoreM2
  <2>2. direct \in Seq(DirectRec) /\ direct' \in Seq(DirectRec)
    BY DEF Types, DirectT
  <2>3. direct'[Len(direct')] = d /\ Len(direct') \in DOMAIN direct'
    <3> HIDE DEF d, DirectRec
    <3> QED BY <2>1, <2>2
  <2>4. d \in DirectRec
    <3> HIDE DEF d, DirectRec
    <3> QED BY <2>2, <2>3
  <2>5. d.line = line
    OBVIOUS
  <2> HIDE DEF d, DirectRec
  <2> QED BY <2>1, <2>4, <2>5
<1>5. DirectExternal'
  <2>1. \A i \in DOMAIN direct' : direct'[i] = d \/ (i \in DOMAIN direct /\ direct'[i] = direct[i])
    <3> HIDE DEF DirectRec
    <3> QED BY <1>4 DEF Types, DirectT
  <2> QED BY <1>3, <1>4, <2>1 DEF Struct, DirectExternal
<1>6. \A l : DirectCount(l) \in Nat /\ DirectCount(l)' \in Nat /\ DirectCount(l)' >= DirectCount(l)
  <2> TAKE l
  <2>1. DirectT /\ DirectT'
    BY DEF Types
  <2>2. DirectCount(l) \in Nat /\ DirectCount(l) = Many(direct, DirectOf(l))
    BY <2>1, DirectMany
  <2>3. DirectCount(l)' = Many(direct', DirectOf(l))
    <3>1. \A q \in Seq(DirectRec) : Cardinality({j \in DOMAIN q : q[j].line = l}) = Many(q, DirectOf(l))
      <4> TAKE q \in Seq(DirectRec)
      <4>1. \A j \in DOMAIN q : q[j] \in DirectRec
        <5> HIDE DEF DirectRec
        <5> QED OBVIOUS
      <4> HIDE DEF DirectRec
      <4>2. {j \in DOMAIN q : q[j].line = l} = At(q, DirectOf(l))
        BY <4>1 DEF At, DirectOf
      <4> QED BY <4>2 DEF Many
    <3> QED BY <2>1, <3>1 DEF DirectT, DirectCount
  <2>4. Many(direct', DirectOf(l)) = Many(direct, DirectOf(l)) + (IF d \in DirectOf(l) THEN 1 ELSE 0)
    <3> HIDE DEF DirectRec
    <3> QED BY <1>4, <2>1, ManyAppend DEF DirectT
  <2> QED BY <2>2, <2>3, <2>4
<1>7. SingleWay' /\ DirtyExternal'
  BY <1>2, SingleWayKept
<1>8. StoresApart' /\ ReadsApart'
  BY <1>2 DEF Struct, StoresApart, ReadsApart
<1>9. Whole'
  BY <1>1, <1>2, <1>5, <1>7, <1>8, FreeWhole
<1>10. ASSUME NEW l \in Lines PROVE OfLine(l)'
  <2>1. SameStore(l) /\ SameMiss(l) /\ SameRead(l) /\ SameWrite(l) /\ SameWay(l) /\ SameEvict(l)
    BY <1>2, UnchangedParts
  <2>2. OfLine(l)
    BY StructByLine
  <2>3. OfReads(l)' /\ OfStores(l)'
    BY <2>1, <2>2 DEF OfLine, OfReads, OfStores, SameStore, SameMiss, SameRead, SameWay
  <2>4. OfEntry(l)'
    BY <1>1, <2>1, EntryKept DEF SameStore
  <2>5. OfUb(l)'
    BY <2>1, <2>2 DEF OfLine, OfUb, SameStore, SameRead, SameWrite, SameWay
  <2>6. OfExternal(l)'
    <3>1. Plain(l) \in Nat
      BY PlainMany DEF Types
    <3> QED BY <1>6, <2>1, <2>2, <3>1
        DEF OfLine, OfExternal, SameStore, SameMiss, SameRead, SameWrite, SameEvict
  <2>7. OfEvicted(l)'
    BY <2>1, <2>2 DEF OfLine, OfEvicted, SameStore, SameMiss, SameRead, SameWrite, SameWay, SameEvict
  <2> QED BY <2>3, <2>4, <2>5, <2>6, <2>7 DEF OfLine
<1> QED BY <1>9, <1>10, StructByLine

\* A lookup of zero that is not stale: the line is in no way.
LEMMA NotStale ==
  ASSUME NEW id, lookup[id + 1] = 0, ~Stale(id)
  PROVE  ~Cached(Op(id).line)
BY TagSearch DEF Stale

\* A store that joins or starts an entry keeps the structure.
LEMMA StoreM2Struct ==
  ASSUME Types, Types', IInv, Struct, StoreM2(consumed), ~raced'
  PROVE  Struct'
<1>0. PICK line \in Lines : line = Op(consumed).line
  <2>1. AtM2({"store"})
    BY DEF StoreM2
  <2> QED BY <2>1, M2Free
<1>1. /\ ~maintActive /\ PipeFacts /\ SameOps
      /\ consumed' \in Nat /\ consumed' >= consumed /\ consumed' = consumed + 1 /\ UNCHANGED issued
      /\ Op(consumed).kind = "store" /\ ~Hazard(consumed)
      /\ consumed \in Nat /\ consumed < admitted /\ UNCHANGED ops
  <2>1. AtM2({"store"})
    BY DEF StoreM2
  <2> QED BY <2>1, M2Free
<1>2. UNCHANGED <<misses, direct, reads, writes, cache, evict, maintActive, maintRelease>>
  BY DEF StoreM2, queues, storage, maint
<1>3. ~HasMiss(line) /\ ~HasWrite(line)
  BY <1>0, <1>1 DEF Hazard, StoreHazard
<1>4. lookup[consumed + 1] = 0 => ~Cached(line)
  <2>1. ~Stale(consumed)
    BY DEF StoreM2
  <2> QED BY <1>0, <2>1, NotStale
<1>5. ~Evicted(line)
  <2>1. HasWrite(line) <=> Plain(line) >= 1
    BY <1>1, NoWays
  <2>2. OfEvicted(line)
    BY <1>1, StructByLine DEF OfLine
  <2> QED BY <1>3, <2>1, <2>2 DEF OfEvicted
<1> DEFINE known == \A id \in ToSet(StoreEntry(line)'.requests) :
                      id < consumed' /\ Op(id)'.kind = "store" /\ Op(id)'.line = line
<1>6. /\ StoresApart' /\ HasStore(line)' /\ known /\ StoreEntry(line)'.requests # <<>>
      /\ HasStore(line) => /\ StoreEntry(line)'.state = StoreEntry(line).state
                           /\ StoreEntry(line)'.hit = StoreEntry(line).hit
      /\ ~HasStore(line) => /\ StoreEntry(line)'.state = "Idle"
                            /\ StoreEntry(line)'.hit <=> lookup[consumed + 1] # 0
      /\ \A l \in Lines : l # line => SameStore(l)
  <2> DEFINE old == IF HasStore(line) THEN StoreEntry(line) ELSE Fresh(consumed)
             new == Into(consumed, old)
  <2>1. /\ consumed \in Requests /\ consumed + 1 \in 0..MaxRequests
        /\ Op(consumed).bytes \subseteq Offsets
    <3>1. AtM2({"store"})
      BY DEF StoreM2
    <3> QED BY <3>1, AtM2Facts
  <2>2. StoreT /\ StoresApart /\ Entries
    BY DEF Types, Struct
  <2>3. old \in StoreRec /\ old.line = line
    <3> HIDE DEF StoreRec
    <3>1. CASE HasStore(line)
      BY <2>2, <3>1, StoreFacts
    <3>2. CASE ~HasStore(line)
      BY <1>0, <3>2, FreshTyped
    <3> QED BY <3>1, <3>2
  <2>4. /\ ~HasStore(line) => old.state = "Idle" /\ (old.hit <=> lookup[consumed + 1] # 0) /\ old.requests = <<>>
        /\ HasStore(line) => old = StoreEntry(line)
    BY <1>0, FreshTyped
  <2>5. /\ HasStore(line) => stores' = [stores EXCEPT ![StoreIndex(line)] = new]
        /\ ~HasStore(line) => stores' = Append(stores, new)
    BY <1>0, StoreM2Parts
  <2> HIDE DEF old
  <2>6. /\ new \in StoreRec /\ new.line = line /\ new.state = old.state /\ new.hit = old.hit
        /\ new.requests = Append(old.requests, consumed)
    BY <2>1, <2>3, IntoTyped
  <2> HIDE DEF new, StoreRec
  <2>7. /\ StoresApart' /\ HasStore(line)' /\ StoreEntry(line)' = new
        /\ \A l : l # line => /\ HasStore(l)' <=> HasStore(l)
                              /\ HasStore(l) => StoreEntry(l)' = StoreEntry(l)
    <3>1. CASE HasStore(line)
      <4>1. StoreIndex(line) \in DOMAIN stores /\ stores[StoreIndex(line)].line = line
        BY <2>2, <3>1, StoreFacts
      <4> QED BY <2>2, <2>5, <2>6, <3>1, <4>1, StoreReplaced
    <3>2. CASE ~HasStore(line)
      BY <2>2, <2>5, <2>6, <3>2, StoreAppended
    <3> QED BY <3>1, <3>2
  <2>8. old.requests \in Seq(Requests)
    BY <2>3 DEF StoreRec
  <2>9. new.requests # <<>> /\ ToSet(new.requests) \subseteq ToSet(old.requests) \cup {consumed}
    <3> HIDE DEF Requests
    <3> QED BY <2>1, <2>6, <2>8 DEF ToSet
  <2>10. \A id \in ToSet(old.requests) : id \in Nat /\ id < consumed /\ Op(id).kind = "store" /\ Op(id).line = line
    <3>1. CASE HasStore(line)
      <4>1. old = StoreEntry(line)
        BY <2>4, <3>1
      <4>2. \A id \in ToSet(StoreEntry(line).requests) : id \in Nat
        BY <1>1, <2>2, <3>1, EntryRequests
      <4> QED BY <1>1, <2>2, <3>1, <4>1, <4>2 DEF Entries
    <3>2. CASE ~HasStore(line)
      <4>1. old.requests = <<>>
        BY <2>4, <3>2
      <4> QED BY <4>1 DEF ToSet
    <3> QED BY <3>1, <3>2
  <2>11. \A id : Op(id)' = Op(id)
    BY <1>1 DEF Op
  <2>12. known
    <3>1. \A id \in ToSet(new.requests) :
            id \in Nat /\ id < consumed + 1 /\ Op(id).kind = "store" /\ Op(id).line = line
      BY <1>0, <1>1, <2>9, <2>10
    <3> QED BY <1>1, <2>7, <2>11, <3>1
  <2> HIDE DEF known
  <2> QED BY <2>4, <2>6, <2>7, <2>9, <2>12 DEF SameStore
<1> HIDE DEF known
<1>7. Whole'
  <2>1. SingleWay' /\ DirtyExternal'
    BY <1>2, SingleWayKept
  <2>2. ReadsApart' /\ DirectExternal'
    BY <1>2 DEF Struct, ReadsApart, DirectExternal
  <2> QED BY <1>1, <1>2, <1>6, <2>1, <2>2, FreeWhole
<1>8. OfLine(line)'
  <2>1. /\ SameMiss(line) /\ SameRead(line) /\ SameWrite(line) /\ SameWay(line) /\ SameEvict(line)
        /\ SameCount(line)
    BY <1>2, UnchangedParts
  <2>2. OfLine(line)
    BY <1>1, StructByLine
  <2>3. OfReads(line)' /\ OfStores(line)'
    BY <1>3, <1>4, <1>6, <2>1, <2>2 DEF OfLine, OfReads, OfStores, SameMiss, SameRead, SameWay
  <2>4. OfEntry(line)'
    BY <1>6 DEF OfEntry, known
  <2>5. OfUb(line)' /\ OfEvicted(line)'
    BY <1>3, <1>5, <2>1 DEF OfUb, OfEvicted, SameWrite, SameEvict
  <2>6. OfExternal(line)'
    BY <1>6, <2>1, <2>2 DEF OfLine, OfExternal, SameMiss, SameRead, SameWrite, SameEvict, SameCount
  <2> QED BY <2>3, <2>4, <2>5, <2>6 DEF OfLine
<1>9. ASSUME NEW l \in Lines, l # line PROVE OfLine(l)'
  <2>1. SameLine(l)
    BY <1>2, <1>6, <1>9, UnchangedParts DEF SameLine
  <2> QED BY <1>1, <2>1, OtherLine
<1> QED BY <1>7, <1>8, <1>9, StructByLine

\* A load or preload that misses keeps the structure.
LEMMA LoadMissStruct ==
  ASSUME Types, Types', IInv, Struct, LoadMiss(consumed), ~raced'
  PROVE  Struct'
<1>0. PICK line \in Lines : line = Op(consumed).line
  <2>1. AtM2({"load", "preload"})
    BY DEF LoadMiss
  <2> QED BY <2>1, M2Free
<1>1. /\ ~maintActive /\ PipeFacts /\ SameOps
      /\ consumed' \in Nat /\ consumed' >= consumed /\ UNCHANGED issued
      /\ Op(consumed).kind \in {"load", "preload"} /\ ~Hazard(consumed)
  <2>1. AtM2({"load", "preload"})
    BY DEF LoadMiss
  <2> QED BY <2>1, M2Free
<1>2. UNCHANGED <<direct, writes, cache, evict, maintActive, maintRelease>>
  BY DEF LoadMiss, storage, maint
<1>3. ~HasWrite(line)
  BY <1>0, <1>1 DEF Hazard, LoadHazard
<1>4. ~Cached(line)
  <2>1. ~Stale(consumed) /\ lookup[consumed + 1] = 0
    BY DEF LoadMiss
  <2> QED BY <1>0, <2>1, NotStale
<1>l. OfLine(line)
  BY StructByLine
<1>5. ~Evicted(line)
  <2>1. HasWrite(line) <=> Plain(line) >= 1
    BY <1>1, NoWays
  <2> QED BY <1>3, <1>l, <2>1 DEF OfEvicted, OfLine
<1> DEFINE old == IF HasMiss(line) THEN misses[line] ELSE [state |-> "Idle", requests |-> <<>>]
           store == IF HasStore(line) THEN StoreEntry(line).state ELSE "none"
           issues == IssuesRead(old.state, store)
           new == [state |-> IF old.state = "Idle" /\ store = "Ready" THEN "Idle" ELSE "Fetching",
                   requests |-> Append(old.requests, consumed)]
<1>6. /\ misses' = Put(misses, line, new)
      /\ stores' = IF issues /\ HasStore(line)
                   THEN [stores EXCEPT ![StoreIndex(line)].state = "Fetching"] ELSE stores
      /\ reads' = IF issues THEN Append(reads, ReadOf(line, "Miss")) ELSE reads
  BY <1>0 DEF LoadMiss
<1>7. /\ HasMiss(line) => old.state = misses[line].state /\ old.state \in {"Idle", "Fetching"}
      /\ ~HasMiss(line) => old.state = "Idle"
      /\ HasStore(line) => store = StoreEntry(line).state /\ store \in {"Idle", "Fetching", "Ready"}
      /\ ~HasStore(line) => store = "none"
      /\ issues <=> old.state = "Idle" /\ store \in {"none", "Idle"}
      /\ new.state = IF old.state = "Idle" /\ store = "Ready" THEN "Idle" ELSE "Fetching"
  <2>1. HasMiss(line) => misses[line].state \in {"Idle", "Fetching"}
    <3>1. HasMiss(line) => misses[line] \in MissRec
      <4> HIDE DEF MissRec
      <4> QED BY DEF Types, MissT, HasMiss
    <3> HIDE DEF Requests
    <3> QED BY <3>1 DEF MissRec
  <2>2. HasStore(line) => StoreEntry(line).state \in {"Idle", "Fetching", "Ready"}
    <3>1. HasStore(line) => StoreEntry(line) \in StoreRec
      <4> HIDE DEF StoreRec
      <4> QED BY StoreFacts DEF Types
    <3> HIDE DEF Requests, Data
    <3> QED BY <3>1 DEF StoreRec
  <2> QED BY <2>1, <2>2 DEF IssuesRead
<1> HIDE DEF old, store, issues, new
<1>8. /\ HasMiss(line)' /\ misses'[line].state = new.state
      /\ \A l : l # line => SameMiss(l)
  <2>1. misses' = [l \in DOMAIN misses \cup {line} |-> IF l = line THEN new ELSE misses[l]]
    BY <1>6 DEF Put
  <2> QED BY <2>1 DEF HasMiss, SameMiss
<1>9. /\ issues => ~HasRead(line) /\ HasRead(line)' /\ \A o : ReadBy(line, o)' <=> o = "Miss"
      /\ ~issues => SameRead(line)
      /\ ReadsApart'
      /\ \A l : l # line => SameRead(l)
  <2>1. CASE issues
    <3>1. ~HasRead(line)
      <4>1. HasRead(line) => ReadBy(line, "Miss") \/ ReadBy(line, "Store")
        BY ReadOwners
      <4>2. ReadBy(line, "Miss") => HasMiss(line) /\ misses[line].state = "Fetching"
        BY <1>l DEF OfLine, OfReads
      <4>3. ReadBy(line, "Store") => HasStore(line) /\ StoreEntry(line).state = "Fetching"
        BY <1>l DEF OfLine, OfReads
      <4> QED BY <1>7, <2>1, <4>1, <4>2, <4>3
    <3>2. ReadT /\ ReadsApart
      BY DEF Types, Struct
    <3>3. /\ ReadsApart' /\ HasRead(line)'
          /\ \A l : l # line => (HasRead(l)' <=> HasRead(l))
          /\ \A l, o : l # line => (ReadBy(l, o)' <=> ReadBy(l, o))
          /\ \A o : ReadBy(line, o)' <=> o = "Miss"
      BY <1>6, <2>1, <3>1, <3>2, ReadAppended
    <3> QED BY <2>1, <3>1, <3>3 DEF SameRead
  <2>2. CASE ~issues
    <3>1. UNCHANGED reads
      BY <1>6, <2>2
    <3> QED BY <2>2, <3>1, UnchangedParts DEF Struct, ReadsApart
  <2> QED BY <2>1, <2>2
<1>10. /\ HasStore(line)' <=> HasStore(line)
       /\ HasStore(line) => /\ StoreEntry(line)'.state = IF issues THEN "Fetching" ELSE store
                            /\ StoreEntry(line)'.hit = StoreEntry(line).hit
                            /\ StoreEntry(line)'.requests = StoreEntry(line).requests
       /\ StoresApart'
       /\ \A l : l # line => SameStore(l)
  <2>1. CASE issues /\ HasStore(line)
    <3> DEFINE k == StoreIndex(line)
               f == [stores[k] EXCEPT !.state = "Fetching"]
    <3>1. k \in DOMAIN stores /\ stores[k] \in StoreRec /\ stores[k].line = line
          /\ StoreEntry(line) = stores[k]
      BY <2>1, StoreFacts DEF Types
    <3>2. f \in StoreRec
      BY <3>1, StoreRecUpdates
    <3>3. /\ f.line = line /\ f.state = "Fetching" /\ f.hit = StoreEntry(line).hit
          /\ f.requests = StoreEntry(line).requests
      <4> HIDE DEF Data, Requests
      <4> QED BY <3>1 DEF StoreRec
    <3>4. stores' = [stores EXCEPT ![k] = f]
      BY <1>6, <2>1
    <3> HIDE DEF f, k, StoreRec
    <3>5. StoreT /\ StoresApart
      BY DEF Types, Struct
    <3>6. /\ StoresApart' /\ HasStore(line)' /\ StoreEntry(line)' = f
          /\ \A l : l # line => /\ HasStore(l)' <=> HasStore(l)
                                /\ HasStore(l) => StoreEntry(l)' = StoreEntry(l)
      BY <3>1, <3>2, <3>3, <3>4, <3>5, StoreReplaced
    <3> QED BY <2>1, <3>3, <3>6 DEF SameStore
  <2>2. CASE ~(issues /\ HasStore(line))
    <3>1. UNCHANGED stores
      BY <1>6, <2>2
    <3>2. StoresApart' /\ \A l : SameStore(l)
      BY <3>1, UnchangedParts DEF Struct, StoresApart
    <3> QED BY <1>7, <2>2, <3>2 DEF SameStore
  <2> QED BY <2>1, <2>2
<1>11. Whole'
  <2>1. SingleWay' /\ DirtyExternal'
    BY <1>2, SingleWayKept
  <2>2. DirectExternal'
    BY <1>2 DEF Struct, DirectExternal
  <2> QED BY <1>1, <1>2, <1>9, <1>10, <2>1, <2>2, FreeWhole
<1>12. OfLine(line)'
  <2>1. SameWrite(line) /\ SameWay(line) /\ SameEvict(line) /\ SameCount(line)
    BY <1>2, UnchangedParts
  <2>2. OfReads(line)'
    BY <1>4, <1>7, <1>8, <1>9, <1>10, <1>l, <2>1 DEF OfLine, OfReads, SameRead, SameWay
  <2>3. OfStores(line)'
    BY <1>4, <1>7, <1>8, <1>10, <1>l, <2>1 DEF OfLine, OfStores, SameWay
  <2>4. OfEntry(line)'
    BY <1>1, <1>10, EntryKept
  <2>5. OfUb(line)' /\ OfEvicted(line)'
    BY <1>3, <1>5, <2>1 DEF OfUb, OfEvicted, SameWrite, SameEvict
  <2>6. OfExternal(line)'
    BY <1>7, <1>8, <1>9, <1>10, <1>l, <2>1
    DEF OfLine, OfExternal, SameRead, SameWrite, SameEvict, SameCount
  <2> QED BY <2>2, <2>3, <2>4, <2>5, <2>6 DEF OfLine
<1>13. ASSUME NEW l \in Lines, l # line PROVE OfLine(l)'
  <2>1. SameLine(l)
    BY <1>2, <1>8, <1>9, <1>10, <1>13, UnchangedParts DEF SameLine
  <2> QED BY <1>1, <2>1, OtherLine
<1> QED BY <1>11, <1>12, <1>13, StructByLine

\* A clean finds the unit empty and holds the ways it writes back.
LEMMA CleanStruct ==
  ASSUME Types, Types', IInv, LookedUpFirst, Struct, Clean(consumed)
  PROVE  Struct'
<1> DEFINE ways == MaintenanceWays(consumed)
           dirty == DirtyWays(consumed)
<1> HIDE DEF Data, WayRec, WriteRec
<1>1. AtM2({"clean"}) /\ ~CleanLost
  BY CleanParts
<1>2. /\ PipeFacts /\ consumed < admitted /\ consumed < issued /\ Op(consumed).kind = "clean"
      /\ consumed' = consumed + 1 /\ issued' = issued /\ UNCHANGED ops
  <2>1. /\ PipeFacts /\ consumed < admitted /\ consumed < issued /\ Op(consumed).kind = "clean"
        /\ AdvanceM2 /\ UNCHANGED ops
    BY <1>1, AtM2Facts
  <2> QED BY <2>1, M2Request
<1>3. maintActive /\ maintRelease = "none" /\ issued = consumed + 1
  <2>1. Maintained
    BY DEF Struct
  <2>2. consumed \in consumed..issued - 1
    BY <1>2 DEF PipeFacts
  <2>3. maintActive
    BY <1>2, <2>1, <2>2 DEF Maintained
  <2> QED BY <1>2, <2>1, <2>3 DEF Maintained, PipeFacts
<1>4. misses = <<>> /\ stores = <<>> /\ direct = <<>> /\ reads = <<>>
  BY <1>3 DEF Struct, Maintained
<1>5. UNCHANGED <<misses, stores, direct, reads, evict>>
  BY CleanParts DEF buffers
<1>6. \A i \in DOMAIN writes : writes[i].way = 0
  BY <1>2 DEF Struct, WaysKept, WaysHeld, PipeFacts
<1>7. ways \subseteq 1..Ways /\ dirty \subseteq 1..Ways /\ dirty \subseteq ways
      /\ \A w \in dirty : cache[w].valid /\ cache[w].dirty
  <2>1. consumed \in 0..issued - 1
    BY <1>1, AtM2Facts DEF PipeFacts
  <2> QED BY <1>1, <2>1, MaintenanceWaysFacts DEF LookedUpFirst, DirtyWays
<1>8. \A w \in 1..Ways : /\ cache'[w].line = cache[w].line /\ cache'[w].dirty = cache[w].dirty
                         /\ cache'[w].valid <=> cache[w].valid /\ w \notin ways
  <2>1. cache' = Invalidated(ways)
    BY CleanParts
  <2>2. \A w \in 1..Ways : cache[w] \in WayRec
    BY WayTyped
  <2>4. \A w \in 1..Ways : cache'[w] = [cache[w] EXCEPT !.valid = @ /\ w \notin ways]
    BY <2>1 DEF Invalidated
  <2> HIDE DEF ways
  <2> QED BY <2>2, <2>4 DEF WayRec
<1>9. \A w \in dirty : External(cache[w].line) /\ cache[w].line \in Lines
  BY <1>7 DEF Struct, DirtyExternal
<1>10. PICK order \in [1..Cardinality(dirty) -> dirty] :
         Increasing(order) /\ writes' = writes \o WayWrites(order)
  BY CleanParts
<1> DEFINE t == WayWrites(order)
           n == Cardinality(dirty)
<1>11. n \in Nat
  <2>1. 1 \in Int /\ Ways \in Int
    BY LsuAssumption
  <2>2. IsFiniteSet(1..Ways)
    BY <2>1, FS_Interval
  <2> QED BY <1>7, <2>2, FS_Subset, FS_CardinalityType
<1>12. /\ \A i \in 1..n : order[i] \in dirty
       /\ \A i, j \in 1..n : order[i] = order[j] => i = j
  <2>1. \A i \in 1..n : order[i] \in dirty /\ order[i] \in Int
    BY <1>7, <1>10
  <2>2. DOMAIN order = 1..n
    BY <1>10
  <2> HIDE DEF n, dirty
  <2>3. \A i, j \in 1..n : i < j => order[i] < order[j]
    BY <1>10, <2>2 DEF Increasing
  <2> QED BY <1>11, <2>1, <2>3
<1>13. /\ t \in Seq(WriteRec) /\ DOMAIN t = 1..n
       /\ \A i \in 1..n : t[i].line = cache[order[i]].line /\ t[i].way = order[i] /\ order[i] # 0
  <2>1. DOMAIN order = 1..n
    BY <1>10
  <2>2. t = [i \in 1..n |-> WriteOf(cache[order[i]].line, order[i])]
    BY <2>1 DEF WayWrites
  <2>3. \A i \in 1..n : order[i] \in 1..Ways /\ order[i] \in 0..Ways /\ order[i] # 0
    BY <1>7, <1>12, LsuAssumption
  <2>4. \A i \in 1..n : WriteOf(cache[order[i]].line, order[i]) \in WriteRec
    BY <2>3, WayTyped, QueueItems
  <2> HIDE DEF t, n, dirty
  <2>5. t \in Seq(WriteRec)
    BY <1>11, <2>2, <2>4
  <2> QED BY <2>2, <2>3, <2>5 DEF WriteOf
<1> HIDE DEF t, n, dirty, ways
<1>14. /\ \A l : Plain(l)' = Plain(l) + Many(t, PlainOf(l))
       /\ \A l : HasWrite(l)' <=> HasWrite(l) \/ \E j \in DOMAIN t : t[j].line = l
       /\ \A j \in DOMAIN writes' : \/ j \in DOMAIN writes /\ writes'[j] = writes[j]
                                    \/ \E i \in DOMAIN t : writes'[j] = t[i] /\ j = Len(writes) + i
  <2>1. WriteT /\ WriteT' /\ writes' = writes \o t
    BY <1>10 DEF Types, t
  <2> QED BY <1>13, <2>1, WritesExtended
<1>15. \A l : Many(t, PlainOf(l)) = 0
  <2>1. \A l : \A j \in DOMAIN t : t[j] \notin PlainOf(l)
    BY <1>13 DEF PlainOf
  <2> QED BY <1>13, <2>1, ManyFinite
<1>16. \A l : Plain(l)' = Plain(l)
  <2>1. \A l : Plain(l) \in Nat
    BY PlainMany DEF Types
  <2> QED BY <1>14, <1>15, <2>1
<1>17. \A l : Ub(l) => (HasWrite(l)' <=> HasWrite(l))
  BY <1>9, <1>12, <1>13, <1>14 DEF Ub, External
<1>18. WaysKept'
  <2>1. WritesKnown'
    BY <1>9, <1>12, <1>13, <1>14 DEF Struct, WaysKept, WritesKnown
  <2>2. ASSUME NEW j \in DOMAIN writes', writes'[j].way # 0
        PROVE  \E i \in 1..n : writes'[j] = t[i] /\ j = Len(writes) + i
    BY <1>6, <1>13, <1>14, <2>2
  <2>3. WaysHeld'
    <3> SUFFICES ASSUME NEW j \in DOMAIN writes', writes'[j].way # 0
                 PROVE  /\ External(writes'[j].line)
                        /\ cache'[writes'[j].way].line = writes'[j].line
                        /\ ~cache'[writes'[j].way].valid
                        /\ maintActive' /\ issued' = consumed'
      BY DEF WaysHeld, External
    <3>1. PICK i \in 1..n : writes'[j] = t[i]
      BY <2>2
    <3>2. order[i] \in dirty /\ order[i] \in 1..Ways /\ order[i] \in ways
      BY <1>7, <1>12
    <3>3. dirty # {} => maintActive'
      BY CleanParts DEF dirty
    <3> QED BY <1>2, <1>3, <1>8, <1>9, <1>13, <3>1, <3>2, <3>3
  <2>4. WaysApart'
    <3> SUFFICES ASSUME NEW i \in DOMAIN writes', NEW j \in DOMAIN writes',
                        writes'[i].way = writes'[j].way, writes'[i].way # 0
                 PROVE  i = j
      BY DEF WaysApart
    <3>1. PICK a \in 1..n : writes'[i] = t[a] /\ i = Len(writes) + a
      BY <2>2
    <3>2. PICK b \in 1..n : writes'[j] = t[b] /\ j = Len(writes) + b
      BY <2>2
    <3>3. order[a] = order[b]
      BY <1>13, <3>1, <3>2
    <3> QED BY <1>12, <3>1, <3>2, <3>3
  <2> QED BY <2>1, <2>3, <2>4 DEF WaysKept
<1>19. Maintained'
  <2>1. consumed' = issued' /\ issued' \in Nat
    BY <1>2, <1>3 DEF PipeFacts
  <2>2. maintRelease' # "none" => maintActive'
    BY <1>3, CleanParts
  <2> DEFINE m == issued'
  <2>3. m \in Nat /\ issued' = m /\ consumed' = m
    BY <2>1
  <2> HIDE DEF m
  <2>4. m <= m + 1 /\ m # m + 1 /\ \A k \in m..m - 1 : FALSE
    BY <2>3
  <2> QED BY <1>4, <1>5, <2>2, <2>3, <2>4 DEF Maintained
<1>20. Whole'
  <2>1. StoresApart' /\ ReadsApart' /\ DirectExternal'
    BY <1>5 DEF Struct, StoresApart, ReadsApart, DirectExternal
  <2>2. DirtyExternal' /\ SingleWay'
    BY <1>8 DEF Struct, DirtyExternal, OneCopy, SingleWay, External
  <2> QED BY <1>18, <1>19, <2>1, <2>2 DEF Whole
<1>21. ASSUME NEW l \in Lines PROVE OfLine(l)'
  <2>1. SameEvict(l) /\ SameCount(l)
    BY <1>5, UnchangedParts
  <2>2. ~HasStore(l)' /\ ~HasMiss(l)' /\ ~HasRead(l)' /\ \A o : ~ReadBy(l, o)'
    BY <1>4, <1>5 DEF HasStore, HasMiss, HasRead, ReadBy
  <2>3. (Cached(l)' => Cached(l)) /\ (Tagged(l)' <=> Tagged(l))
    BY <1>8 DEF Cached, Tagged
  <2>4. OfLine(l) /\ ~HasStore(l)
    BY <1>4, StructByLine DEF HasStore
  <2>5. OfReads(l)' /\ OfStores(l)' /\ OfEntry(l)'
    BY <2>2 DEF OfReads, OfStores, OfEntry
  <2>6. OfUb(l)'
    BY <1>16, <1>17, <2>2, <2>3, <2>4 DEF OfLine, OfUb
  <2>7. OfExternal(l)' /\ OfEvicted(l)'
    BY <1>16, <2>1, <2>2, <2>3, <2>4 DEF OfLine, OfExternal, OfEvicted, SameEvict, SameCount
  <2> QED BY <2>5, <2>6, <2>7 DEF OfLine
<1> QED BY <1>20, <1>21, StructByLine
-----------------------------------------------------------------------------
(* The structure: responses to writes *)

\* The counts after a step.
LEMMA NextCounts ==
  ASSUME Types', NEW l
  PROVE  /\ Plain(l)' = Many(writes', PlainOf(l)) /\ Plain(l)' \in Nat
         /\ Plain(l)' = 0 <=> \A i \in DOMAIN writes' : writes'[i].line = l => writes'[i].way # 0
         /\ DirectCount(l)' = Many(direct', DirectOf(l)) /\ DirectCount(l)' \in Nat
<1>1. writes' \in Seq(WriteRec) /\ direct' \in Seq(DirectRec)
  BY DEF Types, WriteT, DirectT
<1>2. Plain(l)' = Many(writes', PlainOf(l))
  BY <1>1, PlainCount DEF Plain, PlainWrites
<1>3. Plain(l)' \in Nat /\ (Plain(l)' = 0 <=> \A i \in DOMAIN writes' : writes'[i] \notin PlainOf(l))
  BY <1>1, <1>2, ManyFinite
<1>4. \A i \in DOMAIN writes' : writes'[i] \in WriteRec
  <2> HIDE DEF WriteRec
  <2> QED BY <1>1
<1>5. DirectCount(l)' = Many(direct', DirectOf(l))
  <2>1. \A j \in DOMAIN direct' : direct'[j] \in DirectRec
    <3> HIDE DEF DirectRec
    <3> QED BY <1>1
  <2> HIDE DEF DirectRec
  <2>2. {j \in DOMAIN direct' : direct'[j].line = l} = At(direct', DirectOf(l))
    BY <2>1 DEF At, DirectOf
  <2> QED BY <2>2 DEF Many, DirectCount
<1>6. DirectCount(l)' \in Nat
  BY <1>1, <1>5, ManyFinite
<1> HIDE DEF WriteRec
<1> QED BY <1>2, <1>3, <1>4, <1>5, <1>6 DEF PlainOf

\* An acknowledged write leaves the other maintained ways.
LEMMA WaysKeptRemoved ==
  ASSUME Types, Types', Struct, NEW k \in DOMAIN writes, writes' = RemoveAt(writes, k),
         UNCHANGED <<maintActive, issued, consumed>>,
         \A j \in DOMAIN writes : j # k /\ writes[j].way # 0 => cache'[writes[j].way] = cache[writes[j].way]
  PROVE  WaysKept'
<1>1. WriteT /\ WriteT' /\ WritesKnown /\ WaysHeld /\ WaysApart
  BY DEF Types, Struct, WaysKept
<1>2. WaysApart' /\ \A j \in DOMAIN writes' : \E i \in DOMAIN writes : i # k /\ writes'[j] = writes[i]
  BY <1>1, WriteRemoved
<1>3. WritesKnown'
  BY <1>1, <1>2 DEF WritesKnown
<1>4. WaysHeld'
  BY <1>1, <1>2 DEF WaysHeld, External
<1> QED BY <1>2, <1>3, <1>4 DEF WaysKept

\* The acknowledgement of a UB write keeps the structure.
LEMMA UbWriteStruct ==
  ASSUME Types, Types', IInv, Struct, UbWriteResponse
  PROVE  Struct'
<1>0. PipeFacts
  BY PipeNumbers
<1> DEFINE head == Min(InFlight(writes, "Ub"))
<1>1. head \in DOMAIN writes /\ Ub(writes[head].line)
  <2>1. InFlight(writes, "Ub") # {} /\ writes \in Seq(WriteRec)
    BY DEF UbWriteResponse, Types, WriteT
  <2>2. head \in InFlight(writes, "Ub")
    BY <2>1, QueueHead
  <2> HIDE DEF head
  <2> QED BY <2>2 DEF InFlight, Ub
<1>2. PICK k \in DOMAIN writes : k = head
  BY <1>1
<1>3. PICK line \in Lines : line = writes[k].line
  BY <1>1, <1>2, QueueItems
<1>4. Ub(line) /\ ~External(line) /\ writes[k].way = 0
  BY <1>1, <1>2, <1>3, LineFacts DEF Struct, WaysKept, WaysHeld
<1>5. OfLine(line) /\ HasWrite(line)
  BY <1>3, StructByLine DEF HasWrite
<1>6. writes' = RemoveAt(writes, k) /\ UNCHANGED <<ops, issued, consumed, admitted, reads, cache, evict, direct,
                                                    maintActive, maintRelease>>
  <2>1. writes' = RemoveAt(writes, head)
    BY DEF UbWriteResponse
  <2>2. UNCHANGED <<ops, issued, consumed, admitted, reads, cache, evict, direct, maintActive, maintRelease>>
    BY DEF UbWriteResponse, pipeVars, buffers, maint
  <2> QED BY <1>2, <2>1, <2>2
<1>7. /\ \A l : Plain(l)' = Plain(l) - (IF writes[k].line = l /\ writes[k].way = 0 THEN 1 ELSE 0)
      /\ \A l : l # writes[k].line => (HasWrite(l)' <=> HasWrite(l))
      /\ \A j \in DOMAIN writes' : \E i \in DOMAIN writes : i # k /\ writes'[j] = writes[i]
  BY <1>6, WriteRemoved DEF Types
<1>8. ~HasWrite(line)'
  <2>1. Plain(line) = 1
    BY <1>4, <1>5 DEF OfLine, OfUb
  <2>2. Plain(line)' = 0
    BY <1>3, <1>4, <1>7, <2>1
  <2>3. \A j \in DOMAIN writes' : writes'[j].line = line => writes'[j].way # 0
    BY <2>2, NextCounts
  <2>4. \A i \in DOMAIN writes : writes[i].line = line => writes[i].way = 0
    BY <1>4 DEF Struct, WaysKept, WaysHeld
  <2> QED BY <1>7, <2>3, <2>4 DEF HasWrite
<1>9. \A l : l # line => SameWrite(l)
  <2>1. \A l : Plain(l) \in Nat
    BY PlainMany DEF Types
  <2> QED BY <1>3, <1>7, <2>1 DEF SameWrite
<1>10. SameOps /\ consumed' \in Nat /\ consumed' >= consumed
  BY <1>0, <1>6, UnchangedOps DEF PipeFacts
<1>11. SingleWay' /\ DirtyExternal' /\ ReadsApart' /\ DirectExternal'
  BY <1>6, SingleWayKept DEF Struct, ReadsApart, DirectExternal
<1>12. CASE HasStore(line)
  <2>1. stores' = RemoveAt(stores, StoreIndex(line)) /\ misses' = Drop(misses, line)
    BY <1>2, <1>3, <1>12 DEF UbWriteResponse
  <2>2. ~maintActive
    BY <1>12 DEF Struct, Maintained, HasStore
  <2>3. StoreIndex(line) \in DOMAIN stores /\ line = stores[StoreIndex(line)].line
    BY <1>12, StoreFacts DEF Types
  <2>4. /\ StoresApart' /\ ~HasStore(line)'
        /\ \A l : l # line => /\ HasStore(l)' <=> HasStore(l)
                              /\ HasStore(l) => StoreEntry(l)' = StoreEntry(l)
    BY <2>1, <2>3, StoreRemoved DEF Types, Struct
  <2>5. ~HasMiss(line)' /\ \A l : l # line => SameMiss(l)
    <3>1. misses' = [l \in DOMAIN misses \ {line} |-> misses[l]]
      BY <2>1 DEF Drop
    <3> QED BY <3>1 DEF HasMiss, SameMiss
  <2>6. Whole'
    BY <1>0, <1>6, <1>7, <1>10, <1>11, <2>2, <2>4, FreeWhole
  <2>7. OfLine(line)'
    <3>1. ~HasRead(line)
      BY <1>4, <1>5 DEF OfLine, OfUb
    <3>2. ~HasRead(line)' /\ \A o : ~ReadBy(line, o)'
      BY <1>6, <3>1 DEF HasRead, ReadBy
    <3>3. ~Evicted(line)'
      BY <1>4 DEF Evicted
    <3> QED BY <1>4, <1>8, <2>4, <2>5, <3>2, <3>3
        DEF OfLine, OfReads, OfStores, OfEntry, OfUb, OfExternal, OfEvicted
  <2>8. ASSUME NEW l \in Lines, l # line PROVE OfLine(l)'
    <3>1. SameLine(l)
      BY <1>6, <1>9, <2>4, <2>5, <2>8, UnchangedParts DEF SameLine, SameStore
    <3> QED BY <1>0, <1>10, <3>1, OtherLine
  <2> QED BY <2>6, <2>7, <2>8, StructByLine
<1>13. CASE ~HasStore(line)
  <2>1. UNCHANGED <<stores, misses>>
    BY <1>2, <1>3, <1>13 DEF UbWriteResponse, buffers
  <2>2. WaysKept'
    BY <1>6, WaysKeptRemoved
  <2>3. Maintained'
    BY <1>6, <2>1, MaintenanceGoesOn DEF Struct
  <2>4. StoresApart'
    BY <2>1 DEF Struct, StoresApart
  <2>5. Whole'
    BY <1>11, <2>2, <2>3, <2>4 DEF Whole
  <2>6. OfLine(line)'
    <3>1. SameStore(line) /\ SameMiss(line) /\ SameRead(line) /\ SameWay(line)
      BY <1>6, <2>1, UnchangedParts
    <3>2. OfReads(line)' /\ OfStores(line)'
      BY <1>5, <3>1 DEF OfLine, OfReads, OfStores, SameStore, SameMiss, SameRead, SameWay
    <3>3. OfEntry(line)'
      BY <1>13, <3>1 DEF OfEntry, SameStore
    <3>4. ~Evicted(line)'
      BY <1>4 DEF Evicted
    <3> QED BY <1>4, <1>8, <3>2, <3>3, <3>4 DEF OfLine, OfUb, OfExternal, OfEvicted
  <2>7. ASSUME NEW l \in Lines, l # line PROVE OfLine(l)'
    <3>1. SameLine(l)
      BY <1>6, <1>9, <2>1, <2>7, UnchangedParts DEF SameLine
    <3> QED BY <1>0, <1>10, <3>1, OtherLine
  <2> QED BY <2>5, <2>6, <2>7, StructByLine
<1> QED BY <1>12, <1>13

\* A maintenance write releases its way with the tag of line 0, which is no line of
\* the program.
LEMMA MaintenanceWriteStruct ==
  ASSUME Types, Types', IInv, Struct, ZeroLine \notin Lines, NEW k \in DOMAIN writes,
         ExternalWriteResponse(k), writes[k].way # 0
  PROVE  Struct'
<1>0. PipeFacts
  BY PipeNumbers
<1>1. PICK line \in Lines : line = writes[k].line
  BY DEF Struct, WaysKept, WritesKnown
<1>2. PICK way \in 1..Ways : way = writes[k].way
  BY QueueItems, LsuAssumption
<1>3. /\ External(line) /\ ~Ub(line) /\ cache[way].line = line /\ ~cache[way].valid
  BY <1>1, <1>2, LineFacts DEF Struct, WaysKept, WaysHeld
<1>4. /\ writes' = RemoveAt(writes, k)
      /\ cache' = [cache EXCEPT ![way].line = ZeroLine, ![way].valid = TRUE, ![way].dirty = FALSE]
      /\ UNCHANGED <<ops, issued, consumed, admitted, reads, misses, stores, direct, evict,
                     maintActive, maintRelease>>
  BY <1>2 DEF ExternalWriteResponse, pipeVars, buffers, maint
<1>5. /\ cache'[way].line = ZeroLine /\ ~cache'[way].dirty
      /\ \A w \in 1..Ways : w # way => cache'[w] = cache[w]
  <2> HIDE DEF WayRec, Data
  <2>1. cache[way] \in WayRec /\ cache \in [1..Ways -> WayRec]
    BY WayTyped DEF Types, CacheT
  <2> QED BY <1>4, <2>1 DEF WayRec
<1>6. /\ \A l : Plain(l)' = Plain(l) - (IF writes[k].line = l /\ writes[k].way = 0 THEN 1 ELSE 0)
      /\ \A l : l # line => (HasWrite(l)' <=> HasWrite(l))
  BY <1>1, <1>4, WriteRemoved DEF Types
<1>7. \A l : Plain(l)' = Plain(l)
  <2>1. \A l : Plain(l) \in Nat
    BY PlainMany DEF Types
  <2> QED BY <1>6, <2>1
<1>8. \A l \in Lines : Cached(l)' <=> Cached(l)
  BY <1>3, <1>5 DEF Cached
<1>9. \A l : l # line /\ l # ZeroLine => (Tagged(l)' <=> Tagged(l))
  BY <1>3, <1>5 DEF Tagged
<1>10. Whole'
  <2>1. WaysKept'
    <3>1. \A j \in DOMAIN writes : j # k /\ writes[j].way # 0 => writes[j].way # way
      BY <1>2 DEF Struct, WaysKept, WaysApart
    <3>2. \A j \in DOMAIN writes : writes[j].way # 0 => writes[j].way \in 1..Ways
      BY QueueItems, LsuAssumption
    <3> QED BY <1>4, <1>5, <3>1, <3>2, WaysKeptRemoved
  <2>2. Maintained'
    BY <1>4, MaintenanceGoesOn DEF Struct
  <2>3. StoresApart' /\ ReadsApart' /\ DirectExternal'
    BY <1>4 DEF Struct, StoresApart, ReadsApart, DirectExternal
  <2>4. DirtyExternal' /\ SingleWay'
    BY <1>5 DEF Struct, DirtyExternal, OneCopy, SingleWay, External
  <2> QED BY <2>1, <2>2, <2>3, <2>4 DEF Whole
<1>11. ASSUME NEW l \in Lines PROVE OfLine(l)'
  <2>1. SameStore(l) /\ SameMiss(l) /\ SameRead(l) /\ SameEvict(l) /\ SameCount(l)
    BY <1>4, UnchangedParts
  <2>2. OfLine(l) /\ l # ZeroLine
    BY StructByLine
  <2>3. OfReads(l)' /\ OfStores(l)'
    BY <1>8, <2>1, <2>2 DEF OfLine, OfReads, OfStores, SameStore, SameMiss, SameRead
  <2>4. OfEntry(l)'
    <3>1. SameOps /\ consumed' \in Nat /\ consumed' >= consumed
      BY <1>0, <1>4, UnchangedOps DEF PipeFacts
    <3> QED BY <1>0, <2>1, <3>1, EntryKept DEF SameStore
  <2>5. OfUb(l)'
    BY <1>3, <1>6, <1>7, <1>9, <2>1, <2>2 DEF OfLine, OfUb, SameStore, SameRead
  <2>6. OfExternal(l)'
    BY <1>7, <2>1, <2>2 DEF OfLine, OfExternal, SameStore, SameMiss, SameRead, SameEvict, SameCount
  <2>7. OfEvicted(l)'
    BY <1>7, <1>8, <2>1, <2>2 DEF OfLine, OfEvicted, SameStore, SameMiss, SameRead, SameEvict
  <2> QED BY <2>3, <2>4, <2>5, <2>6, <2>7 DEF OfLine
<1> QED BY <1>10, <1>11, StructByLine

\* The plain write that is acknowledged had evicted data or a direct store.
LEMMA PlainWriteStruct ==
  ASSUME Types, Types', IInv, Struct, NEW k \in DOMAIN writes, ExternalWriteResponse(k), writes[k].way = 0
  PROVE  Struct'
<1>0. PipeFacts
  BY PipeNumbers
<1>1. PICK line \in Lines : line = writes[k].line
  BY DEF Struct, WaysKept, WritesKnown
<1>2. External(line) /\ ~Ub(line)
  BY <1>1, LineFacts DEF ExternalWriteResponse, InFlight, External
<1>3. /\ writes' = RemoveAt(writes, k)
      /\ UNCHANGED <<ops, issued, consumed, admitted, reads, misses, stores, cache, maintActive, maintRelease>>
  BY DEF ExternalWriteResponse, pipeVars, buffers, maint
<1>4. /\ \A l : Plain(l)' = Plain(l) - (IF writes[k].line = l /\ writes[k].way = 0 THEN 1 ELSE 0)
      /\ \A l : l # line => (HasWrite(l)' <=> HasWrite(l))
  BY <1>1, <1>3, WriteRemoved DEF Types
<1>5. Plain(line)' = Plain(line) - 1 /\ \A l : l # line => SameWrite(l)
  <2>1. \A l : Plain(l) \in Nat
    BY PlainMany DEF Types
  <2> QED BY <1>1, <1>4, <2>1 DEF SameWrite
<1>6. SameOps /\ consumed' \in Nat /\ consumed' >= consumed
  BY <1>0, <1>3, UnchangedOps DEF PipeFacts
<1>7. SingleWay' /\ DirtyExternal' /\ ReadsApart' /\ StoresApart' /\ WaysKept'
  BY <1>3, SingleWayKept, WaysKeptRemoved DEF Struct, ReadsApart, StoresApart
<1>8. ~Evicted(line)' /\ \A l \in Lines : l # line => SameEvict(l)
  <2>1. CASE line[2] \in DOMAIN evict
    <3>1. evict' = Drop(evict, line[2])
      BY <1>1, <2>1 DEF ExternalWriteResponse
    <3>2. DOMAIN evict' = DOMAIN evict \ {line[2]}
      BY <3>1 DEF Drop
    <3>3. \A l \in Lines : l # line /\ External(l) => l[2] # line[2]
      BY <1>2, SameAddress
    <3> QED BY <3>2, <3>3 DEF Evicted, SameEvict
  <2>2. CASE line[2] \notin DOMAIN evict
    BY <1>1, <2>2 DEF ExternalWriteResponse, Evicted, SameEvict
  <2> QED BY <2>1, <2>2
<1>9. /\ (IF Evicted(line) THEN 1 ELSE 0) + DirectCount(line) = DirectCount(line)' + 1
      /\ \A l : l # line => SameCount(l)
      /\ DirectExternal' /\ (direct = <<>> => direct' = <<>>)
      /\ DirectCount(line)' \in Nat
  <2>1. DirectCount(line) \in Nat /\ DirectCount(line)' \in Nat
    BY DirectMany, NextCounts DEF Types
  <2>2. CASE line[2] \in DOMAIN evict
    <3>1. UNCHANGED direct /\ Evicted(line)
      BY <1>1, <1>2, <2>2 DEF ExternalWriteResponse, buffers, Evicted
    <3>2. \A l : SameCount(l)
      BY <3>1, UnchangedParts
    <3> QED BY <2>1, <3>1, <3>2 DEF Struct, DirectExternal, SameCount
  <2>3. CASE line[2] \notin DOMAIN evict
    <3>1. HasDirect(line) /\ direct' = RemoveAt(direct, DirectIndex(line)) /\ ~Evicted(line)
      BY <1>1, <2>3 DEF ExternalWriteResponse, Evicted
    <3> DEFINE d == DirectIndex(line)
    <3>2. d \in DOMAIN direct /\ direct[d].line = line /\ direct \in Seq(DirectRec)
      BY <3>1, DirectFirst DEF Types, DirectT
    <3>3. direct[d] \in DirectRec
      BY <3>2, QueueItems
    <3> HIDE DEF d, DirectRec
    <3>4. \A l : direct[d] \in DirectOf(l) <=> l = line
      BY <3>2, <3>3 DEF DirectOf
    <3>5. \A l : Many(RemoveAt(direct, d), DirectOf(l)) = Many(direct, DirectOf(l))
                                                          - (IF direct[d] \in DirectOf(l) THEN 1 ELSE 0)
      BY <3>2, ManyRemove
    <3>6. \A l : /\ DirectCount(l) = Many(direct, DirectOf(l)) /\ DirectCount(l) \in Nat
                 /\ DirectCount(l)' = Many(direct', DirectOf(l))
      BY DirectMany, NextCounts DEF Types
    <3>7. direct' = RemoveAt(direct, d)
      BY <3>1 DEF d
    <3>8. DirectCount(line)' = DirectCount(line) - 1 /\ \A l : l # line => DirectCount(l)' = DirectCount(l)
      BY <3>4, <3>5, <3>6, <3>7
    <3>9. \A j \in DOMAIN direct' : \E i \in DOMAIN direct : direct'[j] = direct[i]
      BY <3>2, <3>7, RemoveMembers
    <3>10. DirectExternal'
      BY <3>9 DEF Struct, DirectExternal
    <3>11. direct # <<>>
      BY <3>2
    <3> QED BY <2>1, <3>1, <3>8, <3>10, <3>11 DEF SameCount
  <2> QED BY <2>2, <2>3
<1>10. Maintained'
  BY <1>3, <1>9, MaintenanceGoesOn DEF Struct
<1>11. Whole'
  BY <1>7, <1>9, <1>10 DEF Whole
<1>12. OfLine(line)'
  <2>1. SameStore(line) /\ SameMiss(line) /\ SameRead(line) /\ SameWay(line)
    BY <1>3, UnchangedParts
  <2>2. OfLine(line)
    BY StructByLine
  <2>3. OfReads(line)' /\ OfStores(line)'
    BY <2>1, <2>2 DEF OfLine, OfReads, OfStores, SameStore, SameMiss, SameRead, SameWay
  <2>4. OfEntry(line)'
    BY <1>0, <1>6, <2>1, EntryKept DEF SameStore
  <2>5. OfUb(line)' /\ OfEvicted(line)'
    BY <1>2, <1>8 DEF OfUb, OfEvicted
  <2>6. OfExternal(line)'
    <3>1. Plain(line) \in Nat /\ Plain(line) <= DirectCount(line)' + 1
      BY <1>2, <1>9, <2>2, PlainMany DEF OfLine, OfExternal, Types
    <3>2. Plain(line)' <= DirectCount(line)'
      BY <1>5, <1>9, <3>1
    <3>3. Plain(line)' <= (IF Evicted(line)' THEN 1 ELSE 0) + DirectCount(line)'
      BY <1>8, <1>9, <3>2
    <3> QED BY <1>8, <2>1, <2>2, <3>3 DEF OfLine, OfExternal, SameStore, SameMiss, SameRead
  <2> QED BY <2>3, <2>4, <2>5, <2>6 DEF OfLine
<1>13. ASSUME NEW l \in Lines, l # line PROVE OfLine(l)'
  <2>1. SameLine(l)
    BY <1>3, <1>5, <1>8, <1>9, <1>13, UnchangedParts DEF SameLine
  <2> QED BY <1>0, <1>6, <2>1, OtherLine
<1> QED BY <1>11, <1>12, <1>13, StructByLine
-----------------------------------------------------------------------------
(* The structure: buffer processes *)

\* Every resident direct store is written out, none of which has a write yet.
LEMMA ProcessStruct ==
  ASSUME Types, Types', IInv, Struct, ProcessDirectStores, ~raced'
  PROVE  Struct'
<1> DEFINE t == [i \in DOMAIN direct |-> WriteOf(direct[i].line, 0)]
<1> HIDE DEF WriteRec, DirectRec
<1>0. PipeFacts
  BY PipeNumbers
<1>1. /\ writes' = writes \o t
      /\ UNCHANGED <<ops, issued, consumed, admitted, reads, misses, stores, direct, cache, evict,
                     maintActive, maintRelease>>
      /\ \A d \in ToSet(direct) : ~WrittenBefore(d.line)
  BY DEF ProcessDirectStores, pipeVars, buffers, storage, maint
<1>2. \A i \in DOMAIN direct : direct[i].line \in Lines /\ External(direct[i].line) /\ ~Ub(direct[i].line)
  BY QueueItems, LineFacts DEF Struct, DirectExternal
<1>3. /\ t \in Seq(WriteRec) /\ DOMAIN t = DOMAIN direct
      /\ \A i \in DOMAIN direct : t[i].line = direct[i].line /\ t[i].way = 0 /\ t[i] \in WriteRec
  <2>1. \A i \in DOMAIN direct : WriteOf(direct[i].line, 0) \in WriteRec
    <3>1. 0 \in 0..Ways
      BY LsuAssumption
    <3> QED BY <1>2, <3>1, QueueItems
  <2>2. DOMAIN direct = 1..Len(direct) /\ Len(direct) \in Nat
    BY DEF Types, DirectT
  <2>3. t \in [1..Len(direct) -> WriteRec]
    BY <2>1, <2>2
  <2>4. \A i \in DOMAIN direct : t[i] = WriteOf(direct[i].line, 0)
    OBVIOUS
  <2>5. DOMAIN t = DOMAIN direct
    OBVIOUS
  <2> HIDE DEF t
  <2>6. t \in Seq(WriteRec)
    BY <2>2, <2>3
  <2> QED BY <2>1, <2>4, <2>5, <2>6 DEF WriteOf
<1> HIDE DEF t
<1>4. \A l : Many(t, PlainOf(l)) = DirectCount(l)
  <2>1. \A l : At(t, PlainOf(l)) = {d \in DOMAIN direct : direct[d].line = l}
    BY <1>3 DEF At, PlainOf
  <2> QED BY <2>1 DEF Many, DirectCount
<1>5. /\ \A l : Plain(l)' = Plain(l) + DirectCount(l)
      /\ \A l : HasWrite(l)' <=> HasWrite(l) \/ \E j \in DOMAIN direct : direct[j].line = l
      /\ \A j \in DOMAIN writes' : \/ j \in DOMAIN writes /\ writes'[j] = writes[j]
                                   \/ writes'[j].way = 0 /\ writes'[j].line \in Lines
      /\ WaysApart'
  <2>1. WriteT /\ WriteT' /\ WaysApart
    BY DEF Types, Struct, WaysKept
  <2>2. /\ \A l : Plain(l)' = Plain(l) + Many(t, PlainOf(l))
        /\ \A l : HasWrite(l)' <=> HasWrite(l) \/ \E j \in DOMAIN t : t[j].line = l
        /\ \A j \in DOMAIN writes' : \/ j \in DOMAIN writes /\ writes'[j] = writes[j]
                                     \/ \E i \in DOMAIN t : writes'[j] = t[i] /\ j = Len(writes) + i
        /\ WaysApart /\ (\A j \in DOMAIN t : t[j].way = 0) => WaysApart'
    BY <1>1, <1>3, <2>1, WritesExtended
  <2> QED BY <1>2, <1>3, <1>4, <2>1, <2>2
<1>6. Whole'
  <2>1. WritesKnown' /\ WaysHeld'
    BY <1>1, <1>5 DEF Struct, WaysKept, WritesKnown, WaysHeld, External
  <2>2. Maintained'
    BY <1>1, MaintenanceGoesOn DEF Struct
  <2>3. SingleWay' /\ DirtyExternal'
    BY <1>1, SingleWayKept
  <2>4. StoresApart' /\ ReadsApart' /\ DirectExternal'
    BY <1>1 DEF Struct, StoresApart, ReadsApart, DirectExternal
  <2> QED BY <1>5, <2>1, <2>2, <2>3, <2>4 DEF Whole, WaysKept
<1>7. ASSUME NEW l \in Lines PROVE OfLine(l)'
  <2>1. SameStore(l) /\ SameMiss(l) /\ SameRead(l) /\ SameWay(l) /\ SameEvict(l) /\ SameCount(l)
    BY <1>1, UnchangedParts
  <2>2. OfLine(l)
    BY StructByLine
  <2>3. Plain(l) \in Nat /\ DirectCount(l) \in Nat /\ (DirectCount(l) = 0 <=> ~HasDirect(l))
    BY PlainMany, DirectMany DEF Types
  <2>4. OfReads(l)' /\ OfStores(l)'
    BY <2>1, <2>2 DEF OfLine, OfReads, OfStores, SameStore, SameMiss, SameRead, SameWay
  <2>5. OfEntry(l)'
    <3>1. SameOps /\ consumed' \in Nat /\ consumed' >= consumed
      BY <1>0, <1>1, UnchangedOps DEF PipeFacts
    <3> QED BY <1>0, <2>1, <3>1, EntryKept DEF SameStore
  <2>6. OfUb(l)'
    <3>1. Ub(l) => ~HasDirect(l)
      BY <1>2 DEF HasDirect
    <3>2. Ub(l) => Plain(l)' = Plain(l) /\ (HasWrite(l)' <=> HasWrite(l))
      BY <1>5, <2>3, <3>1 DEF HasDirect
    <3> QED BY <2>1, <2>2, <3>2 DEF OfLine, OfUb, SameStore, SameRead, SameWay
  <2>7. OfExternal(l)'
    <3>1. External(l) /\ HasDirect(l) => Plain(l) <= (IF Evicted(l) THEN 1 ELSE 0)
      <4>1. \A i \in DOMAIN direct : ~WrittenBefore(direct[i].line)
        BY <1>1 DEF ToSet
      <4>2. HasDirect(l) => ~WrittenBefore(l)
        BY <4>1 DEF HasDirect
      <4> QED BY <2>3, <4>2 DEF WrittenBefore, Plain, Evicted
    <3>2. External(l) => Plain(l)' <= (IF Evicted(l) THEN 1 ELSE 0) + DirectCount(l)
      <4>1. CASE HasDirect(l)
        BY <1>5, <2>3, <3>1, <4>1
      <4>2. CASE ~HasDirect(l)
        BY <1>5, <2>2, <2>3, <4>2 DEF OfLine, OfExternal
      <4> QED BY <4>1, <4>2
    <3> QED BY <2>1, <2>2, <3>2 DEF OfLine, OfExternal, SameStore, SameMiss, SameRead, SameEvict, SameCount
  <2>8. OfEvicted(l)'
    BY <1>5, <2>1, <2>2, <2>3 DEF OfLine, OfEvicted, SameStore, SameMiss, SameRead, SameWay, SameEvict
  <2> QED BY <2>4, <2>5, <2>6, <2>7, <2>8 DEF OfLine
<1> QED BY <1>6, <1>7, StructByLine

\* What is known of an entry that is due.
LEMMA DueFacts ==
  ASSUME Types, IInv, Struct, NEW i \in DOMAIN stores, ReadyToFlush(stores[i]),
         NEW line, line = stores[i].line
  PROVE  /\ line \in Lines /\ HasStore(line) /\ StoreIndex(line) = i /\ StoreEntry(line) = stores[i]
         /\ stores[i] \in StoreRec /\ stores[i].state = "Idle"
         /\ ~maintActive /\ OfLine(line)
         /\ ~HasMiss(line) /\ ~HasRead(line) /\ (Ub(line) => ~HasWrite(line))
         /\ stores[i].requests # <<>>
         /\ \A id \in ToSet(stores[i].requests) : Op(id).line = line
<1>1. HasStore(line) /\ StoreIndex(line) = i /\ StoreEntry(line) = stores[i]
  BY OnlyEntry DEF Struct
<1>2. line \in Lines /\ StoreEntry(line) \in StoreRec
  BY <1>1, StoreFacts DEF Types
<1>3. stores[i].state = "Idle" /\ stores[i] \in StoreRec
  <2> HIDE DEF StoreRec
  <2> QED BY <1>1, <1>2 DEF ReadyToFlush
<1>4. ~maintActive
  BY <1>1 DEF Struct, Maintained, HasStore
<1>5. OfLine(line)
  BY <1>2, StructByLine
<1>6. ~HasMiss(line) /\ (Ub(line) => ~HasWrite(line))
  BY <1>1, <1>3, <1>5 DEF OfLine, OfStores, OfUb
<1>7. ~HasRead(line)
  <2>1. HasRead(line) => ReadBy(line, "Miss") \/ ReadBy(line, "Store")
    BY ReadOwners
  <2> QED BY <1>1, <1>3, <1>5, <1>6, <2>1 DEF OfLine, OfReads
<1>8. stores[i].requests # <<>> /\ \A id \in ToSet(stores[i].requests) : Op(id).line = line
  BY <1>1, <1>5 DEF OfLine, OfEntry
<1> QED BY <1>1, <1>2, <1>3, <1>4, <1>5, <1>6, <1>7, <1>8

\* A flushed hit keeps the structure.
LEMMA FlushHitStruct ==
  ASSUME Types, Types', IInv, Struct, NEW i \in DOMAIN stores, ReadyToFlush(stores[i]), FlushHit(i), ~raced'
  PROVE  Struct'
<1> HIDE DEF StoreRec, WriteRec, WayRec, Data, Requests
<1>0. PipeFacts
  BY PipeNumbers
<1>1. PICK line : line = stores[i].line
  OBVIOUS
<1>2. /\ line \in Lines /\ HasStore(line) /\ StoreIndex(line) = i /\ StoreEntry(line) = stores[i]
      /\ stores[i] \in StoreRec /\ stores[i].state = "Idle"
      /\ ~maintActive /\ OfLine(line)
      /\ ~HasMiss(line) /\ ~HasRead(line) /\ (Ub(line) => ~HasWrite(line))
      /\ stores[i].requests # <<>>
      /\ \A id \in ToSet(stores[i].requests) : Op(id).line = line
  BY <1>1, DueFacts
<1>3. PICK way : way = FindWay(line)
  OBVIOUS
<1>4. /\ way # 0 /\ way = lookup[Head(stores[i].requests) + 1]
      /\ ~Stale(Head(stores[i].requests))
      /\ stores' = RemoveAt(stores, i)
      /\ writes' = IF Ub(line) THEN Append(writes, WriteOf(line, 0)) ELSE writes
      /\ cache' = FlushedCache(stores[i], way, way)
      /\ UNCHANGED <<ops, issued, consumed, admitted, reads, misses, direct, evict, maintActive, maintRelease>>
  BY <1>1, <1>3 DEF FlushHit, pipeVars, maint
<1>5. way \in 1..Ways /\ cache[way].line = line /\ cache[way].valid
  <2>1. way \in 1..Ways /\ cache[way].line = line
    BY <1>3, <1>4, TagSearch
  <2>2. cache[way].valid
    BY <1>4 DEF Stale
  <2> QED BY <2>1, <2>2
<1>6. /\ \A w \in 1..Ways : cache'[w].line = cache[w].line /\ cache'[w].valid = cache[w].valid
      /\ \A w \in 1..Ways : w # way => cache'[w] = cache[w]
      /\ Ub(line) => cache'[way].dirty = cache[way].dirty
  <2> DEFINE m == Merge(stores[i], cache[way].data)
             c == [cache[way] EXCEPT !.data = m]
             written == [cache EXCEPT ![way] = c]
  <2>1. cache[way] \in WayRec /\ cache \in [1..Ways -> WayRec]
    BY <1>5, WayTyped DEF Types, CacheT
  <2>2. written = [cache EXCEPT ![way].data = Merge(stores[i], @)]
    BY <1>5, <2>1
  <2>3. cache' = IF External(line) THEN [written EXCEPT ![way].dirty = TRUE] ELSE written
    BY <1>1, <1>4, <2>2 DEF FlushedCache
  <2> HIDE DEF m
  <2>4. c.line = cache[way].line /\ c.valid = cache[way].valid /\ c.dirty = cache[way].dirty
        /\ DOMAIN c = {"line", "valid", "dirty", "data"}
    BY <2>1 DEF WayRec
  <2>5. DOMAIN written = 1..Ways /\ written[way] = c /\ \A w \in 1..Ways : w # way => written[w] = cache[w]
    BY <1>5, <2>1
  <2> HIDE DEF c, written
  <2>6. CASE External(line)
    <3>1. cache'[way] = [c EXCEPT !.dirty = TRUE] /\ \A w \in 1..Ways : w # way => cache'[w] = cache[w]
      BY <1>5, <2>3, <2>5, <2>6
    <3>2. cache'[way].line = c.line /\ cache'[way].valid = c.valid
      BY <2>4, <3>1
    <3> QED BY <1>2, <2>4, <2>6, <3>1, <3>2, LineFacts
  <2>7. CASE ~External(line)
    BY <1>5, <2>3, <2>4, <2>5, <2>7
  <2> QED BY <2>6, <2>7
<1>7. /\ StoresApart' /\ ~HasStore(line)'
      /\ \A l : l # line => SameStore(l)
  <2>1. StoreT /\ StoresApart
    BY DEF Types, Struct
  <2>2. /\ StoresApart' /\ ~HasStore(line)'
        /\ \A l : l # line => /\ HasStore(l)' <=> HasStore(l)
                              /\ HasStore(l) => StoreEntry(l)' = StoreEntry(l)
    BY <1>1, <1>4, <2>1, StoreRemoved
  <2> QED BY <2>2 DEF SameStore
<1>8. /\ \A l : l # line => SameWrite(l)
      /\ External(line) => SameWrite(line)
      /\ Ub(line) => Plain(line)' = 1
      /\ \A j \in DOMAIN writes' : \/ \E k \in DOMAIN writes : writes'[j] = writes[k]
                                   \/ writes'[j].way = 0 /\ writes'[j].line \in Lines
  <2>1. \A l : Plain(l) \in Nat
    BY PlainMany DEF Types
  <2>2. CASE Ub(line)
    <3>1. WriteT /\ WriteT' /\ writes' = Append(writes, WriteOf(line, 0))
      BY <1>4, <2>2 DEF Types
    <3>2. /\ \A l : Plain(l)' = Plain(l) + (IF l = line THEN 1 ELSE 0)
          /\ \A l : HasWrite(l)' <=> HasWrite(l) \/ l = line
          /\ \A j \in DOMAIN writes' : \/ j \in DOMAIN writes /\ writes'[j] = writes[j]
                                       \/ writes'[j].line = line /\ writes'[j].way = 0
      BY <1>2, <3>1, WriteAppended
    <3>3. Plain(line) = 0
      BY <1>2, <2>1, <2>2, NoWays
    <3> QED BY <1>2, <2>1, <2>2, <3>2, <3>3, LineFacts DEF SameWrite
  <2>3. CASE ~Ub(line)
    <3>1. UNCHANGED writes
      BY <1>4, <2>3
    <3> QED BY <2>3, <3>1, UnchangedParts
  <2> QED BY <2>2, <2>3
<1>9. \A l : SameWay(l)
  BY <1>6 DEF SameWay, Cached, Tagged
<1>10. Cached(line) /\ Tagged(line) /\ ~Evicted(line)
  <2>1. Cached(line) /\ Tagged(line)
    BY <1>5 DEF Cached, Tagged
  <2> QED BY <1>2, <2>1 DEF OfLine, OfEvicted
<1>11. SameOps /\ consumed' \in Nat /\ consumed' >= consumed
  BY <1>0, <1>4, UnchangedOps DEF PipeFacts
<1>12. Whole'
  <2>1. SingleWay'
    BY <1>6 DEF Struct, OneCopy, SingleWay
  <2>2. DirtyExternal'
    <3>1. ASSUME NEW w \in 1..Ways, cache'[w].dirty PROVE External(cache[w].line) /\ cache[w].line \in Lines
      <4>1. CASE cache[w].dirty
        BY <4>1 DEF Struct, DirtyExternal
      <4>2. CASE ~cache[w].dirty
        BY <1>2, <1>5, <1>6, <3>1, <4>2, LineFacts
      <4> QED BY <4>1, <4>2
    <3> QED BY <1>6, <3>1 DEF DirtyExternal, External
  <2>3. ReadsApart' /\ DirectExternal'
    BY <1>4 DEF Struct, ReadsApart, DirectExternal
  <2> QED BY <1>0, <1>2, <1>4, <1>7, <1>8, <1>11, <2>1, <2>2, <2>3, FreeWhole
<1>13. OfLine(line)'
  <2>1. SameMiss(line) /\ SameRead(line) /\ SameWay(line) /\ SameEvict(line) /\ SameCount(line)
    BY <1>4, <1>9, UnchangedParts
  <2>2. ~HasMiss(line)' /\ ~HasRead(line)' /\ ~Evicted(line)' /\ Tagged(line)'
    BY <1>2, <1>10, <2>1 DEF SameMiss, SameRead, SameEvict, SameWay
  <2>3. \A o : ~ReadBy(line, o)'
    BY <2>2 DEF HasRead, ReadBy
  <2>4. OfUb(line)'
    BY <1>7, <1>8, <2>2 DEF OfUb
  <2>5. OfExternal(line)'
    BY <1>2, <1>7, <1>8, <2>1, <2>2 DEF OfLine, OfExternal, SameWrite, SameEvict, SameCount
  <2> QED BY <1>7, <2>2, <2>3, <2>4, <2>5 DEF OfLine, OfReads, OfStores, OfEntry, OfEvicted
<1>14. ASSUME NEW l \in Lines, l # line PROVE OfLine(l)'
  <2>1. SameLine(l)
    BY <1>4, <1>7, <1>8, <1>9, <1>14, UnchangedParts DEF SameLine
  <2> QED BY <1>0, <1>11, <2>1, OtherLine
<1> QED BY <1>12, <1>13, <1>14, StructByLine

\* A flushed miss keeps the structure.
LEMMA FlushMissStruct ==
  ASSUME Types, Types', IInv, Struct, NEW i \in DOMAIN stores, ReadyToFlush(stores[i]), FlushMiss(i), ~raced'
  PROVE  Struct'
<1> HIDE DEF StoreRec, WriteRec, ReadRec, Data, Requests
<1>0. PipeFacts
  BY PipeNumbers
<1>1. PICK line : line = stores[i].line
  OBVIOUS
<1>2. /\ line \in Lines /\ HasStore(line) /\ StoreIndex(line) = i /\ StoreEntry(line) = stores[i]
      /\ stores[i] \in StoreRec /\ stores[i].state = "Idle"
      /\ ~maintActive /\ OfLine(line)
      /\ ~HasMiss(line) /\ ~HasRead(line) /\ (Ub(line) => ~HasWrite(line))
  BY <1>1, DueFacts
<1> DEFINE through == Ub(line) /\ ~UbWriteAllocate
<1>3. /\ ~stores[i].hit
      /\ stores' = [stores EXCEPT ![i].state = "Fetching"]
      /\ writes' = IF through THEN Append(writes, WriteOf(line, 0)) ELSE writes
      /\ reads' = IF through THEN reads ELSE Append(reads, ReadOf(line, "Store"))
      /\ UNCHANGED <<ops, issued, consumed, admitted, misses, direct, cache, evict, maintActive, maintRelease>>
  BY <1>1 DEF FlushMiss, pipeVars, storage, maint
<1> HIDE DEF through
<1>4. ~Cached(line) /\ ~Evicted(line)
  BY <1>2, <1>3 DEF OfLine, OfStores, OfEvicted
<1>5. /\ StoresApart' /\ HasStore(line)' /\ StoreEntry(line)'.state = "Fetching"
      /\ StoreEntry(line)'.requests = StoreEntry(line).requests
      /\ \A l : l # line => SameStore(l)
  <2> DEFINE f == [stores[i] EXCEPT !.state = "Fetching"]
  <2>1. f \in StoreRec
    BY <1>2, StoreRecUpdates
  <2>2. f.line = line /\ f.state = "Fetching" /\ f.requests = stores[i].requests
    BY <1>1, <1>2 DEF StoreRec
  <2>3. stores' = [stores EXCEPT ![i] = f]
    BY <1>3
  <2> HIDE DEF f
  <2>4. StoreT /\ StoresApart
    BY DEF Types, Struct
  <2>5. /\ StoresApart' /\ HasStore(line)' /\ StoreEntry(line)' = f
        /\ \A l : l # line => /\ HasStore(l)' <=> HasStore(l)
                              /\ HasStore(l) => StoreEntry(l)' = StoreEntry(l)
    BY <1>1, <2>1, <2>2, <2>3, <2>4, StoreReplaced
  <2> QED BY <1>2, <2>2, <2>5 DEF SameStore
<1>6. /\ \A l : l # line => SameWrite(l)
      /\ ~through => SameWrite(line)
      /\ through => Plain(line)' = 1
      /\ \A j \in DOMAIN writes' : \/ \E k \in DOMAIN writes : writes'[j] = writes[k]
                                   \/ writes'[j].way = 0 /\ writes'[j].line \in Lines
  <2>1. \A l : Plain(l) \in Nat
    BY PlainMany DEF Types
  <2>2. CASE through
    <3>1. WriteT /\ WriteT' /\ writes' = Append(writes, WriteOf(line, 0))
      BY <1>3, <2>2 DEF Types
    <3>2. /\ \A l : Plain(l)' = Plain(l) + (IF l = line THEN 1 ELSE 0)
          /\ \A l : HasWrite(l)' <=> HasWrite(l) \/ l = line
          /\ \A j \in DOMAIN writes' : \/ j \in DOMAIN writes /\ writes'[j] = writes[j]
                                       \/ writes'[j].line = line /\ writes'[j].way = 0
      BY <1>2, <3>1, WriteAppended
    <3>3. Plain(line) = 0
      BY <1>2, <2>1, <2>2, NoWays DEF through
    <3> QED BY <1>2, <2>1, <2>2, <3>2, <3>3 DEF SameWrite
  <2>3. CASE ~through
    <3>1. UNCHANGED writes
      BY <1>3, <2>3
    <3> QED BY <2>3, <3>1, UnchangedParts
  <2> QED BY <2>2, <2>3
<1>7. /\ ~through => HasRead(line)' /\ \A o : ReadBy(line, o)' <=> o = "Store"
      /\ through => SameRead(line)
      /\ ReadsApart'
      /\ \A l : l # line => SameRead(l)
  <2>1. CASE through
    <3>1. UNCHANGED reads
      BY <1>3, <2>1
    <3> QED BY <2>1, <3>1, UnchangedParts DEF Struct, ReadsApart
  <2>2. CASE ~through
    <3>1. ReadT /\ ReadsApart /\ reads' = Append(reads, ReadOf(line, "Store"))
      BY <1>3, <2>2 DEF Types, Struct
    <3>2. /\ ReadsApart' /\ HasRead(line)'
          /\ \A l : l # line => (HasRead(l)' <=> HasRead(l))
          /\ \A l, o : l # line => (ReadBy(l, o)' <=> ReadBy(l, o))
          /\ \A o : ReadBy(line, o)' <=> o = "Store"
      BY <1>2, <3>1, ReadAppended
    <3> QED BY <2>2, <3>2 DEF SameRead
  <2> QED BY <2>1, <2>2
<1>8. SameOps /\ consumed' \in Nat /\ consumed' >= consumed
  BY <1>0, <1>3, UnchangedOps DEF PipeFacts
<1>9. Whole'
  <2>1. SingleWay' /\ DirtyExternal'
    BY <1>3, SingleWayKept
  <2>2. DirectExternal'
    BY <1>3 DEF Struct, DirectExternal
  <2> QED BY <1>0, <1>2, <1>3, <1>5, <1>6, <1>7, <1>8, <2>1, <2>2, FreeWhole
<1>10. OfLine(line)'
  <2>1. SameMiss(line) /\ SameWay(line) /\ SameEvict(line) /\ SameCount(line)
    BY <1>3, UnchangedParts
  <2>2. ~HasMiss(line)' /\ ~Cached(line)' /\ ~Evicted(line)'
    BY <1>2, <1>4, <2>1 DEF SameMiss, SameWay, SameEvict
  <2>3. OfReads(line)' /\ OfStores(line)' /\ OfEvicted(line)'
    <3>1. through => \A o : ~ReadBy(line, o)'
      BY <1>2, <1>7 DEF SameRead, HasRead, ReadBy
    <3> QED BY <1>5, <1>7, <2>2, <3>1 DEF OfReads, OfStores, OfEvicted
  <2>4. OfEntry(line)'
    BY <1>0, <1>2, <1>5, <1>8, EntryKept
  <2>5. OfUb(line)'
    <3>1. CASE through
      <4>1. ~HasRead(line)' /\ ~UbWriteAllocate
        BY <1>2, <1>7, <3>1 DEF SameRead, through
      <4> QED BY <1>5, <1>6, <3>1, <4>1 DEF OfUb
    <3>2. CASE ~through
      BY <1>2, <1>6, <3>2 DEF OfUb, SameWrite
    <3> QED BY <3>1, <3>2
  <2>6. OfExternal(line)'
    <3>1. External(line) => ~through
      BY <1>2, LineFacts DEF through
    <3> QED BY <1>2, <1>5, <1>6, <1>7, <2>1, <2>2, <3>1 DEF OfLine, OfExternal, SameWrite, SameEvict, SameCount
  <2> QED BY <2>3, <2>4, <2>5, <2>6 DEF OfLine
<1>11. ASSUME NEW l \in Lines, l # line PROVE OfLine(l)'
  <2>1. SameLine(l)
    BY <1>3, <1>5, <1>6, <1>7, <1>11, UnchangedParts DEF SameLine
  <2> QED BY <1>0, <1>8, <2>1, OtherLine
<1> QED BY <1>9, <1>10, <1>11, StructByLine

\* flush_ready keeps the structure.
LEMMA FlushStruct ==
  ASSUME Types, Types', IInv, Struct, FlushStore, ~raced'
  PROVE  Struct'
<1>1. DueEntries \subseteq Nat /\ DueEntries # {}
  <2>1. stores \in Seq(StoreRec)
    BY DEF Types, StoreT
  <2> HIDE DEF StoreRec
  <2> QED BY <2>1 DEF DueEntries, FlushStore
<1>2. PICK i \in DueEntries : i = Min(DueEntries)
  BY <1>1, MinFacts
<1>3. i \in DOMAIN stores /\ ReadyToFlush(stores[i])
  BY DEF DueEntries
<1>4. FlushHit(i) \/ FlushMiss(i)
  BY <1>2 DEF FlushStore
<1> QED BY <1>3, <1>4, FlushHitStruct, FlushMissStruct
-----------------------------------------------------------------------------
(* The structure: responses to reads *)

\* Concatenation is associative.
LEMMA ConcatAssociates ==
  ASSUME NEW S, NEW q \in Seq(S), NEW a \in Seq(S), NEW b \in Seq(S)
  PROVE  (q \o a) \o b = q \o (a \o b) /\ a \o b \in Seq(S)
OBVIOUS

\* A line that loses a way, or only the tag of one, without being written from it.
LEMMA OtherWay ==
  ASSUME Types, PipeFacts, Struct, SameOps, consumed' \in Nat, consumed' >= consumed,
         NEW l \in Lines, SameStore(l), SameMiss(l), SameRead(l), SameWrite(l), SameEvict(l), SameCount(l),
         Cached(l)' => Cached(l), Ub(l) /\ HasWrite(l) /\ ~HasStore(l) => Tagged(l)'
  PROVE  OfLine(l)'
<1>0. OfLine(l)
  BY StructByLine
<1>1. OfReads(l)' /\ OfStores(l)'
  BY <1>0 DEF OfLine, OfReads, OfStores, SameStore, SameMiss, SameRead
<1>2. OfEntry(l)'
  BY EntryKept DEF SameStore
<1>3. OfUb(l)'
  BY <1>0 DEF OfLine, OfUb, SameStore, SameRead, SameWrite
<1>4. OfExternal(l)'
  BY <1>0 DEF OfLine, OfExternal, SameStore, SameMiss, SameRead, SameWrite, SameEvict, SameCount
<1>5. OfEvicted(l)'
  BY <1>0 DEF OfLine, OfEvicted, SameStore, SameMiss, SameRead, SameWrite, SameEvict
<1> QED BY <1>1, <1>2, <1>3, <1>4, <1>5 DEF OfLine

\* What a read response does to the write queue.
LEMMA ResponseWrites ==
  ASSUME Types, Types', Struct, NEW i \in DOMAIN reads, NEW v \in 1..Ways,
         NEW line \in Lines, line = reads[i].line, NEW old \in Lines \cup {ZeroLine}, old = cache[v].line,
         writes' = writes \o WritesBack(i, v) \o WritesThrough(i),
         Evicts(i, v) => old \in Lines
  PROVE  LET back == Evicts(i, v)
             through == HasStore(line) /\ Ub(line)
         IN  /\ \A l : Plain(l)' = Plain(l) + (IF back /\ l = old THEN 1 ELSE 0)
                                            + (IF through /\ l = line THEN 1 ELSE 0)
             /\ \A l : HasWrite(l)' <=> HasWrite(l) \/ (back /\ l = old) \/ (through /\ l = line)
             /\ \A j \in DOMAIN writes' : \/ \E k \in DOMAIN writes : writes'[j] = writes[k]
                                          \/ writes'[j].way = 0 /\ writes'[j].line \in Lines
<1> HIDE DEF WriteRec
<1> DEFINE a == WritesBack(i, v)
           b == WritesThrough(i)
           t == a \o b
<1>1. WriteT /\ WriteT' /\ writes \in Seq(WriteRec)
  BY DEF Types, WriteT
<1>2. WriteOf(old, 0) \in WriteRec /\ WriteOf(line, 0) \in WriteRec
  <2>1. 0 \in 0..Ways
    BY LsuAssumption
  <2> QED BY <2>1, QueueItems
<1>3. /\ a = IF Evicts(i, v) THEN <<WriteOf(old, 0)>> ELSE <<>>
      /\ b = IF HasStore(line) /\ Ub(line) THEN <<WriteOf(line, 0)>> ELSE <<>>
  BY DEF WritesBack, WritesThrough
<1>4. WriteOf(old, 0).line = old /\ WriteOf(line, 0).line = line /\ WriteOf(old, 0).way = 0
      /\ WriteOf(line, 0).way = 0
  BY DEF WriteOf
<1> HIDE DEF a, b
<1>5. a \in Seq(WriteRec) /\ b \in Seq(WriteRec)
  BY <1>2, <1>3
<1>6. \A l : /\ Many(a, PlainOf(l)) = IF Evicts(i, v) /\ l = old THEN 1 ELSE 0
             /\ Many(b, PlainOf(l)) = IF HasStore(line) /\ Ub(line) /\ l = line THEN 1 ELSE 0
  <2> TAKE l
  <2>1. Many(<<>>, PlainOf(l)) = 0
    BY <1>2, OnePlain
  <2>2. /\ Many(<<WriteOf(old, 0)>>, PlainOf(l)) = IF l = old THEN 1 ELSE 0
        /\ Many(<<WriteOf(line, 0)>>, PlainOf(l)) = IF l = line THEN 1 ELSE 0
    <3>1. \A x \in WriteRec : Many(<<x>>, PlainOf(l)) = IF x.line = l /\ x.way = 0 THEN 1 ELSE 0
      BY OnePlain
    <3> QED BY <1>2, <1>4, <3>1
  <2>3. Many(a, PlainOf(l)) = IF Evicts(i, v) /\ l = old THEN 1 ELSE 0
    BY <1>3, <2>1, <2>2
  <2>4. Many(b, PlainOf(l)) = IF HasStore(line) /\ Ub(line) /\ l = line THEN 1 ELSE 0
    BY <1>3, <2>1, <2>2
  <2> QED BY <2>3, <2>4
<1>7. writes' = writes \o t /\ t \in Seq(WriteRec)
  <2>1. writes' = (writes \o a) \o b
    BY DEF a, b
  <2> QED BY <1>1, <1>5, <2>1, ConcatAssociates
<1>8. \A l : Many(t, PlainOf(l)) = Many(a, PlainOf(l)) + Many(b, PlainOf(l))
  BY <1>5, ManyConcat
<1> HIDE DEF t
<1>10. /\ \A l : Plain(l)' = Plain(l) + Many(t, PlainOf(l))
       /\ \A l : HasWrite(l)' <=> HasWrite(l) \/ \E j \in DOMAIN t : t[j].line = l
       /\ \A j \in DOMAIN writes' : \/ j \in DOMAIN writes /\ writes'[j] = writes[j]
                                    \/ \E k \in DOMAIN t : writes'[j] = t[k] /\ j = Len(writes) + k
  BY <1>1, <1>7, WritesExtended
<1>11. \A l : Plain(l)' = Plain(l) + (IF Evicts(i, v) /\ l = old THEN 1 ELSE 0)
                                   + (IF HasStore(line) /\ Ub(line) /\ l = line THEN 1 ELSE 0)
  <2> TAKE l
  <2>1. Plain(l) \in Nat
    BY PlainMany DEF Types
  <2>2. /\ Plain(l)' = Plain(l) + Many(t, PlainOf(l))
        /\ Many(t, PlainOf(l)) = Many(a, PlainOf(l)) + Many(b, PlainOf(l))
        /\ Many(a, PlainOf(l)) = IF Evicts(i, v) /\ l = old THEN 1 ELSE 0
        /\ Many(b, PlainOf(l)) = IF HasStore(line) /\ Ub(line) /\ l = line THEN 1 ELSE 0
    BY <1>6, <1>8, <1>10
  <2> QED BY <2>1, <2>2
<1>12. /\ \A k \in DOMAIN t : \/ Evicts(i, v) /\ t[k] = WriteOf(old, 0)
                              \/ HasStore(line) /\ Ub(line) /\ t[k] = WriteOf(line, 0)
       /\ Evicts(i, v) => \E k \in DOMAIN t : t[k] = WriteOf(old, 0)
       /\ HasStore(line) /\ Ub(line) => \E k \in DOMAIN t : t[k] = WriteOf(line, 0)
  <2> DEFINE x == WriteOf(old, 0)
             y == WriteOf(line, 0)
  <2>1. t = a \o b /\ x \in WriteRec /\ y \in WriteRec
    BY <1>2 DEF t
  <2>2. /\ a = IF Evicts(i, v) THEN <<x>> ELSE <<>>
        /\ b = IF HasStore(line) /\ Ub(line) THEN <<y>> ELSE <<>>
    BY <1>3
  <2> HIDE DEF x, y
  <2>3. CASE Evicts(i, v) /\ HasStore(line) /\ Ub(line)
    <3>1. a = <<x>> /\ b = <<y>> /\ Len(a) = 1 /\ Len(b) = 1
      BY <2>2, <2>3
    <3>2. t \in Seq(WriteRec) /\ Len(t) = 2 /\ t[1] = x /\ t[2] = y
      BY <1>5, <1>7, <2>1, <3>1, ConcatFacts
    <3>3. DOMAIN t = {1, 2}
      BY <3>2
    <3> QED BY <2>3, <3>2, <3>3 DEF x, y
  <2>4. CASE Evicts(i, v) /\ ~(HasStore(line) /\ Ub(line))
    <3>1. a = <<x>> /\ b = <<>> /\ Len(a) = 1 /\ Len(b) = 0
      BY <2>2, <2>4
    <3>2. t \in Seq(WriteRec) /\ Len(t) = 1 /\ t[1] = x
      BY <1>5, <1>7, <2>1, <3>1, ConcatFacts
    <3>3. DOMAIN t = {1}
      BY <3>2
    <3> QED BY <2>4, <3>2, <3>3 DEF x
  <2>5. CASE ~Evicts(i, v) /\ HasStore(line) /\ Ub(line)
    <3>1. t = <<y>>
      BY <2>1, <2>2, <2>5
    <3>2. DOMAIN t = {1} /\ t[1] = y
      BY <3>1
    <3> QED BY <2>5, <3>2 DEF y
  <2>6. CASE ~Evicts(i, v) /\ ~(HasStore(line) /\ Ub(line))
    <3>1. t = <<>>
      BY <2>1, <2>2, <2>6
    <3>2. DOMAIN t = {}
      BY <3>1
    <3> QED BY <2>6, <3>2
  <2> QED BY <2>3, <2>4, <2>5, <2>6
<1>13. \A l : HasWrite(l)' <=> HasWrite(l) \/ (Evicts(i, v) /\ l = old)
                                          \/ (HasStore(line) /\ Ub(line) /\ l = line)
  <2> TAKE l
  <2>1. (\E j \in DOMAIN t : t[j].line = l)
          <=> (Evicts(i, v) /\ l = old) \/ (HasStore(line) /\ Ub(line) /\ l = line)
    BY <1>4, <1>12
  <2>2. HasWrite(l)' <=> HasWrite(l) \/ \E j \in DOMAIN t : t[j].line = l
    BY <1>10
  <2> QED BY <2>1, <2>2
<1>14. \A j \in DOMAIN writes' : \/ \E k \in DOMAIN writes : writes'[j] = writes[k]
                                 \/ writes'[j].way = 0 /\ writes'[j].line \in Lines
  <2> TAKE j \in DOMAIN writes'
  <2>1. \/ j \in DOMAIN writes /\ writes'[j] = writes[j]
        \/ \E k \in DOMAIN t : writes'[j] = t[k]
    BY <1>10
  <2>2. \A k \in DOMAIN t : t[k].way = 0 /\ t[k].line \in Lines
    BY <1>4, <1>12
  <2> QED BY <2>1, <2>2
<1> QED BY <1>11, <1>13, <1>14

\* A refill keeps the structure: the new line replaces the victim, whose dirty data becomes evicted data.
LEMMA ReadStruct ==
  ASSUME Types, Types', IInv, Struct, NEW i \in DOMAIN reads, NEW v \in Victims, ReadResponse(i, v), ~raced'
  PROVE  Struct'
<1> HIDE DEF StoreRec, WriteRec, ReadRec, WayRec, Data, Requests
<1>0. PipeFacts
  BY PipeNumbers
<1>1. PICK line \in Lines : line = reads[i].line
  BY QueueItems
<1>2. PICK old \in Lines \cup {ZeroLine} : old = cache[v].line
  BY VictimFacts, WayTyped
<1>3. PICK refills : refills = Refills(i)
  OBVIOUS
<1>4. PICK evicts : evicts = Evicts(i, v)
  OBVIOUS
<1>5. PICK merged : merged = Merged(i)
  OBVIOUS
<1>p. /\ cache' = IF refills THEN Install(v, line, merged, External(line) /\ HasStore(line)) ELSE cache
      /\ evict' = IF evicts THEN Put(evict, old[2], cache[v].data) ELSE evict
      /\ writes' = writes \o WritesBack(i, v) \o WritesThrough(i)
      /\ misses' = IF Serves(i) THEN Drop(misses, line) ELSE misses
      /\ reads' = RemoveAt(reads, i)
      /\ raced' = (raced \/ (refills /\ BeingWritten(v)))
      /\ UNCHANGED <<pipeVars, ops, lookup, direct, memory, events, maint, failure>>
  BY <1>1, <1>2, <1>3, <1>4, <1>5, ReadResponseParts
<1>s. /\ ~HasStore(line) => stores' = stores
      /\ HasStore(line) /\ External(line) => stores' = RemoveAt(stores, StoreIndex(line))
      /\ HasStore(line) /\ ~External(line) => stores' = [stores EXCEPT ![StoreIndex(line)] = Readied(i)]
  BY <1>1, ReadResponseParts
<1>6. UNCHANGED <<ops, issued, consumed, admitted, direct, maintActive, maintRelease>>
  BY <1>p DEF pipeVars, maint
<1>7. OfLine(line) /\ HasRead(line) /\ ~Cached(line) /\ ~Evicted(line)
  <2>1. OfLine(line) /\ HasRead(line)
    BY <1>1, StructByLine DEF HasRead
  <2> QED BY <2>1 DEF OfLine, OfReads, OfEvicted
<1>8. ~maintActive
  BY DEF Struct, Maintained
<1>9. (External(line) <=> ~Ub(line)) /\ (refills <=> External(line) \/ CacheUb)
  BY <1>1, <1>3, LineFacts DEF Refills
<1>10. evicts => /\ refills /\ cache[v].valid /\ old \in Lines /\ External(old) /\ ~Ub(old) /\ old # line
                 /\ Cached(old)
  <2>1. v \in 1..Ways
    BY VictimFacts
  <2>2. evicts => refills /\ cache[v].valid /\ cache[v].dirty
    BY <1>3, <1>4 DEF Evicts, NeedsWriteback
  <2>3. cache[v].dirty => External(old) /\ old \in Lines
    BY <1>2, <2>1 DEF Struct, DirtyExternal
  <2>4. cache[v].valid => old # line /\ Cached(old)
    BY <1>2, <1>7, <2>1 DEF Cached
  <2> QED BY <2>2, <2>3, <2>4, LineFacts
<1>11. /\ refills => cache'[v].line = line /\ cache'[v].valid /\ (cache'[v].dirty => External(line))
       /\ \A w \in 1..Ways : w # v \/ ~refills => cache'[w] = cache[w]
  <2>1. v \in 1..Ways /\ CacheT
    BY VictimFacts DEF Types
  <2>2. merged \in Data
    <3>1. memory[line] \in Data
      BY DEF Types, MemoryT
    <3>2. HasStore(line) => Merge(StoreEntry(line), memory[line]) \in Data
      BY <3>1, MergeTyped, StoreFacts DEF Types
    <3> QED BY <1>1, <1>5, <3>1, <3>2 DEF Merged
  <2>b. (External(line) /\ HasStore(line)) \in BOOLEAN
    OBVIOUS
  <2>3. PICK b \in BOOLEAN : b = (External(line) /\ HasStore(line))
    BY <2>b
  <2>b2. b \in BOOLEAN
    BY <2>3
  <2> DEFINE c == Install(v, line, merged, b)
  <2>4. /\ c[v] = [line |-> line, valid |-> TRUE, dirty |-> b, data |-> merged]
        /\ \A w \in 1..Ways : w # v => c[w] = cache[w]
    BY <1>1, <2>1, <2>2, <2>b2, InstallTyped
  <2>5. refills => cache' = c
    BY <1>p, <2>3
  <2>6. ~refills => cache' = cache
    BY <1>p
  <2> HIDE DEF c
  <2>7. c[v].line = line /\ c[v].valid /\ c[v].dirty = b
    BY <2>4
  <2>8. b => External(line)
    BY <2>3
  <2> QED BY <2>1, <2>4, <2>5, <2>6, <2>7, <2>8
<1>12. /\ ReadsApart' /\ ~HasRead(line)' /\ \A o : ~ReadBy(line, o)'
       /\ \A l : l # line => SameRead(l)
  BY <1>1, <1>p, ReadRemoved DEF Types, Struct, SameRead
<1>13. /\ Serves(i) => ~HasMiss(line)'
       /\ \A l : l # line => SameMiss(l)
       /\ External(line) => Serves(i)
  <2>1. Serves(i) => misses' = [l \in DOMAIN misses \ {line} |-> misses[l]]
    BY <1>p DEF Drop
  <2>2. ~Serves(i) => UNCHANGED misses
    BY <1>p
  <2> QED BY <1>1, <2>1, <2>2, UnchangedParts DEF HasMiss, SameMiss, Serves
<1>14. /\ StoresApart'
       /\ HasStore(line)' <=> HasStore(line) /\ Ub(line)
       /\ HasStore(line)' => /\ StoreEntry(line)'.state = "Ready" /\ StoreEntry(line)'.valid = Offsets
                             /\ StoreEntry(line)'.requests = StoreEntry(line).requests
       /\ \A l : l # line => SameStore(l)
  <2>1. StoreT /\ StoresApart
    BY DEF Types, Struct
  <2>2. CASE ~HasStore(line)
    <3>1. StoresApart' /\ \A l : SameStore(l)
      BY <1>s, <2>1, <2>2, UnchangedParts DEF StoresApart
    <3> QED BY <2>2, <3>1 DEF SameStore
  <2>3. CASE HasStore(line) /\ External(line)
    <3>1. StoreIndex(line) \in DOMAIN stores /\ line = stores[StoreIndex(line)].line
      BY <2>1, <2>3, StoreFacts
    <3>2. stores' = RemoveAt(stores, StoreIndex(line))
      BY <1>s, <2>3
    <3>3. /\ StoresApart' /\ ~HasStore(line)'
          /\ \A l : l # line => /\ HasStore(l)' <=> HasStore(l)
                                /\ HasStore(l) => StoreEntry(l)' = StoreEntry(l)
      BY <2>1, <3>1, <3>2, StoreRemoved
    <3> QED BY <1>9, <2>3, <3>3 DEF SameStore
  <2>4. CASE HasStore(line) /\ ~External(line)
    <3> DEFINE k == StoreIndex(line)
               f == Readied(i)
    <3>1. k \in DOMAIN stores /\ stores[k].line = line /\ StoreEntry(line) \in StoreRec
          /\ StoreEntry(line).line = line
      BY <2>1, <2>4, StoreFacts
    <3>2. Merged(i) \in Data
      <4>1. memory[line] \in Data
        BY DEF Types, MemoryT
      <4>2. Merge(StoreEntry(line), memory[line]) \in Data
        BY <3>1, <4>1, MergeTyped
      <4> QED BY <1>1, <2>4, <4>2 DEF Merged
    <3>3. /\ f \in StoreRec /\ f.line = line /\ f.state = "Ready" /\ f.valid = Offsets
          /\ f.requests = StoreEntry(line).requests
      <4>1. (~(reads[i].owner = "Miss")) \in BOOLEAN
        OBVIOUS
      <4> QED BY <1>1, <3>1, <3>2, <4>1, StoreReady DEF Readied
    <3>4. stores' = [stores EXCEPT ![k] = f]
      BY <1>s, <2>4
    <3> HIDE DEF k, f
    <3>5. /\ StoresApart' /\ HasStore(line)' /\ StoreEntry(line)' = f
          /\ \A l : l # line => /\ HasStore(l)' <=> HasStore(l)
                                /\ HasStore(l) => StoreEntry(l)' = StoreEntry(l)
      BY <2>1, <3>1, <3>3, <3>4, StoreReplaced
    <3> QED BY <1>9, <2>4, <3>3, <3>5 DEF SameStore
  <2> QED BY <2>2, <2>3, <2>4
<1>15. /\ \A l : Plain(l)' = Plain(l) + (IF evicts /\ l = old THEN 1 ELSE 0)
                                     + (IF HasStore(line) /\ Ub(line) /\ l = line THEN 1 ELSE 0)
       /\ \A l : HasWrite(l)' <=> HasWrite(l) \/ (evicts /\ l = old)
                                             \/ (HasStore(line) /\ Ub(line) /\ l = line)
       /\ \A j \in DOMAIN writes' : \/ \E k \in DOMAIN writes : writes'[j] = writes[k]
                                    \/ writes'[j].way = 0 /\ writes'[j].line \in Lines
       /\ \A l : Plain(l) \in Nat
  <2>1. v \in 1..Ways /\ (Evicts(i, v) => old \in Lines)
    BY <1>4, <1>10, VictimFacts
  <2>2. \A l : Plain(l) \in Nat
    BY PlainMany DEF Types
  <2> QED BY <1>1, <1>2, <1>4, <1>p, <2>1, <2>2, ResponseWrites
<1>16. \A l : SameCount(l)
  BY <1>6, UnchangedParts
<1>17. \A l \in Lines : Evicted(l)' <=> Evicted(l) \/ (evicts /\ l = old)
  <2>1. DOMAIN evict' = IF evicts THEN DOMAIN evict \cup {old[2]} ELSE DOMAIN evict
    <3>1. evict' = IF evicts THEN [a \in DOMAIN evict \cup {old[2]} |->
                                     IF a = old[2] THEN cache[v].data ELSE evict[a]] ELSE evict
      BY <1>p DEF Put
    <3> QED BY <3>1
  <2>2. \A l \in Lines : evicts /\ External(l) /\ l[2] = old[2] => l = old
    BY <1>10, SameAddress
  <2> QED BY <1>10, <2>1, <2>2 DEF Evicted
<1>18. SameOps /\ consumed' \in Nat /\ consumed' >= consumed
  BY <1>0, <1>6, UnchangedOps DEF PipeFacts
<1>19. \A l : l # line => (Cached(l)' => Cached(l))
  BY <1>11 DEF Cached
<1>20. \A l : l # line /\ Ub(l) /\ HasWrite(l) /\ ~HasStore(l) /\ Tagged(l) => Tagged(l)'
  <2> SUFFICES ASSUME NEW l, l # line, Ub(l), HasWrite(l), ~HasStore(l), Tagged(l) PROVE Tagged(l)'
    OBVIOUS
  <2>1. PICK w \in 1..Ways : cache[w].line = l
    BY DEF Tagged
  <2>2. w # v \/ ~refills
    <3>1. refills => ~BeingWritten(v)
      BY <1>p
    <3> QED BY <2>1, <3>1 DEF BeingWritten
  <2> QED BY <1>11, <2>1, <2>2 DEF Tagged
<1>21. Whole'
  <2>1. SingleWay'
    BY <1>7, <1>11 DEF Struct, OneCopy, SingleWay, Cached
  <2>2. DirtyExternal'
    BY <1>11 DEF Struct, DirtyExternal, External
  <2>3. DirectExternal'
    BY <1>6 DEF Struct, DirectExternal
  <2> QED BY <1>0, <1>6, <1>8, <1>12, <1>14, <1>15, <1>18, <2>1, <2>2, <2>3, FreeWhole
<1>22. OfLine(line)'
  <2>1. OfReads(line)' /\ OfStores(line)'
    BY <1>12, <1>14 DEF OfReads, OfStores
  <2>2. OfEntry(line)'
    BY <1>0, <1>14, <1>18, EntryKept
  <2>3. OfUb(line)'
    <3>1. Ub(line) => ~HasWrite(line)
      BY <1>7 DEF OfLine, OfUb
    <3>2. Ub(line) => Plain(line) = 0
      BY <1>8, <1>15, <3>1, NoWays
    <3> QED BY <1>10, <1>12, <1>14, <1>15, <3>1, <3>2 DEF OfUb
  <2>4. ~Evicted(line)'
    BY <1>7, <1>10, <1>17
  <2>5. OfEvicted(line)'
    BY <2>4 DEF OfEvicted
  <2>6. OfExternal(line)'
    <3>1. External(line) => Plain(line)' = Plain(line)
      BY <1>9, <1>10, <1>15
    <3>2. DirectCount(line)' = DirectCount(line)
      BY <1>16 DEF SameCount
    <3> QED BY <1>7, <1>9, <1>13, <1>14, <2>4, <3>1, <3>2 DEF OfLine, OfExternal
  <2> QED BY <2>1, <2>2, <2>3, <2>5, <2>6 DEF OfLine
<1>23. ASSUME evicts PROVE OfLine(old)'
  <2>1. OfLine(old)
    BY <1>10, <1>23, StructByLine
  <2>2. /\ old \in Lines /\ External(old) /\ ~Ub(old) /\ old # line /\ Cached(old)
        /\ SameStore(old) /\ SameMiss(old) /\ SameRead(old) /\ SameCount(old) /\ Evicted(old)'
    BY <1>10, <1>12, <1>13, <1>14, <1>16, <1>17, <1>23
  <2>3. ~HasRead(old) /\ ~HasMiss(old) /\ ~Evicted(old)
    BY <2>1, <2>2 DEF OfLine, OfReads, OfExternal, OfEvicted
  <2>4. HasStore(old) => StoreEntry(old).state = "Idle" /\ StoreEntry(old).hit
    BY <2>1, <2>2, <2>3 DEF OfLine, OfStores, OfExternal
  <2>5. ~Cached(old)'
    <3> SUFFICES ASSUME NEW w \in 1..Ways, cache'[w].valid, cache'[w].line = old PROVE FALSE
      BY DEF Cached
    <3>1. w # v
      BY <1>10, <1>11, <1>23
    <3>2. v \in 1..Ways
      BY VictimFacts
    <3> QED BY <1>2, <1>10, <1>11, <1>23, <3>1, <3>2 DEF Struct, OneCopy
  <2>6. Plain(old)' = Plain(old) + 1 /\ Plain(old) \in Nat
    BY <1>15, <1>23, <2>2
  <2>7. Plain(old) <= DirectCount(old) /\ DirectCount(old) \in Nat /\ DirectCount(old)' = DirectCount(old)
    <3>1. DirectCount(old) \in Nat
      BY DirectMany DEF Types
    <3> QED BY <2>1, <2>2, <2>3, <3>1 DEF OfLine, OfExternal, SameCount
  <2>8. OfReads(old)' /\ OfStores(old)'
    BY <2>2, <2>3, <2>5 DEF OfReads, OfStores, SameRead, SameMiss, HasRead, ReadBy
  <2>9. OfEntry(old)'
    BY <1>0, <1>18, <2>2, EntryKept DEF SameStore
  <2>10. OfUb(old)'
    BY <2>2 DEF OfUb
  <2>11. OfExternal(old)'
    <3>1. Plain(old)' <= 1 + DirectCount(old)'
      BY <2>6, <2>7
    <3>2. Plain(old)' <= (IF Evicted(old)' THEN 1 ELSE 0) + DirectCount(old)'
      BY <2>2, <3>1
    <3> QED BY <2>2, <2>3, <2>4, <3>2 DEF OfExternal, SameStore, SameMiss
  <2>12. OfEvicted(old)'
    <3>1. Plain(old)' >= 1
      BY <2>6
    <3> QED BY <2>2, <2>3, <2>4, <2>5, <3>1 DEF OfEvicted, SameStore, SameMiss, SameRead
  <2> QED BY <2>8, <2>9, <2>10, <2>11, <2>12 DEF OfLine
<1>24. ASSUME NEW l \in Lines, l # line, ~(evicts /\ l = old) PROVE OfLine(l)'
  <2>1. SameStore(l) /\ SameMiss(l) /\ SameRead(l) /\ SameCount(l)
    BY <1>12, <1>13, <1>14, <1>16, <1>24
  <2>2. SameWrite(l) /\ SameEvict(l)
    BY <1>15, <1>17, <1>24 DEF SameWrite, SameEvict
  <2>3. Cached(l)' => Cached(l)
    BY <1>19, <1>24
  <2>4. Ub(l) /\ HasWrite(l) /\ ~HasStore(l) => Tagged(l)'
    <3>1. OfLine(l)
      BY StructByLine
    <3> QED BY <1>20, <1>24, <3>1 DEF OfLine, OfUb
  <2> QED BY <1>0, <1>18, <2>1, <2>2, <2>3, <2>4, OtherWay
<1> QED BY <1>21, <1>22, <1>23, <1>24, StructByLine
-----------------------------------------------------------------------------
(* Every step keeps the structure *)

\* A read response, from either memory, keeps the structure.
LEMMA ReadsStruct ==
  ASSUME Types, Types', IInv, Struct, UbReadResponse \/ \E i \in DOMAIN reads : ExternalReadResponse(i), ~raced'
  PROVE  Struct'
<1>1. CASE UbReadResponse
  <2>1. InFlight(reads, "Ub") # {} /\ reads \in Seq(ReadRec)
    BY <1>1 DEF UbReadResponse, Types, ReadT
  <2>2. Min(InFlight(reads, "Ub")) \in DOMAIN reads
    BY <2>1, QueueHead
  <2>3. PICK v \in Victims : ReadResponse(Min(InFlight(reads, "Ub")), v)
    BY <1>1 DEF UbReadResponse
  <2> QED BY <2>2, <2>3, ReadStruct
<1>2. ASSUME NEW i \in DOMAIN reads, ExternalReadResponse(i) PROVE Struct'
  <2>1. PICK v \in Victims : ReadResponse(i, v)
    BY <1>2 DEF ExternalReadResponse
  <2> QED BY <2>1, ReadStruct
<1> QED BY <1>1, <1>2

\* The history of races only grows.
LEMMA RacesAreKept ==
  ASSUME Types, raced, [Next]_vars
  PROVE  raced'
<1>1. CASE UbWriteResponse \/ UbReadResponse \/ ProcessDirectStores \/ FlushStore
  BY <1>1 DEF UbWriteResponse, UbReadResponse, ReadResponse, ProcessDirectStores, FlushStore, FlushHit,
              FlushMiss
<1>2. ASSUME NEW i, ExternalReadResponse(i) \/ ExternalWriteResponse(i) PROVE raced'
  BY <1>2 DEF ExternalReadResponse, ReadResponse, ExternalWriteResponse
<1>3. CASE M2(consumed)
  BY <1>3 DEF M2, LoadHit, PreloadHit, LoadMiss, StoreM2, DirectStoreM2, Clean
<1>4. CASE TriggerFlush \/ AdvanceTimeouts \/ EndFlush \/ ReleaseMaintenance \/ M1 \/ BlockM0 \/ DrainM0
           \/ M0 \/ UNCHANGED vars
  BY <1>4 DEF TriggerFlush, AdvanceTimeouts, EndFlush, ReleaseMaintenance, M1, BlockM0, DrainM0, M0, vars
<1>5. CASE ErrorReturn \/ Skip
  BY <1>5 DEF ErrorReturn, Fail, Skip, Pass
<1>6. ASSUME NEW op, Admit(op) PROVE raced'
  BY <1>6 DEF Admit
<1>7. ASSUME NEW stage, ReplayStage(stage) PROVE raced'
  BY <1>7 DEF ReplayStage
<1>8. ASSUME NEW accepts, SendReads(accepts) \/ SendWrites(accepts) PROVE raced'
  BY <1>8 DEF SendReads, SendWrites
<1> QED BY <1>1, <1>2, <1>3, <1>4, <1>5, <1>6, <1>7, <1>8 DEF Next

\* Every step that meets no race keeps the structure.
LEMMA StructStep ==
  ASSUME ZeroLine \notin Lines, Types, Types', IInv, LookedUpFirst, Struct, [Next]_vars, ~raced'
  PROVE  Struct'
<1>0. PipeFacts
  BY PipeNumbers
<1> HIDE DEF PipeFacts
<1>1. CASE UbReadResponse \/ \E i \in DOMAIN reads : ExternalReadResponse(i)
  BY <1>1, ReadsStruct
<1>2. ASSUME NEW i \in DOMAIN writes, ExternalWriteResponse(i) PROVE Struct'
  BY <1>2, MaintenanceWriteStruct, PlainWriteStruct
<1>3. CASE UbWriteResponse \/ ProcessDirectStores \/ FlushStore
  BY <1>3, UbWriteStruct, ProcessStruct, FlushStruct
<1>4. CASE M2(consumed)
  BY <1>4, HitStruct, LoadMissStruct, StoreM2Struct, DirectStoreStruct, CleanStruct DEF M2
<1>5. CASE M0 \/ ReleaseMaintenance
  BY <1>5, IssueStruct, ReleaseStruct
<1>6. CASE TriggerFlush \/ AdvanceTimeouts
  BY <1>0, <1>6, TimersStruct
<1>7. CASE M1 \/ BlockM0 \/ DrainM0 \/ EndFlush \/ ErrorReturn \/ Skip \/ UNCHANGED vars
  BY <1>0, <1>7, IdleStruct
<1>8. ASSUME NEW op \in Operations, Admit(op) PROVE Struct'
  BY <1>0, <1>8, AdmitStruct
<1>9. ASSUME NEW stage \in {"M1", "M2"}, ReplayStage(stage) PROVE Struct'
  BY <1>9, ReplayStruct
<1>10. ASSUME NEW accepts, SendReads(accepts) \/ SendWrites(accepts) PROVE Struct'
  BY <1>0, <1>10, SendStruct
<1> QED BY <1>1, <1>2, <1>3, <1>4, <1>5, <1>6, <1>7, <1>8, <1>9, <1>10 DEF Next
-----------------------------------------------------------------------------
(* What the structure says of the arrivals *)

\* A read finds the entry that asked for it.
LEMMA OwnerFound ==
  ASSUME Types, Struct, NEW i \in DOMAIN reads
  PROVE  Owned(reads[i])
<1>1. PICK l \in Lines : l = reads[i].line
  BY QueueItems
<1>2. reads[i].owner \in {"Miss", "Store"}
  BY QueueItems
<1>3. ReadBy(l, reads[i].owner)
  BY <1>1 DEF ReadBy
<1> QED BY <1>1, <1>2, <1>3 DEF Struct, Owners, Owned

\* A write of a UB line finds the bytes it carries in the store buffer or in a way.
LEMMA UbWriteFound ==
  ASSUME Types, Struct, NEW i \in DOMAIN writes, Ub(writes[i].line), NEW l, l = writes[i].line
  PROVE  /\ l \in Lines /\ Plain(l) = 1
         /\ HasStore(l) => StoreEntry(l).state # "Idle" /\ (UbWriteAllocate => StoreEntry(l).valid = Offsets)
         /\ ~HasStore(l) => FindWay(l) # 0
<1>1. l \in Lines /\ Ub(l) /\ HasWrite(l)
  BY QueueItems DEF HasWrite
<1>2. FindWay(l) = 0 <=> ~Tagged(l)
  BY TagSearch
<1> QED BY <1>1, <1>2 DEF Struct, UbWrites

\* A plain write of an external line finds evicted data or a direct store.
LEMMA ExternalWriteFound ==
  ASSUME Types, Struct, NEW i \in DOMAIN writes, External(writes[i].line), writes[i].way = 0,
         NEW l, l = writes[i].line
  PROVE  /\ Plain(l) <= (IF l[2] \in DOMAIN evict THEN 1 ELSE 0) + DirectCount(l)
         /\ l[2] \in DOMAIN evict \/ HasDirect(l)
<1>1. l \in Lines /\ External(l)
  BY DEF Struct, WaysKept, WritesKnown
<1>2. Evicted(l) <=> l[2] \in DOMAIN evict
  BY <1>1 DEF Evicted
<1>3. Plain(l) \in Nat /\ Plain(l) # 0
  BY PlainMany DEF Types
<1>4. DirectCount(l) \in Nat /\ (DirectCount(l) = 0 <=> ~HasDirect(l))
  BY DirectMany DEF Types
<1>5. Plain(l) <= (IF l[2] \in DOMAIN evict THEN 1 ELSE 0) + DirectCount(l)
  BY <1>1, <1>2 DEF Struct, ExternalWrites
<1> QED BY <1>3, <1>4, <1>5

\* No clean meets a dirty UB way.
LEMMA CleanFound ==
  ASSUME Types, IInv, LookedUpFirst, Struct
  PROVE  ~CleanLost
<1> SUFFICES ASSUME Evaluates("M2"), NEW w \in MaintenanceWays(consumed), cache[w].dirty, Ub(cache[w].line)
             PROVE  FALSE
  BY DEF CleanLost
<1>0. PipeFacts /\ Ways \in Nat
  BY PipeNumbers, LsuAssumption
<1>1. consumed < issued
  BY HeadIssued DEF Evaluates, HeadReady, HasHead
<1>2. consumed \in 0..issued - 1 /\ consumed \in Nat /\ consumed < admitted
  BY <1>0, <1>1 DEF PipeFacts
<1>3. lookup[consumed + 1] \in NotLooked..Ways /\ lookup[consumed + 1] # NotLooked
  BY <1>0, <1>2, OpFacts DEF Types, LookedUpFirst
<1>4. lookup[consumed + 1] \in 0..Ways
  BY <1>0, <1>3 DEF NotLooked
<1>5. w \in 1..Ways
  BY <1>0, <1>4 DEF MaintenanceWays
<1>6. cache[w].line \in Lines /\ External(cache[w].line)
  BY <1>5 DEF Struct, DirtyExternal
<1> QED BY <1>6, LineFacts

\* No step ends the simulation before a race has happened: every answer finds its data or its owner.
LEMMA NoErrorStep ==
  ASSUME Types, IInv, LookedUpFirst, Struct, failure = "none", [Next]_vars, ~raced'
  PROVE  failure' = "none"
<1>1. CASE ErrorReturn
  <2>1. PICK e \in Errors : Fail(e[1], e[2])
    BY <1>1 DEF ErrorReturn
  <2>2. e[2] # "MissingCacheLine"
    BY <2>1 DEF Fail
  <2>3. CASE UbWriteLost
    <3>1. writes \in Seq(WriteRec) /\ InFlight(writes, "Ub") # {}
      BY <2>3 DEF UbWriteLost, Types, WriteT
    <3>2. PICK i : i = Min(InFlight(writes, "Ub")) /\ i \in InFlight(writes, "Ub") /\ i \in DOMAIN writes
      BY <3>1, QueueHead
    <3>3. Ub(writes[i].line)
      BY <3>2 DEF InFlight, Ub
    <3> QED BY <2>3, <3>2, <3>3, UbWriteFound DEF UbWriteLost
  <2>4. CASE ExternalWriteLost
    <3>1. PICK i \in InFlight(writes, "External") :
            writes[i].way = 0 /\ writes[i].line[2] \notin DOMAIN evict /\ ~HasDirect(writes[i].line)
      BY <2>4 DEF ExternalWriteLost
    <3>2. i \in DOMAIN writes /\ External(writes[i].line)
      BY <3>1 DEF InFlight, External
    <3> QED BY <3>1, <3>2, ExternalWriteFound
  <2>5. CASE InFlight(reads, "Ub") # {} /\ ~Owned(reads[Min(InFlight(reads, "Ub"))])
    <3>1. reads \in Seq(ReadRec)
      BY DEF Types, ReadT
    <3>2. Min(InFlight(reads, "Ub")) \in DOMAIN reads
      BY <2>5, <3>1, QueueHead
    <3> QED BY <2>5, <3>2, OwnerFound
  <2>6. CASE \E i \in InFlight(reads, "External") : ~Owned(reads[i])
    <3>1. InFlight(reads, "External") \subseteq DOMAIN reads
      BY DEF InFlight
    <3> QED BY <2>6, <3>1, OwnerFound
  <2>7. CASE CleanLost
    BY <2>7, CleanFound
  <2>8. e[2] = "MissingCacheLine" \/ UbWriteLost \/ ExternalWriteLost \/ CleanLost
        \/ (InFlight(reads, "Ub") # {} /\ ~Owned(reads[Min(InFlight(reads, "Ub"))]))
        \/ (\E i \in InFlight(reads, "External") : ~Owned(reads[i]))
    <3> DEFINE a == InFlight(reads, "Ub") # {} /\ ~Owned(reads[Min(InFlight(reads, "Ub"))])
               b == \E i \in InFlight(reads, "External") : ~Owned(reads[i])
    <3>1. e \in {x \in {<<"ubWrite", "MissingWriteData", UbWriteLost>>,
                        <<"externalWrite", "MissingWriteData", ExternalWriteLost>>,
                        <<"ubRead", "UnexpectedReadResponse", a>>,
                        <<"externalRead", "UnexpectedReadResponse", b>>,
                        <<"flush", "MissingCacheLine", FlushLost>>,
                        <<"M2", "MissingWriteData", CleanLost>>} : x[3]}
      BY <2>1 DEF Errors
    <3> HIDE DEF a, b
    <3>2. e[3]
      BY <3>1
    <3>3. \/ e = <<"ubWrite", "MissingWriteData", UbWriteLost>>
          \/ e = <<"externalWrite", "MissingWriteData", ExternalWriteLost>>
          \/ e = <<"ubRead", "UnexpectedReadResponse", a>>
          \/ e = <<"externalRead", "UnexpectedReadResponse", b>>
          \/ e = <<"flush", "MissingCacheLine", FlushLost>>
          \/ e = <<"M2", "MissingWriteData", CleanLost>>
      BY <3>1
    <3>4. e[2] = "MissingCacheLine" \/ UbWriteLost \/ ExternalWriteLost \/ CleanLost \/ a \/ b
      BY <3>2, <3>3
    <3> QED BY <3>4 DEF a, b
  <2> QED BY <2>2, <2>3, <2>4, <2>5, <2>6, <2>7, <2>8
<1>2. CASE UbWriteResponse \/ UbReadResponse \/ ProcessDirectStores \/ FlushStore
  BY <1>2 DEF UbWriteResponse, UbReadResponse, ReadResponse, ProcessDirectStores, FlushStore, FlushHit,
              FlushMiss
<1>3. ASSUME NEW i, ExternalReadResponse(i) \/ ExternalWriteResponse(i) PROVE failure' = "none"
  BY <1>3 DEF ExternalReadResponse, ReadResponse, ExternalWriteResponse
<1>4. CASE M2(consumed)
  BY <1>4 DEF M2, LoadHit, PreloadHit, LoadMiss, StoreM2, DirectStoreM2, Clean, AtM2
<1>5. CASE TriggerFlush \/ AdvanceTimeouts \/ EndFlush \/ ReleaseMaintenance \/ M1 \/ BlockM0 \/ DrainM0
           \/ M0 \/ UNCHANGED vars
  BY <1>5 DEF TriggerFlush, AdvanceTimeouts, EndFlush, ReleaseMaintenance, M1, BlockM0, DrainM0, M0, vars
<1>6. CASE Skip
  BY <1>6 DEF Skip, Pass
<1>7. ASSUME NEW op, Admit(op) PROVE failure' = "none"
  BY <1>7 DEF Admit
<1>8. ASSUME NEW stage, ReplayStage(stage) PROVE failure' = "none"
  BY <1>8 DEF ReplayStage
<1>9. ASSUME NEW accepts, SendReads(accepts) \/ SendWrites(accepts) PROVE failure' = "none"
  BY <1>9 DEF SendReads, SendWrites
<1> QED BY <1>1, <1>2, <1>3, <1>4, <1>5, <1>6, <1>7, <1>8, <1>9 DEF Next

\* The unit starts empty.
LEMMA InitStruct == Init => Struct /\ failure = "none"
<1> SUFFICES ASSUME Init PROVE Struct /\ failure = "none"
  OBVIOUS
<1>1. /\ misses = <<>> /\ stores = <<>> /\ direct = <<>> /\ reads = <<>> /\ writes = <<>> /\ evict = <<>>
      /\ issued = 0 /\ consumed = 0 /\ ~maintActive /\ maintRelease = "none" /\ failure = "none"
      /\ \A w \in 1..Ways : ~cache[w].valid /\ ~cache[w].dirty
  BY DEF Init, PipeInit
<1>2. \A l : ~HasStore(l) /\ ~HasRead(l) /\ ~HasMiss(l) /\ ~HasWrite(l) /\ ~Evicted(l) /\ ~Cached(l)
             /\ \A o : ~ReadBy(l, o)
  BY <1>1 DEF HasStore, HasRead, HasMiss, HasWrite, Evicted, Cached, ReadBy
<1>3. \A l : Plain(l) = 0 /\ DirectCount(l) \in Nat
  <2> TAKE l
  <2>1. WriteT /\ DirectT
    BY InitTyped DEF Types
  <2>2. Plain(l) = 0
    BY <1>1, <2>1, PlainMany
  <2>3. DirectCount(l) \in Nat
    BY <2>1, DirectMany
  <2> QED BY <2>2, <2>3
<1>4. StoresApart /\ ReadsApart /\ DirtyExternal /\ WaysKept /\ DirectExternal
  BY <1>1 DEF StoresApart, ReadsApart, DirtyExternal, WaysKept, WritesKnown, WaysHeld, WaysApart, DirectExternal
<1>5. Maintained
  <2>1. consumed..issued - 1 = {}
    BY <1>1
  <2> QED BY <1>1, <2>1 DEF Maintained
<1>6. Owners /\ StoreBesideMiss /\ UbWrites /\ Entries /\ EvictedAlone /\ Fetched
  BY <1>2 DEF Owners, StoreBesideMiss, UbWrites, Entries, EvictedAlone, Fetched
<1>7. OneCopy
  BY <1>1, <1>2 DEF OneCopy
<1>8. ExternalWrites
  BY <1>2, <1>3 DEF ExternalWrites
<1> QED BY <1>1, <1>4, <1>5, <1>6, <1>7, <1>8 DEF Struct

\* As long as no lookup result went stale, no refill took the way of a UB write
\* and no direct store was written twice, the buffers, the queues, the ways and
\* the evicted data of the unit fit together in every state, and no error ends
\* the simulation: every response finds the entry that asked for it, every
\* acknowledgement the bytes it carries.
THEOREM UnitHoldsTogether == ZeroLine \notin Lines => (Spec => []StructInv)
<1> SUFFICES ASSUME ZeroLine \notin Lines PROVE Spec => []StructInv
  OBVIOUS
<1>1. Init => StructInv
  BY InitStruct DEF StructInv
<1>2. Types /\ LookedUpFirst /\ IInv /\ Types' /\ StructInv /\ [Next]_vars => StructInv'
  <2> SUFFICES ASSUME Types, LookedUpFirst, IInv, Types', StructInv, [Next]_vars, ~raced'
               PROVE  Struct' /\ failure' = "none"
    BY DEF StructInv
  <2>1. ~raced
    BY RacesAreKept
  <2>2. Struct /\ failure = "none"
    BY <2>1 DEF StructInv
  <2> QED BY <2>2, StructStep, NoErrorStep
<1>3. Spec => [](Types /\ LookedUpFirst /\ IInv)
  BY TypesHold
<1> QED BY <1>1, <1>2, <1>3, PTL DEF Spec

\* The structure has a source for every write and an owner for every read.
LEMMA StructKeepsPayload ==
  ASSUME Types, Struct
  PROVE  ReadsOwned /\ \A i \in DOMAIN writes : WriteKept(i)
<1>1. ReadsOwned
  BY OwnerFound DEF ReadsOwned, Struct, ReadsApart
<1>2. ASSUME NEW i \in DOMAIN writes PROVE WriteKept(i)
  <2>0. PICK l : l = writes[i].line
    OBVIOUS
  <2>1. CASE writes[i].way # 0
    BY <2>1 DEF WriteKept, Struct, WaysKept, WaysHeld
  <2>2. CASE writes[i].way = 0 /\ Ub(l)
    <3>1. /\ Plain(l) = 1 /\ (HasStore(l) => StoreEntry(l).state # "Idle")
          /\ ~HasStore(l) => FindWay(l) # 0
      BY <2>0, <2>2, UbWriteFound
    <3> QED BY <2>0, <2>2, <3>1 DEF WriteKept, Plain
  <2>3. CASE writes[i].way = 0 /\ ~Ub(l)
    <3>1. l \in Lines
      BY <2>0 DEF Struct, WaysKept, WritesKnown
    <3>2. External(l)
      BY <2>3, <3>1, LineFacts
    <3>3. Plain(l) <= (IF l[2] \in DOMAIN evict THEN 1 ELSE 0) + DirectCount(l)
      BY <2>0, <2>3, <3>2, ExternalWriteFound
    <3> QED BY <2>0, <2>3, <3>3 DEF WriteKept, Plain, DirectCount
  <2> QED BY <2>1, <2>2, <2>3
<1> QED BY <1>1, <1>2

\* Every write keeps the only source of its bytes until it is acknowledged, and
\* every read the entry that asked for it, while entries, ways and lines are
\* reused: the part of StoresKept that is about what the unit is waiting for.
THEOREM PayloadIsKept == ZeroLine \notin Lines => (Spec => []PayloadKept)
<1> SUFFICES ASSUME ZeroLine \notin Lines PROVE Spec => []PayloadKept
  OBVIOUS
<1>1. Types /\ StructInv => PayloadKept
  BY StructKeepsPayload DEF StructInv, PayloadKept
<1> QED BY <1>1, UnitHoldsTogether, TypesHold, PTL
=============================================================================
