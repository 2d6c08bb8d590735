--------------------------- MODULE L1MemoryProofs --------------------------
(***************************************************************************)
(* The L1 memory for every geometry, latency, capacity and client: its     *)
(* type, the use of its banks, and that it implements L1Service.           *)
(***************************************************************************)
EXTENDS L1Memory, TLAPS

\* Grants use different banks.
Disjoint(ports, m) == \A p, q \in ports : p # q => m[p] \cap m[q] = {}

ReceiverOf(p) == IF p = MteRead THEN "Read" ELSE "Write"

\* A grant that has not been used is for the request at the head of its queue.
GrantsHead ==
  \A p \in granted : ReceiverOf(p) \notin received =>
    requests[p] # <<>> /\ Own(p, masks[p], HeadAccess(p))

WaitBound == \A p \in Port : \A i \in DOMAIN pending[p] : pending[p][i].wait <= ResponseTicks[p]

\* Before the arbitration of a tick nothing was accepted in it.
BeforeArbitration ==
  ~arbitrated => \A p \in Port : \A i \in DOMAIN pending[p] : pending[p][i].wait # ResponseTicks[p]

\* What was accepted in this tick was granted by this tick's arbitration.
AcceptedNow ==
  ~wide => \A p \in Port : \A i \in DOMAIN pending[p] :
             pending[p][i].wait = ResponseTicks[p] => p \in granted /\ pending[p][i].mask = masks[p]

Inv ==
  /\ TypeOK
  /\ AcceptedAsArbitrated
  /\ GrantsHead
  /\ WaitBound
  /\ BeforeArbitration
  /\ AcceptedNow
  /\ ~wide => Disjoint(granted, masks)

-----------------------------------------------------------------------------
(* Banks and decisions *)

LEMMA MaskType ==
  ASSUME NEW a \in Access
  PROVE  WriteBankMask(a) \subseteq Nat
<1>1. BaseMask(a) \subseteq Banks
  BY GeometryAssumption DEF BaseMask, Banks, Access
<1>2. GroupShift(a) \in Nat
  <2>1. (a.address \div GroupSize) % GroupCount \in Nat
    BY GeometryAssumption DEF Access
  <2> DEFINE g == (a.address \div GroupSize) % GroupCount
  <2>2. \A x, y \in Nat : x * y \in Nat
    OBVIOUS
  <2>3. g * BankCount \in Nat
    BY <2>1, <2>2, GeometryAssumption
  <2> QED BY <2>3 DEF GroupShift
<1> QED BY <1>1, <1>2, GeometryAssumption DEF WriteBankMask, Shifted, Banks

LEMMA ReadMaskOwn ==
  ASSUME NEW a, NEW tags
  PROVE  ReadBankMask(tags, a) \subseteq WriteBankMask(a)
BY DEF ReadBankMask, WriteBankMask, Shifted

\* An arbitration decides about the heads it is given, and its grants are
\* disjoint.
LEMMA HeadAccessType ==
  ASSUME TypeOK, NEW p \in Heads
  PROVE  HeadAccess(p) \in Access
<1>1. requests[p] \in Seq(TransitEntry) /\ requests[p] # <<>>
  BY DEF Heads, TypeOK
<1>2. Head(requests[p]) \in TransitEntry
  BY <1>1
<1> QED BY <1>2 DEF HeadAccess, TransitEntry

LEMMA DecisionsSound ==
  ASSUME TypeOK, NEW tags \in [Banks -> Int], NEW heads \in SUBSET Heads
  PROVE  /\ GrantedPorts(tags, heads) \subseteq heads
         /\ BankMasks(tags, heads) \in [Port -> SUBSET Nat]
         /\ \A p \in heads : Own(p, BankMasks(tags, heads)[p], HeadAccess(p))
         /\ Disjoint(GrantedPorts(tags, heads), BankMasks(tags, heads))
<1> DEFINE g == GrantedPorts(tags, heads)
           m == BankMasks(tags, heads)
<1>1. \A p \in heads : WriteBankMask(HeadAccess(p)) \subseteq Nat
  BY HeadAccessType, MaskType
<1>2. MteRead \in heads => ReadMask(tags, heads) \subseteq WriteBankMask(HeadAccess(MteRead))
  BY ReadMaskOwn DEF ReadMask
<1>3. heads \subseteq Port /\ MteRead \in Port
  BY DEF Heads, Port
<1>4. g \subseteq heads
  BY DEF GrantedPorts, GrantedWrites, ReadGranted
<1>5. m \in [Port -> SUBSET Nat]
  BY <1>1, <1>2 DEF BankMasks
<1>6. \A p \in heads : p # MteRead => m[p] = WriteBankMask(HeadAccess(p))
  BY <1>3 DEF BankMasks
<1>7. MteRead \in heads => m[MteRead] = ReadMask(tags, heads)
  BY <1>3 DEF BankMasks
<1>8. \A p \in heads : Own(p, m[p], HeadAccess(p))
  BY <1>2, <1>6, <1>7 DEF Own
<1>9. ASSUME NEW p \in g, NEW q \in g, p # q, q # MteRead
      PROVE  m[p] \cap m[q] = {}
  <2>1. q \in GrantedWrites(heads) /\ m[q] = WriteBankMask(HeadAccess(q))
    BY <1>4, <1>6, <1>9 DEF GrantedPorts
  <2>2. CASE p = MteRead
    <3>1. ReadGranted(tags, heads) /\ m[p] = ReadMask(tags, heads)
      BY <1>4, <1>7, <1>9, <2>2 DEF GrantedPorts, GrantedWrites
    <3> QED BY <3>1, <2>1 DEF ReadGranted, Written
  <2>3. CASE p # MteRead
    <3>1. p \in GrantedWrites(heads) /\ m[p] = WriteBankMask(HeadAccess(p))
      BY <1>4, <1>6, <1>9, <2>3 DEF GrantedPorts
    <3>2. \/ p = FixpWrite /\ q = MteWrite
          \/ p = MteWrite /\ q = FixpWrite
      BY <1>3, <1>4, <1>9, <2>3 DEF Port
    <3>3. p \in heads /\ q \in heads
      BY <1>4, <1>9
    <3> QED BY <3>1, <3>2, <3>3, <2>1 DEF GrantedWrites
  <2> QED BY <2>2, <2>3
<1>10. Disjoint(g, m)
  BY <1>9 DEF Disjoint
<1> QED BY <1>4, <1>5, <1>8, <1>10

LEMMA CacheTyped ==
  ASSUME TypeOK, NEW tags \in [Banks -> Int], NEW heads \in SUBSET Heads
  PROVE  CacheAfter(tags, heads) \in [Banks -> Int]
<1>1. AfterWrites(tags, heads) \in [Banks -> Int]
  BY DEF AfterWrites
<1>2. ASSUME MteRead \in heads, NEW b \in Banks PROVE Tag(HeadAccess(MteRead), b) \in Int
  <2>1. HeadAccess(MteRead) \in Access
    BY <1>2, HeadAccessType
  <2> QED BY <2>1, GeometryAssumption DEF Tag, Access, Banks
<1> QED BY <1>1, <1>2 DEF CacheAfter, ReadGranted

-----------------------------------------------------------------------------
(* The inductive invariant *)

LEMMA InitInv == Init => Inv
<1> SUFFICES ASSUME Init PROVE Inv
  OBVIOUS
<1>1. \A p \in Port : requests[p] = <<>> /\ pending[p] = <<>> /\ responses[p] = <<>>
  BY DEF Init
<1>2. \A p \in Port : Len(requests[p]) <= TransportCapacity /\ Len(responses[p]) <= TransportCapacity
  BY <1>1, CapacityAssumption
<1>3. /\ requests \in [Port -> Seq(TransitEntry)]
      /\ pending \in [Port -> Seq(PendingEntry)]
      /\ responses \in [Port -> Seq(TransitEntry)]
  BY DEF Init
<1>4. TypeOK
  <2>1. cache \in [Banks -> Int] /\ sent \in [Port -> Nat] /\ masks \in [Port -> SUBSET Nat]
    BY DEF Init
  <2>2. arbitrated \in BOOLEAN /\ wide \in BOOLEAN
    BY DEF Init
  <2>3. granted \subseteq Port /\ received \subseteq Receivers /\ responded \subseteq Receivers
    BY DEF Init
  <2> QED BY <1>2, <1>3, <2>1, <2>2, <2>3 DEF TypeOK
<1>5. \A p \in Port : DOMAIN pending[p] = {}
  BY <1>1
<1>6. AcceptedAsArbitrated /\ WaitBound /\ BeforeArbitration /\ AcceptedNow
  BY <1>5 DEF AcceptedAsArbitrated, WaitBound, BeforeArbitration, AcceptedNow
<1>7. GrantsHead /\ Disjoint(granted, masks)
  BY DEF Init, GrantsHead, Disjoint
<1> QED BY <1>4, <1>6, <1>7 DEF Inv

LEMMA SendRequestInv ==
  ASSUME Inv, NEW p \in Port, NEW a \in Accesses[p], SendRequest(p, a)
  PROVE  Inv'
<1> DEFINE e == [access |-> a, due |-> FALSE]
<1>1. e \in TransitEntry
  BY ClientAssumption DEF TransitEntry
<1>2. requests[p] \in Seq(TransitEntry) /\ requests'[p] = Append(requests[p], e)
  BY DEF Inv, TypeOK, SendRequest
<1>3. /\ requests'[p] \in Seq(TransitEntry)
      /\ Len(requests'[p]) <= TransportCapacity
      /\ requests'[p] # <<>>
      /\ requests[p] # <<>> => Head(requests'[p]) = Head(requests[p])
  BY <1>1, <1>2, CapacityAssumption DEF SendRequest
<1>4. \A q \in Port : q # p => requests'[q] = requests[q]
  BY DEF Inv, TypeOK, SendRequest
<1>5. TypeOK'
  BY <1>3, <1>4 DEF Inv, TypeOK, SendRequest, Banks
<1>6. GrantsHead'
  BY <1>3, <1>4 DEF Inv, TypeOK, GrantsHead, SendRequest, HeadAccess
<1> QED
  BY <1>5, <1>6 DEF Inv, SendRequest, AcceptedAsArbitrated, WaitBound, BeforeArbitration,
                    AcceptedNow

LEMMA ReceiveResponseInv ==
  ASSUME Inv, NEW p \in Port, ReceiveResponse(p)
  PROVE  Inv'
<1>1. responses[p] \in Seq(TransitEntry) /\ responses[p] # <<>>
  BY DEF Inv, TypeOK, ReceiveResponse
<1>2. Tail(responses[p]) \in Seq(TransitEntry) /\ Len(Tail(responses[p])) <= TransportCapacity
  BY <1>1, CapacityAssumption DEF Inv, TypeOK
<1>3. TypeOK'
  BY <1>2 DEF Inv, TypeOK, ReceiveResponse, Banks
<1> QED
  BY <1>3 DEF Inv, ReceiveResponse, AcceptedAsArbitrated, GrantsHead, WaitBound,
              BeforeArbitration, AcceptedNow, HeadAccess

LEMMA SendResponsesInv ==
  ASSUME Inv, NEW receiver \in Receivers, SendResponses(receiver)
  PROVE  Inv'
<1> DEFINE F == Forwarding(receiver)
<1>1. /\ pending' = [p \in Port |-> IF p \in F THEN Tail(pending[p]) ELSE pending[p]]
      /\ \A p \in F : pending[p] # <<>>
  BY DEF SendResponses, Forwarding
<1>2. ASSUME NEW p \in Port
      PROVE  /\ pending'[p] \in Seq(PendingEntry)
             /\ \A i \in DOMAIN pending'[p] : \E j \in DOMAIN pending[p] : pending'[p][i] = pending[p][j]
  <2>1. pending[p] \in Seq(PendingEntry)
    BY DEF Inv, TypeOK
  <2>2. CASE p \in F
    <3>1. pending'[p] = Tail(pending[p]) /\ pending[p] # <<>>
      BY <1>1, <2>2
    <3>2. pending'[p] \in Seq(PendingEntry) /\ Len(pending'[p]) = Len(pending[p]) - 1
      BY <2>1, <3>1
    <3>3. ASSUME NEW i \in DOMAIN pending'[p]
          PROVE  i + 1 \in DOMAIN pending[p] /\ pending'[p][i] = pending[p][i + 1]
      BY <2>1, <3>1, <3>2
    <3> QED BY <3>2, <3>3
  <2>3. CASE p \notin F
    BY <1>1, <2>1, <2>3
  <2> QED BY <2>2, <2>3
<1>3. ASSUME NEW p \in Port
      PROVE  responses'[p] \in Seq(TransitEntry) /\ Len(responses'[p]) <= TransportCapacity
  <2>1. responses[p] \in Seq(TransitEntry) /\ Len(responses[p]) <= TransportCapacity
    BY DEF Inv, TypeOK
  <2>2. CASE p \in F
    <3>1. pending[p] \in Seq(PendingEntry) /\ pending[p] # <<>> /\ Len(responses[p]) < TransportCapacity
      BY <2>2 DEF Inv, TypeOK, Forwarding
    <3>2. Head(pending[p]) \in PendingEntry
      BY <3>1
    <3>3. [access |-> Head(pending[p]).access, due |-> FALSE] \in TransitEntry
      BY <3>2 DEF PendingEntry, TransitEntry
    <3>4. responses'[p] = Append(responses[p], [access |-> Head(pending[p]).access, due |-> FALSE])
      BY <2>2 DEF SendResponses
    <3> QED BY <2>1, <3>1, <3>3, <3>4, CapacityAssumption
  <2>3. CASE p \notin F
    BY <2>1, <2>3 DEF SendResponses
  <2> QED BY <2>2, <2>3
<1>4. TypeOK'
  <2>1. pending' \in [Port -> Seq(PendingEntry)]
    BY <1>1, <1>2
  <2>2. responses' \in [Port -> Seq(TransitEntry)]
    BY <1>3 DEF SendResponses
  <2> QED BY <1>3, <2>1, <2>2 DEF Inv, TypeOK, SendResponses, Banks
<1>5. GrantsHead' /\ (~wide' => Disjoint(granted', masks'))
  BY DEF Inv, GrantsHead, SendResponses, HeadAccess
<1>6. AcceptedAsArbitrated' /\ WaitBound' /\ BeforeArbitration' /\ AcceptedNow'
  <2>1. UNCHANGED <<granted, masks, arbitrated, wide>>
    BY DEF SendResponses
  <2> QED BY <1>2, <2>1 DEF Inv, AcceptedAsArbitrated, WaitBound, BeforeArbitration, AcceptedNow
<1> QED BY <1>4, <1>5, <1>6 DEF Inv

LEMMA ArrivedType ==
  ASSUME NEW s \in Seq(TransitEntry)
  PROVE  Arrived(s) \in Seq(TransitEntry) /\ Len(Arrived(s)) = Len(s)
<1>1. ASSUME NEW i \in DOMAIN s PROVE [s[i] EXCEPT !.due = TRUE] \in TransitEntry
  <2>1. s[i] \in TransitEntry
    OBVIOUS
  <2> QED BY <2>1 DEF TransitEntry
<1> QED BY <1>1 DEF Arrived

LEMMA ElapsedType ==
  ASSUME NEW s \in Seq(PendingEntry), NEW limit \in Nat \ {0},
         \A i \in DOMAIN s : s[i].wait <= limit
  PROVE  /\ Elapsed(s) \in Seq(PendingEntry)
         /\ DOMAIN Elapsed(s) = DOMAIN s
         /\ \A i \in DOMAIN s :
              /\ Elapsed(s)[i].access = s[i].access
              /\ Elapsed(s)[i].mask = s[i].mask
              /\ Elapsed(s)[i].wait \in Nat
              /\ Elapsed(s)[i].wait < limit
<1> DEFINE Less(n) == IF n = 0 THEN 0 ELSE n - 1
<1>1. ASSUME NEW i \in DOMAIN s
      PROVE  /\ s[i] \in PendingEntry
             /\ Elapsed(s)[i] = [s[i] EXCEPT !.wait = Less(s[i].wait)]
  BY DEF Elapsed
<1>2. ASSUME NEW i \in DOMAIN s
      PROVE  /\ Elapsed(s)[i].access = s[i].access
             /\ Elapsed(s)[i].mask = s[i].mask
             /\ Elapsed(s)[i].wait = Less(s[i].wait)
             /\ Elapsed(s)[i] \in PendingEntry
  <2>1. s[i].wait \in Nat
    BY <1>1 DEF PendingEntry
  <2>2. Less(s[i].wait) \in Nat
    BY <2>1
  <2> HIDE DEF Less
  <2> QED BY <1>1, <2>2 DEF PendingEntry
<1>3. ASSUME NEW i \in DOMAIN s PROVE Less(s[i].wait) \in Nat /\ Less(s[i].wait) < limit
  <2>1. s[i].wait \in Nat /\ s[i].wait <= limit
    BY <1>1 DEF PendingEntry
  <2> QED BY <2>1
<1>4. DOMAIN Elapsed(s) = DOMAIN s
  BY DEF Elapsed
<1>5. Elapsed(s) \in Seq(PendingEntry)
  <2> DEFINE t == Elapsed(s)
  <2>1. t = [i \in 1..Len(s) |-> t[i]] /\ Len(s) \in Nat
    BY DEF Elapsed
  <2>2. \A i \in 1..Len(s) : t[i] \in PendingEntry
    BY <1>2
  <2> HIDE DEF t
  <2>3. t \in Seq(PendingEntry)
    BY <2>1, <2>2
  <2> QED BY <2>3 DEF t
<1> QED BY <1>2, <1>3, <1>4, <1>5

LEMMA TickInv ==
  ASSUME Inv, Tick
  PROVE  Inv'
<1>1. ASSUME NEW p \in Port
      PROVE  /\ requests'[p] \in Seq(TransitEntry) /\ Len(requests'[p]) = Len(requests[p])
             /\ responses'[p] \in Seq(TransitEntry) /\ Len(responses'[p]) = Len(responses[p])
  BY ArrivedType DEF Inv, TypeOK, Tick
<1>2. ASSUME NEW p \in Port
      PROVE  /\ pending'[p] \in Seq(PendingEntry)
             /\ DOMAIN pending'[p] = DOMAIN pending[p]
             /\ \A i \in DOMAIN pending[p] :
                  /\ pending'[p][i].access = pending[p][i].access
                  /\ pending'[p][i].mask = pending[p][i].mask
                  /\ pending'[p][i].wait \in Nat
                  /\ pending'[p][i].wait < ResponseTicks[p]
  <2>1. pending[p] \in Seq(PendingEntry) /\ pending'[p] = Elapsed(pending[p])
    BY DEF Inv, TypeOK, Tick
  <2>2. \A i \in DOMAIN pending[p] : pending[p][i].wait <= ResponseTicks[p]
    BY DEF Inv, WaitBound
  <2> QED BY <2>1, <2>2, TicksAssumption, ElapsedType
<1>3. TypeOK'
  <2>1. pending' \in [Port -> Seq(PendingEntry)]
    BY <1>2 DEF Tick
  <2>2. requests' \in [Port -> Seq(TransitEntry)] /\ responses' \in [Port -> Seq(TransitEntry)]
    BY <1>1 DEF Tick
  <2>3. masks' \in [Port -> SUBSET Nat]
    BY DEF Tick
  <2>4. wide' \in BOOLEAN
    BY DEF Inv, TypeOK, Tick
  <2>5. \A p \in Port : Len(requests'[p]) <= TransportCapacity /\ Len(responses'[p]) <= TransportCapacity
    BY <1>1 DEF Inv, TypeOK
  <2> QED BY <2>1, <2>2, <2>3, <2>4, <2>5 DEF Inv, TypeOK, Tick, Banks
<1>4. AcceptedAsArbitrated'
  BY <1>2 DEF Inv, AcceptedAsArbitrated, Own
<1>5. WaitBound' /\ BeforeArbitration' /\ AcceptedNow'
  <2>1. \A p \in Port : \A i \in DOMAIN pending'[p] :
          pending'[p][i].wait \in Nat /\ pending'[p][i].wait < ResponseTicks[p]
    BY <1>2
  <2> QED BY <2>1, TicksAssumption DEF WaitBound, BeforeArbitration, AcceptedNow
<1>6. GrantsHead' /\ Disjoint(granted', masks')
  BY DEF Tick, GrantsHead, Disjoint
<1> QED BY <1>3, <1>4, <1>5, <1>6 DEF Inv

\* One arbitration serves both receivers: the first one takes the decisions,
\* the other one finds its head unchanged.
LEMMA ReceiveRequestsInv ==
  ASSUME Inv, NEW receiver \in Receivers, ReceiveRequests(receiver)
  PROVE  Inv'
<1> DEFINE first    == IF StampOld THEN GrantedPorts(cache, Heads) ELSE granted
           banks    == IF StampOld THEN BankMasks(cache, Heads) ELSE masks
           cached   == IF StampOld THEN CacheAfter(cache, Heads) ELSE cache
           again    == wide /\ {FixpWrite, MteWrite} \subseteq Heads \cap PortsOf(receiver)
           left     == Heads \ {FixpWrite}
           second   == IF again THEN GrantedPorts(cached, left) ELSE first
           banks2   == IF again THEN BankMasks(cached, left) ELSE banks
           accepted == (first \cup second) \cap Heads \cap PortsOf(receiver)
           Entry(p) == [access |-> HeadAccess(p), mask |-> banks[p], wait |-> ResponseTicks[p]]
<1>1. /\ receiver \notin received
      /\ requests' = [p \in Port |-> IF p \in accepted THEN Tail(requests[p]) ELSE requests[p]]
      /\ pending' = [p \in Port |-> IF p \in accepted THEN Append(pending[p], Entry(p))
                                    ELSE pending[p]]
      /\ cache' = IF again THEN CacheAfter(cached, left) ELSE cached
      /\ granted' = second
      /\ masks' = banks2
      /\ arbitrated' = TRUE
      /\ received' = received \cup {receiver}
      /\ UNCHANGED <<responses, responded, sent, wide>>
  BY DEF ReceiveRequests, ReceiveDue
<1>2. TypeOK /\ cache \in [Banks -> Int] /\ Heads \subseteq Port /\ left \subseteq Heads
  BY DEF Inv, TypeOK, Heads
<1>3. /\ first \subseteq Port
      /\ banks \in [Port -> SUBSET Nat]
      /\ cached \in [Banks -> Int]
      /\ \A p \in first : ReceiverOf(p) \notin received => p \in Heads /\ Own(p, banks[p], HeadAccess(p))
      /\ StampOld => \A p \in Heads : Own(p, banks[p], HeadAccess(p))
      /\ ~wide => Disjoint(first, banks)
  <2>1. CASE StampOld
    <3>1. first = GrantedPorts(cache, Heads) /\ banks = BankMasks(cache, Heads) /\ cached = CacheAfter(cache, Heads)
      BY <2>1
    <3>2. /\ GrantedPorts(cache, Heads) \subseteq Heads
          /\ BankMasks(cache, Heads) \in [Port -> SUBSET Nat]
          /\ \A p \in Heads : Own(p, BankMasks(cache, Heads)[p], HeadAccess(p))
          /\ Disjoint(GrantedPorts(cache, Heads), BankMasks(cache, Heads))
          /\ CacheAfter(cache, Heads) \in [Banks -> Int]
      BY <1>2, DecisionsSound, CacheTyped
    <3> HIDE DEF first, banks, cached
    <3> QED BY <3>1, <3>2, <1>2
  <2>2. CASE ~StampOld
    <3>1. first = granted /\ banks = masks /\ cached = cache
      BY <2>2
    <3> HIDE DEF first, banks, cached
    <3>2. granted \subseteq Port /\ masks \in [Port -> SUBSET Nat]
      BY <1>2 DEF TypeOK
    <3>3. \A p \in granted : ReceiverOf(p) \notin received => p \in Heads /\ Own(p, masks[p], HeadAccess(p))
      BY <3>2 DEF Inv, GrantsHead, Heads
    <3> QED BY <3>1, <3>2, <3>3, <2>2, <1>2 DEF Inv
  <2> QED BY <2>1, <2>2
<1>4. ~wide => \A p \in Port : \A i \in DOMAIN pending[p] :
                 pending[p][i].wait = ResponseTicks[p] => p \in first /\ pending[p][i].mask = banks[p]
  BY DEF Inv, BeforeArbitration, AcceptedNow, StampOld
<1>5. /\ second \subseteq Port
      /\ banks2 \in [Port -> SUBSET Nat]
      /\ cache' \in [Banks -> Int]
      /\ \A p \in second : ReceiverOf(p) \notin received \cup {receiver} =>
           p \in Heads /\ Own(p, banks2[p], HeadAccess(p))
      /\ second # first => wide
      /\ ~wide => second = first /\ banks2 = banks
  <2>1. CASE again
    <3>1. /\ second = GrantedPorts(cached, left) /\ banks2 = BankMasks(cached, left)
          /\ cache' = CacheAfter(cached, left) /\ wide
      BY <1>1, <2>1
    <3> HIDE DEF first, banks, cached, second, banks2, left
    <3>2. /\ GrantedPorts(cached, left) \subseteq left
          /\ BankMasks(cached, left) \in [Port -> SUBSET Nat]
          /\ \A p \in left : Own(p, BankMasks(cached, left)[p], HeadAccess(p))
          /\ CacheAfter(cached, left) \in [Banks -> Int]
      BY <1>2, <1>3, DecisionsSound, CacheTyped
    <3> QED BY <3>1, <3>2, <1>2
  <2>2. CASE ~again
    <3>1. second = first /\ banks2 = banks /\ cache' = cached
      BY <1>1, <2>2
    <3> HIDE DEF first, banks, cached, second, banks2, left
    <3> QED BY <3>1, <1>3
  <2> QED BY <2>1, <2>2
<1>6. \A p \in PortsOf(receiver) : p \in Port /\ ReceiverOf(p) = receiver
  BY DEF PortsOf, ReceiverOf, Receivers, Port, FixpWrite, MteWrite, MteRead
<1>7. \A p \in Port : ReceiverOf(p) # receiver => p \notin accepted
  BY <1>6
<1>8. wide => StampOld
  BY DEF StampOld
<1>9. accepted \subseteq Heads \cap PortsOf(receiver) /\ accepted \subseteq first \cup second
  OBVIOUS
<1> HIDE DEF first, banks, cached, again, left, second, banks2, accepted
<1>10. ASSUME NEW p \in accepted
       PROVE  Own(p, banks[p], HeadAccess(p)) /\ (~wide => p \in first) /\ p \in Heads /\ p \in Port
  BY <1>1, <1>3, <1>5, <1>6, <1>8, <1>9
<1>11. ASSUME NEW p \in Port
       PROVE  /\ requests'[p] \in Seq(TransitEntry)
              /\ Len(requests'[p]) <= TransportCapacity
              /\ p \notin accepted => requests'[p] = requests[p]
  <2>1. requests[p] \in Seq(TransitEntry) /\ Len(requests[p]) <= TransportCapacity
    BY DEF Inv, TypeOK
  <2>2. p \in accepted => requests[p] # <<>>
    BY <1>10 DEF Heads
  <2> QED BY <1>1, <2>1, <2>2, CapacityAssumption
<1>12. ASSUME NEW p \in Port
       PROVE  /\ pending'[p] \in Seq(PendingEntry)
              /\ \A i \in DOMAIN pending'[p] :
                   \/ i \in DOMAIN pending[p] /\ pending'[p][i] = pending[p][i]
                   \/ p \in accepted /\ pending'[p][i] = Entry(p)
  <2>1. pending[p] \in Seq(PendingEntry)
    BY DEF Inv, TypeOK
  <2>2. CASE p \in accepted
    <3>1. HeadAccess(p) \in Access
      BY <1>2, <1>10, <2>2, HeadAccessType
    <3>2. Entry(p) \in PendingEntry
      BY <3>1, <1>3, TicksAssumption DEF PendingEntry
    <3>3. pending'[p] = Append(pending[p], Entry(p))
      BY <1>1, <2>2
    <3> HIDE DEF Entry
    <3> QED BY <2>1, <2>2, <3>2, <3>3
  <2>3. CASE p \notin accepted
    BY <1>1, <2>1, <2>3
  <2> QED BY <2>2, <2>3
<1>13. \A p \in Port : /\ Entry(p).access = HeadAccess(p)
                       /\ Entry(p).mask = banks[p]
                       /\ Entry(p).wait = ResponseTicks[p]
  OBVIOUS
<1> HIDE DEF Entry
<1>14. TypeOK'
  <2>1. requests' \in [Port -> Seq(TransitEntry)] /\ pending' \in [Port -> Seq(PendingEntry)]
    BY <1>1, <1>11, <1>12
  <2>2. received' \subseteq Receivers
    BY <1>1 DEF Inv, TypeOK
  <2>3. /\ responses' \in [Port -> Seq(TransitEntry)] /\ sent' \in [Port -> Nat]
        /\ responded' \subseteq Receivers /\ wide' \in BOOLEAN /\ arbitrated' \in BOOLEAN
        /\ \A p \in Port : Len(responses'[p]) <= TransportCapacity
    BY <1>1 DEF Inv, TypeOK
  <2> QED BY <1>1, <1>5, <1>11, <2>1, <2>2, <2>3 DEF TypeOK
<1>15. AcceptedAsArbitrated'
  BY <1>10, <1>12, <1>13 DEF Inv, AcceptedAsArbitrated, Own
<1>16. GrantsHead'
  <2> SUFFICES ASSUME NEW p \in granted', ReceiverOf(p) \notin received'
               PROVE  requests'[p] # <<>> /\ Own(p, masks'[p], HeadAccess(p)')
    BY DEF GrantsHead, Own
  <2>1. p \in Heads /\ p \in Port /\ Own(p, banks2[p], HeadAccess(p)) /\ p \notin accepted
    BY <1>1, <1>5, <1>7
  <2>2. requests'[p] = requests[p] /\ masks'[p] = banks2[p]
    BY <1>1, <1>11, <2>1
  <2> QED BY <2>1, <2>2 DEF HeadAccess, Heads
<1>17. WaitBound'
  BY <1>12, <1>13, TicksAssumption DEF Inv, WaitBound
<1>18. BeforeArbitration'
  BY <1>1 DEF BeforeArbitration
<1>19. AcceptedNow'
  <2> SUFFICES ASSUME ~wide, NEW p \in Port, NEW i \in DOMAIN pending'[p],
                      pending'[p][i].wait = ResponseTicks[p]
               PROVE  p \in first /\ pending'[p][i].mask = banks[p]
    BY <1>1, <1>5 DEF AcceptedNow
  <2>1. CASE i \in DOMAIN pending[p] /\ pending'[p][i] = pending[p][i]
    BY <1>4, <2>1
  <2>2. CASE p \in accepted /\ pending'[p][i] = Entry(p)
    BY <1>10, <1>13, <2>2
  <2> QED BY <1>12, <2>1, <2>2
<1>20. ~wide' => Disjoint(granted', masks')
  BY <1>1, <1>3, <1>5
<1> QED BY <1>14, <1>15, <1>16, <1>17, <1>18, <1>19, <1>20 DEF Inv

LEMMA NextInv == Inv /\ [Next]_vars => Inv'
<1> SUFFICES ASSUME Inv, [Next]_vars PROVE Inv'
  OBVIOUS
<1>1. CASE \E p \in Port : \E a \in Accesses[p] : SendRequest(p, a)
  BY <1>1, SendRequestInv
<1>2. CASE \E p \in Port : ReceiveResponse(p)
  BY <1>2, ReceiveResponseInv
<1>3. CASE \E receiver \in Receivers : ReceiveRequests(receiver)
  BY <1>3, ReceiveRequestsInv
<1>4. CASE \E receiver \in Receivers : SendResponses(receiver)
  BY <1>4, SendResponsesInv
<1>5. CASE Tick
  BY <1>5, TickInv
<1>6. CASE UNCHANGED vars
  BY <1>6 DEF vars, queues, Inv, TypeOK, AcceptedAsArbitrated, GrantsHead, WaitBound,
              BeforeArbitration, AcceptedNow, HeadAccess
<1> QED BY <1>1, <1>2, <1>3, <1>4, <1>5, <1>6 DEF Next, Advance

LEMMA AlwaysInv == Spec => []Inv
BY InitInv, NextInv, PTL DEF Spec

\* Transports keep their capacity, banks and tags their range, in every
\* reachable state.
THEOREM TypeCorrect == Spec => []TypeOK
<1>1. Inv => TypeOK
  BY DEF Inv
<1> QED BY <1>1, AlwaysInv, PTL

\* A receiver never accepts a request on the strength of a decision about
\* another one, whatever geometry and clients there are.
THEOREM DecisionsMatch == Spec => []AcceptedAsArbitrated
<1>1. Inv => AcceptedAsArbitrated
  BY DEF Inv
<1> QED BY <1>1, AlwaysInv, PTL

\* Until the stamp wraps, no two requests accepted in one tick use the same
\* bank.
THEOREM BanksExclusive == Spec => []BankExclusive
<1>1. Inv => BankExclusive
  BY DEF Inv, BankExclusive, AcceptedNow, Disjoint
<1> QED BY <1>1, AlwaysInv, PTL

-----------------------------------------------------------------------------
(* Refinement: the three queues of a port, taken together, are a FIFO. *)

LEMMA LineOfSent ==
  ASSUME NEW a \in Seq(TransitEntry), NEW b \in Seq(PendingEntry), NEW c \in Seq(TransitEntry),
         NEW e
  PROVE  Line(a, b, Append(c, e)) = Append(Line(a, b, c), e.access)
<1> DEFINE n == Len(a) + Len(b)
           l == Line(a, b, c)
           r == Line(a, b, Append(c, e))
           x == Append(l, e.access)
<1>1. Len(Append(c, e)) = Len(c) + 1 /\ n \in Nat /\ Len(c) \in Nat
  OBVIOUS
<1>2. r = [i \in 1..(n + Len(c) + 1) |-> r[i]]
  BY <1>1 DEF Line
<1>3. Len(l) = n + Len(c) /\ DOMAIN l = 1..(n + Len(c))
  BY <1>1 DEF Line
<1>4. x = [i \in 1..(n + Len(c) + 1) |-> x[i]]
  BY <1>1, <1>3
<1>5. ASSUME NEW i \in 1..(n + Len(c) + 1) PROVE r[i] = x[i]
  <2>1. CASE i <= n + Len(c)
    <3>1. x[i] = l[i]
      BY <1>1, <1>3, <2>1
    <3>2. i > n => Append(c, e)[i - n] = c[i - n]
      BY <1>1, <2>1
    <3> QED BY <1>1, <2>1, <3>1, <3>2 DEF Line
  <2>2. CASE i = n + Len(c) + 1
    <3>1. x[i] = e.access
      BY <1>1, <1>3, <2>2
    <3>2. Append(c, e)[i - n] = e
      BY <1>1, <2>2
    <3> QED BY <1>1, <2>2, <3>1, <3>2 DEF Line
  <2>3. i <= n + Len(c) \/ i = n + Len(c) + 1
    <3> HIDE DEF n
    <3> QED BY <1>1
  <2> QED BY <2>1, <2>2, <2>3
<1> HIDE DEF r, x
<1>6. r = x
  BY <1>2, <1>4, <1>5
<1> QED BY <1>6 DEF r, x

LEMMA LineOfAccepted ==
  ASSUME NEW a \in Seq(TransitEntry), NEW b \in Seq(PendingEntry), NEW c \in Seq(TransitEntry),
         c # <<>>, NEW e, e.access = Head(c).access
  PROVE  Line(a, Append(b, e), Tail(c)) = Line(a, b, c)
<1> DEFINE n == Len(a) + Len(b)
           l == Line(a, b, c)
           r == Line(a, Append(b, e), Tail(c))
<1>1. /\ Len(Append(b, e)) = Len(b) + 1 /\ Len(Tail(c)) = Len(c) - 1
      /\ n \in Nat /\ Len(a) \in Nat /\ Len(b) \in Nat /\ Len(c) \in Nat
  OBVIOUS
<1>2. r = [i \in 1..(n + Len(c)) |-> r[i]]
  BY <1>1 DEF Line
<1>3. l = [i \in 1..(n + Len(c)) |-> l[i]]
  BY <1>1 DEF Line
<1>4. ASSUME NEW i \in 1..(n + Len(c)) PROVE r[i] = l[i]
  <2>1. CASE i <= n
    <3>1. i > Len(a) => Append(b, e)[i - Len(a)] = b[i - Len(a)]
      BY <1>1, <2>1
    <3> QED BY <1>1, <2>1, <3>1 DEF Line
  <2>2. CASE i = n + 1
    <3>1. Append(b, e)[i - Len(a)] = e /\ c[i - n] = Head(c)
      BY <1>1, <2>2
    <3> QED BY <1>1, <2>2, <3>1 DEF Line
  <2>3. CASE i > n + 1
    <3>1. Tail(c)[i - (n + 1)] = c[i - n]
      BY <1>1, <2>3
    <3> QED BY <1>1, <2>3, <3>1 DEF Line
  <2> QED BY <1>1, <2>1, <2>2, <2>3
<1> HIDE DEF r, l
<1>5. r = l
  BY <1>2, <1>3, <1>4
<1> QED BY <1>5 DEF r, l

LEMMA LineOfForwarded ==
  ASSUME NEW a \in Seq(TransitEntry), NEW b \in Seq(PendingEntry), NEW c \in Seq(TransitEntry),
         b # <<>>, NEW e, e.access = Head(b).access
  PROVE  Line(Append(a, e), Tail(b), c) = Line(a, b, c)
<1> DEFINE n == Len(a) + Len(b)
           l == Line(a, b, c)
           r == Line(Append(a, e), Tail(b), c)
<1>1. /\ Len(Append(a, e)) = Len(a) + 1 /\ Len(Tail(b)) = Len(b) - 1
      /\ n \in Nat /\ Len(a) \in Nat /\ Len(b) \in Nat /\ Len(c) \in Nat
  OBVIOUS
<1>2. r = [i \in 1..(n + Len(c)) |-> r[i]]
  BY <1>1 DEF Line
<1>3. l = [i \in 1..(n + Len(c)) |-> l[i]]
  BY <1>1 DEF Line
<1>4. ASSUME NEW i \in 1..(n + Len(c)) PROVE r[i] = l[i]
  <2>1. CASE i <= Len(a)
    <3>1. Append(a, e)[i] = a[i]
      BY <1>1, <2>1
    <3> QED BY <1>1, <2>1, <3>1 DEF Line
  <2>2. CASE i = Len(a) + 1
    <3>1. Append(a, e)[i] = e /\ b[i - Len(a)] = Head(b)
      BY <1>1, <2>2
    <3>2. i <= Len(a) + Len(b)
      BY <1>1, <2>2
    <3> QED BY <1>1, <2>2, <3>1, <3>2 DEF Line
  <2>3. CASE i > Len(a) + 1 /\ i <= n
    <3>1. Tail(b)[i - (Len(a) + 1)] = b[i - Len(a)]
      BY <1>1, <2>3
    <3> QED BY <1>1, <2>3, <3>1 DEF Line
  <2>4. CASE i > n
    BY <1>1, <2>4 DEF Line
  <2> QED BY <1>1, <2>1, <2>2, <2>3, <2>4
<1> HIDE DEF r, l
<1>5. r = l
  BY <1>2, <1>3, <1>4
<1> QED BY <1>5 DEF r, l

LEMMA LineOfAnswered ==
  ASSUME NEW a \in Seq(TransitEntry), NEW b \in Seq(PendingEntry), NEW c \in Seq(TransitEntry),
         a # <<>>
  PROVE  Line(a, b, c) # <<>> /\ Line(Tail(a), b, c) = Tail(Line(a, b, c))
<1> DEFINE n == Len(a) + Len(b)
           l == Line(a, b, c)
           r == Line(Tail(a), b, c)
           t == Tail(l)
<1>1. /\ Len(Tail(a)) = Len(a) - 1 /\ Len(a) > 0
      /\ n \in Nat /\ Len(a) \in Nat /\ Len(b) \in Nat /\ Len(c) \in Nat
  OBVIOUS
<1>2. r = [i \in 1..(n + Len(c) - 1) |-> r[i]]
  BY <1>1 DEF Line
<1>3. DOMAIN l = 1..(n + Len(c)) /\ Len(l) = n + Len(c) /\ l = [i \in 1..(n + Len(c)) |-> l[i]]
  BY <1>1 DEF Line
<1>4. l # <<>>
  <2>1. 1 \in DOMAIN l
    BY <1>1, <1>3
  <2> HIDE DEF l
  <2>2. 1 \notin DOMAIN <<>>
    OBVIOUS
  <2> QED BY <2>1, <2>2
<1>5. t = [i \in 1..(n + Len(c) - 1) |-> l[i + 1]]
  <2> DEFINE N == n + Len(c)
             S == {l[i] : i \in 1..N}
  <2>1. N \in Nat /\ l = [i \in 1..N |-> l[i]] /\ Len(l) = N
    BY <1>1, <1>3
  <2> HIDE DEF l, N
  <2>4. \A i \in 1..N : l[i] \in S
    OBVIOUS
  <2> HIDE DEF S
  <2>5. l \in [1..N -> S]
    BY <2>1, <2>4
  <2>2. l \in Seq(S)
    BY <2>1, <2>5
  <2>3. Tail(l) = [i \in 1..(N - 1) |-> l[i + 1]]
    BY <2>1, <2>2, <1>4
  <2> QED BY <2>3 DEF N
<1>6. ASSUME NEW i \in 1..(n + Len(c) - 1) PROVE r[i] = l[i + 1]
  <2>1. CASE i <= Len(a) - 1
    <3>1. Tail(a)[i] = a[i + 1]
      BY <1>1, <2>1
    <3> QED BY <1>1, <2>1, <3>1 DEF Line
  <2>2. CASE i > Len(a) - 1
    <3>1. i - (Len(a) - 1) = (i + 1) - Len(a) /\ i - ((Len(a) - 1) + Len(b)) = (i + 1) - n
      BY <1>1
    <3> QED BY <1>1, <2>2, <3>1 DEF Line
  <2> QED BY <1>1, <2>1, <2>2
<1> HIDE DEF r, l, t
<1>7. r = t
  BY <1>2, <1>5, <1>6
<1> QED BY <1>4, <1>7 DEF r, l, t

LEMMA LineOfAged ==
  ASSUME NEW a \in Seq(TransitEntry), NEW b \in Seq(PendingEntry), NEW c \in Seq(TransitEntry)
  PROVE  Line(Arrived(a), Elapsed(b), Arrived(c)) = Line(a, b, c)
<1>1. /\ Len(Arrived(a)) = Len(a) /\ Len(Arrived(c)) = Len(c) /\ Len(Elapsed(b)) = Len(b)
      /\ Len(a) \in Nat /\ Len(b) \in Nat /\ Len(c) \in Nat
  BY DEF Arrived, Elapsed
<1>2. /\ \A i \in 1..Len(a) : Arrived(a)[i].access = a[i].access
      /\ \A i \in 1..Len(c) : Arrived(c)[i].access = c[i].access
      /\ \A i \in 1..Len(b) : Elapsed(b)[i].access = b[i].access
  BY DEF Arrived, Elapsed, TransitEntry, PendingEntry
<1> QED BY <1>1, <1>2 DEF Line

LEMMA RefineInit == Init => Service!Init
<1> SUFFICES ASSUME Init PROVE Outstanding = [p \in Port |-> <<>>]
  BY DEF Service!Init
<1>1. ASSUME NEW p \in Port PROVE Line(responses[p], pending[p], requests[p]) = <<>>
  <2>1. responses[p] = <<>> /\ pending[p] = <<>> /\ requests[p] = <<>>
    BY DEF Init
  <2>2. Line(<<>>, <<>>, <<>>) = <<>>
    BY DEF Line
  <2> QED BY <2>1, <2>2
<1> QED BY <1>1 DEF Outstanding

LEMMA RefineNext == Inv /\ [Next]_vars => [Service!Next]_Outstanding
<1> SUFFICES ASSUME Inv, [Next]_vars PROVE Service!Next \/ Outstanding' = Outstanding
  OBVIOUS
<1>1. \A p \in Port : /\ responses[p] \in Seq(TransitEntry)
                      /\ pending[p] \in Seq(PendingEntry)
                      /\ requests[p] \in Seq(TransitEntry)
  BY DEF Inv, TypeOK
<1>2. Outstanding' = [p \in Port |-> Line(responses'[p], pending'[p], requests'[p])]
  BY DEF Outstanding, Line
<1>3. ASSUME NEW p \in Port, NEW a \in Accesses[p], SendRequest(p, a)
      PROVE  Service!Next
  <2> DEFINE e == [access |-> a, due |-> FALSE]
  <2>1. /\ requests'[p] = Append(requests[p], e) /\ e.access = a
        /\ \A q \in Port : q # p => requests'[q] = requests[q]
        /\ responses' = responses /\ pending' = pending
    BY <1>3 DEF Inv, TypeOK, SendRequest
  <2>2. Line(responses[p], pending[p], Append(requests[p], e))
          = Append(Line(responses[p], pending[p], requests[p]), e.access)
    BY <1>1, LineOfSent
  <2> HIDE DEF e
  <2>3. Outstanding' = [Outstanding EXCEPT ![p] = Append(Outstanding[p], a)]
    BY <1>2, <2>1, <2>2 DEF Outstanding
  <2>4. Service!Take(p, a)
    BY <2>3 DEF Service!Take
  <2> QED BY <2>4 DEF Service!Next
<1>4. ASSUME NEW p \in Port, ReceiveResponse(p)
      PROVE  Service!Next
  <2>1. /\ responses[p] # <<>> /\ responses'[p] = Tail(responses[p])
        /\ \A q \in Port : q # p => responses'[q] = responses[q]
        /\ requests' = requests /\ pending' = pending
    BY <1>4 DEF Inv, TypeOK, ReceiveResponse
  <2>2. /\ Line(responses[p], pending[p], requests[p]) # <<>>
        /\ Line(Tail(responses[p]), pending[p], requests[p])
             = Tail(Line(responses[p], pending[p], requests[p]))
    BY <1>1, <2>1, LineOfAnswered
  <2>3. Outstanding[p] # <<>> /\ Outstanding' = [Outstanding EXCEPT ![p] = Tail(Outstanding[p])]
    BY <1>2, <2>1, <2>2 DEF Outstanding
  <2>4. Service!Answer(p)
    BY <2>3 DEF Service!Answer
  <2> QED BY <2>4 DEF Service!Next
<1>5. ASSUME NEW receiver \in Receivers, ReceiveRequests(receiver)
      PROVE  Outstanding' = Outstanding
  <2> SUFFICES ASSUME NEW p \in Port
               PROVE  Line(responses'[p], pending'[p], requests'[p])
                        = Line(responses[p], pending[p], requests[p])
    BY <1>2 DEF Outstanding
  <2>1. PICK A, m :
          /\ A \subseteq Heads
          /\ requests' = [q \in Port |-> IF q \in A THEN Tail(requests[q]) ELSE requests[q]]
          /\ pending' = [q \in Port |->
                           IF q \in A
                             THEN Append(pending[q], [access |-> HeadAccess(q), mask |-> m[q],
                                                      wait |-> ResponseTicks[q]])
                             ELSE pending[q]]
          /\ responses' = responses
    <3> DEFINE first  == IF StampOld THEN GrantedPorts(cache, Heads) ELSE granted
               cached == IF StampOld THEN CacheAfter(cache, Heads) ELSE cache
               again  == wide /\ {FixpWrite, MteWrite} \subseteq Heads \cap PortsOf(receiver)
               second == IF again THEN GrantedPorts(cached, Heads \ {FixpWrite}) ELSE first
    <3> WITNESS (first \cup second) \cap Heads \cap PortsOf(receiver),
                IF StampOld THEN BankMasks(cache, Heads) ELSE masks
    <3> QED BY <1>5 DEF ReceiveRequests
  <2> DEFINE e == [access |-> HeadAccess(p), mask |-> m[p], wait |-> ResponseTicks[p]]
  <2>2. CASE p \in A
    <3>1. requests[p] # <<>> /\ requests'[p] = Tail(requests[p]) /\ pending'[p] = Append(pending[p], e)
      BY <2>1, <2>2 DEF Heads
    <3>2. e.access = Head(requests[p]).access
      BY DEF HeadAccess
    <3> HIDE DEF e
    <3> QED BY <1>1, <2>1, <3>1, <3>2, LineOfAccepted
  <2>3. CASE p \notin A
    BY <2>1, <2>3
  <2> QED BY <2>2, <2>3
<1>6. ASSUME NEW receiver \in Receivers, SendResponses(receiver)
      PROVE  Outstanding' = Outstanding
  <2> SUFFICES ASSUME NEW p \in Port
               PROVE  Line(responses'[p], pending'[p], requests'[p])
                        = Line(responses[p], pending[p], requests[p])
    BY <1>2 DEF Outstanding
  <2> DEFINE e == [access |-> Head(pending[p]).access, due |-> FALSE]
  <2>1. CASE p \in Forwarding(receiver)
    <3>1. /\ pending[p] # <<>> /\ pending'[p] = Tail(pending[p])
          /\ responses'[p] = Append(responses[p], e) /\ requests'[p] = requests[p]
      BY <1>6, <2>1 DEF SendResponses, Forwarding
    <3>2. e.access = Head(pending[p]).access
      OBVIOUS
    <3> HIDE DEF e
    <3> QED BY <1>1, <3>1, <3>2, LineOfForwarded
  <2>2. CASE p \notin Forwarding(receiver)
    BY <1>6, <2>2 DEF SendResponses
  <2> QED BY <2>1, <2>2
<1>7. ASSUME Tick
      PROVE  Outstanding' = Outstanding
  <2> SUFFICES ASSUME NEW p \in Port
               PROVE  Line(responses'[p], pending'[p], requests'[p])
                        = Line(responses[p], pending[p], requests[p])
    BY <1>2 DEF Outstanding
  <2>1. /\ responses'[p] = Arrived(responses[p]) /\ pending'[p] = Elapsed(pending[p])
        /\ requests'[p] = Arrived(requests[p])
    BY <1>7 DEF Tick
  <2> QED BY <1>1, <2>1, LineOfAged
<1>8. ASSUME UNCHANGED vars
      PROVE  Outstanding' = Outstanding
  BY <1>2, <1>8 DEF vars, queues, Outstanding
<1> QED BY <1>3, <1>4, <1>5, <1>6, <1>7, <1>8 DEF Next, Advance

\* The memory implements its service: on every port each request is answered
\* once and in order, for every geometry, latency, capacity and client.
THEOREM ImplementsService == Spec => InOrderService
BY RefineInit, RefineNext, AlwaysInv, PTL DEF Spec, InOrderService, Service!Spec
=============================================================================
