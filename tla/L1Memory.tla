----------------------------- MODULE L1Memory ------------------------------
(***************************************************************************)
(* The L1 memory shared by FIX and the MTEs: request transport, bank       *)
(* arbiter, service pipeline and response transport, for two write ports   *)
(* and one read port.                                                      *)
(*                                                                         *)
(* The clock wakes a receiver when the oldest request of one of its ports  *)
(* has travelled for a tick.  The first receiver of a tick that has a      *)
(* request arbitrates the heads of all three queues, also those that have  *)
(* not arrived; the other one uses the same decisions.  A granted request  *)
(* is answered response_ticks later, one answer per port and tick, if the  *)
(* response transport has room.                                            *)
(*                                                                         *)
(* Ticks are relative: `due' says that an entry arrived in an earlier      *)
(* tick, `wait' how many ticks are left until an accepted request is       *)
(* answered.  A callback runs at most once a tick, in any order, and a     *)
(* tick ends when every callback it woke has run (EventDispatcher).  A     *)
(* queue is not examined in tick zero: nothing is due before tick one.  A  *)
(* request is its access; the id a client gives it is not looked at here.  *)
(***************************************************************************)
EXTENDS Integers, Sequences, FiniteSets

FixpWrite == 0
MteWrite  == 1
MteRead   == 2
Port      == {FixpWrite, MteWrite, MteRead}

Receivers == {"Read", "Write"}
PortsOf(receiver) == IF receiver = "Read" THEN {MteRead} ELSE {FixpWrite, MteWrite}

CONSTANTS
  BankWidth, BankCount, GroupCount,   \* C220L1Geometry
  GroupSize,           \* 2^group_offset
  TransportCapacity,   \* C220_L1_TRANSPORT_CAPACITY: 2
  ResponseTicks,       \* per port: response_ticks
  Accesses,            \* per port: the accesses its client makes
  Budget               \* per port: bound on the requests sent

Access == [address : Nat, bytes : Nat]


ASSUME GeometryAssumption ==
  /\ BankWidth \in Nat \ {0}
  /\ BankCount \in 1..32
  /\ GroupCount \in {1, 2, 4, 8, 16, 32, 64}
  /\ GroupSize \in Nat \ {0}
ASSUME CapacityAssumption == TransportCapacity \in Nat \ {0}
ASSUME TicksAssumption == ResponseTicks \in [Port -> Nat \ {0}]
ASSUME ClientAssumption ==
  /\ Accesses \in [Port -> SUBSET Access]
  /\ Budget \in [Port -> Nat]

VARIABLES
  requests,    \* per port: request transport, [access, due]
  pending,     \* per port: C220L1Pipeline.pending, [access, mask, wait]
  responses,   \* per port: response transport, [access, due]
  cache,       \* cache_tags: per bank, the tag of the last read or -1
  granted,     \* decisions of this tick: the ports that were granted
  masks,       \* decisions of this tick: per port, the banks of its head
  arbitrated,  \* arbitration_tick is the current tick
  received,    \* receivers with receive_ticks = tick
  responded,   \* receivers with response_ticks = tick
  sent,        \* per port: number of requests sent
  wide         \* the tick has passed 2^32

queues == <<requests, pending, responses>>
vars   == <<queues, cache, granted, masks, arbitrated, received, responded, sent, wide>>

-----------------------------------------------------------------------------
(* Banks *)

Banks == 0..(BankCount - 1)

\* base_mask: consecutive banks, wrapping, at most all of them once.
BaseMask(a) ==
  LET start == (a.address \div BankWidth) % BankCount
      count == (a.bytes + BankWidth - 1) \div BankWidth
  IN  {(start + k) % BankCount : k \in {k \in Banks : k < count}}

GroupShift(a) ==
  IF GroupSize = 1 THEN 0 ELSE ((a.address \div GroupSize) % GroupCount) * BankCount

Shifted(mask, a) == {b + GroupShift(a) : b \in mask}

WriteBankMask(a) == Shifted(BaseMask(a), a)

\* The tag of an access at a bank advances by the bank width, not by one.
Tag(a, b) == (a.address \div BankWidth) + b * BankWidth

ReadBankMask(tags, a) == Shifted({b \in BaseMask(a) : tags[b] # Tag(a, b)}, a)

-----------------------------------------------------------------------------
(* Arbitration *)

HeadAccess(p) == Head(requests[p]).access
Heads == {p \in Port : requests[p] # <<>>}

\* FIX writes before the MTE, and a write before the read.
GrantedWrites(heads) ==
  {p \in heads \ {MteRead} :
     p = MteWrite /\ FixpWrite \in heads =>
       WriteBankMask(HeadAccess(FixpWrite)) \cap WriteBankMask(HeadAccess(p)) = {}}

Written(heads) == UNION {WriteBankMask(HeadAccess(p)) : p \in GrantedWrites(heads)}

\* A granted write forgets the tags it overwrites.
AfterWrites(tags, heads) ==
  [b \in Banks |->
     IF \E p \in GrantedWrites(heads) :
          b \in WriteBankMask(HeadAccess(p)) /\ tags[b] = Tag(HeadAccess(p), b)
       THEN -1 ELSE tags[b]]

ReadMask(tags, heads) == ReadBankMask(AfterWrites(tags, heads), HeadAccess(MteRead))
ReadGranted(tags, heads) ==
  MteRead \in heads /\ ReadMask(tags, heads) \cap Written(heads) = {}

\* arbitrate: its grants, the banks of each head, and the cache it leaves.  A
\* granted read is remembered at once, also if its receiver is not awake to
\* accept it.
GrantedPorts(tags, heads) ==
  GrantedWrites(heads) \cup {p \in {MteRead} : ReadGranted(tags, heads)}

BankMasks(tags, heads) ==
  [p \in Port |-> IF p \notin heads THEN {}
                  ELSE IF p = MteRead THEN ReadMask(tags, heads)
                  ELSE WriteBankMask(HeadAccess(p))]

CacheAfter(tags, heads) ==
  LET written == AfterWrites(tags, heads)
  IN  IF ReadGranted(tags, heads)
        THEN [b \in Banks |-> IF b \in ReadMask(tags, heads)
                                THEN Tag(HeadAccess(MteRead), b) ELSE written[b]]
        ELSE written

-----------------------------------------------------------------------------
Init ==
  /\ requests = [p \in Port |-> <<>>]
  /\ pending = [p \in Port |-> <<>>]
  /\ responses = [p \in Port |-> <<>>]
  /\ cache = [b \in Banks |-> -1]
  /\ granted = {}
  /\ masks = [p \in Port |-> {}]
  /\ arbitrated = FALSE
  /\ received = {}
  /\ responded = {}
  /\ sent = [p \in Port |-> 0]
  /\ wide = FALSE

\* send_request; a full transport leaves the request with the client.
SendRequest(p, a) ==
  /\ sent[p] < Budget[p]
  /\ Len(requests[p]) < TransportCapacity
  /\ requests' = [requests EXCEPT ![p] =
                    Append(@, [access |-> a, due |-> FALSE])]
  /\ sent' = [sent EXCEPT ![p] = @ + 1]
  /\ UNCHANGED <<pending, responses, cache, granted, masks, arbitrated, received, responded, wide>>

RequestReady(p) == requests[p] # <<>> /\ Head(requests[p]).due
PendingReady(p) == pending[p] # <<>> /\ Head(pending[p]).wait < ResponseTicks[p]

ReceiveDue(receiver) ==
  receiver \notin received /\ \E p \in PortsOf(receiver) : RequestReady(p)
RespondDue(receiver) ==
  receiver \notin responded /\ \E p \in PortsOf(receiver) : PendingReady(p)

\* Faulty variants: a stamp that is never current, and one that always is.
StampNeverCurrent  == TRUE
\* The stamp of an arbitration is compared by its low 32 bits.
StampOld == wide \/ ~arbitrated

\* Receive callback: receive_requests and C220L1Pipeline::receive.  Past 2^32
\* ticks the stamp is old even within a callback: the second write port is
\* arbitrated again, without the request of the first one, which was granted.
ReceiveRequests(receiver) ==
  LET first    == IF StampOld THEN GrantedPorts(cache, Heads) ELSE granted
      banks    == IF StampOld THEN BankMasks(cache, Heads) ELSE masks
      cached   == IF StampOld THEN CacheAfter(cache, Heads) ELSE cache
      again    == wide /\ {FixpWrite, MteWrite} \subseteq Heads \cap PortsOf(receiver)
      left     == Heads \ {FixpWrite}
      second   == IF again THEN GrantedPorts(cached, left) ELSE first
      accepted == (first \cup second) \cap Heads \cap PortsOf(receiver)
      Accepted(p) == [access |-> HeadAccess(p), mask |-> banks[p], wait |-> ResponseTicks[p]]
  IN  /\ ReceiveDue(receiver)
      /\ requests' = [p \in Port |-> IF p \in accepted THEN Tail(requests[p]) ELSE requests[p]]
      /\ pending' = [p \in Port |-> IF p \in accepted THEN Append(pending[p], Accepted(p))
                                    ELSE pending[p]]
      /\ cache' = IF again THEN CacheAfter(cached, left) ELSE cached
      /\ granted' = second
      /\ masks' = IF again THEN BankMasks(cached, left) ELSE banks
      /\ arbitrated' = TRUE
      /\ received' = received \cup {receiver}
      /\ UNCHANGED <<responses, responded, sent, wide>>

\* Faulty variant: a response leaves the service without room to hold it.
ForwardingUnchecked(receiver) ==
  {p \in PortsOf(receiver) : pending[p] # <<>> /\ Head(pending[p]).wait = 0}

\* The ports of a receiver that forward a response.
Forwarding(receiver) ==
  {p \in PortsOf(receiver) :
     /\ pending[p] # <<>>
     /\ Head(pending[p]).wait = 0
     /\ Len(responses[p]) < TransportCapacity}

\* Faulty variant: a response is taken out of the service and dropped when the
\* transport is full.
SendResponsesLossy(receiver) ==
  LET F == ForwardingUnchecked(receiver)
  IN  /\ RespondDue(receiver)
      /\ responses' = [p \in Port |->
                         IF p \in Forwarding(receiver)
                           THEN Append(responses[p],
                                       [access |-> Head(pending[p]).access, due |-> FALSE])
                           ELSE responses[p]]
      /\ pending' = [p \in Port |-> IF p \in F THEN Tail(pending[p]) ELSE pending[p]]
      /\ responded' = responded \cup {receiver}
      /\ UNCHANGED <<requests, cache, granted, masks, arbitrated, received, sent, wide>>

\* Respond callback: send_responses and C220L1Pipeline::respond.
SendResponses(receiver) ==
  LET F == Forwarding(receiver)
  IN  /\ RespondDue(receiver)
      /\ responses' = [p \in Port |->
                         IF p \in F
                           THEN Append(responses[p],
                                       [access |-> Head(pending[p]).access, due |-> FALSE])
                           ELSE responses[p]]
      /\ pending' = [p \in Port |-> IF p \in F THEN Tail(pending[p]) ELSE pending[p]]
      /\ responded' = responded \cup {receiver}
      /\ UNCHANGED <<requests, cache, granted, masks, arbitrated, received, sent, wide>>

\* receive_response.
ReceiveResponse(p) ==
  /\ responses[p] # <<>>
  /\ Head(responses[p]).due
  /\ responses' = [responses EXCEPT ![p] = Tail(@)]
  /\ UNCHANGED <<requests, pending, cache, granted, masks, arbitrated, received, responded, sent,
                 wide>>

Arrived(queue) == [i \in DOMAIN queue |-> [queue[i] EXCEPT !.due = TRUE]]
Elapsed(queue) == [i \in DOMAIN queue |->
                     [queue[i] EXCEPT !.wait = IF @ = 0 THEN 0 ELSE @ - 1]]

\* Faulty variant: the decisions of a tick are used in the next one.
TickKeepsDecisions ==
  /\ \A receiver \in Receivers : ~ReceiveDue(receiver) /\ ~RespondDue(receiver)
  /\ requests' = [p \in Port |-> Arrived(requests[p])]
  /\ pending' = [p \in Port |-> Elapsed(pending[p])]
  /\ responses' = [p \in Port |-> Arrived(responses[p])]
  /\ received' = {}
  /\ responded' = {}
  /\ wide' \in {wide, TRUE}
  /\ UNCHANGED <<cache, sent, granted, masks, arbitrated>>

\* The dispatcher advances when no callback is left; decisions of an earlier
\* tick are recognised by their stamp and are dropped here.
Tick ==
  /\ \A receiver \in Receivers : ~ReceiveDue(receiver) /\ ~RespondDue(receiver)
  /\ requests' = [p \in Port |-> Arrived(requests[p])]
  /\ pending' = [p \in Port |-> Elapsed(pending[p])]
  /\ responses' = [p \in Port |-> Arrived(responses[p])]
  /\ granted' = {}
  /\ masks' = [p \in Port |-> {}]
  /\ arbitrated' = FALSE
  /\ received' = {}
  /\ responded' = {}
  /\ wide' \in {wide, TRUE}
  /\ UNCHANGED <<cache, sent>>

\* What the clock drives.
Advance ==
  \/ \E receiver \in Receivers : ReceiveRequests(receiver) \/ SendResponses(receiver)
  \/ Tick

Next ==
  \/ \E p \in Port : \E a \in Accesses[p] : SendRequest(p, a)
  \/ \E p \in Port : ReceiveResponse(p)
  \/ Advance

Spec == Init /\ [][Next]_vars

\* The clock advances and clients take their responses.
FairSpec == Spec /\ WF_vars(Advance) /\ \A p \in Port : WF_vars(ReceiveResponse(p))
-----------------------------------------------------------------------------
(* Properties *)

TransitEntry == [access : Access, due : BOOLEAN]
PendingEntry == [access : Access, mask : SUBSET Nat, wait : Nat]

TypeOK ==
  /\ requests \in [Port -> Seq(TransitEntry)]
  /\ pending \in [Port -> Seq(PendingEntry)]
  /\ responses \in [Port -> Seq(TransitEntry)]
  /\ \A p \in Port : /\ Len(requests[p]) <= TransportCapacity
                     /\ Len(responses[p]) <= TransportCapacity
  /\ cache \in [Banks -> Int]
  /\ granted \subseteq Port
  /\ masks \in [Port -> SUBSET Nat]
  /\ arbitrated \in BOOLEAN
  /\ received \subseteq Receivers
  /\ responded \subseteq Receivers
  /\ sent \in [Port -> Nat]
  /\ wide \in BOOLEAN

\* The requests of a port on their way, oldest first.
Line(a, b, c) ==
  [i \in 1..(Len(a) + Len(b) + Len(c)) |->
     IF i <= Len(a) THEN a[i].access
     ELSE IF i <= Len(a) + Len(b) THEN b[i - Len(a)].access
     ELSE c[i - (Len(a) + Len(b))].access]
Outstanding == [p \in Port |-> Line(responses[p], pending[p], requests[p])]

\* The memory as its clients see it: whatever the arbiter refuses, whichever
\* receiver runs first and wherever a transport is full, each port answers its
\* requests once and in order.
Service == INSTANCE L1Service WITH
  Requests <- Accesses, outstanding <- Outstanding
InOrderService == Service!Spec

\* A request is accepted with the banks of its own access: the decisions a
\* receiver finds are about the request at the head of its queue, although
\* another receiver took them and requests kept arriving since.
Own(p, mask, a) ==
  IF p = MteRead THEN mask \subseteq WriteBankMask(a) ELSE mask = WriteBankMask(a)
AcceptedAsArbitrated ==
  \A p \in Port : \A i \in DOMAIN pending[p] : Own(p, pending[p][i].mask, pending[p][i].access)

\* Requests accepted in the same tick use different banks, although the two
\* receivers run at different moments of the tick.  A full response wait marks
\* a request accepted in this tick.
BankExclusive ==
  ~wide =>
    \A p, q \in Port : p # q =>
      \A i \in DOMAIN pending[p], j \in DOMAIN pending[q] :
        /\ pending[p][i].wait = ResponseTicks[p]
        /\ pending[q][j].wait = ResponseTicks[q]
        => pending[p][i].mask \cap pending[q][j].mask = {}

\* Every request is answered: clients that have stopped sending find the
\* memory idle in the end, whatever was refused on the way.
Idle == \A p \in Port : requests[p] = <<>> /\ pending[p] = <<>> /\ responses[p] = <<>>
Answered == []<>Idle
=============================================================================
