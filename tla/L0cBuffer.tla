------------------------------ MODULE L0cBuffer ------------------------------
(***************************************************************************)
(* The L0C accumulator buffer between the cube and FIX: the unit-flag      *)
(* scoreboard (C220L0cScoreboard), the write port (C220L0cWriteArbiter),   *)
(* the read port and its banks (C220L0cReadPort, C220L0cReadBanks) and the *)
(* MTE side of the read port (C220MteL0cReadInterface), as operators on a  *)
(* record l.  Addresses are in units of 256 bytes, lengths too.            *)
(***************************************************************************)
EXTENDS Integers, Sequences, SequencesExt, FiniteSets

CONSTANTS
  FragmentCount,    \* 512-byte fragments of the buffer
  FlagLatency,      \* unit_flag_read_latency
  BankCount,        \* bank_count
  DataLatency       \* data_latency

ASSUME L0cAssumption ==
  /\ FragmentCount \in Nat \ {0} /\ BankCount \in 1..32
  /\ FlagLatency \in Nat /\ DataLatency \in Nat

Later(a, b) == IF a < b THEN b ELSE a

\* accumulators are written by the cube alone, so the port is one queue of
\* the ticks at which its instructions were accepted
L0cInit ==
  [writer |-> {}, reader |-> {}, flags |-> <<>>,
   portQueue |-> <<>>, portBusy |-> 0,
   masks |-> [o \in 1..8 |-> {}], bankTick |-> 0,
   incoming |-> <<>>, admitted |-> <<>>, arbitrated |-> -1,
   input |-> <<>>, pending |-> <<>>, acks |-> <<>>]

-----------------------------------------------------------------------------
(* C220L0cScoreboard *)

\* request_fragments and fragments
Fragments(r) == {(r.address \div 2 + o) % FragmentCount : o \in 0..(r.length \div 2 - 1)}

\* advance_to: flags written by the cube become readable in the order they
\* were written.
ScoreboardAdvance(l, tick) ==
  LET due == {n \in 0..Len(l.flags) : \A j \in 1..n : l.flags[j].ready <= tick}
      k   == CHOOSE n \in due : \A o \in due : o <= n
  IN  [l EXCEPT !.reader = @ \cup UNION {l.flags[j].fragments : j \in 1..k},
                !.flags = SubSeq(@, k + 1, Len(@))]

Blocked(l, r) ==
  r.checks /\ IF r.write THEN Fragments(r) \cap l.writer # {} ELSE ~ (Fragments(r) \subseteq l.reader)

\* Faulty variant: a read gives its fragments back to the readers only.
AdmitKeepsWriter(l, r, tick) ==
  IF ~r.checks \/ ~r.updates THEN l
  ELSE IF r.write
    THEN [l EXCEPT !.writer = @ \cup Fragments(r),
                   !.flags = Append(@, [ready |-> tick + FlagLatency, fragments |-> Fragments(r)])]
    ELSE [l EXCEPT !.reader = @ \ Fragments(r)]

\* admit, when the request is not blocked
Admit(l, r, tick) ==
  IF ~r.checks \/ ~r.updates THEN l
  ELSE IF r.write
    THEN [l EXCEPT !.writer = @ \cup Fragments(r),
                   !.flags = Append(@, [ready |-> tick + FlagLatency, fragments |-> Fragments(r)])]
    ELSE [l EXCEPT !.reader = @ \ Fragments(r), !.writer = @ \ Fragments(r)]

\* C220L0cWriteArbiter: enqueue, grant and complete of the cube
PortEnqueue(l, tick) == [l EXCEPT !.portQueue = Append(@, tick)]
PortGrant(l) == [l EXCEPT !.portQueue = IF @ = <<>> THEN @ ELSE Tail(@), !.portBusy = @ + 1]
PortComplete(l) == [l EXCEPT !.portBusy = IF @ = 0 THEN 0 ELSE @ - 1]

-----------------------------------------------------------------------------
(* C220L0cReadBanks *)

\* CUBE_BANK_SEQUENCE: the banks a cube read occupies in seven ticks
CubeBanks == <<{0}, {1, 4}, {2, 5, 8}, {3, 6, 9, 12}, {7, 10, 13}, {11, 14}, {15}>>

BanksAdvance(l, tick) ==
  LET elapsed == tick - l.bankTick IN
  [l EXCEPT !.masks = [o \in 1..8 |-> IF o + elapsed <= 8 THEN l.masks[o + elapsed] ELSE {}],
            !.bankTick = tick]

\* send_cube_read and reserve: half accumulators use one half of the banks.
CubeRead(l, r, tick) ==
  LET now == BanksAdvance(l, tick)
      spread(p) == IF r.length = 2 THEN {b + 16 * (r.address % 2) : b \in p} ELSE p \cup {b + 16 : b \in p}
  IN  [now EXCEPT !.masks = [o \in 1..8 |-> IF o = 1 THEN @[o] ELSE @[o] \cup spread(CubeBanks[o - 1])]]

\* bank_mask for the data types FIX and the cube tests use: groups of four
\* banks, pairs, or every other bank of half accumulators.
BankMask(r) ==
  {b \in 0..(BankCount - 1) :
     CASE r.banks = "half"   -> (r.address \div 2) % 2 = b % 2
       [] r.banks = "groups" -> (b \div 4) % 2 = (r.address \div 2) % 2
       [] r.banks = "pairs"  -> (b \div 2) % 4 = r.address % 4
       [] OTHER -> FALSE}

-----------------------------------------------------------------------------
(* C220L0cReadPort *)

TransportCapacity == 2

\* arbitrate, once per tick: the head moves on when none of its banks is in use.
Arbitrate(l) ==
  LET head == Head(l.incoming) IN
  IF l.arbitrated = l.bankTick THEN l
  ELSE IF l.incoming = <<>> \/ head.ready > l.bankTick \/ BankMask(head.request) \cap l.masks[1] # {}
    THEN [l EXCEPT !.arbitrated = l.bankTick]
    ELSE [l EXCEPT !.arbitrated = l.bankTick, !.incoming = Tail(@), !.admitted = Append(@, head.request)]

\* poll_read and complete_read for request r: [ready, l], ready -1 while blocked.
PollRead(l, r, tick) ==
  LET port == ScoreboardAdvance(Arbitrate(BanksAdvance(l, tick)), tick) IN
  IF port.admitted = <<>> \/ Head(port.admitted).id # r.id
    THEN [ready |-> -1, l |-> Arbitrate(BanksAdvance(l, tick))]
  ELSE IF Blocked(port, Head(port.admitted)) THEN [ready |-> -1, l |-> port]
  ELSE [ready |-> tick + DataLatency,
        l |-> [Admit(port, Head(port.admitted), tick) EXCEPT !.admitted = Tail(@)]]

-----------------------------------------------------------------------------
(* C220MteL0cReadInterface *)

CanEnqueueRead(l) == Len(l.input) < 5

\* enqueue refuses an id that is still in the interface (DuplicateRequest).
ReadIds(l) == {l.input[j].operation.request.id : j \in DOMAIN l.input}
                \cup {l.pending[j].request.id : j \in DOMAIN l.pending}
                \cup {l.acks[j].operation.request.id : j \in DOMAIN l.acks}
EnqueueRead(l, op, tick) == [l EXCEPT !.input = Append(@, [operation |-> op, ready |-> tick + 4])]

\* send_queued and send
SendQueued(l, tick) ==
  LET op == Head(l.input).operation IN
  IF \/ l.input = <<>> \/ tick < Head(l.input).ready
     \/ Len(l.pending) > 2
     \/ Len(l.acks) > DataLatency
     \/ Len(l.incoming) >= TransportCapacity
    THEN l
    ELSE [l EXCEPT !.input = Tail(@), !.pending = Append(@, op),
                   !.incoming = Append(@, [request |-> op.request, ready |-> tick + 1])]

\* receive: [accepted, l], accepted the sequence of the operation received.
ReceiveRead(l, tick) ==
  IF l.pending = <<>> THEN [accepted |-> <<>>, l |-> l]
  ELSE LET op == Head(l.pending)
           poll == PollRead(l, op.request, tick)
       IN  IF poll.ready = -1 THEN [accepted |-> <<>>, l |-> poll.l]
           ELSE [accepted |-> <<op>>,
                 l |-> [poll.l EXCEPT !.pending = Tail(@),
                          !.acks = Append(@, [operation |-> op, ready |-> Later(poll.ready, tick + 1)])]]

\* deliver_with, after the receiver's answer
DeliverableRead(l, tick) == l.acks # <<>> /\ Head(l.acks).ready <= tick
AcceptRead(l) == [l EXCEPT !.acks = Tail(@)]
DeferRead(l, until) == [l EXCEPT !.acks[1].ready = Later(@, until)]

L0cReadIdle(l) == l.input = <<>> /\ l.pending = <<>> /\ l.acks = <<>>

-----------------------------------------------------------------------------

\* The writer flag of a fragment is set exactly while it is on its way to the
\* readers or readable, and never both.
ScoreboardConsistent(l) ==
  LET underway(j) == l.flags[j].fragments IN
  /\ l.writer = l.reader \cup UNION {underway(j) : j \in DOMAIN l.flags}
  /\ \A j \in DOMAIN l.flags :
       /\ underway(j) \cap l.reader = {}
       /\ \A o \in DOMAIN l.flags : o # j => underway(j) \cap underway(o) = {}
=============================================================================
