------------------------------ MODULE CubeUnit ------------------------------
(***************************************************************************)
(* The cube pipeline (C220CubePipeline) and the execution behind it        *)
(* (CubeEngine), as operators on a record s of                             *)
(*   cube  the instructions in flight and the clocks of the pipeline,      *)
(*   l0c   the accumulator buffer (module L0cBuffer),                      *)
(*   data  what every fragment of L0C holds: the instructions whose        *)
(*         results are accumulated in it.                                  *)
(* An instruction adds to its geometry (module CubePlan) an id, its L0C    *)
(* base and request length, its unit-flag mode, and the tick from which    *)
(* the hardware flags it waits for are set (flag; scheduled when their     *)
(* delivery is already under way).                                         *)
(***************************************************************************)
EXTENDS CubePlan, L0cBuffer

CubeInit == [flights |-> <<>>, nextAccept |-> 0, previousLast |-> 0, retired |-> <<>>]

\* l0c_request
L0cRequest(i, tile, write) ==
  [address |-> (tile + i.base \div i.length) * i.length, length |-> i.length, write |-> write,
   checks |-> write /\ i.mode # "off", updates |-> write /\ i.mode = "update"]

\* The fragments the result is computed for (prepare, complete_output_tiles);
\* none when a dimension is zero.
OutputFragments(i) ==
  IF UopCount(i) = 0 THEN {} ELSE
  {f % FragmentCount : f \in (i.base \div 2)..((i.base + i.m * i.n * i.length) \div 2 - 1)}

\* next_instruction_tick
NextInstruction(t) == IF t.last = -1 THEN t.accept + 1 ELSE t.last

-----------------------------------------------------------------------------
(* issue *)

CanIssue(c, tick) == tick >= c.nextAccept

\* preview_issue and issue: the ticket without the predicted delay; the
\* instruction queues for the write port unless it has no uops.
Issue(s, i, tick) ==
  LET predicted == Ticket(i, tick, s.cube.previousLast)
      back(t)   == IF t = -1 THEN -1 ELSE t - predicted.wait
      ticket    == [predicted EXCEPT !.first = back(@), !.last = back(@),
                                     !.retire = @ - predicted.wait, !.wait = 0]
      uops      == Uops(i)
      flight    == [id |-> i.id, ins |-> i, ticket |-> ticket, pending |-> uops,
                    next |-> IF uops = <<>> THEN -1 ELSE tick + 1,
                    granted |-> FALSE, observed |-> -1,
                    bubbles |-> IF uops = <<>> THEN 0 ELSE uops[1].bubbles + One(i.sparse),
                    result |-> <<>>, prepared |-> FALSE]
  IN  [s EXCEPT !.cube.flights = Append(@, flight),
                !.cube.nextAccept = NextInstruction(ticket),
                !.l0c = IF uops = <<>> THEN @ ELSE PortEnqueue(@, tick)]

-----------------------------------------------------------------------------
(* advance_event_at, for the flight at index k *)

\* Faulty variant: the retirement is moved by both callers of a delay.
ShiftRetireTwice(s, k, uop, delay, resume) ==
  LET t == s.cube.flights[k].ticket
      shifted == [t EXCEPT !.first = IF uop = 0 /\ @ # -1 THEN @ + delay ELSE @,
                           !.last = IF @ = -1 THEN -1 ELSE @ + delay,
                           !.retire = @ + 2 * delay]
  IN  [s EXCEPT !.cube.flights[k].ticket = shifted,
                !.cube.flights[k].next = resume,
                !.cube.nextAccept = Greatest(@, NextInstruction(shifted))]

\* shift_ticket_from_uop and delay_ticket_from_uop, with the tick at which
\* the uop is tried again.
Shift(s, k, uop, delay, resume) ==
  LET t == s.cube.flights[k].ticket
      shifted == [t EXCEPT !.first = IF uop = 0 /\ @ # -1 THEN @ + delay ELSE @,
                           !.last = IF @ = -1 THEN -1 ELSE @ + delay,
                           !.retire = @ + delay]
  IN  [s EXCEPT !.cube.flights[k].ticket = shifted,
                !.cube.flights[k].next = resume,
                !.cube.nextAccept = Greatest(@, NextInstruction(shifted))]

\* The first uop issues after the last one of the instruction before.
OrderFlight(s, k) ==
  LET f == s.cube.flights[k]
      ordered == s.cube.previousLast + 1
  IN  IF f.next = -1 \/ f.next >= ordered THEN s
      ELSE Shift(s, k, Head(f.pending).id, ordered - f.next, ordered)

\* gate_cube_instruction: held until its flags arrive; 0 when it may go.
GateTick(f) ==
  IF f.next >= f.ins.flag THEN 0 ELSE IF f.ins.scheduled THEN f.ins.flag ELSE f.next + 1

\* prepare, at the first uop: L0C as it is now, with the whole result in it.
PrepareResult(s, k) ==
  LET f == s.cube.flights[k] IN
  IF f.prepared THEN s
  ELSE [s EXCEPT !.cube.flights[k].prepared = TRUE,
                 !.cube.flights[k].result =
                    [a \in DOMAIN s.data |->
                       IF a \in OutputFragments(f.ins)
                         THEN (IF f.ins.accumulates THEN s.data[a] ELSE <<>>) \o <<f.id>> ELSE s.data[a]]]

\* Faulty variant: the fragments a uop writes are taken for those it reads.
PublishOnRead(s, k, uop) ==
  LET ready == PrepareResult(s, k)
      f     == ready.cube.flights[k]
      to    == Fragments(L0cRequest(f.ins, uop.tile, FALSE))
  IN  IF ~uop.reads THEN ready
      ELSE [ready EXCEPT !.data = [a \in DOMAIN @ |-> IF a \in to THEN f.result[a] ELSE @[a]]]

\* execute_released: a uop that writes L0C publishes its part of the result.
Publish(s, k, uop) ==
  LET ready == PrepareResult(s, k)
      f     == ready.cube.flights[k]
      to    == Fragments(L0cRequest(f.ins, uop.tile, TRUE))
  IN  IF ~uop.writes THEN ready
      ELSE [ready EXCEPT !.data = [a \in DOMAIN @ |-> IF a \in to THEN f.result[a] ELSE @[a]]]

\* The uop is released: the banks are reserved, the ticket of the last uop
\* becomes the order of the next instruction.
Release(s, k, uop) ==
  LET f    == s.cube.flights[k]
      rest == Tail(f.pending)
      read == IF uop.reads THEN CubeRead(s.l0c, L0cRequest(f.ins, uop.tile, FALSE), f.next) ELSE s.l0c
      moved == [s EXCEPT !.l0c = read,
                         !.cube.flights[k].pending = rest,
                         !.cube.flights[k].next = IF rest = <<>> THEN -1 ELSE f.next + 1 + rest[1].bubbles]
      last == [moved EXCEPT !.cube.flights[k].ticket.last = f.next,
                            !.cube.previousLast = f.next,
                            !.cube.nextAccept = Greatest(@, f.next)]
  IN  Publish(IF rest = <<>> THEN last ELSE moved, k, uop)

\* One attempt to issue the next uop of the flight.
TryUop(s, k) ==
  LET f     == s.cube.flights[k]
      uop   == Head(f.pending)
      first == uop.id = 0
      seen  == [s EXCEPT !.l0c = ScoreboardAdvance(@, f.next)]
      observed == IF f.observed = -1 THEN f.next ELSE f.observed
      looked   == IF first THEN [seen EXCEPT !.cube.flights[k].observed = observed] ELSE seen
      port     == IF first /\ ~f.granted
                    THEN [looked EXCEPT !.l0c = PortGrant(@), !.cube.flights[k].granted = TRUE] ELSE looked
      write    == L0cRequest(f.ins, uop.tile, TRUE)
  IN  IF first /\ GateTick(f) # 0 THEN Shift(seen, k, 0, GateTick(f) - f.next, GateTick(f))
      ELSE IF /\ first /\ f.ins.delay
              /\ f.next >= s.cube.previousLast + GuardTicks /\ f.next < observed + DelayTicks
        THEN Shift(looked, k, 0, 1, f.next + 1)
      ELSE IF first /\ f.bubbles # 0
        THEN [looked EXCEPT !.cube.flights[k].bubbles = @ - 1, !.cube.flights[k].next = @ + 1]
      ELSE IF uop.writes /\ Blocked(port.l0c, write) THEN Shift(port, k, uop.id, 1, f.next + 1)
      ELSE Release(IF uop.writes THEN [port EXCEPT !.l0c = Admit(@, write, f.next)] ELSE port, k, uop)

\* Flights in order, up to the first that keeps uops.
AdvanceFlights(s, tick) ==
  LET attempt(t, k) ==
        LET o == OrderFlight(t, k) IN
        IF o.cube.flights[k].next # -1 /\ o.cube.flights[k].next <= tick THEN TryUop(o, k) ELSE o
      step(t, k) == IF \E e \in 1..(k - 1) : t.cube.flights[e].pending # <<>> THEN t ELSE attempt(t, k)
  IN  FoldLeft(step, s, [k \in 1..Len(s.cube.flights) |-> k])

\* Retirement (commit_retired): in order, but instructions without uops do
\* not wait for the ones in front.
Retirable(c, tick) ==
  {k \in DOMAIN c.flights : LET f == c.flights[k] IN
     /\ f.ticket.retire <= tick
     /\ UopCount(f.ins) = 0 \/ (k = 1 /\ f.pending = <<>> /\ f.granted)}
RetireOne(s, tick) ==
  IF Retirable(s.cube, tick) = {} THEN s
  ELSE LET k == CHOOSE e \in Retirable(s.cube, tick) : \A o \in Retirable(s.cube, tick) : e <= o
           f == s.cube.flights[k]
       IN  [s EXCEPT !.cube.flights = RemoveAt(@, k),
                     !.cube.retired = Append(@, f.ins),
                     !.l0c = IF f.granted THEN PortComplete(@) ELSE @]

\* advance_in_batch_to and advance_event: one tick of the pipeline.
CubeTick(s, tick) ==
  LET moved   == AdvanceFlights(s, tick)
      retired == FoldLeft(LAMBDA t, k : RetireOne(t, tick), moved, moved.cube.flights)
  IN  [retired EXCEPT !.l0c = BanksAdvance(@, tick)]
=============================================================================
