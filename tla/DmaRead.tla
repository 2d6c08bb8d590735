------------------------------- MODULE DmaRead -------------------------------
(***************************************************************************)
(* Transfers from external memory, tick by tick: the generator, the bus    *)
(* interface with its tags, the return path that puts beats back in order, *)
(* the write interface of L1 or of the unified buffer, and the commands of *)
(* MTE2, which copy their data when they retire.                           *)
(*                                                                         *)
(* A core has one kind of destination: L1 on the cube core, the unified    *)
(* buffer on a vector core; so one of the three channels of the interface  *)
(* is in use.  Memory answers a request after a latency of its own; the    *)
(* destination takes a packet every period ticks.                          *)
(***************************************************************************)
EXTENDS DmaPlan, TLC

CONSTANTS
  Bandwidths,       \* [cube |-> , vector |-> ]: bytes of a packet
  ReadLatencies,    \* ticks from the taking of a request to its data
  WriteLatency,     \* ticks from a packet to its response
  DmaPrograms,      \* [core, period, tags, limit, transfers]: the tags of the interface, the
                    \* requests whose data the bus waits for, and what is issued
  MaxDmaTick        \* the bound on time
ASSUME DmaAssumption ==
  /\ WriteLatency \in Nat /\ MaxDmaTick \in Nat
  /\ \A p \in DmaPrograms : p.tags > 0 /\ p.limit > 0 /\ p.period > 0
  /\ ReadLatencies \subseteq Nat

VARIABLE dma
dmaVars == <<dma>>

CommandTicks == 1
GeneratedTicks == 3
InputDepth == 4
InputTicks == 3
BusDepth == 2
ReturnDepth == 3
UpstreamDepth == 2
IngressTicks == 2
AdapterDepth == 2
WriteInputs == [cube |-> [depth |-> 10, ticks |-> 9], vector |-> [depth |-> 8, ticks |-> 7]]
TransportDepth == 2
Capacity(d) == 2 * d.tags   \* beats of a port

DmaFailed(d, why) == [d EXCEPT !.failure = why]
Due(queue, tick) == queue # <<>> /\ Head(queue).ready <= tick
Transfer(d, id) == d.transfers[id]
OutOfOrder(d, id) == Geometry(Transfer(d, id)).split

DmaStart(p) ==
  [transfers |-> p.transfers, core |-> p.core, period |-> p.period, tags |-> p.tags, limit |-> p.limit, tick |-> 0, failure |-> "",
   issued |-> 0, pending |-> <<>>, retired |-> <<>>, completed |-> <<>>,
   generation |-> <<>>, generated |-> <<>>,
   input |-> <<>>, current |-> <<>>, fresh |-> 1, free |-> <<>>, reserved |-> 0,
   bus |-> <<>>, commands |-> <<>>, outstanding |-> 0, beats |-> <<>>,
   returns |-> [c \in {0, 1} |-> <<>>], upstream |-> [c \in {0, 1} |-> <<>>],
   records |-> <<>>, requests |-> <<>>, occupancy |-> [c \in {0, 1} |-> 0], receiver |-> 0,
   ingress |-> [c \in {0, 1} |-> <<>>], order |-> [o \in {0, 1} |-> <<>>], turn |-> 0,
   active |-> 0, activeReady |-> 0, egress |-> <<>>, adapter |-> <<>>, packets |-> <<>>, progress |-> NoProgress,
   outputs |-> <<>>, transport |-> <<>>, service |-> <<>>, acks |-> <<>>,
   written |-> [id \in DOMAIN p.transfers |-> <<>>]]

-----------------------------------------------------------------------------
(* Generation (dma.rs) *)

\* can_issue_mte2_dma and issue_dma_requests; a transfer of nothing is
\* complete at once
CanIssueDma(d) == d.generation = <<>> /\ Len(d.generated) <= GeneratedTicks
Accepts(d, id, requests) ==
  LET command == [id |-> id, issue |-> d.tick, tail |-> FALSE, done |-> IF requests = <<>> THEN d.tick ELSE -1] IN
  IF requests # <<>> /\ ~CanIssueDma(d) THEN d
  ELSE [d EXCEPT !.issued = id, !.pending = Append(@, command),
                 !.generation = IF requests = <<>> THEN @
                                ELSE <<[id |-> id, ready |-> d.tick + CommandTicks, requests |-> requests]>>]
IssueDma(d) ==
  LET id == d.issued + 1 IN
  IF id \in DOMAIN d.transfers THEN Accepts(d, id, DmaRequests(Transfer(d, id))) ELSE d

GenerateRequest(d) ==
  LET g == Head(d.generation)
      r == Head(g.requests) @@ [id |-> g.id, ready |-> d.tick + GeneratedTicks]
  IN  IF ~Due(d.generation, d.tick) \/ Len(d.generated) > GeneratedTicks THEN d
      ELSE [d EXCEPT !.generated = Append(@, r),
                     !.generation = IF r.last THEN <<>> ELSE <<[g EXCEPT !.requests = Tail(@)]>>]

\* send, and push of the interface
SendRequest(d) ==
  IF ~Due(d.generated, d.tick) \/ Len(d.input) >= InputDepth THEN d
  ELSE [d EXCEPT !.generated = Tail(@), !.input = Append(@, [Head(d.generated) EXCEPT !.ready = d.tick + InputTicks])]

-----------------------------------------------------------------------------
(* Requests to the bus (biu_read.rs) *)

\* arbitrate: a new request while at most one piece of the earlier is left
ArbitrateRead(d) ==
  LET r    == Head(d.input)
      left == FoldLeft(LAMBDA n, c : n + Len(c.pieces), 0, d.current)
      pieces == Pieces(ModeOf(Transfer(d, r.id).word), r)
  IN  IF left > 1 \/ ~Due(d.input, d.tick) THEN d
      ELSE [d EXCEPT !.input = Tail(@), !.current = Append(@, [id |-> r.id, ready |-> d.tick + 1, pieces |-> pieces])]

\* A tag is reserved before the transport is asked: fresh ones first, then
\* those given back, the oldest first
ReserveTag(d) ==
  IF d.reserved # 0 THEN d
  ELSE IF d.fresh <= d.tags THEN [d EXCEPT !.reserved = d.fresh, !.fresh = @ + 1]
  ELSE IF d.free # <<>> THEN [d EXCEPT !.reserved = Head(d.free), !.free = Tail(@)]
  ELSE d

\* track
Track(d, tag, piece) ==
  LET earlier == IF piece.id \in DOMAIN d.requests THEN d.requests[piece.id].remaining ELSE 0
      record  == [piece |-> piece, expected |-> Ceil(piece.bytes, BeatBytes), received |-> 0, beats |-> <<>>, ready |-> FALSE]
  IN  [d EXCEPT !.records = (tag :> record) @@ @,
                !.requests = (piece.id :> [remaining |-> earlier + 1, tailSent |-> piece.last]) @@ @,
                !.order[0] = IF OutOfOrder(d, piece.id) THEN @ ELSE Append(@, [tag |-> tag, ready |-> d.tick + 1])]

SendReadRequest(d) ==
  LET t     == ReserveTag(d)
      head  == Head(t.current)
      piece == Head(head.pieces) @@ [id |-> head.id]
      sent  == [Track(t, t.reserved, piece) EXCEPT
                  !.reserved = 0,
                  !.current = IF Len(head.pieces) = 1 THEN Tail(@) ELSE [@ EXCEPT ![1].pieces = Tail(@)],
                  !.bus = Append(@, [tag |-> t.reserved, ready |-> t.tick + 1])]
  IN  IF ~Due(d.current, d.tick) THEN d
      ELSE IF t.reserved = 0 \/ Len(t.bus) >= BusDepth THEN t
      ELSE sent

-----------------------------------------------------------------------------
(* The bus and the memory behind it (pipeline/read.rs) *)

\* advance_input
AdmitCommand(d) ==
  IF ~Due(d.bus, d.tick) \/ d.outstanding >= d.limit THEN d
  ELSE [d EXCEPT !.bus = Tail(@), !.commands = Append(@, [Head(d.bus) EXCEPT !.ready = d.tick + 1])]

\* take_command: the memory answers in latency ticks; the tail of a command is
\* observed here (observe_dma_tail)
TakeRead(d, latency) ==
  LET tag   == Head(d.commands).tag
      piece == d.records[tag].piece
      due   == d.tick + latency
      new   == [b \in 1..d.records[tag].expected |-> [tag |-> tag, beat |-> b - 1, ready |-> due]]
  IN  IF ~Due(d.commands, d.tick) THEN d
      ELSE [d EXCEPT !.commands = Tail(@), !.outstanding = @ + 1,
                !.beats = SelectSeq(@, LAMBDA b : b.ready <= due) \o new \o SelectSeq(@, LAMBDA b : b.ready > due),
                !.pending = IF ~piece.last THEN @ ELSE [k \in DOMAIN @ |-> [@[k] EXCEPT !.tail = @ \/ d.pending[k].id = piece.id]]]

\* Beats that are due go to the two returns in turn, up to the first that is full
DeliverBeats(d) ==
  LET room == [c \in {0, 1} |-> ReturnDepth - Len(d.returns[c])]
      due  == Len(SelectSeq(d.beats, LAMBDA b : b.ready <= d.tick))
      n    == LesserOf(due, IF room[0] <= room[1] THEN 2 * room[0] ELSE (2 * room[1]) + 1)
      Share(c) == SelectSeq([k \in 1..n |-> [d.beats[k] EXCEPT !.ready = IF k % 2 = 1 - c THEN d.tick + 1 ELSE -1]],
                            LAMBDA b : b.ready # -1)
  IN  [d EXCEPT !.beats = SubSeq(@, n + 1, Len(@)), !.returns = [c \in {0, 1} |-> @[c] \o Share(c)]]

\* advance_returns: the first beat of a request makes room for another
AdvanceReturn(d, c) ==
  LET b == Head(d.returns[c]) IN
  IF ~Due(d.returns[c], d.tick) \/ Len(d.upstream[c]) >= UpstreamDepth THEN d
  ELSE [d EXCEPT !.returns[c] = Tail(@), !.upstream[c] = Append(@, [b EXCEPT !.ready = d.tick + 1]),
                 !.outstanding = IF b.beat = 0 THEN @ - 1 ELSE @]

-----------------------------------------------------------------------------
(* Returns (returns.rs) *)

\* receive: the ports the heads of the channels go to, or -1.  Two heads go to
\* the ports of their parities when these differ.
Ports(d, heads) ==
  LET free == {c \in {0, 1} : d.occupancy[c] < Capacity(d)}
      parity(c) == Head(d.upstream[c]).beat % 2
  IN  IF heads = {0, 1} /\ free = {0, 1}
        THEN IF parity(0) # parity(1) THEN [c \in heads |-> parity(c)] ELSE [c \in heads |-> c]
      ELSE IF heads = {0, 1}
        THEN [c \in heads |-> IF free # {} /\ c = d.receiver THEN CHOOSE p \in free : TRUE ELSE -1]
      ELSE [c \in heads |-> IF parity(c) \in free THEN parity(c) ELSE IF free # {} THEN 1 - parity(c) ELSE -1]

\* One beat enters the buffer; the last of a request sorts them
StoreBeat(d, channel, port) ==
  LET b == Head(d.upstream[channel])
      r == d.records[b.tag]
      beats == Append(r.beats, [beat |-> b.beat, port |-> port])
      complete == r.received + 1 = r.expected
      sorted == SortSeq(beats, LAMBDA x, y : x.beat < y.beat)
  IN  IF r.received = r.expected THEN DmaFailed(d, "ExcessResponse")
      ELSE [d EXCEPT !.upstream[channel] = Tail(@), !.occupancy[port] = @ + 1,
                     !.records[b.tag] = [r EXCEPT !.received = @ + 1, !.beats = IF complete THEN sorted ELSE beats],
                     !.ingress[port] = IF complete THEN Append(@, [tag |-> b.tag, ready |-> d.tick + IngressTicks]) ELSE @]

ReceiveBeats(d) ==
  LET heads == {c \in {0, 1} : Due(d.upstream[c], d.tick)}
      ports == Ports(d, heads)
      full  == \E c \in {0, 1} : d.occupancy[c] >= Capacity(d)
      turned == [d EXCEPT !.receiver = IF heads = {0, 1} /\ full /\ \E c \in heads : ports[c] # -1 THEN 1 - @ ELSE @]
  IN  FoldLeft(LAMBDA t, c : IF c \in heads /\ ports[c] # -1 THEN StoreBeat(t, c, ports[c]) ELSE t, turned, <<0, 1>>)

Ingress(d, port) ==
  LET tag == Head(d.ingress[port]).tag IN
  IF ~Due(d.ingress[port], d.tick) THEN d
  ELSE [d EXCEPT !.ingress[port] = Tail(@), !.records[tag].ready = TRUE,
                 !.order[1] = IF OutOfOrder(d, d.records[tag].piece.id) THEN Append(@, [tag |-> tag, ready |-> d.tick + 1]) ELSE @]

\* select: the two orders in turn; in order, a request waits for its data
SelectReturn(d) ==
  LET eligible(o) == Due(d.order[o], d.tick) /\ d.records[Head(d.order[o]).tag].ready
      o == IF eligible(d.turn) THEN d.turn ELSE 1 - d.turn
  IN  IF d.active # 0 \/ ~\E p \in {0, 1} : eligible(p) THEN d
      ELSE [d EXCEPT !.active = Head(d.order[o]).tag, !.order[o] = Tail(@), !.turn = 1 - o, !.activeReady = d.tick + 1]

\* A command ends with the last of its requests to be read, in whatever order
\* they were answered, once all were sent
EndsOnCount(requests, id) == requests[id].remaining = 1
EndsCommand(requests, id) == requests[id].remaining = 1 /\ requests[id].tailSent

\* read: one beat, on the cube core a second from the other port
ReadBuffer(d) ==
  LET r     == d.records[d.active]
      two   == d.core = "cube" /\ Len(r.beats) > 1 /\ r.beats[1].port # r.beats[2].port
      n     == IF two THEN 2 ELSE 1
      taken(p) == Cardinality({k \in 1..n : r.beats[k].port = p})
      id    == r.piece.id
      ends  == EndsCommand(d.requests, id)
      read  == [d EXCEPT !.records[d.active].beats = SubSeq(@, n + 1, Len(@)),
                         !.occupancy = [p \in {0, 1} |-> @[p] - taken(p)]]
  IN  IF d.active = 0 \/ d.activeReady > d.tick THEN d
      ELSE IF n < Len(r.beats) THEN [read EXCEPT !.activeReady = d.tick + 1]
      ELSE [read EXCEPT !.active = 0, !.egress = Append(@, [tag |-> d.active, last |-> ends, ready |-> d.tick + 1]),
                        !.requests = IF ends THEN [e \in DOMAIN @ \ {id} |-> @[e]] ELSE [@ EXCEPT ![id].remaining = @ - 1]]

\* egress: the tag is free again
Egress(d) ==
  LET e == Head(d.egress) IN
  IF Len(d.adapter) >= AdapterDepth \/ ~Due(d.egress, d.tick) THEN d
  ELSE [d EXCEPT !.egress = Tail(@), !.free = Append(@, e.tag), !.records = [t \in DOMAIN @ \ {e.tag} |-> @[t]],
                 !.adapter = Append(@, [piece |-> d.records[e.tag].piece, last |-> e.last, ready |-> d.tick + 1, planned |-> FALSE])]

\* WriteAligner::plan for the head of the adapter
PlanHead(d) ==
  LET a == Head(d.adapter)
      t == Transfer(d, a.piece.id)
      width == Bandwidths[d.core]
      Planned(plan) == [d EXCEPT !.adapter[1].planned = TRUE, !.packets = plan.packets, !.progress = plan.progress]
      Plan(g) ==
        IF g.split THEN [packets |-> PlanAlone(a.piece, a.last, width), progress |-> d.progress]
        ELSE IF g.route = "Take" THEN PlanTaken(d.progress, t, a.piece, a.last, width)
        ELSE PlanOrdered(d.progress, t, g, a.piece, a.last, width)
  IN  IF ~Due(d.adapter, d.tick) \/ a.planned THEN d
      ELSE IF ~OutOfOrder(d, a.piece.id) /\ d.progress.owner \notin {0, a.piece.id} THEN DmaFailed(d, "InterleavedInstruction")
      ELSE Planned(Plan(Geometry(t)))

\* send_output: one packet; data that make no packet are absorbed
SendOutput(d) ==
  LET sends  == d.packets # <<>> /\ Len(d.outputs) < WriteInputs[d.core].depth
      left   == IF sends THEN Tail(d.packets) ELSE d.packets
      output == Head(d.packets) @@ [id |-> Head(d.adapter).piece.id, ready |-> d.tick + WriteInputs[d.core].ticks]
  IN  IF ~Due(d.adapter, d.tick) THEN d
      ELSE [d EXCEPT !.packets = left, !.outputs = IF sends THEN Append(@, output) ELSE @,
                     !.adapter = IF left = <<>> THEN Tail(@) ELSE @]

-----------------------------------------------------------------------------
(* Writes (l1_write.rs, ub_write.rs) *)

Grants(d) == d.tick % d.period = 0
Serve(d, w) == Append(d.service, [w EXCEPT !.ready = d.tick + WriteLatency])

\* send: to the L1 memory, or to the transport of the unified buffer
SendPacket(d) ==
  LET w == Head(d.outputs) IN
  IF ~Due(d.outputs, d.tick) THEN d
  ELSE IF d.core = "cube"
    THEN IF Grants(d) THEN [d EXCEPT !.outputs = Tail(@), !.service = Serve(d, w)] ELSE d
  ELSE IF Len(d.transport) < TransportDepth
    THEN [d EXCEPT !.outputs = Tail(@), !.transport = Append(@, [w EXCEPT !.ready = d.tick + 1])]
  ELSE d

\* take_request of the unified buffer
TakeWrite(d) ==
  IF ~Due(d.transport, d.tick) \/ ~Grants(d) THEN d
  ELSE [d EXCEPT !.transport = Tail(@), !.service = Serve(d, Head(d.transport))]

\* receive_response: in L1 only the last packet of a request is acknowledged
WriteResponse(d) ==
  LET w == Head(d.service) IN
  IF ~Due(d.service, d.tick) THEN d
  ELSE [d EXCEPT !.service = Tail(@), !.written[w.id] = Append(@, <<w.address, w.bytes>>),
                 !.acks = IF d.core = "vector" \/ w.closes THEN Append(@, [w EXCEPT !.ready = d.tick + 1]) ELSE @]

\* retire: the acknowledgment of the last packet completes the command
RetireWrite(d) ==
  LET a == Head(d.acks) IN
  IF ~Due(d.acks, d.tick) THEN d
  ELSE [d EXCEPT !.acks = Tail(@), !.completed = IF a.last THEN Append(@, a.id) ELSE @]

-----------------------------------------------------------------------------
(* Commands (mte2/pipeline.rs) *)

\* complete_dma: refused before the tail was seen
CompleteDma(d, id) ==
  LET k == {j \in DOMAIN d.pending : d.pending[j].id = id /\ d.pending[j].tail /\ d.pending[j].done = -1} IN
  IF k = {} THEN DmaFailed(d, "InvalidDmaCompletion")
  ELSE [d EXCEPT !.pending[CHOOSE j \in k : TRUE].done = d.tick]
CompleteAll(d) == [FoldLeft(CompleteDma, d, d.completed) EXCEPT !.completed = <<>>]

\* commit_ready_at: the oldest command, after the tick of its completion
CommitReady(d) ==
  LET c == Head(d.pending) IN
  IF d.pending = <<>> \/ c.issue >= d.tick \/ c.done = -1 \/ c.done >= d.tick THEN d
  ELSE [d EXCEPT !.pending = Tail(@), !.retired = Append(@, c.id)]

-----------------------------------------------------------------------------
(* A tick *)

\* advance_inner in the order of its handlers, the bus, the unified buffer and
\* the commands after it
Handlers ==
  <<"Tick", "DeliverBeats", "Return0", "Return1", "Receive", "ReadBuffer", "L1Write", "L1Response", "L1Retire", "SendRequest", "GenerateRequest",
    "ArbitrateRead", "SendRead", "Ingress0", "Ingress1", "SelectReturn", "Egress", "PlanHead", "SendOutput", "UbWrite", "UbRetire",
    "AdmitCommand", "TakeRead", "UbResponse", "TakeWrite", "CompleteAll", "CommitReady", "IssueDma">>
Handle(d, name, latency) ==
  CASE name = "Tick" -> [d EXCEPT !.tick = @ + 1]      [] name = "DeliverBeats" -> DeliverBeats(d)
    [] name = "Return0" -> AdvanceReturn(d, 0)         [] name = "Return1" -> AdvanceReturn(d, 1)
    [] name = "AdmitCommand" -> AdmitCommand(d)
    [] name = "Receive" -> ReceiveBeats(d)                  [] name = "ReadBuffer" -> ReadBuffer(d)
    [] name \in {"L1Write", "UbWrite"} -> SendPacket(d) [] name \in {"L1Response", "UbResponse"} -> WriteResponse(d)
    [] name \in {"L1Retire", "UbRetire"} -> RetireWrite(d)
    [] name = "SendRequest" -> SendRequest(d)          [] name = "GenerateRequest" -> GenerateRequest(d)
    [] name = "ArbitrateRead" -> ArbitrateRead(d)      [] name = "SendRead" -> SendReadRequest(d)
    [] name = "Ingress0" -> Ingress(d, 0)              [] name = "Ingress1" -> Ingress(d, 1)
    [] name = "SelectReturn" -> SelectReturn(d)        [] name = "Egress" -> Egress(d)
    [] name = "PlanHead" -> PlanHead(d)                [] name = "SendOutput" -> SendOutput(d)
    [] name = "TakeRead" -> TakeRead(d, latency)       [] name = "TakeWrite" -> TakeWrite(d)
    [] name = "CompleteAll" -> CompleteAll(d)
    [] name = "CommitReady" -> CommitReady(d)          [] name = "IssueDma" -> IssueDma(d)
Idles(core) ==
  IF core = "cube" THEN {"UbWrite", "UbRetire", "UbResponse", "TakeWrite"} ELSE {"L1Write", "L1Response", "L1Retire"}
DmaStep(d, latency) ==
  FoldLeft(LAMBDA t, name : IF name \in Idles(d.core) THEN t ELSE Handle(t, name, latency), d, Handlers)

DmaInit == \E p \in DmaPrograms : dma = DmaStart(p)
DmaNext ==
  /\ dma.tick < MaxDmaTick /\ dma.failure = ""
  /\ Len(dma.retired) < Len(dma.transfers)
  /\ \E latency \in IF dma.commands # <<>> THEN ReadLatencies ELSE {0} : dma' = DmaStep(dma, latency)

-----------------------------------------------------------------------------
(* Properties *)

SourceGrain(t) == IF t.kind = "pad" THEN 1 ELSE SourceUnit(t)
Shifted(segments, base) == {<<p[1] - base, p[2]>> : p \in segments}
RequestedOnce(t) ==
  LET Runs(r) == [k \in DOMAIN r |-> <<r[k].source - t.source, r[k].bytes>>] IN
  CoversOnce(Runs(DmaRequests(t)), Shifted(SourceSegments(t), t.source), SourceGrain(t))
WrittenOnce(t, written) ==
  CoversOnce([k \in DOMAIN written |-> <<written[k][1] - t.target, written[k][2]>>],
             Shifted(TargetSegments(t), t.target), TargetUnit(t))

\* What is back where it came from when every command has retired
AtRest(d) ==
  /\ \A queue \in {d.pending, d.generation, d.generated, d.input, d.current, d.bus, d.commands, d.beats, d.egress, d.adapter,
                    d.packets, d.outputs, d.transport, d.service, d.acks, d.order[0], d.order[1]} : queue = <<>>
  /\ DOMAIN d.records = {} /\ DOMAIN d.requests = {} /\ d.occupancy = [c \in {0, 1} |-> 0] /\ d.outstanding = 0
  /\ d.progress = NoProgress /\ (d.tags + 1 - d.fresh) + Len(d.free) + (IF d.reserved = 0 THEN 0 ELSE 1) = d.tags

\* The requests of a transfer read what the copy reads, once.  A command is
\* complete when the packets written are what the copy writes, once, however
\* its requests were answered; that is never before its tail was seen, nor does
\* a command in order find another's data half put together.  Every command
\* retires, and then every tag, place and count is back.
\* (uop.rs:133-629, biu_read.rs:217-379, returns.rs:269-645, write.rs:120-313,
\* mte2/pipeline.rs:505-628)
ReadsExact ==
  /\ dma.failure = ""
  /\ \A k \in DOMAIN dma.pending :
       LET c == dma.pending[k]
           t == Transfer(dma, c.id)
       IN  /\ c.issue = dma.tick => RequestedOnce(t)
           /\ c.done = dma.tick => WrittenOnce(t, dma.written[c.id])
  /\ Len(dma.retired) = Len(dma.transfers) => AtRest(dma)
  /\ dma.tick = MaxDmaTick => Len(dma.retired) = Len(dma.transfers)
=============================================================================
