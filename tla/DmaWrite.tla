------------------------------ MODULE DmaWrite ------------------------------
(***************************************************************************)
(* Transfers to external memory, tick by tick: the commands of MTE3, the   *)
(* write side of the bus interface with its tags, the reads of the unified *)
(* buffer that the bus asks for with a DBID, and the retirement on the     *)
(* response to the last data.  Generator and tags work as in DmaRead.      *)
(*                                                                         *)
(* An output is a record as in DmaPlan, of kind "out" (MOV_UB_TO_OUT, in   *)
(* blocks or, bytewise, in bytes), "pad" (MOV_PAD) or "notify" (a          *)
(* cross-core flag, which only keeps its place among the others); word     *)
(* chooses the width of a request and busWord that of a bus command.       *)
(* Memory has two regions with latencies of their own; that it may refuse  *)
(* for want of credits is in MemoryBus.                                    *)
(***************************************************************************)
EXTENDS DmaRead

CONSTANTS
  OutPrograms,   \* [period, tags, limit, outputs, boundary, latency]: as in DmaPrograms, the
                 \* address where L2 begins, per region the ticks to [dbid, completion]
  MaxOutTick     \* the bound on time
ASSUME OutAssumption ==
  /\ MaxOutTick \in Nat
  /\ \A p \in OutPrograms : p.tags > 0 /\ p.limit > 0 /\ p.period > 0 /\ \A r \in {"ddr", "l2"} : p.latency[r] \in [{"dbid", "completion"} -> Nat]

VARIABLE dmaOut
outVars == <<dmaOut>>

QueuedCommands == 3
OutstandingLimit == 31
QueueTicks == 3
UbReadDepth == 5
UbReadTicks == 4
UbAckTicks == 3
GatherBytes == 64
ReturnKinds == <<"dbid", "completion">>

-----------------------------------------------------------------------------
(* Requests *)

OutputBurst(t) == t.length * (IF t.kind = "pad" \/ t.bytewise THEN 1 ELSE DmaBlock)
OutputSourceStride(t) == RoundUp(OutputBurst(t)) + (t.sourceGap * DmaBlock)
OutputTargetStride(t) == OutputBurst(t) + (t.targetGap * (IF t.kind = "pad" THEN 1 ELSE DmaBlock))

\* mte3_request_stream, and mov_pad_uops for outputs: bursts without gaps are
\* one, and so are bursts of 64 bytes that only the source spreads
OutputGeometry(t) ==
  LET batch  == t.sourceGap = 0 /\ t.targetGap = 0 /\ OutputBurst(t) % DmaBlock = 0
      gather == /\ t.source % DmaBlock = 0 /\ t.target % GatherBytes = 0
                /\ t.sourceGap # 0 /\ t.targetGap = 0 /\ t.count > 1
                /\ t.length = (IF t.kind = "pad" THEN GatherBytes ELSE 2)
      whole  == batch \/ gather
  IN  [gather |-> gather, bursts |-> IF NothingToMove(t) THEN 0 ELSE IF whole THEN 1 ELSE t.count,
       bytes  |-> OutputBurst(t) * (IF whole THEN t.count ELSE 1)]
OutputRequests(t) ==
  LET g == OutputGeometry(t)
      Burst(b) ==
        LET target == t.target + (b * OutputTargetStride(t)) IN
        CutRun(t.source + (b * OutputSourceStride(t)), target, RequestCuts(ModeOf(t.word), target, g.bytes))
  IN  IF t.kind = "notify" THEN <<>> ELSE MarkLast(FlattenSeq([b \in 1..g.bursts |-> Burst(b - 1)]))

\* SourcePackets::new: what is read from the unified buffer for a piece.  That
\* of a gather goes on from offset; its address has the bursts before it already.
SourcePackets(t, piece, offset) ==
  LET aligned == (piece.source \div DmaBlock) * DmaBlock
      width   == Bandwidths.vector
      bytes   == piece.bytes + piece.source - aligned
  IN  IF OutputGeometry(t).gather
        THEN [k \in 1..(piece.bytes \div GatherBytes) |->
                <<piece.source + offset + ((k - 1) * OutputSourceStride(t)), GatherBytes>>]
        ELSE [k \in 1..Ceil(bytes, width) |-> <<aligned + ((k - 1) * width), LesserOf(width, bytes - ((k - 1) * width))>>]

-----------------------------------------------------------------------------
(* State *)

OutStart(p) ==
  [outputs |-> p.outputs, period |-> p.period, tags |-> p.tags, limit |-> p.limit, boundary |-> p.boundary, latency |-> p.latency,
   tick |-> 0, failure |-> "",
   issued |-> 0, queued |-> <<>>, records |-> <<>>, retired |-> <<>>, selected |-> "None",
   generation |-> <<>>, generated |-> <<>>, slot |-> <<>>,
   input |-> <<>>, current |-> <<>>, fresh |-> 1, free |-> <<>>, reserved |-> 0, requests |-> <<>>,
   sending |-> <<>>, pieces |-> <<>>, commands |-> <<>>, dataPort |-> <<>>, busData |-> <<>>, outstanding |-> 0,
   due |-> [k \in {"dbid", "completion"} |-> <<>>], returns |-> [k \in {"dbid", "completion"} |-> <<>>],
   upstream |-> [k \in {"dbid", "completion"} |-> <<>>],
   ingress |-> <<>>, packets |-> <<>>, gatherOffset |-> 0, egress |-> <<>>, dataReady |-> <<>>,
   ubInput |-> <<>>, transport |-> <<>>, service |-> <<>>, ubAcks |-> <<>>,
   written |-> [id \in DOMAIN p.outputs |-> <<>>]]

OutputOf(d, id) == d.outputs[id]
Record(d, id) == CHOOSE k \in DOMAIN d.records : d.records[k].id = id
Phased(d, tag, from, to) ==
  IF tag \notin DOMAIN d.pieces \/ d.pieces[tag].phase # from THEN DmaFailed(d, "Unexpected" \o to) ELSE [d EXCEPT !.pieces[tag].phase = to]

-----------------------------------------------------------------------------
(* Memory and the returns of the bus (timed_memory.rs, biu_write.rs) *)

\* A response is ready a tick after the memory, which took the request up a
\* tick after it was sent, has prepared it
Respond(d, kind, tag) ==
  LET region == IF d.pieces[tag].target >= d.boundary THEN "l2" ELSE "ddr"
      ready  == d.tick + 2 + d.latency[region][kind]
  IN  [d EXCEPT !.due[kind] = SelectSeq(@, LAMBDA r : r.ready <= ready) \o <<[tag |-> tag, ready |-> ready]>>
                              \o SelectSeq(@, LAMBDA r : r.ready > ready)]

\* advance_biu_bus_returns and C220BiuBusWrites::advance
ReceiveReturns(d, kind) ==
  LET n == LesserOf(Len(SelectSeq(d.due[kind], LAMBDA r : r.ready <= d.tick)), ReturnDepth - Len(d.returns[kind])) IN
  [d EXCEPT !.due[kind] = SubSeq(@, n + 1, Len(@)),
            !.returns[kind] = @ \o [k \in 1..n |-> [d.due[kind][k] EXCEPT !.ready = d.tick + 1]]]
AdvanceWriteReturn(d, kind) ==
  IF ~Due(d.returns[kind], d.tick) \/ Len(d.upstream[kind]) >= UpstreamDepth THEN d
  ELSE [d EXCEPT !.returns[kind] = Tail(@), !.upstream[kind] = Append(@, [Head(d.returns[kind]) EXCEPT !.ready = d.tick + 1]),
                 !.outstanding = IF kind = "completion" THEN @ - 1 ELSE @]

\* deliver_biu_write_dbid
TakeDbid(d) ==
  LET tag == Head(d.upstream["dbid"]).tag IN
  IF ~Due(d.upstream["dbid"], d.tick) THEN d
  ELSE [Phased(d, tag, "Delivered", "Dbid") EXCEPT !.upstream["dbid"] = Tail(@), !.ingress = Append(@, [tag |-> tag, ready |-> d.tick + 1])]

\* deliver_biu_write_response: the piece that ends its command ends it now; the
\* command must have been handed over and still be open
TakeCompletion(d) ==
  LET tag   == Head(d.upstream["completion"]).tag
      piece == d.pieces[tag]
      k     == Record(d, piece.id)
      freed == [Phased(d, tag, "Data", "Response") EXCEPT
                  !.upstream["completion"] = Tail(@), !.pieces = [e \in DOMAIN @ \ {tag} |-> @[e]], !.free = Append(@, tag),
                  !.written[piece.id] = Append(@, <<piece.target, piece.bytes>>)]
  IN  IF ~Due(d.upstream["completion"], d.tick) THEN d
      ELSE IF ~piece.last THEN freed
      ELSE IF ~\E j \in DOMAIN d.records : d.records[j].id = piece.id /\ d.records[j].tail /\ d.records[j].done = -1
        THEN DmaFailed(d, "UnexpectedBiuRetirement")
      ELSE [freed EXCEPT !.records[k].done = d.tick]

-----------------------------------------------------------------------------
(* Sources (biu_write.rs, ub_read.rs) *)

\* begin_source: the source of a command that starts last ends the command,
\* once all were sent
BeginSource(d, tag) ==
  LET piece   == d.pieces[tag]
      id      == piece.id
      ends    == EndsCommand(d.requests, id)
      packets == SourcePackets(OutputOf(d, id), piece, d.gatherOffset)
      begun   == Phased(d, tag, "Dbid", "Started")
  IN  [begun EXCEPT
         !.requests = IF ends THEN [e \in DOMAIN @ \ {id} |-> @[e]] ELSE [@ EXCEPT ![id].remaining = @ - 1],
         !.pieces[tag].last = ends, !.pieces[tag].left = Len(packets), !.packets = packets,
         !.gatherOffset = IF ~OutputGeometry(OutputOf(d, id)).gather THEN @
                          ELSE IF ends THEN 0 ELSE @ + (Len(packets) * OutputSourceStride(OutputOf(d, id)))]

\* A packet a tick; a source whose packets are all out waits for its answers
SourceIngress(d) ==
  LET tag    == Head(d.ingress).tag
      begun  == IF d.packets = <<>> THEN BeginSource(d, tag) ELSE d
      pushed == IF begun.packets = <<>> \/ Len(begun.ubInput) >= UbReadDepth THEN begun
                ELSE [begun EXCEPT !.packets = Tail(@),
                                   !.ubInput = Append(@, [tag |-> tag, read |-> Head(begun.packets), ready |-> d.tick + UbReadTicks])]
  IN  IF ~Due(d.ingress, d.tick) THEN d
      ELSE IF pushed.packets # <<>> THEN pushed
      ELSE [pushed EXCEPT !.ingress = Tail(@), !.egress = Append(@, [tag |-> tag, ready |-> d.tick + 1])]
SourceEgress(d) ==
  LET tag == Head(d.egress).tag
      polled == [d EXCEPT !.ubAcks = Tail(@), !.pieces[tag].left = @ - 1, !.pieces[tag].reads = Append(@, Head(d.ubAcks).read)]
  IN  IF ~Due(d.egress, d.tick) \/ ~Due(d.ubAcks, d.tick) \/ Head(d.ubAcks).tag # tag THEN d
      ELSE IF polled.pieces[tag].left > 0 THEN polled
      ELSE [polled EXCEPT !.egress = Tail(@), !.dataReady = Append(@, [tag |-> tag, ready |-> d.tick + 1])]

\* send, receive_response of the reads
UbReadSend(d) ==
  IF ~Due(d.ubInput, d.tick) \/ Len(d.transport) >= TransportDepth THEN d
  ELSE [d EXCEPT !.ubInput = Tail(@), !.transport = Append(@, [Head(d.ubInput) EXCEPT !.ready = d.tick + 1])]
UbReadResponse(d) ==
  IF ~Due(d.service, d.tick) THEN d
  ELSE [d EXCEPT !.service = Tail(@), !.ubAcks = Append(@, [Head(d.service) EXCEPT !.ready = d.tick + UbAckTicks])]

-----------------------------------------------------------------------------
(* Commands (mte3/frontend.rs) *)

IssueOutput(d) ==
  LET id == d.issued + 1 IN
  IF id \notin DOMAIN d.outputs \/ Len(d.queued) >= QueuedCommands \/ Len(d.records) >= OutstandingLimit THEN d
  ELSE [d EXCEPT !.issued = id, !.queued = Append(@, [id |-> id, ready |-> d.tick + QueueTicks]),
                 !.records = Append(@, [id |-> id, issue |-> d.tick, ready |-> -1, tail |-> FALSE, done |-> -1])]

\* Dispatch: a flag, and the command after one, wait until the generator has
\* nothing left; what has nothing to write is done at once
DispatchOutput(d) ==
  LET id       == Head(d.queued).id
      flag     == OutputOf(d, id).kind = "notify"
      requests == OutputRequests(OutputOf(d, id))
      disabled == requests = <<>> /\ ~flag
      generator == IF flag THEN "Load3d" ELSE "Dma"
      idle     == d.generation = <<>> /\ d.generated = <<>>
      waits    == /\ ~disabled
                  /\ ((flag \/ d.selected # generator) /\ ~idle) \/ (~flag /\ ~CanIssueDma(d))
      none     == disabled \/ flag
  IN  IF ~Due(d.queued, d.tick) \/ waits THEN d
      ELSE [d EXCEPT !.queued = Tail(@), !.selected = IF disabled THEN @ ELSE generator,
                     !.records[Record(d, id)] = [@ EXCEPT !.ready = d.tick + 1, !.tail = none, !.done = IF none THEN d.tick ELSE -1],
                     !.generation = IF none THEN @ ELSE <<[id |-> id, ready |-> d.tick + CommandTicks, requests |-> requests]>>]

FillSlot(d) ==
  IF ~Due(d.generated, d.tick) \/ d.slot # <<>> THEN d ELSE [d EXCEPT !.generated = Tail(@), !.slot = <<Head(d.generated)>>]

\* retire: the oldest command, one a tick
RetireOutput(d) ==
  LET r == Head(d.records) IN
  IF d.records = <<>> \/ r.ready = -1 \/ r.ready > d.tick \/ ~r.tail \/ r.done = -1 THEN d
  ELSE [d EXCEPT !.records = Tail(@), !.retired = Append(@, r.id)]

-----------------------------------------------------------------------------
(* Bus commands and data (biu_write/command.rs, biu_write/data.rs) *)

\* advance_biu_write_commands: the command whose tail this takes is handed over
PushWrite(d) ==
  LET r == Head(d.slot) IN
  IF d.slot = <<>> \/ Len(d.input) >= InputDepth THEN d
  ELSE [d EXCEPT !.slot = <<>>, !.input = Append(@, [r EXCEPT !.ready = d.tick + InputTicks]),
                 !.records[Record(d, r.id)].tail = @ \/ r.last]
ArbitrateWrite(d) ==
  LET r    == Head(d.input)
      left == FoldLeft(LAMBDA n, c : n + Len(c.pieces), 0, d.current)
      pieces == PiecesAt(ModeOf(OutputOf(d, r.id).busWord), r.target, r)
  IN  IF left > 1 \/ ~Due(d.input, d.tick) THEN d
      ELSE [d EXCEPT !.input = Tail(@), !.current = Append(@, [id |-> r.id, ready |-> d.tick + 1, pieces |-> pieces])]
SendWriteCommand(d) ==
  LET t     == ReserveTag(d)
      head  == Head(t.current)
      tag   == t.reserved
      piece == Head(head.pieces) @@ [id |-> head.id, phase |-> "Sent", left |-> 0, reads |-> <<>>]
      earlier == IF head.id \in DOMAIN t.requests THEN t.requests[head.id].remaining ELSE 0
  IN  IF ~Due(d.current, d.tick) THEN d
      ELSE IF tag = 0 \/ Len(t.sending) >= BusDepth THEN t
      ELSE [t EXCEPT !.reserved = 0, !.current = IF Len(head.pieces) = 1 THEN Tail(@) ELSE [@ EXCEPT ![1].pieces = Tail(@)],
                     !.pieces = (tag :> piece) @@ @, !.sending = Append(@, [tag |-> tag, ready |-> t.tick + 1]),
                     !.requests = (head.id :> [remaining |-> earlier + 1, tailSent |-> piece.last]) @@ @]
SendData(d) ==
  IF ~Due(d.dataReady, d.tick) \/ Len(d.dataPort) >= BusDepth THEN d
  ELSE [d EXCEPT !.dataReady = Tail(@), !.dataPort = Append(@, [Head(d.dataReady) EXCEPT !.ready = d.tick + 1])]

\* advance_biu_bus_inputs
AdmitWrite(d) ==
  LET tag == Head(d.sending).tag IN
  IF ~Due(d.sending, d.tick) \/ d.outstanding >= d.limit THEN d
  ELSE [Phased(d, tag, "Sent", "Delivered") EXCEPT !.sending = Tail(@), !.commands = Append(@, [tag |-> tag, ready |-> d.tick + 1])]
AdmitData(d) ==
  LET tag == Head(d.dataPort).tag IN
  IF ~Due(d.dataPort, d.tick) THEN d
  ELSE [Phased(d, tag, "Started", "Data") EXCEPT !.dataPort = Tail(@), !.busData = Append(@, [tag |-> tag, ready |-> d.tick + 1])]
TakeCommand(d) ==
  IF ~Due(d.commands, d.tick) THEN d
  ELSE [Respond(d, "dbid", Head(d.commands).tag) EXCEPT !.commands = Tail(@), !.outstanding = @ + 1]
TakeData(d) ==
  IF ~Due(d.busData, d.tick) THEN d ELSE [Respond(d, "completion", Head(d.busData).tag) EXCEPT !.busData = Tail(@)]

-----------------------------------------------------------------------------
(* A tick *)

Both(d, Step(_, _)) == FoldLeft(Step, d, ReturnKinds)
OutStep(d) ==
  LET returned  == TakeCompletion(TakeDbid(Both(Both([d EXCEPT !.tick = @ + 1], ReceiveReturns), AdvanceWriteReturn)))
      called    == UbReadSend(GenerateRequest(FillSlot(DispatchOutput(IssueOutput(SourceEgress(SourceIngress(returned)))))))
      commanded == SendData(SendWriteCommand(ArbitrateWrite(PushWrite(called))))
      taken     == TakeData(TakeCommand(AdmitData(AdmitWrite(commanded))))
  IN  RetireOutput(TakeWrite(UbReadResponse(taken)))

OutInit == \E p \in OutPrograms : dmaOut = OutStart(p)
OutNext ==
  /\ dmaOut.tick < MaxOutTick /\ dmaOut.failure = "" /\ Len(dmaOut.retired) < Len(dmaOut.outputs)
  /\ dmaOut' = OutStep(dmaOut)

-----------------------------------------------------------------------------
(* Properties *)

SideRuns(seq, side, base) == [k \in DOMAIN seq |-> <<seq[k][side] - base, seq[k].bytes>>]
OutputSegments(t, stride) == {<<b * stride, OutputBurst(t)>> : b \in 0..(IF NothingToMove(t) THEN 0 ELSE t.count) - 1}
OutputRequestedOnce(t) ==
  LET r == OutputRequests(t) IN
  /\ CoversOnce(SideRuns(r, "target", t.target), OutputSegments(t, OutputTargetStride(t)), 1)
  /\ OutputGeometry(t).gather \/ CoversOnce(SideRuns(r, "source", t.source), OutputSegments(t, OutputSourceStride(t)), 1)
OutputWrittenOnce(t, written) ==
  CoversOnce([k \in DOMAIN written |-> <<written[k][1] - t.target, written[k][2]>>], OutputSegments(t, OutputTargetStride(t)), 1)

\* Nothing of a command is left before the bus
HandedOver(d, id) ==
  /\ \A r \in {d.generation, d.generated, d.slot, d.input, d.current} : \A k \in DOMAIN r : r[k].id # id
  /\ \A tag \in DOMAIN d.pieces : d.pieces[tag].id = id => d.pieces[tag].phase \in {"Started", "Data"}
Ended(d) ==
  {d.retired[k] : k \in DOMAIN d.retired} \cup {r.id : r \in {d.records[k] : k \in {j \in DOMAIN d.records : d.records[j].done # -1}}}
\* Data are answered in the order they are sent
UniformResponses(d) == d.latency["ddr"].completion = d.latency["l2"].completion
OutputAnswered(d, id) == OutputOf(d, id).kind = "notify" \/ OutputWrittenOnce(OutputOf(d, id), d.written[id])

OutAtRest(d) ==
  /\ \A queue \in {d.queued, d.records, d.generation, d.generated, d.slot, d.input, d.current, d.sending, d.commands, d.dataPort,
                    d.busData, d.ingress, d.packets, d.egress, d.dataReady, d.ubInput, d.transport, d.service, d.ubAcks}
                   \cup {q[k] : q \in {d.due, d.returns, d.upstream}, k \in {"dbid", "completion"}} : queue = <<>>
  /\ DOMAIN d.pieces = {} /\ DOMAIN d.requests = {} /\ d.outstanding = 0 /\ d.gatherOffset = 0
  /\ (d.tags + 1 - d.fresh) + Len(d.free) + (IF d.reserved = 0 THEN 0 ELSE 1) = d.tags

\* The requests of an output write what the copy writes, once, and read what it
\* reads, and the data of a piece are sent when all blocks under it were read.  A
\* command ends when, in whatever order the bus granted its pieces, nothing of
\* it is still to be sent; where responses come in the order of the data, all it
\* writes is answered then, and so is all that comes before a flag that retires.
\* Every command retires, and then every tag, place and count is back.
\* (uop.rs:375-536, mte3/frontend.rs:300-580, biu_write.rs:49-289,
\* biu_write/command.rs:217-374, pipeline/write.rs:98-268)
WritesExact ==
  /\ dmaOut.failure = ""
  /\ \A k \in DOMAIN dmaOut.records :
       LET r == dmaOut.records[k] IN
       r.issue = dmaOut.tick /\ OutputOf(dmaOut, r.id).kind # "notify" => OutputRequestedOnce(OutputOf(dmaOut, r.id))
  /\ \A id \in Ended(dmaOut) : HandedOver(dmaOut, id) /\ (UniformResponses(dmaOut) => OutputAnswered(dmaOut, id))
  /\ \A tag \in DOMAIN dmaOut.pieces :
       LET p == dmaOut.pieces[tag] IN
       p.phase = "Data" /\ ~OutputGeometry(OutputOf(dmaOut, p.id)).gather =>
         Covered({p.reads[k] : k \in DOMAIN p.reads}, DmaBlock) = Covered({<<p.source, p.bytes>>}, DmaBlock)
  /\ Len(dmaOut.retired) = Len(dmaOut.outputs) /\ UniformResponses(dmaOut) => OutAtRest(dmaOut)
  /\ dmaOut.tick = MaxOutTick => Len(dmaOut.retired) = Len(dmaOut.outputs)
=============================================================================
