------------------------------ MODULE FixEngine ------------------------------
(***************************************************************************)
(* The FIX unit (C220FixpRuntime with its C220FixpEngine): the commands,   *)
(* and the stages between the L0C read port and the write interfaces:      *)
(*                                                                         *)
(*   GenerateRead SendRead SendL0c ReceiveL0c Convert Slice Transpose      *)
(*   Align Packetize GenerateWrite SendWrite                               *)
(*                                                                         *)
(* Operators act on a record s whose fields include                        *)
(*   fix   the state of the unit,                                          *)
(*   l0c   the accumulator buffer (module L0cBuffer),                      *)
(*   data  what every fragment of L0C holds.                               *)
(* What happens behind the write interfaces (the bus, L1, the factor read  *)
(* port) is left to the module that composes this one: it answers the      *)
(* packets in fix.bus, fix.l1 and fix.factors.                             *)
(***************************************************************************)
EXTENDS FixPlan, L0cBuffer

CONSTANTS
  FifoDepth,      \* instruction_fifo_depth
  TotalSlots,     \* slots of the transpose buffer
  StoreLimit,     \* write_outstanding_limit
  BusCapacity     \* commands the write bus takes from the cube subcore

ASSUME FixAssumption ==
  /\ FifoDepth \in Nat \ {0} /\ TotalSlots \in Nat \ {0} /\ StoreLimit \in Nat \ {0} /\ BusCapacity \in Nat \ {0}

Empty == <<>>
FixInit ==
  [commands |-> Empty, fifo |-> <<>>, writesRetire |-> <<>>, retire |-> <<>>, done |-> Empty, lastRetire |-> -1,
   generated |-> <<>>, dispatch |-> <<>>, conversion |-> <<>>,
   slots |-> [j \in 0..(TotalSlots - 1) |-> [rows |-> 0, occupied |-> FALSE, ends |-> FALSE]],
   in |-> 0, out |-> 0, half |-> 0, notified |-> -1,
   planned |-> <<>>, alignment |-> <<>>, bursts |-> <<>>, packets |-> <<>>, writes |-> <<>>,
   stores |-> {}, sequence |-> 0, bus |-> {}, l1 |-> <<>>, factors |-> <<>>,
   nextRequest |-> 0, snapshot |-> Empty, results |-> {}, error |-> {}]

Failed(s, why) == [s EXCEPT !.fix.error = @ \cup {why}]
External(c) == c.target = "OUT" \/ c.nd    \* the commands with operands: all but columns to L1
StoresBelowLimit(f) == Cardinality(f.stores) < StoreLimit

-----------------------------------------------------------------------------
(* Admission *)

\* C220FixpResourceKey: commands in flight share destination and conversion.
ResourceKey(c) == <<c.target, c.mode>>

ResourceConflict(f, c) ==
  /\ ~Disabled(c) /\ f.writesRetire # <<>>
  /\ LET last == f.commands[f.writesRetire[Len(f.writesRetire)]].command
     IN  ResourceKey(last) # ResourceKey(c)
Backpressure(f) == f.generated # <<>> \/ Len(f.fifo) >= FifoDepth

\* record_command
RecordCommand(s, c, tick) ==
  [s EXCEPT !.fix.commands = (c.id :> [command |-> c, executed |-> -1, dispatched |-> -1]) @@ @,
            !.fix.writesRetire = Append(@, c.id), !.fix.retire = Append(@, c.id),
            !.fix.done = IF Disabled(c) THEN (c.id :> tick) @@ @ ELSE @,
            !.fix.fifo = IF Disabled(c) THEN @ ELSE Append(@, c.id)]

\* dispatch_external_fixp_at: request ids start again when the unit is idle.
FixQueuesIdle(f, l) ==
  /\ f.generated = <<>> /\ f.dispatch = <<>> /\ L0cReadIdle(l) /\ f.conversion = <<>>
  /\ f.packets = <<>> /\ f.writes = <<>> /\ f.bursts = <<>>
  /\ \A j \in DOMAIN f.slots : ~f.slots[j].occupied
  /\ f.planned = <<>> /\ f.alignment = <<>>
FixIdle(s) == s.fix.retire = <<>> /\ FixQueuesIdle(s.fix, s.l0c)

\* admit_routed: whether the command is taken now, and how.
FixAdmits(s, c) == Disabled(c) \/ ~(ResourceConflict(s.fix, c) \/ Backpressure(s.fix))
FixAdmit(s, c, tick) ==
  LET first == IF FixIdle(s) THEN 0 ELSE s.fix.nextRequest
      reads == Reads(c)
      tagged == [j \in DOMAIN reads |-> reads[j] @@ [command |-> c.id, id |-> first + j - 1]]
      batch == [reads |-> tagged, ready |-> tick + 2]
      plan  == IF c.nd THEN NdWrites(c) ELSE <<>>
      begun == [s EXCEPT !.fix.generated = Append(@, batch),
                         !.fix.planned = IF plan = <<>> THEN @
                                         ELSE Append(@, [j \in DOMAIN plan |-> plan[j] @@ [command |-> c.id]]),
                         !.fix.nextRequest = first + Len(reads) + 1]
  IN  RecordCommand(IF Disabled(c) THEN s ELSE begun, c, tick)

\* admit_factor_batch, admit_control and admit_cross_core
FactorAdmits(s, c) == c.count = 0 \/ ~(s.fix.writesRetire # <<>> \/ Backpressure(s.fix))
FactorAdmit(s, c, tick) ==
  LET entry == [s EXCEPT !.fix.commands = (c.id :> [command |-> c, executed |-> -1, dispatched |-> -1]) @@ @,
                         !.fix.retire = Append(@, c.id)]
  IN  IF c.count = 0 THEN [entry EXCEPT !.fix.done = (c.id :> tick) @@ @]
      ELSE [entry EXCEPT !.fix.fifo = Append(@, c.id),
                         !.fix.packets = Append(@, [packet |-> [kind |-> "batch", command |-> c.id, left |-> c.count],
                                                    ready |-> tick + 1])]
ControlAdmit(s, c, tick) ==
  [s EXCEPT !.fix.commands = (c.id :> [command |-> c, executed |-> -1, dispatched |-> -1]) @@ @,
            !.fix.retire = Append(@, c.id), !.fix.done = (c.id :> tick) @@ @]

-----------------------------------------------------------------------------
(* C220FixpReadPipeline and the L0C read interface *)

GenerateRead(s, tick) ==
  LET batch == Head(s.fix.generated) IN
  IF s.fix.generated = <<>> \/ tick < batch.ready \/ Len(s.fix.dispatch) >= 7 THEN s
  ELSE [s EXCEPT !.fix.dispatch = Append(@, [read |-> Head(batch.reads), ready |-> tick + 3]),
                 !.fix.generated = IF Len(batch.reads) = 1 THEN Tail(@) ELSE [@ EXCEPT ![1].reads = Tail(@)]]

\* send_routed: the destination's stores, the interface, then the hardware
\* flags the command waits for.
SendRead(s, tick) ==
  LET r == Head(s.fix.dispatch).read
      c == s.fix.commands[r.command].command
      operation == [command |-> r.command, read |-> r,
                    request |-> ReadRequest(c, r.id, r.address, r.begins)]
  IN  IF \/ s.fix.dispatch = <<>> \/ tick < Head(s.fix.dispatch).ready
         \/ (External(c) /\ ~StoresBelowLimit(s.fix))
         \/ ~CanEnqueueRead(s.l0c)
         \/ tick < c.wait
      THEN s
      ELSE IF r.id \in ReadIds(s.l0c) THEN Failed(s, "DuplicateRequest")
      ELSE [s EXCEPT !.l0c = EnqueueRead(@, operation, tick), !.fix.dispatch = Tail(@)]

SendL0c(s, tick) == [s EXCEPT !.l0c = SendQueued(@, tick)]

\* receive_l0c and accept_read: a unit is copied when a read begins it; the
\* last read of the command executes it on the copies.
UnitFragments(r) == Fragments([address |-> r.address \div 256, length |-> 4])
CommandFragments(c) == UNION {UnitFragments(r) : r \in {q \in Range(Reads(c)) : q.begins}}
ReceiveL0c(s, tick) ==
  LET answer == ReceiveRead(s.l0c, tick)
      r      == answer.accepted[1].read
      c      == s.fix.commands[r.command].command
      copied == IF r.begins THEN [a \in UnitFragments(r) |-> s.data[a]] @@ s.fix.snapshot ELSE s.fix.snapshot
      taken  == [s EXCEPT !.l0c = answer.l, !.fix.snapshot = copied]
  IN  IF answer.accepted = <<>> THEN [s EXCEPT !.l0c = answer.l]
      ELSE IF r.command \notin DOMAIN s.fix.commands THEN Failed(s, "UnknownCommand")
      ELSE IF ~r.lastOne THEN taken
      ELSE [taken EXCEPT !.fix.commands[r.command].executed = tick,
                         !.fix.results = @ \cup {[command |-> c, moved |-> [a \in CommandFragments(c) |-> copied[a]]]}]

-----------------------------------------------------------------------------
(* C220FixpConversionPipeline *)

\* c220_fixp_conversion_ticks
ConversionTicks(mode) ==
  CASE mode \in {0, 1, 12, 13, 16} -> 4 [] mode \in {8, 9, 21, 22} -> 8 [] mode \in {10, 11} -> 7
    [] mode \in 23..26 -> 6 [] mode = 27 -> 3 [] OTHER -> 1

\* receive: the queue takes one more entry than the conversion has ticks; the
\* last read of a command sets its hardware flags first.
Convert(s, tick) ==
  LET op    == Head(s.l0c.acks).operation
      c     == s.fix.commands[op.command].command
      ready == tick + ConversionTicks(c.mode)
  IN  IF ~DeliverableRead(s.l0c, tick) \/ Len(s.fix.conversion) > ConversionTicks(c.mode) THEN s
      ELSE IF op.read.lastOne /\ tick < c.set THEN [s EXCEPT !.l0c = DeferRead(@, ready)]
      ELSE [s EXCEPT !.l0c = AcceptRead(@), !.fix.conversion = Append(@, [read |-> op.read, ready |-> ready])]

\* take_ready
Converted(f, tick, open) == open /\ f.conversion # <<>> /\ Head(f.conversion).ready <= tick

-----------------------------------------------------------------------------
(* C220FixpTransposeBuffer and C220FixpNz2ndStaging *)

Slot(f, offset) == (f.out + f.half + offset) % TotalSlots
\* ready_group: the slots of the next release, 0 while it is not complete, and
\* whether they end a group.
ReadyGroup(f) ==
  LET full(n) == \A o \in 0..(n - 1) : f.slots[Slot(f, o)].occupied
      ends == {n \in 1..4 : full(n) /\ f.slots[Slot(f, n - 1)].ends}
  IN  IF ends # {} THEN <<Min(ends), TRUE>> ELSE IF full(4) THEN <<4, FALSE>> ELSE <<0, FALSE>>
\* Faulty variant: a complete group does not wake the staging.
NotifyNever(f, tick) == f.notified

Notify(f, tick) == IF f.notified = -1 THEN tick ELSE Lesser(f.notified, tick)

\* push
Push(f, r) ==
  [f EXCEPT !.slots[f.in] = [rows |-> @.rows + (r.output \div 32), occupied |-> TRUE, ends |-> @.ends \/ r.endOfBurst],
            !.in = (@ + 1) % TotalSlots]

\* receive: a read that does not end a uop leaves the conversion and is merged.
TransposeReceive(s, tick) ==
  LET r      == Head(s.fix.conversion).read
      taken  == [s.fix EXCEPT !.conversion = Tail(@)]
      pushed == Push(taken, r)
  IN  IF ~Converted(s.fix, tick, ~r.lastInUop \/ ~s.fix.slots[s.fix.in].occupied) THEN s
      ELSE IF ~r.lastInUop THEN [s EXCEPT !.fix = taken]
      ELSE [s EXCEPT !.fix = IF ReadyGroup(pushed)[1] = 0 THEN pushed
                             ELSE [pushed EXCEPT !.notified = Notify(pushed, tick + 1)]]

\* release, when the destination is ready: one row of every slot of the group.
ReleaseRow(f) ==
  LET group == ReadyGroup(f)
      mine  == {Slot(f, o) : o \in 0..(group[1] - 1)}
      left  == [j \in DOMAIN f.slots |->
                  IF j \in mine THEN [f.slots[j] EXCEPT !.rows = @ - 1, !.occupied = @ /\ f.slots[j].rows # 1]
                  ELSE f.slots[j]]
      drained == \A j \in mine : ~left[j].occupied
  IN  IF ~group[2] /\ f.half # 4 THEN [f EXCEPT !.slots = left, !.half = 4]
      ELSE IF ~drained THEN [f EXCEPT !.slots = left, !.half = 0]
      ELSE [f EXCEPT !.slots = IF group[2] THEN [left EXCEPT ![Slot(f, group[1] - 1)].ends = FALSE] ELSE left,
                     !.out = (@ + f.half + group[1]) % TotalSlots, !.half = 0]

\* stage: every release takes the next planned write with it.
Transpose(s, tick) ==
  LET f == [s.fix EXCEPT !.notified = -1]
      plan == Head(f.planned)
      released == ReleaseRow(f)
      moved == [released EXCEPT
                  !.notified = IF ReadyGroup(released)[1] = 0 THEN -1 ELSE tick + 1,
                  !.planned = IF Len(plan) = 1 THEN Tail(@) ELSE [@ EXCEPT ![1] = Tail(@)],
                  !.alignment = Append(@, [write |-> Head(plan), ready |-> tick + 6])]
  IN  IF s.fix.notified = -1 \/ s.fix.notified > tick THEN s
      ELSE IF ReadyGroup(f)[1] = 0 THEN [s EXCEPT !.fix = f]
      ELSE IF f.planned = <<>> \/ Len(f.alignment) >= 7 THEN [s EXCEPT !.fix.notified = tick + 1]
      ELSE [s EXCEPT !.fix = moved]

-----------------------------------------------------------------------------
(* C220FixpExternalOutput *)

\* append: an open burst grows.
AppendBurst(f, b) ==
  IF f.bursts # <<>> /\ ~f.bursts[Len(f.bursts)].closed
    THEN [f EXCEPT !.bursts[Len(f.bursts)] = [@ EXCEPT !.bytes = @ + b.bytes, !.closed = b.closed, !.lastOne = b.lastOne]]
    ELSE [f EXCEPT !.bursts = Append(@, b)]
CanReceiveBurst(f) == Len(f.bursts) <= 2

\* receive_columns
ReceiveColumns(s, tick) ==
  LET r == Head(s.fix.conversion).read
      taken == [s.fix EXCEPT !.conversion = Tail(@)]
  IN  IF ~Converted(s.fix, tick, CanReceiveBurst(s.fix)) THEN s
      ELSE IF ~r.lastInUop THEN [s EXCEPT !.fix = taken]
      ELSE [s EXCEPT !.fix =
              AppendBurst(taken, [command |-> r.command, address |-> r.dest, bytes |-> r.output, closed |-> r.endOfBurst,
                                  lastOne |-> r.lastOne, gather |-> TRUE, row |-> 0, offset |-> 0,
                                  second |-> r.second, ready |-> tick + 1])]

\* slice: which of the two takes the head of the conversion.
SliceStage(s, tick) ==
  LET c == s.fix.commands[Head(s.fix.conversion).read.command].command IN
  IF s.fix.conversion = <<>> THEN s
  ELSE IF External(c) /\ c.nd THEN TransposeReceive(s, tick)
  ELSE IF External(c) /\ ~StoresBelowLimit(s.fix) THEN s
  ELSE ReceiveColumns(s, tick)

\* align and receive
Align(s, tick) ==
  LET w == Head(s.fix.alignment).write
      taken == [s.fix EXCEPT !.alignment = Tail(@)]
  IN  IF \/ ~StoresBelowLimit(s.fix) \/ s.fix.alignment = <<>> \/ ~CanReceiveBurst(s.fix)
         \/ Head(s.fix.alignment).ready > tick
      THEN s
      ELSE IF ~w.lastInUop THEN [s EXCEPT !.fix = taken]
      ELSE [s EXCEPT !.fix =
              AppendBurst(taken, [command |-> w.command, address |-> w.dest, bytes |-> w.bytes, closed |-> w.endOfBurst,
                                  lastOne |-> w.lastOne, gather |-> w.gather, row |-> w.burst, offset |-> 0,
                                  second |-> -1, ready |-> tick + 1])]

\* publish: a store token for a packet, and the packet in the write queue.
Store(s, p, tick) ==
  [s EXCEPT !.fix.sequence = @ + 1, !.fix.stores = @ \cup {s.fix.sequence + 1},
            !.fix.packets = Append(@, [packet |-> p @@ [token |-> s.fix.sequence + 1], ready |-> tick + 1])]

\* take_writes and packetize_external: rows with holes between them, or one
\* gathered range; the second channel goes first.
PacketizeExternal(s, tick) ==
  LET b == Head(s.fix.bursts)
      c == s.fix.commands[b.command].command
      stride == StorageBytes(c, c.destStride)
      address == b.address + b.offset
      bytes == IF b.gather THEN GatheredPacket(c.burst, address, b.bytes, b.closed)
               ELSE RowPacket(c.burst, address, b.row - b.offset)
      rowEnds == ~b.gather /\ b.offset + bytes = b.row
      rest == [b EXCEPT !.bytes = @ - bytes,
                        !.address = IF b.gather THEN @ + bytes ELSE IF rowEnds THEN @ + stride ELSE @,
                        !.offset = IF b.gather \/ rowEnds THEN 0 ELSE @ + bytes]
      finished == b.closed /\ rest.bytes = 0
      p == [kind |-> "out", command |-> b.command, address |-> address, bytes |-> bytes,
            lastOne |-> finished /\ b.lastOne]
      popped == [s EXCEPT !.fix.bursts = IF finished THEN Tail(@) ELSE [@ EXCEPT ![1] = rest]]
      second == IF b.second = -1 THEN popped
                ELSE Store(popped, [p EXCEPT !.address = @ + b.second, !.lastOne = FALSE], tick)
  IN  IF (b.gather /\ bytes = 0) \/ (~b.gather /\ b.offset >= b.row) THEN s ELSE Store(second, p, tick)

\* take_l1_write and packetize_l1_shared (take_write of C220FixpL1Output)
PacketizeL1(s, tick) ==
  LET b == Head(s.fix.bursts)
      bytes == Lesser(b.bytes, 256)
      finished == b.closed /\ b.bytes = bytes
      p == [kind |-> "l1", command |-> b.command, address |-> b.address, bytes |-> bytes, lastOne |-> finished /\ b.lastOne]
  IN  IF ~b.closed /\ b.bytes < 256 THEN s
      ELSE [s EXCEPT !.fix.bursts = IF finished THEN Tail(@) ELSE [@ EXCEPT ![1].bytes = @ - bytes, ![1].address = @ + bytes],
                     !.fix.packets = Append(@, [packet |-> p, ready |-> tick + 1])]

Packetize(s, tick) ==
  IF s.fix.bursts = <<>> \/ Head(s.fix.bursts).ready > tick THEN s
  ELSE IF External(s.fix.commands[Head(s.fix.bursts).command].command) THEN PacketizeExternal(s, tick)
  ELSE PacketizeL1(s, tick)

-----------------------------------------------------------------------------
(* C220FixpDispatchPipeline *)

\* generate_shared: a factor batch gives up one read at a time.
GenerateWrite(s, tick) ==
  LET p == Head(s.fix.packets).packet
      expanded == IF p.kind = "batch" THEN [kind |-> "factor", command |-> p.command, lastOne |-> p.left = 1] ELSE p
  IN  IF s.fix.packets = <<>> \/ Head(s.fix.packets).ready > tick \/ Len(s.fix.writes) >= 6 THEN s
      ELSE [s EXCEPT !.fix.writes = Append(@, [packet |-> expanded, ready |-> tick + 1]),
                     !.fix.packets = IF p.kind = "batch" /\ p.left > 1 THEN [@ EXCEPT ![1].packet.left = @ - 1] ELSE Tail(@)]

\* observe_write_dispatch: the last packet of a command leaves the fifo.
ObserveDispatch(s, p, tick) ==
  IF ~p.lastOne THEN s
  ELSE IF s.fix.fifo = <<>> \/ Head(s.fix.fifo) # p.command THEN Failed(s, "CommandOrder")
  ELSE IF p.command \notin DOMAIN s.fix.commands THEN Failed(s, "UnknownCommand")
  ELSE [s EXCEPT !.fix.fifo = Tail(@), !.fix.commands[p.command].dispatched = tick]

\* send_shared
SendWrite(s, tick) ==
  LET p == Head(s.fix.writes).packet
      sent == [s EXCEPT !.fix.writes = Tail(@),
                        !.fix.bus = IF p.kind = "out" THEN @ \cup {p} ELSE @,
                        !.fix.l1 = IF p.kind = "l1" THEN Append(@, p) ELSE @,
                        !.fix.factors = IF p.kind = "factor" THEN Append(@, p) ELSE @]
  IN  IF \/ s.fix.writes = <<>> \/ Head(s.fix.writes).ready > tick
         \/ (p.kind = "out" /\ Cardinality(s.fix.bus) >= BusCapacity)
      THEN s ELSE ObserveDispatch(sent, p, tick)

-----------------------------------------------------------------------------
(* Completion and retirement *)

\* complete_write_transport and complete_factor_transport
CompleteTransport(s, p, tick) ==
  IF ~p.lastOne THEN s
  ELSE IF p.command \notin DOMAIN s.fix.commands THEN Failed(s, "UnknownCommand")
  ELSE LET c == s.fix.commands[p.command] IN
       IF p.kind # "factor" /\ c.executed = -1 THEN Failed(s, "NotExecuted")
       ELSE IF c.dispatched = -1 THEN Failed(s, "NotDispatched")
       ELSE [s EXCEPT !.fix.done = @ @@ (p.command :> tick)]

\* retire_ready_write, retire_factor, retire_ready_control and
\* retire_ready_cross_core: one command a tick, in order, after the tick at
\* which it was done.
FixRetire(s, tick) ==
  LET id == Head(s.fix.retire)
      c  == s.fix.commands[id]
      isWrite == c.command.kind = "fix"
  IN  IF \/ s.fix.retire = <<>> \/ id \notin DOMAIN s.fix.done \/ s.fix.lastRetire >= tick
         \/ s.fix.done[id] >= tick
      THEN s
      ELSE IF isWrite /\ ~Disabled(c.command) /\ c.executed = -1 THEN Failed(s, "NotExecuted")
      ELSE IF isWrite /\ Head(s.fix.writesRetire) # id THEN Failed(s, "RetirementOrder")
      ELSE [s EXCEPT !.fix.retire = Tail(@), !.fix.lastRetire = tick,
                     !.fix.writesRetire = IF isWrite THEN Tail(@) ELSE @,
                     !.fix.commands = [e \in DOMAIN @ \ {id} |-> @[e]],
                     !.fix.done = [e \in DOMAIN @ \ {id} |-> @[e]]]

-----------------------------------------------------------------------------
(* The stages of one tick *)

Stages == <<"GenerateRead", "SendRead", "SendL0c", "ReceiveL0c", "Convert", "Slice", "Transpose", "Align",
            "Packetize", "GenerateWrite", "SendWrite">>

\* stage_ready_tick, probed before any stage runs
StageReady(s, stage, tick) ==
  LET due(q) == q # <<>> /\ Head(q).ready <= tick IN
  CASE stage = "GenerateRead" -> due(s.fix.generated) [] stage = "SendRead" -> due(s.fix.dispatch)
    [] stage = "SendL0c" -> due(s.l0c.input)          [] stage = "ReceiveL0c" -> s.l0c.pending # <<>>
    [] stage = "Convert" -> due(s.l0c.acks)           [] stage = "Slice" -> due(s.fix.conversion)
    [] stage = "Transpose" -> s.fix.notified # -1 /\ s.fix.notified <= tick
    [] stage = "Align" -> due(s.fix.alignment)        [] stage = "Packetize" -> due(s.fix.bursts)
    [] stage = "GenerateWrite" -> due(s.fix.packets)  [] stage = "SendWrite" -> due(s.fix.writes)

RunStage(s, stage, tick) ==
  CASE stage = "GenerateRead" -> GenerateRead(s, tick)   [] stage = "SendRead" -> SendRead(s, tick)
    [] stage = "SendL0c" -> SendL0c(s, tick)             [] stage = "ReceiveL0c" -> ReceiveL0c(s, tick)
    [] stage = "Convert" -> Convert(s, tick)             [] stage = "Slice" -> SliceStage(s, tick)
    [] stage = "Transpose" -> Transpose(s, tick)         [] stage = "Align" -> Align(s, tick)
    [] stage = "Packetize" -> Packetize(s, tick)         [] stage = "GenerateWrite" -> GenerateWrite(s, tick)
    [] stage = "SendWrite" -> SendWrite(s, tick)

\* handle_external_fixp over the stages in the order they were bound
FixTick(s, order, tick) ==
  LET ready == {j \in DOMAIN order : StageReady(s, order[j], tick)} IN
  FoldLeft(LAMBDA t, j : IF j \in ready THEN RunStage(t, order[j], tick) ELSE t, s, [j \in DOMAIN order |-> j])
=============================================================================
