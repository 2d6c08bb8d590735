# TLA+ models of the C220 core emulator

OpenAscendEmulator (`src/`) is a cycle-level emulator of an Ascend C220 core. A
scalar unit runs a program in order and hands instructions to six execution
pipes (Vector, Cube, MTE1, MTE2, MTE3, FIX) that run asynchronously, are
ordered only by flags and barriers, and share memories through arbiters and
bounded queues. The program is one Rust process without threads. Its
concurrency is that of the hardware it describes: engines are advanced tick by
tick, results arrive at other ticks than they were asked for, and what one
engine reads another may be about to change. This project models that control
(queues, counters, ids, replays, acknowledgements, retirement) and the plans that
drive it (how an instruction is split into uops, requests and writes). What
the instructions compute is abstracted to values that name their writer or the
bytes they are computed from.

## 1. Inventory

Sources are under `src/src/sim/c220/` unless noted.

| Component | Source | State | Operations | Hard part |
|---|---|---|---|---|
| Hardware flags | `sync.rs`, `sync/cube.rs`, `core/hflag.rs`, `mte/pipeline/sync.rs`, `mte/mte1/runtime.rs` | counters per (destination, memory, event), pending sets with timestamps, notification ticks, four Cube checkpoint queues, flags captured by MTE1 transfers | `schedule_event`, `consume_wait`, `advance_to`, Cube dispatch, gate, checkpoints, capture, resolution, retirement | shared notifications, wrapped timestamps, full counters, partial admission |
| Ordinary pipeline events | `sync/pipeline_events.rs` | ready and deferred events per route and flag id | `set`, `wait`, `retire` | an event deferred behind an instruction must be published by its retirement |
| Pipe frontends | `core/*_frontend.rs`, `core/*_issue.rs`, `*/frontend.rs`, engine runtimes | issue queue, command queue, running set, last accepted and received ids | accept, receive, dispatch, retire | one SPR write in two queues; outstanding limits; flags that overtake commands |
| Barriers | `core/*_barrier.rs`, `core/barrier.rs` | pending barriers with predecessor and `requires_idle` | issue, release | released only when something of the pipe changes |
| Termination, BAR.ALL, activity | `core/termination.rs`, `core/activity.rs`, `core/drain.rs` | `C220Termination` | begin, periodic check | nothing may be left behind |
| Device and cross-core flags | `sync/device_flags.rs`, `sync/cross_core.rs`, `core/cross_core.rs` | credits per flag, the blocked dispatch | set, deliver, wait, reset | a wait that sleeps beside its credit; counters at their limit |
| Scalar unit | `scalar/**` without the LSU, `src/src/sim/common/scalar/**` | registers, special registers, results in flight | dispatch, execute, retire | what a word waits for is a table beside what it does |
| LSU commit | `scalar/lsu/commit*`, `core/lsu/**` | owners of registers, split loads, ingress, notifications | dispatch, admit, complete, retire | answers out of order, superseded loads |
| LSU request pipeline | `scalar/lsu.rs` | admitted, issued, consumed counters, M0, M1, M2 | admit, issue, advance, replay | replay while younger requests are admitted |
| Scalar load/store unit | `scalar/lsu/**` | miss buffer, store buffer, direct stores, read and write queues, cache, eviction data, maintenance | one phase sequence per tick | lookup results used two ticks later; payload kept elsewhere than in the write queue |
| L1 memory | `memory/l1/**` | bank arbiter, service responses, bounded transport | request, grant, respond | priorities, full queues |
| Unified buffer | `vector/ub/**`, `memory/ub_*` | blocks in progress, ports, transports | request, grant, delay, respond | predicted completion under contention |
| Bus interface, timed memory | `memory/biu_*`, `memory/timed_memory.rs` | outstanding requests, credits, acknowledgements | request, grant, deliver, complete | limits, order of beats, ids used again |
| L0C | `memory/l0c*` | unit flags, write port, read banks | read, write, block | one flag between two engines |
| MTE1 engine and generators | `mte/mte1`, `mte/read`, `mte/set2d`, request plans of `mte/load2d`, `mte/load3d`, `mte/smask` | pending commands, selected generator, one command and a request queue per generator | issue, generate, send, observe, retire | separate generators feed one port; completion is a marker on one request |
| MTE L1 read and L0 write interfaces | `mte/interface/l1*.rs`, `output.rs`, `l0_write.rs` | three input ports, requests in flight, one output FIFO, retirement queue; three write ports and acknowledgements per L0 | push, arbitrate, send, respond, expand, write, acknowledge | a blocked output holds back every reader |
| Cube | `cube/**`, `core/cube.rs` | uop sequence, tickets, flights | plan, issue, release, retire | a ticket predicted at issue |
| FIX engine | `mte/fixp/**` | eleven stages between L0C and the write interfaces | read, convert, write, retire | two routes of different length into one queue |
| Vector pipeline | `vector/pipeline/**`, `vector/dispatch.rs`, `core/vector*` | front end queue, admitted uops, UB requests, deferred results | dispatch, admit, read, release, commit, retire | predictions of retirement; results written uop by uop |
| Vector operations | `vector/{ops,lanes,read,uop,repeat,mask,access}*` | none | plan, split, schedule, evaluate | one traffic computed in four places |
| C310 front end | `src/src/sim/c310/**` | rings of tickets, issue queues, predicate slots | get, release, push, issue | one ring for direct and queued requests |
| MTE write and bus interfaces | `mte/interface/{l1_write,ub_write,biu_read,write}*`, `mte/interface/biu_read/**` | request queues, reorder buffer, tags, write arbiter, acknowledgements | split, tag, return, reorder, align, write, acknowledge | answers out of order, one completion out of many packets |
| MTE2 and MTE3 engines | `mte/mte2`, `mte/mte3`, `mte/dma*`, `mte/l1_to_out` | pending transfers, the transfer being generated, retirement record | generate, observe, retire | the tail of a transfer, and what is still behind it |
| MTE pipeline composition | `mte/pipeline/**` | one clock for the events of all interfaces | `advance` | order of callbacks in a tick |
| Advance loop, issue clock, event queues | `core.rs`, `core/{dispatch,advance}*`, `schedule.rs`, `event*` | next event ticks | `advance_to` | order of engines in a tick |
| Decoders, images, numerics, byte memories | `src/src/isa`, `src/src/image`, numeric library, memories | none | pure | |

`PROJECT.json` lists each with its status. What makes them correct:

- *flags*: a set becomes visible once, in order, and nothing waits for a
  notification that will not come;
- *frontends and events*: an event a pipe waits for implies that everything
  older in the source pipe has retired, a barrier holds what follows it until
  what precedes it is done, and both are released in the end;
- *device flags*: one credit per notification, taken once, and no core sleeps
  beside a credit it waits for;
- *load/store unit*: a load returns the latest older store to its bytes, no
  completed store is lost on any path to memory, and every request completes;
- *scalar unit*: a program in time ends with what it computes one word after the
  other, and the dispatcher's tables agree with the executors;
- *memories and buses*: a request is answered once and to the one who asked, no
  bank is used twice in a tick, credits balance, and everything is answered;
- *MTE1 path*: reads stay in program order, a command is complete exactly when
  everything it writes has arrived, commands retire in order and all of them do;
- *MTE2 and MTE3 transfers*: each byte of the destination is written once, with the
  byte the instruction names, a retired transfer has been written, and a flag that
  retires behind outputs finds them answered;
- *Cube and FIX*: FIX moves the product it belongs to, the predicted ticket is the
  retirement that happens, and a retired command has written all it had to;
- *vector*: what is planned is admitted, asked of the memory, executed and written, and
  instructions that depend on each other see each other's results;
- *C310 front end*: tickets enter a buffer in order and by themselves, and a vector
  function finds what was pushed for it.

## 2. What is modelled

| Module | Models |
|---|---|
| `HardwareFlags` | the flag table with its clients Cube and MTE1 |
| `PipeFrontends` | six frontends, pipeline events, barriers, BAR.ALL, SPR dependencies, cross-core sends, termination |
| `DeviceFlags` | credits between cores, the blocked dispatch and its retry |
| `LsuPipeline`, `ScalarLsu` | the M0/M1/M2 request pipeline with replay; the load/store unit around it |
| `ScalarWords`, `ScalarMachine` | decoding of scalar and flow words; the functional machine |
| `ScalarIssue` | the scalar unit in time, with what leaves for the load/store unit; word by word, the dispatcher's tables against the executors |
| `L1Service`, `L1Memory` | what a client of the L1 memory may rely on (abstract); the memory, which implements it |
| `UbBlocks`, `UbMemory` | one cycle of the bank arbitration; the unified buffer with its vector, scalar and MTE ports |
| `MemoryBus` | the bus routes of a core and the timed memory behind them |
| `CommandService`, `MteReadPath` | what program order may rely on from an engine (abstract); MTE1 from issue to retirement, which implements it |
| `DmaPlan`, `DmaRead` | words, requests and pieces of an MTE2 transfer; its way over the bus into L1 or UB, tick by tick |
| `DmaWrite` | outputs of MTE3 with the flags between them: requests, grants, reads of UB, data, responses, tick by tick |
| `L0cBuffer` | the accumulator buffer: unit flags, write port, read port and banks |
| `CubePlan`, `CubeUnit` | uops and ticket of a matrix instruction; the cube pipeline |
| `FixPlan`, `FixEngine` | reads, writes and packets of a FIX command; the FIX unit |
| `MatrixOutput` | the cube and FIX around L0C, tick by tick |
| `VectorAccess`, `VectorOps`, `VectorPlan` | masks, tiles and write plans; every operation; uops, their reads, stores and execution |
| `VectorIssue`, `VectorPipeline` | one vector instruction from preview to last repeat; programs through the pipeline |
| `C310Buffers` | the front end of the second architecture, its words and the scalars of a vector function |
| `MC...` | constants, programs and compositions for TLC |
| `...Proofs` | theorems about the module of that name; `ScalarLsuDataProofs` continues `ScalarLsuProofs` |

`PROJECT.json` "map" gives the lines each definition translates; a helper whose lines
lie within those of a definition that uses it is not listed by itself. Two styles are
used. Where the code leaves an order open (callbacks, arrivals, choices of a
program) each handler is an action over variables. Where the code fixes the order
within a tick, the state is one record, each step is an operator from a record
to the next, and a tick is one action that composes them; what remains
nondeterministic (answers, arrivals) is chosen in that action. The second style
keeps the order of the code and has one state per tick.

### HardwareFlags and DeviceFlags

State and actions follow `C220HardwareFlagState`. Times are absolute ticks;
`AdvanceTo`, `Notify` and `AdvanceDone` are the call, one turn of its loop and its
return, and nothing else runs in between. `schedule_event` keeps a captured
timestamp and arms a single notification; the timestamp is the issue clock
modulo 2^32, here modulo `TickWrap`, and a wrapped zero means "none given".
A Cube set waits in one of three queues for the checkpoint of a younger MMAD;
queue 3 of the checkpoints is the retry queue of unit-flag synchronization. MTE1
flags wait for the next transfer to their memory, which takes waits before its
requests and admits its sets when it retires, each by itself, again and again
until none is refused. The order of calls within a tick is left open, so are
the moments at which transfers complete and FIX lets its triggered flags go.

Token conservation is stated per key: what was admitted under a key is pending, in its
counter, taken by a wait or counted as saturated.

`DeviceFlags` has cores that set and wait; the fabric between them is not in the
repository and delivers in any order. A wait that finds no credit blocks its
core's dispatch until any notification arrives, which then looks again. Flags of
256 and more are accepted by the sender and never delivered to a counter; a
credit beyond the limit is dropped with an error count. `sentTo`, `takenBy` and
`clearedOf` are history: per core and flag, the notifications sent to it, taken by it and
cleared by the host.

### PipeFrontends

One action per frontend operation; the six pipes share operators where their
code differs only in names, and differ where the code does: MTE1 keeps no
`last_received`, FIX releases barriers before reception and at the end of a tick,
Cube receives and dispatches in one call and completes control instructions
within it, Vector sends cross-core notifications from the scalar unit, an SPR
write through MTE1 also enters the MTE2 queue. Ticks are left out: a step may be
taken at any time after it is enabled, which includes the interleavings of
every latency configuration. `completed` and `drained` are history variables for
the barrier and drain properties.

### LsuPipeline and ScalarLsu

`LsuPipeline` is `C220LsuRequestPipeline` with hazards chosen freely: whatever the
caller blocks, a stage can be blocked at any evaluation. `ScalarLsu` runs one
tick as the phase sequence of `advance_lsu_at`, with `LsuPipeline`'s actions at
M2, M1 and M0. Memory answers, port acceptance and arrivals are choices within
their phase. A store writes its request number, so a value says which store it
comes from. Behaviours of the code that the model keeps although one might not
expect them:

- a maintenance write leaves its way valid with the tag of line 0, so a program that
  uses that line hits in it (`cache/data.rs:103-123`);
- the clean of one line compares the address in either memory, so a UB line of the same
  address may be found instead, and a clean that finds nothing dirty completes while an
  eviction of a line it covers is still under way;
- a load that an entry covers only in part takes the covered prefix, and a load
  that waits on a miss sees the line before the store entry is merged;
- ST_DEV fills the rest of its line with zero and bypasses the cache;
- a clean waits for the store buffer and for external writes, not for UB writes.

`raced` is a history variable: it becomes true when the tag lookup taken in M0
is used in M2, or by a store entry that waits for its timeout, after a refill has
changed the way it names, when a refill takes the way of a UB write, or when a direct
store is written a second time. The safety properties hold as long as that has not
happened; the run `lsu_stale_lookup` shows what happens when it has. An error
return sets `failure` and ends the behaviour, as it ends the simulation.

### The scalar unit

`ScalarMachine` is the functional machine with a smaller word: a register has
`Bits` bits (16 in the run, 64 in the code), bytes, halfwords, floats and
addresses shrink with it, and everything the code computes modulo 2^64 is computed
modulo 2^Bits. Float and conversion results are unknown functions of their
operands, the same in both executions, so that agreement cannot come from
them. `ScalarIssue` executes a program in time next to the sequential machine
(`ref`): at the end registers, special registers and memory must be equal, and
every program must have ended by `MaxScalarTick`. Behind the admission of a memory
request stands `ScalarLsu`, abstracted to "takes effect when admitted, answers
later in any order". Agreement is not claimed for four situations, in which the
code computes something else (`Strays`):

- `HalfSuperseded`: one register of a pair load has a newer writer when the answer
  comes; the whole load is then dropped;
- `BypassedHalf`: a split pair load in the mode DataBypass, whose first half
  zeroes the other register;
- `MovesUnderRequest`: the address mapping of a request is changed by a MOVE to
  SPR 67 or 68 between dispatch and admission;
- `OverwritesBase`: the base of a post-indexed atomic store has been written
  again before the store retires.

Its last section probes single words: the registers the dispatcher waits for and the one
it reserves are those the machine reads and writes, and one decoder takes the
word. The word of a compare-and-jump with the first register in one of four pairs is
taken by another decoder as well (section 4); `OneDecoder` exempts exactly those.
The arms of `ScalarMachine` for the architecture Dav3510 are there and not
exercised by a run.

### L1Service, L1Memory, UbMemory and MemoryBus

`L1Memory` has one action per callback of `memory/l1`: a client sends a request or
takes a response, the Read or the Write receiver examines the request queues, the
Read or the Write side forwards responses, and the clock ticks when no callback it
woke is left. Within a tick the callbacks come in any order, once each. Ages replace
absolute ticks: `due` for the transport latency of one tick, `wait` for what is left
of `response_ticks`. Of the arbiter everything is kept: bank masks with their
wrap-around and groups, the read tag cache with its tags that advance by the bank
width, the priority FIX write, MTE write, MTE read. So are three properties of the
code one might not expect: the first receiver of a tick also decides about requests
that have not arrived; a granted read enters the cache before it is accepted; the
stamp that tells this tick's decisions from older ones has 32 bits, so once `wide`
is true every examination arbitrates again. Requests are their accesses, ids are not
looked at by this component. `L1Service` is a queue per port; `InOrderService` says
that `L1Memory` implements it, with response transport, service and request
transport of a port read as one queue.

`UbMemory` runs the cycle of the vector ports and, after it, the scalar and MTE
ports, which take the banks that are left; a write that covers a block in part is
granted twice with a delay between. The vector write comes first in a tick, so
no other port takes a bank from it (section 4 on the comment at
`ub_arbiter.rs:112`).
`MemoryBus` is the read and the write route with their inputs, outstanding limits
and ids, and the timed memory with latency, pending limit and credits per pool.
A request is a tag with its owner, region and size; bytes stay with the clients.

### CommandService and MteReadPath

`MteReadPath` follows an MTE1 command from its issue to its retirement, one action
per callback. A command is its kind, destination, number of output blocks and
hardware flags; a physical read is the command's id and a running number, from
which `Request` derives what the request plans of the code attach to it: the
destination, whether the read completes an output and whether it carries the marker
of the instruction's end. `Parts` is the number of L1 accesses per logical read and
`Fragments` the number of writes per output. Sparse LOAD2D alternates weights and
indices and signals completion with its last weights, so its last index read is
still under way when the command retires, as `sparse.rs` tests.

All queues of the path make an entry visible a constant number of ticks after the
push and hand out one entry per tick. The model leaves the ticks out; a callback may
run whenever its queue has an entry. `written` is a history variable. The L1 memory
is `L1Service`, which `L1Memory` is shown to implement, with the requests that the
interface keeps in flight as its queue. A rejected request only moves the turn of
the arbiter (`RejectRequest`). Hardware flags are reduced to the moment at which a
token or credit for a command is there (`Signal`); `HardwareFlags` models the rest.
MTE2 masks, L1 output, FIX factor loads and external LOAD2D use the same interfaces;
their engines are sources that push the requests of their commands in order. The
number of reads that LOAD3Dv2 merges into a block varies with geometry in the code
and is a number per command here.

### DmaPlan, DmaRead and DmaWrite

`DmaPlan` takes the descriptor of a transfer (MOV_OUT_TO_UB, MOV_OUT_TO_L1 in its layouts,
MOV_PAD), computes its bursts and gaps, the requests the generator cuts it into, their
pieces after the split at the source alignment, and the packets made of what comes
back; `SourceSegments` and `TargetSegments` are what the instruction says, computed from
the descriptor alone. `DmaRead` runs MTE2 in the order of a tick of `mte/pipeline/read.rs`: engine
and generator, request queue and tags, commands and returns of the bus, reorder
buffer, alignment into packets, write arbiter, L1 or UB write, acknowledgement and
retirement. An L1 transfer of aligned bursts may be written out of order; everything
else waits in the reorder buffer until its turn. The memory answers after any latency of
`ReadLatencies`, so answers overtake each other; the L1 and UB behind the write
interface acknowledge after `WriteLatency`. `ReadsExact` asks that the requests of a transfer
read its source segments once, that the packets written when it completes cover its
target segments once, that it completes at all, and that tags, queues and counts are
then as before; bytes are their addresses. The programs are those for which the code
does what the word says; the exceptions are in section 4.

`DmaWrite` runs MTE3 with the generator and the tags of `DmaRead`. A command waits in the
frontend until the generator it needs is free; its requests are cut again by the bus
mode, each piece takes a tag and asks for a DBID; the DBID starts its source, which
reads UB a packet at a time (the blocks under the piece, or the bursts of a gather)
while the port has room and hands the data over when all packets have been answered; a
response frees the tag. The last source of a command to start marks its piece last, by
the same count of requests as in `DmaRead`, and the response to that piece retires the
command. Cross-core flags pass the frontend between outputs. Each of two regions of
memory answers with latencies of its own, so DBIDs and responses overtake each other;
credits of the memory are in `MemoryBus`. `WritesExact` asks that the requests write every byte
of the target once from the byte the word names, that the data of a piece are sent when
exactly the blocks under it have been read, that a command that has ended has nothing
left before the bus and, where responses come in the order of the data, is answered
in full, that everything retires, and that queues, tags and counts are then as
before. `TransfersExact` of the run is `ReadsExact` and `WritesExact`.

### Cube, FIX and L0C

`CubePlan` builds the uops of both planners and the ticket; `CubeUnit` issues,
releases and retires them; `FixPlan` builds the reads, writes and packets of a
FIX command, and `FixEngine` runs the eleven stages of a tick. `MatrixOutput`
advances both in the order of `advance_engines_to` around `L0cBuffer`. The content
of a fragment is the sequence of instructions accumulated in it, so `MovesItsResult`
can tell an old product, a partial one and the right one apart; nothing but the unit
flags orders the two units. FIX's own hardware flags are the tick from which they
are set. The world behind the write interfaces answers within `AnswerTicks`,
the bus in any order.

### The vector unit

The code computes the traffic of an instruction four times: when it plans it, when
it splits it into uops with their reads and stores, when it schedules redundant reads
away, and when it executes it. `VectorOps` gives for each kind of issue its
accesses, its plan and its evaluation, where a result is the set of operand bytes it
depends on; `VectorPlan` gives the other computations, and `VectorIssue` steps
through one instruction. `VectorPipeline` puts programs through the front end queue, the
pipeline and the unified buffer, tick by tick; a block contains the number of the
instruction that wrote it last. `PredictionsKept` follows the ticks that
`predicted_ticks` gives for writes, visibility and retirement, by which dispatch, drains and
retirement are scheduled, from tick to tick: none is due before the fact, a uop does
not leave before its ticks, and from the conflict check of a uop (for the retirement, of the last
uop of its instruction) they no longer change. Before the check they do, in both
directions (section 4). What the properties leave out, because the code
does otherwise (section 4): `TrafficCovered` does not ask for the descriptors of
a dequantisation, nor for sources whose strides 0 and 1 differ (`StridesDistinct`);
`ExecutedAsPlanned` does not ask the plan to have checked the addresses that the whole-tile
kinds read beyond their active blocks. Gather and Move read at addresses from
data and are treated apart.

### C310Buffers

A program of the front end issues GET, RELEASE, push and vector words against
rings of tickets, one issue queue per pipe and the predicate buffer; engines
behind the queues retire in any order across pipes. Programs bracket each use of a
buffer as the tests of the code do, and push between two vector functions.

### Composition

`MCScalarMatrix` holds seven kinds of behaviours, one per initial state, whose variables
are disjoint: the matrix units, a scalar program, a single word, the C310
front end, the device flags, MTE2 transfers and outputs; the kinds that are not on are at rest. `MCMemories`
holds three. Neither claims an interaction between the kinds. The compositions that
do interact are `MatrixOutput` (Cube, L0C, FIX), `MteReadPath` (MTE1, L1, L0),
`VectorPipeline` (vector, unified buffer), `DmaRead` (MTE2, bus, write interface), `DmaWrite` (MTE3, bus, UB reads),
`UbMemory`, `ScalarLsu` and `ScalarIssue`.

## 3. Runs

| Run | Instance | Distinct states | Shows |
|---|---|---|---|
| `flags` | two mixes of counters: Cube/FIX on three, MTE1/Cube on two; `AlmostFull` 1, `Capacity` 2, timestamps modulo 2, four ticks, four instructions, with fairness | 461,494 | counter bounds and types, no stranded set, token conservation, release order, retirement with flags; the loop of `advance_to` ends |
| `pipes` | four mixes of instructions, programs of five, queues of two and three | 1,525,385 | event and barrier order, nothing overlooked, drained pipes stay drained |
| `pipes_drain` | MTE3 and Vector up to END, with fairness | 216,926 | termination completes unless a wait has no set |
| `lsu` | four mixes, four requests, two ways, one entry per buffer | 1,955,153 | program order and wakeups under replay; loads see stores, no store lost and its payload kept, cleans reach memory |
| `lsu_progress` | two mixes, three requests, one way, UB neither cached nor allocated, with fairness | 59,826 | every request completes |
| `memories` | L1 with two banks in two groups, transports of one; the unified buffer with four bank users; the bus with limits of one | 218,744 | decisions used for the request they were made for, bank exclusion, credits, refinement of `L1Service`, everything is answered |
| `mte1` | eight workloads of one to three MTE1 commands beside up to two other users, two accesses per read, two fragments per output, queues of one and two, outstanding limit 2, with fairness | 121,055 | program order across generators, completion against what was written, in-order retirement (with refinement of `CommandService`), every command retires |
| `matrix` | the seven kinds of section 2: products that overwrite or accumulate in what FIX moves; nineteen scalar programs; some five thousand words; four programs of the C310 front end; two cores with flags; ten programs of MTE2 transfers; four programs of outputs under twelve conditions | 139,325 | unit flags, moved results, exact tickets, retired commands have written, everything retires; timed scalar programs end as the sequential ones; C310 and device hand-overs; transfers write every byte once and complete |
| `vector` | instructions of every kind with full, sparse and counted masks, strides 0, 1 and more, equal sources, addresses at the end of UB; programs of two to four items | 23,158 | planned, admitted, read, executed and written traffic agree; operands, results and retirement follow the program; predictions are kept |
| `pipes_cube_stranded` | Cube alone | | violation: finding 1 |
| `lsu_stale_lookup` | one mix | | violation: finding 2 |
| `matrix_mixed` | NZ2ND and column command to external memory | | violation: finding 3 |

A run over several mixes keeps the chosen mix in a variable of the MC module
that only restricts which instructions the program may contain. Some properties
are conjunctions of named parts, one property per question of a run: `StoresKept`
(`NoStoreLost`, `PayloadKept`), `EventsKeepOrder` (`PublishedInOrder`,
`BarriersOrder`), `PipelineInOrder` (`OperandsInOrder`, `ResultsInOrder`,
`HazardsCleared`, `RetiredInOrder`), `UnitFlagsConsistent` (with the bounds
`MatrixTypeOK`), `ScalarAgrees` (`TimedAsSequential`, `WordsAgree`), `CreditsHold`
(`CreditsBalance`, `MemoriesTypeOK`), `HandshakesHold` (`FrontEndInOrder`,
`DeviceFlagsHold`), `CommandsComplete` (`RetiredWritten`, `EverythingRetires`).

*Bounds.* Capacities are the smallest at which a queue can be empty, in use and
full: with two tokens per counter and admission closed at one, deliveries reach
the capacity and overrun it; with one miss and one store entry every second
request finds the buffer full; five instructions hold a command, a flag, a
barrier and something younger in two pipes. `MaxTick`, `MaxId`, `MaxRequests` and
the program length bound the behaviours. In `mte1` the first of two reads of a command
blocks a generator whose queue holds one, so a younger command finds the older
one generating, waiting for a flag, in the interface or at L0; the theorems of section 5 do not
depend on the value of any of them. In `matrix` the timings of L0C and FIX are the
defaults of the configuration with the queues cut to their smallest
useful depth; a store limit of 2 makes the write side push back into every stage. A
scalar answer takes up to `MaxAnswer` ticks, longer than any dispatch window, so
answers overtake each other; two refusals of admission are enough to reorder
the ingress. In the C310 programs rings have three tickets (the code's wrap is reached),
queues two entries and two slots. The MTE2 programs have one to three bursts of up to a few
units on both sides of a bandwidth boundary; five tags and an outstanding limit of one
(`FewTags`) exhaust tags, inputs and reorder buffer. The outputs meet the boundary of two
regions at 2048; a region answers as fast as the other, is late with its DBIDs or late
with its responses; there are two tags or six, with an outstanding limit of one or six, and a
port of UB that serves every tick or every third. A device flag has a credit limit of 1, so that the
second notification overflows, and flag 256 is one past the counters.

*Deadlock* is not checked where the bound or the end of the program stops every
behaviour, an unmatched WAIT_FLAG stalls for ever, as it does in the code, or an
error return ends the simulation.

*Fairness.* `advance_to` loops until no notification is due (`AdvanceEnds`). The
core advances every engine in every tick, and termination is looked at every 100
ticks (`pipes_drain`); nothing is assumed of the program, which may stop issuing.
In `lsu_progress` the clock advances; a memory answers what was sent to it, a
port that is free again and again takes a request, and the retirement queue that
may close M0 drains one entry per tick: these conditions come and go, so the
assumption about them is strong fairness. In `memories` the clock advances and clients take
responses that have arrived; a client may stop sending at any time, and writes have
priority, so a read is promised an answer only because each client sends finitely
many requests. In `mte1` some step that moves a command forward is taken while there
is one: the dispatcher runs every callback whose queue has a head, L1 answers
(`Answered` of `L1Memory`) and takes a request again and again, and the other pipes
provide the flags. `matrix`, its other kinds and `vector` need no fairness: every step is a
tick, the world answers within a bound, and progress is an invariant: by a
named tick (`MaxTick`, `MaxScalarTick`, `MaxDmaTick`, `MaxOutTick`, `Deadline`) everything has retired.

Every property has a mutant in `PROJECT.json`: a faulty variant of a mapped
definition, kept beside it in its module, under which the property fails.

## 4. Findings

1. **Stranded Cube set** (`core/cube_frontend.rs:157`). A set is deferred behind
   `last_received`, which may be a hardware flag or an MMAD without uops that has
   already left while an older MMAD still runs. Its retirement has passed, the
   event is never published, BAR.ALL and END wait for ever.
2. **Stale lookup** (`scalar/lsu/scheduler/load.rs:196`). A load that missed in M0
   reads memory in M2 although a store's refill has installed the dirty line
   between the two, returns old bytes and installs them over the store.
   In the same way a store entry whose line was evicted while it waited for its
   timeout ends the simulation with `MissingCacheLine` (`store.rs:241`).
3. **Commands of FIX out of order** (run `matrix_mixed`). A column command that
   follows a row (NZ2ND) command to external memory overtakes it in the shared
   queue of packets, and the engine stops with an error of its order check.

### Observations

What else the modelling showed, without a run of its own. The properties hold
because they exempt these cases by name or because programs of the runs avoid
them.

*Flags and frontends.* A barrier decides from the back of the issue queue whether
it has to wait for an idle pipe (`core/mte1_barrier.rs:53`); behind a flag that has
already been received it completes at once, which `WaitedBarrierOrders` excludes.
Termination looks for idleness every 100 ticks only (`core/termination.rs:64`). Any
device flag within the limit opens a blocked dispatch, flags of 256 and more are
never satisfied, and a reset leaves the overflow latch set.

*Scalar unit.* The four situations of `Strays`. An atomic store is documented as
captured before its requests enter the LSU (`store/atomic.rs:97`), yet its
retirement reads SPR 3, SPR 90 and the roots again (`core/lsu/retirement.rs:22-47`)
and writes the base over a later write (67-71). `direct_store.rs:20` says the
mapping is captured at issue; `ingress.rs:81-87` maps with the SPRs at admission.
Compare-and-jump words whose first register is one of X22/X23, X28/X29, X2/X3 or
X10 to X13 are also accepted as END, DSB, DCCI and flag words, and the decoder
asked first wins. An immediate move to SPR 3 writes 0. Register numbers have six
bits in Select and MoveToSpr of Dav2201 and index an array of 32. Vector words
other than VectorScalar, Movev, Shift, Copy, Broadcast, Transpose and
VecArithmetic capture X registers without waiting for a pending load.

*Load/store unit and memories.* The bytes of a flushed UB hit are only in a clean
cache line; a refill may replace it before the response, which then finds
nothing (`write_response.rs:56`; `StoresKept` holds up to `raced`). With room for two
direct stores the event of the second writes the first again while its write is under way,
and the second acknowledgement finds nothing (`direct_store.rs:148`). The turn of
the L1 read arbiter passes on when L1 rejects the selected request, as its
comment says; `AllRetired` holds all the same because every user sends
finitely many requests. The BIU reports a write complete with the response of its
last packet only (`biu_write/data.rs:30`).

*Cube and FIX.* The V0 planner publishes results per read and skips tiles for
m >= 2 and n >= 3, so it retires without having written all results. The functional
tile order is m + mTiles * n, that of the uops m * nTiles + n. NZ2ND commands to L1
go through the BIU.

*MTE2.* An L1 transfer with padding and a source aligned to 32 bytes counts as out of
order and is written without its padding. Requests with padding ignore the burst
length, those with padding or a byte offset the gaps; in MOV_PAD the gap is folded into a
chunk of 32 bursts and so is not made. A transfer with a byte offset that ends on a
bandwidth boundary leaves `destination_offset` set (`interface/write.rs:253`), and
the next in-order transfer to L1 is shifted; with a source that is not aligned to 32
bytes such a transfer loses units and may never complete. Requests of the unbounded
mode that are larger than the reorder buffer fill it and wait for ever. The programs of
`ReadsExact` leave out exactly these.

*MTE3.* A gather is chosen by a burst length of 2 without a look at the byte mode
(`mte/uop.rs:387`): bursts of two bytes that a gap spreads become one request, and one of
less than 64 bytes has no packets (`interface/biu_write.rs:59`), is never answered, and its
command never retires. The address of a later request of a gather has the bursts before it
already, and `gather_offset` adds them again (`biu_write.rs:62`). The piece marked last
is the one whose source starts last (`biu_write/command.rs:411`), not the one answered
last: where DDR and L2 complete with different latencies, MTE3 (and FIX, which uses the
same count) retires a command, and a flag behind it, while data of it are unanswered. That is
why `WritesExact` asks for answers only under `UniformResponses`; it asks nothing of what a
gather reads, and no program has a gather in bytes.

*Vector.* The comment on `projected_write_completion` (`memory/ub_arbiter.rs:112-113`)
says that other UB masters can delay the projected result. In the code none can:
`arbitrate_with_destination` (164-191) grants the write port first, on empty masks, and the
scalar unit and the MTE get the banks that are left. What moves the result is inside the
vector pipeline: the order of the writes and the ticks at which they are released.
Before a uop has passed the conflict check its ticks may be predicted too late:
`conflict_ready_tick` (`pipeline/conflict.rs:21`) compares it with the last uop that has
passed, which need not be the one before it, as with MOVEV followed by an add of three
repeats. Dispatch tries again in every tick, so nothing waits longer for it than until
that uop is checked. A barrier after MOVEV or a reduction is released when that retires, before
its last write is visible; for the same reason a write after write without a
barrier can be lost. Ordinary feedback with one repeat asks for no UB write in timing.
The timing reads gather indices at issue. It never asks for the descriptors of
a dequantisation, and takes strides 0 and 1 for equal sources. Select and CompareMask
read whole tiles although the plan checks active blocks only; the conversion from
packed S4 reads the neighbouring nibble directly from UB. The F16 sort compares
infinities of both signs cyclically.

*C310.* Two vector functions issued without a push between them share a slot; the
first completion frees it while the second is outstanding. A full predicate buffer also
refuses pushes into the active slot. A RELEASE without a pipe never retires its
ticket. A RELEASE entry survives a GET of another pipe, so with direct release a
nested program gets a buffer that another pipe holds. Slots are not cleared between
functions.

## 5. Theorems

All proofs are checked by TLAPS for every value of the constants allowed by the
`ASSUME`s of the modules: any set of counters and pipes, any program, any depth.

- **`HardwareFlagsProofs`**: `TypeCorrect`, `NothingStranded`. The inductive
  invariant `Inv` adds to `TypeOK` and `NoStrandedSet` that the pending list and the
  notifications are finite and that captured timestamps are not in the future
  (`CapturedInPast`): a notification armed for the next tick covers a captured
  timestamp because a tick modulo 2^32 is at most the tick. `Notify` is the hard
  step: the scan removes the notification it runs at, and what it leaves pending
  was admitted later or has a later timestamp, so another notification covers it.
  `TokensConserved` and `SetsHaveOneHome` need each other: a set that had two homes would
  be admitted twice and counted once. `ReleasedInOrder` and `RetiresWithItsFlags` are
  action properties; the first follows from the order of each Cube queue, the second
  from what an attempt to retire does to the waits and sets of the head.
- **`PipeFrontendsProofs`**: `TypeCorrect`, `NoEventStranded`, `EventsOrderPipes`. The
  invariant relates ages: ids in an issue queue are larger than every id received
  (`IssuedAges`, `OutstandingAges`), `lastReceived` is the youngest outstanding
  command of a pipe whose commands all pass its engine (`LastAges`), deferred
  events are older than what is queued and are filed under an outstanding
  command (`DeferredAges`), visible events are older than everything pending
  (`ReadyAges`). `EventsOrderPipes` holds for Cube with hardware flags and empty
  MMADs too: finding 1 delays an event for ever and never publishes it early.
  `EventsInOrder` adds where the barriers are: pending ones of a pipe are in program
  order, what is received after one is younger, and outside FIX one that has been
  released is gone (`BarrierInvariance`, `OrderInvariance`). `DrainedPipesStayDrained`
  needs ages only: what enters a pipe later is younger than the instruction that found it
  empty.
- **`LsuPipelineProofs`**: `TypeCorrect`, `ReplayKeepsProgramOrder`,
  `WakeupNeverLost`. The invariant adds `issued <= admitted`; both properties are
  inductive together with it because a blocked request is always one the stages
  hold, so the rewound counter lies between `consumed` and the old `issued`.

- **`ScalarLsuProofs`**: `UnitRunsPipeline`, `UnitTypeCorrect`, `UnitHoldsTogether`,
  `PayloadIsKept`. The first maps every step of
  the load/store unit to a step of `LsuPipeline` or a stutter, so the theorems of
  `LsuPipelineProofs` hold in the unit. The types need them: the request that reaches M2 has
  been admitted and issued, so its instruction exists and M0 has looked its tag up
  (`LookedUpFirst`), without which a clean could index the cache with "not looked up".
  `UnitHoldsTogether` is the structure (`Struct`): at most one entry, one fetch and one way
  of a line; a read has a fetching entry; a UB write has the bytes of a closed store entry
  or of a way; only external lines are dirty; a write of an external line has evicted data,
  a direct store or an invalid way of its own; an evicted line is nowhere else; during a
  clean the unit holds nothing else. It is inductive as long as `raced` is false, and then
  no error return of the unit can be taken (`failure = "none"`) and `PayloadKept` holds.
  The steps change a line or two each, so the structure is split by line (`OfLine`,
  `StructByLine`) and each lemma shows which views of which line an action changes. Both
  theorems assume that the program does not use external line 0 (`ZeroLine \notin Lines`):
  a maintenance write leaves its way valid with the tag of that line, so it may come to be
  in several ways. The lines of the runs have other addresses as well.

- **`ScalarLsuDataProofs`**: `LoadsReturnLatest`, `StoresAreKept`, `CleansReachMemory`:
  `LoadsSeeStores`, `StoresKept` and `CleanReachesMemory` for every program without
  external line 0, every number of ways, every capacity and every order of answers. The invariant `DataOk` says of every line which of
  its copies has which stores. `Latest(l, o, n, x)`: byte o has what the youngest store
  older than request n wrote. A store entry has the latest bytes where it is valid, and its
  requests wrote no others (`EntryData`); a way has what the entry has not, and everything
  from the refill or flush on (`WayData`); so has evicted data (`EvictData`), a way that a
  maintenance write empties (`HeldData`), a way that a UB write takes its bytes from
  (`WritingData`), and, where none of these has the line, memory (`MemoryData`). A load that
  waits for a line is younger than every store to it, and no entry covers it when it has
  asked for the line itself (`MissLoads`): this is why a load may be answered from memory
  while an entry of its line is open. Lines that a direct store bypasses are exempt
  (`Bypassed`), as in the properties. For cleans `DataOk` is not enough: it says nothing of
  memory while a way is dirty. `CleanOk` adds, for every clean that has left M2, that the
  bytes below the ways of a line it covers (evicted data, else memory) have all older stores,
  unless a way of the line is being written out (`CleanLine`). It rests on three more facts:
  every store entry is younger than every clean that has left M2, because M0 drains the
  buffers first (`CleanStores`); only lines of the program are fetched or kept
  (`LinesTouched`), so the first way with the address of an external line is the line's when
  no UB line of the program has that address; and the way an issued clean has looked up is
  still the line's when it reaches M2 (`CleanLooked`), because the unit holds nothing else
  meanwhile. Whatever reaches memory later, a maintained way or evicted data, has by
  `DataOk` every store the buffer does not hold, so it takes nothing
  away (`ExternalWritten`, `BackedReaches`).

- **`L1MemoryProofs`**: `TypeCorrect`, `DecisionsMatch`, `BanksExclusive`,
  `ImplementsService`. The invariant `Inv` says that an unused grant is about the
  request at the head of its queue (`GrantsHead`: only the port's own receiver can
  remove that request, and it runs once a tick), that nothing was accepted before
  the arbitration of a tick, and that what was accepted in this tick was granted
  with these banks (`AcceptedNow`). For the refinement the three queues of a port
  are one sequence (`Line`); accepting and forwarding move an entry from one part to
  the next and leave it unchanged, ageing changes no access, sending appends and
  taking a response removes the head.

- **`MteReadPathProofs`**: `TypeCorrect`, `ImplementsService`, `ReadsKeepOrder`,
  `CompletionExact`. `TypeOK`
  says of every entry on the path that its command has been accepted; that is what makes
  a completion a `Finish` step of the service. The invariant adds that the pending
  commands are the youngest accepted ones in order (`PendingInOrder`), from which
  the retired ones are a prefix and the head is the next to retire. Both arbiters
  are shown to select a port with an entry. For the order of reads `OrderInv` says that
  only the selected generator has work (the others have sent all they had) and that
  each queue on the way is in order and comes before the queues behind it.
  For `CompletedWhenWritten` the invariant `LedgerInv` numbers what belongs to a command:
  its requests by their index, its outputs (`Done(c, k)`: so many are complete after k
  requests, where the weights and indices of a sparse LOAD2D and the merged reads of
  LOAD3Dv2 make the difference) and its fragments (`Place`). In every queue of the way the
  entries of the command are a `Window`: consecutive numbers, in order. What has left one
  queue is what has entered the next, down to `written`, so the fragment with the last
  number, the one `last_in_instruction` marks, is the last to arrive, and all windows are
  empty exactly when `written` has reached `Outputs`. The proof assumes
  (`RouteAssumption`) that each kind of command goes to a destination the engine accepts
  for it (`Route`), and that the other users put only work on the path that has bytes to
  move; their engines finish an empty transfer themselves.

- **`DeviceFlagsProofs`**: `FlagsHold`, for any number of cores, programs, credit limits and
  resets. `DeviceFlagsHold` is inductive with the types of the counters. It assumes
  (`FlagAssumption`) that flags are numbers and that the credit limit is positive; the code's is 15.

Only model-checked: the liveness properties and the bounded ends (the prover has no
fairness or ENABLED reasoning), and everything about the unified buffer, the bus, MTE2, MTE3, Cube, FIX, the vector and scalar units and C310. The tick-by-tick
modules fold over sequences and compute with concrete timings; their properties compare
two computations of the same data, which the prover could only do by induction over data,
and several iterate a step with an operator parameter (`Repeat`), which the provers cannot
instantiate.

## 6. Not modelled

- *The rest of MTE2 and MTE3*: external LOAD2D and ND2NZ, SMASK and fills, MOV_L1_TO_OUT,
  estimated timing, and several destinations or clients behind one interface at a time. The
  order in which MTE3 retires beside the other pipes is in `PipeFrontends`, the routes it
  shares in `MemoryBus` and `UbMemory`.
- *Of the modelled parts*: FIX's own capture of hardware flags; the stack partition,
  replacement counters and external invalidation in the load/store unit; the merge unit
  of the vector (VMSU) and the cancellation of its work; MOVEMASK, transfers and
  address arithmetic of C310; scalar and memory activity in BAR.ALL and END; the
  issue clock.
- *Values*: lane operations, Cube and FIX numerics, float conversions are
  bit-level computations without control state, out of reach for enumeration;
  decoders of the other units and image parsing hold no state.

## 7. Plan

1. The other clients of the MTE2 and MTE3 interfaces (ND2NZ, external LOAD2D, fills,
   MOV_L1_TO_OUT), and several of them behind one interface.
2. Theorems about the record-style modules are out of reach where they compare folds over
   data; their control (`C310Buffers`' rings, the tags of `DmaRead`) could be stated on
   variables of its own.
