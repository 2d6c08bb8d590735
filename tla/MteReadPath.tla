---------------------------- MODULE MteReadPath ----------------------------
(***************************************************************************)
(* The way of an MTE1 command through the core: the command queue of the   *)
(* MTE1 engine, the generators that split a command into physical reads,   *)
(* the interface that all readers of L1 share, its output FIFO, and the    *)
(* write interfaces of L0A and L0B.                                        *)
(*                                                                         *)
(*   generators -> inputs -> memory -> acknowledged -> writes -> acks      *)
(*                                               \ -> retiring             *)
(*                                                                         *)
(* Every queue is a FIFO whose entries become visible a constant number of *)
(* ticks after the push, and every callback runs once a tick in which its  *)
(* queue has a visible head.  The model drops the ticks: a callback may    *)
(* run whenever its queue is not empty, which allows every timing.         *)
(*                                                                         *)
(* The L1 memory is L1Service, which L1Memory implements.  Its queue holds *)
(* what C220MteL1Interface.in_flight holds: both are changed by the same   *)
(* callbacks, and request ids are a counter.                               *)
(*                                                                         *)
(* A physical read is [id, index]: the index-th request of command id.     *)
(* Ids above Len(program) are commands of the other users of the path,     *)
(* whose own engines are not modelled here.                                *)
(***************************************************************************)
EXTENDS Integers, Sequences, Functions

Targets == {"L0a", "L0b"}
Locals  == {"Bt", "Smask", "Fb"}   \* local_retirement_delay is Some
Destinations == Targets \cup Locals \cup {"SparseIndex", "External"}

Reads      == {"Load2d", "Load2dSparse", "Load3dv2", "Bt", "Smask"}
Controls   == {"WriteSpr", "HardwareFlag", "CrossCore"}
Generators == {"Load2d", "Load3dv2", "Bt", "Smask", "Set2d"}

\* Other users: the input port of the L1 interface, or the port of L0.
Foreign == {"Factor", "L1Output", "ExternalSmask", "ExternalLoad2d"}

CONSTANTS
  Workloads,   \* the commands to run: [mte1, others]
  Parts,       \* physical reads of a logical read: bytes / access width
  Fragments,   \* fragments of an output: bytes / output bandwidth
  GeneratedCapacity,    \* per generator: generated_capacity
  InputCapacity,        \* INPUT_CAPACITY: 5
  WriteCapacity,        \* per L0 port: C220L0WritePort::capacity
  OutstandingLimit      \* C220_MTE1_OUTSTANDING_LIMIT: 31

\* What the path sees of a command: its output blocks, for LOAD3Dv2 the reads
\* merged into a block, and the hardware flags attached to it.
Command ==
  [op : Reads \cup Controls \cup Foreign \cup {"Set2d"}, to : Destinations,
   blocks : Nat, merge : Nat \ {0}, flags : SUBSET {"wait", "set"}]

InputPorts == 0..2
WritePorts == 0..2

ASSUME ProgramAssumption ==
  \A w \in Workloads :
    /\ w = [mte1 |-> w.mte1, others |-> w.others]
    /\ w.mte1 \in Seq({c \in Command : c.op \notin Foreign})
    /\ w.others \in Seq({c \in Command : c.op \in Foreign})

\* Where a command writes: the destinations the engine accepts, or the fixed one.
Route(op) ==
  CASE op \in Controls -> Destinations
    [] op = "Load2dSparse" -> {"L0b"}
    [] op = "Bt" -> {"Bt"}
    [] op \in {"Smask", "ExternalSmask"} -> {"Smask"}
    [] op = "Factor" -> {"Fb"}
    [] op = "L1Output" -> {"External"}
    [] OTHER -> Targets

\* A transfer of no bytes of another user is finished by its own engine and never
\* gets to the path.
ASSUME RouteAssumption ==
  \A w \in Workloads :
    /\ \A i \in 1..Len(w.mte1) : w.mte1[i].to \in Route(w.mte1[i].op)
    /\ \A o \in 1..Len(w.others) :
         w.others[o].to \in Route(w.others[o].op) /\ w.others[o].blocks > 0

ASSUME SplitAssumption == Parts \in Nat \ {0} /\ Fragments \in Nat \ {0}
ASSUME CapacityAssumption ==
  /\ GeneratedCapacity \in [Generators -> Nat \ {0}]
  /\ InputCapacity \in Nat \ {0}
  /\ WriteCapacity \in [WritePorts -> Nat \ {0}]
  /\ OutstandingLimit \in Nat \ {0}

VARIABLES
  program,     \* the MTE1 commands, in program order
  others,      \* the commands of the other users of the path
  issued,      \* number of commands that MTE1 has accepted
  pending,     \* Mte1Engine.pending: accepted and not retired
  completed,   \* commands whose completion_tick is known
  selected,    \* selected_generator
  generation,  \* per generator: the command being split and its next request
  generated,   \* per generator: requests to send
  inputs,      \* per port of the L1 interface: requests to send
  lastSelected,   \* C220MteL1ReadArbiter.last_selected
  memory,      \* L1Service: requests that L1 has not answered
  acknowledged,   \* C220MteL1Output.acknowledged: reads with an output
  expanded,    \* the first of them has been offered to its destination
  offset,      \* ... and so many of its fragments have been sent
  retiring,    \* C220MteL1Output.retiring: last fragments for local buffers
  writes,      \* per target and port: C220L0WritePipeline.inputs
  acks,        \* per target: C220L0WritePipeline.acknowledgments
  lastPrimary, \* per target: last_primary
  pushed,      \* per other command: requests pushed
  written,     \* history: per command, the fragments that have arrived
  signals      \* hardware flags: waits with a token, sets with credit

engine    == <<program, others, issued, pending>>
producers == <<selected, generation, generated>>
reader    == <<inputs, lastSelected>>
output    == <<acknowledged, expanded, offset, retiring>>
l0        == <<writes, acks, lastPrimary>>
vars == <<engine, completed, producers, reader, memory, output, l0, pushed,
          written, signals>>

L1 == INSTANCE L1Service WITH
  Port <- {"MteRead"},
  Requests <- [p \in {"MteRead"} |-> [id : Nat, index : Nat]],
  outstanding <- memory

None == [id |-> 0, next |-> 0]

-----------------------------------------------------------------------------
(* Commands *)

Cmd(i) == IF i <= Len(program) THEN program[i] ELSE others[i - Len(program)]
Ids    == 1..(Len(program) + Len(others))

\* Physical requests of a command.  SET_2D and the external LOAD2D write
\* fragments and read nothing from L1.
RequestCount(c) ==
  c.blocks * CASE c.op = "Load2dSparse" -> 2 * Parts
               [] c.op = "Load3dv2" -> c.merge * Parts
               [] c.op \in {"Set2d", "ExternalLoad2d"} -> Fragments
               [] c.op \in Controls -> 0
               [] OTHER -> Parts

\* The k-th physical request belongs to this logical read.
Logical(k) == (k - 1) \div Parts + 1
Final(k)   == k % Parts = 0

\* Bug: the marker of the last request on the last access of every block.
BlockRequestEveryBlock(c, k) ==
  [to |-> c.to, completes |-> Final(k), last |-> Final(k)]

\* LOAD2D, BT and factor loads: every block is read and written for itself.
BlockRequest(c, k) ==
  [to |-> c.to, completes |-> Final(k), last |-> k = RequestCount(c)]

\* LOAD3Dv2: `merge' reads fill a block, the last of them completes it.
Load3dRequest(c, k) ==
  [to |-> c.to, completes |-> Final(k) /\ Logical(k) % c.merge = 0,
   last |-> k = RequestCount(c)]

\* Bug: completion is left to the last index read, which has no output.
SparseRequestOnIndex(c, k) ==
  LET weight == Logical(k) % 2 = 1
  IN  [to |-> IF weight THEN c.to ELSE "SparseIndex",
       completes |-> weight /\ Final(k), last |-> k = RequestCount(c)]

\* Sparse LOAD2D: weights, then their indices, which have no output.  The
\* last weights signal completion; their indices are still to be read.
SparseRequest(c, k) ==
  LET weight == Logical(k) % 2 = 1
  IN  [to |-> IF weight THEN c.to ELSE "SparseIndex",
       completes |-> weight /\ Final(k),
       last |-> weight /\ Final(k) /\ Logical(k) = 2 * c.blocks - 1]

\* SMASK, and a transaction of the L1 output: one output for all the reads.
WholeRequest(c, k) ==
  [to |-> c.to, completes |-> k = RequestCount(c), last |-> k = RequestCount(c)]

Request(r) ==
  LET c == Cmd(r.id)
  IN  CASE c.op = "Load2dSparse" -> SparseRequest(c, r.index)
        [] c.op = "Load3dv2" -> Load3dRequest(c, r.index)
        [] c.op \in {"Smask", "ExternalSmask", "L1Output"} ->
             WholeRequest(c, r.index)
        [] OTHER -> BlockRequest(c, r.index)

\* Length of the C220MteOutputPlan of a read that completes an output.
PlanLength(c) ==
  CASE c.to = "External" -> 1
    [] c.op \in {"Smask", "ExternalSmask"} -> c.blocks * Fragments
    [] OTHER -> Fragments

\* last_in_instruction of a fragment [id, index, part].
LastInInstruction(f) ==
  LET c == Cmd(f.id)
  IN  IF c.op \in {"Set2d", "ExternalLoad2d"}
      THEN f.index = RequestCount(c)
      ELSE Request(f).last /\ f.part = PlanLength(c)

\* Fragments that a command writes.
Outputs(c) ==
  CASE c.op = "L1Output" -> 1
    [] c.op \in Controls -> 0
    [] OTHER -> c.blocks * Fragments

-----------------------------------------------------------------------------
(* The MTE1 engine *)

\* synchronization_memory: SMASK and control commands carry no hardware flags.
Flags(c) == IF c.op \in Controls \cup {"Smask"} THEN {} ELSE c.flags

\* A hardware-flag command with a trigger acts itself and names what it does.
Triggers(c) == c.op = "HardwareFlag" /\ c.flags # {}

\* is_disabled: nothing to do, the command bypasses its generator.
Disabled(c) == c.op \in Reads \cup {"Set2d"} /\ c.blocks = 0

\* Flags that a command settles when it is issued: disabled commands and
\* triggers do, the others wait in their generator and set at retirement.
FlagsAtIssue(c) ==
  CASE Disabled(c) -> Flags(c) [] Triggers(c) -> c.flags [] OTHER -> {}

GeneratorOf(c) ==
  CASE c.op = "Load2dSparse" -> "Load2d"
    [] c.op = "CrossCore" -> "Load3d"
    [] OTHER -> c.op

Idle(g) == generation[g] = None /\ generated[g] = <<>>

\* No generator selected, or it has sent its last request.  Load3d, the one
\* of cross-core commands, has no queue.
SelectedIdle == selected \in Generators => Idle(selected)

\* Bug: a command does not wait for the generator of the one before it.
CanIssueAtOnce(c) ==
  c.op \in Reads \cup {"Set2d"} /\ ~Disabled(c) =>
    /\ generation[GeneratorOf(c)] = None
    /\ Len(generated[GeneratorOf(c)]) < GeneratedCapacity[GeneratorOf(c)]

CanIssue(c) ==
  \/ c.op = "HardwareFlag"
  \/ c.op = "WriteSpr" /\ SelectedIdle
  \/ Disabled(c)
  \/ /\ c.op \in Reads \cup {"Set2d"} =>
          /\ generation[GeneratorOf(c)] = None
          /\ Len(generated[GeneratorOf(c)]) < GeneratedCapacity[GeneratorOf(c)]
     /\ c.op \notin {"HardwareFlag", "WriteSpr"}
     /\ selected = GeneratorOf(c) \/ SelectedIdle

\* dispatch_mte1_head_at, Mte1Engine::issue and issue_mte1: the next command,
\* if its generator can take it and its flags allow.  A trigger comes after
\* the reads of the commands before it.
Issue ==
  LET i == issued + 1
      c == program[i]
      g == GeneratorOf(c)
  IN  /\ issued < Len(program)
      /\ CanIssue(c)
      /\ Len(pending) < OutstandingLimit
      /\ Triggers(c) => SelectedIdle
      /\ \A f \in FlagsAtIssue(c) : <<f, i>> \in signals
      /\ issued' = i
      /\ pending' = Append(pending, i)
      /\ IF RequestCount(c) = 0
         THEN completed' = completed \cup {i} /\ UNCHANGED generation
         ELSE /\ generation' = [generation EXCEPT ![g] = [id |-> i, next |-> 1]]
              /\ UNCHANGED completed
      /\ selected' = IF Disabled(c) \/ c.op \in {"HardwareFlag", "WriteSpr"}
                     THEN selected ELSE g
      /\ UNCHANGED <<program, others, generated, reader, memory, output, l0,
                     pushed, written, signals>>

\* Bug: any completed command is retired.
RetireCommandAny ==
  \E n \in 1..Len(pending) :
    /\ pending[n] \in completed
    /\ "set" \in Flags(Cmd(pending[n])) => <<"set", pending[n]>> \in signals
    /\ pending' = SubSeq(pending, 1, n - 1)
                    \o SubSeq(pending, n + 1, Len(pending))
    /\ UNCHANGED <<program, others, issued, completed, producers, reader,
                   memory, output, l0, pushed, written, signals>>

\* try_retire_head: the oldest command, once it is complete and the hardware
\* flags it sets have credit.
RetireCommand ==
  /\ pending # <<>>
  /\ Head(pending) \in completed
  /\ "set" \in Flags(Cmd(Head(pending))) => <<"set", Head(pending)>> \in signals
  /\ pending' = Tail(pending)
  /\ UNCHANGED <<program, others, issued, completed, producers, reader, memory,
                 output, l0, pushed, written, signals>>

\* Another pipe sets the flag a command waits for, or consumes one so that
\* there is credit for the flag a command sets.
Signal(f, i) ==
  /\ f \in Flags(program[i]) \cup FlagsAtIssue(program[i])
  /\ <<f, i>> \notin signals
  /\ signals' = signals \cup {<<f, i>>}
  /\ UNCHANGED <<engine, completed, producers, reader, memory, output, l0,
                 pushed, written>>

-----------------------------------------------------------------------------
(* Generators *)

\* C220MteReadFrontend::generate and C220Set2dFrontend::generate.
Generate(g) ==
  LET now == generation[g]
  IN  /\ now # None
      /\ Len(generated[g]) < GeneratedCapacity[g]
      /\ generated' = [generated EXCEPT ![g] =
                         Append(@, [id |-> now.id, index |-> now.next])]
      /\ generation' = [generation EXCEPT ![g] =
                          IF now.next = RequestCount(Cmd(now.id)) THEN None
                          ELSE [id |-> now.id, next |-> now.next + 1]]
      /\ UNCHANGED <<engine, completed, selected, reader, memory, output, l0,
                     pushed, written, signals>>

\* defer_mte1_sync, resolve_mte1_flags: the waits of the command are settled.
Unblocked(i) == "wait" \in Flags(Cmd(i)) => <<"wait", i>> \in signals

\* send_mapped: the oldest request goes to port 0 of the L1 interface.
SendRead(g) ==
  /\ generated[g] # <<>>
  /\ Unblocked(Head(generated[g]).id)
  /\ Len(inputs[0]) < InputCapacity
  /\ inputs' = [inputs EXCEPT ![0] = Append(@, Head(generated[g]))]
  /\ generated' = [generated EXCEPT ![g] = Tail(@)]
  /\ UNCHANGED <<engine, completed, selected, generation, lastSelected, memory,
                 output, l0, pushed, written, signals>>

\* Bug: a full port takes one more entry.
PushWriteUnchecked(t, port, f) ==
  writes' = [writes EXCEPT ![t][port] = Append(@, f)]

\* C220L0WritePipeline::push.
PushWrite(t, port, f) ==
  /\ Len(writes[t][port]) < WriteCapacity[port]
  /\ writes' = [writes EXCEPT ![t][port] = Append(@, f)]

\* C220Set2dFrontend::send: a fill goes to port 1 of its target.
SendFill ==
  LET r == Head(generated["Set2d"])
  IN  /\ generated["Set2d"] # <<>>
      /\ Unblocked(r.id)
      /\ PushWrite(Cmd(r.id).to, 1,
                   [id |-> r.id, index |-> r.index, part |-> 1])
      /\ generated' = [generated EXCEPT !["Set2d"] = Tail(@)]
      /\ UNCHANGED <<engine, completed, selected, generation, reader, memory,
                     output, acks, lastPrimary, pushed, written, signals>>

\* Other users of the path: MTE2 masks on port 0, L1 output on port 1, FIX
\* factors on port 2, and external LOAD2D on port 2 of L0.
InputPort(op) ==
  CASE op = "ExternalSmask" -> 0 [] op = "L1Output" -> 1 [] OTHER -> 2

PushOther(o) ==
  LET c == others[o]
      i == Len(program) + o
      k == pushed[o] + 1
      p == InputPort(c.op)
  IN  /\ k <= RequestCount(c)
      /\ pushed' = [pushed EXCEPT ![o] = k]
      /\ IF c.op = "ExternalLoad2d"
         THEN /\ PushWrite(c.to, 2, [id |-> i, index |-> k, part |-> 1])
              /\ UNCHANGED inputs
         ELSE /\ Len(inputs[p]) < InputCapacity
              /\ inputs' = [inputs EXCEPT ![p] =
                              Append(@, [id |-> i, index |-> k])]
              /\ UNCHANGED writes
      /\ UNCHANGED <<engine, completed, producers, lastSelected, memory, output,
                     acks, lastPrimary, written, signals>>

-----------------------------------------------------------------------------
(* The L1 interface *)

\* Fragments of the first output that are still to be sent, once it has been
\* offered.  An external output does not count.
OutputFragments ==
  IF /\ acknowledged # <<>> /\ expanded
     /\ Cmd(Head(acknowledged).id).to # "External"
  THEN PlanLength(Cmd(Head(acknowledged).id)) - offset
  ELSE 0

\* C220MteL1ReadHead::eligible.
Eligible(p) ==
  /\ inputs[p] # <<>>
  /\ LET to == Request(Head(inputs[p])).to
     IN  CASE to = "SparseIndex" -> TRUE
           [] to = "Bt" -> OutputFragments = 0
           [] OTHER -> OutputFragments <= 1

\* The first eligible port after the one selected last.
SelectedPort ==
  CHOOSE p \in InputPorts :
    /\ Eligible(p)
    /\ \A q \in InputPorts :
         Eligible(q) => (p + 2 - lastSelected) % 3 <= (q + 2 - lastSelected) % 3

\* send_request: the selected request goes to L1 ...
SendRequest ==
  /\ \E p \in InputPorts : Eligible(p)
  /\ lastSelected' = SelectedPort
  /\ L1!Take("MteRead", Head(inputs[SelectedPort]))
  /\ inputs' = [inputs EXCEPT ![SelectedPort] = Tail(@)]
  /\ UNCHANGED <<engine, completed, producers, output, l0, pushed, written,
                 signals>>

\* ... or L1 has no room for it, and the turn passes to another port.
RejectRequest ==
  /\ \E p \in InputPorts : Eligible(p)
  /\ lastSelected' = SelectedPort
  /\ UNCHANGED <<engine, completed, producers, inputs, memory, output, l0,
                 pushed, written, signals>>

\* receive_response: only a read that completes a logical one has an output.
ReceiveResponse ==
  LET r == Head(memory["MteRead"])
  IN  /\ L1!Answer("MteRead")
      /\ acknowledged' = IF Request(r).completes THEN Append(acknowledged, r)
                         ELSE acknowledged
      /\ UNCHANGED <<engine, completed, producers, reader, expanded, offset,
                     retiring, l0, pushed, written, signals>>

Arrive(i) == written' = [written EXCEPT ![i] = @ + 1]

\* A last fragment completes its command.
Complete(f) ==
  completed' = IF LastInInstruction(f) THEN completed \cup {f.id} ELSE completed

\* C220MteL1Output::send: the next fragment of the first output.
SendOutput ==
  LET r == Head(acknowledged)
      c == Cmd(r.id)
      f == [id |-> r.id, index |-> r.index, part |-> offset + 1]
      lastInUop == offset + 1 = PlanLength(c)
  IN  /\ acknowledged # <<>>
      /\ IF lastInUop
         THEN /\ acknowledged' = Tail(acknowledged)
              /\ expanded' = FALSE /\ offset' = 0
         ELSE expanded' = TRUE /\ offset' = offset + 1 /\ UNCHANGED acknowledged
      /\ IF c.to \in Targets THEN PushWrite(c.to, 0, f) ELSE UNCHANGED writes
      /\ IF c.to \in Locals /\ lastInUop
         THEN retiring' = Append(retiring, f) ELSE UNCHANGED retiring
      /\ IF c.to \in Targets \/ (c.to \in Locals /\ lastInUop)
         THEN UNCHANGED written ELSE Arrive(r.id)
      /\ IF c.to = "External" THEN Complete(f) ELSE UNCHANGED completed
      /\ UNCHANGED <<engine, producers, reader, memory, acks, lastPrimary, pushed,
                     signals>>

\* The same callback when the target is full or the L1 output engine does not
\* take the read: the output is expanded and stays.
BlockOutput ==
  /\ acknowledged # <<>>
  /\ LET to == Cmd(Head(acknowledged).id).to
     IN  \/ to = "External"
         \/ to \in Targets /\ Len(writes[to][0]) >= WriteCapacity[0]
  /\ expanded' = TRUE
  /\ UNCHANGED <<engine, completed, producers, reader, memory, acknowledged,
                 offset, retiring, l0, pushed, written, signals>>

\* C220MteL1Output::retire: the last fragment of a local output has arrived.
RetireOutput ==
  /\ retiring # <<>>
  /\ retiring' = Tail(retiring)
  /\ Arrive(Head(retiring).id)
  /\ Complete(Head(retiring))
  /\ UNCHANGED <<engine, producers, reader, memory, acknowledged, expanded,
                 offset, l0, pushed, signals>>

-----------------------------------------------------------------------------
(* The write interfaces of L0A and L0B *)

\* selected_port: ports 0 and 1 take turns, port 2 when both are empty.
WritePort(t) ==
  LET order == IF lastPrimary[t] = 1 THEN <<0, 1, 2>> ELSE <<1, 0, 2>>
  IN  CHOOSE p \in WritePorts :
        \E n \in 1..3 : /\ order[n] = p /\ writes[t][p] # <<>>
                        /\ \A m \in 1..(n - 1) : writes[t][order[m]] = <<>>

SendWrite(t) ==
  LET p == WritePort(t)
  IN  /\ \E q \in WritePorts : writes[t][q] # <<>>
      /\ writes' = [writes EXCEPT ![t][p] = Tail(@)]
      /\ acks' = [acks EXCEPT ![t] = Append(@, Head(writes[t][p]))]
      /\ lastPrimary' = IF p = 2 THEN lastPrimary ELSE [lastPrimary EXCEPT ![t] = p]
      /\ UNCHANGED <<engine, completed, producers, reader, memory, output, pushed,
                     written, signals>>

RetireWrite(t) ==
  /\ acks[t] # <<>>
  /\ acks' = [acks EXCEPT ![t] = Tail(@)]
  /\ Arrive(Head(acks[t]).id)
  /\ Complete(Head(acks[t]))
  /\ UNCHANGED <<engine, producers, reader, memory, output, writes, lastPrimary,
                 pushed, signals>>

-----------------------------------------------------------------------------

Init ==
  /\ \E w \in Workloads : program = w.mte1 /\ others = w.others
  /\ issued = 0 /\ pending = <<>> /\ completed = {}
  /\ selected = "none"
  /\ generation = [g \in Generators |-> None]
  /\ generated = [g \in Generators |-> <<>>]
  /\ inputs = [p \in InputPorts |-> <<>>] /\ lastSelected = 2
  /\ L1!Init
  /\ acknowledged = <<>> /\ expanded = FALSE /\ offset = 0 /\ retiring = <<>>
  /\ writes = [t \in Targets |-> [p \in WritePorts |-> <<>>]]
  /\ acks = [t \in Targets |-> <<>>] /\ lastPrimary = [t \in Targets |-> 1]
  /\ pushed = [o \in 1..Len(others) |-> 0]
  /\ written = [i \in Ids |-> 0]
  /\ signals = {}

\* The steps that move a command forward.
Advance ==
  \/ Issue \/ RetireCommand
  \/ \E i \in 1..Len(program), f \in {"wait", "set"} : Signal(f, i)
  \/ \E g \in Generators : Generate(g)
  \/ \E g \in Generators \ {"Set2d"} : SendRead(g)
  \/ SendFill
  \/ \E o \in 1..Len(others) : PushOther(o)
  \/ SendRequest \/ ReceiveResponse \/ SendOutput \/ RetireOutput
  \/ \E t \in Targets : SendWrite(t) \/ RetireWrite(t)

Next == Advance \/ RejectRequest \/ BlockOutput

Spec == Init /\ [][Next]_vars

\* The clock runs every callback whose queue has a head, L1 answers
\* (L1Memory!Answered), and the other pipes set and consume their flags.
FairSpec == Spec /\ WF_vars(Advance)

-----------------------------------------------------------------------------
(* Properties *)

\* The commands that may have something on the path.
Started == (1..issued) \cup ((Len(program) + 1)..(Len(program) + Len(others)))
Reqs    == [id : Started, index : Nat \ {0}]
Frags   == [id : Started, index : Nat \ {0}, part : Nat \ {0}]

EngineType ==
  /\ [mte1 |-> program, others |-> others] \in Workloads
  /\ issued \in 0..Len(program)
  /\ pending \in Seq(1..issued) /\ Len(pending) <= OutstandingLimit
  /\ completed \subseteq Started
  /\ signals \subseteq {"wait", "set"} \X (1..Len(program))
  /\ written \in [Ids -> Nat]
  /\ pushed \in [1..Len(others) -> Nat]
ProducerType ==
  /\ selected \in Generators \cup {"none", "Load3d"}
  /\ generation \in
       [Generators -> [id : 1..issued, next : Nat \ {0}] \cup {None}]
  /\ generated \in [Generators -> Seq(Reqs)]
  /\ \A g \in Generators : Len(generated[g]) <= GeneratedCapacity[g]
ReaderType ==
  /\ inputs \in [InputPorts -> Seq(Reqs)]
  /\ \A p \in InputPorts : Len(inputs[p]) <= InputCapacity
  /\ lastSelected \in InputPorts
  /\ memory \in [{"MteRead"} -> Seq(Reqs)]
OutputType ==
  /\ acknowledged \in Seq(Reqs)
  /\ expanded \in BOOLEAN /\ offset \in Nat
  /\ retiring \in Seq(Frags)
L0Type ==
  /\ writes \in [Targets -> [WritePorts -> Seq(Frags)]]
  /\ \A t \in Targets, p \in WritePorts :
       Len(writes[t][p]) <= WriteCapacity[p]
  /\ acks \in [Targets -> Seq(Frags)]
  /\ lastPrimary \in [Targets -> {0, 1}]

\* The queues hold requests and fragments of commands that were issued, and
\* respect the capacities the code checks before it pushes.
TypeOK == EngineType /\ ProducerType /\ ReaderType /\ OutputType /\ L0Type

\* The reads that will still produce output, and the fragments on their way.
ReadsUnderway ==
  {r \in UNION ({Range(generated[g]) : g \in Generators}
                \cup {Range(inputs[p]) : p \in InputPorts}
                \cup {Range(memory["MteRead"]), Range(acknowledged)}) :
     Cmd(r.id).op \in {"Set2d", "ExternalLoad2d"} \/ Request(r).to # "SparseIndex"}
FragmentsUnderway ==
  UNION ({Range(writes[t][p]) : t \in Targets, p \in WritePorts}
         \cup {Range(acks[t]) : t \in Targets} \cup {Range(retiring)})
ToGenerate(i) ==
  \E g \in Generators :
    /\ generation[g].id = i
    /\ \E k \in generation[g].next..RequestCount(Cmd(i)) :
         Cmd(i).op = "Set2d" \/ Request([id |-> i, index |-> k]).to # "SparseIndex"
Underway(i) ==
  \/ ToGenerate(i)
  \/ \E r \in ReadsUnderway : r.id = i
  \/ \E f \in FragmentsUnderway : f.id = i
  \/ i > Len(program) /\ pushed[i - Len(program)] < RequestCount(Cmd(i))

\* A command is reported complete when, and only when, nothing it writes is
\* on its way, and then every fragment has arrived: the marker on the last
\* fragment does not overtake the others.  This is what retirement, the flags
\* set at retirement and the barriers rely on.  (The index reads of a sparse
\* LOAD2D are not covered: they follow the last weights.)
CompletedWhenWritten ==
  \A i \in Started :
    /\ (i \in completed) <=> ~Underway(i)
    /\ i \in completed => written[i] = Outputs(Cmd(i))

\* A request comes before another one in the program.
Before(r, s) == r.id < s.id \/ (r.id = s.id /\ r.index < s.index)

\* Reads of MTE1, among those of the other users of the path.
Mte1Read(r) == r.id <= Len(program)

\* The reads between a generator and the output FIFO, oldest first.
WayOf(g) == acknowledged \o memory["MteRead"] \o inputs[0] \o generated[g]

\* The reads of MTE1 stay in program order on the whole way to the outputs,
\* although every kind of command has its own generator and all of them push
\* to the same port: a command waits until the previous generator is empty.
ReadsInProgramOrder ==
  \A g \in Generators \ {"Set2d"} :
    LET way == WayOf(g)
    IN  \A n \in DOMAIN way :
          Mte1Read(way[n]) =>
            /\ \A m \in 1..(n - 1) : Mte1Read(way[m]) => Before(way[m], way[n])
            /\ generation[g] # None =>
                 Before(way[n],
                        [id |-> generation[g].id, index |-> generation[g].next])

Service == INSTANCE CommandService WITH
  accepted <- issued, finished <- completed \cap (1..Len(program)),
  retired <- (1..issued) \ Range(pending)

\* MTE1 retires its commands in program order, each one after it completed,
\* although fills reach L0 before older loads that are still reading L1.
InOrderRetirement == Service!Spec

\* Every command is retired in the end: no order of commands, flags and other
\* readers leaves a queue waiting for room that depends on the waiter.
AllRetired ==
  <>(/\ issued = Len(program) /\ pending = <<>>
     /\ completed = Ids)
=============================================================================
