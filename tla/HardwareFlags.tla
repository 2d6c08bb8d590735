--------------------------- MODULE HardwareFlags ---------------------------
(***************************************************************************)
(* The hardware-flag table of a C220 core (sync.rs, sync/cube.rs) together *)
(* with its two clients on the matrix side: the Cube pipeline, whose       *)
(* HSET/HWAIT instructions gate on MMAD progress, and MTE1, whose flags    *)
(* are captured by the next transfer to the same memory (core/hflag.rs,    *)
(* mte/pipeline/sync.rs, mte/mte1/runtime.rs).                             *)
(*                                                                         *)
(* A set is admitted, stays pending until a notification scan finds its    *)
(* timestamp reached, and then becomes one visible token that one wait     *)
(* consumes.  All times are absolute ticks.  Every operation happens at    *)
(* the current tick `now'; advance_to is the only operation that moves it, *)
(* and while it works through its notifications nothing else runs.  The    *)
(* order in which the owner calls the operations within a tick is left     *)
(* open.                                                                   *)
(*                                                                         *)
(* A queue whose entries carry strictly increasing instruction ids is a    *)
(* set of entries, its head the entry with the least id; the pending list  *)
(* is a set because a scan treats its entries independently.               *)
(*                                                                         *)
(* A few definitions, such as DueStrictly, are faulty variants of the one  *)
(* that follows them.  The specification does not use them: each is a      *)
(* mutation that a property below is checked to notice.                    *)
(***************************************************************************)
EXTENDS Naturals, Sequences, FiniteSets

CONSTANTS
  Keys,        \* the counters in use: destination pipe, memory, event id
  AlmostFull,  \* C220_HARDWARE_FLAG_ALMOST_FULL: no admission from here on
  Capacity,    \* C220_HARDWARE_FLAG_CAPACITY: deliveries saturate here
  StageDelay,  \* C220CubeFlagStages: delay of checkpoint queues 0, 1 and 2
  TransferMemories, \* the memories MTE1 transfers write to
  TickWrap,    \* captured timestamps keep the tick modulo this (2^32)
  MaxTick,     \* bound on the clock
  MaxId        \* bound on instruction ids

FlagKey == [dest : {2, 3, 10}, memory : {"L0a", "L0b", "L0c", "BiasTable"}, event : 0..3]

\* The (source, destination, memory) routes the decoder accepts; the source
\* pipe is a function of the other two: 2 is Cube, 3 is MTE1, 10 is FIX.
Routed(k) ==
  \/ k.dest = 2
  \/ k.dest = 3  /\ k.memory # "L0c"
  \/ k.dest = 10 /\ k.memory = "L0c"

SourcePipe(k) == IF k.dest # 2 THEN 2 ELSE IF k.memory = "L0c" THEN 10 ELSE 3

\* Ticks from the admission of an untimestamped set to its notification.
VisibilityTicks(k) ==
  IF \/ k.dest = 2 /\ k.memory \in {"L0a", "L0b", "L0c"}
     \/ k.dest = 3 /\ k.memory = "BiasTable"
  THEN 1 ELSE 2

\* The set queue a non-triggered Cube set waits in.
CubeSetQueue(k) ==
  IF k.dest = 10 THEN 2 ELSE IF k.memory = "BiasTable" THEN 1 ELSE 0

ASSUME KeysAssumption  == Keys \subseteq {k \in FlagKey : Routed(k)}
ASSUME LimitAssumption == AlmostFull \in Nat /\ Capacity \in Nat /\ AlmostFull <= Capacity
ASSUME StageAssumption == StageDelay \in [0..2 -> Nat]
ASSUME TransferAssumption == TransferMemories \subseteq {"L0a", "L0b", "BiasTable"}
ASSUME WrapAssumption  == TickWrap \in Nat \ {0}
ASSUME BoundAssumption == MaxTick \in Nat /\ MaxId \in Nat

VARIABLES
  now, target, advancing,    \* the clock; the goal of a running advance_to
  counters,                  \* visible tokens per key
  pending,                   \* admitted sets: [id, key, admitted, timestamp]
  notifications,             \* ticks at which the delivery scan runs
  saturated,                 \* deliveries discarded at capacity, per key
  cubeWaits, cubeSets,       \* queued non-triggered Cube flags: [id, key]
  checkpoints,               \* four FIFOs of [tick, id]; 3 is the retry queue
  flights, head,             \* MMADs in order; progress of the first of them
  mteFlags,                  \* queued MTE1 flags: [id, op, key, timestamp]
  commands,                  \* MTE1 transfers with the flags they captured
  attempted,                 \* {} or the tick of the last retirement attempt
  nextId,
  issued, consumed           \* history, per key: sets admitted and tokens taken

timeVars  == <<now, target, advancing>>
tableVars == <<counters, pending, notifications, saturated>>
cubeVars  == <<cubeWaits, cubeSets, checkpoints, flights, head>>
mteVars   == <<mteFlags, commands, attempted>>
histVars  == <<issued, consumed>>
vars == <<timeVars, tableVars, cubeVars, mteVars, nextId, histVars>>

Init ==
  /\ now = 0 /\ target = 0 /\ advancing = FALSE
  /\ counters = [k \in Keys |-> 0] /\ saturated = counters
  /\ pending = {} /\ notifications = {}
  /\ cubeWaits = {} /\ cubeSets = [q \in 0..2 |-> {}]
  /\ checkpoints = [q \in 0..3 |-> <<>>]
  /\ flights = <<>> /\ head = "gated"
  /\ mteFlags = {} /\ commands = <<>> /\ attempted = {}
  /\ nextId = 0
  /\ issued = counters /\ consumed = counters

-----------------------------------------------------------------------------
(* The table                                                               *)

Admits(c, k) == c[k] < AlmostFull

\* schedule_event: a zero timestamp asks for the full visibility delay, any
\* other is kept and its notification comes one tick later.
NotificationTick(e, t) ==
  IF e.timestamp = 0 THEN t + VisibilityTicks(e.key) ELSE t + 1

PendingEntry(e, t) ==
  [id |-> e.id, key |-> e.key, admitted |-> t,
   timestamp |-> IF e.timestamp = 0 THEN NotificationTick(e, t) ELSE e.timestamp]

Of(S, k) == {e \in S : e.key = k}

\* The history of admissions with the events of S.
Issue(S) == issued' = [k \in Keys |-> issued[k] + Cardinality(Of(S, k))]

\* Admit every event of S at tick t; the callers check Admits.
Schedule(S, t) ==
  /\ pending' = pending \cup {PendingEntry(e, t) : e \in S}
  /\ notifications' = notifications \cup {NotificationTick(e, t) : e \in S}
  /\ Issue(S)

Untimed(e) == [id |-> e.id, key |-> e.key, timestamp |-> 0]

\* consume_wait on a set of keys, one token each.
Consume(K) ==
  /\ counters' = [k \in Keys |-> IF k \in K THEN counters[k] - 1 ELSE counters[k]]
  /\ consumed' = [k \in Keys |-> IF k \in K THEN consumed[k] + 1 ELSE consumed[k]]

HeadTicks == {Head(checkpoints[q]).tick : q \in {r \in 0..3 : checkpoints[r] # <<>>}}

WakeTicks == notifications \cup HeadTicks

\* next_notification_tick
NextNotification(t) == \A u \in WakeTicks : t <= u

DueStrictly(t) == {p \in pending : p.admitted <= t /\ p.timestamp < t}

\* deliver_at: what the scan at tick t takes out of the pending list.
Due(t) == {p \in pending : p.admitted <= t /\ p.timestamp <= t}

DueCount(t, k) == Cardinality(Of(Due(t), k))

DeliveredUnbounded(t, k) == counters[k] + DueCount(t, k)

Delivered(t, k) ==
  IF counters[k] + DueCount(t, k) <= Capacity
  THEN counters[k] + DueCount(t, k) ELSE Capacity

VisibleAfter(t) ==
  IF t \in notifications THEN [k \in Keys |-> Delivered(t, k)] ELSE counters

\* saturated_deliveries, which the code sums over the keys.
Overflow(t, k) ==
  IF t \in notifications THEN counters[k] + DueCount(t, k) - Delivered(t, k) ELSE 0

LeftAfterEarly(t) ==
  IF t \in notifications THEN {p \in pending : p.admitted > t} ELSE pending

LeftAfter(t) == IF t \in notifications THEN pending \ Due(t) ELSE pending

-----------------------------------------------------------------------------
(* advance_to and the Cube checkpoints                                     *)

ReleasedOutOfOrder(Q, id, c) == {s \in Q : s.id < id /\ Admits(c, s.key)}

\* release_cube_sets: the sets older than the checkpoint's instruction, in
\* order, up to the first whose counter is almost full.
Released(Q, id, c) ==
  {s \in Q : s.id < id /\ \A r \in Q : r.id <= s.id => Admits(c, r.key)}

AllReleased(Q, id, c) == \A s \in Q : s.id < id => s \in Released(Q, id, c)

DueHead(q, t) == checkpoints[q] # <<>> /\ Head(checkpoints[q]).tick <= t

\* The sets queue q releases at tick t out of what queue 2 still holds when
\* the retry queue gets its turn.
CheckpointRelease(q, Q, t, c) ==
  IF DueHead(q, t) THEN Released(Q, Head(checkpoints[q]).id, c) ELSE {}

NoBackoff(tick, t) == tick

\* The earliest tick the new head of a checkpoint queue may act in.
NextTurn(tick, t) == IF tick > t THEN tick ELSE t + 1

\* A checkpoint whose sets all went is dropped; whichever checkpoint is then
\* first gets its turn in a later tick.
Rearmed(q, Q, t, c) ==
  LET rest == IF AllReleased(Q, Head(checkpoints[q]).id, c)
              THEN Tail(checkpoints[q]) ELSE checkpoints[q]
  IN  IF ~DueHead(q, t) THEN checkpoints[q]
      ELSE IF rest = <<>> THEN <<>>
      ELSE [rest EXCEPT ![1].tick = NextTurn(@, t)]

AdvanceTo ==
  /\ ~advancing
  /\ \E t \in now..MaxTick : target' = t
  /\ advancing' = TRUE
  /\ UNCHANGED <<now, tableVars, cubeVars, mteVars, nextId, histVars>>

\* One turn of advance_to's loop: a delivery scan if one is armed, then
\* advance_cube_checkpoints over the four queues in order.
Notify ==
  /\ advancing
  /\ \E t \in WakeTicks :
       LET c  == VisibleAfter(t)
           r(q) == CheckpointRelease(q, cubeSets[q], t, c)
           left == cubeSets[2] \ r(2)
           r3   == CheckpointRelease(3, left, t, c)
           all  == r(0) \cup r(1) \cup r(2) \cup r3
       IN /\ NextNotification(t)
          /\ t <= target
          /\ counters' = c
          /\ pending' = LeftAfter(t) \cup {PendingEntry(Untimed(s), t) : s \in all}
          /\ notifications' = (notifications \ {t})
                                \cup {NotificationTick(Untimed(s), t) : s \in all}
          /\ Issue(all)
          /\ saturated' = [k \in Keys |-> saturated[k] + Overflow(t, k)]
          /\ cubeSets' = [q \in 0..2 |-> IF q = 2 THEN left \ r3 ELSE cubeSets[q] \ r(q)]
          /\ checkpoints' = [q \in 0..3 |->
                               Rearmed(q, IF q = 3 THEN left ELSE cubeSets[q], t, c)]
  /\ UNCHANGED <<timeVars, cubeWaits, flights, head, mteVars, nextId, consumed>>

AdvanceDone ==
  /\ advancing
  /\ \A t \in WakeTicks : t > target
  /\ now' = target
  /\ advancing' = FALSE
  /\ UNCHANGED <<target, tableVars, cubeVars, mteVars, nextId, histVars>>

-----------------------------------------------------------------------------
(* The Cube pipeline's flag instructions and MMADs                         *)

Fresh == ~advancing /\ nextId < MaxId /\ nextId' = nextId + 1

\* has_pending_cube_flag
PendingCubeFlag(k) ==
  \E f \in cubeWaits \cup cubeSets[0] \cup cubeSets[1] \cup cubeSets[2] : f.key = k

DispatchCubeSet(k) ==
  /\ Fresh /\ SourcePipe(k) = 2
  /\ ~PendingCubeFlag(k)
  /\ cubeSets' = [cubeSets EXCEPT ![CubeSetQueue(k)] = @ \cup {[id |-> nextId, key |-> k]}]
  /\ UNCHANGED <<timeVars, tableVars, cubeWaits, checkpoints, flights, head, mteVars, histVars>>

DispatchCubeTriggeredSet(k) ==
  /\ Fresh /\ SourcePipe(k) = 2
  /\ ~PendingCubeFlag(k)
  /\ Admits(counters, k)
  /\ Schedule({[id |-> nextId, key |-> k, timestamp |-> 0]}, now)
  /\ UNCHANGED <<timeVars, counters, saturated, cubeVars, mteVars, consumed>>

DispatchCubeWait(k) ==
  /\ Fresh /\ k.dest = 2
  /\ ~PendingCubeFlag(k)
  /\ cubeWaits' = cubeWaits \cup {[id |-> nextId, key |-> k]}
  /\ UNCHANGED <<timeVars, tableVars, cubeSets, checkpoints, flights, head, mteVars, histVars>>

DispatchCubeTriggeredWait(k) ==
  /\ Fresh /\ k.dest = 2
  /\ ~PendingCubeFlag(k)
  /\ counters[k] > 0
  /\ Consume({k})
  /\ UNCHANGED <<timeVars, pending, notifications, saturated, cubeVars, mteVars, issued>>

AcceptMmad ==
  /\ Fresh
  /\ flights' = Append(flights, nextId)
  /\ UNCHANGED <<timeVars, tableVars, cubeWaits, cubeSets, checkpoints, head, mteVars, histVars>>

\* gate_cube_instruction at the first uop: the older waits are consumed in
\* order up to the first without a token.  PendingCubeFlag keeps the keys of
\* queued waits distinct, so each needs one token.
Gated(id) == {w \in cubeWaits : w.id < id /\ \A v \in cubeWaits : v.id <= w.id => counters[v.key] > 0}

GateOpen == \A w \in cubeWaits : w.id >= Head(flights)

GateMmad ==
  /\ ~advancing /\ flights # <<>> /\ head = "gated"
  /\ LET go == Gated(Head(flights))
     IN /\ go # {}
        /\ Consume({w.key : w \in go})
        /\ cubeWaits' = cubeWaits \ go
  /\ UNCHANGED <<timeVars, pending, notifications, saturated, cubeSets, checkpoints,
                 flights, head, mteVars, nextId, issued>>

Checkpoint(q, t) == [checkpoints EXCEPT ![q] = Append(@, [tick |-> t, id |-> Head(flights)])]

\* The gate is open: the first uop goes, and an MMAD that synchronizes on
\* unit flags first tries the L0C sets (check_cube_unit_flag_set).
StartMmad(unitFlag) ==
  /\ ~advancing /\ flights # <<>> /\ head = "gated"
  /\ GateOpen
  /\ head' = "running"
  /\ IF ~unitFlag
     THEN UNCHANGED <<cubeSets, checkpoints, pending, notifications, issued>>
     ELSE LET go == Released(cubeSets[2], Head(flights), counters)
          IN /\ Schedule({Untimed(s) : s \in go}, now)
             /\ cubeSets' = [cubeSets EXCEPT ![2] = @ \ go]
             /\ checkpoints' = IF AllReleased(cubeSets[2], Head(flights), counters)
                               THEN checkpoints ELSE Checkpoint(3, now + 1)
  /\ UNCHANGED <<timeVars, counters, saturated, cubeWaits, flights, mteVars, nextId, consumed>>

\* The uop that finishes reading the bias table.
BiasCheckpoint ==
  /\ ~advancing /\ flights # <<>> /\ head = "running"
  /\ checkpoints' = Checkpoint(1, now + StageDelay[1])
  /\ head' = "biased"
  /\ UNCHANGED <<timeVars, tableVars, cubeWaits, cubeSets, flights, mteVars, nextId, histVars>>

\* The last uop is released.
FinishMmad ==
  /\ ~advancing /\ flights # <<>> /\ head # "gated"
  /\ LET point(q) == [tick |-> now + StageDelay[q], id |-> Head(flights)]
     IN checkpoints' = [checkpoints EXCEPT ![0] = Append(@, point(0)),
                                           ![2] = Append(@, point(2))]
  /\ flights' = Tail(flights)
  /\ head' = "gated"
  /\ UNCHANGED <<timeVars, tableVars, cubeWaits, cubeSets, mteVars, nextId, histVars>>

-----------------------------------------------------------------------------
(* MTE1                                                                    *)

\* execution_pipe_code
ExecutionPipe(op, k) == IF op = "set" THEN SourcePipe(k) ELSE k.dest

InPhase(p) == {i \in DOMAIN commands : commands[i].phase = p}

\* The command queue dispatches in order: nothing overtakes a disabled
\* transfer that still waits for its flags.
Mte1Dispatch == Fresh /\ InPhase("disabled") = {}

\* capture_mte: the low bits of the issue clock.
CaptureMte == now % TickWrap

\* enqueue_mte_flag drops a flag that is already queued.
EnqueueMteFlag(op, k) ==
  /\ Mte1Dispatch /\ ExecutionPipe(op, k) = 3
  /\ mteFlags' = IF \E f \in mteFlags : f.op = op /\ f.key.memory = k.memory /\ f.key.event = k.event
                 THEN mteFlags
                 ELSE mteFlags \cup {[id |-> nextId, op |-> op, key |-> k, timestamp |-> CaptureMte]}
  /\ UNCHANGED <<timeVars, tableVars, cubeVars, commands, attempted, histVars>>

\* A triggered MTE1 flag waits for the selected generator to be idle; when
\* the FIX engine lets its triggered flags go is left open.
TriggerReady(op, k) ==
  \/ ExecutionPipe(op, k) = 3 /\ InPhase("disabled") = {} /\ InPhase("generating") = {}
  \/ ExecutionPipe(op, k) = 10

TriggeredMteSet(k) ==
  /\ Fresh /\ TriggerReady("set", k)
  /\ Admits(counters, k)
  /\ Schedule({[id |-> nextId, key |-> k, timestamp |-> CaptureMte]}, now)
  /\ UNCHANGED <<timeVars, counters, saturated, cubeVars, mteVars, consumed>>

TriggeredMteWait(k) ==
  /\ Fresh /\ TriggerReady("wait", k)
  /\ counters[k] > 0
  /\ Consume({k})
  /\ UNCHANGED <<timeVars, pending, notifications, saturated, cubeVars, mteVars, issued>>

\* capture_mte1_flags: the transfer takes the older queued flags of its
\* memory.  A disabled transfer moves no data and is held back at dispatch.
IssueTransfer(memory, phase) ==
  /\ Mte1Dispatch
  /\ LET mine == {f \in mteFlags : f.id < nextId /\ f.key.memory = memory}
     IN /\ mteFlags' = mteFlags \ mine
        /\ commands' = Append(commands,
             [id |-> nextId, phase |-> phase, done |-> {},
              waits |-> {f \in mine : f.op = "wait"}, sets |-> {f \in mine : f.op = "set"}])
  /\ UNCHANGED <<timeVars, tableVars, cubeVars, attempted, histVars>>

\* disabled_mte1_sync_blocked: the sets first, each by itself; if none was
\* refused the waits; with both gone the transfer is complete as issued.
ResolveDisabled(i) ==
  /\ ~advancing /\ i \in InPhase("disabled")
  /\ LET sets  == {f \in commands[i].sets : Admits(counters, f.key)}
         waits == IF sets # commands[i].sets THEN {}
                  ELSE {f \in commands[i].waits : counters[f.key] > 0}
     IN /\ Schedule(sets, now)
        /\ Consume({f.key : f \in waits})
        /\ commands' =
             IF sets = commands[i].sets /\ waits = commands[i].waits
             THEN [commands EXCEPT ![i].sets = {}, ![i].waits = {},
                                   ![i].phase = "sent", ![i].done = {now}]
             ELSE [commands EXCEPT ![i].sets = @ \ sets, ![i].waits = @ \ waits]
  /\ UNCHANGED <<timeVars, saturated, cubeVars, mteFlags, attempted, nextId>>

\* resolve_mte1_sync before a request of the generating transfer is sent:
\* every wait whose token is there is taken, the others hold the request.
ResolveWaits(i) ==
  /\ ~advancing /\ i \in InPhase("generating")
  /\ \A j \in InPhase("generating") : i <= j
  /\ LET go == {f \in commands[i].waits : counters[f.key] > 0}
     IN /\ Consume({f.key : f \in go})
        /\ commands' = [commands EXCEPT ![i].waits = @ \ go,
                                        ![i].phase = IF go = commands[i].waits THEN "sent" ELSE @]
  /\ UNCHANGED <<timeVars, pending, notifications, saturated, cubeVars, mteFlags, attempted,
                 nextId, issued>>

\* observe_completions: the destination acknowledged the last fragment.
CompleteTransfer(i) ==
  /\ ~advancing /\ i \in InPhase("sent") /\ commands[i].done = {}
  /\ commands' = [commands EXCEPT ![i].done = {now}]
  /\ UNCHANGED <<timeVars, tableVars, cubeVars, mteFlags, attempted, nextId, histVars>>

RetiresAnyway(go) == TRUE

Retires(go) == go = Head(commands).sets

\* try_retire_head, once per tick and after the completion tick: each
\* captured set is attempted by itself; the command leaves if none was refused.
RetireTransfer ==
  /\ ~advancing /\ commands # <<>> /\ attempted # {now}
  /\ \E t \in Head(commands).done : t < now
  /\ attempted' = {now}
  /\ LET go == {f \in Head(commands).sets : Admits(counters, f.key)}
     IN /\ Schedule(go, now)
        /\ commands' = IF Retires(go) THEN Tail(commands)
                       ELSE [commands EXCEPT ![1].sets = @ \ go]
  /\ UNCHANGED <<timeVars, counters, saturated, cubeVars, mteFlags, nextId, consumed>>

-----------------------------------------------------------------------------
Next ==
  \/ AdvanceTo \/ Notify \/ AdvanceDone
  \/ \E k \in Keys : DispatchCubeSet(k) \/ DispatchCubeTriggeredSet(k)
                       \/ DispatchCubeWait(k) \/ DispatchCubeTriggeredWait(k)
  \/ AcceptMmad \/ GateMmad \/ BiasCheckpoint \/ FinishMmad
  \/ \E b \in BOOLEAN : StartMmad(b)
  \/ \E k \in Keys : TriggeredMteSet(k) \/ TriggeredMteWait(k)
                       \/ \E op \in {"set", "wait"} : EnqueueMteFlag(op, k)
  \/ \E m \in TransferMemories, p \in {"generating", "disabled"} : IssueTransfer(m, p)
  \/ \E i \in DOMAIN commands : ResolveDisabled(i) \/ ResolveWaits(i) \/ CompleteTransfer(i)
  \/ RetireTransfer

Spec == Init /\ [][Next]_vars

\* advance_to runs to its end once called.
FairSpec == Spec /\ WF_vars(Notify) /\ WF_vars(AdvanceDone)

-----------------------------------------------------------------------------
(* Properties                                                              *)

Point    == [tick : Nat, id : Nat]
Flag     == [id : Nat, key : Keys]
MteFlag  == [id : Nat, op : {"set", "wait"}, key : Keys, timestamp : Nat]
Command  == [id : Nat, phase : {"generating", "disabled", "sent"}, done : SUBSET Nat,
             waits : SUBSET MteFlag, sets : SUBSET MteFlag]

\* The type of the table, of the Cube queues and of the MTE1 queues; no
\* counter goes below zero or above the capacity.
TypeOK ==
  /\ now \in Nat /\ target \in Nat /\ advancing \in BOOLEAN
  /\ counters \in [Keys -> 0..Capacity]
  /\ pending \subseteq [id : Nat, key : Keys, admitted : Nat, timestamp : Nat]
  /\ notifications \subseteq Nat
  /\ cubeWaits \subseteq Flag
  /\ cubeSets \in [0..2 -> SUBSET Flag]
  /\ checkpoints \in [0..3 -> Seq(Point)]
  /\ flights \in Seq(Nat) /\ head \in {"gated", "running", "biased"}
  /\ mteFlags \subseteq MteFlag /\ commands \in Seq(Command) /\ attempted \subseteq Nat
  /\ nextId \in Nat

\* No admitted set is ever stranded: some armed notification comes late
\* enough to deliver it, although schedule_event keeps a captured timestamp
\* and arms only one notification, at the next tick.
NoStrandedSet ==
  \A p \in pending : \E n \in notifications : n >= p.admitted /\ n >= p.timestamp

CubeFlags == cubeWaits \cup cubeSets[0] \cup cubeSets[1] \cup cubeSets[2]

\* Every admitted set is pending, visible, consumed or counted as saturated,
\* each under its own key: no token is lost, made up or moved to another flag
\* by the shared delivery scans, the checkpoint retries or the partial
\* retirement of captured sets.
TokenConservation ==
  \A k \in Keys :
    issued[k] = Cardinality(Of(pending, k)) + counters[k] + consumed[k] + saturated[k]

\* Sets of one Cube queue are admitted in instruction order, also when a full
\* counter held the queue back and a retry checkpoint releases the rest.
SetsReleasedInOrder ==
  [][\A q \in 0..2 : \A s \in cubeSets[q] \ cubeSets'[q] :
       \A r \in cubeSets[q] : r.id < s.id => r \notin cubeSets'[q]]_vars

\* A retired transfer took all its flags along: no wait unconsumed and no
\* set unadmitted when the command leaves the engine.
RetiredWithItsFlags ==
  [][Len(commands') < Len(commands) =>
       /\ Head(commands).waits = {}
       /\ \A f \in Head(commands).sets : \E p \in pending' : p.id = f.id]_vars

\* advance_to always returns: every turn of its loop moves the next wake tick
\* past the one just handled, also while a full counter keeps a checkpoint at
\* the head of its queue.
AdvanceEnds == advancing ~> ~advancing
=============================================================================
