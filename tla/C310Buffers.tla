------------------------------ MODULE C310Buffers ------------------------------
(***************************************************************************)
(* The scalar front end of the second architecture: GET and RELEASE of     *)
(* numbered buffers, pushes into the predicate buffer, and vector          *)
(* functions issued from it.                                               *)
(*   src/src/sim/c310/buffer.rs, buffer_bus.rs, issue_queue.rs,            *)
(*   predicate_buffer.rs, predicate_buffer_bus.rs, vector_queue.rs,        *)
(*   predicate.rs, scalar.rs, src/src/isa/c310/buffer.rs, dispatch.rs      *)
(* A buffer is a ring of tickets: each GET takes the next one and, when it *)
(* goes through a pipe, waits there until every ticket before it has been  *)
(* released.  The pipes that empty the issue queues and the vector engine  *)
(* are not in the repository: they are any consumers that call the         *)
(* interface as its tests do.  A step that fails with an error changes     *)
(* nothing and is not retried with success, as a stalled one changes       *)
(* nothing: neither is an action.  RingFullUnwrapped is a faulty variant   *)
(* of RingFull, used by no definition.                                     *)
(***************************************************************************)
EXTENDS Integers, Sequences, FiniteSets, ScalarWords

CONSTANTS Buffers,         \* buffer numbers
          RingSize,        \* tickets of a buffer, one of which is never handed out
          DirectReleases,  \* whether a GET may follow a RELEASE of its own pipe at once: the choices
          QueueCapacity,   \* entries of an issue queue
          SlotCount,       \* slots of the predicate buffer
          SlotPushes,      \* pushes that fill a slot
          BufferPrograms,  \* sequences of steps
          MaxBufferTick

ASSUME BufferAssumption ==
  /\ RingSize \in Nat /\ RingSize >= 2
  /\ QueueCapacity \in Nat \ {0} /\ SlotCount \in Nat \ {0} /\ SlotPushes \in Nat \ {0}
  /\ DirectReleases \subseteq BOOLEAN /\ MaxBufferTick \in Nat

IssuePipes == {1, 2, 3, 4, 5, 10}
NoSlot == 0
Never == -1

VARIABLES steps,       \* the program: [op, buffer, pipe, mode], [op, registers] or [op, vector]
          direct,      \* whether a GET may follow a RELEASE of its own pipe at once
          at,          \* the step the front end is at
          counters,    \* per buffer: dispatch, release, total, outstanding, lastTick
          entries,     \* per buffer: the pipe of the last RELEASE, while no GET used it
          accepted,    \* the route of each step accepted so far
          queues,      \* per pipe: the numbers of the steps waiting in it
          predicate,   \* slots (the pushes each holds), occupied, active, cursor
          outstanding, \* vector issues that have not completed: [step, slot]
          rvec,        \* issues and executions of the vector engine
          clock,
          passed       \* history: when a GET was granted, a RELEASE retired

bufferVars == <<steps, direct, at, counters, entries, accepted, queues, predicate, outstanding, rvec, clock, passed>>

NewCounter == [dispatch |-> 0, release |-> 0, total |-> 0, outstanding |-> 0, lastTick |-> 0]
NewPredicate ==
  [slots |-> [s \in 1..SlotCount |-> [q \in 1..SlotPushes |-> 0]],
   occupied |-> [s \in 1..SlotCount |-> FALSE], active |-> NoSlot, cursor |-> 0]

BuffersStart(programs, choices) ==
  /\ steps \in programs /\ direct \in choices /\ at = 1
  /\ counters = [b \in Buffers |-> NewCounter]
  /\ entries = [b \in Buffers |-> [valid |-> FALSE, pipe |-> 0]]
  /\ accepted = <<>>
  /\ queues = [p \in IssuePipes |-> <<>>]
  /\ predicate = NewPredicate /\ outstanding = <<>>
  /\ rvec = [issues |-> 0, executions |-> 0]
  /\ clock = 0
  /\ passed = [k \in DOMAIN steps |-> Never]
BuffersInit == BuffersStart(BufferPrograms, DirectReleases)

-----------------------------------------------------------------------------
(* Tickets *)

NextTicket(c) == IF c = RingSize - 1 THEN 0 ELSE c + 1
RingFullUnwrapped(b) == counters[b].release = counters[b].dispatch + 1
RingFull(b) == counters[b].release = NextTicket(counters[b].dispatch)

RecordDispatch(b, queued) ==
  counters' = [counters EXCEPT ![b].dispatch = NextTicket(@), ![b].total = @ + 1,
                               ![b].outstanding = IF queued THEN @ + 1 ELSE @]

Room(p) == Len(queues[p]) < QueueCapacity
JoinQueue(p) == queues' = [queues EXCEPT ![p] = Append(@, at)]

\* The step is done with: its route is recorded and the front end moves on
Accept(route) == accepted' = Append(accepted, route) /\ at' = at + 1
Route(kind, expected) == [kind |-> kind, expected |-> expected]

\* A GET that asks for no order, or that follows a RELEASE of its own pipe
GoesDirect(s) == s.mode = 1 \/ (direct /\ entries[s.buffer].valid /\ entries[s.buffer].pipe = s.pipe)

\* The ring is looked at first, then the queue of the pipe
CanGet(s) == ~RingFull(s.buffer) /\ (GoesDirect(s) \/ (s.pipe \in IssuePipes /\ Room(s.pipe)))

DirectGet(s) ==
  /\ s.op = "get" /\ CanGet(s) /\ GoesDirect(s)
  /\ entries' = IF s.mode = 1 THEN entries ELSE [entries EXCEPT ![s.buffer].valid = FALSE]
  /\ RecordDispatch(s.buffer, FALSE)
  /\ Accept(Route("DirectGet", counters[s.buffer].dispatch))
  /\ passed' = [passed EXCEPT ![at] = clock]
  /\ UNCHANGED <<queues, predicate, outstanding, rvec>>

QueuedGet(s) ==
  /\ s.op = "get" /\ CanGet(s) /\ ~GoesDirect(s) /\ JoinQueue(s.pipe)
  /\ RecordDispatch(s.buffer, TRUE)
  /\ Accept(Route("QueuedGet", counters[s.buffer].dispatch))
  /\ UNCHANGED <<entries, predicate, outstanding, rvec, passed>>

\* Without a pipe a RELEASE is accepted and nobody will ever retire it
CanRelease(s) == s.pipe = 0 \/ (s.pipe \in IssuePipes /\ Room(s.pipe))

ReleaseBuffer(s) ==
  /\ s.op = "release" /\ CanRelease(s)
  /\ \/ /\ s.pipe = 0 /\ Accept(Route("NoPipeRelease", 0))
        /\ UNCHANGED <<queues, entries>>
     \/ /\ s.pipe # 0 /\ JoinQueue(s.pipe)
        /\ entries' = [entries EXCEPT ![s.buffer] = [valid |-> TRUE, pipe |-> s.pipe]]
        /\ Accept(Route("QueuedRelease", 0))
  /\ UNCHANGED <<counters, predicate, outstanding, rvec, passed>>

-----------------------------------------------------------------------------
(* The predicate buffer *)

IdleSlots == {s \in 1..SlotCount : ~predicate.occupied[s]}
FirstIdle == CHOOSE s \in IdleSlots : \A t \in IdleSlots : s <= t

\* A full buffer refuses a push, one that would go on filling the active slot included
CanPush == IdleSlots # {} /\ predicate.cursor < SlotPushes

PushPredicate(s) ==
  /\ s.op = "push" /\ CanPush
  /\ LET slot == IF predicate.cursor = 0 THEN FirstIdle ELSE predicate.active
         opened == [predicate EXCEPT !.occupied[slot] = @ \/ predicate.cursor = 0, !.active = slot]
     IN predicate' = [opened EXCEPT !.slots[slot][predicate.cursor + 1] = at, !.cursor = @ + 1]
  /\ Accept(Route("Push", 0))
  /\ UNCHANGED <<counters, entries, queues, outstanding, rvec, passed>>

\* The vector engine takes a function when the one before it has left its issue stage
SimdGateOpen == rvec.issues = 0

CanIssueVector == predicate.active # NoSlot /\ SimdGateOpen

IssueVector(s) ==
  /\ s.op = "vector" /\ CanIssueVector
  /\ rvec' = [issues |-> 1, executions |-> rvec.executions + 1]
  /\ outstanding' = Append(outstanding, [step |-> at, slot |-> predicate.active])
  /\ predicate' = [predicate EXCEPT !.cursor = 0]
  /\ Accept(Route("Vector", 0))
  /\ UNCHANGED <<counters, entries, queues, passed>>

Scalar ==
  /\ at \in DOMAIN steps
  /\ LET s == steps[at] IN DirectGet(s) \/ QueuedGet(s) \/ ReleaseBuffer(s) \/ PushPredicate(s) \/ IssueVector(s)
  /\ UNCHANGED <<steps, direct, clock>>

-----------------------------------------------------------------------------
(* The consumers *)

\* All the tickets before this one are released, the last of them at an earlier tick
GateReady(b, expected, now) == expected = counters[b].release /\ counters[b].lastTick # now

PopGet(p, k) ==
  LET b == steps[k].buffer
  IN /\ steps[k].op = "get" /\ GateReady(b, accepted[k].expected, clock)
     /\ counters' = [counters EXCEPT ![b].outstanding = @ - 1]

RetireRelease(p, k) ==
  LET b == steps[k].buffer
  IN /\ steps[k].op = "release"
     /\ counters' = [counters EXCEPT ![b].release = NextTicket(@),
                                     ![b].lastTick = IF steps[k].mode # 1 THEN clock ELSE @]

Pop(p) ==
  /\ queues[p] # <<>>
  /\ PopGet(p, Head(queues[p])) \/ RetireRelease(p, Head(queues[p]))
  /\ queues' = [queues EXCEPT ![p] = Tail(@)]
  /\ passed' = [passed EXCEPT ![Head(queues[p])] = clock]
  /\ UNCHANGED <<steps, direct, at, entries, accepted, predicate, outstanding, rvec, clock>>

CompleteIssue ==
  /\ rvec.issues > 0
  /\ rvec' = [rvec EXCEPT !.issues = @ - 1]
  /\ UNCHANGED <<steps, direct, at, counters, entries, accepted, queues, predicate, outstanding, clock, passed>>

\* The first outstanding issue of the slot completes and the slot is free again
CompleteExecution(slot) ==
  /\ \E k \in DOMAIN outstanding :
       /\ outstanding[k].slot = slot /\ \A j \in 1..k - 1 : outstanding[j].slot # slot
       /\ outstanding' = SubSeq(outstanding, 1, k - 1) \o SubSeq(outstanding, k + 1, Len(outstanding))
  /\ rvec.executions > 0 /\ rvec' = [rvec EXCEPT !.executions = @ - 1]
  /\ predicate' = [predicate EXCEPT !.occupied[slot] = FALSE]
  /\ UNCHANGED <<steps, direct, at, counters, entries, accepted, queues, clock, passed>>

TickBuffers ==
  /\ clock < MaxBufferTick /\ clock' = clock + 1
  /\ UNCHANGED <<steps, direct, at, counters, entries, accepted, queues, predicate, outstanding, rvec, passed>>

BuffersNext ==
  \/ Scalar
  \/ \E p \in IssuePipes : Pop(p)
  \/ CompleteIssue
  \/ \E slot \in 1..SlotCount : CompleteExecution(slot)
  \/ TickBuffers

BuffersSpec == BuffersInit /\ [][BuffersNext]_bufferVars

-----------------------------------------------------------------------------
Gets(b) == {k \in DOMAIN steps : steps[k].op = "get" /\ steps[k].buffer = b}
Releases(b) == {k \in DOMAIN steps : steps[k].op = "release" /\ steps[k].buffer = b}
Passed(k) == passed[k] # Never
Retired(b) == {k \in Releases(b) : Passed(k)}

\* A GET that waits for its turn is granted only when every RELEASE before it in the program has been
\* retired, at an earlier tick if that RELEASE asks for it; one that goes direct leaves unretired only
\* RELEASEs of its own pipe, which whatever the pipe gets next stands behind.
\* (buffer.rs:17-33, 205-262, 387-398)
BufferExclusive ==
  \A b \in Buffers : \A k \in Gets(b) : \A r \in Releases(b) :
    (Passed(k) /\ r < k /\ steps[k].mode # 1 /\ steps[r].pipe # 0) =>
      IF accepted[k].kind = "QueuedGet"
      THEN Passed(r) /\ (IF steps[r].mode = 1 THEN passed[r] <= passed[k] ELSE passed[r] < passed[k])
      ELSE Passed(r) \/ steps[r].pipe = steps[k].pipe

\* The tickets out are the GETs accepted and not released: fewer than the ring has, so that no two of
\* them are alike, and the gate of a queued GET opens for its own turn only.
\* (buffer.rs:336-405, 431-437)
TicketsOut(b) == counters[b].total - Cardinality(Retired(b))
TicketsDistinct ==
  \A b \in Buffers :
    /\ TicketsOut(b) \in 0..RingSize - 1
    /\ counters[b].dispatch = counters[b].total % RingSize
    /\ counters[b].release = Cardinality(Retired(b)) % RingSize
    /\ counters[b].outstanding = Cardinality({k \in Gets(b) : k < at /\ ~Passed(k)})

\* Every vector function outstanding finds in its slot what was pushed for it and nothing later: the
\* pushes between the function before it and it.
\* (predicate_buffer.rs:83-148, predicate_buffer_bus.rs:90-108, 170-187)
Earlier(k) == {j \in 1..k - 1 : steps[j].op = "vector"}
PushesOf(k) == {j \in 1..k - 1 : steps[j].op = "push" /\ \A v \in Earlier(k) : v < j}
PayloadKept ==
  \A i \in DOMAIN outstanding :
    LET pushes == PushesOf(outstanding[i].step)
        slot == outstanding[i].slot
    IN /\ predicate.occupied[slot]
       /\ \A j \in pushes : predicate.slots[slot][Cardinality({l \in pushes : l <= j})] = j
       /\ \A m \in DOMAIN outstanding : m # i => outstanding[m].slot # slot

\* The front end and the pipes never wait for one another: unless the program is over, a step is
\* accepted, an entry leaves its queue now or at the next tick, or the vector engine completes
\* something.
\* (buffer_bus.rs:134-171, predicate_buffer.rs:79-90)
CanAccept(s) ==
  CASE s.op = "get" -> CanGet(s) [] s.op = "release" -> CanRelease(s)
    [] s.op = "push" -> CanPush [] s.op = "vector" -> CanIssueVector
Progress ==
  \/ at \in DOMAIN steps /\ CanAccept(steps[at])
  \/ \E p \in IssuePipes :
       /\ queues[p] # <<>>
       /\ LET k == Head(queues[p])
          IN steps[k].op = "release" \/ GateReady(steps[k].buffer, accepted[k].expected, clock + 1)
  \/ rvec.issues > 0 \/ outstanding # <<>>
NeverStuck == Progress \/ (at > Len(steps) /\ \A p \in IssuePipes : queues[p] = <<>>)

BuffersInOrder == BufferExclusive /\ TicketsDistinct /\ PayloadKept /\ NeverStuck

-----------------------------------------------------------------------------
(* The words of the front end, and what a vector function finds in its     *)
(* scalar registers when it starts from a slot of the predicate buffer.    *)
(* Registers, pushes and slots are sequences of halfwords.                 *)

\* GET and RELEASE, of flow control or of the push queue; the bit that tells them apart is inverted
BufferForm(w) ==
  CASE Field(w, 22, 10) = 87 /\ Field(w, 0, 14) = 1 ->
         [kind |-> "Buffer", op |-> IF IsSet(w, 15) THEN "get" ELSE "release", pipe |-> 1,
          immediate |-> IsSet(w, 21), index |-> Field(w, 16, 5), mode |-> Field(w, 14, 1)]
    [] AicClass(w) = "FlowControl" /\ Field(w, 21, 11) \in {528, 529} ->
         [kind |-> "Buffer", op |-> IF Field(w, 21, 1) = 0 THEN "get" ELSE "release", pipe |-> Field(w, 10, 4),
          immediate |-> ~IsSet(w, 17), index |-> Field(w, 2, 5), mode |-> Field(w, 0, 1)]
    [] OTHER -> NoWord
BufferNumber(f, x) == IF f.immediate THEN f.index ELSE x[f.index][1] % 32

\* Only three words push
PushForm(w) ==
  IF w \in {1125429512, 1127751944, 1125740808}
  THEN [kind |-> "PushPb", registers |-> <<Field(w, 17, 5), Field(w, 12, 5), Field(w, 7, 5), Field(w, 2, 5)>>]
  ELSE NoWord
Pushed(f, x) == x[f.registers[1]] \o x[f.registers[2]] \o x[f.registers[3]] \o x[f.registers[4]]

VectorPrefix(w) == Field(w, 23, 9) = 42
VectorForm(w1, w2) ==
  IF VectorPrefix(w1) /\ Field(w2, 0, 5) = 5 THEN [kind |-> "VfQueue", register |-> Field(w1, 16, 5)] ELSE NoWord

\* What the front end makes of one word, or of the two of a vector function
StepOf(words, x) ==
  LET w == words[1]
  IN CASE VectorPrefix(w) -> [op |-> "vector", target |-> x[VectorForm(w, words[2]).register]]
       [] PushForm(w) # NoWord -> [op |-> "push", halfwords |-> Pushed(PushForm(w), x)]
       [] BufferForm(w) # NoWord ->
            LET f == BufferForm(w) IN [op |-> f.op, buffer |-> BufferNumber(f, x), pipe |-> f.pipe, mode |-> f.mode]

-----------------------------------------------------------------------------
(* Scalars of a vector function: 64 halves and 32 words *)

PushHalves == 16
SlotHalves(slot) ==
  [h \in 1..PushHalves * SlotPushes |->
     LET push == predicate.slots[slot][((h - 1) \div PushHalves) + 1]
     IN IF push = 0 THEN 0 ELSE steps[push].halfwords[((h - 1) % PushHalves) + 1]]

Flagged(halves, bit) == IsSet(halves[(bit \div 16) + 1], bit % 16)

\* Bit by bit: the first and the last two pairs are cleared, a flagged pair takes the next word of the
\* payload, another keeps what it has
ProjectBit(halves, done, bit) ==
  LET cleared == bit = 0 \/ bit >= 30
      write(first, second) == <<[register |-> 2 * bit, value |-> first], [register |-> (2 * bit) + 1, value |-> second],
                                [register |-> 64 + bit, value |-> <<first, second>>]>>
  IN CASE cleared -> [done EXCEPT !.writes = @ \o write(0, 0)]
       [] ~cleared /\ Flagged(halves, bit) ->
            [cursor |-> done.cursor + 2, writes |-> done.writes \o write(halves[done.cursor + 1], halves[done.cursor + 2])]
       [] OTHER -> done
ProjectScalars(halves) ==
  LET upTo[bit \in -1..31] ==
        IF bit = -1 THEN [cursor |-> 2, writes |-> <<>>] ELSE ProjectBit(halves, upTo[bit - 1], bit)
  IN upTo[31].writes

\* A vector function starts with the scalars pushed for it: the n-th flagged pair has the n-th word
\* after the flags of its own pushes.  (predicate.rs:17-71, predicate_buffer.rs:83-115)
PushedWord(k, n) ==
  LET half == 2 * n
      push == CHOOSE j \in PushesOf(k) : Cardinality({l \in PushesOf(k) : l < j}) = half \div PushHalves
      low == half % PushHalves
  IN <<steps[push].halfwords[low + 1], steps[push].halfwords[low + 2]>>
FlagsOf(k) == PushedWord(k, 0)
ScalarsStarted ==
  \A i \in DOMAIN outstanding :
    LET k == outstanding[i].step
        writes == ProjectScalars(SlotHalves(outstanding[i].slot))
        flagged == {b \in 1..29 : Flagged(FlagsOf(k), b)}
        starts(register, value) == \E n \in DOMAIN writes : writes[n].register = register /\ writes[n].value = value
    IN \A b \in 0..31 :
         LET word == IF b \in flagged THEN PushedWord(k, Cardinality({a \in flagged : a <= b})) ELSE <<0, 0>>
         IN IF b \in flagged \cup {0, 30, 31}
            THEN starts(2 * b, word[1]) /\ starts((2 * b) + 1, word[2]) /\ starts(64 + b, word)
            ELSE \A n \in DOMAIN writes : writes[n].register \notin {2 * b, (2 * b) + 1, 64 + b}

FrontEndInOrder == BuffersInOrder /\ ScalarsStarted
=============================================================================
