---------------------------- MODULE MatrixOutput ----------------------------
(***************************************************************************)
(* The cube and FIX around the accumulator buffer, tick by tick: two       *)
(* instruction queues, no order between them but the unit flags of L0C.    *)
(* A tick is what advance_engines_to does with the two units, in its order *)
(* (FIX retires and runs its stages, then the cube), followed by the       *)
(* dispatch of the queues' heads.  The world answers the packets behind    *)
(* the write interfaces within AnswerTicks, the bus in any order.          *)
(*                                                                         *)
(* A FIX command also carries from, the instruction whose result the       *)
(* program means it to move.                                               *)
(***************************************************************************)
EXTENDS CubeUnit, FixEngine

CONSTANTS
  Programs,      \* [cube: sequence of instructions, fix: sequence of commands, order: order of the FIX stages]
  MaxHold,       \* the ticks a queue's head may be held back
  AnswerTicks,   \* the longest time to an answer
  MaxTick,       \* the bound on time
  CubeOutstanding, FixOutstanding   \* outstanding limits of the frontends

VARIABLES now, s, todo
matrixVars == <<now, s, todo>>

MatrixInit ==
  /\ \E p \in Programs : todo = [cube |-> p.cube, fix |-> p.fix, order |-> p.order, held |-> 0, sent |-> {}]
  /\ now = 0
  /\ s = [cube |-> CubeInit, l0c |-> L0cInit, data |-> [a \in 0..(FragmentCount - 1) |-> <<>>], fix |-> FixInit]

-----------------------------------------------------------------------------
(* Dispatch *)

\* dispatch_cube_head_at
CubeDispatch(t, tick) ==
  LET i == Head(todo.cube) IN CubeTick(Issue(t, i, tick), tick)
CubeMay(t, tick) == todo.cube # <<>> /\ CanIssue(t.cube, tick) /\ Len(t.cube.flights) < CubeOutstanding

\* dispatch_fixp_head_at, for the kinds of command FIX has
FixMay(t) ==
  /\ todo.fix # <<>> /\ Len(t.fix.retire) < FixOutstanding
  /\ LET c == Head(todo.fix) IN
     CASE c.kind = "fix" -> FixAdmits(t, c) [] c.kind = "factor" -> FactorAdmits(t, c) [] c.kind = "control" -> TRUE
FixDispatch(t, tick) ==
  LET c == Head(todo.fix) IN
  CASE c.kind = "fix" -> FixAdmit(t, c, tick) [] c.kind = "factor" -> FactorAdmit(t, c, tick)
    [] c.kind = "control" -> ControlAdmit(t, c, tick)

-----------------------------------------------------------------------------
(* The answers behind the write interfaces *)

Answerable == s.fix.bus \cup {s.fix.l1[j] : j \in {1} \cap DOMAIN s.fix.l1}
                \cup {s.fix.factors[j] : j \in {1} \cap DOMAIN s.fix.factors}
Overdue(p) == \E e \in todo.sent : e[1] = p /\ now >= e[2] + AnswerTicks

Answer(t, p, tick) ==
  CompleteTransport(
    [t EXCEPT !.fix.bus = @ \ {p}, !.fix.stores = IF p.kind = "out" THEN @ \ {p.token} ELSE @,
              !.fix.l1 = IF p.kind = "l1" THEN Tail(@) ELSE @,
              !.fix.factors = IF p.kind = "factor" THEN Tail(@) ELSE @], p, tick)

-----------------------------------------------------------------------------

\* One tick: the answers given in it, the stages of the FIX pipeline and the
\* head of the FIX program, then the cube and the head of its program.  A
\* head may be held back by the rest of the core.
Advanced(answered, tick) ==
  FixTick(FoldLeft(LAMBDA t, p : Answer(t, p, tick), FixRetire(s, tick), SetToSeq(answered)),
          todo.order, tick)
Packets(t) == t.fix.bus \cup Range(t.fix.l1) \cup Range(t.fix.factors)
Sent(packets, known, tick) ==
  known \cup {<<p, tick>> : p \in {q \in packets : \A e \in known : e[1] # q}}
Recorded(t, goCube, goFix, held) ==
  /\ s' = t
  /\ todo' = [todo EXCEPT !.cube = IF goCube THEN Tail(@) ELSE @,
                          !.fix = IF goFix THEN Tail(@) ELSE @,
                          !.held = IF held THEN @ + 1 ELSE @,
                          !.sent = Sent(Packets(t), {e \in @ : e[1] \in Packets(t)}, now + 1)]
CubeHead(t, goFix, holdCube, holdFix) ==
  /\ holdCube => CubeMay(t, now + 1)
  /\ LET goCube == CubeMay(t, now + 1) /\ ~holdCube
     IN  Recorded(IF goCube THEN CubeDispatch(t, now + 1) ELSE t, goCube, goFix, holdCube \/ holdFix)
FixHead(t, holdCube, holdFix) ==
  /\ holdFix => FixMay(t)
  /\ LET goFix == FixMay(t) /\ ~holdFix
     IN  CubeHead(CubeTick(IF goFix THEN FixDispatch(t, now + 1) ELSE t, now + 1),
                  goFix, holdCube, holdFix)
Tick(answered, holdCube, holdFix) == FixHead(Advanced(answered, now + 1), holdCube, holdFix)

MatrixNext ==
  /\ now < MaxTick /\ s.fix.error = {}
  /\ now' = now + 1
  /\ \E answered \in SUBSET Answerable, holdCube, holdFix \in BOOLEAN :
       /\ {p \in Answerable : Overdue(p)} \subseteq answered
       /\ holdCube \/ holdFix => todo.held < MaxHold
       /\ Tick(answered, holdCube, holdFix)

MatrixSpec == MatrixInit /\ [][MatrixNext]_matrixVars

-----------------------------------------------------------------------------
(* Properties *)

\* No write command is dispatched, completed or retired out of its turn: the
\* errors of observe_write_dispatch and of the retirement queues.
NoFixError == s.fix.error = {}

\* The bounded queues of both units keep their bounds, and no packet,
\* completion or retirement meets a command out of its turn (CommandOrder,
\* NotExecuted, NotDispatched, RetirementOrder, DuplicateRequest).
MatrixTypeOK ==
  /\ NoFixError
  /\ s.l0c.writer \subseteq 0..(FragmentCount - 1) /\ s.l0c.reader \subseteq 0..(FragmentCount - 1)
  /\ Len(s.l0c.incoming) <= TransportCapacity /\ Len(s.l0c.pending) <= 3 /\ Len(s.l0c.acks) <= DataLatency + 1
  /\ Len(s.fix.dispatch) <= 7 /\ Len(s.fix.conversion) <= 9 /\ Len(s.fix.alignment) <= 7
  /\ Len(s.fix.bursts) <= 3 /\ Len(s.fix.writes) <= 6
  /\ DOMAIN s.fix.commands = Range(s.fix.retire)

\* The unit flags of L0C (C220L0cScoreboard): a fragment the cube has written
\* is held against the cube exactly until FIX has read it; and the queues
\* between the two units keep their bounds and their order (MatrixTypeOK).
UnitFlagsConsistent == MatrixTypeOK /\ ScoreboardConsistent(s.l0c)

\* A FIX command that checks and updates the unit flags moves what the
\* instruction it belongs to computed: neither what was there before nor what
\* a later instruction writes to the same fragments (receive_l0c, admit).
MovesItsResult ==
  \A r \in s.fix.results : r.command.unit = 3 => \A a \in DOMAIN r.moved : r.moved[a] = r.command.from

\* The predicted ticket of an instruction whose uops have all been released
\* is what happened: it retires StageNum - 1 ticks after its last uop, whatever
\* delayed its uops on the way (shift_ticket_from_uop).
TicketExact ==
  \A k \in DOMAIN s.cube.flights :
    LET f == s.cube.flights[k] IN
    f.pending = <<>> /\ UopCount(f.ins) # 0 => f.ticket.retire = f.ticket.last + StageNum - 1

\* An instruction that has retired has written its whole result to L0C
\* (commit_retired): every fragment of it holds the result, or that of a
\* later instruction.
RetiredWritten ==
  \A j \in DOMAIN s.cube.retired :
    LET i == s.cube.retired[j] IN
    \A a \in OutputFragments(i) : \E e \in DOMAIN s.data[a] : s.data[a][e] >= i.id

\* Nothing is left in either unit, or in a queue, at the end of the time an
\* instruction may take: no handshake and no bounded queue is stuck.
EverythingRetires ==
  now = MaxTick => todo.cube = <<>> /\ todo.fix = <<>> /\ s.cube.flights = <<>> /\ FixIdle(s)
=============================================================================
