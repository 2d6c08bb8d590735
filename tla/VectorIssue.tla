----------------------------- MODULE VectorIssue -----------------------------
(***************************************************************************)
(* One instruction of the vector unit from its preview to its last repeat: *)
(* the planning function accepts or rejects it, the pipeline admits its    *)
(* uops, and the deferred execution evaluates and commits the repeats.     *)
(***************************************************************************)
EXTENDS VectorPlan

CONSTANT Issues  \* the instructions, one per behaviour

VARIABLES
  issue,    \* the instruction, after its preview as the planning function keeps it
  stage,    \* "offered", "rejected", "planned", "refused", "admitted", "done"
  uops,     \* the uops of the pipeline
  rep,      \* the next repeat to execute
  written   \* the stores committed so far
issueVars == <<issue, stage, uops, rep, written>>

IssueInit == issue \in Issues /\ stage = "offered" /\ uops = <<>> /\ rep = 0 /\ written = {}

Stores(i) == PlanOf(i).stores

\* preview_*_issue
Preview ==
  /\ stage = "offered"
  /\ issue' = IssueOf(issue)
  /\ stage' = IF PlanOf(issue').ok THEN "planned" ELSE "rejected"
  /\ UNCHANGED <<uops, rep, written>>

\* issue_classified_at
Admit ==
  /\ stage = "planned"
  /\ uops' = Uops(issue, Stores(issue))
  /\ stage' = IF AdmissionOk(issue, uops', Stores(issue)) THEN "admitted" ELSE "refused"
  /\ UNCHANGED <<issue, rep, written>>

\* complete_functional_instruction: a turn of its loop.  A gather moves its
\* elements itself, the others are sampled from the captured inputs.
Committed(i, r) ==
  IF i.kind = "Gather" THEN GatherTargets(i, r)
  ELSE IF i.kind = "Move" THEN {s \in Stores(i) : s.rep = r}
  ELSE StoresOf(Results(i, r))
Turns(i) == IF i.kind = "Move" THEN Repeats(i) ELSE ExecutedRepeats(i)
ExecuteRepeat ==
  /\ stage = "admitted"
  /\ IF rep \in Turns(issue)
       THEN /\ rep' = rep + 1
            /\ written' = written \cup Committed(issue, rep)
            /\ UNCHANGED stage
       ELSE stage' = "done" /\ UNCHANGED <<rep, written>>
  /\ UNCHANGED <<issue, uops>>

IssueNext == Preview \/ Admit \/ ExecuteRepeat

-----------------------------------------------------------------------------
(* Properties *)

\* An issue with something to do: an active lane in every repeat counts its
\* repeats, an issue without masks its count.
Masked(i) == i.kind \in MaskedKinds \cup {"Move"} \/ (i.kind = "Gather" /\ ~i.blocks)
Active(i) == IF Masked(i) THEN \E r \in Repeats(i) : MaskOf(i, r) # {}
             ELSE i.kind \in {"Broadcast", "Sort", "Nchw", "PackedCompare", "Gather"} => i.count > 0

\* issue_classified_at refuses an accepted instruction, which ends the
\* simulation.
Refused == stage = "refused"

\* Bytes of a buffer that an access fills
Fills(a, part) == a.src = part.src /\ part.off >= a.off /\ part.off + part.bytes <= a.off + a.bytes
Filled(i, r) ==
  \A x \in Results(i, r) : \A part \in x.from :
    IF part.src = DirectUb THEN InUb(part.off, part.bytes)
    ELSE \E a \in Captured(i, r) : Fills(a, part)
WholeTileKinds == {"CompareMask", "Select"}

\* What the planning function accepts, the pipeline admits: each store finds
\* a uop that writes, each uop that writes has a store, and the reads of a
\* uop are within its scope.  The execution then commits the stores that were
\* planned, no more and no less, and computes them from bytes that it has
\* read from the UB, which the plan has checked to be in it.
ExecutedAsPlanned ==
  /\ Refused => ~Active(issue)
  /\ stage = "done" => written = Stores(issue)
  /\ stage = "admitted" /\ rep \in Turns(issue) /\ issue.kind \notin {"Gather", "Move"} =>
       /\ Filled(issue, rep)
       /\ issue.kind \in WholeTileKinds \/ AccessesInUb(Captured(issue, rep))

\* The schedule of the ordinary kinds drops the descriptors of a
\* dequantisation: the timing never asks for them.
DescriptorSource(i, source) ==
  \/ i.kind = "Conversion" /\ source = 1
  \/ i.kind = "Fused" /\ source = 2

\* The blocks of the UB that accesses touch, and those that a repeat uses: of
\* its captured inputs only the parts that an active lane needs.
BlocksIn(address, bytes) == (address \div BlockBytes)..((address + bytes - 1) \div BlockBytes)
Requested(i, us) ==
  UNION {BlocksIn(a.addr, a.bytes) :
           a \in UNION {ScheduledReads(i, us[n]) : n \in {m \in 1..Len(us) : HasRead(i, us[m])}}}
PartsUsed(i, r) == {p \in UNION {y.from : y \in Results(i, r)} : ~DescriptorSource(i, p.src)}
Used(i, r) ==
  UNION {UNION {BlocksIn(a.addr + p.off - a.off, p.bytes) : p \in {q \in PartsUsed(i, r) : Fills(a, q)}} :
           a \in Captured(i, r)}
\* A block stride of 0 reads the same block again, but counts as 1 when the
\* schedule asks whether the sources are the same.
StridesDistinct(i) == {i.blk[1], i.blk[2]} # {0, 1}

\* The timing asks the UB for every block that the execution uses: what the
\* schedule leaves out of a repeat (a source that does not move, the second
\* of two equal sources, an accumulator that stays in the unit) has been
\* asked for by an earlier repeat or for the other source; a gather has its
\* indices in a window before the uop that needs them, and waits for the
\* prefetch of a later one.
IndexBlocks(i, r) == BlocksIn(GatherIndices(i, r).addr, GatherIndices(i, r).bytes)
IndicesBefore(i, us, n) ==
  UNION {IF us[m].kind.k = "Index" THEN BlocksIn(IndexWindow(i, us[m].rep, us[m].kind.first).addr, TileBytes)
         ELSE UNION {BlocksIn(a.addr, a.bytes) : a \in Prefetch(i, us[m].rep)} : m \in 1..(n - 1)}
TrafficCovered ==
  /\ stage = "admitted" /\ rep \in Turns(issue) /\ issue.kind \notin {"Gather", "Move"} /\ StridesDistinct(issue) =>
       Used(issue, rep) \subseteq Requested(issue, uops)
  /\ stage = "admitted" /\ issue.kind = "Gather" =>
       \A n \in 1..Len(uops) : uops[n].kind.k = "Data" =>
         /\ issue.blocks => IndexBlocks(issue, uops[n].rep) \subseteq IndicesBefore(issue, uops, n)
         /\ WaitsForPrefetch(issue, uops[n].rep) =>
              \E m \in 1..(n - 1) : PrefetchRepeat(issue, uops[m].rep) = uops[n].rep
=============================================================================
