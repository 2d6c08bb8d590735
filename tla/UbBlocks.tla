------------------------------- MODULE UbBlocks -------------------------------
(***************************************************************************)
(* One request of the unified buffer and one cycle of its arbitration.  A  *)
(* request is a sequence of blocks, each in one bank; a write that does    *)
(* not cover its block is granted twice, with a delay between the grants.  *)
(* A block is a record with the fields bank, progress, age and partial.    *)
(***************************************************************************)
EXTENDS Integers, Sequences

CONSTANTS
  BankGroups,       \* a bank belongs to group bank % BankGroups
  PartialWriteTicks

VectorPorts  == <<"VectorWrite", "VectorRead0", "VectorRead1", "VectorReadDestination">>

-----------------------------------------------------------------------------
(* Blocks: C220UbBlockProgress *)

PendingGrant(b) == b.progress \in {"Waiting", "AwaitingWriteGrant"}
Granted(b) == IF b.progress = "Waiting" /\ b.partial
                THEN [b EXCEPT !.progress = "ReadModifyWriteDelay", !.age = 0]
                ELSE [b EXCEPT !.progress = "Complete", !.age = 0]
\* Faulty variant: A delay that has ended returns to the first pass.
FinishTickRestart(b) ==
  IF b.progress # "ReadModifyWriteDelay" THEN b
  ELSE IF b.age >= PartialWriteTicks THEN [b EXCEPT !.progress = "Waiting", !.age = 0]
  ELSE [b EXCEPT !.age = @ + 1]

\* finish_tick: the end of the delay does not grant the second pass.
FinishTick(b) ==
  IF b.progress # "ReadModifyWriteDelay" THEN b
  ELSE IF b.age >= PartialWriteTicks THEN [b EXCEPT !.progress = "AwaitingWriteGrant", !.age = 0]
  ELSE [b EXCEPT !.age = @ + 1]
IsComplete(blocks) == \A i \in DOMAIN blocks : blocks[i].progress = "Complete"

\* A round of grants over the blocks of a request: [busy, groups, blocks],
\* where a block needs a free bank and, on a vector port, a free bank group.
GrantBlock(c, i, grouped) ==
  LET b == c.blocks[i]
      g == b.bank % BankGroups
  IN  IF PendingGrant(b) /\ b.bank \notin c.busy /\ (grouped => g \notin c.groups)
        THEN [busy |-> c.busy \cup {b.bank}, groups |-> c.groups \cup {g},
              blocks |-> [c.blocks EXCEPT ![i] = Granted(b)]]
        ELSE c
Grants(busy, groups, blocks, grouped) ==
  LET turn[i \in 0..Len(blocks)] ==
        IF i = 0 THEN [busy |-> busy, groups |-> groups, blocks |-> blocks]
        ELSE GrantBlock(turn[i - 1], i, grouped)
  IN  turn[Len(blocks)]
Finished(blocks) == [i \in DOMAIN blocks |-> FinishTick(blocks[i])]

-----------------------------------------------------------------------------
(* A cycle: arbitrate_with_destination *)

\* One vector cycle: [busy, reads, writes, ports].  The write port comes
\* first; the three read ports share the groups of the reads.
ArbitratePort(c, p) ==
  LET groups == IF p = "VectorWrite" THEN c.writes ELSE c.reads
      g == Grants(c.busy, groups, c.ports[p], TRUE)
  IN  [busy   |-> g.busy,
       writes |-> IF p = "VectorWrite" THEN g.groups ELSE c.writes,
       reads  |-> IF p = "VectorWrite" THEN c.reads ELSE g.groups,
       ports  |-> [c.ports EXCEPT ![p] = Finished(g.blocks)]]
VectorCycle(ports) ==
  LET turn[k \in 0..4] == IF k = 0 THEN [busy |-> {}, reads |-> {}, writes |-> {}, ports |-> ports]
                          ELSE ArbitratePort(turn[k - 1], VectorPorts[k])
  IN  turn[4]

\* projected_write_completion: ticks until a write that has the UB to itself
\* is complete.  The bound is the time in which every block gets two grants.
ProjectionBound(blocks) == 2 * Len(blocks) + PartialWriteTicks + 2
ProjectedCompletion(blocks) ==
  LET turn[k \in 0..ProjectionBound(blocks)] ==
        IF k = 0 THEN blocks ELSE Finished(Grants({}, {}, turn[k - 1], TRUE).blocks)
  IN  CHOOSE n \in 0..ProjectionBound(blocks) :
        IsComplete(turn[n]) /\ \A k \in 0..(n - 1) : ~IsComplete(turn[k])
=============================================================================
