----------------------------- MODULE MCMemories -----------------------------
(***************************************************************************)
(* Small instances of the three memory systems, one behaviour for each:    *)
(* L1 (two banks in two groups; FIX writes one bank, the MTE writes both   *)
(* banks of a group and reads lines that the writes overlap in part), the  *)
(* unified buffer (scalar and MTE requests beside a vector write and read  *)
(* of the same banks) and the bus (a data cache line, a two-beat MTE read, *)
(* a write-back and an MTE write, with inputs, slots and credits that run  *)
(* out).                                                                   *)
(***************************************************************************)
EXTENDS L1Memory, UbMemory, MemoryBus, TLC

At(address, bytes) == [address |-> address, bytes |-> bytes]
Clients == (FixpWrite :> {At(0, 1)}) @@ (MteWrite :> {At(0, 3)})
           @@ (MteRead :> {At(0, 2), At(6, 2)})
Answers == (FixpWrite :> 1) @@ (MteWrite :> 2) @@ (MteRead :> 2)
Budgets == (FixpWrite :> 1) @@ (MteWrite :> 2) @@ (MteRead :> 2)

Blk(b, w) == [bank |-> b, whole |-> w]
MCUbPortOf == [sr |-> "ScalarRead", mw |-> "MteWrite0", mw2 |-> "MteWrite0", mw3 |-> "MteWrite0",
               vw |-> "VectorWrite", vr |-> "VectorRead0"]
MCUbBlocksOf == [sr |-> <<Blk(0, TRUE), Blk(1, TRUE)>>,
                 mw |-> <<Blk(1, TRUE)>>, mw2 |-> <<Blk(0, FALSE)>>, mw3 |-> <<Blk(1, TRUE)>>,
                 vw |-> <<Blk(0, FALSE), Blk(2, TRUE)>>,
                 vr |-> <<Blk(0, TRUE), Blk(2, TRUE)>>]
MCUbResponseTicks == [ScalarWrite |-> 0, ScalarRead |-> 1, MteWrite0 |-> 1, MteWrite1 |-> 1,
                      MteRead |-> 2]

BusTags == {"rd", "rm", "wd", "wm"}
MCOwner == [t \in BusTags |-> IF t \in {"rd", "wd"} THEN <<"Data", 0>> ELSE <<"Mte", 0>>]
MCRegion == [t \in BusTags |-> IF t \in {"rm", "wm"} THEN "Ddr" ELSE "L2"]
MCBytes == [t \in BusTags |-> IF t = "rm" THEN 2 ELSE 1]
MCBeats == [rd |-> 1, rm |-> 2]
MCReadPorts == [Instruction |-> 0, Data |-> 1]
MCCreditLimit == [Ddr |-> 3, L2Write |-> 2, L2Read |-> 2]
MCRefill == [Ddr |-> 2, L2Write |-> 1, L2Read |-> 1]
MCLatency == [Ddr |-> [read |-> 1, dbid |-> 1, completion |-> 1],
              L2  |-> [read |-> 1, dbid |-> 1, completion |-> 2]]

VARIABLE unit  \* the memory this behaviour is about

MemoriesInit == Init /\ UbInit /\ MemoryBusInit /\ unit \in {"L1", "UB", "Bus"}
MemoriesNext ==
  /\ UNCHANGED unit
  /\ \/ unit = "L1" /\ Next /\ UNCHANGED <<ubVars, busVars>>
     \/ unit = "UB" /\ UbNext /\ UNCHANGED <<vars, busVars>>
     \/ unit = "Bus" /\ MemoryBusNext /\ UNCHANGED <<vars, ubVars>>

\* The clock of each memory runs, and a client that could take what it waits
\* for again and again takes it.  The requests are finite, so one condition for
\* all clients is as strong as one for each.
ClockAdvances ==
  \/ unit = "L1" /\ Advance /\ UNCHANGED <<ubPhase, inTick>>
  \/ unit = "UB" /\ UbClock /\ UNCHANGED <<vars, inTick>>
  \/ unit = "Bus" /\ ClockRuns /\ UNCHANGED <<vars, ubPhase>>
ClientTakes ==
  \/ unit = "L1" /\ (\E p \in Port : ReceiveResponse(p)) /\ UNCHANGED <<ubVars, busVars>>
  \/ unit = "UB" /\ (\E p \in ToSet(ServicePorts) : TakeResponse(p)) /\ UNCHANGED <<vars, busVars>>
  \/ /\ unit = "Bus" /\ UNCHANGED <<vars, ubVars>>
     /\ \/ \E i \in 0..1 : Consume(i)
        \/ \E p \in CacheReadPorts : TakeCacheRead(p)
        \/ \E p \in CacheWritePorts : TakeCacheCompletion(p)
        \/ \E t \in WriteTags : SendMteData(t)
MemoriesSpec ==
  /\ MemoriesInit /\ [][MemoriesNext]_<<vars, ubVars, busVars, unit>>
  /\ WF_<<vars, ubPhase, inTick>>(ClockAdvances)
  /\ SF_<<vars, ubVars, busVars>>(ClientTakes)

\* Queues keep the capacities their senders test, and no error return is
\* reached.
MemoriesTypeOK == TypeOK /\ UbTypeOK /\ MemoryBusTypeOK

\* The counters that hold requests back count what is on its way, and no queue
\* behind them outgrows its capacity (CreditsBalance, MemoriesTypeOK).
CreditsHold == CreditsBalance /\ MemoriesTypeOK

\* Nothing is starved or lost: whatever is refused, delayed or held back by a
\* full transport, a bank conflict or missing credit, every memory answers all
\* requests and falls idle (Answered, UbServed, AllServed).
MemoriesServed == []<>(Idle /\ UbIdle /\ BusIdle)
=============================================================================
