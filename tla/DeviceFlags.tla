------------------------------- MODULE DeviceFlags -------------------------------
(***************************************************************************)
(* Notifications between the cores of a device: a core sets a flag from    *)
(* one of its pipes, the fabric delivers it, and the core that waits takes *)
(* one credit of it.                                                       *)
(*   src/src/sim/c220/sync/device_flags.rs, sync/cross_core.rs,            *)
(*   core/cross_core.rs, core/dispatch.rs                                  *)
(* The fabric is not in the repository: it delivers every notification,    *)
(* once, in any order.  A core that found no credit does not look again    *)
(* until a delivery opens its dispatch.                                    *)
(***************************************************************************)
EXTENDS Integers, Sequences, FiniteSets

CONSTANTS Cores,
          FlagIds,       \* flags a program may name; those above 255 no counter has
          CreditLimit,   \* credits of a flag above which a delivery is an overflow (15 in the code)
          FlagPrograms,  \* per core a sequence of [op, flag]
          MaxResets      \* how often the host may clear the counters of a core

NoFlag == -1
Deliverable == FlagIds \cap (0..255)

FlagOps == [op : {"set", "wait"}, flag : FlagIds]
ASSUME FlagAssumption ==
  /\ FlagIds \subseteq Nat /\ CreditLimit \in Nat \ {0}
  /\ \A p \in FlagPrograms : p \in [Cores -> Seq(FlagOps)]

VARIABLES sequence,   \* the programs of the cores
          position,   \* where each core is
          credits, blocked, waitingFor,
          inFlight,   \* per core and flag: notifications the fabric holds
          resets,
          \* History, per core and flag: notifications sent to it, taken by it, cleared by the host
          sentTo, takenBy, clearedOf

flagVars == <<sequence, position, credits, blocked, waitingFor, inFlight, resets, sentTo, takenBy, clearedOf>>

PerFlag(v) == [c \in Cores |-> [f \in Deliverable |-> v]]
FlagsStart(programs) ==
  /\ sequence \in programs /\ position = [c \in Cores |-> 1]
  /\ credits = PerFlag(0) /\ inFlight = PerFlag(0)
  /\ blocked = [c \in Cores |-> FALSE] /\ waitingFor = [c \in Cores |-> NoFlag]
  /\ resets = 0
  /\ sentTo = PerFlag(0) /\ takenBy = PerFlag(0) /\ clearedOf = PerFlag(0)
FlagsInit == FlagsStart(FlagPrograms)

Current(c) == sequence[c][position[c]]
CanDispatch(c) == ~blocked[c] /\ position[c] \in DOMAIN sequence[c]
Advance(c) == position' = [position EXCEPT ![c] = @ + 1]

\* A pipe retires the instruction that sets the flag for every other core
SetFlag(c) ==
  /\ CanDispatch(c) /\ Current(c).op = "set" /\ Advance(c)
  /\ LET f == Current(c).flag
     IN /\ inFlight' = [d \in Cores |-> IF d = c THEN inFlight[d] ELSE [inFlight[d] EXCEPT ![f] = @ + 1]]
        /\ sentTo' = [d \in Cores |-> IF d = c THEN sentTo[d] ELSE [sentTo[d] EXCEPT ![f] = @ + 1]]
  /\ UNCHANGED <<sequence, credits, blocked, waitingFor, resets, takenBy, clearedOf>>

\* Credits of a flag no counter can have: none
Credit(c, f) == IF f \in Deliverable THEN credits[c][f] ELSE 0

TakeCredit(c) ==
  /\ CanDispatch(c) /\ Current(c).op = "wait" /\ Credit(c, Current(c).flag) # 0
  /\ LET f == Current(c).flag
     IN /\ credits' = [credits EXCEPT ![c][f] = @ - 1]
        /\ takenBy' = [takenBy EXCEPT ![c][f] = @ + 1]
  /\ waitingFor' = [waitingFor EXCEPT ![c] = NoFlag] /\ Advance(c)
  /\ UNCHANGED <<sequence, blocked, inFlight, resets, sentTo, clearedOf>>

Block(c) ==
  /\ CanDispatch(c) /\ Current(c).op = "wait" /\ Credit(c, Current(c).flag) = 0
  /\ blocked' = [blocked EXCEPT ![c] = TRUE]
  /\ waitingFor' = [waitingFor EXCEPT ![c] = Current(c).flag]
  /\ UNCHANGED <<sequence, position, credits, inFlight, resets, sentTo, takenBy, clearedOf>>

\* Any flag that does not overflow opens the dispatch; an overflow is counted all the same
Overflows(count) == count > CreditLimit
Receive(c, f) ==
  /\ credits' = [credits EXCEPT ![c][f] = @ + 1]
  /\ blocked' = [blocked EXCEPT ![c] = @ /\ Overflows(credits[c][f] + 1)]
DeliverFlag(c, f) ==
  /\ inFlight[c][f] > 0 /\ inFlight' = [inFlight EXCEPT ![c][f] = @ - 1]
  /\ Receive(c, f)
  /\ UNCHANGED <<sequence, position, waitingFor, resets, sentTo, takenBy, clearedOf>>

\* The host clears the credits; the latch stays as it is
ResetCounters(c) ==
  /\ resets < MaxResets /\ resets' = resets + 1
  /\ credits' = [credits EXCEPT ![c] = [f \in Deliverable |-> 0]]
  /\ clearedOf' = [clearedOf EXCEPT ![c] = [f \in Deliverable |-> clearedOf[c][f] + credits[c][f]]]
  /\ UNCHANGED <<sequence, position, blocked, waitingFor, inFlight, sentTo, takenBy>>

FlagsNext ==
  \E c \in Cores :
    \/ SetFlag(c)
    \/ TakeCredit(c)
    \/ Block(c)
    \/ \E f \in Deliverable : DeliverFlag(c, f)
    \/ ResetCounters(c)

FlagsSpec == FlagsInit /\ [][FlagsNext]_flagVars

-----------------------------------------------------------------------------
\* No core sleeps on a credit it has: one that does not look again waits for a flag without credits,
\* so that the delivery that gives it one is still to come.  (device_flags.rs:42-71, dispatch.rs:81-88)
NoSleepOnCredit ==
  \A c \in Cores : blocked[c] => waitingFor[c] # NoFlag /\ Credit(c, waitingFor[c]) = 0

\* Every notification is in the fabric, a credit, taken by one wait, or cleared by the host.
\* (device_flags.rs:42-49, 61-70)
CreditsExact ==
  \A c \in Cores : \A f \in Deliverable :
    sentTo[c][f] = inFlight[c][f] + credits[c][f] + takenBy[c][f] + clearedOf[c][f]

DeviceFlagsHold == NoSleepOnCredit /\ CreditsExact
=============================================================================
