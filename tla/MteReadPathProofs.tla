------------------------- MODULE MteReadPathProofs -------------------------
(***************************************************************************)
(* The MTE1 path for every program, other traffic and capacity: its type,  *)
(* that it implements CommandService, that its reads stay in order, and    *)
(* that a command is complete exactly when all it writes has arrived.      *)
(***************************************************************************)
EXTENDS MteReadPath, TLAPS

\* The pending commands are the youngest accepted ones, oldest first.
PendingInOrder ==
  \A n \in 1..Len(pending) : pending[n] = issued - Len(pending) + n

Inv == TypeOK /\ PendingInOrder

-----------------------------------------------------------------------------
(* Arbiters *)

\* The L1 read arbiter selects an eligible port when there is one.
LEMMA SelectedEligible ==
  ASSUME lastSelected \in InputPorts, \E p \in InputPorts : Eligible(p)
  PROVE  SelectedPort \in InputPorts /\ Eligible(SelectedPort)
<1> DEFINE Rank(p) == (p + 2 - lastSelected) % 3
           First(p) == /\ Eligible(p)
                       /\ \A q \in InputPorts : Eligible(q) => Rank(p) <= Rank(q)
<1>1. \E p \in InputPorts : First(p)
  <2>1. \A p \in InputPorts : Rank(p) \in 0..2
    BY DEF InputPorts
  <2>2. PICK p \in InputPorts : Eligible(p)
    OBVIOUS
  <2> HIDE DEF Rank
  <2>3. InputPorts = {0, 1, 2}
    BY DEF InputPorts
  <2>4. \/ Eligible(0) \/ Eligible(1) \/ Eligible(2)
    BY <2>2, <2>3
  <2>5. Rank(0) \in 0..2 /\ Rank(1) \in 0..2 /\ Rank(2) \in 0..2
    BY <2>1, <2>3
  <2> HIDE DEF Eligible
  <2> QED BY <2>3, <2>4, <2>5
<1>2. SelectedPort = CHOOSE p \in InputPorts : First(p)
  BY DEF SelectedPort
<1> HIDE DEF First
<1>3. SelectedPort \in InputPorts /\ First(SelectedPort)
  BY <1>1, <1>2
<1> QED BY <1>3 DEF First

\* A write interface selects a port that has an entry.
LEMMA WritePortUsed ==
  ASSUME NEW t \in Targets, \E q \in WritePorts : writes[t][q] # <<>>
  PROVE  WritePort(t) \in WritePorts /\ writes[t][WritePort(t)] # <<>>
<1> DEFINE order == IF lastPrimary[t] = 1 THEN <<0, 1, 2>> ELSE <<1, 0, 2>>
           Turn(p) == \E n \in 1..3 :
                        /\ order[n] = p /\ writes[t][p] # <<>>
                        /\ \A m \in 1..(n - 1) : writes[t][order[m]] = <<>>
<1>1. \E p \in WritePorts : Turn(p)
  <2>1. WritePorts = {0, 1, 2} /\ 1..3 = {1, 2, 3}
    BY DEF WritePorts
  <2>2. 1..(1 - 1) = {} /\ 1..(2 - 1) = {1} /\ 1..(3 - 1) = {1, 2}
    OBVIOUS
  <2>3. \/ order = <<0, 1, 2>> \/ order = <<1, 0, 2>>
    OBVIOUS
  <2> HIDE DEF order
  <2>4. order[1] \in {0, 1} /\ order[2] \in {0, 1} /\ order[3] = 2 /\ order[1] # order[2]
    BY <2>3
  <2>5. CASE writes[t][order[1]] # <<>>
    <3>1. Turn(order[1])
      BY <2>1, <2>2, <2>5
    <3> QED BY <3>1, <2>1, <2>4
  <2>6. CASE writes[t][order[1]] = <<>> /\ writes[t][order[2]] # <<>>
    <3>1. Turn(order[2])
      BY <2>1, <2>2, <2>6
    <3> QED BY <3>1, <2>1, <2>4
  <2>7. CASE writes[t][order[1]] = <<>> /\ writes[t][order[2]] = <<>>
    <3>1. writes[t][order[3]] # <<>>
      BY <2>1, <2>4, <2>7
    <3>2. Turn(order[3])
      BY <2>1, <2>2, <2>7, <3>1
    <3> QED BY <3>2, <2>1, <2>4
  <2> QED BY <2>5, <2>6, <2>7
<1>2. WritePort(t) = CHOOSE p \in WritePorts : Turn(p)
  BY DEF WritePort
<1> HIDE DEF Turn
<1>3. WritePort(t) \in WritePorts /\ Turn(WritePort(t))
  BY <1>1, <1>2
<1> QED BY <1>3 DEF Turn

-----------------------------------------------------------------------------
(* What a step leaves alone *)

\* Accepted commands stay accepted, and the workload does not change.
Later == /\ UNCHANGED <<program, others>>
         /\ issued' \in {issued, issued + 1} /\ issued \in Nat

LEMMA MoreStarted ==
  ASSUME Later
  PROVE  /\ Started \subseteq Started' /\ Ids' = Ids
         /\ Reqs \subseteq Reqs' /\ Frags \subseteq Frags'
<1>1. Started \subseteq Started' /\ Ids' = Ids
  BY DEF Later, Started, Ids
<1> QED BY <1>1 DEF Reqs, Frags

LEMMA MoreSequences ==
  ASSUME NEW S, NEW T, S \subseteq T
  PROVE  Seq(S) \subseteq Seq(T)
OBVIOUS

LEMMA ProducerFrame ==
  ASSUME ProducerType, Later, UNCHANGED producers
  PROVE  ProducerType'
<1>1. Seq(Reqs) \subseteq Seq(Reqs')
  BY MoreStarted, MoreSequences
<1>2. 1..issued \subseteq 1..issued'
  BY DEF Later
<1> QED BY <1>1, <1>2 DEF ProducerType, producers

LEMMA ReaderFrame ==
  ASSUME ReaderType, Later, UNCHANGED <<reader, memory>>
  PROVE  ReaderType'
<1>1. Seq(Reqs) \subseteq Seq(Reqs')
  BY MoreStarted, MoreSequences
<1> QED BY <1>1 DEF ReaderType, reader

LEMMA OutputFrame ==
  ASSUME OutputType, Later, UNCHANGED output
  PROVE  OutputType'
<1>1. Seq(Reqs) \subseteq Seq(Reqs') /\ Seq(Frags) \subseteq Seq(Frags')
  BY MoreStarted, MoreSequences
<1> QED BY <1>1 DEF OutputType, output

LEMMA L0Frame ==
  ASSUME L0Type, Later, UNCHANGED l0
  PROVE  L0Type'
<1>1. Seq(Frags) \subseteq Seq(Frags')
  BY MoreStarted, MoreSequences
<1> QED BY <1>1 DEF L0Type, l0

\* The engine, when a step of the path may complete a command it has started.
LEMMA EngineFrame ==
  ASSUME EngineType, UNCHANGED engine, UNCHANGED <<pushed, signals>>,
         completed' \subseteq completed \cup Started, written' \in [Ids -> Nat]
  PROVE  EngineType'
<1>1. Started' = Started /\ Ids' = Ids
  BY DEF engine, Started, Ids
<1> QED BY <1>1 DEF EngineType, engine

LEMMA Quiet ==
  ASSUME EngineType, UNCHANGED engine
  PROVE  Later
BY DEF EngineType, engine, Later

\* Reading an entry of a queue, and what it names.
LEMMA ReqOf ==
  ASSUME NEW r \in Reqs
  PROVE  r.id \in Started /\ r.index \in Nat \ {0}
BY DEF Reqs

LEMMA FragOf ==
  ASSUME NEW r \in Reqs, NEW n \in Nat \ {0}
  PROVE  [id |-> r.id, index |-> r.index, part |-> n] \in Frags
BY DEF Reqs, Frags

LEMMA ArriveType ==
  ASSUME written \in [Ids -> Nat], NEW i, Arrive(i)
  PROVE  written' \in [Ids -> Nat]
<1>1. written' = [written EXCEPT ![i] = written[i] + 1]
  BY DEF Arrive
<1>2. \A j \in Ids : written'[j] \in Nat
  BY <1>1
<1> QED BY <1>1, <1>2

LEMMA CompleteType ==
  ASSUME NEW f \in Frags, Complete(f)
  PROVE  completed' \subseteq completed \cup Started
BY DEF Complete, Frags

LEMMA PushWriteType ==
  ASSUME L0Type, NEW t, NEW port \in WritePorts, NEW f \in Frags,
         PushWrite(t, port, f), UNCHANGED <<acks, lastPrimary>>, Frags' = Frags
  PROVE  L0Type'
<1>1. ASSUME NEW u \in Targets
      PROVE  /\ writes'[u] \in [WritePorts -> Seq(Frags)]
             /\ \A p \in WritePorts : Len(writes'[u][p]) <= WriteCapacity[p]
  <2>1. writes[u] \in [WritePorts -> Seq(Frags)]
    BY <1>1 DEF L0Type
  <2>2. CASE u = t
    <3>0. DOMAIN writes = Targets
      BY DEF L0Type
    <3>1. writes'[u] = [writes[u] EXCEPT ![port] = Append(writes[u][port], f)]
      BY <1>1, <2>2, <3>0 DEF PushWrite
    <3>2. Append(writes[u][port], f) \in Seq(Frags)
      BY <2>1
    <3>3. Len(Append(writes[u][port], f)) <= WriteCapacity[port]
      BY <2>1, <2>2, CapacityAssumption DEF PushWrite
    <3>4. \A p \in WritePorts : Len(writes[u][p]) <= WriteCapacity[p]
      BY <1>1 DEF L0Type
    <3> QED BY <2>1, <3>1, <3>2, <3>3, <3>4
  <2>3. CASE u # t
    <3>1. writes'[u] = writes[u]
      BY <1>1, <2>3 DEF PushWrite, L0Type
    <3> QED BY <3>1, <2>1, <1>1 DEF L0Type
  <2> QED BY <2>2, <2>3
<1>2. writes' = [u \in Targets |-> writes'[u]]
  BY DEF PushWrite, L0Type
<1>3. writes' \in [Targets -> [WritePorts -> Seq(Frags)]]
  BY <1>1, <1>2
<1> QED BY <1>1, <1>3 DEF L0Type
-----------------------------------------------------------------------------
(* The inductive invariant *)

LEMMA LenInNat ==
  ASSUME NEW S, NEW q \in Seq(S)
  PROVE  Len(q) \in Nat
OBVIOUS

LEMMA ProgramType ==
  ASSUME EngineType
  PROVE  /\ program \in Seq({d \in Command : d.op \notin Foreign})
         /\ Len(program) \in Nat /\ Len(others) \in Nat
<1> DEFINE w == [mte1 |-> program, others |-> others]
<1>1. w \in Workloads /\ w.mte1 = program /\ w.others = others
  BY DEF EngineType
<1> HIDE DEF w
<1>2. /\ program \in Seq({d \in Command : d.op \notin Foreign})
      /\ others \in Seq({d \in Command : d.op \in Foreign})
  BY <1>1, ProgramAssumption
<1> QED BY <1>2, LenInNat

LEMMA InitInv == Init => Inv
<1> SUFFICES ASSUME Init PROVE Inv
  OBVIOUS
<1>1. PICK w \in Workloads : program = w.mte1 /\ others = w.others
  BY DEF Init
<1>3. Len(program) \in Nat /\ Len(others) \in Nat
  BY <1>1, ProgramAssumption, LenInNat
<1>4. [mte1 |-> program, others |-> others] \in Workloads
  BY <1>1, ProgramAssumption
<1>5. EngineType
  BY <1>3, <1>4, CapacityAssumption DEF Init, EngineType, Ids
<1>6. ProducerType
  BY CapacityAssumption DEF Init, ProducerType
<1>7. ReaderType
  BY CapacityAssumption DEF Init, ReaderType, InputPorts, L1!Init
<1>8. OutputType
  <2>1. acknowledged = <<>> /\ retiring = <<>> /\ offset = 0
    BY DEF Init
  <2>2. expanded \in BOOLEAN
    BY Zenon DEF Init
  <2> QED BY <2>1, <2>2 DEF OutputType
<1>9. L0Type
  BY CapacityAssumption DEF Init, L0Type
<1>10. PendingInOrder
  BY DEF Init, PendingInOrder
<1> QED BY <1>5, <1>6, <1>7, <1>8, <1>9, <1>10 DEF Inv, TypeOK

\* A step that keeps the accepted and the pending commands keeps their order.
LEMMA OrderFrame ==
  ASSUME PendingInOrder, UNCHANGED engine
  PROVE  PendingInOrder'
BY DEF PendingInOrder, engine

LEMMA IssueInv ==
  ASSUME Inv, Issue
  PROVE  Inv'
<1> DEFINE i == issued + 1
           c == program[i]
           g == GeneratorOf(c)
<1> USE DEF Inv, TypeOK
<1>1. /\ Len(program) \in Nat /\ program \in Seq({d \in Command : d.op \notin Foreign})
      /\ issued \in Nat /\ issued < Len(program)
  BY ProgramType DEF EngineType, Issue
<1>2. c \in Command /\ c.op \notin Foreign /\ i \in 1..Len(program) /\ i \in Nat
  BY <1>1
<1>3. Later
  BY <1>1 DEF Issue, Later
<1>4. issued' = i /\ pending' = Append(pending, i) /\ Len(pending) < OutstandingLimit
  BY DEF Issue
<1>5. i \in 1..issued'
  BY <1>2, <1>4
<1>6. EngineType'
  <2>1. pending' \in Seq(1..issued') /\ Len(pending') <= OutstandingLimit
    <3>1. pending \in Seq(1..issued')
      BY <1>1, <1>4 DEF EngineType
    <3> QED BY <3>1, <1>4, <1>5, CapacityAssumption
  <2>2. completed' \subseteq completed \cup {i}
    BY DEF Issue
  <2>3. completed' \subseteq Started'
    BY <2>2, <1>3, <1>5, MoreStarted DEF EngineType, Started
  <2>4. Ids' = Ids
    BY <1>3, MoreStarted
  <2> QED BY <1>1, <1>2, <1>4, <2>1, <2>3, <2>4 DEF EngineType, Issue
<1>7. ProducerType'
  <2>1. g \in Generators \cup {"Load3d"} \/ c.op \in {"HardwareFlag", "WriteSpr"}
    BY <1>2 DEF Command, Reads, Controls, Foreign, Generators, GeneratorOf
  <2>2. selected' \in Generators \cup {"none", "Load3d"}
    BY <2>1 DEF Issue, ProducerType
  <2>3. Seq(Reqs) \subseteq Seq(Reqs')
    BY <1>3, MoreStarted, MoreSequences
  <2>4. 1..issued \subseteq 1..issued'
    BY <1>1, <1>4
  <2>5. generation \in [Generators -> [id : 1..issued', next : Nat \ {0}] \cup {None}]
    BY <2>4 DEF ProducerType
  <2>6. [id |-> i, next |-> 1] \in [id : 1..issued', next : Nat \ {0}]
    BY <1>5
  <2>7. \/ generation' = generation
        \/ generation' = [generation EXCEPT ![g] = [id |-> i, next |-> 1]]
    BY DEF Issue
  <2>8. generation' \in [Generators -> [id : 1..issued', next : Nat \ {0}] \cup {None}]
    BY <2>5, <2>6, <2>7
  <2> QED BY <2>2, <2>3, <2>8 DEF ProducerType, Issue
<1>8. ReaderType' /\ OutputType' /\ L0Type'
  BY <1>3, ReaderFrame, OutputFrame, L0Frame DEF Issue
<1>9. PendingInOrder'
  <2>1. pending \in Seq(Nat)
    BY <1>1 DEF EngineType
  <2>2. Len(pending') = Len(pending) + 1 /\ Len(pending) \in Nat
    BY <1>4, <2>1
  <2> SUFFICES ASSUME NEW n \in 1..Len(pending')
               PROVE  pending'[n] = issued' - Len(pending') + n
    BY DEF PendingInOrder
  <2>3. CASE n = Len(pending')
    BY <1>1, <1>4, <2>1, <2>2, <2>3
  <2>4. CASE n \in 1..Len(pending)
    <3>1. pending'[n] = pending[n]
      BY <1>4, <2>1, <2>4
    <3> QED BY <3>1, <1>1, <1>4, <2>2, <2>4 DEF PendingInOrder
  <2> QED BY <2>2, <2>3, <2>4
<1> QED BY <1>6, <1>7, <1>8, <1>9

LEMMA RetireCommandInv ==
  ASSUME Inv, RetireCommand
  PROVE  Inv'
<1> USE DEF Inv, TypeOK
<1>1. issued \in Nat /\ UNCHANGED <<program, others, issued>>
  BY DEF EngineType, RetireCommand
<1>2. Later
  BY <1>1 DEF Later
<1>3. pending \in Seq(1..issued) /\ pending # <<>> /\ pending' = Tail(pending)
  BY DEF EngineType, RetireCommand
<1>4. /\ pending' \in Seq(1..issued) /\ Len(pending') = Len(pending) - 1
      /\ Len(pending) \in Nat
  BY <1>3
<1>5. EngineType'
  <2>1. Started' = Started /\ Ids' = Ids
    BY <1>1 DEF Started, Ids
  <2>2. Len(pending') <= OutstandingLimit
    BY <1>4, CapacityAssumption DEF EngineType
  <2> QED BY <1>1, <1>4, <2>1, <2>2 DEF EngineType, RetireCommand
<1>6. ProducerType' /\ ReaderType' /\ OutputType' /\ L0Type'
  BY <1>2, ProducerFrame, ReaderFrame, OutputFrame, L0Frame DEF RetireCommand
<1>7. PendingInOrder'
  <2> SUFFICES ASSUME NEW n \in 1..Len(pending')
               PROVE  pending'[n] = issued' - Len(pending') + n
    BY DEF PendingInOrder
  <2>1. n + 1 \in 1..Len(pending)
    BY <1>4
  <2>2. pending'[n] = pending[n + 1]
    BY <1>3, <1>4
  <2> QED BY <1>1, <1>4, <2>1, <2>2 DEF PendingInOrder
<1> QED BY <1>5, <1>6, <1>7
LEMMA SignalInv ==
  ASSUME Inv, NEW f \in {"wait", "set"}, NEW i \in 1..Len(program), Signal(f, i)
  PROVE  Inv'
<1> USE DEF Inv, TypeOK
<1>1. UNCHANGED engine /\ Later
  BY Quiet DEF Signal
<1>2. Started' = Started /\ Ids' = Ids
  BY <1>1 DEF engine, Started, Ids
<1>3. EngineType'
  BY <1>1, <1>2 DEF EngineType, Signal, engine
<1> QED BY <1>1, <1>3, ProducerFrame, ReaderFrame, OutputFrame, L0Frame, OrderFrame
        DEF Signal

\* The steps of the path leave the engine alone; what they complete and what
\* they count as written is typed.
LEMMA PathInv ==
  ASSUME Inv, UNCHANGED engine, UNCHANGED <<pushed, signals>>,
         completed' \subseteq completed \cup Started, written' \in [Ids -> Nat],
         ProducerType', ReaderType', OutputType', L0Type'
  PROVE  Inv'
BY EngineFrame, OrderFrame DEF Inv, TypeOK

LEMMA SameReqs ==
  ASSUME UNCHANGED engine
  PROVE  Reqs' = Reqs /\ Frags' = Frags
<1>1. Started' = Started
  BY DEF engine, Started
<1> QED BY <1>1 DEF Reqs, Frags

LEMMA Unwritten ==
  ASSUME Inv, UNCHANGED <<completed, written>>
  PROVE  completed' \subseteq completed \cup Started /\ written' \in [Ids -> Nat]
BY DEF Inv, TypeOK, EngineType

LEMMA GenerateInv ==
  ASSUME Inv, NEW g \in Generators, Generate(g)
  PROVE  Inv'
<1> DEFINE now == generation[g]
           r == [id |-> now.id, index |-> now.next]
<1>1. UNCHANGED engine /\ Later /\ Reqs' = Reqs
  BY Quiet, SameReqs DEF Generate, Inv, TypeOK
<1>2. now \in [id : 1..issued, next : Nat \ {0}]
  BY DEF Generate, Inv, TypeOK, ProducerType
<1>3. r \in Reqs
  BY <1>2 DEF Reqs, Started
<1>4. generated[g] \in Seq(Reqs) /\ Len(generated[g]) < GeneratedCapacity[g]
  BY DEF Generate, Inv, TypeOK, ProducerType
<1>5. /\ Append(generated[g], r) \in Seq(Reqs)
      /\ Len(Append(generated[g], r)) <= GeneratedCapacity[g]
  BY <1>3, <1>4, CapacityAssumption
<1>6. generated' = [generated EXCEPT ![g] = Append(generated[g], r)]
  BY DEF Generate
<1>7. generation' \in [Generators -> [id : 1..issued, next : Nat \ {0}] \cup {None}]
  <2>1. [id |-> now.id, next |-> now.next + 1] \in [id : 1..issued, next : Nat \ {0}]
    BY <1>2
  <2>2. \/ generation' = [generation EXCEPT ![g] = None]
        \/ generation' = [generation EXCEPT ![g] = [id |-> now.id, next |-> now.next + 1]]
    BY DEF Generate
  <2> HIDE DEF now
  <2> QED BY <2>1, <2>2 DEF Inv, TypeOK, ProducerType
<1>8. ProducerType'
  <2> HIDE DEF r
  <2>1. issued' = issued /\ selected' = selected
    BY <1>1 DEF engine, Generate
  <2> QED BY <1>1, <1>5, <1>6, <1>7, <2>1 DEF Inv, TypeOK, ProducerType
<1>9. ReaderType' /\ OutputType' /\ L0Type'
  BY <1>1, ReaderFrame, OutputFrame, L0Frame DEF Generate, Inv, TypeOK
<1> QED BY <1>1, <1>8, <1>9, PathInv, Unwritten DEF Generate

\* Taking the oldest request of a generator.
LEMMA TakeGenerated ==
  ASSUME Inv, NEW g \in Generators, generated[g] # <<>>, UNCHANGED engine,
         UNCHANGED <<selected, generation>>,
         generated' = [generated EXCEPT ![g] = Tail(@)]
  PROVE  ProducerType' /\ Head(generated[g]) \in Reqs
<1>1. generated[g] \in Seq(Reqs) /\ Len(generated[g]) <= GeneratedCapacity[g]
  BY DEF Inv, TypeOK, ProducerType
<1>2. /\ Head(generated[g]) \in Reqs /\ Tail(generated[g]) \in Seq(Reqs)
      /\ Len(Tail(generated[g])) <= GeneratedCapacity[g]
  BY <1>1, CapacityAssumption
<1>3. Reqs' = Reqs /\ issued' = issued
  BY SameReqs DEF engine
<1> QED BY <1>2, <1>3 DEF Inv, TypeOK, ProducerType

\* Adding a request to an input of the L1 interface.
LEMMA PushInput ==
  ASSUME Inv, NEW p \in InputPorts, NEW r \in Reqs, Len(inputs[p]) < InputCapacity,
         UNCHANGED engine, UNCHANGED <<lastSelected, memory>>,
         inputs' = [inputs EXCEPT ![p] = Append(@, r)]
  PROVE  ReaderType'
<1>1. inputs[p] \in Seq(Reqs)
  BY DEF Inv, TypeOK, ReaderType
<1>2. Append(inputs[p], r) \in Seq(Reqs) /\ Len(Append(inputs[p], r)) <= InputCapacity
  BY <1>1, CapacityAssumption
<1>3. Reqs' = Reqs
  BY SameReqs
<1> QED BY <1>2, <1>3 DEF Inv, TypeOK, ReaderType

LEMMA SendReadInv ==
  ASSUME Inv, NEW g \in Generators, SendRead(g)
  PROVE  Inv'
<1>1. UNCHANGED engine /\ Later
  BY Quiet DEF SendRead, Inv, TypeOK
<1>2. ProducerType' /\ Head(generated[g]) \in Reqs
  BY <1>1, TakeGenerated DEF SendRead
<1>3. ReaderType'
  <2>1. 0 \in InputPorts
    BY DEF InputPorts
  <2>2. /\ Len(inputs[0]) < InputCapacity /\ UNCHANGED <<lastSelected, memory>>
        /\ inputs' = [inputs EXCEPT ![0] = Append(@, Head(generated[g]))]
    BY DEF SendRead
  <2> QED BY <1>1, <1>2, <2>1, <2>2, PushInput
<1>4. OutputType' /\ L0Type'
  BY <1>1, OutputFrame, L0Frame DEF SendRead, Inv, TypeOK
<1> QED BY <1>1, <1>2, <1>3, <1>4, PathInv, Unwritten DEF SendRead

LEMMA SendFillInv ==
  ASSUME Inv, SendFill
  PROVE  Inv'
<1> DEFINE r == Head(generated["Set2d"])
           f == [id |-> r.id, index |-> r.index, part |-> 1]
<1>1. UNCHANGED engine /\ Later /\ Frags' = Frags
  BY Quiet, SameReqs DEF SendFill, Inv, TypeOK
<1>2. "Set2d" \in Generators
  BY DEF Generators
<1>3. ProducerType' /\ r \in Reqs
  BY <1>1, <1>2, TakeGenerated DEF SendFill
<1>4. f \in Frags
  BY <1>3, FragOf
<1>5. 1 \in WritePorts /\ L0Type
  BY DEF WritePorts, Inv, TypeOK
<1>6. PushWrite(Cmd(r.id).to, 1, f) /\ UNCHANGED <<acks, lastPrimary>>
  BY DEF SendFill
<1>7. L0Type'
  BY <1>1, <1>4, <1>5, <1>6, PushWriteType
<1>8. ReaderType' /\ OutputType'
  BY <1>1, ReaderFrame, OutputFrame DEF SendFill, Inv, TypeOK
<1> QED BY <1>1, <1>3, <1>7, <1>8, PathInv, Unwritten DEF SendFill

LEMMA PushOtherInv ==
  ASSUME Inv, NEW o \in 1..Len(others), PushOther(o)
  PROVE  Inv'
<1> DEFINE c == others[o]
           i == Len(program) + o
           k == pushed[o] + 1
           r == [id |-> i, index |-> k]
           f == [id |-> i, index |-> k, part |-> 1]
<1>1. UNCHANGED engine /\ Later /\ Frags' = Frags
  BY Quiet, SameReqs DEF PushOther, Inv, TypeOK
<1>2. i \in Started
  BY ProgramType DEF Started, Inv, TypeOK
<1>3. k \in Nat \ {0}
  BY DEF Inv, TypeOK, EngineType
<1>4. r \in Reqs /\ f \in Frags
  BY <1>2, <1>3 DEF Reqs, Frags
<1>5. pushed' \in [1..Len(others) -> Nat]
  <2>1. pushed' = [pushed EXCEPT ![o] = k]
    BY DEF PushOther
  <2> QED BY <1>3, <2>1 DEF Inv, TypeOK, EngineType
<1>6. EngineType'
  <2>1. Started' = Started /\ Ids' = Ids
    BY <1>1 DEF engine, Started, Ids
  <2> QED BY <1>1, <1>5, <2>1 DEF EngineType, Inv, TypeOK, PushOther, engine
<1>7. L0Type'
  <2>1. CASE c.op = "ExternalLoad2d"
    <3>1. 2 \in WritePorts /\ L0Type
      BY DEF WritePorts, Inv, TypeOK
    <3>2. PushWrite(c.to, 2, f) /\ UNCHANGED <<acks, lastPrimary>>
      BY <2>1 DEF PushOther
    <3> QED BY <1>1, <1>4, <3>1, <3>2, PushWriteType
  <2>2. CASE c.op # "ExternalLoad2d"
    <3>1. UNCHANGED l0
      BY <2>2 DEF PushOther, l0
    <3> QED BY <1>1, <3>1, L0Frame DEF Inv, TypeOK
  <2> QED BY <2>1, <2>2
<1>8. ReaderType'
  <2>1. CASE c.op = "ExternalLoad2d"
    <3>1. UNCHANGED <<reader, memory>>
      BY <2>1 DEF PushOther, reader
    <3> QED BY <1>1, <3>1, ReaderFrame DEF Inv, TypeOK
  <2>2. CASE c.op # "ExternalLoad2d"
    <3> DEFINE p == InputPort(c.op)
    <3>1. p \in InputPorts
      BY DEF InputPort, InputPorts
    <3>2. /\ Len(inputs[p]) < InputCapacity /\ UNCHANGED <<lastSelected, memory>>
          /\ inputs' = [inputs EXCEPT ![p] = Append(@, r)]
      BY <2>2 DEF PushOther
    <3> HIDE DEF p, r
    <3> QED BY <1>1, <1>4, <3>1, <3>2, PushInput
  <2> QED BY <2>1, <2>2
<1>9. ProducerType' /\ OutputType' /\ PendingInOrder'
  BY <1>1, ProducerFrame, OutputFrame, OrderFrame DEF PushOther, Inv, TypeOK
<1> QED BY <1>6, <1>7, <1>8, <1>9 DEF Inv, TypeOK
\* What the arbiter selects comes from an input that is not empty.
LEMMA SelectedHead ==
  ASSUME Inv, \E p \in InputPorts : Eligible(p)
  PROVE  /\ SelectedPort \in InputPorts
         /\ inputs[SelectedPort] \in Seq(Reqs) /\ inputs[SelectedPort] # <<>>
<1>1. SelectedPort \in InputPorts /\ Eligible(SelectedPort)
  BY SelectedEligible DEF Inv, TypeOK, ReaderType
<1> QED BY <1>1 DEF Eligible, Inv, TypeOK, ReaderType

LEMMA SendRequestInv ==
  ASSUME Inv, SendRequest
  PROVE  Inv'
<1> DEFINE p == SelectedPort
<1>1. UNCHANGED engine /\ Later /\ Reqs' = Reqs
  BY Quiet, SameReqs DEF SendRequest, Inv, TypeOK
<1>2. p \in InputPorts /\ inputs[p] \in Seq(Reqs) /\ inputs[p] # <<>>
  BY SelectedHead DEF SendRequest
<1>3. /\ lastSelected' = p /\ inputs' = [inputs EXCEPT ![p] = Tail(inputs[p])]
      /\ memory' = [memory EXCEPT !["MteRead"] = Append(memory["MteRead"], Head(inputs[p]))]
  BY DEF SendRequest, L1!Take
<1> HIDE DEF p
<1>4. ReaderType'
  <2>1. Tail(inputs[p]) \in Seq(Reqs) /\ Head(inputs[p]) \in Reqs
    BY <1>2
  <2>2. Len(Tail(inputs[p])) <= InputCapacity
    BY <1>2, CapacityAssumption DEF Inv, TypeOK, ReaderType
  <2>3. Append(memory["MteRead"], Head(inputs[p])) \in Seq(Reqs)
    BY <2>1 DEF Inv, TypeOK, ReaderType
  <2>4. memory' \in [{"MteRead"} -> Seq(Reqs)]
    BY <1>3, <2>3 DEF Inv, TypeOK, ReaderType
  <2>5. /\ inputs' \in [InputPorts -> Seq(Reqs)]
        /\ \A q \in InputPorts : Len(inputs'[q]) <= InputCapacity
    BY <1>2, <1>3, <2>1, <2>2 DEF Inv, TypeOK, ReaderType
  <2> QED BY <1>1, <1>2, <1>3, <2>4, <2>5 DEF ReaderType
<1>5. ProducerType' /\ OutputType' /\ L0Type'
  BY <1>1, ProducerFrame, OutputFrame, L0Frame DEF SendRequest, Inv, TypeOK
<1> QED BY <1>1, <1>4, <1>5, PathInv, Unwritten DEF SendRequest

LEMMA RejectRequestInv ==
  ASSUME Inv, RejectRequest
  PROVE  Inv'
<1>1. UNCHANGED engine /\ Later /\ Reqs' = Reqs
  BY Quiet, SameReqs DEF RejectRequest, Inv, TypeOK
<1>2. lastSelected' \in InputPorts
  BY SelectedHead DEF RejectRequest
<1>3. ReaderType'
  BY <1>1, <1>2 DEF RejectRequest, Inv, TypeOK, ReaderType
<1>4. ProducerType' /\ OutputType' /\ L0Type'
  BY <1>1, ProducerFrame, OutputFrame, L0Frame DEF RejectRequest, Inv, TypeOK
<1> QED BY <1>1, <1>3, <1>4, PathInv, Unwritten DEF RejectRequest

LEMMA ReceiveResponseInv ==
  ASSUME Inv, ReceiveResponse
  PROVE  Inv'
<1> DEFINE r == Head(memory["MteRead"])
<1>1. UNCHANGED engine /\ Later /\ Reqs' = Reqs /\ Frags' = Frags
  BY Quiet, SameReqs DEF ReceiveResponse, Inv, TypeOK
<1>2. memory["MteRead"] \in Seq(Reqs) /\ memory["MteRead"] # <<>>
  BY DEF ReceiveResponse, L1!Answer, Inv, TypeOK, ReaderType
<1>3. r \in Reqs /\ Tail(memory["MteRead"]) \in Seq(Reqs)
  BY <1>2
<1>4. ReaderType'
  <2>1. memory' = [memory EXCEPT !["MteRead"] = Tail(memory["MteRead"])]
    BY DEF ReceiveResponse, L1!Answer
  <2>2. memory' \in [{"MteRead"} -> Seq(Reqs)]
    BY <1>3, <2>1 DEF Inv, TypeOK, ReaderType
  <2>3. UNCHANGED reader
    BY DEF ReceiveResponse
  <2> QED BY <1>1, <2>2, <2>3 DEF Inv, TypeOK, ReaderType, reader
<1>5. OutputType'
  <2>1. acknowledged' \in {acknowledged, Append(acknowledged, r)}
    BY DEF ReceiveResponse
  <2>2. acknowledged' \in Seq(Reqs)
    BY <1>3, <2>1 DEF Inv, TypeOK, OutputType
  <2>3. UNCHANGED <<expanded, offset, retiring>>
    BY DEF ReceiveResponse
  <2> QED BY <1>1, <2>2, <2>3 DEF Inv, TypeOK, OutputType
<1>6. ProducerType' /\ L0Type'
  BY <1>1, ProducerFrame, L0Frame DEF ReceiveResponse, Inv, TypeOK
<1> QED BY <1>1, <1>4, <1>5, <1>6, PathInv, Unwritten DEF ReceiveResponse

LEMMA SendOutputInv ==
  ASSUME Inv, SendOutput
  PROVE  Inv'
<1> DEFINE r == Head(acknowledged)
           c == Cmd(r.id)
           f == [id |-> r.id, index |-> r.index, part |-> offset + 1]
           lastInUop == offset + 1 = PlanLength(c)
<1>1. UNCHANGED engine /\ Later /\ Reqs' = Reqs /\ Frags' = Frags
  BY Quiet, SameReqs DEF SendOutput, Inv, TypeOK
<1>2. acknowledged \in Seq(Reqs) /\ acknowledged # <<>> /\ offset \in Nat
  BY DEF SendOutput, Inv, TypeOK, OutputType
<1>3. r \in Reqs /\ Tail(acknowledged) \in Seq(Reqs) /\ offset + 1 \in Nat \ {0}
  BY <1>2
<1>4. f \in Frags
  BY <1>3, FragOf
<1>5. OutputType'
  <2>1. acknowledged' \in {acknowledged, Tail(acknowledged)} /\ offset' \in {0, offset + 1}
    BY DEF SendOutput
  <2>2. expanded' \in BOOLEAN
    BY Zenon DEF SendOutput
  <2>3. retiring' \in {retiring, Append(retiring, f)}
    BY DEF SendOutput
  <2>4. retiring' \in Seq(Frags)
    BY <1>4, <2>3, SMTT(30) DEF Inv, TypeOK, OutputType
  <2>5. acknowledged' \in Seq(Reqs) /\ offset' \in Nat
    BY <1>2, <1>3, <2>1
  <2> QED BY <1>1, <2>2, <2>4, <2>5 DEF OutputType
<1>6. L0Type'
  <2>1. CASE c.to \in Targets
    <3>1. 0 \in WritePorts /\ L0Type
      BY DEF WritePorts, Inv, TypeOK
    <3>2. PushWrite(c.to, 0, f) /\ UNCHANGED <<acks, lastPrimary>>
      BY <2>1 DEF SendOutput
    <3> QED BY <1>1, <1>4, <3>1, <3>2, PushWriteType
  <2>2. CASE c.to \notin Targets
    <3>1. UNCHANGED l0
      BY <2>2 DEF SendOutput, l0
    <3> QED BY <1>1, <3>1, L0Frame DEF Inv, TypeOK
  <2> QED BY <2>1, <2>2
<1>7. completed' \subseteq completed \cup Started
  <2>1. completed' = completed \/ Complete(f)
    BY DEF SendOutput
  <2> QED BY <1>4, <2>1, CompleteType
<1>8. written' \in [Ids -> Nat]
  <2>1. written' = written \/ Arrive(r.id)
    BY DEF SendOutput
  <2>2. written \in [Ids -> Nat]
    BY DEF Inv, TypeOK, EngineType
  <2> QED BY <2>1, <2>2, ArriveType
<1>9. ProducerType' /\ ReaderType'
  BY <1>1, ProducerFrame, ReaderFrame DEF SendOutput, Inv, TypeOK
<1> QED BY <1>1, <1>5, <1>6, <1>7, <1>8, <1>9, PathInv DEF SendOutput

LEMMA BlockOutputInv ==
  ASSUME Inv, BlockOutput
  PROVE  Inv'
<1>1. UNCHANGED engine /\ Later /\ Reqs' = Reqs /\ Frags' = Frags
  BY Quiet, SameReqs DEF BlockOutput, Inv, TypeOK
<1>2. expanded' \in BOOLEAN
  BY Zenon DEF BlockOutput
<1>3. OutputType'
  BY <1>1, <1>2 DEF BlockOutput, Inv, TypeOK, OutputType
<1>4. ProducerType' /\ ReaderType' /\ L0Type'
  BY <1>1, ProducerFrame, ReaderFrame, L0Frame DEF BlockOutput, Inv, TypeOK
<1> QED BY <1>1, <1>3, <1>4, PathInv, Unwritten DEF BlockOutput

\* A fragment that arrives counts for its command and may complete it.
LEMMA ArrivalType ==
  ASSUME Inv, NEW f \in Frags, Arrive(f.id), Complete(f)
  PROVE  completed' \subseteq completed \cup Started /\ written' \in [Ids -> Nat]
<1>1. written \in [Ids -> Nat]
  BY DEF Inv, TypeOK, EngineType
<1> QED BY <1>1, ArriveType, CompleteType

LEMMA RetireOutputInv ==
  ASSUME Inv, RetireOutput
  PROVE  Inv'
<1>1. UNCHANGED engine /\ Later /\ Reqs' = Reqs /\ Frags' = Frags
  BY Quiet, SameReqs DEF RetireOutput, Inv, TypeOK
<1>2. retiring \in Seq(Frags) /\ retiring # <<>>
  BY DEF RetireOutput, Inv, TypeOK, OutputType
<1>3. Head(retiring) \in Frags /\ Tail(retiring) \in Seq(Frags)
  BY <1>2
<1>4. OutputType'
  BY <1>1, <1>3 DEF RetireOutput, Inv, TypeOK, OutputType
<1>5. completed' \subseteq completed \cup Started /\ written' \in [Ids -> Nat]
  BY <1>3, ArrivalType DEF RetireOutput
<1>6. ProducerType' /\ ReaderType' /\ L0Type'
  BY <1>1, ProducerFrame, ReaderFrame, L0Frame DEF RetireOutput, Inv, TypeOK
<1> QED BY <1>1, <1>4, <1>5, <1>6, PathInv DEF RetireOutput

LEMMA SendWriteInv ==
  ASSUME Inv, NEW t \in Targets, SendWrite(t)
  PROVE  Inv'
<1> DEFINE p == WritePort(t)
           q == writes[t][p]
<1>1. UNCHANGED engine /\ Later /\ Frags' = Frags
  BY Quiet, SameReqs DEF SendWrite, Inv, TypeOK
<1>2. p \in WritePorts /\ q # <<>>
  BY WritePortUsed DEF SendWrite
<1>3. q \in Seq(Frags) /\ Len(q) <= WriteCapacity[p]
  BY <1>2 DEF Inv, TypeOK, L0Type
<1>4. /\ Head(q) \in Frags /\ Tail(q) \in Seq(Frags)
      /\ Len(Tail(q)) <= WriteCapacity[p]
  BY <1>2, <1>3, CapacityAssumption
<1>5. /\ writes' = [writes EXCEPT ![t][p] = Tail(q)]
      /\ acks' = [acks EXCEPT ![t] = Append(acks[t], Head(q))]
      /\ lastPrimary' = IF p = 2 THEN lastPrimary ELSE [lastPrimary EXCEPT ![t] = p]
  BY DEF SendWrite
<1> HIDE DEF p
<1>6. ASSUME NEW u \in Targets, NEW s \in WritePorts
      PROVE  writes'[u][s] \in Seq(Frags) /\ Len(writes'[u][s]) <= WriteCapacity[s]
  <2>1. writes \in [Targets -> [WritePorts -> Seq(Frags)]] /\ Len(writes[u][s]) <= WriteCapacity[s]
    BY <1>6 DEF Inv, TypeOK, L0Type
  <2>2. writes'[u][s] = IF u = t /\ s = p THEN Tail(q) ELSE writes[u][s]
    BY <1>2, <1>5, <1>6, <2>1
  <2> HIDE DEF q
  <2> QED BY <1>4, <2>1, <2>2
<1>7. writes' \in [Targets -> [WritePorts -> Seq(Frags)]]
  <2>1. writes \in [Targets -> [WritePorts -> Seq(Frags)]]
    BY DEF Inv, TypeOK, L0Type
  <2> HIDE DEF q
  <2> QED BY <1>2, <1>4, <1>5, <2>1
<1>8. acks' \in [Targets -> Seq(Frags)]
  <2> HIDE DEF q
  <2>1. acks[t] \in Seq(Frags)
    BY DEF Inv, TypeOK, L0Type
  <2>2. Append(acks[t], Head(q)) \in Seq(Frags)
    BY <1>4, <2>1
  <2> QED BY <1>5, <2>2 DEF Inv, TypeOK, L0Type
<1>9. lastPrimary' \in [Targets -> {0, 1}]
  <2>1. p \in {0, 1, 2}
    BY <1>2 DEF WritePorts
  <2> QED BY <1>5, <2>1 DEF Inv, TypeOK, L0Type
<1>10. L0Type'
  BY <1>1, <1>6, <1>7, <1>8, <1>9 DEF L0Type
<1>11. ProducerType' /\ ReaderType' /\ OutputType'
  BY <1>1, ProducerFrame, ReaderFrame, OutputFrame DEF SendWrite, Inv, TypeOK
<1> QED BY <1>1, <1>10, <1>11, PathInv, Unwritten DEF SendWrite

LEMMA RetireWriteInv ==
  ASSUME Inv, NEW t \in Targets, RetireWrite(t)
  PROVE  Inv'
<1>1. UNCHANGED engine /\ Later /\ Frags' = Frags
  BY Quiet, SameReqs DEF RetireWrite, Inv, TypeOK
<1>2. acks[t] \in Seq(Frags) /\ acks[t] # <<>>
  BY DEF RetireWrite, Inv, TypeOK, L0Type
<1>3. Head(acks[t]) \in Frags /\ Tail(acks[t]) \in Seq(Frags)
  BY <1>2
<1>4. L0Type'
  BY <1>1, <1>3 DEF RetireWrite, Inv, TypeOK, L0Type
<1>5. completed' \subseteq completed \cup Started /\ written' \in [Ids -> Nat]
  BY <1>3, ArrivalType DEF RetireWrite
<1>6. ProducerType' /\ ReaderType' /\ OutputType'
  BY <1>1, ProducerFrame, ReaderFrame, OutputFrame DEF RetireWrite, Inv, TypeOK
<1> QED BY <1>1, <1>4, <1>5, <1>6, PathInv DEF RetireWrite
LEMMA NextInv ==
  ASSUME Inv, [Next]_vars
  PROVE  Inv'
<1>1. CASE Issue
  BY <1>1, IssueInv
<1>2. CASE RetireCommand
  BY <1>2, RetireCommandInv
<1>3. CASE \E i \in 1..Len(program), f \in {"wait", "set"} : Signal(f, i)
  BY <1>3, SignalInv
<1>4. CASE \E g \in Generators : Generate(g)
  BY <1>4, GenerateInv
<1>5. CASE \E g \in Generators \ {"Set2d"} : SendRead(g)
  BY <1>5, SendReadInv
<1>6. CASE SendFill
  BY <1>6, SendFillInv
<1>7. CASE \E o \in 1..Len(others) : PushOther(o)
  BY <1>7, PushOtherInv
<1>8. CASE SendRequest \/ RejectRequest \/ ReceiveResponse
  BY <1>8, SendRequestInv, RejectRequestInv, ReceiveResponseInv
<1>9. CASE SendOutput \/ BlockOutput \/ RetireOutput
  BY <1>9, SendOutputInv, BlockOutputInv, RetireOutputInv
<1>10. CASE \E t \in Targets : SendWrite(t) \/ RetireWrite(t)
  BY <1>10, SendWriteInv, RetireWriteInv
<1>11. CASE UNCHANGED vars
  <2>1. UNCHANGED engine /\ UNCHANGED <<pushed, signals, completed, written>>
    BY <1>11 DEF vars
  <2>2. Later
    BY <2>1, Quiet DEF Inv, TypeOK
  <2>3. ProducerType' /\ ReaderType' /\ OutputType' /\ L0Type'
    BY <1>11, <2>2, ProducerFrame, ReaderFrame, OutputFrame, L0Frame DEF vars, Inv, TypeOK
  <2> QED BY <2>1, <2>3, PathInv, Unwritten
<1> QED BY <1>1, <1>2, <1>3, <1>4, <1>5, <1>6, <1>7, <1>8, <1>9, <1>10, <1>11
        DEF Next, Advance

LEMMA InvAlways == Spec => []Inv
<1>1. Init => Inv
  BY InitInv
<1>2. Inv /\ [Next]_vars => Inv'
  BY NextInv
<1> QED BY <1>1, <1>2, PTL DEF Spec

\* No queue of the path exceeds its capacity and no command its outstanding
\* limit, whatever the program, the capacities and the other traffic are; and
\* only requests of accepted commands are on the way.
THEOREM TypeCorrect == Spec => []TypeOK
<1>1. Inv => TypeOK
  BY DEF Inv
<1> QED BY <1>1, InvAlways, PTL

-----------------------------------------------------------------------------
(* The path implements CommandService *)

Finished == completed \cap (1..Len(program))
Retired  == (1..issued) \ Range(pending)

LEMMA PendingRange ==
  ASSUME Inv
  PROVE  /\ Range(pending) = (issued - Len(pending) + 1)..issued
         /\ Len(pending) \in 0..issued /\ issued \in Nat
<1>1. /\ pending \in Seq(1..issued) /\ issued \in Nat /\ Len(pending) \in Nat
      /\ DOMAIN pending = 1..Len(pending)
  BY DEF Inv, TypeOK, EngineType
<1>2. \A n \in 1..Len(pending) : pending[n] = issued - Len(pending) + n
  BY DEF Inv, PendingInOrder
<1>3. Len(pending) <= issued
  <2>1. CASE Len(pending) = 0
    BY <1>1, <2>1
  <2>2. CASE Len(pending) # 0
    <3>1. 1 \in 1..Len(pending) /\ pending[1] \in 1..issued
      BY <1>1, <2>2
    <3> QED BY <1>1, <1>2, <3>1
  <2> QED BY <2>1, <2>2
<1>4. ASSUME NEW j \in (issued - Len(pending) + 1)..issued
      PROVE  j \in Range(pending)
  <2> DEFINE n == j - issued + Len(pending)
  <2>1. n \in 1..Len(pending) /\ pending[n] = j
    BY <1>1, <1>2, <1>3
  <2> HIDE DEF n
  <2> QED BY <1>1, <2>1 DEF Range
<1>5. ASSUME NEW j \in Range(pending)
      PROVE  j \in (issued - Len(pending) + 1)..issued
  <2>1. PICK n \in 1..Len(pending) : j = pending[n]
    BY <1>1, <1>5 DEF Range
  <2> QED BY <1>1, <1>2, <2>1
<1>6. Range(pending) = (issued - Len(pending) + 1)..issued
  BY <1>4, <1>5
<1> QED BY <1>1, <1>3, <1>6

\* The retired commands are the oldest ones.
LEMMA RetiredOldest ==
  ASSUME Inv
  PROVE  Retired = 1..(issued - Len(pending))
<1>1. /\ Range(pending) = (issued - Len(pending) + 1)..issued
      /\ Len(pending) \in 0..issued /\ issued \in Nat
  BY PendingRange
<1> QED BY <1>1 DEF Retired

LEMMA InitService == Init => Service!Init
BY DEF Init, Service!Init, Range

\* A step that leaves the engine alone finishes at most one command.
LEMMA FinishStep ==
  ASSUME Inv, NEW f \in Frags, Complete(f), UNCHANGED engine
  PROVE  [Service!Next]_Service!vars
<1>1. issued' = issued /\ Retired' = Retired /\ Len(program') = Len(program)
  BY DEF engine, Retired
<1>2. f.id \in Started /\ completed' \in {completed, completed \cup {f.id}}
  BY DEF Frags, Complete
<1>3. issued \in Nat /\ Len(program) \in Nat
  BY ProgramType DEF Inv, TypeOK, EngineType
<1>4. CASE f.id \in 1..issued
  <2>1. CASE completed' = completed
    BY <1>1, <2>1 DEF Service!vars, Retired
  <2>2. CASE completed' = completed \cup {f.id}
    <3>1. f.id \in 1..Len(program)
      BY <1>3, <1>4 DEF Inv, TypeOK, EngineType
    <3>2. Finished' = Finished \cup {f.id}
      BY <1>1, <2>2, <3>1 DEF Finished
    <3>3. Service!Finish(f.id)
      BY <1>1, <1>4, <3>2 DEF Service!Finish, Finished, Retired
    <3> QED BY <1>4, <3>3 DEF Service!Next
  <2> QED BY <1>2, <2>1, <2>2
<1>5. CASE f.id \notin 1..issued
  <2>1. f.id \notin 1..Len(program)
    BY <1>2, <1>3, <1>5 DEF Started
  <2>2. Finished' = Finished
    BY <1>1, <1>2, <2>1 DEF Finished
  <2> QED BY <1>1, <2>2 DEF Service!vars, Finished, Retired
<1> QED BY <1>4, <1>5

LEMMA StutterStep ==
  ASSUME UNCHANGED engine, UNCHANGED completed
  PROVE  [Service!Next]_Service!vars
BY DEF engine, Service!vars, Range

LEMMA RangeAppend ==
  ASSUME NEW S, NEW q \in Seq(S), NEW x
  PROVE  Range(Append(q, x)) = Range(q) \cup {x}
<1>1. /\ Len(q) \in Nat /\ DOMAIN q = 1..Len(q)
      /\ DOMAIN Append(q, x) = 1..(Len(q) + 1)
      /\ Append(q, x)[Len(q) + 1] = x
      /\ \A n \in 1..Len(q) : Append(q, x)[n] = q[n]
  OBVIOUS
<1>2. 1..(Len(q) + 1) = (1..Len(q)) \cup {Len(q) + 1}
  BY <1>1
<1> QED BY <1>1, <1>2 DEF Range

LEMMA IssueStep ==
  ASSUME Inv, Issue
  PROVE  Service!Next
<1>1. /\ issued' = issued + 1 /\ pending' = Append(pending, issued + 1)
      /\ completed' \in {completed, completed \cup {issued + 1}}
      /\ program' = program /\ issued < Len(program)
  BY DEF Issue
<1>2. issued \in Nat /\ Len(program) \in Nat /\ pending \in Seq(1..issued)
  BY ProgramType DEF Inv, TypeOK, EngineType
<1>3. Finished' \in {Finished, Finished \cup {issued + 1}}
  <2>1. issued + 1 \in 1..Len(program)
    BY <1>1, <1>2
  <2> QED BY <1>1, <2>1 DEF Finished
<1>4. Retired' = Retired
  <2>1. Range(pending') = Range(pending) \cup {issued + 1}
    BY <1>1, <1>2, RangeAppend
  <2> QED BY <1>1, <1>2, <2>1 DEF Retired
<1>5. Service!Accept
  BY <1>1, <1>3, <1>4 DEF Service!Accept, Finished, Retired
<1> QED BY <1>5 DEF Service!Next
LEMMA RetireStep ==
  ASSUME Inv, RetireCommand
  PROVE  Service!Next
<1> DEFINE h == issued - Len(pending) + 1
<1>1. /\ pending \in Seq(1..issued) /\ pending # <<>> /\ Len(pending) \in 1..issued
      /\ issued \in Nat /\ issued <= Len(program) /\ Len(program) \in Nat
  <2>1. /\ pending \in Seq(1..issued) /\ pending # <<>>
        /\ issued \in Nat /\ issued <= Len(program) /\ Len(program) \in Nat
    BY ProgramType DEF Inv, TypeOK, EngineType, RetireCommand
  <2>2. Len(pending) \in 0..issued
    BY PendingRange
  <2> QED BY <2>1, <2>2
<1>2. /\ issued' = issued /\ program' = program /\ completed' = completed
      /\ pending' = Tail(pending) /\ Head(pending) \in completed
  BY DEF RetireCommand
<1>3. Head(pending) = h /\ h \in 1..issued
  BY <1>1 DEF Inv, PendingInOrder
<1>4. Retired = 1..(h - 1)
  <2>1. h - 1 = issued - Len(pending)
    BY <1>1
  <2> HIDE DEF h
  <2> QED BY <2>1, RetiredOldest
<1>5. Retired' = 1..h
  <2>1. Range(pending') = (h + 1)..issued
    <3>1. /\ Len(pending') = Len(pending) - 1
          /\ DOMAIN pending' = 1..(Len(pending) - 1)
          /\ \A n \in 1..(Len(pending) - 1) : pending'[n] = pending[n + 1]
      BY <1>1, <1>2
    <3>2. \A n \in 1..(Len(pending) - 1) : pending'[n] = h + n
      <4> SUFFICES ASSUME NEW n \in 1..(Len(pending) - 1)
                   PROVE  pending'[n] = h + n
        OBVIOUS
      <4>1. n + 1 \in 1..Len(pending)
        BY <1>1
      <4>2. pending[n + 1] = issued - Len(pending) + (n + 1)
        BY <4>1 DEF Inv, PendingInOrder
      <4> QED BY <3>1, <4>2, <1>1
    <3>3. ASSUME NEW j \in (h + 1)..issued PROVE j \in Range(pending')
      <4>1. j - h \in 1..(Len(pending) - 1) /\ h + (j - h) = j
        BY <1>1, <1>3
      <4>2. pending'[j - h] = j
        BY <3>2, <4>1
      <4> QED BY <3>1, <4>1, <4>2 DEF Range
    <3>4. ASSUME NEW j \in Range(pending') PROVE j \in (h + 1)..issued
      <4>1. PICK n \in 1..(Len(pending) - 1) : j = pending'[n]
        BY <3>1, <3>4 DEF Range
      <4> QED BY <1>1, <3>2, <4>1
    <3> QED BY <3>3, <3>4
  <2>2. Retired' = (1..issued) \ ((h + 1)..issued)
    BY <1>2, <2>1 DEF Retired
  <2> QED BY <1>1, <1>3, <2>2
<1>6. Finished' = Finished /\ h \in Finished
  BY <1>1, <1>2, <1>3 DEF Finished
<1> HIDE DEF h
<1>7. Service!Retire(h)
  <2>1. h \in Finished \ Retired
    BY <1>3, <1>4, <1>6
  <2>2. \A j \in 1..(h - 1) : j \in Retired
    BY <1>4
  <2>3. Retired' = Retired \cup {h}
    BY <1>3, <1>4, <1>5
  <2> QED BY <1>2, <1>6, <2>1, <2>2, <2>3 DEF Service!Retire, Finished, Retired
<1> QED BY <1>3, <1>7 DEF Service!Next

LEMMA ServiceStep ==
  ASSUME Inv, [Next]_vars
  PROVE  [Service!Next]_Service!vars
<1>1. CASE Issue
  BY <1>1, IssueStep
<1>2. CASE RetireCommand
  BY <1>2, RetireStep
<1>3. CASE SendOutput
  <2> DEFINE r == Head(acknowledged)
             f == [id |-> r.id, index |-> r.index, part |-> offset + 1]
  <2>1. acknowledged \in Seq(Reqs) /\ acknowledged # <<>> /\ offset \in Nat
    BY <1>3 DEF SendOutput, Inv, TypeOK, OutputType
  <2>2. r \in Reqs /\ offset + 1 \in Nat \ {0}
    BY <2>1
  <2>3. f \in Frags
    BY <2>2, FragOf
  <2>4. UNCHANGED engine /\ (UNCHANGED completed \/ Complete(f))
    BY <1>3 DEF SendOutput
  <2> QED BY <2>3, <2>4, StutterStep, FinishStep
<1>4. CASE RetireOutput
  <2>1. retiring \in Seq(Frags) /\ retiring # <<>>
    BY <1>4 DEF RetireOutput, Inv, TypeOK, OutputType
  <2>2. Head(retiring) \in Frags
    BY <2>1
  <2> QED BY <1>4, <2>2, FinishStep DEF RetireOutput
<1>5. ASSUME NEW t \in Targets, RetireWrite(t)
      PROVE  [Service!Next]_Service!vars
  <2>1. acks[t] \in Seq(Frags) /\ acks[t] # <<>>
    BY <1>5 DEF RetireWrite, Inv, TypeOK, L0Type
  <2>2. Head(acks[t]) \in Frags
    BY <2>1
  <2> QED BY <1>5, <2>2, FinishStep DEF RetireWrite
<1>6. CASE \/ \E i \in 1..Len(program), f \in {"wait", "set"} : Signal(f, i)
           \/ \E g \in Generators : Generate(g)
           \/ \E g \in Generators \ {"Set2d"} : SendRead(g)
           \/ SendFill
           \/ \E o \in 1..Len(others) : PushOther(o)
  BY <1>6, StutterStep DEF Signal, Generate, SendRead, SendFill, PushOther
<1>7. CASE \/ SendRequest \/ RejectRequest \/ ReceiveResponse \/ BlockOutput
           \/ \E t \in Targets : SendWrite(t)
  BY <1>7, StutterStep DEF SendRequest, RejectRequest, ReceiveResponse, BlockOutput, SendWrite
<1>8. CASE UNCHANGED vars
  BY <1>8, StutterStep DEF vars
<1> QED BY <1>1, <1>2, <1>3, <1>4, <1>5, <1>6, <1>7, <1>8 DEF Next, Advance

\* For every program and every other traffic MTE1 accepts its commands one by
\* one, finishes each one before it retires and retires them in program order.
THEOREM ImplementsService == Spec => InOrderRetirement
<1>1. Init => Service!Init
  BY InitService
<1>2. Inv /\ [Next]_vars => [Service!Next]_Service!vars
  BY ServiceStep
<1> QED BY <1>1, <1>2, InvAlways, PTL DEF Spec, InOrderRetirement, Service!Spec
-----------------------------------------------------------------------------
(* The reads stay in program order *)

\* Every read of MTE1 in X comes before every one in Y; n is the number of
\* commands of the program.
AllBefore(X, Y, n) ==
  \A x \in X, y \in Y : x.id <= n /\ y.id <= n => Before(x, y)

\* The reads of MTE1 in a queue are in program order.
Sorted(q, n) ==
  \A i, j \in DOMAIN q : i < j /\ q[i].id <= n /\ q[j].id <= n => Before(q[i], q[j])

\* The request that a generator makes next.
NextRead(g) ==
  IF generation[g] = None THEN {}
  ELSE {[id |-> generation[g].id, index |-> generation[g].next]}

\* Only the selected generator works: the others have sent all they had.
Exclusive == \A g \in Generators : g # selected => Idle(g)

\* The reads of the other users that do not go through port 0.
ForeignPorts ==
  \A p \in InputPorts \ {0} : \A r \in Range(inputs[p]) : r.id > Len(program)

\* Each queue of the way is sorted, and comes before the queues behind it.
SharedOrder ==
  LET n == Len(program)
      A == Range(acknowledged)
      M == Range(memory["MteRead"])
      I == Range(inputs[0])
  IN  /\ Sorted(acknowledged, n) /\ Sorted(memory["MteRead"], n) /\ Sorted(inputs[0], n)
      /\ AllBefore(A, M, n) /\ AllBefore(A \cup M, I, n)
GeneratorOrder(g) ==
  LET n == Len(program)
      Sent == Range(acknowledged) \cup Range(memory["MteRead"]) \cup Range(inputs[0])
      G == Range(generated[g])
  IN  /\ Sorted(generated[g], n) /\ AllBefore(Sent, G, n)
      /\ AllBefore(Sent \cup G, NextRead(g), n)

OrderInv ==
  Exclusive /\ ForeignPorts /\ SharedOrder /\ \A g \in Generators : GeneratorOrder(g)

\* What the queue operations do to the order, n being any bound on the ids.
LEMMA AppendOrder ==
  ASSUME NEW S, NEW q \in Seq(S), NEW r, NEW n, Sorted(q, n), AllBefore(Range(q), {r}, n)
  PROVE  Sorted(Append(q, r), n) /\ Range(Append(q, r)) = Range(q) \cup {r}
<1> DEFINE a == Append(q, r)
<1>1. /\ Len(q) \in Nat /\ DOMAIN q = 1..Len(q) /\ DOMAIN a = 1..(Len(q) + 1)
      /\ a[Len(q) + 1] = r /\ \A i \in 1..Len(q) : a[i] = q[i]
  OBVIOUS
<1> HIDE DEF a
<1>2. SUFFICES ASSUME NEW i \in DOMAIN a, NEW j \in DOMAIN a, i < j,
                      a[i].id <= n, a[j].id <= n
               PROVE  Before(a[i], a[j])
  BY RangeAppend DEF Sorted, a
<1>3. i \in DOMAIN q /\ a[i] = q[i]
  BY <1>1, <1>2
<1>4. CASE j \in DOMAIN q
  BY <1>1, <1>2, <1>3, <1>4 DEF Sorted
<1>5. CASE j = Len(q) + 1
  <2>1. q[i] \in Range(q) /\ a[j] = r
    BY <1>1, <1>3, <1>5 DEF Range
  <2> QED BY <1>2, <1>3, <2>1 DEF AllBefore
<1> QED BY <1>1, <1>4, <1>5

LEMMA HeadAndTail ==
  ASSUME NEW S, NEW q \in Seq(S), q # <<>>
  PROVE  Range(q) = {Head(q)} \cup Range(Tail(q))
<1> DEFINE t == Tail(q)
           h == Head(q)
<1>1. /\ Len(q) \in Nat \ {0} /\ DOMAIN q = 1..Len(q) /\ DOMAIN t = 1..(Len(q) - 1)
      /\ h = q[1] /\ \A i \in 1..(Len(q) - 1) : t[i] = q[i + 1]
  OBVIOUS
<1> HIDE DEF t, h
<1>2. \A i \in DOMAIN t : i + 1 \in DOMAIN q /\ t[i] = q[i + 1]
  BY <1>1
<1>3. Range(t) \subseteq Range(q) /\ h \in Range(q)
  BY <1>1, <1>2 DEF Range
<1>4. ASSUME NEW i \in DOMAIN q PROVE q[i] \in {h} \cup Range(t)
  <2>1. CASE i = 1
    BY <1>1, <2>1
  <2>2. CASE i # 1
    <3>1. i - 1 \in DOMAIN t /\ t[i - 1] = q[i]
      BY <1>1, <2>2
    <3> QED BY <3>1 DEF Range
  <2> QED BY <2>1, <2>2
<1>5. Range(q) = {h} \cup Range(t)
  BY <1>3, <1>4 DEF Range
<1> QED BY <1>5 DEF t, h

LEMMA TailOrder ==
  ASSUME NEW S, NEW q \in Seq(S), q # <<>>, NEW n, Sorted(q, n)
  PROVE  /\ Sorted(Tail(q), n) /\ Range(q) = {Head(q)} \cup Range(Tail(q))
         /\ AllBefore({Head(q)}, Range(Tail(q)), n)
<1> DEFINE t == Tail(q)
           h == Head(q)
<1>1. /\ Len(q) \in Nat \ {0} /\ DOMAIN q = 1..Len(q) /\ DOMAIN t = 1..(Len(q) - 1)
      /\ h = q[1] /\ \A i \in 1..(Len(q) - 1) : t[i] = q[i + 1]
  OBVIOUS
<1> HIDE DEF t, h
<1>2. \A i \in DOMAIN t : i + 1 \in DOMAIN q /\ t[i] = q[i + 1] /\ 1 < i + 1 /\ i \in Int
  BY <1>1
<1>3. Sorted(t, n)
  <2> SUFFICES ASSUME NEW i \in DOMAIN t, NEW j \in DOMAIN t, i < j,
                      t[i].id <= n, t[j].id <= n
               PROVE  Before(t[i], t[j])
    BY DEF Sorted
  <2>1. i + 1 < j + 1
    BY <1>2
  <2> QED BY <1>2, <2>1 DEF Sorted
<1>4. Range(q) = {h} \cup Range(t)
  BY HeadAndTail DEF t, h
<1>5. AllBefore({h}, Range(t), n)
  <2> SUFFICES ASSUME NEW i \in DOMAIN t, h.id <= n, t[i].id <= n
               PROVE  Before(h, t[i])
    BY DEF AllBefore, Range
  <2> QED BY <1>1, <1>2 DEF Sorted
<1> QED BY <1>3, <1>4, <1>5 DEF t, h

LEMMA ConcatOrder ==
  ASSUME NEW S, NEW q \in Seq(S), NEW s \in Seq(S), NEW n,
         Sorted(q, n), Sorted(s, n), AllBefore(Range(q), Range(s), n)
  PROVE  Sorted(q \o s, n) /\ Range(q \o s) = Range(q) \cup Range(s)
<1> DEFINE u == q \o s
<1>1. /\ Len(q) \in Nat /\ Len(s) \in Nat /\ DOMAIN q = 1..Len(q) /\ DOMAIN s = 1..Len(s)
      /\ DOMAIN u = 1..(Len(q) + Len(s)) /\ \A i \in 1..Len(q) : u[i] = q[i]
      /\ \A i \in (Len(q) + 1)..(Len(q) + Len(s)) : u[i] = s[i - Len(q)]
  OBVIOUS
<1> HIDE DEF u
<1>2. \A i \in DOMAIN u :
        /\ i \in Int
        /\ \/ i \in DOMAIN q /\ u[i] = q[i] /\ i <= Len(q)
           \/ i - Len(q) \in DOMAIN s /\ u[i] = s[i - Len(q)] /\ i > Len(q)
  BY <1>1
<1>3. Sorted(u, n)
  <2> SUFFICES ASSUME NEW i \in DOMAIN u, NEW j \in DOMAIN u, i < j,
                      u[i].id <= n, u[j].id <= n
               PROVE  Before(u[i], u[j])
    BY DEF Sorted
  <2>1. CASE j \in DOMAIN q /\ u[j] = q[j] /\ j <= Len(q)
    <3>1. i \in DOMAIN q /\ u[i] = q[i]
      BY <1>1, <1>2, <2>1
    <3> QED BY <2>1, <3>1 DEF Sorted
  <2>2. CASE i - Len(q) \in DOMAIN s /\ u[i] = s[i - Len(q)] /\ i > Len(q)
    <3>1. j - Len(q) \in DOMAIN s /\ u[j] = s[j - Len(q)] /\ i - Len(q) < j - Len(q)
      BY <1>1, <1>2, <2>2
    <3> QED BY <2>2, <3>1 DEF Sorted
  <2>3. CASE /\ i \in DOMAIN q /\ u[i] = q[i]
             /\ j - Len(q) \in DOMAIN s /\ u[j] = s[j - Len(q)]
    <3>1. u[i] \in Range(q) /\ u[j] \in Range(s)
      BY <2>3 DEF Range
    <3> QED BY <3>1 DEF AllBefore
  <2> QED BY <1>2, <2>1, <2>2, <2>3
<1>4. Range(u) \subseteq Range(q) \cup Range(s)
  BY <1>2 DEF Range
<1>5. Range(q) \subseteq Range(u)
  BY <1>1 DEF Range
<1>6. ASSUME NEW i \in DOMAIN s PROVE s[i] \in Range(u)
  <2>1. i + Len(q) \in DOMAIN u /\ u[i + Len(q)] = s[i]
    BY <1>1
  <2> QED BY <2>1 DEF Range
<1>7. Range(s) \subseteq Range(u)
  BY <1>6 DEF Range
<1> QED BY <1>3, <1>4, <1>5, <1>7 DEF u

LEMMA BeforeTrans ==
  ASSUME NEW x \in [id : Int, index : Int], NEW y \in [id : Int, index : Int],
         NEW z \in [id : Int, index : Int], Before(x, y), Before(y, z)
  PROVE  Before(x, z)
BY DEF Before

\* The queues of the way, their entries and the next request of a generator.
LEMMA WayTypes ==
  ASSUME Inv
  PROVE  /\ issued \in Nat /\ Len(program) \in Nat /\ issued <= Len(program)
         /\ acknowledged \in Seq(Reqs) /\ memory["MteRead"] \in Seq(Reqs)
         /\ \A p \in InputPorts : inputs[p] \in Seq(Reqs)
         /\ \A g \in Generators :
              /\ generated[g] \in Seq(Reqs)
              /\ generation[g] = None \/ generation[g] \in [id : 1..issued, next : Nat \ {0}]
         /\ 0 \in InputPorts
BY ProgramType DEF Inv, TypeOK, EngineType, ProducerType, ReaderType, OutputType, InputPorts

LEMMA RangeIn ==
  ASSUME NEW S, NEW q \in Seq(S)
  PROVE  Range(q) \subseteq S
BY DEF Range

\* Requests of the program are requests of accepted commands.
LEMMA OwnAccepted ==
  ASSUME Inv, NEW r \in Reqs, r.id <= Len(program)
  PROVE  r.id \in 1..issued /\ r.index \in Nat
BY WayTypes, ProgramType DEF Reqs, Started, Inv, TypeOK

LEMMA InitOrder == Init => OrderInv
<1> SUFFICES ASSUME Init PROVE OrderInv
  OBVIOUS
<1>1. /\ \A p \in InputPorts : inputs[p] = <<>> 
      /\ \A g \in Generators : generated[g] = <<>> /\ generation[g] = None
      /\ acknowledged = <<>> /\ memory["MteRead"] = <<>> /\ 0 \in InputPorts
  BY DEF Init, L1!Init, InputPorts
<1>2. Range(<<>>) = {} /\ \A n : Sorted(<<>>, n)
  BY DEF Range, Sorted
<1>3. Exclusive
  BY <1>1 DEF Exclusive, Idle
<1>4. ForeignPorts
  BY <1>1, <1>2 DEF ForeignPorts
<1>5. SharedOrder
  BY <1>1, <1>2 DEF SharedOrder, AllBefore
<1>6. \A g \in Generators : GeneratorOrder(g)
  BY <1>1, <1>2 DEF GeneratorOrder, AllBefore, NextRead
<1> QED BY <1>3, <1>4, <1>5, <1>6 DEF OrderInv

\* What a step leaves alone.
LEMMA OrderUntouched ==
  ASSUME OrderInv, UNCHANGED <<program, selected, generation, generated, inputs,
                               acknowledged, memory>>
  PROVE  OrderInv'
<1>1. Exclusive'
  BY DEF OrderInv, Exclusive, Idle
<1>2. ForeignPorts' /\ SharedOrder'
  BY DEF OrderInv, ForeignPorts, SharedOrder
<1>3. \A g \in Generators : GeneratorOrder(g)'
  BY DEF OrderInv, GeneratorOrder, NextRead
<1> QED BY <1>1, <1>2, <1>3 DEF OrderInv

\* A command is accepted only when no other generator has anything to send,
\* and it comes after all the requests there are.
LEMMA IssueOrder ==
  ASSUME Inv, OrderInv, Issue
  PROVE  OrderInv'
<1> DEFINE i == issued + 1
           c == program[i]
           g == GeneratorOf(c)
           bypass == Disabled(c) \/ c.op \in {"HardwareFlag", "WriteSpr"}
<1>0. /\ UNCHANGED <<program, generated, inputs, acknowledged, memory>>
      /\ issued < Len(program)
  BY DEF Issue, reader, output
<1>1. /\ selected' = IF bypass THEN selected ELSE g
      /\ CanIssue(c)
      /\ \/ generation' = generation
         \/ RequestCount(c) # 0 /\ generation' = [generation EXCEPT ![g] = [id |-> i, next |-> 1]]
  BY DEF Issue
<1>2. c \in Command /\ c.op \notin Foreign /\ i \in Nat
  BY <1>0, WayTypes, ProgramType DEF Inv, TypeOK
<1>3. RequestCount(c) # 0 => ~bypass /\ g \in Generators
  <2>1. c.op \in Controls => c.blocks * 0 = 0
    BY <1>2 DEF Command
  <2>2. \A x \in Int : 0 * x = 0
    OBVIOUS
  <2>3. c.op \in Controls => RequestCount(c) = 0
    BY <2>1 DEF RequestCount, Controls
  <2>4. Disabled(c) => RequestCount(c) = 0
    <3> SUFFICES ASSUME Disabled(c) PROVE RequestCount(c) = 0
      OBVIOUS
    <3>1. c.blocks = 0 /\ c.op \in Reads \cup {"Set2d"} /\ c.merge \in Int
      BY <1>2 DEF Disabled, Command
    <3>2. c.merge * Parts \in Int /\ 2 * Parts \in Int /\ Parts \in Int /\ Fragments \in Int
      BY <3>1, SplitAssumption
    <3> QED BY <2>2, <3>1, <3>2 DEF RequestCount, Reads, Controls
  <2>5. c.op \notin Controls => g \in Generators
    BY <1>2 DEF Command, Controls, Foreign, GeneratorOf, Generators, Reads
  <2> QED BY <2>3, <2>4, <2>5 DEF Controls
<1>4. ~bypass => selected = g \/ SelectedIdle
  BY <1>1 DEF CanIssue
<1> HIDE DEF bypass, g, c
<1>5. Exclusive'
  <2> SUFFICES ASSUME NEW h \in Generators, h # selected' PROVE Idle(h)'
    BY DEF Exclusive
  <2>1. Idle(h)
    <3>1. CASE h # selected
      BY <3>1 DEF OrderInv, Exclusive
    <3>2. CASE h = selected
      BY <1>1, <1>4, <3>2 DEF SelectedIdle
    <3> QED BY <3>1, <3>2
  <2>2. generation'[h] = generation[h]
    <3>1. CASE generation' = generation
      BY <3>1
    <3>2. CASE RequestCount(c) # 0 /\ generation' = [generation EXCEPT ![g] = [id |-> i, next |-> 1]]
      <4>1. h # g
        BY <1>1, <1>3, <3>2
      <4> QED BY <3>2, <4>1
    <3> QED BY <1>1, <3>1, <3>2
  <2> QED BY <1>0, <2>1, <2>2 DEF Idle
<1>6. ForeignPorts' /\ SharedOrder'
  BY <1>0 DEF OrderInv, ForeignPorts, SharedOrder
<1>7. ASSUME NEW h \in Generators
      PROVE  GeneratorOrder(h)'
  <2>1. NextRead(h)' = NextRead(h) \/ NextRead(h)' = {[id |-> i, index |-> 1]}
    <3>1. generation \in [Generators -> [id : 1..issued, next : Nat \ {0}] \cup {None}]
      BY DEF Inv, TypeOK, ProducerType
    <3>2. CASE generation'[h] = generation[h]
      BY <3>2 DEF NextRead
    <3>3. CASE generation'[h] = [id |-> i, next |-> 1]
      <4>1. generation'[h] # None
        BY <1>2, <3>3 DEF None
      <4> QED BY <3>3, <4>1 DEF NextRead
    <3> QED BY <1>1, <3>1, <3>2, <3>3
  <2> DEFINE Sent == Range(acknowledged) \cup Range(memory["MteRead"]) \cup Range(inputs[0])
             G == Range(generated[h])
  <2>2. Sent \cup G \subseteq Reqs
    BY WayTypes, RangeIn
  <2>3. AllBefore(Sent \cup G, {[id |-> i, index |-> 1]}, Len(program))
    BY <2>2, OwnAccepted, WayTypes DEF AllBefore, Before
  <2>4. AllBefore(Sent \cup G, NextRead(h), Len(program))
    BY DEF OrderInv, GeneratorOrder
  <2>5. AllBefore(Sent \cup G, NextRead(h)', Len(program))
    BY <2>1, <2>3, <2>4
  <2>6. Sorted(generated[h], Len(program)) /\ AllBefore(Sent, G, Len(program))
    BY DEF OrderInv, GeneratorOrder
  <2> QED BY <1>0, <2>5, <2>6 DEF GeneratorOrder
<1> QED BY <1>5, <1>6, <1>7 DEF OrderInv

\* A generator that works is the selected one.
LEMMA Working ==
  ASSUME OrderInv, NEW g \in Generators, generation[g] # None \/ generated[g] # <<>>
  PROVE  g = selected
BY DEF OrderInv, Exclusive, Idle

LEMMA GenerateOrder ==
  ASSUME Inv, OrderInv, NEW g \in Generators, Generate(g)
  PROVE  OrderInv'
<1> DEFINE now == generation[g]
           r == [id |-> now.id, index |-> now.next]
           n == Len(program)
           Sent == Range(acknowledged) \cup Range(memory["MteRead"]) \cup Range(inputs[0])
           G == Range(generated[g])
<1>0. /\ UNCHANGED <<program, selected, inputs, acknowledged, memory>> /\ now # None
      /\ generated' = [generated EXCEPT ![g] = Append(generated[g], r)]
  BY DEF Generate, engine, reader, output
<1>1. /\ now \in [id : 1..issued, next : Nat \ {0}] /\ generated[g] \in Seq(Reqs)
      /\ g = selected /\ NextRead(g) = {r}
  BY <1>0, WayTypes, Working DEF NextRead
<1>2. generation' \in {[generation EXCEPT ![g] = None],
                       [generation EXCEPT ![g] = [id |-> now.id, next |-> now.next + 1]]}
  BY DEF Generate
<1>3. /\ DOMAIN generated = Generators /\ DOMAIN generation = Generators
  BY DEF Inv, TypeOK, ProducerType
<1>4. /\ Sorted(generated[g], n) /\ AllBefore(Sent, G, n) /\ AllBefore(Sent \cup G, {r}, n)
  BY <1>1 DEF OrderInv, GeneratorOrder
<1>5. /\ generated'[g] = Append(generated[g], r)
      /\ Sorted(generated'[g], n) /\ Range(generated'[g]) = G \cup {r}
  <2> HIDE DEF r
  <2>1. generated'[g] = Append(generated[g], r)
    BY <1>0, <1>3
  <2>2. AllBefore(Range(generated[g]), {r}, n)
    BY <1>4 DEF AllBefore
  <2>3. generated[g] \in Seq(Reqs) /\ Sorted(generated[g], n)
    BY <1>1, <1>4
  <2> HIDE DEF n
  <2>4. /\ Sorted(Append(generated[g], r), n)
        /\ Range(Append(generated[g], r)) = Range(generated[g]) \cup {r}
    BY <2>2, <2>3, AppendOrder
  <2> QED BY <2>1, <2>4
<1>10. ASSUME NEW h \in Generators, h # g
       PROVE  generated'[h] = generated[h] /\ generation'[h] = generation[h]
  <2> HIDE DEF now, r
  <2> QED BY <1>0, <1>2, <1>3, <1>10
<1>6. Exclusive'
  BY <1>0, <1>1, <1>10 DEF OrderInv, Exclusive, Idle
<1>7. ForeignPorts' /\ SharedOrder'
  BY <1>0 DEF OrderInv, ForeignPorts, SharedOrder
<1>8. ASSUME NEW h \in Generators, h # g
      PROVE  GeneratorOrder(h)'
  <2>1. generated'[h] = generated[h] /\ generation'[h] = generation[h]
    BY <1>8, <1>10
  <2> QED BY <1>0, <2>1 DEF OrderInv, GeneratorOrder, NextRead
<1>9. GeneratorOrder(g)'
  <2>1. NextRead(g)' \subseteq {[id |-> now.id, index |-> now.next + 1]}
    <3>1. generation'[g] \in {None, [id |-> now.id, next |-> now.next + 1]}
      BY <1>2, <1>3
    <3> HIDE DEF now
    <3> QED BY <3>1 DEF NextRead
  <2>2. Sent \cup G \subseteq Reqs
    BY WayTypes, RangeIn
  <2> DEFINE s == [id |-> now.id, index |-> now.next + 1]
  <2>3. Before(r, s) /\ now.id <= n /\ r.id = now.id
    BY <1>1, WayTypes DEF Before
  <2>4. r \in [id : Int, index : Int] /\ s \in [id : Int, index : Int]
    BY <1>1
  <2> HIDE DEF r, s
  <2>5. ASSUME NEW x \in Sent \cup G, x.id <= n
        PROVE  Before(x, s)
    <3>1. x \in [id : Int, index : Int]
      BY <2>2, <2>5, OwnAccepted DEF Reqs
    <3>2. Before(x, r)
      BY <1>4, <2>3, <2>5 DEF AllBefore
    <3> QED BY <2>3, <2>4, <3>1, <3>2, BeforeTrans
  <2>6. AllBefore(Sent \cup (G \cup {r}), NextRead(g)', n)
    BY <2>1, <2>3, <2>5 DEF AllBefore, s
  <2>7. AllBefore(Sent, G \cup {r}, n)
    BY <1>4 DEF AllBefore
  <2> QED BY <1>0, <1>5, <2>6, <2>7 DEF GeneratorOrder
<1> QED BY <1>6, <1>7, <1>8, <1>9 DEF OrderInv

\* Taking the oldest request of a generator leaves its order.
LEMMA TakeOrder ==
  ASSUME Inv, NEW g \in Generators, generated[g] # <<>>, OrderInv,
         generated' = [generated EXCEPT ![g] = Tail(@)]
  PROVE  /\ Sorted(generated'[g], Len(program))
         /\ Range(generated[g]) = {Head(generated[g])} \cup Range(generated'[g])
         /\ AllBefore({Head(generated[g])}, Range(generated'[g]), Len(program))
         /\ \A h \in Generators : h # g => generated'[h] = generated[h]
<1>1. generated[g] \in Seq(Reqs) /\ Sorted(generated[g], Len(program))
  BY WayTypes DEF OrderInv, GeneratorOrder
<1>2. generated'[g] = Tail(generated[g])
  BY DEF Inv, TypeOK, ProducerType
<1>3. \A h \in Generators : h # g => generated'[h] = generated[h]
  BY DEF Inv, TypeOK, ProducerType
<1> QED BY <1>1, <1>2, <1>3, TailOrder

LEMMA SendReadOrder ==
  ASSUME Inv, OrderInv, NEW g \in Generators, SendRead(g)
  PROVE  OrderInv'
<1> DEFINE n == Len(program)
           A == Range(acknowledged)
           M == Range(memory["MteRead"])
           I == Range(inputs[0])
           G == Range(generated[g])
           x == Head(generated[g])
<1>1. /\ UNCHANGED <<program, selected, generation, acknowledged, memory>>
      /\ generated[g] # <<>> /\ generated' = [generated EXCEPT ![g] = Tail(@)]
      /\ inputs' = [inputs EXCEPT ![0] = Append(inputs[0], x)]
  BY DEF SendRead, engine, output
<1>2. /\ Sorted(generated'[g], n) /\ G = {x} \cup Range(generated'[g])
      /\ AllBefore({x}, Range(generated'[g]), n)
      /\ \A h \in Generators : h # g => generated'[h] = generated[h]
  BY <1>1, TakeOrder
<1>3. g = selected
  BY <1>1, Working
<1>4. /\ AllBefore(A \cup M \cup I, G, n) /\ AllBefore(A \cup M \cup I \cup G, NextRead(g), n)
      /\ Sorted(inputs[0], n) /\ AllBefore(A \cup M, I, n)
      /\ Sorted(acknowledged, n) /\ Sorted(memory["MteRead"], n) /\ AllBefore(A, M, n)
  BY DEF OrderInv, SharedOrder, GeneratorOrder
<1>5. /\ inputs'[0] = Append(inputs[0], x)
      /\ \A p \in InputPorts \ {0} : inputs'[p] = inputs[p]
      /\ inputs[0] \in Seq(Reqs)
  <2> HIDE DEF x
  <2> QED BY <1>1, WayTypes DEF Inv, TypeOK, ReaderType
<1> HIDE DEF x
<1>6. Sorted(inputs'[0], n) /\ Range(inputs'[0]) = I \cup {x}
  <2>1. AllBefore(Range(inputs[0]), {x}, n)
    BY <1>2, <1>4 DEF AllBefore
  <2>2. Sorted(inputs[0], n)
    BY <1>4
  <2> HIDE DEF n
  <2>3. /\ Sorted(Append(inputs[0], x), n)
        /\ Range(Append(inputs[0], x)) = Range(inputs[0]) \cup {x}
    BY <1>5, <2>1, <2>2, AppendOrder
  <2> QED BY <1>5, <2>3
<1> HIDE DEF A, M, I, G, n
<1>7. Exclusive'
  BY <1>1, <1>2, <1>3 DEF OrderInv, Exclusive, Idle
<1>8. ForeignPorts'
  BY <1>1, <1>5 DEF OrderInv, ForeignPorts
<1>9. SharedOrder'
  <2>1. AllBefore(A \cup M, I \cup {x}, n)
    BY <1>2, <1>4 DEF AllBefore
  <2> QED BY <1>1, <1>4, <1>6, <2>1 DEF SharedOrder, A, M, n
<1>10. GeneratorOrder(g)'
  <2>1. AllBefore(A \cup M \cup (I \cup {x}), Range(generated'[g]), n)
    BY <1>2, <1>4 DEF AllBefore
  <2>2. AllBefore(A \cup M \cup (I \cup {x}) \cup Range(generated'[g]), NextRead(g), n)
    BY <1>2, <1>4 DEF AllBefore
  <2>3. NextRead(g)' = NextRead(g)
    BY <1>1 DEF NextRead
  <2> QED BY <1>1, <1>2, <1>6, <2>1, <2>2, <2>3 DEF GeneratorOrder, A, M, n
<1>11. ASSUME NEW h \in Generators, h # g
       PROVE  GeneratorOrder(h)'
  <2>1. generated'[h] = <<>> /\ NextRead(h)' = {}
    BY <1>1, <1>2, <1>3, <1>11 DEF OrderInv, Exclusive, Idle, NextRead
  <2>2. Range(<<>>) = {} /\ Sorted(<<>>, n)
    BY DEF Range, Sorted
  <2> QED BY <1>1, <2>1, <2>2 DEF GeneratorOrder, AllBefore, n
<1> QED BY <1>7, <1>8, <1>9, <1>10, <1>11 DEF OrderInv

LEMMA SendFillOrder ==
  ASSUME Inv, OrderInv, SendFill
  PROVE  OrderInv'
<1> DEFINE g == "Set2d"
           n == Len(program)
<1>1. /\ UNCHANGED <<program, selected, generation, inputs, acknowledged, memory>>
      /\ generated[g] # <<>> /\ generated' = [generated EXCEPT ![g] = Tail(@)]
      /\ g \in Generators
  BY DEF SendFill, engine, output, reader, Generators
<1>2. /\ Sorted(generated'[g], n) /\ Range(generated'[g]) \subseteq Range(generated[g])
      /\ \A h \in Generators : h # g => generated'[h] = generated[h]
  BY <1>1, TakeOrder
<1>3. g = selected
  BY <1>1, Working
<1> HIDE DEF g
<1>4. Exclusive' /\ ForeignPorts' /\ SharedOrder'
  BY <1>1, <1>2, <1>3 DEF OrderInv, Exclusive, Idle, ForeignPorts, SharedOrder
<1>5. ASSUME NEW h \in Generators PROVE GeneratorOrder(h)'
  <2>1. Range(generated'[h]) \subseteq Range(generated[h]) /\ NextRead(h)' = NextRead(h)
    BY <1>1, <1>2 DEF NextRead
  <2>2. Sorted(generated'[h], n)
    BY <1>2 DEF OrderInv, GeneratorOrder
  <2>3. GeneratorOrder(h)
    BY DEF OrderInv
  <2> QED BY <1>1, <2>1, <2>2, <2>3 DEF GeneratorOrder, AllBefore
<1> QED BY <1>4, <1>5 DEF OrderInv

\* When only the requests between the generators and the output move, it is
\* enough that the shared queues stay sorted and hold no new ones of MTE1.
LEMMA SharedStep ==
  ASSUME OrderInv, UNCHANGED <<program, selected, generation, generated>>,
         ForeignPorts', SharedOrder',
         \A x \in (Range(acknowledged) \cup Range(memory["MteRead"]) \cup Range(inputs[0]))' :
           x.id <= Len(program) =>
             x \in Range(acknowledged) \cup Range(memory["MteRead"]) \cup Range(inputs[0])
  PROVE  OrderInv'
<1>1. Exclusive'
  BY DEF OrderInv, Exclusive, Idle
<1>2. ASSUME NEW g \in Generators PROVE GeneratorOrder(g)'
  <2>1. GeneratorOrder(g) /\ NextRead(g)' = NextRead(g)
    BY DEF OrderInv, NextRead
  <2> QED BY <2>1 DEF GeneratorOrder, AllBefore
<1> QED BY <1>1, <1>2 DEF OrderInv

LEMMA PushOtherOrder ==
  ASSUME Inv, OrderInv, NEW o \in 1..Len(others), PushOther(o)
  PROVE  OrderInv'
<1> DEFINE c == others[o]
           p == InputPort(c.op)
           r == [id |-> Len(program) + o, index |-> pushed[o] + 1]
           n == Len(program)
<1>1. UNCHANGED <<program, selected, generation, generated, acknowledged, memory>>
  BY DEF PushOther, engine, output, producers
<1>2. CASE c.op = "ExternalLoad2d"
  <2>1. inputs' = inputs
    BY <1>2 DEF PushOther
  <2> QED BY <1>1, <2>1, OrderUntouched
<1>3. CASE c.op # "ExternalLoad2d"
  <2>1. inputs' = [inputs EXCEPT ![p] = Append(inputs[p], r)] /\ p \in InputPorts
    BY <1>3 DEF PushOther, InputPort, InputPorts
  <2>2. ~ r.id <= n
    BY ProgramType DEF Inv, TypeOK
  <2> HIDE DEF r, p, n
  <2>3. /\ \A q \in InputPorts : inputs'[q] = IF q = p THEN Append(inputs[q], r) ELSE inputs[q]
        /\ \A q \in InputPorts : inputs[q] \in Seq(Reqs)
        /\ 0 \in InputPorts
    BY <2>1, WayTypes DEF Inv, TypeOK, ReaderType
  <2>4. \A q \in InputPorts : Range(inputs'[q]) \subseteq Range(inputs[q]) \cup {r}
    BY <2>3, RangeAppend
  <2>5. ForeignPorts'
    <3>1. r.id > n
      BY ProgramType DEF Inv, TypeOK, r, n
    <3> QED BY <1>1, <2>4, <3>1 DEF OrderInv, ForeignPorts, n
  <2>6. Sorted(inputs'[0], n)
    <3>1. Sorted(inputs[0], n)
      BY DEF OrderInv, SharedOrder, n
    <3>2. AllBefore(Range(inputs[0]), {r}, n)
      BY <2>2 DEF AllBefore
    <3>3. Sorted(Append(inputs[0], r), n)
      BY <2>3, <3>1, <3>2, AppendOrder
    <3> QED BY <2>3, <3>1, <3>3
  <2>7. SharedOrder'
    <3>1. SharedOrder
      BY DEF OrderInv
    <3>2. AllBefore(Range(acknowledged) \cup Range(memory["MteRead"]), Range(inputs'[0]), n)
      BY <2>2, <2>3, <2>4, <3>1 DEF SharedOrder, AllBefore, n
    <3> QED BY <1>1, <2>6, <3>1, <3>2 DEF SharedOrder, n
  <2>8. \A x \in Range(inputs'[0]) : x.id <= n => x \in Range(inputs[0])
    BY <2>2, <2>3, <2>4
  <2> QED BY <1>1, <2>5, <2>7, <2>8, SharedStep DEF n
<1> QED BY <1>2, <1>3

LEMMA SendRequestOrder ==
  ASSUME Inv, OrderInv, SendRequest
  PROVE  OrderInv'
<1> DEFINE p == SelectedPort
           x == Head(inputs[p])
           n == Len(program)
           A == Range(acknowledged)
           M == Range(memory["MteRead"])
           I == Range(inputs[0])
<1>1. /\ UNCHANGED <<program, selected, generation, generated, acknowledged>>
      /\ inputs' = [inputs EXCEPT ![p] = Tail(inputs[p])]
      /\ memory' = [memory EXCEPT !["MteRead"] = Append(memory["MteRead"], x)]
  BY DEF SendRequest, engine, output, producers, L1!Take
<1>2. p \in InputPorts /\ inputs[p] \in Seq(Reqs) /\ inputs[p] # <<>>
  BY SelectedHead DEF SendRequest
<1> HIDE DEF p
<1>3. /\ \A q \in InputPorts : inputs'[q] = IF q = p THEN Tail(inputs[q]) ELSE inputs[q]
      /\ 0 \in InputPorts
  BY <1>1, <1>2, WayTypes DEF Inv, TypeOK, ReaderType
<1>4. memory'["MteRead"] = Append(memory["MteRead"], x) /\ memory["MteRead"] \in Seq(Reqs)
  <2> HIDE DEF x
  <2> QED BY <1>1, WayTypes DEF Inv, TypeOK, ReaderType
<1>5. SharedOrder /\ ForeignPorts
  BY DEF OrderInv
<1>6. /\ Sorted(acknowledged, n) /\ Sorted(memory["MteRead"], n) /\ Sorted(inputs[0], n)
      /\ AllBefore(A, M, n) /\ AllBefore(A \cup M, I, n)
  BY <1>5 DEF SharedOrder
<1>7. Range(inputs[p]) = {x} \cup Range(Tail(inputs[p]))
  BY <1>2, HeadAndTail
<1>8. ForeignPorts'
  BY <1>1, <1>3, <1>5, <1>7 DEF ForeignPorts
<1>9. /\ AllBefore(A \cup M, {x}, n) /\ AllBefore({x}, Range(inputs'[0]), n)
      /\ Sorted(inputs'[0], n) /\ Range(inputs'[0]) \subseteq I
      /\ x.id <= n => x \in I
  <2>1. CASE p = 0
    <3>1. /\ Sorted(Tail(inputs[0]), n) /\ I = {x} \cup Range(Tail(inputs[0]))
          /\ AllBefore({x}, Range(Tail(inputs[0])), n)
      BY <1>2, <1>6, <2>1, TailOrder
    <3> HIDE DEF x, I, A, M
    <3>2. AllBefore(A \cup M, {x}, n)
      BY <1>6, <3>1 DEF AllBefore
    <3> QED BY <1>3, <2>1, <3>1, <3>2
  <2>2. CASE p # 0
    <3>1. inputs'[0] = inputs[0]
      BY <1>3, <2>2
    <3>2. x \in Range(inputs[p])
      BY <1>7
    <3>3. ~ x.id <= n
      <4>1. x.id > n /\ x \in Reqs
        BY <1>2, <1>5, <2>2, <3>2 DEF ForeignPorts
      <4>2. x.id \in Int /\ n \in Int
        BY <4>1, ProgramType DEF Reqs, Started, Inv, TypeOK, EngineType
      <4> HIDE DEF x, n
      <4> QED BY <4>1, <4>2
    <3> HIDE DEF x, n
    <3> QED BY <1>6, <3>1, <3>3 DEF AllBefore
  <2> QED BY <2>1, <2>2
<1>10. Sorted(memory'["MteRead"], n) /\ Range(memory'["MteRead"]) = M \cup {x}
  <2>1. AllBefore(M, {x}, n) /\ Sorted(memory["MteRead"], n)
    BY <1>6, <1>9 DEF AllBefore
  <2> HIDE DEF x, n
  <2>2. /\ Sorted(Append(memory["MteRead"], x), n)
        /\ Range(Append(memory["MteRead"], x)) = Range(memory["MteRead"]) \cup {x}
    BY <1>4, <2>1, AppendOrder
  <2> QED BY <1>4, <2>2
<1> HIDE DEF x, n, A, M, I
<1>11. SharedOrder'
  <2>1. AllBefore(A, M \cup {x}, n) /\ AllBefore(A \cup (M \cup {x}), Range(inputs'[0]), n)
    BY <1>6, <1>9 DEF AllBefore
  <2> QED BY <1>1, <1>6, <1>9, <1>10, <2>1 DEF SharedOrder, A, n
<1>12. \A y \in A \cup (M \cup {x}) \cup Range(inputs'[0]) : y.id <= n => y \in A \cup M \cup I
  BY <1>9
<1>13. \A y \in (Range(acknowledged) \cup Range(memory["MteRead"]) \cup Range(inputs[0]))' :
         y.id <= n => y \in A \cup M \cup I
  BY <1>1, <1>10, <1>12 DEF A
<1> QED BY <1>1, <1>8, <1>11, <1>13, SharedStep DEF A, M, I, n

LEMMA ReceiveResponseOrder ==
  ASSUME Inv, OrderInv, ReceiveResponse
  PROVE  OrderInv'
<1> DEFINE x == Head(memory["MteRead"])
           n == Len(program)
           A == Range(acknowledged)
           M == Range(memory["MteRead"])
           I == Range(inputs[0])
<1>1. /\ UNCHANGED <<program, selected, generation, generated, inputs>>
      /\ memory' = [memory EXCEPT !["MteRead"] = Tail(memory["MteRead"])]
      /\ memory["MteRead"] # <<>>
      /\ acknowledged' = acknowledged \/ acknowledged' = Append(acknowledged, x)
  BY DEF ReceiveResponse, engine, producers, reader, L1!Answer
<1>2. /\ memory["MteRead"] \in Seq(Reqs) /\ acknowledged \in Seq(Reqs)
      /\ memory'["MteRead"] = Tail(memory["MteRead"])
  BY <1>1, WayTypes DEF Inv, TypeOK, ReaderType
<1>3. SharedOrder /\ ForeignPorts
  BY DEF OrderInv
<1>4. /\ Sorted(acknowledged, n) /\ Sorted(memory["MteRead"], n) /\ Sorted(inputs[0], n)
      /\ AllBefore(A, M, n) /\ AllBefore(A \cup M, I, n)
  BY <1>3 DEF SharedOrder
<1>5. /\ Sorted(memory'["MteRead"], n) /\ M = {x} \cup Range(memory'["MteRead"])
      /\ AllBefore({x}, Range(memory'["MteRead"]), n)
  BY <1>1, <1>2, <1>4, TailOrder
<1>6. Sorted(acknowledged', n) /\ Range(acknowledged') \in {A, A \cup {x}}
  <2>1. AllBefore(A, {x}, n) /\ Sorted(acknowledged, n)
    BY <1>4, <1>5 DEF AllBefore
  <2> HIDE DEF x, n
  <2>2. /\ Sorted(Append(acknowledged, x), n)
        /\ Range(Append(acknowledged, x)) = Range(acknowledged) \cup {x}
    BY <1>2, <2>1, AppendOrder
  <2> QED BY <1>1, <2>1, <2>2
<1> HIDE DEF x, n, A, M, I
<1>7. ForeignPorts'
  BY <1>1, <1>3 DEF ForeignPorts
<1>8. SharedOrder'
  <2>1. /\ AllBefore(Range(acknowledged'), Range(memory'["MteRead"]), n)
        /\ AllBefore(Range(acknowledged') \cup Range(memory'["MteRead"]), I, n)
    BY <1>4, <1>5, <1>6 DEF AllBefore
  <2> QED BY <1>1, <1>4, <1>5, <1>6, <2>1 DEF SharedOrder, I, n
<1>9. (Range(acknowledged) \cup Range(memory["MteRead"]) \cup Range(inputs[0]))'
         \subseteq A \cup M \cup I
  BY <1>1, <1>5, <1>6 DEF I
<1> QED BY <1>1, <1>7, <1>8, <1>9, SharedStep DEF A, M, I

LEMMA SendOutputOrder ==
  ASSUME Inv, OrderInv, SendOutput
  PROVE  OrderInv'
<1> DEFINE n == Len(program)
           A == Range(acknowledged)
<1>1. /\ UNCHANGED <<program, selected, generation, generated, inputs, memory>>
      /\ acknowledged # <<>>
      /\ acknowledged' = acknowledged \/ acknowledged' = Tail(acknowledged)
  BY DEF SendOutput, engine, producers, reader
<1>2. acknowledged \in Seq(Reqs)
  BY WayTypes
<1>3. SharedOrder /\ ForeignPorts
  BY DEF OrderInv
<1>4. Sorted(acknowledged', n) /\ Range(acknowledged') \subseteq A
  <2>1. Sorted(acknowledged, n)
    BY <1>3 DEF SharedOrder
  <2>2. Sorted(Tail(acknowledged), n) /\ Range(Tail(acknowledged)) \subseteq A
    BY <1>1, <1>2, <2>1, TailOrder
  <2> QED BY <1>1, <2>1, <2>2
<1>5. ForeignPorts' /\ SharedOrder'
  BY <1>1, <1>3, <1>4 DEF ForeignPorts, SharedOrder, AllBefore
<1> QED BY <1>1, <1>4, <1>5, SharedStep

LEMMA NextOrder ==
  ASSUME Inv, OrderInv, [Next]_vars
  PROVE  OrderInv'
<1>1. CASE Issue
  BY <1>1, IssueOrder
<1>2. CASE \E g \in Generators : Generate(g)
  BY <1>2, GenerateOrder
<1>3. CASE \E g \in Generators \ {"Set2d"} : SendRead(g)
  BY <1>3, SendReadOrder
<1>4. CASE SendFill
  BY <1>4, SendFillOrder
<1>5. CASE \E o \in 1..Len(others) : PushOther(o)
  BY <1>5, PushOtherOrder
<1>6. CASE SendRequest \/ ReceiveResponse \/ SendOutput
  BY <1>6, SendRequestOrder, ReceiveResponseOrder, SendOutputOrder
<1>7. CASE RetireCommand \/ RejectRequest \/ BlockOutput \/ RetireOutput
  BY <1>7, OrderUntouched
     DEF RetireCommand, RejectRequest, BlockOutput, RetireOutput, engine, producers,
         reader, output
<1>8. CASE \E i \in 1..Len(program), f \in {"wait", "set"} : Signal(f, i)
  BY <1>8, OrderUntouched DEF Signal, engine, producers, reader, output
<1>9. CASE \E t \in Targets : SendWrite(t) \/ RetireWrite(t)
  BY <1>9, OrderUntouched DEF SendWrite, RetireWrite, engine, producers, reader, output
<1>10. CASE UNCHANGED vars
  BY <1>10, OrderUntouched DEF vars, engine, producers, reader, output
<1> QED BY <1>1, <1>2, <1>3, <1>4, <1>5, <1>6, <1>7, <1>8, <1>9, <1>10 DEF Next, Advance

\* Sorted queues, each before the next, are a sorted way.
LEMMA SortedWay ==
  ASSUME Inv, OrderInv, NEW g \in Generators
  PROVE  /\ Sorted(WayOf(g), Len(program)) /\ WayOf(g) \in Seq(Reqs)
         /\ AllBefore(Range(WayOf(g)), NextRead(g), Len(program))
<1> DEFINE n == Len(program)
           A == acknowledged
           M == memory["MteRead"]
           I == inputs[0]
           G == generated[g]
<1>1. A \in Seq(Reqs) /\ M \in Seq(Reqs) /\ I \in Seq(Reqs) /\ G \in Seq(Reqs)
  BY WayTypes
<1>2. /\ Sorted(A, n) /\ Sorted(M, n) /\ Sorted(I, n) /\ Sorted(G, n)
      /\ AllBefore(Range(A), Range(M), n) /\ AllBefore(Range(A) \cup Range(M), Range(I), n)
      /\ AllBefore(Range(A) \cup Range(M) \cup Range(I), Range(G), n)
      /\ AllBefore(Range(A) \cup Range(M) \cup Range(I) \cup Range(G), NextRead(g), n)
  BY DEF OrderInv, SharedOrder, GeneratorOrder
<1>3. WayOf(g) = ((A \o M) \o I) \o G
  BY DEF WayOf
<1> HIDE DEF n, A, M, I, G
<1>4. A \o M \in Seq(Reqs) /\ Sorted(A \o M, n) /\ Range(A \o M) = Range(A) \cup Range(M)
  BY <1>1, <1>2, ConcatOrder
<1> DEFINE B == A \o M
<1> HIDE DEF B
<1>5. B \in Seq(Reqs) /\ Sorted(B, n) /\ AllBefore(Range(B), Range(I), n)
  BY <1>2, <1>4 DEF B
<1>6. B \o I \in Seq(Reqs) /\ Sorted(B \o I, n) /\ Range(B \o I) = Range(B) \cup Range(I)
  BY <1>1, <1>2, <1>5, ConcatOrder
<1> DEFINE C == B \o I
<1> HIDE DEF C
<1>10. Range(C) = Range(A) \cup Range(M) \cup Range(I)
  BY <1>4, <1>6 DEF B, C
<1>7. C \in Seq(Reqs) /\ Sorted(C, n) /\ AllBefore(Range(C), Range(G), n)
  BY <1>2, <1>6, <1>10 DEF C
<1>8. C \o G \in Seq(Reqs) /\ Sorted(C \o G, n) /\ Range(C \o G) = Range(C) \cup Range(G)
  BY <1>1, <1>2, <1>7, ConcatOrder
<1>9. WayOf(g) = C \o G
  BY <1>3 DEF B, C
<1> QED BY <1>2, <1>8, <1>9, <1>10 DEF n

LEMMA OrderImplies ==
  ASSUME Inv, OrderInv
  PROVE  ReadsInProgramOrder
<1> SUFFICES ASSUME NEW g \in Generators \ {"Set2d"}, NEW i \in DOMAIN WayOf(g),
                    Mte1Read(WayOf(g)[i])
             PROVE  /\ \A m \in 1..(i - 1) :
                         Mte1Read(WayOf(g)[m]) => Before(WayOf(g)[m], WayOf(g)[i])
                    /\ generation[g] # None =>
                         Before(WayOf(g)[i],
                                [id |-> generation[g].id, index |-> generation[g].next])
  BY DEF ReadsInProgramOrder
<1> DEFINE w == WayOf(g)
<1>1. /\ Sorted(w, Len(program)) /\ w \in Seq(Reqs)
      /\ AllBefore(Range(w), NextRead(g), Len(program))
  BY SortedWay
<1>2. w[i].id <= Len(program)
  BY DEF Mte1Read
<1> HIDE DEF w
<1>3. i \in DOMAIN w /\ w[i] \in Range(w) /\ DOMAIN w = 1..Len(w) /\ Len(w) \in Nat
  BY <1>1 DEF w, Range
<1>4. ASSUME NEW m \in 1..(i - 1), w[m].id <= Len(program)
      PROVE  Before(w[m], w[i])
  <2>1. m \in DOMAIN w /\ m < i
    BY <1>3
  <2> QED BY <1>1, <1>2, <1>3, <1>4, <2>1 DEF Sorted
<1>5. ASSUME generation[g] # None
      PROVE  Before(w[i], [id |-> generation[g].id, index |-> generation[g].next])
  <2> DEFINE s == [id |-> generation[g].id, index |-> generation[g].next]
  <2>1. s \in NextRead(g) /\ s.id = generation[g].id
    BY <1>5 DEF NextRead
  <2>2. generation[g].id <= Len(program)
    BY <1>5, WayTypes
  <2> HIDE DEF s
  <2>3. Before(w[i], s)
    BY <1>1, <1>2, <1>3, <2>1, <2>2 DEF AllBefore
  <2> QED BY <2>3 DEF s
<1> QED BY <1>4, <1>5 DEF w, Mte1Read

\* The reads of MTE1 stay in program order on the whole way from the generators
\* to the outputs, for every program, every capacity of the queues and every
\* traffic of the other users: selected_generator_idle is what the order rests
\* on, and the one input port of L1 that all the generators push to.
THEOREM ReadsKeepOrder == Spec => []ReadsInProgramOrder
<1>1. Init => OrderInv
  BY InitOrder
<1>2. Inv /\ Inv' /\ OrderInv /\ [Next]_vars => OrderInv'
  BY NextOrder
<1>3. Inv /\ OrderInv => ReadsInProgramOrder
  BY OrderImplies
<1> QED BY <1>1, <1>2, <1>3, InvAlways, PTL DEF Spec

-----------------------------------------------------------------------------
(***************************************************************************)
(* Completion.  The requests of a command are numbered, and so are its     *)
(* outputs and the fragments it writes.  Whatever queue one looks into,    *)
(* the entries of the command in it are consecutive numbers, in order: a   *)
(* window.  The windows of the queues of its way join: what has left one   *)
(* queue is what has entered the next.  Then the fragment with the marker  *)
(* of the last one is the last to arrive.                                  *)
(***************************************************************************)

Fills  == {"Set2d", "ExternalLoad2d"}
Wholes == {"Smask", "ExternalSmask", "L1Output"}

\* The outputs of a command, and the requests between two of them.  The
\* requests that complete an output are the k with (k + Lead) % Period = 0.
Blocks(c) == IF c.op \in Wholes THEN 1 ELSE c.blocks
Period(c) ==
  CASE c.op = "Load2dSparse" -> 2 * Parts
    [] c.op = "Load3dv2" -> c.merge * Parts
    [] c.op \in Wholes -> c.blocks * Parts
    [] OTHER -> Parts
Lead(c) == IF c.op = "Load2dSparse" THEN Parts ELSE 0

\* Outputs completed by the first k requests.
Done(c, k) == (k + Lead(c)) \div Period(c)

\* The entries of a queue with a number are numbered a + 1, ..., b in order.
Window(q, N, a, b) ==
  /\ a <= b
  /\ \A n \in DOMAIN q : N[q[n]] # 0 => N[q[n]] \in (a + 1)..b
  /\ \A k \in (a + 1)..b : \E n \in DOMAIN q : N[q[n]] = k
  /\ \A m, n \in DOMAIN q :
       m < n /\ N[q[m]] # 0 /\ N[q[n]] # 0 => N[q[m]] < N[q[n]]

\* The numbers of the entries of command i: requests, outputs and fragments.
AllReqs  == [id : Nat, index : Nat]
AllFrags == [id : Nat, index : Nat, part : Nat]
IndexOf(i)  == [r \in AllReqs |-> IF r.id = i THEN r.index ELSE 0]
BlockOf(i)  == [r \in AllReqs |-> IF r.id = i THEN Done(Cmd(i), r.index) ELSE 0]
UopOf(i)    == [f \in AllFrags |-> IF f.id = i THEN Done(Cmd(i), f.index) ELSE 0]
Place(f) ==
  LET c == Cmd(f.id)
  IN  IF c.op \in Fills THEN f.index
      ELSE (Done(c, f.index) - 1) * PlanLength(c) + f.part
PlaceOf(i)  == [f \in AllFrags |-> IF f.id = i THEN Place(f) ELSE 0]

\* The requests that the source of a command has made.
Made(i) ==
  LET g == GeneratorOf(Cmd(i))
  IN  IF i > Len(program) THEN pushed[i - Len(program)]
      ELSE IF i > issued THEN 0
      ELSE IF g \in Generators /\ generation[g].id = i THEN generation[g].next - 1
      ELSE RequestCount(Cmd(i))

Port(i) == IF i <= Len(program) THEN 0 ELSE InputPort(Cmd(i).op)

\* What each queue may hold.
Entries == {r \in [id : Ids, index : Nat \ {0}] : r.index <= RequestCount(Cmd(r.id))}
MadeBy(g) == {r \in Entries : r.id <= Len(program) /\ GeneratorOf(Cmd(r.id)) = g}
PathReads == {r \in Entries : Cmd(r.id).op \notin Fills \cup Controls}
ReadsAt(p) == {r \in PathReads : Port(r.id) = p}
OutputReads == {r \in PathReads : Request(r).completes}
Pieces ==
  {f \in [id : Ids, index : Nat \ {0}, part : Nat \ {0}] :
     /\ f.index <= RequestCount(Cmd(f.id))
     /\ IF Cmd(f.id).op \in Fills THEN f.part = 1
        ELSE /\ Cmd(f.id).op \notin Controls
             /\ [id |-> f.id, index |-> f.index] \in OutputReads
             /\ f.part <= PlanLength(Cmd(f.id))}
WritePortOf(i) ==
  CASE Cmd(i).op = "Set2d" -> 1 [] Cmd(i).op = "ExternalLoad2d" -> 2 [] OTHER -> 0
WritesAt(t, p) == {f \in Pieces : Cmd(f.id).to = t /\ WritePortOf(f.id) = p}
WritesTo(t) == {f \in Pieces : Cmd(f.id).to = t}
LastPieces ==
  {f \in Pieces : /\ Cmd(f.id).to \in Locals /\ Cmd(f.id).op \notin Fills
                  /\ f.part = PlanLength(Cmd(f.id))}

SourcePlaced ==
  /\ \A g \in Generators :
       /\ generated[g] \in Seq(MadeBy(g))
       /\ generation[g] # None =>
            /\ GeneratorOf(Cmd(generation[g].id)) = g
            /\ generation[g].next <= RequestCount(Cmd(generation[g].id))
  /\ \A o \in 1..Len(others) : pushed[o] <= RequestCount(others[o])
InputsPlaced == \A p \in InputPorts : inputs[p] \in Seq(ReadsAt(p))
OutputsPlaced ==
  memory["MteRead"] \in Seq(PathReads) /\ acknowledged \in Seq(OutputReads)
WritesPlaced ==
  \A t \in Targets :
    /\ \A p \in WritePorts : writes[t][p] \in Seq(WritesAt(t, p))
    /\ acks[t] \in Seq(WritesTo(t))
RetiringPlaced == retiring \in Seq(LastPieces)

Placed == SourcePlaced /\ InputsPlaced /\ OutputsPlaced /\ WritesPlaced /\ RetiringPlaced

\* The first output has fragments left.
OffsetHolds ==
  IF acknowledged = <<>> THEN offset = 0
  ELSE offset < PlanLength(Cmd(Head(acknowledged).id))

\* Fragments of the first output that have been sent.
Offset(i) == IF acknowledged # <<>> /\ Head(acknowledged).id = i THEN offset ELSE 0

\* How far the requests of a read have come: s have left the source, m the
\* inputs, a the memory, and z outputs have been sent.
Fetched(i, s, m, a) ==
  /\ IF i <= Len(program)
     THEN Window(generated[GeneratorOf(Cmd(i))], IndexOf(i), s, Made(i))
     ELSE s = Made(i)
  /\ Window(inputs[Port(i)], IndexOf(i), m, s)
  /\ Window(memory["MteRead"], IndexOf(i), a, m)

\* So many of the fragments for L0 have left, and some of those have been sent.
Delivery(i, sent) ==
  \E x \in Nat : /\ Window(writes[Cmd(i).to][WritePortOf(i)], PlaceOf(i), x, sent)
                /\ Window(acks[Cmd(i).to], PlaceOf(i), written[i], x)

\* How far its outputs have come: z of them, and `sent' fragments, have left.
Stored(i, z, sent) ==
  LET to == Cmd(i).to
  IN  /\ to \in Targets => Delivery(i, sent)
      /\ to \in Locals =>
           \E x \in Nat : Window(retiring, UopOf(i), x, z) /\ written[i] + (z - x) = sent
      /\ to = "External" => written[i] = sent

ReadLedger(i) ==
  \E s, m, a, z \in Nat :
    /\ Fetched(i, s, m, a)
    /\ Window(acknowledged, BlockOf(i), z, Done(Cmd(i), a))
    /\ Stored(i, z, z * PlanLength(Cmd(i)) + Offset(i))

FillLedger(i) ==
  \E s \in Nat :
    /\ IF i <= Len(program)
       THEN Window(generated["Set2d"], IndexOf(i), s, Made(i))
       ELSE s = Made(i)
    /\ Delivery(i, s)

Ledger(i) ==
  LET c == Cmd(i)
  IN  /\ RequestCount(c) = 0 => written[i] = 0
      /\ RequestCount(c) # 0 /\ c.op \in Fills => FillLedger(i)
      /\ RequestCount(c) # 0 /\ c.op \notin Fills => ReadLedger(i)

CompletedExactly ==
  \A i \in Started : i \in completed <=> written[i] = Outputs(Cmd(i))

LedgerInv ==
  /\ Placed /\ OffsetHolds /\ CompletedExactly
  /\ \A i \in Ids : Ledger(i)
-----------------------------------------------------------------------------
(* Arithmetic *)

LEMMA Multiples ==
  ASSUME NEW P \in Nat \ {0}, NEW q \in Nat, NEW s \in Nat, q < s
  PROVE  P * q \in Nat /\ P * s \in Nat /\ P * q + P <= P * s
<1>1. PICK d \in Nat : s = q + 1 + d
  <2>1. s - q - 1 \in Nat /\ s = q + 1 + (s - q - 1)
    OBVIOUS
  <2> QED BY <2>1
<1>2. P * s = P * q + P + P * d /\ P * d \in Nat /\ P * q \in Nat
  BY <1>1
<1> QED BY <1>2

LEMMA Division ==
  ASSUME NEW a \in Nat, NEW P \in Nat \ {0}
  PROVE  /\ a \div P \in Nat /\ a % P \in 0..(P - 1)
         /\ P * (a \div P) \in Nat /\ a = P * (a \div P) + (a % P)
OBVIOUS

LEMMA Quotient ==
  ASSUME NEW P \in Nat \ {0}, NEW q \in Nat, NEW a \in Nat, P * q <= a, a < P * q + P
  PROVE  a \div P = q /\ a % P = a - P * q
<1> DEFINE s == a \div P
           t == a % P
<1>1. P * q \in Nat
  OBVIOUS
<1>2. s \in Nat /\ t \in 0..(P - 1) /\ P * s \in Nat /\ a = P * s + t
  BY Division
<1> HIDE DEF s, t
<1>3. CASE s < q
  <2>1. P * s + P <= P * q
    BY <1>2, <1>3, Multiples
  <2> QED BY <1>1, <1>2, <2>1
<1>4. CASE q < s
  <2>1. P * q + P <= P * s
    BY <1>2, <1>4, Multiples
  <2> QED BY <1>1, <1>2, <2>1
<1>5. CASE q = s
  BY <1>1, <1>2, <1>5
<1>6. s = q /\ t = a - P * q
  BY <1>2, <1>3, <1>4, <1>5
<1> QED BY <1>6 DEF s, t

LEMMA NextQuotient ==
  ASSUME NEW a \in Nat, NEW P \in Nat \ {0}
  PROVE  (a + 1) \div P = (a \div P) + (IF (a + 1) % P = 0 THEN 1 ELSE 0)
<1> DEFINE q == a \div P
           r == a % P
<1>1. q \in Nat /\ r \in 0..(P - 1) /\ P * q \in Nat /\ a = P * q + r
  BY Division
<1> DEFINE b == a + 1
<1>0. b = a + 1 /\ b \in Nat
  OBVIOUS
<1> HIDE DEF q, r, b
<1>2. CASE r + 1 < P
  <2>1. P * q <= b /\ b < P * q + P /\ b - P * q # 0
    BY <1>0, <1>1, <1>2
  <2>2. b \div P = q /\ b % P = b - P * q
    BY <1>0, <1>1, <2>1, Quotient
  <2> QED BY <1>0, <1>1, <2>1, <2>2 DEF q
<1>3. CASE r + 1 = P
  <2> DEFINE u == q + 1
  <2>1. u \in Nat /\ u = q + 1 /\ P * u = P * q + P
    BY <1>1
  <2> HIDE DEF u
  <2>2. P * u <= b /\ b < P * u + P /\ b - P * u = 0
    BY <1>0, <1>1, <1>3, <2>1
  <2>3. b \div P = u /\ b % P = b - P * u
    BY <1>0, <2>1, <2>2, Quotient
  <2> QED BY <1>0, <2>1, <2>2, <2>3 DEF q
<1> QED BY <1>1, <1>2, <1>3

\* A quotient reaches B when the number reaches P * B.
LEMMA QuotientReaches ==
  ASSUME NEW a \in Nat, NEW P \in Nat \ {0}, NEW B \in Nat
  PROVE  a \div P >= B <=> a >= P * B
<1> DEFINE q == a \div P
           r == a % P
<1>0. P * B \in Nat
  OBVIOUS
<1>1. q \in Nat /\ r \in 0..(P - 1) /\ P * q \in Nat /\ a = P * q + r
  BY Division
<1> HIDE DEF q, r
<1>2. CASE q < B
  <2>1. P * q + P <= P * B
    BY <1>0, <1>1, <1>2, Multiples
  <2> QED BY <1>0, <1>1, <1>2, <2>1 DEF q
<1>3. CASE B < q
  <2>1. P * B + P <= P * q
    BY <1>0, <1>1, <1>3, Multiples
  <2> QED BY <1>0, <1>1, <1>3, <2>1 DEF q
<1>4. CASE B = q
  BY <1>0, <1>1, <1>4 DEF q
<1> QED BY <1>0, <1>1, <1>2, <1>3, <1>4

\* k is a multiple of A * B when A divides it, and B the number of its block
\* of A numbers.
LEMMA NestedMultiple ==
  ASSUME NEW A \in Nat \ {0}, NEW B \in Nat \ {0}, NEW k \in Nat \ {0}
  PROVE  k % (B * A) = 0 <=> k % A = 0 /\ (((k - 1) \div A) + 1) % B = 0
<1> DEFINE C == B * A
<1>1. C \in Nat \ {0} /\ C = B * A
  OBVIOUS
<1> HIDE DEF C
<1>2. ASSUME k % C = 0
      PROVE  k % A = 0 /\ (((k - 1) \div A) + 1) % B = 0
  <2> DEFINE s == k \div C
  <2>0. s \in Nat /\ C * s \in Nat /\ k = C * s + (k % C)
    BY <1>1, Division
  <2>1. s \in Nat /\ k = C * s
    BY <1>2, <2>0
  <2> HIDE DEF s
  <2> DEFINE q == B * s
  <2>2. q \in Nat /\ q = B * s /\ A * q = k
    BY <1>1, <2>1
  <2>3. q # 0
    BY <2>2
  <2> HIDE DEF q
  <2>4. k % A = k - A * q
    BY <2>2, Quotient
  <2>5. ((k - 1) \div A) + 1 = q
    <3> DEFINE p == q - 1
               j == k - 1
    <3>1. p \in Nat /\ j \in Nat /\ A * p = k - A /\ q = p + 1 /\ j = k - 1
      BY <2>2, <2>3
    <3> HIDE DEF p, j
    <3>2. A * p <= j /\ j < A * p + A
      BY <3>1
    <3>3. j \div A = p
      BY <3>1, <3>2, Quotient
    <3> QED BY <3>1, <3>3
  <2>6. q % B = q - B * s
    <3>1. B * s <= q /\ q < B * s + B
      BY <2>2
    <3> QED BY <2>1, <2>2, <3>1, Quotient
  <2>7. q % B = 0
    BY <2>2, <2>6
  <2> QED BY <2>2, <2>4, <2>5, <2>7
<1>3. ASSUME k % A = 0, (((k - 1) \div A) + 1) % B = 0
      PROVE  k % C = 0
  <2> DEFINE q == k \div A
  <2>1. q \in Nat /\ k = A * q
    BY <1>3, Division
  <2>2. q # 0
    BY <2>1
  <2> HIDE DEF q
  <2>3. ((k - 1) \div A) + 1 = q
    <3> DEFINE p == q - 1
               j == k - 1
    <3>1. p \in Nat /\ j \in Nat /\ A * p = k - A /\ q = p + 1 /\ j = k - 1
      BY <2>1, <2>2
    <3> HIDE DEF p, j
    <3>2. A * p <= j /\ j < A * p + A
      BY <3>1
    <3>3. j \div A = p
      BY <3>1, <3>2, Quotient
    <3> QED BY <3>1, <3>3
  <2> DEFINE s == q \div B
  <2>4. q % B = 0
    BY <1>3, <2>3
  <2>5. s \in Nat /\ q = B * s
    BY <2>1, <2>4, Division
  <2> HIDE DEF s
  <2>6. C * s = k
    BY <1>1, <2>1, <2>5
  <2>7. k % C = k - C * s
    BY <1>1, <2>5, <2>6, Quotient, SMTT(30)
  <2> QED BY <2>6, <2>7
<1> QED BY <1>1, <1>2, <1>3

\* Every second block of A numbers, the first one included.
LEMMA OddMultiple ==
  ASSUME NEW A \in Nat \ {0}, NEW k \in Nat \ {0}
  PROVE  (k + A) % (2 * A) = 0 <=> k % A = 0 /\ (((k - 1) \div A) + 1) % 2 = 1
<1> DEFINE n == k + A
<1>1. n \in Nat \ {0} /\ n = k + A
  OBVIOUS
<1> HIDE DEF n
<1>2. n % (2 * A) = 0 <=> n % A = 0 /\ (((n - 1) \div A) + 1) % 2 = 0
  <2> DEFINE B == 2
  <2>1. B \in Nat \ {0} /\ B = 2
    OBVIOUS
  <2> HIDE DEF B
  <2>2. n % (B * A) = 0 <=> n % A = 0 /\ (((n - 1) \div A) + 1) % B = 0
    BY <1>1, <2>1, NestedMultiple, ZenonT(30)
  <2> QED BY <2>1, <2>2
<1>3. n % A = k % A
  <2> DEFINE q == k \div A
             u == q + 1
             r == k % A
  <2>1. q \in Nat /\ r \in 0..(A - 1) /\ A * q \in Nat /\ k = A * q + r
    BY Division
  <2>2. u \in Nat /\ A * u = A * q + A
    BY <2>1
  <2> HIDE DEF q, r, u
  <2>3. A * u <= n /\ n < A * u + A /\ n - A * u = r
    BY <1>1, <2>1, <2>2
  <2>4. n % A = n - A * u
    BY <1>1, <2>2, <2>3, Quotient
  <2> QED BY <2>3, <2>4 DEF r
<1>4. (n - 1) \div A = ((k - 1) \div A) + 1
  <2> DEFINE j == k - 1
             m == n - 1
             q == j \div A
             u == q + 1
             r == j % A
  <2>0. j \in Nat /\ m \in Nat /\ m = j + A
    BY <1>1
  <2> HIDE DEF j, m
  <2>1. q \in Nat /\ r \in 0..(A - 1) /\ A * q \in Nat /\ j = A * q + r
    BY <2>0, Division
  <2>2. u \in Nat /\ u = q + 1
    BY <2>1, SMTT(30)
  <2>5. A * u = A * q + A
    BY <2>1
  <2> HIDE DEF q, r, u
  <2>3. A * u <= m /\ m < A * u + A
    BY <2>0, <2>1, <2>5
  <2>4. m \div A = u
    BY <2>0, <2>2, <2>3, Quotient
  <2> QED BY <2>2, <2>4 DEF m, j, q
<1>5. (k - 1) \div A \in Nat
  <2>1. k - 1 \in Nat
    OBVIOUS
  <2> QED BY <2>1, Division
<1>6. \A q \in Nat : (q + 1 + 1) % 2 = 0 <=> (q + 1) % 2 = 1
  OBVIOUS
<1> QED BY <1>1, <1>2, <1>3, <1>4, <1>5, <1>6

-----------------------------------------------------------------------------
(* The requests, the outputs and the fragments of a command *)

\* A command that is routed; another user's command writes something.
Routed(c) ==
  c \in Command /\ c.to \in Route(c.op) /\ (c.op \in Foreign => c.blocks > 0)

\* A read with something to do.
Reading(c) == Routed(c) /\ c.op \notin Fills \cup Controls /\ RequestCount(c) # 0

LEMMA RoutedCmd ==
  ASSUME EngineType, NEW i \in Ids
  PROVE  /\ Routed(Cmd(i)) /\ i \in Nat \ {0}
         /\ Cmd(i).op \in Foreign <=> i > Len(program)
<1> DEFINE w == [mte1 |-> program, others |-> others]
<1>1. w \in Workloads /\ w.mte1 = program /\ w.others = others
  BY DEF EngineType
<1> HIDE DEF w
<1>2. /\ program \in Seq({d \in Command : d.op \notin Foreign})
      /\ others \in Seq({d \in Command : d.op \in Foreign})
  BY <1>1, ProgramAssumption
<1>3. /\ \A n \in 1..Len(program) : program[n].to \in Route(program[n].op)
      /\ \A o \in 1..Len(others) :
           others[o].to \in Route(others[o].op) /\ others[o].blocks > 0
  BY <1>1, RouteAssumption
<1>4. Len(program) \in Nat /\ Len(others) \in Nat /\ i \in 1..(Len(program) + Len(others))
  BY <1>2, LenInNat DEF Ids
<1>5. CASE i <= Len(program)
  BY <1>2, <1>3, <1>4, <1>5 DEF Cmd, Routed
<1>6. CASE ~(i <= Len(program))
  <2> DEFINE o == i - Len(program)
  <2>1. o \in 1..Len(others) /\ Cmd(i) = others[o]
    BY <1>4, <1>6 DEF Cmd
  <2> HIDE DEF o
  <2> QED BY <1>2, <1>3, <1>4, <1>6, <2>1 DEF Routed
<1> QED BY <1>5, <1>6

LEMMA Operations ==
  ASSUME NEW c \in Command
  PROVE  /\ c.op \in Reads \cup Controls \cup Foreign \cup {"Set2d"}
         /\ c.blocks \in Nat /\ c.merge \in Nat \ {0}
BY DEF Command

LEMMA Zero == \A x \in Int : 0 * x = 0 /\ x * 0 = 0
OBVIOUS

LEMMA Positive ==
  ASSUME NEW x \in Nat \ {0}, NEW y \in Nat \ {0}
  PROVE  x * y \in Nat \ {0} /\ x * y = y * x
OBVIOUS

\* A read makes as many outputs as its requests have periods.
LEMMA ReadCounts ==
  ASSUME NEW c, Reading(c)
  PROVE  /\ Period(c) \in Nat \ {0} /\ Lead(c) \in 0..(Period(c) - 1)
         /\ Blocks(c) \in Nat \ {0} /\ PlanLength(c) \in Nat \ {0}
         /\ RequestCount(c) = Period(c) * Blocks(c)
         /\ Outputs(c) = Blocks(c) * PlanLength(c)
         /\ RequestCount(c) \in Nat \ {0} /\ Outputs(c) \in Nat \ {0}
<1>1. /\ c.op \in {"Load2d", "Load2dSparse", "Load3dv2", "Bt", "Smask"} \cup Foreign
      /\ c.op # "ExternalLoad2d" /\ c.op # "Set2d" /\ c.op \notin Controls
      /\ c.blocks \in Nat /\ c.merge \in Nat \ {0} /\ c.to \in Route(c.op)
  BY Operations DEF Reading, Routed, Fills, Reads
<1>2. Parts \in Nat \ {0} /\ Fragments \in Nat \ {0}
  BY SplitAssumption
<1>3. c.blocks \in Nat \ {0}
  <2> SUFFICES ASSUME c.blocks = 0 PROVE FALSE
    BY <1>1
  <2>1. c.merge * Parts \in Int /\ 2 * Parts \in Int
    BY <1>1, <1>2
  <2>2. RequestCount(c) = 0
    BY <1>1, <1>2, <2>1, Zero DEF RequestCount
  <2> QED BY <2>2 DEF Reading
<1>4. /\ c.merge * Parts \in Nat \ {0} /\ 2 * Parts \in Nat \ {0} /\ Parts < 2 * Parts
      /\ c.blocks * Parts \in Nat \ {0} /\ c.blocks * Fragments \in Nat \ {0}
  BY <1>1, <1>2, <1>3, Positive
<1>5. c.op \in {"Load2d", "Load2dSparse", "Load3dv2", "Bt", "Factor"} \cup Wholes
  BY <1>1 DEF Foreign, Wholes
<1>6. /\ \A x \in Int : 1 * x = x /\ x * 1 = x
      /\ \A x \in Nat \ {0} : c.blocks * x = x * c.blocks /\ c.blocks * x \in Nat \ {0}
  BY <1>3, Positive
<1>7. c.op = "L1Output" <=> c.to = "External"
  BY <1>1, <1>5 DEF Route, Wholes, Targets, Controls
<1>8. CASE c.op = "Load2dSparse"
  <2>1. /\ Period(c) = 2 * Parts /\ Lead(c) = Parts /\ Blocks(c) = c.blocks
        /\ RequestCount(c) = c.blocks * (2 * Parts)
        /\ PlanLength(c) = Fragments /\ Outputs(c) = c.blocks * Fragments
    BY <1>1, <1>7, <1>8 DEF Period, Lead, Blocks, RequestCount, PlanLength, Outputs, Wholes
  <2> QED BY <1>2, <1>3, <1>4, <1>6, <2>1
<1>9. CASE c.op = "Load3dv2"
  <2>1. /\ Period(c) = c.merge * Parts /\ Lead(c) = 0 /\ Blocks(c) = c.blocks
        /\ RequestCount(c) = c.blocks * (c.merge * Parts)
        /\ PlanLength(c) = Fragments /\ Outputs(c) = c.blocks * Fragments
    BY <1>1, <1>7, <1>9 DEF Period, Lead, Blocks, RequestCount, PlanLength, Outputs, Wholes
  <2> HIDE DEF Period
  <2>2. Period(c) \in Nat \ {0} /\ RequestCount(c) = c.blocks * Period(c)
    BY <1>4, <2>1
  <2> QED BY <1>2, <1>3, <1>4, <1>6, <2>1, <2>2
<1>10. CASE c.op \in Wholes
  <2>1. /\ Period(c) = c.blocks * Parts /\ Lead(c) = 0 /\ Blocks(c) = 1
        /\ RequestCount(c) = c.blocks * Parts /\ Outputs(c) = PlanLength(c)
        /\ PlanLength(c) \in {1, c.blocks * Fragments}
    BY <1>1, <1>7, <1>10
       DEF Period, Lead, Blocks, RequestCount, PlanLength, Outputs, Wholes
  <2>2. PlanLength(c) \in Nat \ {0}
    BY <1>4, <2>1
  <2> QED BY <1>4, <1>6, <2>1, <2>2
<1>11. CASE c.op \in {"Load2d", "Bt", "Factor"}
  <2>1. /\ Period(c) = Parts /\ Lead(c) = 0 /\ Blocks(c) = c.blocks
        /\ RequestCount(c) = c.blocks * Parts
        /\ PlanLength(c) = Fragments /\ Outputs(c) = c.blocks * Fragments
    BY <1>1, <1>7, <1>11 DEF Period, Lead, Blocks, RequestCount, PlanLength, Outputs, Wholes
  <2> QED BY <1>2, <1>3, <1>4, <1>6, <2>1
<1> QED BY <1>5, <1>8, <1>9, <1>10, <1>11

\* A fill makes as many requests as it has fragments.
LEMMA FillCounts ==
  ASSUME NEW c, Routed(c), c.op \in Fills
  PROVE  RequestCount(c) = Outputs(c) /\ RequestCount(c) \in Nat /\ c.to \in Targets
<1>1. c.blocks \in Nat /\ Fragments \in Nat
  BY Operations, SplitAssumption DEF Routed
<1>2. c.blocks * Fragments \in Nat
  BY <1>1
<1> QED BY <1>2 DEF RequestCount, Outputs, Route, Routed, Fills, Controls, Targets

\* A command without requests writes nothing.
LEMMA NothingCounts ==
  ASSUME NEW c, Routed(c), RequestCount(c) = 0
  PROVE  Outputs(c) = 0
<1>1. /\ c.blocks \in Nat /\ c.merge \in Nat \ {0}
      /\ Parts \in Nat \ {0} /\ Fragments \in Nat \ {0}
  BY Operations, SplitAssumption DEF Routed
<1>2. \A x \in Nat \ {0} : c.blocks * x = 0 => c.blocks = 0
  BY <1>1, Positive
<1>3. c.merge * Parts \in Nat \ {0} /\ 2 * Parts \in Nat \ {0}
  BY <1>1, Positive
<1>4. CASE c.op \in Controls
  BY <1>4 DEF Outputs, Controls
<1>5. CASE c.op \notin Controls
  <2>1. c.blocks = 0
    BY <1>1, <1>2, <1>3, <1>5 DEF RequestCount
  <2>2. c.op # "L1Output"
    BY <2>1 DEF Routed, Foreign
  <2> QED BY <1>1, <1>5, <2>1, <2>2, Zero DEF Outputs
<1> QED BY <1>4, <1>5

\* What the counting says of one request of a read.
LEMMA RequestFacts ==
  ASSUME NEW r, NEW c, c = Cmd(r.id), Reading(c),
         NEW k, k = r.index, k \in 1..RequestCount(c)
  PROVE  /\ Request(r).completes <=> (k + Lead(c)) % Period(c) = 0
         /\ Request(r).to = "SparseIndex" <=> c.op = "Load2dSparse" /\ Logical(k) % 2 = 0
         /\ Request(r).completes => Request(r).to # "SparseIndex"
         /\ Request(r).completes => (Request(r).last <=> k + Lead(c) = RequestCount(c))
<1> DEFINE A == Parts
<1>1. /\ c.op \in {"Load2d", "Load2dSparse", "Load3dv2", "Bt", "Factor"} \cup Wholes
      /\ c.blocks \in Nat /\ c.merge \in Nat \ {0} /\ c.to \in Route(c.op)
  BY Operations DEF Reading, Routed, Fills, Reads, Foreign, Wholes
<1>2. A \in Nat \ {0} /\ k \in Nat \ {0} /\ k <= RequestCount(c)
  BY SplitAssumption, ReadCounts
<1>3. /\ RequestCount(c) \in Nat \ {0} /\ Period(c) \in Nat \ {0} /\ Blocks(c) \in Nat \ {0}
      /\ RequestCount(c) = Period(c) * Blocks(c)
  BY ReadCounts
<1>4. c.to # "SparseIndex"
  BY <1>1 DEF Route, Wholes, Controls, Targets
<1> HIDE DEF A
<1>5. CASE c.op = "Load2dSparse"
  <2> DEFINE L == ((k - 1) \div A) + 1
             w == L % 2 = 1
  <2>1. Period(c) = 2 * A /\ Lead(c) = A /\ Blocks(c) = c.blocks
    BY <1>5 DEF Period, Lead, Blocks, Wholes, A
  <2>2. Logical(k) = L /\ (Final(k) <=> k % A = 0)
    BY DEF Logical, Final, A
  <2>3. Request(r) = SparseRequest(c, k)
    BY <1>5 DEF Request
  <2>12. Request(r).to = IF Logical(k) % 2 = 1 THEN c.to ELSE "SparseIndex"
    BY <2>3 DEF SparseRequest
  <2>13. Request(r).completes = (Logical(k) % 2 = 1 /\ Final(k))
    BY <2>3 DEF SparseRequest
  <2>14. Request(r).last =
           (Logical(k) % 2 = 1 /\ Final(k) /\ Logical(k) = 2 * c.blocks - 1)
    BY <2>3 DEF SparseRequest
  <2>4. /\ Request(r).to = IF w THEN c.to ELSE "SparseIndex"
        /\ Request(r).completes <=> w /\ k % A = 0
        /\ Request(r).last <=> w /\ k % A = 0 /\ L = 2 * c.blocks - 1
    BY <2>2, <2>12, <2>13, <2>14
  <2>5. k - 1 \in Nat
    BY <1>2
  <2>6. (k - 1) \div A \in Nat
    BY <1>2, <2>5, Division
  <2>7. L \in Nat /\ (L % 2 = 0 <=> ~w)
    BY <2>6
  <2>8. (k + A) % (2 * A) = 0 <=> k % A = 0 /\ w
    BY <1>2, OddMultiple
  <2>9. ASSUME k % A = 0
        PROVE  L = 2 * c.blocks - 1 <=> k + A = RequestCount(c)
    <3> DEFINE q == k \div A
               p == q - 1
               j == k - 1
    <3>1. q \in Nat /\ A * q \in Nat /\ k = A * q + (k % A)
      BY <1>2, Division
    <3>2. k = A * q
      BY <2>9, <3>1
    <3>3. q # 0
      BY <1>2, <3>2
    <3> HIDE DEF q
    <3>4. p \in Nat /\ j \in Nat /\ A * p = k - A
      BY <1>2, <3>1, <3>2, <3>3
    <3> HIDE DEF p, j
    <3>5. A * p <= j /\ j < A * p + A
      BY <1>2, <3>4 DEF j
    <3>6. j \div A = p
      BY <1>2, <3>4, <3>5, Quotient
    <3>7. L = q
      BY <3>1, <3>6 DEF j, p
    <3> HIDE DEF L
    <3> DEFINE u == q + 1
               b == 2 * c.blocks
    <3>8. u \in Nat /\ b \in Nat /\ A * u = k + A /\ RequestCount(c) = A * b
      BY <1>1, <1>2, <1>3, <2>1, <3>1, <3>2
    <3>9. L = 2 * c.blocks - 1 <=> u = b
      BY <1>1, <3>1, <3>7
    <3> HIDE DEF u, b
    <3>10. u < b => A * u + A <= A * b
      BY <1>2, <3>8, Multiples
    <3>11. b < u => A * b + A <= A * u
      BY <1>2, <3>8, Multiples
    <3> QED BY <1>2, <1>3, <3>8, <3>9, <3>10, <3>11
  <2> HIDE DEF L
  <2>10. /\ Request(r).completes <=> (k + Lead(c)) % Period(c) = 0
         /\ Request(r).to = "SparseIndex" <=> Logical(k) % 2 = 0
         /\ Request(r).completes => Request(r).to # "SparseIndex"
    BY <1>4, <2>1, <2>2, <2>4, <2>7, <2>8
  <2>11. Request(r).completes => (Request(r).last <=> k + Lead(c) = RequestCount(c))
    BY <2>1, <2>4, <2>9
  <2> QED BY <1>5, <2>10, <2>11
<1>6. CASE c.op = "Load3dv2"
  <2> DEFINE M == c.merge
             L == ((k - 1) \div A) + 1
  <2>1. Period(c) = M * A /\ Lead(c) = 0
    BY <1>6 DEF Period, Lead, A, Wholes
  <2>2. Logical(k) = L /\ (Final(k) <=> k % A = 0)
    BY DEF Logical, Final, A
  <2>3. Request(r) = Load3dRequest(c, k)
    BY <1>6 DEF Request
  <2>7. /\ Request(r).to = c.to /\ Request(r).last = (k = RequestCount(c))
        /\ Request(r).completes = (Final(k) /\ Logical(k) % c.merge = 0)
    BY <2>3 DEF Load3dRequest
  <2>4. /\ Request(r).to = c.to /\ (Request(r).last <=> k = RequestCount(c))
        /\ Request(r).completes <=> k % A = 0 /\ L % M = 0
    BY <2>2, <2>7
  <2>5. k % (M * A) = 0 <=> k % A = 0 /\ L % M = 0
    BY <1>1, <1>2, NestedMultiple
  <2> HIDE DEF L, M
  <2>6. k + 0 = k
    BY <1>2
  <2> QED BY <1>4, <1>6, <2>1, <2>4, <2>5, <2>6
<1>7. CASE c.op \in Wholes
  <2>1. Period(c) = RequestCount(c) /\ Lead(c) = 0
    BY <1>7 DEF Period, Lead, RequestCount, Wholes, Controls
  <2>2. Request(r) = WholeRequest(c, k)
    BY <1>7 DEF Request, Wholes
  <2>3. k % RequestCount(c) = 0 <=> k = RequestCount(c)
    <3> DEFINE R == RequestCount(c)
               q == k \div R
    <3>1. q \in Nat /\ R * q \in Nat /\ k = R * q + (k % R) /\ k % R \in 0..(R - 1)
      BY <1>2, <1>3, Division
    <3>2. R \in Nat \ {0} /\ k <= R /\ R * 1 = R /\ R * 0 = 0
      BY <1>2, <1>3
    <3> HIDE DEF q, R
    <3>3. 1 < q => R * 1 + R <= R * q
      BY <3>1, <3>2, Multiples
    <3>4. q \in {0, 1}
      BY <1>2, <3>1, <3>2, <3>3
    <3> QED BY <1>2, <3>1, <3>2, <3>4 DEF R
  <2>4. k + 0 = k
    BY <1>2
  <2>5. /\ Request(r).to = c.to /\ Request(r).last = (k = RequestCount(c))
        /\ Request(r).completes = (k = RequestCount(c))
    BY <2>2 DEF WholeRequest
  <2> QED BY <1>4, <1>7, <2>1, <2>3, <2>4, <2>5 DEF Wholes
<1>8. CASE c.op \in {"Load2d", "Bt", "Factor"}
  <2>1. Period(c) = A /\ Lead(c) = 0
    BY <1>8 DEF Period, Lead, Wholes, A
  <2>2. Request(r) = BlockRequest(c, k)
    BY <1>8 DEF Request
  <2>3. k + 0 = k
    BY <1>2
  <2>4. /\ Request(r).to = c.to /\ Request(r).last = (k = RequestCount(c))
        /\ Request(r).completes = Final(k)
    BY <2>2 DEF BlockRequest
  <2> QED BY <1>4, <1>8, <2>1, <2>3, <2>4 DEF Final, A
<1> QED BY <1>1, <1>5, <1>6, <1>7, <1>8

\* How the outputs of a read follow its requests.
LEMMA DoneNext ==
  ASSUME NEW c, Reading(c), NEW k \in Nat
  PROVE  /\ Done(c, k) \in Nat
         /\ Done(c, k + 1) =
              Done(c, k) + (IF (k + 1 + Lead(c)) % Period(c) = 0 THEN 1 ELSE 0)
<1> DEFINE P == Period(c)
           a == k + Lead(c)
<1>1. P \in Nat \ {0} /\ Lead(c) \in Nat
  BY ReadCounts
<1>2. a \in Nat /\ k + 1 + Lead(c) = a + 1
  BY <1>1
<1>3. Done(c, k) = a \div P /\ Done(c, k + 1) = (a + 1) \div P
  BY <1>2 DEF Done
<1> HIDE DEF a, P
<1>4. a \div P \in Nat
  BY <1>1, <1>2, Division
<1>5. (a + 1) \div P = (a \div P) + (IF (a + 1) % P = 0 THEN 1 ELSE 0)
  BY <1>1, <1>2, NextQuotient
<1> QED BY <1>2, <1>3, <1>4, <1>5 DEF P

LEMMA DoneReaches ==
  ASSUME NEW c, Reading(c), NEW k \in Nat, NEW B \in Nat
  PROVE  Done(c, k) >= B <=> k + Lead(c) >= Period(c) * B
<1>1. Period(c) \in Nat \ {0} /\ Lead(c) \in Nat
  BY ReadCounts
<1>2. k + Lead(c) \in Nat
  BY <1>1
<1> QED BY <1>1, <1>2, QuotientReaches DEF Done

LEMMA DoneBounds ==
  ASSUME NEW c, Reading(c)
  PROVE  /\ Done(c, 0) = 0 /\ Done(c, RequestCount(c)) = Blocks(c)
         /\ \A k \in 0..RequestCount(c) : Done(c, k) \in 0..Blocks(c)
<1> DEFINE P == Period(c)
           B == Blocks(c)
           L == Lead(c)
           R == RequestCount(c)
<1>1. /\ P \in Nat \ {0} /\ L \in 0..(P - 1) /\ B \in Nat \ {0}
      /\ R \in Nat /\ R = P * B
  BY ReadCounts
<1>2. P * (B + 1) = R + P /\ P * B = R /\ P * 1 = P
  BY <1>1
<1>3. \A k \in 0..R : Done(c, k) \in 0..B
  <2> SUFFICES ASSUME NEW k \in 0..R PROVE Done(c, k) \in 0..B
    OBVIOUS
  <2>0. k \in Nat
    BY <1>1
  <2>1. Done(c, k) \in Nat
    BY <2>0, DoneNext
  <2> DEFINE u == B + 1
  <2>2. u \in Nat /\ P * u = R + P
    BY <1>1, <1>2
  <2>3. Done(c, k) >= u <=> k + L >= P * u
    BY <2>0, <2>2, DoneReaches
  <2> QED BY <1>1, <2>1, <2>2, <2>3
<1>4. Done(c, 0) = 0
  <2>1. 0 \in Nat /\ 1 \in Nat
    OBVIOUS
  <2>2. Done(c, 0) \in Nat /\ (Done(c, 0) >= 1 <=> 0 + L >= P * 1)
    BY <2>1, DoneNext, DoneReaches
  <2> QED BY <1>1, <1>2, <2>2
<1>5. Done(c, R) = B
  <2>1. Done(c, R) >= B <=> R + L >= P * B
    BY <1>1, DoneReaches
  <2>2. R \in 0..R
    BY <1>1
  <2> QED BY <1>1, <1>3, <2>1, <2>2
<1> QED BY <1>3, <1>4, <1>5

\* The request that completes the last output.
LEMMA DoneLast ==
  ASSUME NEW c, Reading(c), NEW k \in 1..RequestCount(c), (k + Lead(c)) % Period(c) = 0
  PROVE  /\ Done(c, k) \in 1..Blocks(c)
         /\ k + Lead(c) = RequestCount(c) <=> Done(c, k) = Blocks(c)
<1> DEFINE P == Period(c)
           B == Blocks(c)
           L == Lead(c)
           R == RequestCount(c)
           a == k + L
           q == a \div P
<1>1. /\ P \in Nat \ {0} /\ L \in 0..(P - 1) /\ B \in Nat \ {0}
      /\ R \in Nat /\ R = P * B /\ k \in Nat \ {0} /\ k \in 0..R
  BY ReadCounts
<1>2. a \in Nat \ {0} /\ Done(c, k) = q /\ a % P = 0
  BY <1>1 DEF Done
<1>3. q \in 0..B
  BY <1>1, <1>2, DoneBounds
<1> HIDE DEF P, B, L, R, a, q
<1>4. P * q \in Nat /\ a = P * q + (a % P)
  BY <1>1, <1>2, Division DEF q
<1>5. a = P * q
  BY <1>2, <1>4
<1>6. q # 0
  BY <1>1, <1>2, <1>5
<1>7. q < B => P * q + P <= P * B
  BY <1>1, <1>3, Multiples
<1>8. a = R <=> q = B
  BY <1>1, <1>2, <1>3, <1>5, <1>7
<1> QED BY <1>1, <1>2, <1>3, <1>6, <1>8 DEF a, B, R, L

\* When all outputs are complete only reads of indices are left.
LEMMA DoneAll ==
  ASSUME NEW c, Reading(c), NEW k \in 0..RequestCount(c)
  PROVE  Done(c, k) = Blocks(c) <=>
           \A j \in (k + 1)..RequestCount(c) : c.op = "Load2dSparse" /\ Logical(j) % 2 = 0
<1> DEFINE P == Period(c)
           B == Blocks(c)
           L == Lead(c)
           R == RequestCount(c)
           A == Parts
<1>1. /\ P \in Nat \ {0} /\ L \in 0..(P - 1) /\ B \in Nat \ {0}
      /\ R \in Nat \ {0} /\ R = P * B /\ k \in Nat /\ A \in Nat \ {0}
  BY ReadCounts, SplitAssumption
<1>2. Done(c, k) = B <=> k + L >= R
  <2>1. Done(c, k) >= B <=> k + L >= P * B
    BY <1>1, DoneReaches
  <2>2. Done(c, k) \in 0..B
    BY DoneBounds
  <2> QED BY <1>1, <2>1, <2>2
<1>3. CASE c.op # "Load2dSparse"
  <2>1. L = 0
    BY <1>3 DEF Lead
  <2>2. CASE k = R
    BY <1>1, <1>2, <2>1, <2>2
  <2>3. CASE k < R
    <3>1. R \in (k + 1)..R
      BY <1>1, <2>3
    <3> QED BY <1>1, <1>2, <1>3, <2>1, <2>3, <3>1
  <2> QED BY <1>1, <2>2, <2>3
<1>4. CASE c.op = "Load2dSparse"
  <2>1. L = A /\ P = 2 * A
    BY <1>4 DEF Lead, Period, Wholes
  <2> DEFINE b == 2 * B
             e == b - 1
             d == b - 2
  <2>2. b \in Nat /\ e \in Nat /\ d \in Nat /\ b = 2 * B /\ e = b - 1 /\ d = b - 2
    BY <1>1
  <2>3. A * b = R
    BY <1>1, <2>1
  <2> HIDE DEF b, e, d
  <2>4. A * e = R - A /\ A * d = R - A - A
    BY <1>1, <2>2, <2>3
  <2>5. ASSUME NEW j \in (k + 1)..R, k + L >= R
        PROVE  Logical(j) % 2 = 0
    <3> DEFINE i == j - 1
    <3>1. i \in Nat /\ A * e <= i /\ i < A * e + A /\ i = j - 1
      BY <1>1, <2>1, <2>4, <2>5
    <3> HIDE DEF i
    <3>2. i \div A = e
      BY <1>1, <2>2, <3>1, Quotient, ZenonT(30)
    <3>3. Logical(j) = e + 1
      BY <3>1, <3>2 DEF Logical
    <3> QED BY <1>1, <2>2, <3>3
  <2>6. ASSUME k + L < R
        PROVE  \E j \in (k + 1)..R : Logical(j) % 2 # 0
    <3> DEFINE j == R - A
               i == j - 1
    <3>1. j \in (k + 1)..R
      BY <1>1, <2>1, <2>6
    <3>2. i \in Nat /\ A * d <= i /\ i < A * d + A /\ i = j - 1
      BY <1>1, <2>1, <2>4, <2>6
    <3> HIDE DEF i, j
    <3>3. i \div A = d
      BY <1>1, <2>2, <3>2, Quotient, ZenonT(30)
    <3>4. Logical(j) = d + 1
      BY <3>2, <3>3 DEF Logical
    <3>5. Logical(j) % 2 = 1
      BY <1>1, <2>2, <3>4
    <3> QED BY <3>1, <3>5
  <2> QED BY <1>1, <1>2, <1>4, <2>1, <2>5, <2>6
<1> QED BY <1>3, <1>4

-----------------------------------------------------------------------------
(* Windows *)

Unit(x) == IF x = 0 THEN 0 ELSE 1

LEMMA WindowEmpty ==
  ASSUME NEW N, NEW a \in Nat
  PROVE  Window(<<>>, N, a, a)
BY DEF Window

LEMMA WindowAppend ==
  ASSUME NEW S, NEW q \in Seq(S), NEW x \in S, NEW N, NEW a \in Nat, NEW b \in Nat,
         N[x] \in {0, b + 1}, Window(q, N, a, b)
  PROVE  Window(Append(q, x), N, a, b + Unit(N[x]))
<1> DEFINE s == Append(q, x)
           z == Len(q) + 1
           e == b + Unit(N[x])
<1>1. /\ Len(q) \in Nat /\ DOMAIN q = 1..Len(q) /\ DOMAIN s = 1..z
      /\ s[z] = x /\ \A n \in 1..Len(q) : s[n] = q[n]
  OBVIOUS
<1>2. /\ \A n \in DOMAIN q : n \in DOMAIN s /\ s[n] = q[n] /\ n < z
      /\ \A n \in DOMAIN s : n \in DOMAIN q \/ n = z
      /\ z \in DOMAIN s /\ z \in Nat /\ DOMAIN s \subseteq Nat
  BY <1>1
<1>3. /\ a <= b
      /\ \A n \in DOMAIN q : N[q[n]] # 0 => N[q[n]] \in (a + 1)..b
      /\ \A k \in (a + 1)..b : \E n \in DOMAIN q : N[q[n]] = k
      /\ \A m, n \in DOMAIN q : m < n /\ N[q[m]] # 0 /\ N[q[n]] # 0 => N[q[m]] < N[q[n]]
  BY DEF Window
<1>4. e \in {b, b + 1} /\ (e = b <=> N[x] = 0) /\ (e = b + 1 <=> N[x] = b + 1)
  BY DEF Unit
<1> HIDE DEF s, z, e
<1>5. a <= e
  BY <1>3, <1>4
<1>6. \A n \in DOMAIN s : N[s[n]] # 0 => N[s[n]] \in (a + 1)..e
  BY <1>1, <1>2, <1>3, <1>4
<1>7. \A k \in (a + 1)..e : \E n \in DOMAIN s : N[s[n]] = k
  <2> TAKE k \in (a + 1)..e
  <2>1. CASE k \in (a + 1)..b
    BY <1>2, <1>3, <2>1
  <2>2. CASE k \notin (a + 1)..b
    BY <1>1, <1>2, <1>4, <2>2
  <2> QED BY <2>1, <2>2
<1>8. \A m, n \in DOMAIN s : m < n /\ N[s[m]] # 0 /\ N[s[n]] # 0 => N[s[m]] < N[s[n]]
  <2> SUFFICES ASSUME NEW m \in DOMAIN s, NEW n \in DOMAIN s,
                      m < n, N[s[m]] # 0, N[s[n]] # 0
               PROVE  N[s[m]] < N[s[n]]
    OBVIOUS
  <2>1. m \in DOMAIN q
    BY <1>1, <1>2
  <2>2. CASE n \in DOMAIN q
    BY <1>2, <1>3, <2>1, <2>2
  <2>3. CASE n = z
    BY <1>1, <1>2, <1>3, <1>4, <2>1, <2>3
  <2> QED BY <1>2, <2>2, <2>3
<1> QED BY <1>5, <1>6, <1>7, <1>8 DEF Window, s, e

LEMMA WindowTail ==
  ASSUME NEW S, NEW q \in Seq(S), q # <<>>, NEW N, NEW a \in Nat, NEW b \in Nat,
         Window(q, N, a, b)
  PROVE  /\ N[Head(q)] \in {0, a + 1} /\ (N[Head(q)] # 0 => a < b)
         /\ Window(Tail(q), N, a + Unit(N[Head(q)]), b)
<1> DEFINE t == Tail(q)
           h == Head(q)
           c == a + Unit(N[h])
<1>1. /\ Len(q) \in Nat \ {0} /\ DOMAIN q = 1..Len(q) /\ DOMAIN t = 1..(Len(q) - 1)
      /\ h = q[1] /\ \A n \in 1..(Len(q) - 1) : t[n] = q[n + 1]
  OBVIOUS
<1> HIDE DEF t, h
<1>2. /\ \A n \in DOMAIN t : n + 1 \in DOMAIN q /\ t[n] = q[n + 1] /\ 1 < n + 1 /\ n \in Nat
      /\ \A n \in DOMAIN q : n \in Nat /\ (n = 1 \/ (n - 1 \in DOMAIN t /\ t[n - 1] = q[n]))
      /\ 1 \in DOMAIN q
  BY <1>1
<1>3. /\ a <= b
      /\ \A n \in DOMAIN q : N[q[n]] # 0 => N[q[n]] \in (a + 1)..b
      /\ \A k \in (a + 1)..b : \E n \in DOMAIN q : N[q[n]] = k
      /\ \A m, n \in DOMAIN q : m < n /\ N[q[m]] # 0 /\ N[q[n]] # 0 => N[q[m]] < N[q[n]]
  BY DEF Window
<1>4. N[h] \in {0, a + 1} /\ (N[h] # 0 => a < b)
  <2> SUFFICES ASSUME N[h] # 0 PROVE N[h] = a + 1 /\ a < b
    OBVIOUS
  <2>1. N[h] \in (a + 1)..b
    BY <1>1, <1>2, <1>3
  <2>2. a + 1 \in (a + 1)..b
    BY <2>1
  <2>3. PICK n \in DOMAIN q : N[q[n]] = a + 1
    BY <1>3, <2>2
  <2>4. CASE n = 1
    BY <1>1, <2>1, <2>3, <2>4
  <2>5. CASE n # 1
    <3>1. 1 < n
      BY <1>1, <2>5
    <3>2. N[q[1]] # 0 /\ N[q[n]] # 0
      BY <1>1, <2>1, <2>3
    <3>3. N[q[1]] < N[q[n]]
      BY <1>2, <1>3, <3>1, <3>2
    <3> QED BY <1>1, <2>1, <2>3, <3>3
  <2> QED BY <2>4, <2>5
<1>5. c \in {a, a + 1} /\ (c = a <=> N[h] = 0)
  BY <1>4 DEF Unit
<1> HIDE DEF c
<1>6. c <= b
  BY <1>3, <1>4, <1>5
<1>7. \A n \in DOMAIN t : N[t[n]] # 0 => N[t[n]] \in (c + 1)..b
  <2> SUFFICES ASSUME NEW n \in DOMAIN t, N[t[n]] # 0 PROVE N[t[n]] \in (c + 1)..b
    OBVIOUS
  <2>1. n + 1 \in DOMAIN q /\ t[n] = q[n + 1] /\ 1 < n + 1
    BY <1>2
  <2>2. N[t[n]] \in (a + 1)..b
    BY <1>3, <2>1
  <2>3. N[h] # 0 => N[h] < N[t[n]]
    BY <1>1, <1>2, <1>3, <2>1, SMTT(30)
  <2> QED BY <1>4, <1>5, <2>2, <2>3, SMTT(30)
<1>8. \A k \in (c + 1)..b : \E n \in DOMAIN t : N[t[n]] = k
  <2> TAKE k \in (c + 1)..b
  <2>1. k \in (a + 1)..b /\ k # N[h]
    BY <1>4, <1>5
  <2>2. PICK n \in DOMAIN q : N[q[n]] = k
    BY <1>3, <2>1
  <2>3. n # 1
    BY <1>1, <2>1, <2>2
  <2> QED BY <1>2, <2>2, <2>3
<1>9. \A m, n \in DOMAIN t : m < n /\ N[t[m]] # 0 /\ N[t[n]] # 0 => N[t[m]] < N[t[n]]
  <2> SUFFICES ASSUME NEW m \in DOMAIN t, NEW n \in DOMAIN t,
                      m < n, N[t[m]] # 0, N[t[n]] # 0
               PROVE  N[t[m]] < N[t[n]]
    OBVIOUS
  <2>1. m + 1 < n + 1
    BY <1>2
  <2> QED BY <1>2, <1>3, <2>1, SMTT(30)
<1>10. Window(t, N, c, b)
  BY <1>6, <1>7, <1>8, <1>9 DEF Window
<1> QED BY <1>4, <1>10 DEF t, h, c

\* The numbers in a window are those of the entries of its queue.
LEMMA WindowRange ==
  ASSUME NEW S, NEW q \in Seq(S), NEW N, NEW a \in Nat, NEW b \in Nat, Window(q, N, a, b)
  PROVE  /\ a <= b
         /\ \A x \in Range(q) : N[x] # 0 => N[x] \in (a + 1)..b
         /\ \A k \in (a + 1)..b : \E x \in Range(q) : N[x] = k
         /\ a = b <=> \A x \in Range(q) : N[x] = 0
<1>1. /\ a <= b
      /\ \A n \in DOMAIN q : N[q[n]] # 0 => N[q[n]] \in (a + 1)..b
      /\ \A k \in (a + 1)..b : \E n \in DOMAIN q : N[q[n]] = k
  BY DEF Window
<1>2. /\ \A x \in Range(q) : N[x] # 0 => N[x] \in (a + 1)..b
      /\ \A k \in (a + 1)..b : \E x \in Range(q) : N[x] = k
  BY <1>1 DEF Range
<1>3. a < b => a + 1 \in (a + 1)..b
  OBVIOUS
<1>4. a = b => \A x \in Range(q) : N[x] = 0
  BY <1>2
<1>5. (\A x \in Range(q) : N[x] = 0) => ~(a < b)
  BY <1>2, <1>3
<1> QED BY <1>1, <1>2, <1>4, <1>5

-----------------------------------------------------------------------------
(* What does not change *)

Same == UNCHANGED <<program, others>>

LEMMA SameCmd ==
  ASSUME Same
  PROVE  /\ Ids' = Ids /\ \A x : Cmd(x)' = Cmd(x)
         /\ Len(program)' = Len(program) /\ Len(others)' = Len(others)
BY DEF Same, Ids, Cmd

LEMMA SameRequest ==
  ASSUME Same, NEW r
  PROVE  Request(r)' = Request(r)
BY SameCmd DEF Request

LEMMA SameEntries ==
  ASSUME Same
  PROVE  /\ Entries' = Entries /\ PathReads' = PathReads /\ OutputReads' = OutputReads
         /\ \A x : MadeBy(x)' = MadeBy(x) /\ ReadsAt(x)' = ReadsAt(x) /\ Port(x)' = Port(x)
<1>1. Entries' = Entries
  BY SameCmd DEF Entries
<1>2. PathReads' = PathReads
  BY <1>1, SameCmd DEF PathReads
<1>3. OutputReads' = OutputReads
  BY <1>2, SameRequest DEF OutputReads
<1>4. \A x : Port(x)' = Port(x)
  BY SameCmd DEF Port
<1>5. \A x : MadeBy(x)' = MadeBy(x)
  BY <1>1, SameCmd DEF MadeBy
<1>6. \A x : ReadsAt(x)' = ReadsAt(x)
  BY <1>2, <1>4 DEF ReadsAt
<1> QED BY <1>1, <1>2, <1>3, <1>4, <1>5, <1>6

LEMMA SamePieces ==
  ASSUME Same
  PROVE  /\ Pieces' = Pieces /\ LastPieces' = LastPieces
         /\ \A x, y : WritesAt(x, y)' = WritesAt(x, y) /\ WritesTo(x)' = WritesTo(x)
         /\ \A x : WritePortOf(x)' = WritePortOf(x)
<1>1. Pieces' = Pieces
  BY SameCmd, SameEntries DEF Pieces
<1>2. \A x : WritePortOf(x)' = WritePortOf(x)
  BY SameCmd DEF WritePortOf
<1>3. \A x, y : WritesAt(x, y)' = WritesAt(x, y)
  BY <1>1, <1>2, SameCmd DEF WritesAt
<1>4. \A x : WritesTo(x)' = WritesTo(x)
  BY <1>1, SameCmd DEF WritesTo
<1>5. LastPieces' = LastPieces
  BY <1>1, SameCmd DEF LastPieces
<1> QED BY <1>1, <1>2, <1>3, <1>4, <1>5

LEMMA SameNumbers ==
  ASSUME Same, NEW i
  PROVE  /\ IndexOf(i)' = IndexOf(i) /\ BlockOf(i)' = BlockOf(i)
         /\ UopOf(i)' = UopOf(i) /\ PlaceOf(i)' = PlaceOf(i)
         /\ \A f : Place(f)' = Place(f)
<1>1. \A f : Place(f)' = Place(f)
  BY SameCmd DEF Place
<1>2. IndexOf(i)' = IndexOf(i)
  BY DEF IndexOf
<1>3. BlockOf(i)' = BlockOf(i)
  BY SameCmd DEF BlockOf
<1>4. UopOf(i)' = UopOf(i)
  BY SameCmd DEF UopOf
<1>5. PlaceOf(i)' = PlaceOf(i)
  BY <1>1 DEF PlaceOf
<1> QED BY <1>1, <1>2, <1>3, <1>4, <1>5

-----------------------------------------------------------------------------
(* The numbers of the entries *)

LEMMA ReadingCmd ==
  ASSUME EngineType, NEW i \in Ids, RequestCount(Cmd(i)) # 0, Cmd(i).op \notin Fills
  PROVE  Reading(Cmd(i))
<1> DEFINE c == Cmd(i)
<1>1. Routed(c)
  BY RoutedCmd
<1>2. c.blocks * 0 = 0
  BY <1>1, Operations DEF Routed
<1>3. c.op \in Controls => RequestCount(c) = 0
  BY <1>2 DEF RequestCount, Controls
<1> QED BY <1>1, <1>3 DEF Reading

LEMMA EntryFacts ==
  ASSUME EngineType, NEW r \in Entries
  PROVE  /\ r.id \in Ids /\ r.index \in 1..RequestCount(Cmd(r.id)) /\ r \in AllReqs
         /\ r.index \in Nat \ {0} /\ RequestCount(Cmd(r.id)) # 0
         /\ \A i : IndexOf(i)[r] = IF r.id = i THEN r.index ELSE 0
<1>1. r.id \in Ids /\ r.index \in Nat \ {0} /\ r.index <= RequestCount(Cmd(r.id))
  BY DEF Entries
<1>2. Routed(Cmd(r.id)) /\ r.id \in Nat
  BY <1>1, RoutedCmd
<1>3. RequestCount(Cmd(r.id)) \in Nat
  <2> DEFINE c == Cmd(r.id)
  <2>1. CASE RequestCount(c) = 0
    BY <2>1
  <2>2. CASE c.op \in Fills
    BY <1>2, <2>2, FillCounts
  <2>3. CASE RequestCount(c) # 0 /\ c.op \notin Fills
    BY <1>1, <2>3, ReadingCmd, ReadCounts
  <2> QED BY <2>1, <2>2, <2>3
<1>4. r \in AllReqs
  BY <1>1, <1>2 DEF AllReqs, Entries
<1>5. \A i : IndexOf(i)[r] = IF r.id = i THEN r.index ELSE 0
  BY <1>4 DEF IndexOf
<1> QED BY <1>1, <1>3, <1>4, <1>5

LEMMA ReadFacts ==
  ASSUME EngineType, NEW r \in PathReads
  PROVE  /\ r \in Entries /\ Reading(Cmd(r.id))
         /\ Request(r).completes <=>
              (r.index + Lead(Cmd(r.id))) % Period(Cmd(r.id)) = 0
         /\ Request(r).to = "SparseIndex" <=>
              Cmd(r.id).op = "Load2dSparse" /\ Logical(r.index) % 2 = 0
<1>1. r \in Entries /\ Cmd(r.id).op \notin Fills
  BY DEF PathReads
<1>2. r.id \in Ids /\ r.index \in 1..RequestCount(Cmd(r.id)) /\ RequestCount(Cmd(r.id)) # 0
  BY <1>1, EntryFacts
<1>3. Reading(Cmd(r.id))
  BY <1>1, <1>2, ReadingCmd
<1> QED BY <1>1, <1>2, <1>3, RequestFacts

LEMMA OutputFacts ==
  ASSUME EngineType, NEW r \in OutputReads
  PROVE  /\ r \in PathReads /\ Request(r).to # "SparseIndex"
         /\ Done(Cmd(r.id), r.index) \in 1..Blocks(Cmd(r.id))
         /\ Request(r).last <=> Done(Cmd(r.id), r.index) = Blocks(Cmd(r.id))
         /\ \A i : BlockOf(i)[r] = IF r.id = i THEN Done(Cmd(i), r.index) ELSE 0
<1> DEFINE c == Cmd(r.id)
           k == r.index
<1>1. r \in PathReads /\ Request(r).completes
  BY DEF OutputReads
<1>2. r \in Entries /\ Reading(c)
  BY <1>1, ReadFacts
<1>3. k \in 1..RequestCount(c) /\ r \in AllReqs
  BY <1>2, EntryFacts
<1>4. /\ (k + Lead(c)) % Period(c) = 0 /\ Request(r).to # "SparseIndex"
      /\ Request(r).last <=> k + Lead(c) = RequestCount(c)
  BY <1>1, <1>2, <1>3, RequestFacts
<1>5. \A i : BlockOf(i)[r] = IF r.id = i THEN Done(Cmd(i), r.index) ELSE 0
  BY <1>3 DEF BlockOf
<1> QED BY <1>1, <1>2, <1>3, <1>4, <1>5, DoneLast

\* The place of a fragment among those of its command.
LEMMA PlaceArithmetic ==
  ASSUME NEW B \in Nat \ {0}, NEW L \in Nat \ {0}, NEW d \in 1..B, NEW n \in 1..L
  PROVE  /\ (d - 1) * L + n \in 1..(B * L)
         /\ (d - 1) * L + n = B * L <=> d = B /\ n = L
<1> DEFINE e == d - 1
<1>1. e \in Nat /\ e < B /\ (e + 1 = B <=> d = B) /\ d = e + 1
  OBVIOUS
<1> HIDE DEF e
<1>2. L * e \in Nat /\ L * B \in Nat /\ L * e + L <= L * B
  BY <1>1, Multiples
<1> DEFINE u == e + 1
<1>3. u \in Nat /\ L * u = L * e + L
  BY <1>1
<1>4. u < B => L * u + L <= L * B
  BY <1>3, Multiples
<1>5. e * L = L * e /\ B * L = L * B
  BY <1>1
<1>6. e * L + n \in 1..(B * L) /\ (e * L + n = B * L <=> u = B /\ n = L)
  <2> HIDE DEF u
  <2>1. u <= B
    BY <1>1 DEF u
  <2>2. CASE u = B
    BY <1>2, <1>3, <1>5, <2>2
  <2>3. CASE u < B
    BY <1>2, <1>3, <1>4, <1>5, <2>3
  <2> QED BY <1>3, <2>1, <2>2, <2>3
<1> QED BY <1>1, <1>6 DEF e

LEMMA PieceFacts ==
  ASSUME EngineType, NEW f \in Pieces
  PROVE  /\ f.id \in Ids /\ f \in AllFrags /\ Place(f) \in 1..Outputs(Cmd(f.id))
         /\ LastInInstruction(f) <=> Place(f) = Outputs(Cmd(f.id))
         /\ RequestCount(Cmd(f.id)) # 0
         /\ \A i : PlaceOf(i)[f] = IF f.id = i THEN Place(f) ELSE 0
<1> DEFINE c == Cmd(f.id)
           r == [id |-> f.id, index |-> f.index]
<1>1. /\ f \in [id : Ids, index : Nat \ {0}, part : Nat \ {0}]
      /\ f.index <= RequestCount(c)
      /\ IF c.op \in Fills THEN f.part = 1
         ELSE c.op \notin Controls /\ r \in OutputReads /\ f.part <= PlanLength(c)
  BY DEF Pieces
<1>2. Routed(c) /\ f.id \in Nat
  BY <1>1, RoutedCmd
<1>3. f \in AllFrags
  BY <1>1, <1>2 DEF AllFrags
<1>4. \A i : PlaceOf(i)[f] = IF f.id = i THEN Place(f) ELSE 0
  BY <1>3 DEF PlaceOf
<1>5. CASE c.op \in Fills
  <2>1. RequestCount(c) = Outputs(c) /\ Outputs(c) \in Nat
    BY <1>2, <1>5, FillCounts
  <2>2. Place(f) = f.index
    BY <1>5 DEF Place
  <2>3. LastInInstruction(f) <=> f.index = RequestCount(c)
    BY <1>5 DEF LastInInstruction, Fills
  <2> QED BY <1>1, <1>3, <1>4, <2>1, <2>2, <2>3
<1>6. CASE c.op \notin Fills
  <2> DEFINE d == Done(c, f.index)
  <2>1. /\ r \in OutputReads /\ r \in PathReads
        /\ d \in 1..Blocks(c) /\ (Request(r).last <=> d = Blocks(c))
    BY <1>1, <1>6, OutputFacts
  <2>2. Reading(c) /\ r \in Entries
    BY <2>1, ReadFacts
  <2>3. RequestCount(c) # 0
    BY <2>2 DEF Reading
  <2>4. /\ Blocks(c) \in Nat \ {0} /\ PlanLength(c) \in Nat \ {0}
        /\ Outputs(c) = Blocks(c) * PlanLength(c)
    BY <2>2, ReadCounts
  <2>5. f.part \in 1..PlanLength(c)
    BY <1>1, <1>6, <2>4
  <2>6. Place(f) = (d - 1) * PlanLength(c) + f.part
    BY <1>6 DEF Place
  <2>7. /\ Place(f) \in 1..Outputs(c)
        /\ Place(f) = Outputs(c) <=> d = Blocks(c) /\ f.part = PlanLength(c)
    <3> DEFINE B == Blocks(c)
               L == PlanLength(c)
               n == f.part
    <3>1. B \in Nat \ {0} /\ L \in Nat \ {0} /\ d \in 1..B /\ n \in 1..L
      BY <2>1, <2>4, <2>5
    <3>2. Place(f) = (d - 1) * L + n /\ Outputs(c) = B * L
      BY <2>4, <2>6
    <3> HIDE DEF B, L, d, n
    <3>3. (d - 1) * L + n \in 1..(B * L) /\ ((d - 1) * L + n = B * L <=> d = B /\ n = L)
      BY <3>1, PlaceArithmetic
    <3>4. Place(f) \in 1..Outputs(c) /\ (Place(f) = Outputs(c) <=> d = B /\ n = L)
      BY <3>2, <3>3
    <3> QED BY <3>4 DEF B, L, n
  <2>8. Request(f) = Request(r)
    BY DEF Request
  <2>9. LastInInstruction(f) <=> Request(r).last /\ f.part = PlanLength(c)
    BY <1>6, <2>8 DEF LastInInstruction, Fills
  <2> QED BY <1>1, <1>3, <1>4, <2>1, <2>3, <2>7, <2>9
<1> QED BY <1>5, <1>6

LEMMA LastPieceFacts ==
  ASSUME EngineType, NEW f \in LastPieces
  PROVE  /\ f \in Pieces /\ Reading(Cmd(f.id)) /\ Cmd(f.id).to \in Locals
         /\ Done(Cmd(f.id), f.index) \in 1..Blocks(Cmd(f.id))
         /\ LastInInstruction(f) <=> Done(Cmd(f.id), f.index) = Blocks(Cmd(f.id))
         /\ \A i : UopOf(i)[f] = IF f.id = i THEN Done(Cmd(i), f.index) ELSE 0
<1> DEFINE c == Cmd(f.id)
           r == [id |-> f.id, index |-> f.index]
<1>1. f \in Pieces /\ c.to \in Locals /\ c.op \notin Fills /\ f.part = PlanLength(c)
  BY DEF LastPieces
<1>2. r \in OutputReads /\ f \in AllFrags
  BY <1>1, PieceFacts DEF Pieces
<1>3. /\ r \in PathReads /\ Done(c, f.index) \in 1..Blocks(c)
      /\ Request(r).last <=> Done(c, f.index) = Blocks(c)
  BY <1>2, OutputFacts
<1>4. Reading(c)
  BY <1>3, ReadFacts
<1>5. Request(f) = Request(r)
  BY DEF Request
<1>6. LastInInstruction(f) <=> Request(r).last
  BY <1>1, <1>5 DEF LastInInstruction, Fills
<1>7. \A i : UopOf(i)[f] = IF f.id = i THEN Done(Cmd(i), f.index) ELSE 0
  BY <1>2 DEF UopOf
<1> QED BY <1>1, <1>3, <1>4, <1>6, <1>7

-----------------------------------------------------------------------------
(* The ledger under a step: the parts that stay *)

LEMMA CountNat ==
  ASSUME EngineType, NEW i \in Ids
  PROVE  RequestCount(Cmd(i)) \in Nat /\ Outputs(Cmd(i)) \in Nat
<1> DEFINE c == Cmd(i)
<1>1. Routed(c)
  BY RoutedCmd
<1>2. CASE RequestCount(c) = 0
  BY <1>1, <1>2, NothingCounts
<1>3. CASE c.op \in Fills
  BY <1>1, <1>3, FillCounts
<1>4. CASE RequestCount(c) # 0 /\ c.op \notin Fills
  BY <1>4, ReadingCmd, ReadCounts
<1> QED BY <1>2, <1>3, <1>4

LEMMA MadeBound ==
  ASSUME Inv, SourcePlaced, NEW i \in Ids
  PROVE  Made(i) \in 0..RequestCount(Cmd(i))
<1> DEFINE g == GeneratorOf(Cmd(i))
<1>1. /\ RequestCount(Cmd(i)) \in Nat /\ i \in Nat \ {0}
      /\ Len(program) \in Nat /\ Len(others) \in Nat
  BY CountNat, RoutedCmd, ProgramType DEF Inv, TypeOK
<1>2. CASE i > Len(program)
  <2> DEFINE o == i - Len(program)
  <2>1. o \in 1..Len(others) /\ Cmd(i) = others[o] /\ Made(i) = pushed[o]
    BY <1>1, <1>2 DEF Cmd, Ids, Made
  <2> HIDE DEF o
  <2>2. pushed[o] \in Nat /\ pushed[o] <= RequestCount(others[o])
    BY <2>1 DEF Inv, TypeOK, EngineType, SourcePlaced
  <2> QED BY <1>1, <2>1, <2>2
<1>3. CASE ~(i > Len(program)) /\ g \in Generators /\ generation[g].id = i
  <2>1. generation[g] # None
    BY <1>1, <1>3 DEF None
  <2>2. /\ generation[g].next \in Nat \ {0}
        /\ generation[g].next <= RequestCount(Cmd(i))
    BY <1>3, <2>1 DEF SourcePlaced, Inv, TypeOK, ProducerType
  <2>3. Made(i) \in {0, generation[g].next - 1}
    BY <1>3 DEF Made
  <2> QED BY <1>1, <2>2, <2>3
<1>4. CASE ~(i > Len(program)) /\ ~(g \in Generators /\ generation[g].id = i)
  <2>1. Made(i) \in {0, RequestCount(Cmd(i))}
    BY <1>4 DEF Made
  <2> QED BY <1>1, <2>1
<1> QED BY <1>2, <1>3, <1>4

LEMMA MadeSame ==
  ASSUME Same, UNCHANGED <<generation, issued, pushed>>, NEW i
  PROVE  Made(i)' = Made(i)
BY SameCmd DEF Made

LEMMA FetchedSame ==
  ASSUME Same, UNCHANGED <<generated, inputs, memory>>,
         NEW i, Made(i)' = Made(i), NEW s, NEW m, NEW a, Fetched(i, s, m, a)
  PROVE  Fetched(i, s, m, a)'
BY SameCmd, SameEntries, SameNumbers DEF Fetched

LEMMA DeliverySame ==
  ASSUME Same, UNCHANGED <<writes, acks>>, NEW i, written'[i] = written[i],
         NEW n, Delivery(i, n)
  PROVE  Delivery(i, n)'
<1>1. Cmd(i)' = Cmd(i) /\ PlaceOf(i)' = PlaceOf(i) /\ WritePortOf(i)' = WritePortOf(i)
  BY SameCmd, SameNumbers, SamePieces
<1> QED BY <1>1 DEF Delivery

LEMMA StoredSame ==
  ASSUME Same, UNCHANGED <<writes, acks, retiring>>,
         NEW i, written'[i] = written[i], NEW z, NEW n, Stored(i, z, n)
  PROVE  Stored(i, z, n)'
<1>1. Cmd(i)' = Cmd(i) /\ UopOf(i)' = UopOf(i)
  BY SameCmd, SameNumbers
<1>2. Delivery(i, n) => Delivery(i, n)'
  BY DeliverySame
<1> QED BY <1>1, <1>2 DEF Stored

LEMMA FillSame ==
  ASSUME Same, UNCHANGED <<generated, writes, acks>>,
         NEW i, written'[i] = written[i], Made(i)' = Made(i), FillLedger(i)
  PROVE  FillLedger(i)'
<1>1. IndexOf(i)' = IndexOf(i) /\ Len(program)' = Len(program)
  BY SameCmd, SameNumbers
<1>2. \A s : Delivery(i, s) => Delivery(i, s)'
  BY DeliverySame
<1> QED BY <1>1, <1>2 DEF FillLedger

LEMMA OffsetSame ==
  ASSUME UNCHANGED <<acknowledged, offset>>, NEW i
  PROVE  Offset(i)' = Offset(i)
BY DEF Offset

LEMMA ReadSame ==
  ASSUME Same, UNCHANGED <<generated, inputs, memory, acknowledged, offset,
                           writes, acks, retiring, written>>,
         NEW i, Made(i)' = Made(i), ReadLedger(i)
  PROVE  ReadLedger(i)'
<1>1. PICK s \in Nat, m \in Nat, a \in Nat, z \in Nat :
        /\ Fetched(i, s, m, a)
        /\ Window(acknowledged, BlockOf(i), z, Done(Cmd(i), a))
        /\ Stored(i, z, z * PlanLength(Cmd(i)) + Offset(i))
  BY DEF ReadLedger
<1>2. Fetched(i, s, m, a)'
  BY <1>1, FetchedSame
<1>3. /\ Cmd(i)' = Cmd(i) /\ BlockOf(i)' = BlockOf(i) /\ Offset(i)' = Offset(i)
  BY SameCmd, SameNumbers, OffsetSame
<1> DEFINE n == z * PlanLength(Cmd(i)) + Offset(i)
<1>4. n' = n
  BY <1>3
<1>5. Stored(i, z, n)
  BY <1>1
<1> HIDE DEF n
<1>6. Stored(i, z, n)'
  <2>1. PICK n0 : n0 = n
    OBVIOUS
  <2>2. Stored(i, z, n0)'
    BY <1>5, <2>1, StoredSame
  <2> QED BY <1>4, <2>1, <2>2
<1> QED BY <1>1, <1>2, <1>3, <1>6 DEF ReadLedger, n

\* A command without requests has nothing to do with a step.
LEMMA LedgerStep ==
  ASSUME Same, NEW i \in Ids, Ledger(i),
         RequestCount(Cmd(i)) = 0 => written'[i] = written[i],
         RequestCount(Cmd(i)) # 0 /\ Cmd(i).op \in Fills /\ FillLedger(i) => FillLedger(i)',
         RequestCount(Cmd(i)) # 0 /\ Cmd(i).op \notin Fills /\ ReadLedger(i) => ReadLedger(i)'
  PROVE  Ledger(i)'
<1>1. Cmd(i)' = Cmd(i)
  BY SameCmd
<1> QED BY <1>1 DEF Ledger

LEMMA LedgerSame ==
  ASSUME Same, UNCHANGED <<generated, inputs, memory, acknowledged, offset,
                           writes, acks, retiring, written>>,
         NEW i \in Ids, Ledger(i),
         RequestCount(Cmd(i)) # 0 => Made(i)' = Made(i)
  PROVE  Ledger(i)'
BY LedgerStep, FillSame, ReadSame

\* Where the entries are.
LEMMA SourcePlacedSame ==
  ASSUME Same, UNCHANGED <<generation, generated, pushed>>, SourcePlaced
  PROVE  SourcePlaced'
BY SameCmd, SameEntries DEF SourcePlaced, Same

LEMMA InputsPlacedSame ==
  ASSUME Same, UNCHANGED inputs, InputsPlaced
  PROVE  InputsPlaced'
BY SameEntries DEF InputsPlaced

LEMMA OutputsPlacedSame ==
  ASSUME Same, UNCHANGED <<memory, acknowledged>>, OutputsPlaced
  PROVE  OutputsPlaced'
BY SameEntries DEF OutputsPlaced

LEMMA WritesPlacedSame ==
  ASSUME Same, UNCHANGED <<writes, acks>>, WritesPlaced
  PROVE  WritesPlaced'
BY SamePieces DEF WritesPlaced

LEMMA RetiringPlacedSame ==
  ASSUME Same, UNCHANGED retiring, RetiringPlaced
  PROVE  RetiringPlaced'
BY SamePieces DEF RetiringPlaced

LEMMA OffsetHoldsSame ==
  ASSUME Same, UNCHANGED <<acknowledged, offset>>, OffsetHolds
  PROVE  OffsetHolds'
BY SameCmd DEF OffsetHolds

LEMMA CompletedSame ==
  ASSUME Same, UNCHANGED <<issued, written, completed>>, CompletedExactly
  PROVE  CompletedExactly'
<1>1. Started' = Started
  BY SameCmd DEF Started
<1> QED BY <1>1, SameCmd DEF CompletedExactly

\* Steps that touch nothing of all this.
LEMMA QuietLedger ==
  ASSUME LedgerInv, Same,
         UNCHANGED <<issued, pushed, generation, generated, inputs, memory, acknowledged,
                     offset, writes, acks, retiring, written, completed>>
  PROVE  LedgerInv'
<1>1. Placed'
  BY SourcePlacedSame, InputsPlacedSame, OutputsPlacedSame, WritesPlacedSame,
     RetiringPlacedSame DEF LedgerInv, Placed
<1>2. OffsetHolds' /\ CompletedExactly'
  BY OffsetHoldsSame, CompletedSame DEF LedgerInv
<1>3. \A i \in Ids : Ledger(i)'
  BY LedgerSame, MadeSame DEF LedgerInv
<1>4. Ids' = Ids
  BY SameCmd
<1> QED BY <1>1, <1>2, <1>3, <1>4 DEF LedgerInv

-----------------------------------------------------------------------------
(* What the ledger says of one command *)

LEMMA SentArithmetic ==
  ASSUME NEW B \in Nat \ {0}, NEW L \in Nat \ {0}, NEW z \in 0..B, NEW o \in 0..(L - 1),
         o # 0 => z < B
  PROVE  /\ z * L + o \in 0..(B * L) /\ (z * L + o = B * L <=> z = B)
         /\ (z + 1) * L = z * L + L
<1>1. L * z \in Nat /\ L * B \in Nat /\ z * L = L * z /\ B * L = L * B /\ z \in Nat
  OBVIOUS
<1>2. z < B => L * z + L <= L * B
  BY <1>1, Multiples
<1>3. (z + 1) * L = z * L + L
  BY <1>1
<1>4. CASE z = B
  BY <1>1, <1>3, <1>4
<1>5. CASE z < B
  BY <1>1, <1>2, <1>3, <1>5
<1> QED BY <1>4, <1>5

LEMMA ReadingTo ==
  ASSUME NEW c, Reading(c)
  PROVE  /\ c.to \in Targets \/ c.to \in Locals \/ c.to = "External"
         /\ c.to = "External" => PlanLength(c) = 1
<1>1. c.op \in {"Load2d", "Load2dSparse", "Load3dv2", "Bt", "Factor"} \cup Wholes
  BY Operations DEF Reading, Routed, Fills, Reads, Foreign, Wholes
<1>2. c.to \in Targets \/ c.to \in Locals \/ c.to = "External"
  BY <1>1 DEF Reading, Routed, Route, Wholes, Targets, Locals, Controls
<1>3. c.to = "External" => c.op = "L1Output"
  BY <1>1 DEF Reading, Routed, Route, Wholes, Targets, Controls
<1> QED BY <1>2, <1>3 DEF PlanLength

LEMMA ReadChain ==
  ASSUME Inv, Placed, OffsetHolds, NEW i \in Ids, Reading(Cmd(i)),
         NEW s \in Nat, NEW m \in Nat, NEW a \in Nat, NEW z \in Nat,
         Fetched(i, s, m, a), Window(acknowledged, BlockOf(i), z, Done(Cmd(i), a))
  PROVE  LET c == Cmd(i)
         IN  /\ a <= m /\ m <= s /\ s <= Made(i) /\ Made(i) \in 0..RequestCount(c)
             /\ a \in 0..RequestCount(c)
             /\ Done(c, a) \in 0..Blocks(c) /\ z \in 0..Done(c, a) /\ z \in 0..Blocks(c)
             /\ Offset(i) \in 0..(PlanLength(c) - 1)
             /\ Offset(i) # 0 => z < Done(c, a)
<1> DEFINE c == Cmd(i)
<1>1. Made(i) \in 0..RequestCount(c)
  BY MadeBound DEF Placed
<1>2. a <= m /\ m <= s /\ s <= Made(i)
  BY <1>1 DEF Fetched, Window
<1>3. a \in 0..RequestCount(c) /\ RequestCount(c) \in Nat
  BY <1>1, <1>2, ReadCounts
<1>4. Done(c, a) \in 0..Blocks(c) /\ Blocks(c) \in Nat
  BY <1>3, DoneBounds, ReadCounts
<1>5. z \in 0..Done(c, a) /\ z \in 0..Blocks(c)
  BY <1>4 DEF Window
<1>6. PlanLength(c) \in Nat \ {0}
  BY ReadCounts
<1>7. Offset(i) \in 0..(PlanLength(c) - 1) /\ (Offset(i) # 0 => z < Done(c, a))
  <2>1. CASE ~(acknowledged # <<>> /\ Head(acknowledged).id = i)
    BY <1>6, <2>1 DEF Offset
  <2>2. CASE acknowledged # <<>> /\ Head(acknowledged).id = i
    <3> DEFINE r == Head(acknowledged)
    <3>1. Offset(i) = offset /\ offset \in Nat /\ offset < PlanLength(c)
      BY <2>2 DEF Offset, OffsetHolds, Inv, TypeOK, OutputType
    <3>2. acknowledged \in Seq(OutputReads) /\ r \in OutputReads
      BY <2>2 DEF Placed, OutputsPlaced
    <3>3. BlockOf(i)[r] # 0
      <4>1. BlockOf(i)[r] = Done(c, r.index) /\ Done(c, r.index) \in 1..Blocks(c)
        BY <2>2, <3>2, OutputFacts DEF Inv, TypeOK
      <4> QED BY <1>4, <4>1
    <3> HIDE DEF r
    <3> DEFINE D == Done(c, a)
    <3>4. D \in Nat /\ Window(acknowledged, BlockOf(i), z, D)
      BY <1>4
    <3> HIDE DEF D
    <3>5. z < D
      BY <2>2, <3>2, <3>3, <3>4, WindowTail DEF r
    <3> QED BY <1>6, <3>1, <3>5 DEF D
  <2> QED BY <2>1, <2>2
<1> QED BY <1>1, <1>2, <1>3, <1>4, <1>5, <1>7

\* So many fragments have left, and no more of them have arrived.
LEMMA SentBound ==
  ASSUME Inv, Placed, OffsetHolds, NEW i \in Ids, Reading(Cmd(i)),
         NEW s \in Nat, NEW m \in Nat, NEW a \in Nat, NEW z \in Nat,
         Fetched(i, s, m, a), Window(acknowledged, BlockOf(i), z, Done(Cmd(i), a)),
         NEW n, n = z * PlanLength(Cmd(i)) + Offset(i), Stored(i, z, n)
  PROVE  /\ n \in 0..Outputs(Cmd(i)) /\ written[i] \in 0..n
         /\ n = Outputs(Cmd(i)) <=> z = Blocks(Cmd(i))
<1> DEFINE c == Cmd(i)
           B == Blocks(c)
           L == PlanLength(c)
           o == Offset(i)
<1>1. /\ z \in 0..Done(c, a) /\ z \in 0..B /\ Done(c, a) \in 0..B
      /\ o \in 0..(L - 1) /\ (o # 0 => z < Done(c, a))
  BY ReadChain
<1>2. B \in Nat \ {0} /\ L \in Nat \ {0} /\ Outputs(c) = B * L
  BY ReadCounts
<1>3. n = z * L + o
  OBVIOUS
<1> HIDE DEF B, L, o
<1>4. o # 0 => z < B
  BY <1>1, <1>2
<1>5. z * L + o \in 0..(B * L) /\ (z * L + o = B * L <=> z = B)
  BY <1>1, <1>2, <1>4, SentArithmetic
<1>6. n \in 0..Outputs(c) /\ (n = Outputs(c) <=> z = B)
  BY <1>2, <1>3, <1>5
<1>7. n \in Nat /\ written[i] \in Nat
  <2>1. Outputs(c) \in Nat
    BY CountNat DEF Inv, TypeOK
  <2> QED BY <1>6, <2>1 DEF Inv, TypeOK, EngineType
<1>8. written[i] <= n
  <2>1. CASE c.to \in Targets
    <3>1. PICK x \in Nat : /\ Window(writes[c.to][WritePortOf(i)], PlaceOf(i), x, n)
                           /\ Window(acks[c.to], PlaceOf(i), written[i], x)
      BY <2>1 DEF Stored, Delivery
    <3>2. x <= n /\ written[i] <= x
      BY <3>1 DEF Window
    <3> QED BY <1>7, <3>1, <3>2
  <2>2. CASE c.to \in Locals
    <3>1. PICK x \in Nat : Window(retiring, UopOf(i), x, z) /\ written[i] + (z - x) = n
      BY <2>2 DEF Stored
    <3>2. x <= z
      BY <3>1 DEF Window
    <3> QED BY <1>7, <3>1, <3>2
  <2>3. CASE c.to = "External"
    BY <1>7, <2>3 DEF Stored
  <2> QED BY <2>1, <2>2, <2>3, ReadingTo
<1> QED BY <1>6, <1>7, <1>8 DEF B

\* A command whose source has made no request has written nothing.
LEMMA Unmade ==
  ASSUME Inv, Placed, OffsetHolds, NEW i \in Ids, Ledger(i),
         RequestCount(Cmd(i)) # 0, Made(i) = 0
  PROVE  written[i] # Outputs(Cmd(i))
<1> DEFINE c == Cmd(i)
<1>1. EngineType /\ written[i] \in Nat /\ Routed(c)
  BY RoutedCmd DEF Inv, TypeOK, EngineType
<1>2. CASE c.op \in Fills
  <2>1. PICK s \in Nat, x \in Nat :
          /\ IF i <= Len(program)
             THEN Window(generated["Set2d"], IndexOf(i), s, Made(i))
             ELSE s = Made(i)
          /\ Window(writes[c.to][WritePortOf(i)], PlaceOf(i), x, s)
          /\ Window(acks[c.to], PlaceOf(i), written[i], x)
    BY <1>2 DEF Ledger, FillLedger, Delivery
  <2>2. s <= 0 /\ x <= s /\ written[i] <= x
    BY <2>1 DEF Window
  <2>3. RequestCount(c) = Outputs(c)
    BY <1>1, <1>2, FillCounts
  <2> QED BY <1>1, <2>1, <2>2, <2>3
<1>3. CASE c.op \notin Fills
  <2>1. Reading(c) /\ ReadLedger(i)
    BY <1>1, <1>3, ReadingCmd DEF Ledger
  <2>2. PICK s \in Nat, m \in Nat, a \in Nat, z \in Nat :
          /\ Fetched(i, s, m, a)
          /\ Window(acknowledged, BlockOf(i), z, Done(c, a))
          /\ Stored(i, z, z * PlanLength(c) + Offset(i))
    BY <2>1 DEF ReadLedger
  <2>3. a <= m /\ m <= s /\ s <= Made(i) /\ z \in 0..Done(c, a)
    BY <2>1, <2>2, ReadChain
  <2>4. a = 0
    BY <2>2, <2>3
  <2>5. z = 0 /\ Blocks(c) # 0
    BY <2>1, <2>3, <2>4, DoneBounds, ReadCounts
  <2> DEFINE n == z * PlanLength(c) + Offset(i)
  <2>6. n \in 0..Outputs(c) /\ written[i] \in 0..n /\ (n = Outputs(c) <=> z = Blocks(c))
    BY <2>1, <2>2, SentBound
  <2>7. Outputs(c) \in Nat
    BY <1>1, CountNat
  <2> HIDE DEF n
  <2> QED BY <1>1, <2>5, <2>6, <2>7
<1> QED BY <1>2, <1>3

-----------------------------------------------------------------------------
(* The ledger under a step: issue and generators *)

LEMMA IssueLedger ==
  ASSUME Inv, LedgerInv, Issue
  PROVE  LedgerInv'
<1> DEFINE k == issued + 1
           c == program[k]
           g == GeneratorOf(c)
<1>1. /\ Same /\ issued' = k
      /\ UNCHANGED <<generated, inputs, memory, acknowledged, offset, retiring,
                     writes, acks, written, pushed>>
  BY DEF Issue, Same, reader, output, l0
<1>2. /\ Len(program) \in Nat /\ Len(others) \in Nat /\ issued \in Nat
      /\ k \in 1..Len(program) /\ k \in Ids /\ Cmd(k) = c /\ EngineType
  BY ProgramType DEF Inv, TypeOK, EngineType, Issue, Ids, Cmd
<1>3. /\ RequestCount(c) = 0 => completed' = completed \cup {k} /\ generation' = generation
      /\ RequestCount(c) # 0 =>
           completed' = completed /\ generation' = [generation EXCEPT ![g] = [id |-> k, next |-> 1]]
  BY DEF Issue
<1>4. RequestCount(c) # 0 => g \in Generators /\ generation[g] = None /\ RequestCount(c) >= 1
  <2> SUFFICES ASSUME RequestCount(c) # 0
               PROVE  g \in Generators /\ generation[g] = None /\ RequestCount(c) >= 1
    OBVIOUS
  <2>1. c \in Command /\ c.op \notin Foreign /\ c.blocks \in Nat /\ c.merge \in Int
    BY <1>2, ProgramType, Operations
  <2>2. c.blocks * 0 = 0
    BY <2>1
  <2>3. c.op \notin Controls
    BY <2>2 DEF RequestCount, Controls
  <2>4. c.op \in Reads \cup {"Set2d"} /\ g \in Generators
    BY <2>1, <2>3, Operations DEF Reads, Controls, Foreign, GeneratorOf, Generators
  <2>5. ~Disabled(c)
    <3> SUFFICES ASSUME c.blocks = 0 PROVE FALSE
      BY DEF Disabled
    <3>1. /\ c.merge * Parts \in Int /\ 2 * Parts \in Int /\ Parts \in Int /\ Fragments \in Int
      BY <2>1, SplitAssumption
    <3> QED BY <2>3, <3>1, Zero DEF RequestCount
  <2>6. generation[g] = None
    BY <2>3, <2>4, <2>5 DEF Issue, CanIssue, Controls
  <2>7. RequestCount(c) \in Nat
    BY <1>2, CountNat
  <2> QED BY <2>4, <2>6, <2>7
<1>5. generation \in [Generators -> [id : 1..issued, next : Nat \ {0}] \cup {None}]
  BY DEF Inv, TypeOK, ProducerType
<1>6. ASSUME NEW i \in Ids, RequestCount(Cmd(i)) # 0
      PROVE  Made(i)' = Made(i)
  <2> DEFINE h == GeneratorOf(Cmd(i))
  <2>1. Cmd(i)' = Cmd(i) /\ Len(program)' = Len(program) /\ i \in Nat \ {0}
    BY <1>1, <1>2, <1>6, SameCmd, RoutedCmd
  <2>2. CASE i > Len(program)
    BY <1>1, <1>2, <2>1, <2>2 DEF Made
  <2>3. CASE i = k
    <3>1. Made(i) = 0
      BY <1>2, <2>3 DEF Made
    <3>2. g \in Generators /\ generation'[g] = [id |-> k, next |-> 1]
      BY <1>2, <1>3, <1>4, <1>5, <1>6, <2>3
    <3>3. Made(i)' = 1 - 1
      BY <1>1, <1>2, <2>1, <2>3, <3>2 DEF Made
    <3> QED BY <3>1, <3>3
  <2>4. CASE i <= Len(program) /\ i # k
    <3>1. i > issued' <=> i > issued
      BY <1>1, <1>2, <2>1, <2>4
    <3>2. h \in Generators =>
            /\ generation'[h].id = i <=> generation[h].id = i
            /\ generation'[h].id = i => generation'[h] = generation[h]
      <4> SUFFICES ASSUME h \in Generators
                   PROVE  /\ generation'[h].id = i <=> generation[h].id = i
                          /\ generation'[h].id = i => generation'[h] = generation[h]
        OBVIOUS
      <4>1. CASE generation' = generation
        BY <4>1
      <4>2. CASE RequestCount(c) # 0 /\ generation' = [generation EXCEPT ![g] = [id |-> k, next |-> 1]]
        <5>1. CASE h = g
          <6>1. generation'[h].id = k
            BY <1>5, <4>2, <5>1
          <6>2. generation[h].id = 0
            BY <1>4, <4>2, <5>1 DEF None
          <6> QED BY <2>1, <2>4, <6>1, <6>2
        <5>2. CASE h # g
          BY <1>5, <4>2, <5>2
        <5> QED BY <5>1, <5>2
      <4> QED BY <1>3, <4>1, <4>2
    <3> QED BY <1>1, <2>1, <2>4, <3>1, <3>2 DEF Made
  <2> QED BY <1>2, <2>1, <2>2, <2>3, <2>4
<1>7. SourcePlaced'
  <2> SUFFICES ASSUME NEW h \in Generators, generation'[h] # None
               PROVE  /\ GeneratorOf(Cmd(generation'[h].id)) = h
                      /\ generation'[h].next <= RequestCount(Cmd(generation'[h].id))
    BY <1>1, SameCmd, SameEntries DEF LedgerInv, Placed, SourcePlaced, Same
  <2>1. CASE generation'[h] = generation[h]
    BY <2>1 DEF LedgerInv, Placed, SourcePlaced
  <2>2. CASE generation'[h] # generation[h]
    <3>1. /\ RequestCount(c) # 0 /\ h = g /\ generation'[h] = [id |-> k, next |-> 1]
      BY <1>3, <1>5, <2>2
    <3> QED BY <1>2, <1>4, <3>1
  <2> QED BY <2>1, <2>2
<1>8. Placed' /\ OffsetHolds'
  BY <1>1, <1>7, InputsPlacedSame, OutputsPlacedSame, WritesPlacedSame,
     RetiringPlacedSame, OffsetHoldsSame DEF LedgerInv, Placed
<1>9. \A i \in Ids : Ledger(i)'
  BY <1>1, <1>6, LedgerSame DEF LedgerInv
<1>10. CompletedExactly'
  <2>1. Started' = Started \cup {k} /\ k \notin Started
    BY <1>1, <1>2, SameCmd DEF Started
  <2>2. completed \subseteq Started
    BY <1>2 DEF EngineType
  <2>3. \A j : Cmd(j)' = Cmd(j)
    BY <1>1, SameCmd
  <2> SUFFICES ASSUME NEW j \in Started \cup {k}
               PROVE  j \in completed' <=> written[j] = Outputs(Cmd(j))
    BY <1>1, <2>1, <2>3 DEF CompletedExactly
  <2>4. CASE j # k
    BY <1>3, <2>4 DEF LedgerInv, CompletedExactly
  <2>5. CASE j = k /\ RequestCount(c) = 0
    <3>1. written[k] = 0
      BY <1>2, <2>5 DEF LedgerInv, Ledger
    <3>2. Outputs(c) = 0
      BY <1>2, <2>5, RoutedCmd, NothingCounts
    <3> QED BY <1>2, <1>3, <2>5, <3>1, <3>2
  <2>6. CASE j = k /\ RequestCount(c) # 0
    <3>1. Made(k) = 0
      BY <1>2 DEF Made
    <3>2. written[k] # Outputs(c)
      BY <1>2, <2>6, <3>1, Unmade DEF LedgerInv
    <3> QED BY <1>2, <1>3, <2>1, <2>2, <2>6, <3>2
  <2> QED BY <2>4, <2>5, <2>6
<1> QED BY <1>1, <1>8, <1>9, <1>10, SameCmd DEF LedgerInv

\* A generator makes the next request of its command.
LEMMA GenerateMade ==
  ASSUME Inv, SourcePlaced, NEW g \in Generators, Generate(g),
         NEW r, r = [id |-> generation[g].id, index |-> generation[g].next],
         NEW i \in Ids
  PROVE  /\ r \in MadeBy(g) /\ r \in Entries
         /\ IndexOf(i)[r] \in {0, Made(i) + 1}
         /\ Made(i)' = Made(i) + Unit(IndexOf(i)[r])
<1> DEFINE now == generation[g]
           c == Cmd(now.id)
<1>1. /\ Same /\ UNCHANGED <<issued, pushed>> /\ now # None
      /\ generation' = [generation EXCEPT ![g] =
                          IF now.next = RequestCount(c) THEN None
                          ELSE [id |-> now.id, next |-> now.next + 1]]
  BY DEF Generate, Same, engine
<1>2. /\ generation \in [Generators -> [id : 1..issued, next : Nat \ {0}] \cup {None}]
      /\ now \in [id : 1..issued, next : Nat \ {0}] /\ issued \in Nat
      /\ Len(program) \in Nat /\ issued <= Len(program) /\ Len(others) \in Nat
  BY <1>1, ProgramType DEF Inv, TypeOK, ProducerType, EngineType
<1>3. GeneratorOf(c) = g /\ now.next <= RequestCount(c)
  BY <1>1 DEF SourcePlaced
<1>4. now.id \in Ids /\ now.id <= Len(program) /\ now.id <= issued /\ now.next \in Nat \ {0}
  BY <1>2 DEF Ids
<1>5. r \in MadeBy(g) /\ r \in Entries
  BY <1>3, <1>4 DEF MadeBy, Entries
<1> DEFINE x == IndexOf(i)[r]
           y == now.next
<1>6. (now.id = i => x = y) /\ (now.id # i => x = 0) /\ y \in Nat \ {0}
  BY <1>4, <1>5, EntryFacts DEF Inv, TypeOK
<1>9. ASSUME x \in {0, Made(i) + 1}, Made(i)' = Made(i) + Unit(x)
      PROVE  /\ r \in MadeBy(g) /\ r \in Entries
             /\ IndexOf(i)[r] \in {0, Made(i) + 1}
             /\ Made(i)' = Made(i) + Unit(IndexOf(i)[r])
  BY <1>5, <1>9
<1>7. CASE now.id = i
  <2>1. Made(i) = now.next - 1
    BY <1>2, <1>3, <1>4, <1>7 DEF Made
  <2>2. Cmd(i)' = Cmd(i) /\ Len(program)' = Len(program)
    BY <1>1, SameCmd
  <2>3. Made(i)' = now.next
    <3>1. RequestCount(c) \in Nat
      BY <1>4, CountNat DEF Inv, TypeOK
    <3>2. CASE now.next = RequestCount(c)
      <4>1. generation'[g] = None
        BY <1>1, <1>2, <3>2
      <4>2. generation'[g].id # i
        BY <1>2, <1>7, <4>1 DEF None
      <4> QED BY <1>1, <1>2, <1>3, <1>4, <1>7, <2>2, <3>2, <4>2 DEF Made
    <3>3. CASE now.next # RequestCount(c)
      <4> DEFINE e == [id |-> now.id, next |-> now.next + 1]
      <4>1. generation'[g] = e
        BY <1>1, <1>2, <3>3
      <4>2. e.id = i /\ e.next - 1 = now.next
        BY <1>4, <1>7
      <4> HIDE DEF e
      <4> QED BY <1>1, <1>2, <1>3, <1>4, <1>7, <2>2, <4>1, <4>2 DEF Made
    <3> QED BY <3>2, <3>3
  <2>4. x = y /\ Made(i) = y - 1 /\ Made(i)' = y
    BY <1>6, <1>7, <2>1, <2>3
  <2> HIDE DEF x, y
  <2> QED BY <1>6, <1>9, <2>4 DEF Unit
<1>8. CASE now.id # i
  <2>1. Made(i)' = Made(i)
    <3> DEFINE h == GeneratorOf(Cmd(i))
    <3>1. i \in Nat \ {0}
      BY RoutedCmd DEF Inv, TypeOK
    <3>2. h \in Generators =>
            /\ generation'[h].id = i <=> generation[h].id = i
            /\ generation'[h].id = i => generation'[h] = generation[h]
      <4> SUFFICES ASSUME h \in Generators
                   PROVE  /\ generation'[h].id = i <=> generation[h].id = i
                          /\ generation'[h].id = i => generation'[h] = generation[h]
        OBVIOUS
      <4>1. CASE h = g
        <5>1. generation'[g].id \in {0, now.id}
          BY <1>1, <1>2 DEF None
        <5> QED BY <1>8, <3>1, <4>1, <5>1
      <4>2. CASE h # g
        BY <1>1, <1>2, <4>2
      <4> QED BY <4>1, <4>2
    <3>3. Cmd(i)' = Cmd(i) /\ Len(program)' = Len(program)
      BY <1>1, SameCmd
    <3> QED BY <1>1, <3>2, <3>3 DEF Made
  <2>2. Made(i) \in Nat
    <3>1. RequestCount(Cmd(i)) \in Nat
      BY CountNat DEF Inv, TypeOK
    <3> QED BY <3>1, MadeBound
  <2>3. x = 0
    BY <1>6, <1>8
  <2> HIDE DEF x
  <2> QED BY <1>9, <2>1, <2>2, <2>3 DEF Unit
<1> QED BY <1>5, <1>7, <1>8

\* Where the commands come from.
LEMMA OwnOps ==
  ASSUME EngineType, NEW i \in Ids
  PROVE  /\ Len(program) \in Nat /\ i \in Nat
         /\ i <= Len(program) => Cmd(i).op \notin Foreign
         /\ i > Len(program) =>
              /\ i - Len(program) \in 1..Len(others) /\ Cmd(i) = others[i - Len(program)]
              /\ Cmd(i).op \in Foreign
         /\ i <= Len(program) /\ RequestCount(Cmd(i)) # 0 =>
              /\ GeneratorOf(Cmd(i)) \in Generators
              /\ GeneratorOf(Cmd(i)) = "Set2d" <=> Cmd(i).op \in Fills
<1> DEFINE w == [mte1 |-> program, others |-> others]
           c == Cmd(i)
<1>1. w \in Workloads /\ w.mte1 = program /\ w.others = others
  BY DEF EngineType
<1> HIDE DEF w
<1>2. /\ program \in Seq({d \in Command : d.op \notin Foreign})
      /\ others \in Seq({d \in Command : d.op \in Foreign})
  BY <1>1, ProgramAssumption
<1>3. Len(program) \in Nat /\ Len(others) \in Nat /\ i \in 1..(Len(program) + Len(others))
  BY <1>2, LenInNat DEF Ids
<1>4. i <= Len(program) => c.op \notin Foreign /\ c \in Command
  BY <1>2, <1>3 DEF Cmd
<1>5. i > Len(program) => /\ i - Len(program) \in 1..Len(others)
                          /\ c = others[i - Len(program)] /\ c.op \in Foreign
  <2> SUFFICES ASSUME i > Len(program)
               PROVE  /\ i - Len(program) \in 1..Len(others)
                      /\ c = others[i - Len(program)] /\ c.op \in Foreign
    OBVIOUS
  <2>1. i - Len(program) \in 1..Len(others) /\ c = others[i - Len(program)]
    BY <1>3 DEF Cmd
  <2> QED BY <1>2, <1>3, <2>1
<1>6. ASSUME i <= Len(program), RequestCount(c) # 0
      PROVE  GeneratorOf(c) \in Generators /\ (GeneratorOf(c) = "Set2d" <=> c.op \in Fills)
  <2>1. c.op \notin Controls
    <3>1. c.blocks * 0 = 0
      BY <1>4, <1>6, Operations
    <3> QED BY <1>6, <3>1 DEF RequestCount, Controls
  <2> QED BY <1>4, <1>6, <2>1, Operations
          DEF Reads, Controls, Foreign, GeneratorOf, Generators, Fills
<1> QED BY <1>3, <1>4, <1>5, <1>6

LEMMA GenerateLedger ==
  ASSUME Inv, LedgerInv, NEW g \in Generators, Generate(g)
  PROVE  LedgerInv'
<1> DEFINE r == [id |-> generation[g].id, index |-> generation[g].next]
           q == generated[g]
<1>1. /\ Same /\ generated' = [generated EXCEPT ![g] = Append(@, r)]
      /\ UNCHANGED <<issued, completed, inputs, memory, acknowledged, offset, retiring,
                     writes, acks, written, pushed>>
      /\ generation' = [generation EXCEPT ![g] =
                          IF generation[g].next = RequestCount(Cmd(generation[g].id)) THEN None
                          ELSE [id |-> generation[g].id, next |-> generation[g].next + 1]]
      /\ generation[g] # None
  BY DEF Generate, Same, engine, reader, output, l0
<1>2. generated \in [Generators -> Seq(Reqs)] /\ EngineType
  BY DEF Inv, TypeOK, ProducerType
<1>3. \A h \in Generators : generated'[h] = IF h = g THEN Append(q, r) ELSE generated[h]
  BY <1>1, <1>2
<1>4. /\ r \in MadeBy(g) /\ r \in Entries
      /\ \A i \in Ids : /\ IndexOf(i)[r] \in {0, Made(i) + 1}
                        /\ Made(i)' = Made(i) + Unit(IndexOf(i)[r])
  <2>1. SourcePlaced
    BY DEF LedgerInv, Placed
  <2>2. ASSUME NEW i \in Ids
        PROVE  /\ r \in MadeBy(g) /\ r \in Entries
               /\ IndexOf(i)[r] \in {0, Made(i) + 1}
               /\ Made(i)' = Made(i) + Unit(IndexOf(i)[r])
    <3>1. PICK r0 : r0 = r
      OBVIOUS
    <3> HIDE DEF r
    <3>2. /\ r0 \in MadeBy(g) /\ r0 \in Entries
          /\ IndexOf(i)[r0] \in {0, Made(i) + 1}
          /\ Made(i)' = Made(i) + Unit(IndexOf(i)[r0])
      BY <2>1, <3>1, GenerateMade DEF r
    <3> QED BY <3>1, <3>2
  <2>3. r.id \in Ids
    <3>1. generation \in [Generators -> [id : 1..issued, next : Nat \ {0}] \cup {None}]
      BY DEF Inv, TypeOK, ProducerType
    <3> QED BY <1>1, <1>2, <3>1, ProgramType DEF Ids, EngineType
  <2> QED BY <2>2, <2>3
<1>5. r.id <= Len(program) /\ GeneratorOf(Cmd(r.id)) = g
  BY <1>4 DEF MadeBy
<1> HIDE DEF r
<1>6. ASSUME NEW i \in Ids, RequestCount(Cmd(i)) # 0, NEW s \in Nat,
             IF i <= Len(program) THEN Window(generated[GeneratorOf(Cmd(i))], IndexOf(i), s, Made(i))
             ELSE s = Made(i)
      PROVE  IF i <= Len(program) THEN Window(generated'[GeneratorOf(Cmd(i))], IndexOf(i), s, Made(i)')
             ELSE s = Made(i)'
  <2> DEFINE N == IndexOf(i)
             b == Made(i)
             h == GeneratorOf(Cmd(i))
  <2>1. N[r] \in {0, b + 1} /\ b' = b + Unit(N[r]) /\ b \in Nat
    <3>1. RequestCount(Cmd(i)) \in Nat
      BY <1>2, CountNat
    <3> QED BY <1>4, <3>1, MadeBound DEF LedgerInv, Placed
  <2>2. N[r] = IF r.id = i THEN r.index ELSE 0
    BY <1>2, <1>4, EntryFacts
  <2>3. CASE i > Len(program)
    <3>1. N[r] = 0 /\ ~(i <= Len(program))
      BY <1>2, <1>5, <2>2, <2>3, OwnOps
    <3> QED BY <1>6, <2>1, <3>1 DEF Unit
  <2>4. CASE i <= Len(program) /\ h # g
    <3>1. N[r] = 0
      BY <1>5, <2>2, <2>4
    <3>2. generated'[h] = generated[h]
      BY <1>2, <1>3, <1>6, <2>4, OwnOps
    <3> QED BY <1>6, <2>1, <2>4, <3>1, <3>2 DEF Unit
  <2>5. CASE i <= Len(program) /\ h = g
    <3>1. q \in Seq(MadeBy(g)) /\ Window(q, N, s, b)
      BY <1>6, <2>5 DEF LedgerInv, Placed, SourcePlaced
    <3>2. PICK b0 \in Nat : b0 = b
      BY <2>1
    <3>3. Window(Append(q, r), N, s, b0 + Unit(N[r]))
      <4> HIDE DEF N, b, q
      <4> QED BY <1>4, <2>1, <3>1, <3>2, WindowAppend
    <3> QED BY <1>3, <2>1, <2>5, <3>2, <3>3
  <2> QED BY <1>2, <2>3, <2>4, <2>5, OwnOps
<1>7. ASSUME NEW i \in Ids
      PROVE  Ledger(i)'
  <2> DEFINE c == Cmd(i)
  <2>1. /\ Cmd(i)' = Cmd(i) /\ Len(program)' = Len(program) /\ IndexOf(i)' = IndexOf(i)
        /\ Port(i)' = Port(i) /\ BlockOf(i)' = BlockOf(i) /\ Offset(i)' = Offset(i)
    BY <1>1, SameCmd, SameNumbers, SameEntries, OffsetSame
  <2>2. ASSUME RequestCount(c) # 0, c.op \in Fills, FillLedger(i)
        PROVE  FillLedger(i)'
    <3>1. PICK s \in Nat : /\ IF i <= Len(program)
                              THEN Window(generated["Set2d"], IndexOf(i), s, Made(i))
                              ELSE s = Made(i)
                           /\ Delivery(i, s)
      BY <2>2 DEF FillLedger
    <3>2. i <= Len(program) => GeneratorOf(c) = "Set2d"
      BY <1>2, <2>2, OwnOps
    <3>3. IF i <= Len(program) THEN Window(generated'["Set2d"], IndexOf(i), s, Made(i)')
          ELSE s = Made(i)'
      BY <1>6, <2>2, <3>1, <3>2
    <3>4. Delivery(i, s)'
      BY <1>1, <3>1, DeliverySame
    <3> QED BY <2>1, <3>3, <3>4 DEF FillLedger
  <2>3. ASSUME RequestCount(c) # 0, c.op \notin Fills, ReadLedger(i)
        PROVE  ReadLedger(i)'
    <3>1. PICK s \in Nat, m \in Nat, a \in Nat, z \in Nat :
            /\ Fetched(i, s, m, a)
            /\ Window(acknowledged, BlockOf(i), z, Done(c, a))
            /\ Stored(i, z, z * PlanLength(c) + Offset(i))
      BY <2>3 DEF ReadLedger
    <3>2. IF i <= Len(program) THEN Window(generated'[GeneratorOf(c)], IndexOf(i), s, Made(i)')
          ELSE s = Made(i)'
      BY <1>6, <2>3, <3>1 DEF Fetched
    <3>3. Fetched(i, s, m, a)'
      BY <1>1, <2>1, <3>1, <3>2 DEF Fetched
    <3>4. PICK n : n = z * PlanLength(c) + Offset(i)
      OBVIOUS
    <3>5. Stored(i, z, n)'
      BY <1>1, <3>1, <3>4, StoredSame
    <3> QED BY <1>1, <2>1, <3>1, <3>3, <3>4, <3>5 DEF ReadLedger
  <2> QED BY <1>1, <2>2, <2>3, LedgerStep DEF LedgerInv
<1>8. SourcePlaced'
  <2>1. \A h \in Generators : generated'[h] \in Seq(MadeBy(h))
    <3>1. \A h \in Generators : generated[h] \in Seq(MadeBy(h))
      BY DEF LedgerInv, Placed, SourcePlaced
    <3>2. \A S : q \in Seq(S) /\ r \in S => Append(q, r) \in Seq(S)
      OBVIOUS
    <3>3. Append(q, r) \in Seq(MadeBy(g))
      BY <1>4, <3>1, <3>2
    <3> QED BY <1>3, <3>1, <3>3
  <2>2. ASSUME NEW h \in Generators, generation'[h] # None
        PROVE  /\ GeneratorOf(Cmd(generation'[h].id)) = h
               /\ generation'[h].next <= RequestCount(Cmd(generation'[h].id))
    <3>1. CASE h # g
      <4>1. generation'[h] = generation[h]
        BY <1>1, <3>1
      <4> QED BY <2>2, <4>1 DEF LedgerInv, Placed, SourcePlaced
    <3>2. CASE h = g
      <4> DEFINE now == generation[g]
                 K == RequestCount(Cmd(now.id))
      <4>1. /\ generation \in [Generators -> [id : 1..issued, next : Nat \ {0}] \cup {None}]
            /\ issued \in Nat /\ now.next \in Nat /\ now.next <= K
            /\ GeneratorOf(Cmd(now.id)) = g
        BY <1>1 DEF Inv, TypeOK, ProducerType, LedgerInv, Placed, SourcePlaced, EngineType
      <4>2. K \in Nat
        <5>1. now.id \in Ids
          BY <1>4, EntryFacts, <1>2 DEF r
        <5> QED BY <1>2, <5>1, CountNat
      <4>3. generation'[g] = IF now.next = K THEN None ELSE [id |-> now.id, next |-> now.next + 1]
        BY <1>1, <4>1
      <4> DEFINE e == [id |-> now.id, next |-> now.next + 1]
      <4>4. generation'[h] = e /\ now.next # K
        BY <2>2, <3>2, <4>3
      <4>5. e.id = now.id /\ e.next = now.next + 1
        OBVIOUS
      <4> HIDE DEF e
      <4>6. e.next <= K
        BY <4>1, <4>2, <4>4, <4>5
      <4> QED BY <3>2, <4>1, <4>4, <4>5, <4>6
    <3> QED BY <3>1, <3>2
  <2>3. \A o \in 1..Len(others) : pushed[o] <= RequestCount(others[o])
    BY DEF LedgerInv, Placed, SourcePlaced
  <2> QED BY <1>1, <2>1, <2>2, <2>3, SameCmd, SameEntries DEF SourcePlaced, Same
<1>9. Placed' /\ OffsetHolds' /\ CompletedExactly'
  BY <1>1, <1>8, InputsPlacedSame, OutputsPlacedSame, WritesPlacedSame,
     RetiringPlacedSame, OffsetHoldsSame, CompletedSame DEF LedgerInv, Placed
<1> QED BY <1>1, <1>7, <1>9, SameCmd DEF LedgerInv

-----------------------------------------------------------------------------
(* The ledger under a step: what is sent on *)

LEMMA UnitNat == \A n \in Nat : Unit(n) \in {0, 1} /\ (Unit(n) = 0 <=> n = 0)
BY DEF Unit

LEMMA PortType == \A i : Port(i) \in InputPorts
BY DEF Port, InputPort, InputPorts

LEMMA AppendIn ==
  ASSUME NEW S, NEW q \in Seq(S), NEW x \in S
  PROVE  Append(q, x) \in Seq(S)
OBVIOUS

LEMMA TailIn ==
  ASSUME NEW S, NEW q \in Seq(S), q # <<>>
  PROVE  Tail(q) \in Seq(S) /\ Head(q) \in S
OBVIOUS

\* What the source of a read or a fill knows.
SourceAt(i, s) ==
  IF i <= Len(program) THEN Window(generated[GeneratorOf(Cmd(i))], IndexOf(i), s, Made(i))
  ELSE s = Made(i)

\* The oldest request leaves its generator.
LEMMA SourceTail ==
  ASSUME Inv, LedgerInv, NEW g \in Generators, generated[g] # <<>>,
         Same, UNCHANGED <<generation, issued, pushed>>,
         generated' = [generated EXCEPT ![g] = Tail(@)],
         NEW r, r = Head(generated[g])
  PROVE  /\ SourcePlaced' /\ r \in MadeBy(g)
         /\ \A i \in Ids, s \in Nat :
              RequestCount(Cmd(i)) # 0 /\ SourceAt(i, s) =>
                IndexOf(i)[r] \in {0, s + 1} /\ SourceAt(i, s + Unit(IndexOf(i)[r]))'
<1> DEFINE q == generated[g]
<1>1. EngineType /\ generated \in [Generators -> Seq(Reqs)]
  BY DEF Inv, TypeOK, ProducerType
<1>2. \A h \in Generators : generated'[h] = IF h = g THEN Tail(q) ELSE generated[h]
  BY <1>1
<1>3. SourcePlaced
  BY DEF LedgerInv, Placed
<1>4. q \in Seq(MadeBy(g)) /\ q # <<>>
  BY <1>3 DEF SourcePlaced
<1>5. r \in MadeBy(g) /\ Tail(q) \in Seq(MadeBy(g))
  BY <1>4, TailIn
<1>6. r \in Entries /\ r.id <= Len(program) /\ GeneratorOf(Cmd(r.id)) = g
  BY <1>5 DEF MadeBy
<1>7. SourcePlaced'
  <2>1. \A h \in Generators : generated'[h] \in Seq(MadeBy(h))
    BY <1>2, <1>3, <1>5 DEF SourcePlaced
  <2> QED BY <1>3, <2>1, SameCmd, SameEntries DEF SourcePlaced, Same
<1>8. ASSUME NEW i \in Ids, NEW s \in Nat, RequestCount(Cmd(i)) # 0, SourceAt(i, s)
      PROVE  IndexOf(i)[r] \in {0, s + 1} /\ SourceAt(i, s + Unit(IndexOf(i)[r]))'
  <2> DEFINE N == IndexOf(i)
             b == Made(i)
             h == GeneratorOf(Cmd(i))
  <2>1. b \in Nat
    <3>1. RequestCount(Cmd(i)) \in Nat
      BY <1>1, CountNat
    <3> QED BY <1>3, <3>1, MadeBound
  <2>2. N[r] = IF r.id = i THEN r.index ELSE 0
    BY <1>1, <1>6, EntryFacts
  <2>3. /\ Made(i)' = b /\ IndexOf(i)' = N /\ Cmd(i)' = Cmd(i) /\ Len(program)' = Len(program)
    BY MadeSame, SameNumbers, SameCmd
  <2>4. CASE i > Len(program)
    <3>1. N[r] = 0 /\ ~(i <= Len(program))
      BY <1>1, <1>6, <2>2, <2>4, OwnOps
    <3> QED BY <1>8, <2>3, <3>1 DEF Unit, SourceAt
  <2>5. CASE i <= Len(program) /\ h # g
    <3>1. N[r] = 0
      BY <1>6, <2>2, <2>5
    <3>2. generated'[h] = generated[h]
      BY <1>1, <1>2, <1>8, <2>5, OwnOps
    <3> QED BY <1>8, <2>3, <2>5, <3>1, <3>2 DEF Unit, SourceAt
  <2>6. CASE i <= Len(program) /\ h = g
    <3>1. Window(q, N, s, b)
      BY <1>8, <2>6 DEF SourceAt
    <3>2. N[r] \in {0, s + 1} /\ Window(Tail(q), N, s + Unit(N[r]), b)
      <4>1. PICK b0 \in Nat : b0 = b
        BY <2>1
      <4>2. N[Head(q)] \in {0, s + 1} /\ Window(Tail(q), N, s + Unit(N[Head(q)]), b0)
        <5> HIDE DEF N, b, q
        <5> QED BY <1>4, <3>1, <4>1, WindowTail
      <4>3. r = Head(q)
        OBVIOUS
      <4> HIDE DEF N, b, q
      <4> QED BY <4>1, <4>2, <4>3
    <3> QED BY <1>2, <2>3, <2>6, <3>2 DEF SourceAt
  <2> QED BY <1>1, <2>4, <2>5, <2>6, OwnOps
<1> QED BY <1>5, <1>7, <1>8

\* A request goes into an input of the L1 interface.
LEMMA InputAppend ==
  ASSUME Inv, InputsPlaced, Same, NEW p \in InputPorts, NEW r \in ReadsAt(p),
         inputs' = [inputs EXCEPT ![p] = Append(@, r)]
  PROVE  /\ InputsPlaced'
         /\ \A i \in Ids, m \in Nat, s \in Nat :
              /\ IndexOf(i)[r] \in {0, s + 1}
              /\ Window(inputs[Port(i)], IndexOf(i), m, s)
              => Window(inputs[Port(i)], IndexOf(i), m, s + Unit(IndexOf(i)[r]))'
<1> DEFINE q == inputs[p]
<1>1. EngineType /\ inputs \in [InputPorts -> Seq(Reqs)]
  BY DEF Inv, TypeOK, ReaderType
<1>2. \A x \in InputPorts : inputs'[x] = IF x = p THEN Append(q, r) ELSE inputs[x]
  BY <1>1
<1>3. q \in Seq(ReadsAt(p)) /\ Append(q, r) \in Seq(ReadsAt(p))
  BY AppendIn DEF InputsPlaced
<1>4. InputsPlaced'
  BY <1>2, <1>3, SameEntries DEF InputsPlaced
<1>5. r \in Entries /\ Port(r.id) = p
  BY DEF ReadsAt, PathReads
<1>6. ASSUME NEW i \in Ids, NEW m \in Nat, NEW s \in Nat, IndexOf(i)[r] \in {0, s + 1},
             Window(inputs[Port(i)], IndexOf(i), m, s)
      PROVE  Window(inputs[Port(i)], IndexOf(i), m, s + Unit(IndexOf(i)[r]))'
  <2> DEFINE N == IndexOf(i)
  <2>1. IndexOf(i)' = N /\ Port(i)' = Port(i) /\ Port(i) \in InputPorts
    BY SameNumbers, SameEntries, PortType
  <2>2. N[r] = IF r.id = i THEN r.index ELSE 0
    BY <1>1, <1>5, EntryFacts
  <2>3. CASE Port(i) # p
    <3>1. N[r] = 0 /\ inputs'[Port(i)] = inputs[Port(i)]
      BY <1>2, <1>5, <2>1, <2>2, <2>3
    <3> QED BY <1>6, <2>1, <3>1 DEF Unit
  <2>4. CASE Port(i) = p
    <3>1. Window(Append(q, r), N, m, s + Unit(N[r]))
      <4>1. Window(q, N, m, s)
        BY <1>6, <2>4
      <4> HIDE DEF q, N
      <4> QED BY <1>3, <1>6, <4>1, WindowAppend DEF N
    <3> QED BY <1>2, <2>1, <2>4, <3>1
  <2> QED BY <2>3, <2>4
<1> QED BY <1>4, <1>6

\* A fragment goes into a port of L0.
LEMMA PieceAppend ==
  ASSUME Inv, WritesPlaced, Same, UNCHANGED <<acks, written>>,
         NEW t \in Targets, NEW p \in WritePorts, NEW f \in WritesAt(t, p),
         PushWrite(t, p, f)
  PROVE  /\ WritesPlaced'
         /\ \A i \in Ids, n \in Nat :
              /\ PlaceOf(i)[f] \in {0, n + 1} /\ Cmd(i).to \in Targets
              /\ Delivery(i, n)
              => Delivery(i, n + Unit(PlaceOf(i)[f]))'
<1> DEFINE q == writes[t][p]
<1>1. EngineType /\ writes \in [Targets -> [WritePorts -> Seq(Frags)]]
  BY DEF Inv, TypeOK, L0Type
<1>2. \A u \in Targets, x \in WritePorts :
        writes'[u][x] = IF u = t /\ x = p THEN Append(q, f) ELSE writes[u][x]
  BY <1>1 DEF PushWrite
<1>3. q \in Seq(WritesAt(t, p)) /\ Append(q, f) \in Seq(WritesAt(t, p))
  BY AppendIn DEF WritesPlaced
<1>4. WritesPlaced'
  BY <1>2, <1>3, SamePieces DEF WritesPlaced
<1>5. f \in Pieces /\ Cmd(f.id).to = t /\ WritePortOf(f.id) = p
  BY DEF WritesAt
<1>6. ASSUME NEW i \in Ids, NEW n \in Nat, PlaceOf(i)[f] \in {0, n + 1},
             Cmd(i).to \in Targets, Delivery(i, n)
      PROVE  Delivery(i, n + Unit(PlaceOf(i)[f]))'
  <2> DEFINE N == PlaceOf(i)
             u == Cmd(i).to
             y == WritePortOf(i)
  <2>1. /\ PlaceOf(i)' = N /\ Cmd(i)' = Cmd(i) /\ WritePortOf(i)' = y /\ y \in WritePorts
    BY SameNumbers, SameCmd, SamePieces DEF WritePortOf, WritePorts
  <2>2. N[f] = IF f.id = i THEN Place(f) ELSE 0
    BY <1>1, <1>5, PieceFacts
  <2>3. PICK x \in Nat : Window(writes[u][y], N, x, n) /\ Window(acks[u], N, written[i], x)
    BY <1>6 DEF Delivery
  <2>4. CASE ~(u = t /\ y = p)
    <3>1. N[f] = 0 /\ writes'[u][y] = writes[u][y]
      BY <1>2, <1>5, <1>6, <2>1, <2>2, <2>4
    <3> QED BY <2>1, <2>3, <3>1 DEF Unit, Delivery
  <2>5. CASE u = t /\ y = p
    <3>1. Window(Append(q, f), N, x, n + Unit(N[f]))
      <4>1. Window(q, N, x, n)
        BY <2>3, <2>5
      <4> HIDE DEF q, N
      <4> QED BY <1>3, <1>6, <4>1, WindowAppend DEF N
    <3>2. writes'[u][y] = Append(q, f)
      BY <1>2, <2>1, <2>5
    <3> HIDE DEF q
    <3> QED BY <2>1, <2>3, <3>1, <3>2 DEF Delivery
  <2> QED BY <2>4, <2>5
<1> QED BY <1>4, <1>6

\* The ledger of a fill in terms of its source.
LEMMA FillSource ==
  ASSUME EngineType, NEW i \in Ids, RequestCount(Cmd(i)) # 0, Cmd(i).op \in Fills
  PROVE  /\ FillLedger(i) => \E s \in Nat : SourceAt(i, s) /\ Delivery(i, s)
         /\ \A s \in Nat : Same /\ SourceAt(i, s)' /\ Delivery(i, s)' => FillLedger(i)'
         /\ Cmd(i).to \in Targets
<1>1. i <= Len(program) => GeneratorOf(Cmd(i)) = "Set2d"
  BY OwnOps
<1>2. FillLedger(i) => \E s \in Nat : SourceAt(i, s) /\ Delivery(i, s)
  BY <1>1 DEF FillLedger, SourceAt
<1>3. ASSUME Same, NEW s \in Nat, SourceAt(i, s)', Delivery(i, s)'
      PROVE  FillLedger(i)'
  <2>1. Cmd(i)' = Cmd(i) /\ Len(program)' = Len(program)
    BY <1>3, SameCmd
  <2> QED BY <1>1, <1>3, <2>1 DEF FillLedger, SourceAt
<1>4. Cmd(i).to \in Targets
  BY RoutedCmd, FillCounts
<1> QED BY <1>2, <1>3, <1>4

\* The ledger of a read after a step.
LEMMA ReadNext ==
  ASSUME Same, NEW i, NEW s \in Nat, NEW m \in Nat, NEW a \in Nat, NEW z \in Nat,
         NEW d, d = Done(Cmd(i), a), NEW n, n = z * PlanLength(Cmd(i)) + Offset(i)',
         Fetched(i, s, m, a)', Window(acknowledged, BlockOf(i), z, d)', Stored(i, z, n)'
  PROVE  ReadLedger(i)'
<1>1. Cmd(i)' = Cmd(i)
  BY SameCmd
<1> QED BY <1>1 DEF ReadLedger

LEMMA FetchedParts ==
  ASSUME NEW i, NEW s, NEW m, NEW a
  PROVE  Fetched(i, s, m, a) <=>
           /\ SourceAt(i, s)
           /\ Window(inputs[Port(i)], IndexOf(i), m, s)
           /\ Window(memory["MteRead"], IndexOf(i), a, m)
BY DEF Fetched, SourceAt

\* A source sends a request to the L1 interface.
LEMMA InputLedger ==
  ASSUME Inv, LedgerInv, Same, SourcePlaced', NEW p \in InputPorts, NEW r \in ReadsAt(p),
         inputs' = [inputs EXCEPT ![p] = Append(@, r)],
         UNCHANGED <<issued, completed, memory, acknowledged, offset, retiring, writes,
                     acks, written>>,
         \A i \in Ids, s \in Nat :
           RequestCount(Cmd(i)) # 0 /\ SourceAt(i, s) =>
             IndexOf(i)[r] \in {0, s + 1} /\ SourceAt(i, s + Unit(IndexOf(i)[r]))'
  PROVE  LedgerInv'
<1>1. EngineType /\ r \in Entries /\ Cmd(r.id).op \notin Fills
  BY DEF Inv, TypeOK, ReadsAt, PathReads
<1>2. /\ InputsPlaced'
      /\ \A i \in Ids, m \in Nat, s \in Nat :
           /\ IndexOf(i)[r] \in {0, s + 1}
           /\ Window(inputs[Port(i)], IndexOf(i), m, s)
           => Window(inputs[Port(i)], IndexOf(i), m, s + Unit(IndexOf(i)[r]))'
  BY InputAppend DEF LedgerInv, Placed
<1>3. ASSUME NEW i \in Ids, RequestCount(Cmd(i)) # 0, Cmd(i).op \in Fills, FillLedger(i)
      PROVE  FillLedger(i)'
  <2>1. PICK s \in Nat : SourceAt(i, s) /\ Delivery(i, s)
    BY <1>1, <1>3, FillSource
  <2>2. IndexOf(i)[r] = 0
    BY <1>1, <1>3, EntryFacts
  <2>3. s + Unit(IndexOf(i)[r]) = s
    BY <2>2 DEF Unit
  <2>4. SourceAt(i, s)'
    <3>1. PICK u \in Nat : u = s + Unit(IndexOf(i)[r])
      BY <2>3
    <3>2. SourceAt(i, s + Unit(IndexOf(i)[r]))'
      BY <1>3, <2>1
    <3>3. IndexOf(i)' = IndexOf(i)
      BY SameNumbers
    <3> QED BY <2>3, <3>2, <3>3
  <2>5. Delivery(i, s)'
    BY <2>1, DeliverySame
  <2> QED BY <1>1, <1>3, <2>4, <2>5, FillSource
<1>4. ASSUME NEW i \in Ids, RequestCount(Cmd(i)) # 0, Cmd(i).op \notin Fills, ReadLedger(i)
      PROVE  ReadLedger(i)'
  <2>1. PICK s \in Nat, m \in Nat, a \in Nat, z \in Nat :
          /\ Fetched(i, s, m, a)
          /\ Window(acknowledged, BlockOf(i), z, Done(Cmd(i), a))
          /\ Stored(i, z, z * PlanLength(Cmd(i)) + Offset(i))
    BY <1>4 DEF ReadLedger
  <2>2. PICK n : n = z * PlanLength(Cmd(i)) + Offset(i)
    OBVIOUS
  <2>3. PICK d : d = Done(Cmd(i), a)
    OBVIOUS
  <2>4. PICK N : N = IndexOf(i)
    OBVIOUS
  <2>5. N[r] \in {0, s + 1} /\ SourceAt(i, s + Unit(N[r]))'
    <3>1. IndexOf(i)' = IndexOf(i)
      BY SameNumbers
    <3> QED BY <1>4, <2>1, <2>4, <3>1, FetchedParts
  <2>6. s + Unit(N[r]) \in Nat
    BY <2>5, UnitNat
  <2>7. /\ Window(inputs[Port(i)], IndexOf(i), m, s + Unit(N[r]))'
        /\ Window(memory["MteRead"], IndexOf(i), a, m)'
    <3>1. IndexOf(i)' = IndexOf(i)
      BY SameNumbers
    <3> QED BY <1>2, <2>1, <2>4, <2>5, <3>1, FetchedParts
  <2>8. Fetched(i, s + Unit(N[r]), m, a)'
    BY <2>5, <2>7 DEF Fetched, SourceAt
  <2>9. Offset(i)' = Offset(i) /\ BlockOf(i)' = BlockOf(i)
    BY OffsetSame, SameNumbers
  <2>10. Stored(i, z, n)' /\ Window(acknowledged, BlockOf(i), z, d)'
    BY <2>1, <2>2, <2>3, <2>9, StoredSame
  <2> QED BY <2>2, <2>3, <2>6, <2>8, <2>9, <2>10, ReadNext
<1>5. \A i \in Ids : Ledger(i)'
  BY <1>3, <1>4, LedgerStep DEF LedgerInv
<1>6. Placed' /\ OffsetHolds' /\ CompletedExactly'
  BY <1>2, OutputsPlacedSame, WritesPlacedSame, RetiringPlacedSame, OffsetHoldsSame,
     CompletedSame DEF LedgerInv, Placed
<1> QED BY <1>5, <1>6, SameCmd DEF LedgerInv

\* A source sends a fragment to L0.
LEMMA PieceLedger ==
  ASSUME Inv, LedgerInv, Same, SourcePlaced', NEW t \in Targets, NEW p \in WritePorts,
         NEW r \in Entries, Cmd(r.id).op \in Fills, NEW f \in WritesAt(t, p),
         f = [id |-> r.id, index |-> r.index, part |-> 1], PushWrite(t, p, f),
         UNCHANGED <<issued, completed, inputs, memory, acknowledged, offset, retiring,
                     acks, written>>,
         \A i \in Ids, s \in Nat :
           RequestCount(Cmd(i)) # 0 /\ SourceAt(i, s) =>
             IndexOf(i)[r] \in {0, s + 1} /\ SourceAt(i, s + Unit(IndexOf(i)[r]))'
  PROVE  LedgerInv'
<1>1. EngineType /\ f \in Pieces
  BY DEF Inv, TypeOK, WritesAt
<1>2. /\ WritesPlaced'
      /\ \A i \in Ids, n \in Nat :
           /\ PlaceOf(i)[f] \in {0, n + 1} /\ Cmd(i).to \in Targets /\ Delivery(i, n)
           => Delivery(i, n + Unit(PlaceOf(i)[f]))'
  BY PieceAppend DEF LedgerInv, Placed
<1>3. \A i \in Ids : PlaceOf(i)[f] = IndexOf(i)[r]
  <2>1. Place(f) = r.index
    BY DEF Place
  <2> QED BY <1>1, <2>1, PieceFacts, EntryFacts
<1>4. ASSUME NEW i \in Ids
      PROVE  IndexOf(i)' = IndexOf(i) /\ PlaceOf(i)' = PlaceOf(i) /\ BlockOf(i)' = BlockOf(i)
             /\ Port(i)' = Port(i) /\ Cmd(i)' = Cmd(i) /\ UopOf(i)' = UopOf(i)
             /\ Offset(i)' = Offset(i)
  BY SameNumbers, SameEntries, SameCmd, OffsetSame
<1>5. ASSUME NEW i \in Ids, RequestCount(Cmd(i)) # 0, Cmd(i).op \in Fills, FillLedger(i)
      PROVE  FillLedger(i)'
  <2>1. PICK s \in Nat : SourceAt(i, s) /\ Delivery(i, s)
    BY <1>1, <1>5, FillSource
  <2>2. PICK x : x = IndexOf(i)[r]
    OBVIOUS
  <2>3. x \in {0, s + 1} /\ SourceAt(i, s + Unit(x))'
    BY <1>4, <1>5, <2>1, <2>2
  <2>4. s + Unit(x) \in Nat
    BY <2>3, UnitNat
  <2>5. Delivery(i, s + Unit(x))'
    <3>1. Cmd(i).to \in Targets
      BY <1>1, <1>5, FillSource
    <3> QED BY <1>2, <1>3, <1>4, <2>1, <2>2, <2>3, <3>1
  <2> QED BY <1>1, <1>5, <2>3, <2>4, <2>5, FillSource
<1>6. ASSUME NEW i \in Ids, RequestCount(Cmd(i)) # 0, Cmd(i).op \notin Fills, ReadLedger(i)
      PROVE  ReadLedger(i)'
  <2>1. PICK s \in Nat, m \in Nat, a \in Nat, z \in Nat :
          /\ Fetched(i, s, m, a)
          /\ Window(acknowledged, BlockOf(i), z, Done(Cmd(i), a))
          /\ Stored(i, z, z * PlanLength(Cmd(i)) + Offset(i))
    BY <1>6 DEF ReadLedger
  <2>2. PICK n : n = z * PlanLength(Cmd(i)) + Offset(i)
    OBVIOUS
  <2>3. PICK d : d = Done(Cmd(i), a)
    OBVIOUS
  <2>4. IndexOf(i)[r] = 0
    BY <1>1, <1>6, EntryFacts
  <2>5. SourceAt(i, s)'
    <3>1. SourceAt(i, s + Unit(IndexOf(i)[r]))'
      BY <1>6, <2>1, FetchedParts
    <3>2. s + Unit(IndexOf(i)[r]) = s
      BY <2>4 DEF Unit
    <3> QED BY <1>4, <3>1, <3>2
  <2>6. Fetched(i, s, m, a)'
    BY <1>4, <2>1, <2>5 DEF Fetched, SourceAt
  <2>7. n \in Nat
    <3>1. Reading(Cmd(i))
      BY <1>1, <1>6, ReadingCmd
    <3>2. n \in 0..Outputs(Cmd(i))
      BY <2>1, <2>2, <3>1, SentBound DEF LedgerInv
    <3> QED BY <3>2, <1>1, CountNat
  <2>8. Cmd(i).to \in Targets => Delivery(i, n)'
    <3>1. PlaceOf(i)[f] = 0 /\ n + Unit(PlaceOf(i)[f]) = n
      BY <1>3, <2>4, <2>7 DEF Unit
    <3>2. Cmd(i).to \in Targets => Delivery(i, n)
      BY <2>1, <2>2 DEF Stored
    <3>3. Cmd(i).to \in Targets => Delivery(i, n + Unit(PlaceOf(i)[f]))'
      BY <1>2, <2>7, <3>1, <3>2
    <3> QED BY <1>4, <3>1, <3>3
  <2>9. Stored(i, z, n)'
    BY <1>4, <2>1, <2>2, <2>8 DEF Stored
  <2>10. Window(acknowledged, BlockOf(i), z, d)'
    BY <1>4, <2>1, <2>3
  <2> QED BY <1>4, <2>2, <2>3, <2>6, <2>9, <2>10, ReadNext
<1>7. \A i \in Ids : Ledger(i)'
  BY <1>5, <1>6, LedgerStep DEF LedgerInv
<1>8. Placed' /\ OffsetHolds' /\ CompletedExactly'
  BY <1>2, InputsPlacedSame, OutputsPlacedSame, RetiringPlacedSame, OffsetHoldsSame,
     CompletedSame DEF LedgerInv, Placed
<1> QED BY <1>7, <1>8, SameCmd DEF LedgerInv

LEMMA SendReadLedger ==
  ASSUME Inv, LedgerInv, NEW g \in Generators \ {"Set2d"}, SendRead(g)
  PROVE  LedgerInv'
<1>1. /\ Same /\ generated[g] # <<>>
      /\ generated' = [generated EXCEPT ![g] = Tail(@)]
      /\ inputs' = [inputs EXCEPT ![0] = Append(@, Head(generated[g]))]
      /\ UNCHANGED <<issued, completed, generation, pushed, memory, acknowledged, offset,
                     retiring, writes, acks, written>>
  BY DEF SendRead, Same, engine, output, l0
<1>2. PICK r : r = Head(generated[g])
  OBVIOUS
<1>3. /\ SourcePlaced' /\ r \in MadeBy(g)
      /\ \A i \in Ids, s \in Nat :
           RequestCount(Cmd(i)) # 0 /\ SourceAt(i, s) =>
             IndexOf(i)[r] \in {0, s + 1} /\ SourceAt(i, s + Unit(IndexOf(i)[r]))'
  BY <1>1, <1>2, SourceTail
<1>4. EngineType /\ r \in Entries /\ r.id <= Len(program) /\ GeneratorOf(Cmd(r.id)) = g
  BY <1>3 DEF MadeBy, Inv, TypeOK
<1>5. r.id \in Ids /\ RequestCount(Cmd(r.id)) # 0
  BY <1>4, EntryFacts
<1>6. Cmd(r.id).op \notin Fills
  BY <1>4, <1>5, OwnOps
<1>7. Reading(Cmd(r.id)) /\ Port(r.id) = 0 /\ 0 \in InputPorts
  BY <1>4, <1>5, <1>6, ReadingCmd DEF Port, InputPorts
<1>8. r \in ReadsAt(0)
  BY <1>4, <1>7 DEF ReadsAt, PathReads, Reading
<1> QED BY <1>1, <1>2, <1>3, <1>7, <1>8, InputLedger

LEMMA SendFillLedger ==
  ASSUME Inv, LedgerInv, SendFill
  PROVE  LedgerInv'
<1> DEFINE r0 == Head(generated["Set2d"])
           f0 == [id |-> r0.id, index |-> r0.index, part |-> 1]
<1>1. /\ Same /\ generated["Set2d"] # <<>>
      /\ generated' = [generated EXCEPT !["Set2d"] = Tail(@)]
      /\ PushWrite(Cmd(r0.id).to, 1, f0)
      /\ UNCHANGED <<issued, completed, generation, pushed, inputs, memory, acknowledged,
                     offset, retiring, acks, written>>
  BY DEF SendFill, Same, engine, output, reader
<1>2. PICK r : r = r0
  OBVIOUS
<1>3. PICK f : f = [id |-> r.id, index |-> r.index, part |-> 1]
  OBVIOUS
<1>4. /\ SourcePlaced' /\ r \in MadeBy("Set2d")
      /\ \A i \in Ids, s \in Nat :
           RequestCount(Cmd(i)) # 0 /\ SourceAt(i, s) =>
             IndexOf(i)[r] \in {0, s + 1} /\ SourceAt(i, s + Unit(IndexOf(i)[r]))'
  <2>1. "Set2d" \in Generators
    BY DEF Generators
  <2> QED BY <1>1, <1>2, <2>1, SourceTail
<1>5. EngineType /\ r \in Entries /\ r.id <= Len(program) /\ GeneratorOf(Cmd(r.id)) = "Set2d"
  BY <1>4 DEF MadeBy, Inv, TypeOK
<1>6. r.id \in Ids /\ RequestCount(Cmd(r.id)) # 0 /\ r.index \in 1..RequestCount(Cmd(r.id))
      /\ r.index \in Nat \ {0}
  BY <1>5, EntryFacts
<1>7. Cmd(r.id).op \in Fills /\ Cmd(r.id).op \notin Foreign /\ Routed(Cmd(r.id))
  BY <1>5, <1>6, OwnOps, RoutedCmd
<1>8. PICK t \in Targets : t = Cmd(r.id).to
  BY <1>7, FillCounts
<1>9. f \in WritesAt(t, 1) /\ 1 \in WritePorts
  <2>1. RequestCount(Cmd(r.id)) \in Nat
    BY <1>5, <1>6, CountNat
  <2>2. /\ f.id = r.id /\ f.index = r.index /\ f.part = 1
        /\ f \in [id : Ids, index : Nat \ {0}, part : Nat \ {0}]
    BY <1>3, <1>6
  <2>3. f \in Pieces
    BY <1>6, <1>7, <2>1, <2>2 DEF Pieces
  <2>4. WritePortOf(f.id) = 1
    BY <1>7, <2>2 DEF WritePortOf, Fills, Foreign
  <2> QED BY <1>8, <2>2, <2>3, <2>4 DEF WritesAt, WritePorts
<1>10. PushWrite(t, 1, f)
  BY <1>1, <1>2, <1>3, <1>8
<1> QED BY <1>1, <1>3, <1>4, <1>5, <1>7, <1>9, <1>10, PieceLedger

LEMMA PushOtherLedger ==
  ASSUME Inv, LedgerInv, NEW o \in 1..Len(others), PushOther(o)
  PROVE  LedgerInv'
<1> DEFINE c == others[o]
           j == Len(program) + o
           k == pushed[o] + 1
           p == InputPort(c.op)
           f0 == [id |-> j, index |-> k, part |-> 1]
           r0 == [id |-> j, index |-> k]
<1>1. /\ Same /\ k <= RequestCount(c) /\ pushed' = [pushed EXCEPT ![o] = k]
      /\ UNCHANGED <<issued, completed, generation, generated, memory, acknowledged,
                     offset, retiring, acks, written>>
  BY DEF PushOther, Same, engine, producers, output
<1>2. /\ c.op = "ExternalLoad2d" => PushWrite(c.to, 2, f0) /\ UNCHANGED inputs
      /\ c.op # "ExternalLoad2d" =>
           UNCHANGED writes /\ inputs' = [inputs EXCEPT ![p] = Append(@, r0)]
  BY DEF PushOther
<1>3. /\ EngineType /\ Len(program) \in Nat /\ Len(others) \in Nat
      /\ pushed \in [1..Len(others) -> Nat] /\ SourcePlaced
  BY ProgramType DEF Inv, TypeOK, EngineType, LedgerInv, Placed
<1>4. j \in Ids /\ j > Len(program) /\ Cmd(j) = c /\ k \in Nat \ {0} /\ ~(j <= Len(program))
  BY <1>3 DEF Ids, Cmd
<1>5. c.op \in Foreign /\ RequestCount(c) \in Nat /\ RequestCount(c) # 0
  BY <1>1, <1>3, <1>4, OwnOps, CountNat
<1>6. PICK r : r = r0
  OBVIOUS
<1>7. r.id = j /\ r.index = k /\ r \in Entries
  BY <1>1, <1>4, <1>6 DEF Entries
<1>8. SourcePlaced'
  <2>1. \A n \in 1..Len(others) : pushed'[n] = IF n = o THEN k ELSE pushed[n]
    BY <1>1, <1>3
  <2>2. \A n \in 1..Len(others) : pushed'[n] <= RequestCount(others[n])
    BY <1>1, <1>3, <2>1 DEF SourcePlaced
  <2> QED BY <1>1, <1>3, <2>2, SameCmd, SameEntries DEF SourcePlaced, Same
<1>9. ASSUME NEW i \in Ids, NEW s \in Nat, RequestCount(Cmd(i)) # 0, SourceAt(i, s)
      PROVE  IndexOf(i)[r] \in {0, s + 1} /\ SourceAt(i, s + Unit(IndexOf(i)[r]))'
  <2>1. IndexOf(i)[r] = IF j = i THEN k ELSE 0
    BY <1>3, <1>7, EntryFacts
  <2>2. /\ Cmd(i)' = Cmd(i) /\ Len(program)' = Len(program) /\ IndexOf(i)' = IndexOf(i)
        /\ i \in Nat
    BY <1>1, <1>3, SameCmd, SameNumbers, OwnOps
  <2>3. CASE i <= Len(program)
    <3>1. Made(i)' = Made(i)
      BY <1>1, <2>2, <2>3, <1>3 DEF Made
    <3>2. IndexOf(i)[r] = 0 /\ s + Unit(IndexOf(i)[r]) = s
      BY <1>3, <1>4, <2>1, <2>2, <2>3 DEF Unit
    <3> QED BY <1>1, <1>9, <2>2, <3>1, <3>2 DEF SourceAt
  <2>4. CASE ~(i <= Len(program))
    <3>1. Made(i) = pushed[i - Len(program)] /\ Made(i)' = pushed'[i - Len(program)]
      BY <1>3, <2>2, <2>4 DEF Made
    <3>2. s = Made(i)
      BY <1>9, <2>4 DEF SourceAt
    <3>3. CASE i = j
      <4>1. i - Len(program) = o
        BY <1>3, <3>3
      <4>2. Made(i) = pushed[o] /\ Made(i)' = k
        BY <1>1, <1>3, <3>1, <4>1
      <4>3. IndexOf(i)[r] = k /\ Unit(k) = 1 /\ s + 1 = k
        BY <1>4, <2>1, <3>2, <3>3, <4>2 DEF Unit
      <4> QED BY <2>2, <2>4, <4>2, <4>3 DEF SourceAt
    <3>4. CASE i # j
      <4>1. i - Len(program) \in 1..Len(others) /\ i - Len(program) # o
        BY <1>3, <2>2, <2>4, <3>4, OwnOps
      <4>2. Made(i)' = Made(i)
        BY <1>1, <1>3, <3>1, <4>1
      <4>3. IndexOf(i)[r] = 0 /\ s + Unit(IndexOf(i)[r]) = s
        BY <2>1, <3>4 DEF Unit
      <4> QED BY <2>2, <2>4, <3>2, <4>2, <4>3 DEF SourceAt
    <3> QED BY <3>3, <3>4
  <2> QED BY <2>3, <2>4
<1> HIDE DEF j, k, c
<1>10. CASE c.op = "ExternalLoad2d"
  <2>1. Cmd(r.id).op \in Fills /\ Routed(Cmd(r.id))
    BY <1>3, <1>4, <1>7, <1>10, RoutedCmd DEF Fills
  <2>2. PICK t \in Targets : t = c.to
    BY <1>4, <1>7, <2>1, FillCounts
  <2>3. PICK f : f = f0
    OBVIOUS
  <2>4. f \in WritesAt(t, 2) /\ 2 \in WritePorts
    <3>1. f.id = j /\ f.index = k /\ f.part = 1 /\ f \in [id : Ids, index : Nat \ {0}, part : Nat \ {0}]
      BY <1>4, <2>3
    <3>2. f \in Pieces
      BY <1>1, <1>4, <1>7, <2>1, <3>1 DEF Pieces
    <3>3. WritePortOf(f.id) = 2
      BY <1>4, <1>10, <3>1 DEF WritePortOf
    <3> QED BY <1>4, <2>2, <3>1, <3>2, <3>3 DEF WritesAt, WritePorts
  <2>5. PushWrite(t, 2, f) /\ UNCHANGED inputs /\ f = [id |-> r.id, index |-> r.index, part |-> 1]
    BY <1>2, <1>7, <1>10, <2>2, <2>3
  <2> QED BY <1>1, <1>7, <1>8, <1>9, <2>1, <2>4, <2>5, PieceLedger
<1>11. CASE c.op # "ExternalLoad2d"
  <2>1. c.op \notin Fills \cup Controls
    BY <1>5, <1>11 DEF Fills, Controls, Foreign
  <2>2. Port(r.id) = p /\ p \in InputPorts
    <3>1. Port(j) = InputPort(Cmd(j).op) /\ Port(j) \in InputPorts
      BY <1>4, PortType DEF Port
    <3> QED BY <1>4, <1>7, <3>1
  <2>3. r \in ReadsAt(p)
    BY <1>4, <1>7, <2>1, <2>2 DEF ReadsAt, PathReads
  <2>4. PICK p0 \in InputPorts : p0 = p
    BY <2>2
  <2>5. inputs' = [inputs EXCEPT ![p0] = Append(@, r)] /\ UNCHANGED writes /\ r \in ReadsAt(p0)
    BY <1>2, <1>6, <1>11, <2>3, <2>4
  <2> QED BY <1>1, <1>8, <1>9, <2>5, InputLedger
<1> QED BY <1>10, <1>11

-----------------------------------------------------------------------------
(* The ledger under a step: the L1 interface *)

\* The oldest request of an input goes to L1.
LEMMA SendRequestLedger ==
  ASSUME Inv, LedgerInv, SendRequest
  PROVE  LedgerInv'
<1>1. PICK p \in InputPorts : p = SelectedPort
  BY SelectedHead DEF SendRequest
<1>2. PICK r : r = Head(inputs[p])
  OBVIOUS
<1> DEFINE q == inputs[p]
           M == memory["MteRead"]
<1>3. /\ Same /\ inputs' = [inputs EXCEPT ![p] = Tail(q)]
      /\ memory' = [memory EXCEPT !["MteRead"] = Append(M, r)]
      /\ UNCHANGED <<issued, completed, generation, generated, pushed, acknowledged,
                     offset, retiring, writes, acks, written>>
  BY <1>1, <1>2 DEF SendRequest, L1!Take, Same, engine, producers, output, l0
<1>4. /\ EngineType /\ inputs \in [InputPorts -> Seq(Reqs)] /\ q # <<>>
      /\ memory \in [{"MteRead"} -> Seq(Reqs)]
  BY <1>1, SelectedHead DEF Inv, TypeOK, ReaderType, SendRequest
<1>5. q \in Seq(ReadsAt(p)) /\ M \in Seq(PathReads)
  BY DEF LedgerInv, Placed, InputsPlaced, OutputsPlaced
<1>6. r \in ReadsAt(p) /\ Tail(q) \in Seq(ReadsAt(p))
  BY <1>2, <1>4, <1>5, TailIn
<1>7. r \in PathReads /\ r \in Entries /\ Port(r.id) = p
  BY <1>6 DEF ReadsAt, PathReads
<1>8. /\ \A x \in InputPorts : inputs'[x] = IF x = p THEN Tail(q) ELSE inputs[x]
      /\ memory'["MteRead"] = Append(M, r)
  BY <1>3, <1>4
<1>9. InputsPlaced' /\ OutputsPlaced'
  <2>1. Append(M, r) \in Seq(PathReads)
    BY <1>5, <1>7, AppendIn
  <2>2. InputsPlaced'
    BY <1>3, <1>6, <1>8, SameEntries DEF InputsPlaced, LedgerInv, Placed
  <2>3. OutputsPlaced'
    BY <1>3, <1>8, <2>1, SameEntries DEF OutputsPlaced, LedgerInv, Placed
  <2> QED BY <2>2, <2>3
<1>10. ASSUME NEW i \in Ids, RequestCount(Cmd(i)) # 0, Cmd(i).op \notin Fills, ReadLedger(i)
       PROVE  ReadLedger(i)'
  <2>1. PICK s \in Nat, m \in Nat, a \in Nat, z \in Nat :
          /\ Fetched(i, s, m, a)
          /\ Window(acknowledged, BlockOf(i), z, Done(Cmd(i), a))
          /\ Stored(i, z, z * PlanLength(Cmd(i)) + Offset(i))
    BY <1>10 DEF ReadLedger
  <2>2. PICK n : n = z * PlanLength(Cmd(i)) + Offset(i)
    OBVIOUS
  <2>3. PICK d : d = Done(Cmd(i), a)
    OBVIOUS
  <2>4. PICK N : N = IndexOf(i)
    OBVIOUS
  <2>5. N[r] = IF r.id = i THEN r.index ELSE 0
    BY <1>4, <1>7, <2>4, EntryFacts
  <2>6. /\ Window(inputs[Port(i)], N, m, s) /\ Window(M, N, a, m) /\ Port(i) \in InputPorts
    BY <2>1, <2>4, PortType DEF Fetched
  <2>7. N[r] \in {0, m + 1} /\ Window(inputs'[Port(i)], N, m + Unit(N[r]), s)
    <3>1. CASE Port(i) # p
      <4>1. N[r] = 0 /\ inputs'[Port(i)] = inputs[Port(i)] /\ m + Unit(N[r]) = m
        BY <1>7, <1>8, <2>5, <2>6, <3>1 DEF Unit
      <4> QED BY <2>6, <4>1
    <3>2. CASE Port(i) = p
      <4>1. Window(q, N, m, s)
        BY <2>6, <3>2
      <4>2. inputs'[Port(i)] = Tail(q)
        BY <1>8, <3>2
      <4>3. N[Head(q)] \in {0, m + 1} /\ Window(Tail(q), N, m + Unit(N[Head(q)]), s)
        <5> HIDE DEF q
        <5> QED BY <1>4, <1>5, <4>1, WindowTail
      <4> QED BY <1>2, <4>2, <4>3
    <3> QED BY <3>1, <3>2
  <2>8. m + Unit(N[r]) \in Nat
    BY <2>7, UnitNat
  <2>9. Window(memory'["MteRead"], N, a, m + Unit(N[r]))
    <3> HIDE DEF M
    <3> QED BY <1>5, <1>7, <1>8, <2>6, <2>7, WindowAppend
  <2>10. /\ IndexOf(i)' = N /\ Port(i)' = Port(i) /\ Cmd(i)' = Cmd(i)
         /\ Len(program)' = Len(program) /\ Made(i)' = Made(i)
         /\ Offset(i)' = Offset(i) /\ BlockOf(i)' = BlockOf(i)
    BY <1>3, <2>4, SameNumbers, SameEntries, SameCmd, MadeSame, OffsetSame
  <2>11. Fetched(i, s, m + Unit(N[r]), a)'
    BY <1>3, <2>1, <2>4, <2>7, <2>9, <2>10 DEF Fetched
  <2>12. Stored(i, z, n)' /\ Window(acknowledged, BlockOf(i), z, d)'
    BY <1>3, <2>1, <2>2, <2>3, <2>10, StoredSame
  <2> QED BY <1>3, <2>2, <2>3, <2>8, <2>10, <2>11, <2>12, ReadNext
<1>11. ASSUME NEW i \in Ids
       PROVE  Ledger(i)'
  <2>1. FillLedger(i) => FillLedger(i)'
    BY <1>3, MadeSame, FillSame
  <2> QED BY <1>3, <1>10, <2>1, LedgerStep DEF LedgerInv
<1>12. Placed' /\ OffsetHolds' /\ CompletedExactly'
  BY <1>3, <1>9, SourcePlacedSame, WritesPlacedSame, RetiringPlacedSame,
     OffsetHoldsSame, CompletedSame DEF LedgerInv, Placed
<1> QED BY <1>3, <1>11, <1>12, SameCmd DEF LedgerInv

\* L1 answers the oldest request; one that completes an output is kept.
LEMMA ReceiveResponseLedger ==
  ASSUME Inv, LedgerInv, ReceiveResponse
  PROVE  LedgerInv'
<1> DEFINE M == memory["MteRead"]
<1>1. PICK r : r = Head(M)
  OBVIOUS
<1>2. /\ Same /\ M # <<>> /\ memory' = [memory EXCEPT !["MteRead"] = Tail(M)]
      /\ acknowledged' = IF Request(r).completes THEN Append(acknowledged, r) ELSE acknowledged
      /\ UNCHANGED <<issued, completed, generation, generated, pushed, inputs,
                     offset, retiring, writes, acks, written>>
  BY <1>1 DEF ReceiveResponse, L1!Answer, Same, engine, producers, reader, l0
<1>3. EngineType /\ memory \in [{"MteRead"} -> Seq(Reqs)]
  BY DEF Inv, TypeOK, ReaderType
<1>4. M \in Seq(PathReads) /\ acknowledged \in Seq(OutputReads)
  BY DEF LedgerInv, Placed, OutputsPlaced
<1>5. r \in PathReads /\ Tail(M) \in Seq(PathReads)
  BY <1>1, <1>2, <1>4, TailIn
<1>6. /\ r \in Entries /\ Reading(Cmd(r.id))
      /\ Request(r).completes <=> (r.index + Lead(Cmd(r.id))) % Period(Cmd(r.id)) = 0
  BY <1>3, <1>5, ReadFacts
<1>7. memory'["MteRead"] = Tail(M)
  BY <1>2, <1>3
<1>8. Request(r).completes => r \in OutputReads
  BY <1>5 DEF OutputReads
<1>9. OutputsPlaced'
  <2>1. acknowledged' \in Seq(OutputReads)
    BY <1>2, <1>4, <1>8, AppendIn
  <2> QED BY <1>2, <1>5, <1>7, <2>1, SameEntries DEF OutputsPlaced
<1>10. OffsetHolds' /\ \A i \in Ids : Offset(i)' = Offset(i)
  <2>1. CASE ~Request(r).completes
    BY <1>2, <2>1, OffsetHoldsSame, OffsetSame DEF LedgerInv
  <2>2. CASE Request(r).completes /\ acknowledged = <<>>
    <3>1. acknowledged' = <<r>> /\ offset = 0 /\ offset' = 0
      BY <1>2, <2>2 DEF LedgerInv, OffsetHolds
    <3>2. acknowledged' # <<>> /\ Head(acknowledged') = r
      BY <3>1
    <3>3. PlanLength(Cmd(r.id)) \in Nat \ {0}
      BY <1>6, ReadCounts
    <3>4. OffsetHolds'
      BY <1>2, <3>1, <3>2, <3>3, SameCmd DEF OffsetHolds
    <3> QED BY <2>2, <3>1, <3>4 DEF Offset
  <2>3. CASE Request(r).completes /\ acknowledged # <<>>
    <3>1. acknowledged' # <<>> /\ Head(acknowledged') = Head(acknowledged)
      BY <1>2, <1>4, <2>3
    <3>2. OffsetHolds'
      BY <1>2, <2>3, <3>1, SameCmd DEF OffsetHolds, LedgerInv
    <3> QED BY <1>2, <2>3, <3>1, <3>2 DEF Offset
  <2> QED BY <2>1, <2>2, <2>3
<1>11. ASSUME NEW i \in Ids, RequestCount(Cmd(i)) # 0, Cmd(i).op \notin Fills, ReadLedger(i)
       PROVE  ReadLedger(i)'
  <2>1. PICK s \in Nat, m \in Nat, a \in Nat, z \in Nat :
          /\ Fetched(i, s, m, a)
          /\ Window(acknowledged, BlockOf(i), z, Done(Cmd(i), a))
          /\ Stored(i, z, z * PlanLength(Cmd(i)) + Offset(i))
    BY <1>11 DEF ReadLedger
  <2>2. PICK n : n = z * PlanLength(Cmd(i)) + Offset(i)
    OBVIOUS
  <2>3. PICK N : N = IndexOf(i)
    OBVIOUS
  <2>4. PICK c : c = Cmd(i)
    OBVIOUS
  <2>5. Reading(c)
    BY <1>3, <1>11, <2>4, ReadingCmd
  <2>6. N[r] = IF r.id = i THEN r.index ELSE 0
    BY <1>3, <1>6, <2>3, EntryFacts
  <2>7. N[r] \in {0, a + 1} /\ Window(Tail(M), N, a + Unit(N[r]), m)
    <3>1. Window(M, N, a, m)
      BY <2>1, <2>3 DEF Fetched
    <3> HIDE DEF M
    <3> QED BY <1>1, <1>2, <1>4, <3>1, WindowTail
  <2> DEFINE b == a + Unit(N[r])
  <2>8. b \in Nat
    BY <2>7, UnitNat
  <2>9. PICK V : V = BlockOf(i)
    OBVIOUS
  <2>10. Window(acknowledged', V, z, Done(c, b))
    <3>1. Window(acknowledged, V, z, Done(c, a)) /\ Done(c, a) \in Nat
      BY <2>1, <2>4, <2>5, <2>9, DoneNext
    <3>2. CASE r.id # i
      <4>1. b = a
        BY <2>6, <3>2 DEF Unit
      <4>2. CASE ~Request(r).completes
        BY <1>2, <3>1, <4>1, <4>2
      <4>3. CASE Request(r).completes
        <5>1. V[r] = 0 /\ r \in OutputReads
          BY <1>3, <1>8, <2>9, <3>2, <4>3, OutputFacts
        <5> DEFINE D == Done(c, a)
        <5>2. D + Unit(V[r]) = D
          BY <3>1, <5>1 DEF Unit
        <5>3. Window(Append(acknowledged, r), V, z, D + Unit(V[r]))
          <6>1. D \in Nat /\ Window(acknowledged, V, z, D)
            BY <3>1
          <6> HIDE DEF D
          <6> QED BY <1>4, <5>1, <6>1, WindowAppend
        <5> QED BY <1>2, <4>1, <4>3, <5>2, <5>3
      <4> QED BY <4>2, <4>3
    <3>3. CASE r.id = i
      <4>1. r.index = a + 1 /\ b = a + 1
        <5>1. r.index \in Nat \ {0}
          BY <1>3, <1>6, EntryFacts
        <5> QED BY <2>6, <2>7, <3>3, <5>1 DEF Unit
      <4>2. Request(r).completes <=> (a + 1 + Lead(c)) % Period(c) = 0
        BY <1>6, <2>4, <3>3, <4>1
      <4>3. Done(c, a + 1) = Done(c, a) + (IF (a + 1 + Lead(c)) % Period(c) = 0 THEN 1 ELSE 0)
        BY <2>5, DoneNext
      <4>4. CASE ~Request(r).completes
        BY <1>2, <3>1, <4>1, <4>2, <4>3, <4>4
      <4>5. CASE Request(r).completes
        <5> DEFINE D == Done(c, a)
        <5>1. Done(c, b) = D + 1 /\ D \in Nat
          BY <3>1, <4>1, <4>2, <4>3, <4>5
        <5>2. V[r] = D + 1 /\ r \in OutputReads
          BY <1>3, <1>8, <2>4, <2>9, <3>3, <4>1, <4>5, <5>1, OutputFacts
        <5>3. Window(Append(acknowledged, r), V, z, D + Unit(V[r]))
          <6>1. Window(acknowledged, V, z, D)
            BY <3>1
          <6> HIDE DEF D
          <6> QED BY <1>4, <5>1, <5>2, <6>1, WindowAppend
        <5>4. Unit(V[r]) = 1
          <6> HIDE DEF D
          <6> QED BY <5>1, <5>2 DEF Unit
        <5> QED BY <1>2, <4>5, <5>1, <5>3, <5>4
      <4> QED BY <4>4, <4>5
    <3> QED BY <3>2, <3>3
  <2>11. /\ IndexOf(i)' = N /\ Port(i)' = Port(i) /\ Cmd(i)' = c
         /\ Len(program)' = Len(program) /\ Made(i)' = Made(i)
         /\ Offset(i)' = Offset(i) /\ BlockOf(i)' = V
    BY <1>2, <1>10, <2>3, <2>4, <2>9, SameNumbers, SameEntries, SameCmd, MadeSame
  <2>12. Fetched(i, s, m, b)'
    BY <1>2, <1>7, <2>1, <2>3, <2>4, <2>7, <2>11 DEF Fetched
  <2>13. Stored(i, z, n)'
    BY <1>2, <2>1, <2>2, StoredSame
  <2>14. PICK b0, d : b0 = b /\ b0 \in Nat /\ d = Done(c, b)
    BY <2>8
  <2>15. Fetched(i, s, m, b0)' /\ Window(acknowledged, BlockOf(i), z, d)'
    BY <2>10, <2>11, <2>12, <2>14
  <2> QED BY <1>2, <2>2, <2>4, <2>11, <2>13, <2>14, <2>15, ReadNext
<1>12. ASSUME NEW i \in Ids
       PROVE  Ledger(i)'
  <2>1. FillLedger(i) => FillLedger(i)'
    BY <1>2, MadeSame, FillSame
  <2> QED BY <1>2, <1>11, <2>1, LedgerStep DEF LedgerInv
<1>13. Placed' /\ CompletedExactly'
  BY <1>2, <1>9, SourcePlacedSame, InputsPlacedSame, WritesPlacedSame, RetiringPlacedSame,
     CompletedSame DEF LedgerInv, Placed
<1> QED BY <1>2, <1>10, <1>12, <1>13, SameCmd DEF LedgerInv

-----------------------------------------------------------------------------
(* The ledger under a step: fragments leave and arrive *)

\* The marker on a fragment agrees with the count of those that have arrived.
LEMMA ArriveCompleted ==
  ASSUME EngineType, CompletedExactly, Same, UNCHANGED issued,
         NEW f, f.id \in Ids, Arrive(f.id), Complete(f),
         LastInInstruction(f) <=> written[f.id] + 1 = Outputs(Cmd(f.id)),
         written[f.id] # Outputs(Cmd(f.id))
  PROVE  CompletedExactly'
<1>1. Started' = Started /\ \A i : Cmd(i)' = Cmd(i)
  BY SameCmd DEF Started
<1>2. /\ written'[f.id] = written[f.id] + 1
      /\ \A i \in Ids : i # f.id => written'[i] = written[i]
  BY DEF Arrive, EngineType
<1>3. completed' = IF LastInInstruction(f) THEN completed \cup {f.id} ELSE completed
  BY DEF Complete
<1>4. Started \subseteq Ids
  <2>1. issued <= Len(program) /\ issued \in Nat /\ Len(program) \in Nat /\ Len(others) \in Nat
    BY ProgramType DEF EngineType
  <2> QED BY <2>1 DEF Started, Ids
<1> SUFFICES ASSUME NEW i \in Started
             PROVE  i \in completed' <=> written'[i] = Outputs(Cmd(i))
  BY <1>1 DEF CompletedExactly
<1>5. i \in completed <=> written[i] = Outputs(Cmd(i))
  BY DEF CompletedExactly
<1>6. CASE i # f.id
  BY <1>2, <1>3, <1>4, <1>5, <1>6
<1>7. CASE i = f.id
  BY <1>2, <1>3, <1>5, <1>7
<1> QED BY <1>6, <1>7

\* What the output FIFO sends.
LEMMA OutputSent ==
  ASSUME Inv, LedgerInv, SendOutput, NEW r, r = Head(acknowledged),
         NEW f, f = [id |-> r.id, index |-> r.index, part |-> offset + 1]
  PROVE  /\ r \in OutputReads /\ Tail(acknowledged) \in Seq(OutputReads)
         /\ Reading(Cmd(r.id)) /\ r.id \in Ids /\ f \in Pieces
         /\ offset \in Nat /\ offset + 1 <= PlanLength(Cmd(r.id))
         /\ WritePortOf(r.id) = 0
         /\ offset + 1 = PlanLength(Cmd(r.id)) /\ Cmd(r.id).to \in Locals => f \in LastPieces
<1>1. /\ acknowledged # <<>> /\ acknowledged \in Seq(OutputReads) /\ EngineType
      /\ offset \in Nat /\ offset < PlanLength(Cmd(r.id))
  BY DEF SendOutput, LedgerInv, Placed, OutputsPlaced, OffsetHolds, Inv, TypeOK, OutputType
<1>2. r \in OutputReads /\ Tail(acknowledged) \in Seq(OutputReads)
  BY <1>1, TailIn
<1>3. r \in PathReads
  BY <1>2 DEF OutputReads
<1>4. r \in Entries /\ Reading(Cmd(r.id))
  BY <1>1, <1>3, ReadFacts
<1>5. /\ r.id \in Ids /\ r.index \in Nat \ {0} /\ r.index <= RequestCount(Cmd(r.id))
      /\ r = [id |-> r.id, index |-> r.index]
  BY <1>4 DEF Entries
<1>6. PlanLength(Cmd(r.id)) \in Nat \ {0}
  BY <1>4, ReadCounts
<1>7. offset + 1 <= PlanLength(Cmd(r.id)) /\ offset + 1 \in Nat \ {0}
  BY <1>1, <1>6
<1>8. Cmd(r.id).op \notin Fills /\ Cmd(r.id).op \notin Controls
  BY <1>4 DEF Reading
<1>9. f.id = r.id /\ f.index = r.index /\ f.part = offset + 1
      /\ f \in [id : Ids, index : Nat \ {0}, part : Nat \ {0}]
  BY <1>5, <1>7
<1>10. f \in Pieces
  BY <1>2, <1>5, <1>7, <1>8, <1>9 DEF Pieces
<1>11. WritePortOf(r.id) = 0
  BY <1>8 DEF WritePortOf, Fills
<1>12. offset + 1 = PlanLength(Cmd(r.id)) /\ Cmd(r.id).to \in Locals => f \in LastPieces
  BY <1>8, <1>9, <1>10 DEF LastPieces
<1> QED BY <1>1, <1>2, <1>4, <1>5, <1>7, <1>10, <1>11, <1>12

\* The fragment sent is the next one of its command.
LEMMA OutputPlace ==
  ASSUME Inv, LedgerInv, SendOutput, NEW r, r = Head(acknowledged),
         NEW f, f = [id |-> r.id, index |-> r.index, part |-> offset + 1],
         NEW c, NEW j, c = Cmd(j), j = r.id,
         NEW s \in Nat, NEW m \in Nat, NEW a \in Nat, NEW z \in Nat, Fetched(j, s, m, a),
         Window(acknowledged, BlockOf(j), z, Done(c, a)),
         NEW n, n = z * PlanLength(c) + Offset(j), Stored(j, z, n)
  PROVE  /\ n \in Nat /\ n + 1 <= Outputs(c) /\ Place(f) = n + 1
         /\ LastInInstruction(f) <=> n + 1 = Outputs(c)
         /\ n = z * PlanLength(c) + offset /\ written[j] \in 0..n
         /\ Done(c, r.index) = z + 1
         /\ Window(Tail(acknowledged), BlockOf(j), z + 1, Done(c, a))
<1> DEFINE d == Done(c, a)
           V == BlockOf(j)
           L == PlanLength(c)
<1>1. /\ r \in OutputReads /\ Reading(c) /\ j \in Ids /\ f \in Pieces
      /\ offset \in Nat /\ EngineType /\ Placed /\ OffsetHolds
      /\ acknowledged \in Seq(OutputReads) /\ acknowledged # <<>>
  BY OutputSent DEF Inv, TypeOK, LedgerInv, Placed, OutputsPlaced, SendOutput
<1>2. /\ f.id = j /\ f.index = r.index /\ f.part = offset + 1 /\ c.op \notin Fills
  BY <1>1 DEF Reading
<1>3. L \in Nat \ {0} /\ d \in Nat /\ z * L \in Nat /\ Outputs(c) \in Nat
  <2>1. L \in Nat \ {0}
    BY <1>1, ReadCounts
  <2>2. Outputs(c) \in Nat
    BY <1>1, CountNat
  <2>3. d \in Nat
    BY <1>1, DoneNext
  <2>4. \A u \in Nat : z * u \in Nat
    OBVIOUS
  <2> HIDE DEF L, d
  <2> QED BY <2>1, <2>2, <2>3, <2>4
<1>4. n = z * L + offset
  BY <1>1 DEF Offset
<1>5. n \in 0..Outputs(c) /\ written[j] \in 0..n
  BY <1>1, SentBound
<1>6. V[r] = Done(c, r.index) /\ Done(c, r.index) \in Nat \ {0}
  <2>1. Done(c, r.index) \in 1..Blocks(c) /\ Blocks(c) \in Nat
    BY <1>1, OutputFacts, ReadCounts
  <2> QED BY <1>1, <2>1, OutputFacts
<1>7. V[r] = z + 1 /\ Window(Tail(acknowledged), V, z + 1, d)
  <2>1. V[r] \in {0, z + 1} /\ Window(Tail(acknowledged), V, z + Unit(V[r]), d)
    <3>1. Window(acknowledged, V, z, d)
      OBVIOUS
    <3> HIDE DEF V, d
    <3> QED BY <1>1, <1>3, <3>1, WindowTail
  <2>2. V[r] = z + 1 /\ Unit(V[r]) = 1
    BY <1>6, <2>1 DEF Unit
  <2> QED BY <2>1, <2>2
<1>8. Place(f) = n + 1
  <2>1. Place(f) = (Done(c, r.index) - 1) * L + (offset + 1)
    BY <1>2 DEF Place
  <2>2. Done(c, r.index) - 1 = z
    BY <1>6, <1>7
  <2>3. Place(f) = z * L + (offset + 1)
    BY <2>1, <2>2
  <2> DEFINE y == z * L
  <2>4. Place(f) = y + (offset + 1) /\ n = y + offset /\ y \in Nat
    BY <1>3, <1>4, <2>3
  <2> HIDE DEF y
  <2> QED BY <1>1, <2>4
<1>9. Place(f) \in 1..Outputs(c) /\ (LastInInstruction(f) <=> Place(f) = Outputs(c))
  BY <1>1, <1>2, PieceFacts
<1> QED BY <1>3, <1>4, <1>5, <1>6, <1>7, <1>8, <1>9

LEMMA SendOutputLedger ==
  ASSUME Inv, LedgerInv, SendOutput
  PROVE  LedgerInv'
<1>1. PICK r : r = Head(acknowledged)
  OBVIOUS
<1>2. PICK f : f = [id |-> r.id, index |-> r.index, part |-> offset + 1]
  OBVIOUS
<1>3. PICK c, j, L : c = Cmd(r.id) /\ j = r.id /\ L = PlanLength(c)
  OBVIOUS
<1>4. /\ r \in OutputReads /\ Tail(acknowledged) \in Seq(OutputReads)
      /\ Reading(c) /\ j \in Ids /\ f \in Pieces /\ f.id = j
      /\ offset \in Nat /\ offset + 1 <= L /\ WritePortOf(j) = 0
      /\ offset + 1 = L /\ c.to \in Locals => f \in LastPieces
  BY <1>1, <1>2, <1>3, OutputSent
<1> DEFINE last == offset + 1 = L
           local == c.to \in Locals /\ last
<1>5. /\ Same /\ acknowledged # <<>>
      /\ last => acknowledged' = Tail(acknowledged) /\ offset' = 0
      /\ ~last => acknowledged' = acknowledged /\ offset' = offset + 1
      /\ c.to \in Targets => PushWrite(c.to, 0, f)
      /\ c.to \notin Targets => UNCHANGED writes
      /\ local => retiring' = Append(retiring, f)
      /\ ~local => UNCHANGED retiring
      /\ c.to \in Targets \/ local => UNCHANGED written
      /\ ~(c.to \in Targets \/ local) => Arrive(j)
      /\ c.to = "External" => Complete(f)
      /\ c.to # "External" => UNCHANGED completed
      /\ UNCHANGED <<issued, generation, generated, pushed, inputs, memory, acks>>
  BY <1>1, <1>2, <1>3 DEF SendOutput, Same, engine, producers, reader
<1>6. /\ EngineType /\ EngineType' /\ L \in Nat \ {0} /\ acknowledged \in Seq(OutputReads)
      /\ retiring \in Seq(LastPieces) /\ written \in [Ids -> Nat]
  <2>1. [Next]_vars
    BY DEF Next, Advance
  <2> QED BY <1>3, <1>4, <2>1, NextInv, ReadCounts
          DEF Inv, TypeOK, EngineType, LedgerInv, Placed, OutputsPlaced, RetiringPlaced
<1>7. ASSUME NEW i \in Ids
      PROVE  /\ PlaceOf(i)[f] = IF i = j THEN Place(f) ELSE 0
             /\ BlockOf(i)[r] = IF i = j THEN Done(c, r.index) ELSE 0
             /\ IndexOf(i)' = IndexOf(i) /\ PlaceOf(i)' = PlaceOf(i)
             /\ BlockOf(i)' = BlockOf(i) /\ UopOf(i)' = UopOf(i) /\ Cmd(i)' = Cmd(i)
             /\ written'[i] = IF i = j /\ ~(c.to \in Targets \/ local)
                              THEN written[i] + 1 ELSE written[i]
             /\ Offset(i) = IF i = j THEN offset ELSE 0
             /\ Offset(i)' = IF i = j /\ ~last THEN offset + 1 ELSE 0
  <2>1. PlaceOf(i)[f] = IF i = j THEN Place(f) ELSE 0
    BY <1>4, <1>6, PieceFacts
  <2>2. BlockOf(i)[r] = IF i = j THEN Done(c, r.index) ELSE 0
    BY <1>3, <1>4, <1>6, OutputFacts
  <2>3. written'[i] = IF i = j /\ ~(c.to \in Targets \/ local)
                      THEN written[i] + 1 ELSE written[i]
    BY <1>4, <1>5, <1>6 DEF Arrive
  <2>4. Offset(i) = IF i = j THEN offset ELSE 0
    BY <1>1, <1>3, <1>5 DEF Offset
  <2>5. Offset(i)' = IF i = j /\ ~last THEN offset + 1 ELSE 0
    <3>1. CASE last
      BY <1>5, <3>1 DEF Offset
    <3>2. CASE ~last
      BY <1>1, <1>3, <1>5, <3>2 DEF Offset
    <3> QED BY <3>1, <3>2
  <2> QED BY <1>5, <2>1, <2>2, <2>3, <2>4, <2>5, SameNumbers, SameCmd
<1>8. OffsetHolds'
  <2>1. CASE last
    <3>1. acknowledged' # <<>> => Head(acknowledged') \in OutputReads
      BY <1>4, <1>5, <2>1, TailIn
    <3>2. acknowledged' # <<>> => PlanLength(Cmd(Head(acknowledged').id)) \in Nat \ {0}
      BY <1>6, <3>1, OutputFacts, ReadFacts, ReadCounts
    <3> QED BY <1>5, <2>1, <3>2, SameCmd DEF OffsetHolds
  <2>2. CASE ~last
    BY <1>1, <1>3, <1>4, <1>5, <1>6, <2>2, SameCmd DEF OffsetHolds
  <2> QED BY <2>1, <2>2
<1>9. /\ WritesPlaced'
      /\ \A i \in Ids, n \in Nat :
           PlaceOf(i)[f] \in {0, n + 1} /\ Cmd(i).to \in Targets /\ Delivery(i, n) =>
             (i # j => Delivery(i, n)') /\ (c.to \in Targets => Delivery(i, n + Unit(PlaceOf(i)[f]))')
  <2>1. CASE c.to \in Targets
    <3>1. PICK t \in Targets : t = c.to
      BY <2>1
    <3>2. f \in WritesAt(t, 0) /\ 0 \in WritePorts /\ PushWrite(t, 0, f) /\ UNCHANGED <<acks, written>>
      BY <1>3, <1>4, <1>5, <2>1, <3>1 DEF WritesAt, WritePorts
    <3>3. /\ WritesPlaced'
          /\ \A i \in Ids, n \in Nat :
               /\ PlaceOf(i)[f] \in {0, n + 1} /\ Cmd(i).to \in Targets /\ Delivery(i, n)
               => Delivery(i, n + Unit(PlaceOf(i)[f]))'
      BY <1>5, <3>2, PieceAppend DEF LedgerInv, Placed
    <3>4. ASSUME NEW i \in Ids, NEW n \in Nat, i # j, Delivery(i, n + Unit(PlaceOf(i)[f]))'
          PROVE  Delivery(i, n)'
      <4>1. PlaceOf(i)[f] = 0 /\ PlaceOf(i)' = PlaceOf(i)
        BY <1>7, <3>4
      <4>2. n + Unit(PlaceOf(i)[f]) = n
        BY <4>1 DEF Unit
      <4> QED BY <3>4, <4>1, <4>2
    <3> QED BY <3>3, <3>4
  <2>2. CASE c.to \notin Targets
    <3>1. UNCHANGED <<writes, acks>> /\ WritesPlaced'
      BY <1>5, <2>2, WritesPlacedSame DEF LedgerInv, Placed
    <3>2. ASSUME NEW i \in Ids, NEW n \in Nat, i # j, Delivery(i, n)
          PROVE  Delivery(i, n)'
      <4>1. written'[i] = written[i]
        BY <1>7, <3>2
      <4> QED BY <1>5, <3>1, <3>2, <4>1, DeliverySame
    <3> QED BY <2>2, <3>1, <3>2
  <2> QED BY <2>1, <2>2
<1>10. OutputsPlaced' /\ RetiringPlaced'
  <2>1. acknowledged' \in Seq(OutputReads)
    BY <1>4, <1>5, <1>6
  <2>2. retiring' \in Seq(LastPieces)
    <3>1. CASE local
      BY <1>4, <1>5, <1>6, <3>1, AppendIn
    <3>2. CASE ~local
      BY <1>5, <1>6, <3>2
    <3> QED BY <3>1, <3>2
  <2>3. UNCHANGED memory
    BY DEF SendOutput
  <2> QED BY <1>5, <2>1, <2>2, <2>3, SameEntries, SamePieces
          DEF OutputsPlaced, RetiringPlaced, LedgerInv, Placed
<1>11. ASSUME NEW i \in Ids, RequestCount(Cmd(i)) # 0, Cmd(i).op \in Fills, FillLedger(i)
       PROVE  FillLedger(i)'
  <2>1. i # j
    BY <1>3, <1>4, <1>11 DEF Reading
  <2>2. PICK s \in Nat : SourceAt(i, s) /\ Delivery(i, s)
    BY <1>6, <1>11, FillSource
  <2>3. Delivery(i, s)'
    <3>1. PlaceOf(i)[f] = 0 /\ Cmd(i).to \in Targets
      BY <1>6, <1>7, <1>11, <2>1, FillSource
    <3> QED BY <1>9, <2>1, <2>2, <3>1
  <2>4. SourceAt(i, s)'
    BY <1>5, <1>7, <2>2, SameCmd, MadeSame DEF SourceAt
  <2> QED BY <1>5, <1>6, <1>11, <2>3, <2>4, FillSource
<1>12. ASSUME NEW i \in Ids, RequestCount(Cmd(i)) # 0, Cmd(i).op \notin Fills, ReadLedger(i)
       PROVE  ReadLedger(i)'
  <2>1. PICK s \in Nat, m \in Nat, a \in Nat, z \in Nat :
          /\ Fetched(i, s, m, a)
          /\ Window(acknowledged, BlockOf(i), z, Done(Cmd(i), a))
          /\ Stored(i, z, z * PlanLength(Cmd(i)) + Offset(i))
    BY <1>12 DEF ReadLedger
  <2>2. PICK n : n = z * PlanLength(Cmd(i)) + Offset(i)
    OBVIOUS
  <2>3. PICK d : d = Done(Cmd(i), a)
    OBVIOUS
  <2>4. PICK V : V = BlockOf(i)
    OBVIOUS
  <2>5. Fetched(i, s, m, a)'
    BY <1>5, <2>1, FetchedSame, MadeSame
  <2>6. Reading(Cmd(i))
    BY <1>6, <1>12, ReadingCmd
  <2>7. /\ d \in Nat /\ z \in 0..d /\ z \in 0..Blocks(Cmd(i)) /\ d \in 0..Blocks(Cmd(i))
        /\ n \in 0..Outputs(Cmd(i)) /\ written[i] \in 0..n /\ n \in Nat
    <3>1. Placed /\ OffsetHolds
      BY DEF LedgerInv
    <3>2. /\ Done(Cmd(i), a) \in 0..Blocks(Cmd(i)) /\ z \in 0..Done(Cmd(i), a)
          /\ z \in 0..Blocks(Cmd(i))
      BY <2>1, <2>6, <3>1, ReadChain
    <3>3. n \in 0..Outputs(Cmd(i)) /\ written[i] \in 0..n
      BY <2>1, <2>2, <2>6, <3>1, SentBound
    <3>4. Outputs(Cmd(i)) \in Nat /\ d \in Nat
      BY <1>6, <2>3, <2>6, CountNat, DoneNext
    <3> QED BY <2>3, <3>2, <3>3, <3>4
  <2>8. CASE i # j
    <3>1. Window(acknowledged', V, z, d)
      <4>1. CASE last
        <5>1. V[r] = 0
          BY <1>7, <2>4, <2>8
        <5>2. Window(Tail(acknowledged), V, z + Unit(V[r]), d)
          BY <1>1, <1>5, <1>6, <2>1, <2>3, <2>4, <2>7, WindowTail
        <5>3. z + Unit(V[r]) = z
          BY <5>1 DEF Unit
        <5> QED BY <1>5, <4>1, <5>2, <5>3
      <4>2. CASE ~last
        BY <1>5, <2>1, <2>3, <2>4, <4>2
      <4> QED BY <4>1, <4>2
    <3>2. n = z * PlanLength(Cmd(i)) + Offset(i)'
      BY <1>7, <2>2, <2>8
    <3>3. Cmd(i).to \in Targets => Delivery(i, n)'
      <4>1. PlaceOf(i)[f] = 0 /\ (Cmd(i).to \in Targets => Delivery(i, n))
        BY <1>7, <2>1, <2>2, <2>8 DEF Stored
      <4> QED BY <1>9, <2>7, <2>8, <4>1
    <3>4. Cmd(i).to \in Locals =>
            \E x \in Nat : Window(retiring', UopOf(i), x, z) /\ written[i] + (z - x) = n
      <4> SUFFICES ASSUME Cmd(i).to \in Locals
                   PROVE  \E x \in Nat : Window(retiring', UopOf(i), x, z) /\ written[i] + (z - x) = n
        OBVIOUS
      <4>1. PICK x \in Nat : Window(retiring, UopOf(i), x, z) /\ written[i] + (z - x) = n
        BY <2>1, <2>2 DEF Stored
      <4>2. CASE ~local
        BY <1>5, <4>1, <4>2
      <4>3. CASE local
        <5>1. f \in LastPieces
          BY <1>4, <4>3
        <5>2. UopOf(i)[f] = 0
          BY <1>4, <1>6, <2>8, <5>1, LastPieceFacts
        <5>3. Window(Append(retiring, f), UopOf(i), x, z + Unit(UopOf(i)[f]))
          BY <1>6, <4>1, <5>1, <5>2, WindowAppend
        <5>4. z + Unit(UopOf(i)[f]) = z
          BY <5>2 DEF Unit
        <5> QED BY <1>5, <4>1, <4>3, <5>3, <5>4
      <4> QED BY <4>2, <4>3
    <3>5. Stored(i, z, n)'
      <4>1. written'[i] = written[i] /\ (Cmd(i).to = "External" => written[i] = n)
        BY <1>7, <2>1, <2>2, <2>8 DEF Stored
      <4> QED BY <1>7, <3>3, <3>4, <4>1 DEF Stored
    <3>6. Window(acknowledged, BlockOf(i), z, d)'
      BY <1>7, <2>4, <3>1
    <3> QED BY <1>5, <2>3, <2>5, <3>2, <3>5, <3>6, ReadNext
  <2>9. CASE i = j
    <3>0. c = Cmd(i) /\ L = PlanLength(Cmd(i)) /\ i \in Nat
      BY <1>3, <1>6, <2>9, OwnOps
    <3>1. /\ Done(c, r.index) = z + 1 /\ n = z * L + offset /\ Place(f) = n + 1
          /\ Window(Tail(acknowledged), BlockOf(j), z + 1, Done(c, a))
      <4>1. /\ Fetched(j, s, m, a) /\ Window(acknowledged, BlockOf(j), z, Done(c, a))
            /\ Stored(j, z, n) /\ n = z * PlanLength(c) + Offset(j) /\ c = Cmd(j)
        BY <1>3, <2>1, <2>2, <2>9
      <4> HIDE DEF last, local
      <4>2. /\ Place(f) = n + 1 /\ n = z * PlanLength(c) + offset
            /\ Done(c, r.index) = z + 1
            /\ Window(Tail(acknowledged), BlockOf(j), z + 1, Done(c, a))
        BY <1>1, <1>2, <1>3, <4>1, OutputPlace
      <4> QED BY <1>3, <4>2
    <3>2. Window(Tail(acknowledged), V, z + 1, d)
      BY <2>3, <2>4, <2>9, <3>0, <3>1
    <3>3. PlaceOf(i)[f] = n + 1
      BY <1>7, <2>9, <3>1
    <3> DEFINE w == IF last THEN z + 1 ELSE z
    <3>4. w \in Nat /\ Window(acknowledged', V, w, d)
      <4>1. CASE last
        <5>1. w = z + 1 /\ acknowledged' = Tail(acknowledged)
          BY <1>5, <4>1
        <5> HIDE DEF w
        <5> QED BY <3>2, <5>1
      <4>2. CASE ~last
        <5>1. w = z /\ acknowledged' = acknowledged
          BY <1>5, <4>2
        <5> HIDE DEF w
        <5> QED BY <2>1, <2>3, <2>4, <5>1
      <4> QED BY <4>1, <4>2
    <3>5. n + 1 = w * L + Offset(i)'
      <4>1. Offset(i)' = IF last THEN 0 ELSE offset + 1
        BY <1>7, <2>9
      <4>2. (z + 1) * L = z * L + L /\ z * L \in Nat /\ (z + 1) * L \in Nat
        BY <1>6
      <4> DEFINE y == z * L
                 u == (z + 1) * L
      <4>3. n = y + offset /\ u = y + L /\ y \in Nat /\ u \in Nat
        BY <3>1, <4>2
      <4>4. w * L = IF last THEN u ELSE y
        OBVIOUS
      <4> HIDE DEF y, u, w
      <4> QED BY <1>4, <1>6, <4>1, <4>3, <4>4
    <3>6. Cmd(i).to \in Targets => Delivery(i, n + 1)'
      <4> SUFFICES ASSUME Cmd(i).to \in Targets PROVE Delivery(i, n + 1)'
        OBVIOUS
      <4>1. Delivery(i, n)
        BY <2>1, <2>2 DEF Stored
      <4>2. Delivery(i, n + Unit(PlaceOf(i)[f]))'
        BY <1>9, <2>7, <3>0, <3>3, <4>1
      <4>3. n + Unit(PlaceOf(i)[f]) = n + 1 /\ PlaceOf(i)' = PlaceOf(i)
        BY <1>7, <2>7, <3>3 DEF Unit
      <4> QED BY <4>2, <4>3
    <3>7. Cmd(i).to \in Locals =>
            \E x \in Nat : Window(retiring', UopOf(i), x, w) /\ written'[i] + (w - x) = n + 1
      <4> SUFFICES ASSUME Cmd(i).to \in Locals
                   PROVE  \E x \in Nat : Window(retiring', UopOf(i), x, w) /\ written'[i] + (w - x) = n + 1
        OBVIOUS
      <4>1. PICK x \in Nat : Window(retiring, UopOf(i), x, z) /\ written[i] + (z - x) = n
        BY <2>1, <2>2 DEF Stored
      <4>2. c.to \notin Targets /\ c.to \in Locals
        BY <3>0 DEF Targets, Locals
      <4>3. CASE ~last
        <5>1. retiring' = retiring /\ written'[i] = written[i] + 1 /\ w = z
          BY <1>5, <1>7, <2>9, <4>2, <4>3
        <5> QED BY <2>7, <4>1, <5>1
      <4>4. CASE last
        <5>1. f \in LastPieces /\ retiring' = Append(retiring, f) /\ written'[i] = written[i] /\ w = z + 1
          BY <1>4, <1>5, <1>7, <2>9, <4>2, <4>4
        <5>2. UopOf(i)[f] = z + 1
          <6>1. UopOf(i)[f] = Done(Cmd(i), f.index) /\ f.index = r.index
            BY <1>2, <1>4, <1>6, <2>9, <5>1, LastPieceFacts
          <6> QED BY <3>0, <3>1, <6>1
        <5>3. Window(Append(retiring, f), UopOf(i), x, z + Unit(UopOf(i)[f]))
          BY <1>6, <4>1, <5>1, <5>2, WindowAppend
        <5>4. z + Unit(UopOf(i)[f]) = z + 1
          BY <5>2 DEF Unit
        <5> QED BY <2>7, <4>1, <5>1, <5>3, <5>4
      <4> QED BY <4>3, <4>4
    <3>8. Cmd(i).to = "External" => written'[i] = n + 1
      <4>1. Cmd(i).to = "External" => written[i] = n
        BY <2>1, <2>2 DEF Stored
      <4>2. Cmd(i).to = "External" => c.to \notin Targets /\ c.to \notin Locals
        BY <3>0 DEF Targets, Locals
      <4> QED BY <1>7, <2>9, <4>1, <4>2
    <3>9. PICK w0, n0 : w0 \in Nat /\ w0 = w /\ n0 = n + 1
      BY <3>4
    <3> HIDE DEF w
    <3>10. Stored(i, w0, n0)'
      BY <1>7, <3>6, <3>7, <3>8, <3>9 DEF Stored
    <3>11. Window(acknowledged, BlockOf(i), w0, d)' /\ n0 = w0 * PlanLength(Cmd(i)) + Offset(i)'
      BY <1>7, <2>4, <3>0, <3>4, <3>5, <3>9
    <3> QED BY <1>5, <2>3, <2>5, <3>9, <3>10, <3>11, ReadNext
  <2> QED BY <2>8, <2>9
<1>13. \A i \in Ids : Ledger(i)'
  <2>1. \A i \in Ids : RequestCount(Cmd(i)) = 0 => written'[i] = written[i]
    BY <1>3, <1>4, <1>7 DEF Reading
  <2> QED BY <1>5, <1>11, <1>12, <2>1, LedgerStep DEF LedgerInv
<1>14. CompletedExactly'
  <2>1. CASE c.to \in Targets \/ local
    <3>1. UNCHANGED <<issued, written, completed>>
      BY <1>5, <2>1 DEF Targets, Locals
    <3> QED BY <1>5, <3>1, CompletedSame DEF LedgerInv
  <2>2. CASE ~(c.to \in Targets \/ local)
    <3>1. Ledger(j) /\ RequestCount(Cmd(j)) # 0 /\ Cmd(j).op \notin Fills
      BY <1>3, <1>4 DEF LedgerInv, Reading
    <3>2. PICK s \in Nat, m \in Nat, a \in Nat, z \in Nat :
            /\ Fetched(j, s, m, a)
            /\ Window(acknowledged, BlockOf(j), z, Done(Cmd(j), a))
            /\ Stored(j, z, z * PlanLength(Cmd(j)) + Offset(j))
      BY <3>1 DEF Ledger, ReadLedger
    <3>3. PICK n : n = z * PlanLength(Cmd(j)) + Offset(j)
      OBVIOUS
    <3>4. Placed /\ OffsetHolds /\ CompletedExactly
      BY DEF LedgerInv
    <3>5. /\ n \in Nat /\ n + 1 <= Outputs(c) /\ Outputs(c) \in Nat /\ written[j] \in 0..n
          /\ LastInInstruction(f) <=> n + 1 = Outputs(c)
      <4>1. Outputs(c) \in Nat
        BY <1>3, <1>4, <1>6, CountNat
      <4>2. /\ n \in Nat /\ n + 1 <= Outputs(c) /\ written[j] \in 0..n
            /\ LastInInstruction(f) <=> n + 1 = Outputs(c)
        BY <1>1, <1>2, <1>3, <3>2, <3>3, OutputPlace
      <4> QED BY <4>1, <4>2
    <3>6. CASE c.to = "External"
      <4>1. written[j] = n
        BY <1>3, <3>2, <3>3, <3>6 DEF Stored
      <4>2. Arrive(f.id) /\ Complete(f) /\ f.id \in Ids /\ f.id = j /\ UNCHANGED issued
        BY <1>4, <1>5, <2>2, <3>6
      <4>3. /\ LastInInstruction(f) <=> written[f.id] + 1 = Outputs(Cmd(f.id))
            /\ written[f.id] # Outputs(Cmd(f.id))
        BY <1>3, <3>5, <4>1, <4>2
      <4> QED BY <1>5, <1>6, <3>4, <4>2, <4>3, ArriveCompleted
    <3>7. CASE c.to # "External"
      <4>1. ~last
        BY <1>4, <2>2, <3>7, ReadingTo
      <4>2. f.part # PlanLength(Cmd(f.id)) /\ Cmd(f.id).op \notin Fills
        BY <1>2, <1>3, <1>4, <3>1, <4>1
      <4>3. ~LastInInstruction(f)
        BY <4>2 DEF LastInInstruction, Fills
      <4>4. written[j] # Outputs(c) /\ written[j] + 1 # Outputs(c)
        BY <3>5, <4>3
      <4>5. Started' = Started /\ UNCHANGED completed /\ Started \subseteq Ids
        <5>1. /\ issued <= Len(program) /\ issued \in Nat
              /\ Len(program) \in Nat /\ Len(others) \in Nat
          BY <1>6, ProgramType DEF EngineType
        <5> QED BY <1>5, <3>7, <5>1, SameCmd DEF Started, Ids
      <4> SUFFICES ASSUME NEW i \in Started
                   PROVE  i \in completed' <=> written'[i] = Outputs(Cmd(i))
        BY <1>5, <4>5, SameCmd DEF CompletedExactly
      <4>6. i \in completed <=> written[i] = Outputs(Cmd(i))
        BY <3>4 DEF CompletedExactly
      <4>7. CASE i = j
        BY <1>3, <1>4, <1>7, <2>2, <4>4, <4>5, <4>6, <4>7
      <4>8. CASE i # j
        BY <1>7, <4>5, <4>6, <4>8
      <4> QED BY <4>7, <4>8
    <3> QED BY <3>6, <3>7
  <2> QED BY <2>1, <2>2
<1>15. Placed'
  <2>1. SourcePlaced' /\ InputsPlaced'
    BY <1>5, SourcePlacedSame, InputsPlacedSame DEF LedgerInv, Placed
  <2> QED BY <1>9, <1>10, <2>1 DEF Placed
<1> QED BY <1>5, <1>8, <1>13, <1>14, <1>15, SameCmd DEF LedgerInv

\* A fragment of a local buffer arrives, with those sent before it.
LEMMA RetireOutputLedger ==
  ASSUME Inv, LedgerInv, RetireOutput
  PROVE  LedgerInv'
<1>1. PICK f : f = Head(retiring)
  OBVIOUS
<1>2. PICK c, j : c = Cmd(f.id) /\ j = f.id
  OBVIOUS
<1>3. /\ Same /\ retiring # <<>> /\ retiring' = Tail(retiring)
      /\ Arrive(f.id) /\ Complete(f)
      /\ UNCHANGED <<issued, generation, generated, pushed, inputs, memory, acknowledged,
                     offset, writes, acks>>
  BY <1>1 DEF RetireOutput, Same, engine, producers, reader, l0
<1>4. /\ EngineType /\ retiring \in Seq(LastPieces) /\ written \in [Ids -> Nat]
      /\ Placed /\ OffsetHolds /\ CompletedExactly
  BY DEF Inv, TypeOK, EngineType, LedgerInv, Placed, RetiringPlaced
<1>5. f \in LastPieces /\ Tail(retiring) \in Seq(LastPieces)
  BY <1>1, <1>3, <1>4, TailIn
<1>6. /\ f \in Pieces /\ Reading(c) /\ c.to \in Locals
      /\ Done(c, f.index) \in 1..Blocks(c)
      /\ LastInInstruction(f) <=> Done(c, f.index) = Blocks(c)
      /\ \A i : UopOf(i)[f] = IF j = i THEN Done(Cmd(i), f.index) ELSE 0
  BY <1>2, <1>4, <1>5, LastPieceFacts
<1>7. j \in Ids /\ c.to \notin Targets /\ c.to # "External" /\ c.op \notin Fills /\ RequestCount(c) # 0
  BY <1>2, <1>4, <1>6, PieceFacts DEF Targets, Locals, Reading
<1>8. ASSUME NEW i \in Ids
      PROVE  /\ written'[i] = IF i = j THEN written[i] + 1 ELSE written[i]
             /\ Cmd(i)' = Cmd(i) /\ UopOf(i)' = UopOf(i) /\ BlockOf(i)' = BlockOf(i)
             /\ Offset(i)' = Offset(i) /\ Made(i)' = Made(i)
  BY <1>2, <1>3, <1>4, SameCmd, SameNumbers, OffsetSame, MadeSame DEF Arrive
<1>9. \A i \in Ids : \A n : i # j /\ Delivery(i, n) => Delivery(i, n)'
  BY <1>3, <1>8, DeliverySame
\* The window of j before the step, and what it says of the count.
<1>10. ASSUME NEW i \in Ids, NEW z \in Nat, NEW n, Cmd(i).to \in Locals, Stored(i, z, n)
       PROVE  \E x \in Nat :
                /\ UopOf(i)[f] \in {0, x + 1} /\ (UopOf(i)[f] # 0 => x < z)
                /\ Window(retiring', UopOf(i), x + Unit(UopOf(i)[f]), z)
                /\ written[i] + (z - x) = n
  <2>1. PICK x \in Nat : Window(retiring, UopOf(i), x, z) /\ written[i] + (z - x) = n
    BY <1>10 DEF Stored
  <2>2. PICK N : N = UopOf(i)
    OBVIOUS
  <2>3. /\ N[f] \in {0, x + 1} /\ (N[f] # 0 => x < z)
        /\ Window(Tail(retiring), N, x + Unit(N[f]), z)
    BY <1>1, <1>3, <1>4, <2>1, <2>2, WindowTail
  <2> QED BY <1>3, <2>1, <2>2, <2>3
<1>11. ASSUME NEW i \in Ids, NEW z \in Nat, NEW n, Reading(Cmd(i)), Stored(i, z, n)
       PROVE  Stored(i, z, n)'
  <2>1. CASE Cmd(i).to \notin Locals
    <3>1. i # j
      BY <1>2, <1>6, <2>1
    <3>2. written'[i] = written[i]
      BY <1>8, <3>1
    <3> QED BY <1>8, <1>9, <1>11, <2>1, <3>1, <3>2 DEF Stored
  <2>2. CASE Cmd(i).to \in Locals
    <3>1. PICK x \in Nat :
            /\ UopOf(i)[f] \in {0, x + 1} /\ (UopOf(i)[f] # 0 => x < z)
            /\ Window(retiring', UopOf(i), x + Unit(UopOf(i)[f]), z)
            /\ written[i] + (z - x) = n
      BY <1>10, <1>11, <2>2
    <3>2. PICK y \in Nat : y = x + Unit(UopOf(i)[f])
      BY <3>1, UnitNat
    <3>3. written'[i] + (z - y) = n
      <4>1. written[i] \in Nat
        BY <1>4
      <4>2. CASE i = j
        <5>1. UopOf(i)[f] \in Nat \ {0}
          <6>1. UopOf(i)[f] = Done(c, f.index) /\ Blocks(c) \in Nat
            BY <1>2, <1>6, <4>2, ReadCounts
          <6> QED BY <1>6, <6>1
        <5>2. y = x + 1
          BY <3>2, <5>1 DEF Unit
        <5> QED BY <1>8, <3>1, <4>1, <4>2, <5>2
      <4>3. CASE i # j
        <5>1. UopOf(i)[f] = 0
          BY <1>6, <4>3
        <5>2. y = x
          BY <3>2, <5>1 DEF Unit
        <5> QED BY <1>8, <3>1, <4>3, <5>2
      <4> QED BY <4>2, <4>3
    <3>4. Window(retiring, UopOf(i), y, z)'
      BY <1>8, <3>1, <3>2
    <3>5. Cmd(i).to \notin Targets /\ Cmd(i).to # "External"
      BY <2>2 DEF Targets, Locals
    <3> QED BY <1>8, <3>3, <3>4, <3>5 DEF Stored
  <2> QED BY <2>1, <2>2
<1>12. ASSUME NEW i \in Ids
       PROVE  Ledger(i)'
  <2>1. ASSUME RequestCount(Cmd(i)) # 0, Cmd(i).op \in Fills, FillLedger(i)
        PROVE  FillLedger(i)'
    <3>1. i # j
      BY <1>2, <1>7, <2>1
    <3> QED BY <1>3, <1>8, <2>1, <3>1, FillSame
  <2>2. ASSUME RequestCount(Cmd(i)) # 0, Cmd(i).op \notin Fills, ReadLedger(i)
        PROVE  ReadLedger(i)'
    <3>1. PICK s \in Nat, m \in Nat, a \in Nat, z \in Nat :
            /\ Fetched(i, s, m, a)
            /\ Window(acknowledged, BlockOf(i), z, Done(Cmd(i), a))
            /\ Stored(i, z, z * PlanLength(Cmd(i)) + Offset(i))
      BY <2>2 DEF ReadLedger
    <3>2. PICK n, d : n = z * PlanLength(Cmd(i)) + Offset(i) /\ d = Done(Cmd(i), a)
      OBVIOUS
    <3>3. Fetched(i, s, m, a)' /\ Window(acknowledged, BlockOf(i), z, d)'
      BY <1>3, <1>8, <3>1, <3>2, FetchedSame
    <3>4. Stored(i, z, n)'
      BY <1>4, <1>11, <2>2, <3>1, <3>2, ReadingCmd
    <3> QED BY <1>3, <1>8, <3>2, <3>3, <3>4, ReadNext
  <2>3. RequestCount(Cmd(i)) = 0 => written'[i] = written[i]
    BY <1>2, <1>7, <1>8
  <2> QED BY <1>3, <2>1, <2>2, <2>3, LedgerStep DEF LedgerInv
<1>13. CompletedExactly'
  <2>1. ReadLedger(j)
    BY <1>2, <1>7 DEF LedgerInv, Ledger
  <2>2. PICK s \in Nat, m \in Nat, a \in Nat, z \in Nat :
          /\ Fetched(j, s, m, a)
          /\ Window(acknowledged, BlockOf(j), z, Done(Cmd(j), a))
          /\ Stored(j, z, z * PlanLength(Cmd(j)) + Offset(j))
    BY <2>1 DEF ReadLedger
  <2>3. PICK n, B : n = z * PlanLength(Cmd(j)) + Offset(j) /\ B = Blocks(c)
    OBVIOUS
  <2>4. /\ n \in 0..Outputs(c) /\ (n = Outputs(c) <=> z = B) /\ z \in 0..B
        /\ B \in Nat /\ Outputs(c) \in Nat
    <3>1. n \in 0..Outputs(c) /\ (n = Outputs(c) <=> z = B)
      BY <1>2, <1>4, <1>6, <1>7, <2>2, <2>3, SentBound
    <3>2. z \in 0..B
      BY <1>2, <1>4, <1>6, <1>7, <2>2, <2>3, ReadChain
    <3> QED BY <1>2, <1>4, <1>6, <1>7, <2>3, <3>1, <3>2, ReadCounts, CountNat
  <2>5. PICK x \in Nat :
          /\ UopOf(j)[f] \in {0, x + 1} /\ (UopOf(j)[f] # 0 => x < z)
          /\ written[j] + (z - x) = n
    <3>1. Stored(j, z, n) /\ Cmd(j).to \in Locals /\ j \in Ids
      BY <1>2, <1>6, <1>7, <2>2, <2>3
    <3> QED BY <1>10, <3>1
  <2>6. Done(c, f.index) = x + 1 /\ x < z
    <3>1. UopOf(j)[f] = Done(c, f.index)
      BY <1>2, <1>6
    <3> QED BY <1>6, <2>3, <2>4, <2>5, <3>1
  <2>7. LastInInstruction(f) <=> x + 1 = B
    BY <1>6, <2>3, <2>6
  <2>8. written[j] \in Nat
    BY <1>4, <1>7
  <2>9. /\ x + 1 = B <=> written[j] + 1 = Outputs(c)
        /\ written[j] # Outputs(c)
    BY <2>4, <2>5, <2>6, <2>8
  <2> QED BY <1>2, <1>3, <1>4, <1>7, <2>7, <2>9, ArriveCompleted
<1>14. Placed' /\ OffsetHolds'
  <2>1. RetiringPlaced'
    BY <1>3, <1>5, SamePieces DEF RetiringPlaced
  <2> QED BY <1>3, <1>4, <2>1, SourcePlacedSame, InputsPlacedSame, OutputsPlacedSame,
             WritesPlacedSame, OffsetHoldsSame DEF Placed
<1> QED BY <1>3, <1>12, <1>13, <1>14, SameCmd DEF LedgerInv

\* A fragment of L0 passes from its port to the acknowledgments.
LEMMA SendWriteLedger ==
  ASSUME Inv, LedgerInv, NEW t \in Targets, SendWrite(t)
  PROVE  LedgerInv'
<1>1. PICK p \in WritePorts : p = WritePort(t)
  BY WritePortUsed DEF SendWrite
<1> DEFINE q == writes[t][p]
<1>2. PICK f : f = Head(q)
  OBVIOUS
<1>3. /\ Same /\ q # <<>> /\ writes' = [writes EXCEPT ![t][p] = Tail(@)]
      /\ acks' = [acks EXCEPT ![t] = Append(@, f)]
      /\ UNCHANGED <<issued, completed, generation, generated, pushed, inputs, memory,
                     acknowledged, offset, retiring, written>>
  BY <1>1, <1>2, WritePortUsed DEF SendWrite, Same, engine, producers, reader, output
<1>4. /\ EngineType /\ writes \in [Targets -> [WritePorts -> Seq(Frags)]]
      /\ acks \in [Targets -> Seq(Frags)] /\ WritesPlaced
  BY DEF Inv, TypeOK, L0Type, LedgerInv, Placed
<1>5. /\ \A u \in Targets, x \in WritePorts :
           writes'[u][x] = IF u = t /\ x = p THEN Tail(q) ELSE writes[u][x]
      /\ \A u \in Targets : acks'[u] = IF u = t THEN Append(acks[t], f) ELSE acks[u]
  BY <1>3, <1>4
<1>6. q \in Seq(WritesAt(t, p)) /\ acks[t] \in Seq(WritesTo(t))
  BY <1>4 DEF WritesPlaced
<1>7. f \in WritesAt(t, p) /\ Tail(q) \in Seq(WritesAt(t, p))
  BY <1>2, <1>3, <1>6, TailIn
<1>8. f \in Pieces /\ Cmd(f.id).to = t /\ WritePortOf(f.id) = p /\ f \in WritesTo(t)
  BY <1>7 DEF WritesAt, WritesTo
<1>9. WritesPlaced'
  <2>1. Append(acks[t], f) \in Seq(WritesTo(t))
    BY <1>6, <1>8, AppendIn
  <2> QED BY <1>3, <1>4, <1>5, <1>7, <2>1, SamePieces DEF WritesPlaced
<1>10. ASSUME NEW i \in Ids, NEW n \in Nat, Cmd(i).to \in Targets, Delivery(i, n)
       PROVE  Delivery(i, n)'
  <2>1. PICK N, u, y, w : N = PlaceOf(i) /\ u = Cmd(i).to /\ y = WritePortOf(i) /\ w = written[i]
    OBVIOUS
  <2>2. u \in Targets /\ y \in WritePorts /\ w \in Nat
    BY <1>4, <1>10, <2>1 DEF WritePortOf, WritePorts, EngineType
  <2>3. PICK x \in Nat : Window(writes[u][y], N, x, n) /\ Window(acks[u], N, w, x)
    BY <1>10, <2>1 DEF Delivery
  <2>4. N[f] = IF f.id = i THEN Place(f) ELSE 0
    BY <1>4, <1>8, <2>1, PieceFacts
  <2>5. N[f] \in {0, x + 1} /\ Window(writes'[u][y], N, x + Unit(N[f]), n)
    <3>1. CASE u = t /\ y = p
      <4>1. N[Head(q)] \in {0, x + 1} /\ Window(Tail(q), N, x + Unit(N[Head(q)]), n)
        <5>1. Window(q, N, x, n)
          BY <2>3, <3>1
        <5> HIDE DEF q
        <5> QED BY <1>3, <1>6, <5>1, WindowTail
      <4> QED BY <1>2, <1>5, <3>1, <4>1
    <3>2. CASE ~(u = t /\ y = p)
      <4>1. N[f] = 0 /\ x + Unit(N[f]) = x
        BY <1>8, <2>1, <2>4, <3>2 DEF Unit
      <4>2. writes'[u][y] = writes[u][y]
        BY <1>5, <2>2, <3>2
      <4> QED BY <2>3, <4>1, <4>2
    <3> QED BY <3>1, <3>2
  <2>6. Window(acks'[u], N, w, x + Unit(N[f]))
    <3>1. CASE u = t
      <4>1. Window(Append(acks[t], f), N, w, x + Unit(N[f]))
        BY <1>6, <1>8, <2>2, <2>3, <2>5, <3>1, WindowAppend
      <4> QED BY <1>5, <3>1, <4>1
    <3>2. CASE u # t
      <4>1. N[f] = 0 /\ x + Unit(N[f]) = x
        BY <1>8, <2>1, <2>4, <3>2 DEF Unit
      <4>2. acks'[u] = acks[u]
        BY <1>5, <2>2, <3>2
      <4> QED BY <2>3, <4>1, <4>2
    <3> QED BY <3>1, <3>2
  <2>7. x + Unit(N[f]) \in Nat
    BY <2>5, UnitNat
  <2>8. PlaceOf(i)' = N /\ Cmd(i)' = Cmd(i) /\ WritePortOf(i)' = y /\ written'[i] = w
    BY <1>3, <2>1, SameNumbers, SameCmd, SamePieces
  <2> QED BY <2>1, <2>5, <2>6, <2>7, <2>8 DEF Delivery
<1>11. ASSUME NEW i \in Ids
       PROVE  Ledger(i)'
  <2>1. /\ Cmd(i)' = Cmd(i) /\ UopOf(i)' = UopOf(i) /\ BlockOf(i)' = BlockOf(i)
        /\ Offset(i)' = Offset(i) /\ Made(i)' = Made(i) /\ IndexOf(i)' = IndexOf(i)
        /\ Len(program)' = Len(program)
    BY <1>3, SameCmd, SameNumbers, OffsetSame, MadeSame
  <2>2. ASSUME RequestCount(Cmd(i)) # 0, Cmd(i).op \in Fills, FillLedger(i)
        PROVE  FillLedger(i)'
    <3>1. PICK s \in Nat : SourceAt(i, s) /\ Delivery(i, s)
      BY <1>4, <2>2, FillSource
    <3>2. Delivery(i, s)'
      BY <1>4, <1>10, <2>2, <3>1, FillSource
    <3>3. SourceAt(i, s)'
      BY <1>3, <2>1, <3>1 DEF SourceAt
    <3> QED BY <1>3, <1>4, <2>2, <3>2, <3>3, FillSource
  <2>3. ASSUME RequestCount(Cmd(i)) # 0, Cmd(i).op \notin Fills, ReadLedger(i)
        PROVE  ReadLedger(i)'
    <3>1. PICK s \in Nat, m \in Nat, a \in Nat, z \in Nat :
            /\ Fetched(i, s, m, a)
            /\ Window(acknowledged, BlockOf(i), z, Done(Cmd(i), a))
            /\ Stored(i, z, z * PlanLength(Cmd(i)) + Offset(i))
      BY <2>3 DEF ReadLedger
    <3>2. PICK n, d : n = z * PlanLength(Cmd(i)) + Offset(i) /\ d = Done(Cmd(i), a)
      OBVIOUS
    <3>3. Fetched(i, s, m, a)' /\ Window(acknowledged, BlockOf(i), z, d)'
      BY <1>3, <2>1, <3>1, <3>2, FetchedSame
    <3>4. n \in Nat
      <4>1. Reading(Cmd(i)) /\ Placed /\ OffsetHolds
        BY <1>4, <2>3, ReadingCmd DEF LedgerInv
      <4>2. n \in 0..Outputs(Cmd(i)) /\ Outputs(Cmd(i)) \in Nat
        BY <1>4, <3>1, <3>2, <4>1, SentBound, CountNat
      <4> QED BY <4>2
    <3>5. Cmd(i).to \in Targets => Delivery(i, n)'
      BY <1>10, <3>1, <3>2, <3>4 DEF Stored
    <3>6. Stored(i, z, n)'
      <4>1. Stored(i, z, n)
        BY <3>1, <3>2
      <4> QED BY <1>3, <2>1, <3>5, <4>1 DEF Stored
    <3> QED BY <1>3, <2>1, <3>2, <3>3, <3>6, ReadNext
  <2> QED BY <1>3, <2>2, <2>3, LedgerStep DEF LedgerInv
<1>12. Placed' /\ OffsetHolds' /\ CompletedExactly'
  BY <1>3, <1>9, SourcePlacedSame, InputsPlacedSame, OutputsPlacedSame, RetiringPlacedSame,
     OffsetHoldsSame, CompletedSame DEF LedgerInv, Placed
<1> QED BY <1>3, <1>11, <1>12, SameCmd DEF LedgerInv

\* A fragment of L0 is acknowledged.
LEMMA RetireWriteLedger ==
  ASSUME Inv, LedgerInv, NEW t \in Targets, RetireWrite(t)
  PROVE  LedgerInv'
<1>1. PICK f : f = Head(acks[t])
  OBVIOUS
<1>2. PICK c, j : c = Cmd(f.id) /\ j = f.id
  OBVIOUS
<1>3. /\ Same /\ acks[t] # <<>> /\ acks' = [acks EXCEPT ![t] = Tail(@)]
      /\ Arrive(f.id) /\ Complete(f)
      /\ UNCHANGED <<issued, generation, generated, pushed, inputs, memory, acknowledged,
                     offset, writes, retiring>>
  BY <1>1 DEF RetireWrite, Same, engine, producers, reader, output
<1>4. /\ EngineType /\ acks \in [Targets -> Seq(Frags)] /\ written \in [Ids -> Nat]
      /\ WritesPlaced /\ CompletedExactly /\ acks[t] \in Seq(WritesTo(t))
      /\ Placed /\ OffsetHolds
  BY DEF Inv, TypeOK, L0Type, EngineType, LedgerInv, Placed, WritesPlaced
<1>5. f \in WritesTo(t) /\ Tail(acks[t]) \in Seq(WritesTo(t))
  BY <1>1, <1>3, <1>4, TailIn
<1>6. f \in Pieces /\ c.to = t
  BY <1>2, <1>5 DEF WritesTo
<1>7. /\ j \in Ids /\ RequestCount(c) # 0 /\ Place(f) \in 1..Outputs(c)
      /\ LastInInstruction(f) <=> Place(f) = Outputs(c)
      /\ \A i : PlaceOf(i)[f] = IF j = i THEN Place(f) ELSE 0
  BY <1>2, <1>4, <1>6, PieceFacts
<1>8. \A u \in Targets : acks'[u] = IF u = t THEN Tail(acks[t]) ELSE acks[u]
  BY <1>3, <1>4
<1>9. WritesPlaced'
  BY <1>3, <1>4, <1>5, <1>8, SamePieces DEF WritesPlaced
<1>10. ASSUME NEW i \in Ids
       PROVE  /\ written'[i] = IF i = j THEN written[i] + 1 ELSE written[i]
              /\ written[i] \in Nat
              /\ Cmd(i)' = Cmd(i) /\ UopOf(i)' = UopOf(i) /\ BlockOf(i)' = BlockOf(i)
              /\ Offset(i)' = Offset(i) /\ Made(i)' = Made(i) /\ IndexOf(i)' = IndexOf(i)
              /\ PlaceOf(i)' = PlaceOf(i) /\ WritePortOf(i)' = WritePortOf(i)
              /\ Len(program)' = Len(program)
  BY <1>2, <1>3, <1>4, SameCmd, SameNumbers, SamePieces, OffsetSame, MadeSame DEF Arrive
<1>11. ASSUME NEW i \in Ids, NEW n \in Nat, Cmd(i).to \in Targets, Delivery(i, n)
       PROVE  Delivery(i, n)' /\ (i = j => Place(f) = written[i] + 1)
  <2>1. PICK N, u, y, w : N = PlaceOf(i) /\ u = Cmd(i).to /\ y = WritePortOf(i) /\ w = written[i]
    OBVIOUS
  <2>2. w \in Nat /\ u \in Targets
    BY <1>10, <1>11, <2>1
  <2>3. PICK x \in Nat : Window(writes[u][y], N, x, n) /\ Window(acks[u], N, w, x)
    BY <1>11, <2>1 DEF Delivery
  <2>4. N[f] = IF j = i THEN Place(f) ELSE 0
    BY <1>7, <2>1
  <2>5. /\ N[f] \in {0, w + 1} /\ Window(acks'[u], N, w + Unit(N[f]), x)
        /\ i = j => Place(f) = w + 1 /\ Unit(N[f]) = 1
        /\ i # j => Unit(N[f]) = 0
    <3>1. CASE u = t
      <4>1. N[f] \in {0, w + 1} /\ Window(Tail(acks[t]), N, w + Unit(N[f]), x)
        BY <1>1, <1>3, <1>4, <2>2, <2>3, <3>1, WindowTail
      <4>2. i = j => N[f] = Place(f) /\ N[f] # 0
        BY <1>7, <2>4
      <4> QED BY <1>8, <2>4, <3>1, <4>1, <4>2 DEF Unit
    <3>2. CASE u # t
      <4>1. i # j
        BY <1>2, <1>6, <2>1, <3>2
      <4>2. N[f] = 0 /\ Unit(N[f]) = 0 /\ w + 0 = w
        BY <2>2, <2>4, <4>1 DEF Unit
      <4> QED BY <1>8, <2>2, <2>3, <3>2, <4>1, <4>2
    <3> QED BY <3>1, <3>2
  <2>6. written'[i] = w + Unit(N[f])
    BY <1>10, <2>1, <2>2, <2>5
  <2>7. Delivery(i, n)'
    BY <1>3, <1>10, <2>1, <2>3, <2>5, <2>6 DEF Delivery
  <2> QED BY <2>1, <2>5, <2>7
<1>12. ASSUME NEW i \in Ids, RequestCount(Cmd(i)) # 0, Cmd(i).op \in Fills, FillLedger(i)
       PROVE  FillLedger(i)' /\ (i = j => Place(f) = written[i] + 1)
  <2>1. PICK s \in Nat : SourceAt(i, s) /\ Delivery(i, s)
    BY <1>4, <1>12, FillSource
  <2>2. Delivery(i, s)' /\ (i = j => Place(f) = written[i] + 1)
    BY <1>4, <1>11, <1>12, <2>1, FillSource
  <2>3. SourceAt(i, s)'
    BY <1>3, <1>10, <2>1 DEF SourceAt
  <2> QED BY <1>3, <1>4, <1>12, <2>2, <2>3, FillSource
<1>13. ASSUME NEW i \in Ids, RequestCount(Cmd(i)) # 0, Cmd(i).op \notin Fills, ReadLedger(i)
       PROVE  ReadLedger(i)' /\ (i = j => Place(f) = written[i] + 1)
  <2>1. PICK s \in Nat, m \in Nat, a \in Nat, z \in Nat :
          /\ Fetched(i, s, m, a)
          /\ Window(acknowledged, BlockOf(i), z, Done(Cmd(i), a))
          /\ Stored(i, z, z * PlanLength(Cmd(i)) + Offset(i))
    BY <1>13 DEF ReadLedger
  <2>2. PICK n, d : n = z * PlanLength(Cmd(i)) + Offset(i) /\ d = Done(Cmd(i), a)
    OBVIOUS
  <2>3. Fetched(i, s, m, a)' /\ Window(acknowledged, BlockOf(i), z, d)'
    BY <1>3, <1>10, <2>1, <2>2, FetchedSame
  <2>4. n \in Nat
    <3>1. Reading(Cmd(i))
      BY <1>4, <1>13, ReadingCmd
    <3>2. n \in 0..Outputs(Cmd(i)) /\ Outputs(Cmd(i)) \in Nat
      BY <1>4, <2>1, <2>2, <3>1, SentBound, CountNat
    <3> QED BY <3>2
  <2>5. Cmd(i).to \in Targets => Delivery(i, n)' /\ (i = j => Place(f) = written[i] + 1)
    BY <1>11, <2>1, <2>2, <2>4 DEF Stored
  <2>6. i = j => Cmd(i).to \in Targets
    BY <1>2, <1>6
  <2>7. Stored(i, z, n)'
    <3>1. Stored(i, z, n)
      BY <2>1, <2>2
    <3>2. i # j => written'[i] = written[i]
      BY <1>10
    <3> QED BY <1>3, <1>10, <2>5, <2>6, <3>1, <3>2 DEF Stored, Targets, Locals
  <2> QED BY <1>3, <1>10, <2>2, <2>3, <2>5, <2>6, <2>7, ReadNext
<1>14. ASSUME NEW i \in Ids
       PROVE  Ledger(i)'
  <2>1. RequestCount(Cmd(i)) = 0 => written'[i] = written[i]
    BY <1>2, <1>7, <1>10
  <2> QED BY <1>3, <1>12, <1>13, <2>1, LedgerStep DEF LedgerInv
<1>15. CompletedExactly'
  <2>1. Place(f) = written[j] + 1
    BY <1>2, <1>7, <1>12, <1>13 DEF LedgerInv, Ledger
  <2>2. written[j] \in Nat
    BY <1>7, <1>10
  <2>3. /\ LastInInstruction(f) <=> written[j] + 1 = Outputs(c)
        /\ written[j] # Outputs(c)
    BY <1>7, <2>1, <2>2
  <2> QED BY <1>2, <1>3, <1>4, <1>7, <2>3, ArriveCompleted
<1>16. Placed' /\ OffsetHolds'
  BY <1>3, <1>4, <1>9, SourcePlacedSame, InputsPlacedSame, OutputsPlacedSame,
     RetiringPlacedSame, OffsetHoldsSame DEF Placed
<1> QED BY <1>3, <1>14, <1>15, <1>16, SameCmd DEF LedgerInv

-----------------------------------------------------------------------------
(* The ledger is kept *)

LEMMA ForeignWork ==
  ASSUME EngineType, NEW i \in Ids, i > Len(program)
  PROVE  RequestCount(Cmd(i)) # 0
<1> DEFINE c == Cmd(i)
<1>1. c.op \in Foreign /\ Routed(c)
  BY OwnOps, RoutedCmd
<1>2. c.blocks \in Nat \ {0} /\ Parts \in Nat \ {0} /\ Fragments \in Nat \ {0}
  BY <1>1, Operations, SplitAssumption DEF Routed
<1>3. c.blocks * Parts # 0 /\ c.blocks * Fragments # 0
  BY <1>2, Positive
<1> QED BY <1>1, <1>3 DEF RequestCount, Foreign, Controls

LEMMA InitLedger == Init => LedgerInv
<1> SUFFICES ASSUME Init PROVE LedgerInv
  OBVIOUS
<1>1. Inv /\ EngineType
  BY InitInv DEF Inv, TypeOK
<1>2. /\ issued = 0 /\ completed = {} /\ acknowledged = <<>> /\ offset = 0 /\ retiring = <<>>
      /\ \A g \in Generators : generated[g] = <<>> /\ generation[g] = None
      /\ \A p \in InputPorts : inputs[p] = <<>>
      /\ memory["MteRead"] = <<>>
      /\ \A t \in Targets : acks[t] = <<>> /\ \A p \in WritePorts : writes[t][p] = <<>>
      /\ \A i \in Ids : written[i] = 0
      /\ pushed = [o \in 1..Len(others) |-> 0]
  BY DEF Init, L1!Init
<1>3. Len(program) \in Nat /\ Len(others) \in Nat
  BY <1>1, ProgramType
<1>4. \A S : <<>> \in Seq(S)
  OBVIOUS
<1>5. SourcePlaced
  <2>1. ASSUME NEW o \in 1..Len(others) PROVE pushed[o] <= RequestCount(others[o])
    <3> DEFINE j == Len(program) + o
    <3>1. j \in Ids /\ Cmd(j) = others[o]
      BY <1>3 DEF Ids, Cmd
    <3>2. RequestCount(others[o]) \in Nat
      BY <1>1, <3>1, CountNat
    <3> QED BY <1>2, <3>2
  <2> QED BY <1>2, <1>4, <2>1 DEF SourcePlaced
<1>6. Placed /\ OffsetHolds
  <2>1. InputsPlaced
    BY <1>2, <1>4 DEF InputsPlaced
  <2>2. OutputsPlaced /\ OffsetHolds /\ RetiringPlaced
    BY <1>2, <1>4 DEF OutputsPlaced, OffsetHolds, RetiringPlaced
  <2>3. WritesPlaced
    BY <1>2, <1>4 DEF WritesPlaced
  <2> QED BY <1>5, <2>1, <2>2, <2>3 DEF Placed
<1>7. \A i \in Ids : Made(i) = 0 \/ RequestCount(Cmd(i)) = 0
  <2> TAKE i \in Ids
  <2>1. CASE i > Len(program)
    BY <1>1, <1>2, <2>1, OwnOps DEF Made
  <2>2. CASE ~(i > Len(program))
    <3>1. i \in Nat \ {0}
      BY <1>1, RoutedCmd
    <3> QED BY <1>2, <2>2, <3>1 DEF Made
  <2> QED BY <2>1, <2>2
<1>8. ASSUME NEW i \in Ids
      PROVE  Ledger(i)
  <2> DEFINE c == Cmd(i)
  <2>1. \A N : Window(<<>>, N, 0, 0)
    BY WindowEmpty
  <2>2. c.to \in Targets => Delivery(i, 0)
    <3>1. WritePortOf(i) \in WritePorts
      BY DEF WritePortOf, WritePorts
    <3> QED BY <1>2, <2>1, <3>1 DEF Delivery
  <2>3. RequestCount(c) # 0 => SourceAt(i, 0)
    <3> SUFFICES ASSUME RequestCount(c) # 0 PROVE SourceAt(i, 0)
      OBVIOUS
    <3>1. Made(i) = 0
      BY <1>7
    <3>2. i <= Len(program) => generated[GeneratorOf(c)] = <<>>
      BY <1>1, <1>2, OwnOps
    <3> QED BY <2>1, <3>1, <3>2 DEF SourceAt
  <2>4. RequestCount(c) # 0 /\ c.op \in Fills => FillLedger(i)
    <3> SUFFICES ASSUME RequestCount(c) # 0, c.op \in Fills PROVE FillLedger(i)
      OBVIOUS
    <3>1. c.to \in Targets /\ (i <= Len(program) => GeneratorOf(c) = "Set2d")
      BY <1>1, FillSource, OwnOps
    <3> QED BY <2>2, <2>3, <3>1 DEF FillLedger, SourceAt
  <2>5. RequestCount(c) # 0 /\ c.op \notin Fills => ReadLedger(i)
    <3> SUFFICES ASSUME RequestCount(c) # 0, c.op \notin Fills PROVE ReadLedger(i)
      OBVIOUS
    <3>1. Reading(c)
      BY <1>1, ReadingCmd
    <3>2. Done(c, 0) = 0 /\ PlanLength(c) \in Nat /\ Offset(i) = 0
      BY <1>2, <3>1, DoneBounds, ReadCounts DEF Offset
    <3>3. 0 * PlanLength(c) + Offset(i) = 0
      BY <3>2, Zero
    <3>4. Window(inputs[Port(i)], IndexOf(i), 0, 0) /\ Window(memory["MteRead"], IndexOf(i), 0, 0)
      BY <1>2, <2>1, PortType
    <3>5. Fetched(i, 0, 0, 0)
      BY <2>3, <3>4, FetchedParts
    <3>6. Stored(i, 0, 0)
      <4>1. Window(retiring, UopOf(i), 0, 0) /\ written[i] = 0
        BY <1>2, <2>1
      <4> QED BY <2>2, <4>1 DEF Stored
    <3>7. Window(acknowledged, BlockOf(i), 0, Done(c, 0))
      BY <1>2, <2>1, <3>2
    <3> QED BY <3>3, <3>5, <3>6, <3>7 DEF ReadLedger
  <2> QED BY <1>2, <2>4, <2>5 DEF Ledger
<1>9. CompletedExactly
  <2> SUFFICES ASSUME NEW i \in Started PROVE written[i] # Outputs(Cmd(i))
    BY <1>2 DEF CompletedExactly
  <2>1. i \in Ids /\ i > Len(program)
    BY <1>2, <1>3 DEF Started, Ids
  <2> QED BY <1>1, <1>6, <1>7, <1>8, <2>1, ForeignWork, Unmade
<1> QED BY <1>6, <1>8, <1>9 DEF LedgerInv

LEMMA NextLedger ==
  ASSUME Inv, LedgerInv, [Next]_vars
  PROVE  LedgerInv'
<1>1. CASE Issue
  BY <1>1, IssueLedger
<1>2. CASE \E g \in Generators : Generate(g)
  BY <1>2, GenerateLedger
<1>3. CASE \E g \in Generators \ {"Set2d"} : SendRead(g)
  BY <1>3, SendReadLedger
<1>4. CASE SendFill
  BY <1>4, SendFillLedger
<1>5. CASE \E o \in 1..Len(others) : PushOther(o)
  BY <1>5, PushOtherLedger
<1>6. CASE SendRequest \/ ReceiveResponse \/ SendOutput \/ RetireOutput
  BY <1>6, SendRequestLedger, ReceiveResponseLedger, SendOutputLedger, RetireOutputLedger
<1>7. CASE \E t \in Targets : SendWrite(t) \/ RetireWrite(t)
  BY <1>7, SendWriteLedger, RetireWriteLedger
<1>8. CASE RetireCommand \/ RejectRequest \/ BlockOutput
  BY <1>8, QuietLedger
     DEF RetireCommand, RejectRequest, BlockOutput, Same, engine, producers, reader,
         output, l0
<1>9. CASE \E i \in 1..Len(program), f \in {"wait", "set"} : Signal(f, i)
  BY <1>9, QuietLedger DEF Signal, Same, engine, producers, reader, output, l0
<1>10. CASE UNCHANGED vars
  BY <1>10, QuietLedger DEF vars, Same, engine, producers, reader, output, l0
<1> QED BY <1>1, <1>2, <1>3, <1>4, <1>5, <1>6, <1>7, <1>8, <1>9, <1>10 DEF Next, Advance

-----------------------------------------------------------------------------
(* What the ledger says of completion *)

LEMMA UnderwayParts ==
  /\ \A r : r \in ReadsUnderway <=>
       /\ \/ \E g \in Generators : r \in Range(generated[g])
          \/ \E p \in InputPorts : r \in Range(inputs[p])
          \/ r \in Range(memory["MteRead"])
          \/ r \in Range(acknowledged)
       /\ Cmd(r.id).op \in Fills \/ Request(r).to # "SparseIndex"
  /\ \A f : f \in FragmentsUnderway <=>
       \/ \E t \in Targets, p \in WritePorts : f \in Range(writes[t][p])
       \/ \E t \in Targets : f \in Range(acks[t])
       \/ f \in Range(retiring)
BY DEF ReadsUnderway, FragmentsUnderway, Fills

LEMMA RangeOf ==
  ASSUME NEW S, NEW q \in Seq(S)
  PROVE  \A x \in Range(q) : x \in S
BY DEF Range

\* What is on the way, and where.
LEMMA OnTheWay ==
  ASSUME Placed
  PROVE  /\ \A g \in Generators : \A r : r \in Range(generated[g]) => r \in MadeBy(g)
         /\ \A p \in InputPorts : \A r : r \in Range(inputs[p]) => r \in ReadsAt(p)
         /\ \A r : r \in Range(memory["MteRead"]) => r \in PathReads
         /\ \A r : r \in Range(acknowledged) => r \in OutputReads
         /\ \A t \in Targets, p \in WritePorts : \A f :
              f \in Range(writes[t][p]) => f \in WritesAt(t, p)
         /\ \A t \in Targets : \A f : f \in Range(acks[t]) => f \in WritesTo(t)
         /\ \A f : f \in Range(retiring) => f \in LastPieces
<1>1. \A S, q, x : q \in Seq(S) /\ x \in Range(q) => x \in S
  BY RangeOf
<1> QED BY <1>1 DEF Placed, SourcePlaced, InputsPlaced, OutputsPlaced, WritesPlaced,
                    RetiringPlaced

\* A window is empty when none of its entries is there.
LEMMA WindowClosed ==
  ASSUME NEW S, NEW q \in Seq(S), NEW N, NEW a \in Nat, NEW b \in Nat, Window(q, N, a, b)
  PROVE  /\ (\A x \in Range(q) : N[x] = 0) => a = b
         /\ a = b => \A x \in Range(q) : N[x] = 0
BY WindowRange

\* The source of a command that was started has made all its requests when no
\* generator is splitting it.
LEMMA MadeAll ==
  ASSUME Inv, SourcePlaced, NEW i \in Started,
         i > Len(program) => pushed[i - Len(program)] >= RequestCount(Cmd(i))
  PROVE  \/ Made(i) = RequestCount(Cmd(i))
         \/ \E g \in Generators : /\ generation[g].id = i /\ i <= Len(program)
                                  /\ generation[g].next = Made(i) + 1
                                  /\ g = GeneratorOf(Cmd(i))
<1>1. /\ Len(program) \in Nat /\ Len(others) \in Nat /\ issued \in Nat
      /\ issued <= Len(program) /\ EngineType
      /\ generation \in [Generators -> [id : 1..issued, next : Nat \ {0}] \cup {None}]
  BY ProgramType DEF Inv, TypeOK, EngineType, ProducerType
<1>2. i \in Ids /\ i \in Nat \ {0} /\ (i <= Len(program) => i <= issued)
  BY <1>1 DEF Started, Ids
<1>3. Made(i) \in 0..RequestCount(Cmd(i)) /\ RequestCount(Cmd(i)) \in Nat
  BY <1>1, <1>2, MadeBound, CountNat
<1>4. CASE i > Len(program)
  <2>1. Made(i) = pushed[i - Len(program)]
    BY <1>4 DEF Made
  <2> QED BY <1>3, <1>4, <2>1
<1>5. CASE ~(i > Len(program))
  <2> DEFINE g == GeneratorOf(Cmd(i))
  <2>1. ~(i > issued) /\ i <= Len(program)
    BY <1>1, <1>2, <1>5
  <2>2. CASE g \in Generators /\ generation[g].id = i
    <3>1. Made(i) = generation[g].next - 1
      BY <1>5, <2>1, <2>2 DEF Made
    <3>2. generation[g] # None
      BY <1>2, <2>2 DEF None
    <3>3. generation[g].next \in Nat
      BY <1>1, <2>2, <3>2
    <3> QED BY <2>1, <2>2, <3>1, <3>3
  <2>3. CASE ~(g \in Generators /\ generation[g].id = i)
    BY <1>5, <2>1, <2>3 DEF Made
  <2> QED BY <2>2, <2>3
<1> QED BY <1>4, <1>5

\* Conversely a command that a generator is splitting lacks requests.
LEMMA GeneratingFacts ==
  ASSUME Inv, SourcePlaced, NEW g \in Generators, NEW i \in Ids, generation[g].id = i
  PROVE  /\ i <= Len(program) /\ g = GeneratorOf(Cmd(i)) /\ RequestCount(Cmd(i)) # 0
         /\ Made(i) + 1 = generation[g].next /\ Made(i) < RequestCount(Cmd(i))
<1>1. /\ Len(program) \in Nat /\ issued \in Nat /\ issued <= Len(program) /\ EngineType
      /\ generation \in [Generators -> [id : 1..issued, next : Nat \ {0}] \cup {None}]
      /\ i \in Nat \ {0}
  BY ProgramType, RoutedCmd DEF Inv, TypeOK, EngineType, ProducerType
<1>2. generation[g] # None
  BY <1>1 DEF None
<1>3. generation[g] \in [id : 1..issued, next : Nat \ {0}]
  BY <1>1, <1>2
<1>4. GeneratorOf(Cmd(i)) = g /\ generation[g].next <= RequestCount(Cmd(i))
  BY <1>2 DEF SourcePlaced
<1>5. i <= issued /\ generation[g].next \in Nat \ {0}
  BY <1>3
<1>6. Made(i) = generation[g].next - 1
  BY <1>1, <1>4, <1>5 DEF Made
<1>7. RequestCount(Cmd(i)) \in Nat
  BY <1>1, CountNat
<1> QED BY <1>1, <1>4, <1>5, <1>6, <1>7

\* Entries of a command are on the way only when it has requests.
LEMMA NothingUnderway ==
  ASSUME Inv, LedgerInv, NEW i \in Ids, RequestCount(Cmd(i)) = 0
  PROVE  ~Underway(i)
<1>1. Placed /\ SourcePlaced /\ EngineType
  BY DEF LedgerInv, Placed, Inv, TypeOK
<1>2. ~ToGenerate(i)
  BY <1>1, GeneratingFacts DEF ToGenerate
<1>3. \A r \in ReadsUnderway : r.id # i
  <2>1. \A r \in Entries : r.id # i
    BY <1>1, EntryFacts
  <2>2. \A r \in ReadsUnderway : r \in Entries
    BY <1>1, OnTheWay, UnderwayParts DEF MadeBy, ReadsAt, PathReads, OutputReads
  <2> QED BY <2>1, <2>2
<1>4. \A f \in FragmentsUnderway : f.id # i
  <2>1. \A f \in Pieces : f.id # i
    BY <1>1, PieceFacts
  <2>2. \A f \in FragmentsUnderway : f \in Pieces
    BY <1>1, OnTheWay, UnderwayParts DEF WritesAt, WritesTo, LastPieces
  <2> QED BY <2>1, <2>2
<1>5. i > Len(program) => RequestCount(Cmd(i)) # 0
  BY <1>1, ForeignWork
<1> QED BY <1>2, <1>3, <1>4, <1>5 DEF Underway

\* The windows of a delivery, seen from what is underway.
LEMMA DeliveryUnderway ==
  ASSUME Inv, LedgerInv, NEW i \in Ids, Cmd(i).to \in Targets, NEW n \in Nat, Delivery(i, n)
  PROVE  written[i] = n <=> \A f \in FragmentsUnderway : f.id # i
<1>1. Placed /\ WritesPlaced /\ EngineType
  BY DEF LedgerInv, Placed, Inv, TypeOK
<1>2. PICK t, p, N, w : t = Cmd(i).to /\ p = WritePortOf(i) /\ N = PlaceOf(i) /\ w = written[i]
  OBVIOUS
<1>3. t \in Targets /\ p \in WritePorts /\ w \in Nat
  BY <1>1, <1>2 DEF WritePortOf, WritePorts, EngineType
<1>4. PICK x \in Nat : Window(writes[t][p], N, x, n) /\ Window(acks[t], N, w, x)
  BY <1>2 DEF Delivery
<1>5. writes[t][p] \in Seq(WritesAt(t, p)) /\ acks[t] \in Seq(WritesTo(t))
  BY <1>1, <1>3 DEF WritesPlaced
<1>6. x = n <=> \A f \in Range(writes[t][p]) : N[f] = 0
  BY <1>3, <1>4, <1>5, WindowClosed
<1>7. w = x <=> \A f \in Range(acks[t]) : N[f] = 0
  BY <1>3, <1>4, <1>5, WindowClosed
<1>8. w <= x /\ x <= n
  BY <1>4 DEF Window
<1>9. \A f \in Pieces : N[f] = 0 <=> f.id # i
  <2> TAKE f \in Pieces
  <2>1. N[f] = IF f.id = i THEN Place(f) ELSE 0
    BY <1>1, <1>2, PieceFacts
  <2>2. Place(f) \in 1..Outputs(Cmd(f.id)) /\ Outputs(Cmd(f.id)) \in Nat
    BY <1>1, PieceFacts, CountNat
  <2> QED BY <2>1, <2>2
<1>10. /\ \A f \in Range(writes[t][p]) : f \in Pieces
       /\ \A f \in Range(acks[t]) : f \in Pieces
  BY <1>1, <1>3, OnTheWay DEF WritesAt, WritesTo
<1>11. (\A f \in FragmentsUnderway : f.id # i) =>
         /\ \A f \in Range(writes[t][p]) : N[f] = 0
         /\ \A f \in Range(acks[t]) : N[f] = 0
  BY <1>3, <1>9, <1>10, UnderwayParts
<1>12. ASSUME \A f \in Range(writes[t][p]) : N[f] = 0, \A f \in Range(acks[t]) : N[f] = 0,
              NEW f \in FragmentsUnderway, f.id = i
       PROVE  FALSE
  <2>1. CASE f \in Range(retiring)
    <3>1. Cmd(i).to \in Locals
      BY <1>1, <1>12, <2>1, OnTheWay DEF LastPieces
    <3> QED BY <3>1 DEF Targets, Locals
  <2>2. CASE \E u \in Targets : f \in Range(acks[u])
    <3>1. PICK u \in Targets : f \in Range(acks[u])
      BY <2>2
    <3>2. f \in WritesTo(u)
      BY <1>1, <3>1, OnTheWay
    <3>3. u = t /\ f \in Pieces
      BY <1>2, <1>12, <3>2 DEF WritesTo
    <3> QED BY <1>9, <1>12, <3>1, <3>3
  <2>3. CASE \E u \in Targets, y \in WritePorts : f \in Range(writes[u][y])
    <3>1. PICK u \in Targets, y \in WritePorts : f \in Range(writes[u][y])
      BY <2>3
    <3>2. f \in WritesAt(u, y)
      BY <1>1, <3>1, OnTheWay
    <3>3. u = t /\ y = p /\ f \in Pieces
      BY <1>2, <1>12, <3>2 DEF WritesAt
    <3> QED BY <1>9, <1>12, <3>1, <3>3
  <2> QED BY <1>12, <2>1, <2>2, <2>3, UnderwayParts
<1> QED BY <1>2, <1>3, <1>6, <1>7, <1>8, <1>11, <1>12

LEMMA FillUnderway ==
  ASSUME Inv, LedgerInv, NEW i \in Started, RequestCount(Cmd(i)) # 0, Cmd(i).op \in Fills
  PROVE  written[i] = Outputs(Cmd(i)) <=> ~Underway(i)
<1> DEFINE c == Cmd(i)
           R == RequestCount(c)
<1>1. /\ Placed /\ SourcePlaced /\ EngineType /\ i \in Ids /\ i \in Nat
      /\ Len(program) \in Nat /\ Len(others) \in Nat
  <2>1. /\ issued <= Len(program) /\ issued \in Nat
        /\ Len(program) \in Nat /\ Len(others) \in Nat
    BY ProgramType DEF Inv, TypeOK, EngineType
  <2> QED BY <2>1 DEF Started, Ids, LedgerInv, Placed, Inv, TypeOK
<1>2. /\ R = Outputs(c) /\ R \in Nat /\ c.to \in Targets /\ Made(i) \in 0..R
      /\ written[i] \in Nat /\ Ledger(i)
  BY <1>1, RoutedCmd, FillCounts, MadeBound DEF EngineType, LedgerInv
<1>3. PICK s \in Nat : SourceAt(i, s) /\ Delivery(i, s)
  BY <1>1, <1>2, FillSource DEF Ledger
<1>4. i <= Len(program) => GeneratorOf(c) = "Set2d" /\ c.op = "Set2d"
  <2>1. c.op = "ExternalLoad2d" => c.op \in Foreign
    BY DEF Foreign
  <2> QED BY <1>1, <2>1, OwnOps DEF Fills
<1>5. written[i] = s <=> \A f \in FragmentsUnderway : f.id # i
  BY <1>1, <1>2, <1>3, DeliveryUnderway
<1>6. written[i] <= s
  <2>1. PICK x \in Nat : /\ Window(writes[c.to][WritePortOf(i)], PlaceOf(i), x, s)
                         /\ Window(acks[c.to], PlaceOf(i), written[i], x)
    BY <1>3 DEF Delivery
  <2>2. written[i] <= x /\ x <= s
    BY <2>1 DEF Window
  <2> QED BY <1>2, <2>1, <2>2
\* Only the generator holds requests of a fill.
<1>7. ASSUME NEW r \in ReadsUnderway, r.id = i
      PROVE  /\ i <= Len(program) /\ r \in Range(generated["Set2d"])
             /\ r \in Entries
  <2>1. r \notin PathReads
    BY <1>7 DEF PathReads
  <2>2. \E g \in Generators : r \in Range(generated[g])
    BY <1>1, <2>1, OnTheWay, UnderwayParts DEF ReadsAt, OutputReads
  <2>3. PICK g \in Generators : r \in Range(generated[g])
    BY <2>2
  <2>4. r \in MadeBy(g)
    BY <1>1, <2>3, OnTheWay
  <2>5. r \in Entries /\ i <= Len(program) /\ GeneratorOf(c) = g
    BY <1>7, <2>4 DEF MadeBy
  <2> QED BY <1>4, <2>3, <2>5
<1>8. s <= Made(i) /\ (s = Made(i) <=> \A r \in ReadsUnderway : r.id # i)
  <2>1. CASE ~(i <= Len(program))
    <3>1. s = Made(i)
      BY <1>3, <2>1 DEF SourceAt
    <3> QED BY <1>2, <1>7, <2>1, <3>1
  <2>2. CASE i <= Len(program)
    <3> DEFINE q == generated["Set2d"]
               N == IndexOf(i)
               M == Made(i)
    <3>1. Window(q, N, s, M) /\ M \in Nat /\ q \in Seq(MadeBy("Set2d"))
      BY <1>1, <1>2, <1>3, <1>4, <2>2 DEF SourceAt, SourcePlaced, Generators
    <3>2. s <= M /\ (s = M <=> \A r \in Range(q) : N[r] = 0)
      <4> HIDE DEF q, N, M
      <4>1. s <= M
        BY <3>1 DEF Window
      <4> QED BY <3>1, <4>1, WindowClosed
    <3>3. \A r \in Range(q) : r \in Entries /\ (N[r] = 0 <=> r.id # i)
      <4> SUFFICES ASSUME NEW r \in Range(q)
                   PROVE  r \in Entries /\ (N[r] = 0 <=> r.id # i)
        OBVIOUS
      <4>1. r \in Entries
        BY <1>1, OnTheWay DEF MadeBy, Generators
      <4>2. N[r] = (IF r.id = i THEN r.index ELSE 0) /\ r.index \in Nat \ {0}
        BY <1>1, <4>1, EntryFacts
      <4> QED BY <4>1, <4>2
    <3>4. \A r \in Range(q) : r.id = i => r \in ReadsUnderway
      BY UnderwayParts DEF Generators
    <3>5. (\A r \in Range(q) : N[r] = 0) <=> \A r \in ReadsUnderway : r.id # i
      BY <1>7, <3>3, <3>4
    <3> QED BY <3>2, <3>5
  <2> QED BY <2>1, <2>2
<1>9. Made(i) = R <=> /\ ~ToGenerate(i)
                      /\ i > Len(program) => ~(pushed[i - Len(program)] < R)
  <2>1. i > Len(program) => Made(i) = pushed[i - Len(program)]
    BY DEF Made
  <2>2. Made(i) = R => ~ToGenerate(i)
    BY <1>1, <1>2, GeneratingFacts DEF ToGenerate
  <2>3. ASSUME ~ToGenerate(i), i > Len(program) => ~(pushed[i - Len(program)] < R), Made(i) # R
        PROVE  FALSE
    <3>1. ~(i > Len(program)) /\ i <= Len(program)
      BY <1>1, <1>2, <2>1, <2>3
    <3>2. PICK g \in Generators : generation[g].id = i /\ generation[g].next = Made(i) + 1
      BY <1>1, <2>3, <3>1, MadeAll
    <3>3. generation[g].next \in generation[g].next..R
      BY <1>2, <2>3, <3>2
    <3> QED BY <1>4, <2>3, <3>1, <3>2, <3>3 DEF ToGenerate
  <2> QED BY <1>2, <2>1, <2>2, <2>3
<1>10. written[i] = R <=> written[i] = s /\ s = Made(i) /\ Made(i) = R
  BY <1>2, <1>6, <1>8
<1>11. ~Underway(i) <=>
         /\ ~ToGenerate(i)
         /\ \A r \in ReadsUnderway : r.id # i
         /\ \A f \in FragmentsUnderway : f.id # i
         /\ i > Len(program) => ~(pushed[i - Len(program)] < R)
  BY DEF Underway
<1> QED BY <1>2, <1>5, <1>8, <1>9, <1>10, <1>11

\* A request that has no output: the indices of a sparse LOAD2D.
Sparse(i, k) == Cmd(i).op = "Load2dSparse" /\ Logical(k) % 2 = 0

\* The reads of a command in a window have no output when none in the range has.
LEMMA ReadsSeen ==
  ASSUME EngineType, NEW i \in Ids, Reading(Cmd(i)), NEW q \in Seq(Entries),
         NEW a \in Nat, NEW b \in Nat, Window(q, IndexOf(i), a, b)
  PROVE  (\A r \in Range(q) : r.id = i => Request(r).to = "SparseIndex")
           <=> \A k \in (a + 1)..b : Sparse(i, k)
<1>1. PICK N : N = IndexOf(i)
  OBVIOUS
<1>2. /\ \A r \in Range(q) : N[r] # 0 => N[r] \in (a + 1)..b
      /\ \A k \in (a + 1)..b : \E r \in Range(q) : N[r] = k
  <2>1. Window(q, N, a, b)
    BY <1>1
  <2> QED BY <2>1, WindowRange
<1>3. ASSUME NEW r \in Range(q)
      PROVE  /\ N[r] = (IF r.id = i THEN r.index ELSE 0) /\ r.index \in Nat \ {0}
             /\ r.id = i => (Request(r).to = "SparseIndex" <=> Sparse(i, r.index))
  <2>1. r \in Entries
    BY <1>3, RangeOf
  <2>2. /\ N[r] = (IF r.id = i THEN r.index ELSE 0) /\ r.index \in Nat \ {0}
        /\ r.index \in 1..RequestCount(Cmd(r.id))
    BY <1>1, <2>1, EntryFacts
  <2>3. r.id = i => (Request(r).to = "SparseIndex" <=> Sparse(i, r.index))
    BY <2>2, RequestFacts DEF Sparse
  <2> QED BY <2>2, <2>3
<1>4. ASSUME \A r \in Range(q) : r.id = i => Request(r).to = "SparseIndex",
             NEW k \in (a + 1)..b
      PROVE  Sparse(i, k)
  <2>1. PICK r \in Range(q) : N[r] = k
    BY <1>2
  <2>2. k # 0
    OBVIOUS
  <2>3. r.id = i /\ r.index = k
    BY <1>3, <2>1, <2>2
  <2> QED BY <1>3, <1>4, <2>3
<1>5. ASSUME \A k \in (a + 1)..b : Sparse(i, k), NEW r \in Range(q), r.id = i
      PROVE  Request(r).to = "SparseIndex"
  <2>1. N[r] = r.index /\ N[r] # 0
    BY <1>3, <1>5
  <2>2. r.index \in (a + 1)..b
    BY <1>2, <2>1
  <2> QED BY <1>3, <1>5, <2>2
<1> QED BY <1>4, <1>5

\* The requests still to be made have no output, seen from the source.
LEMMA SourceUnderway ==
  ASSUME Inv, LedgerInv, NEW i \in Started, Reading(Cmd(i))
  PROVE  /\ ~ToGenerate(i)
         /\ i > Len(program) => ~(pushed[i - Len(program)] < RequestCount(Cmd(i)))
         <=> \A k \in (Made(i) + 1)..RequestCount(Cmd(i)) : Sparse(i, k)
<1> DEFINE c == Cmd(i)
           R == RequestCount(c)
<1>1. /\ Placed /\ SourcePlaced /\ EngineType /\ i \in Ids /\ i \in Nat
      /\ Len(program) \in Nat /\ Len(others) \in Nat
  <2>1. /\ issued <= Len(program) /\ issued \in Nat
        /\ Len(program) \in Nat /\ Len(others) \in Nat
    BY ProgramType DEF Inv, TypeOK, EngineType
  <2> QED BY <2>1 DEF Started, Ids, LedgerInv, Placed, Inv, TypeOK
<1>2. R \in Nat /\ Made(i) \in 0..R
  BY <1>1, MadeBound, CountNat
<1>3. CASE i > Len(program)
  <2>1. ~ToGenerate(i)
    BY <1>1, <1>3, GeneratingFacts DEF ToGenerate
  <2>2. Made(i) = pushed[i - Len(program)]
    BY <1>3 DEF Made
  <2>3. c.op # "Load2dSparse"
    BY <1>1, <1>3, OwnOps DEF Foreign
  <2>4. (\A k \in (Made(i) + 1)..R : Sparse(i, k)) <=> Made(i) = R
    <3>1. (\A k \in (Made(i) + 1)..R : Sparse(i, k)) <=> ~\E k \in (Made(i) + 1)..R : TRUE
      BY <2>3 DEF Sparse
    <3>2. (\E k \in (Made(i) + 1)..R : TRUE) <=> Made(i) # R
      <4>1. Made(i) # R => R \in (Made(i) + 1)..R
        BY <1>2
      <4>2. Made(i) = R => (Made(i) + 1)..R = {}
        BY <1>2
      <4> QED BY <4>1, <4>2
    <3> QED BY <3>1, <3>2
  <2> QED BY <1>2, <1>3, <2>1, <2>2, <2>4
<1>4. CASE ~(i > Len(program)) /\ \E g \in Generators : generation[g].id = i
  <2>1. PICK g \in Generators : generation[g].id = i
    BY <1>4
  <2>2. \A h \in Generators : generation[h].id = i => generation[h].next = Made(i) + 1
    BY <1>1, GeneratingFacts
  <2>3. c.op # "Set2d"
    BY DEF Reading, Fills
  <2>4. ToGenerate(i) <=> \E k \in (Made(i) + 1)..R :
                            Request([id |-> i, index |-> k]).to # "SparseIndex"
    BY <2>1, <2>2, <2>3 DEF ToGenerate
  <2>5. ASSUME NEW k \in (Made(i) + 1)..R
        PROVE  Request([id |-> i, index |-> k]).to = "SparseIndex" <=> Sparse(i, k)
    <3>1. k \in 1..R
      BY <1>2
    <3>2. PICK r : r = [id |-> i, index |-> k]
      OBVIOUS
    <3>3. r.id = i /\ r.index = k
      BY <3>2
    <3>4. Request(r).to = "SparseIndex" <=> Sparse(i, k)
      BY <3>1, <3>3, RequestFacts DEF Sparse
    <3> QED BY <3>2, <3>4
  <2> QED BY <1>4, <2>4, <2>5
<1>5. CASE ~(i > Len(program)) /\ ~\E g \in Generators : generation[g].id = i
  <2>1. Made(i) = R
    BY <1>1, <1>5, MadeAll
  <2>2. (Made(i) + 1)..R = {}
    BY <1>2, <2>1
  <2>3. ~ToGenerate(i)
    BY <1>5 DEF ToGenerate
  <2> QED BY <1>5, <2>2, <2>3
<1> QED BY <1>3, <1>4, <1>5

\* The reads of a command on the way, queue by queue.
LEMMA ReadsParts ==
  ASSUME Inv, LedgerInv, NEW i \in Ids, Reading(Cmd(i))
  PROVE  (\A r \in ReadsUnderway : r.id # i) <=>
           /\ i <= Len(program) =>
                \A r \in Range(generated[GeneratorOf(Cmd(i))]) :
                  r.id = i => Request(r).to = "SparseIndex"
           /\ \A r \in Range(inputs[Port(i)]) : r.id = i => Request(r).to = "SparseIndex"
           /\ \A r \in Range(memory["MteRead"]) : r.id = i => Request(r).to = "SparseIndex"
           /\ \A r \in Range(acknowledged) : r.id # i
<1>1. Placed /\ EngineType
  BY DEF LedgerInv, Placed, Inv, TypeOK
<1>2. Cmd(i).op \notin Fills
  BY DEF Reading, Fills
<1>3. \A r : r \in Range(acknowledged) => Request(r).to # "SparseIndex"
  BY <1>1, OnTheWay, OutputFacts
<1>4. \A g \in Generators : \A r : r \in Range(generated[g]) /\ r.id = i =>
        i <= Len(program) /\ g = GeneratorOf(Cmd(i))
  BY <1>1, OnTheWay DEF MadeBy
<1>5. \A p \in InputPorts : \A r : r \in Range(inputs[p]) /\ r.id = i => p = Port(i)
  BY <1>1, OnTheWay DEF ReadsAt
<1>6. Port(i) \in InputPorts
  BY PortType
<1>7. i <= Len(program) => GeneratorOf(Cmd(i)) \in Generators
  <2>1. RequestCount(Cmd(i)) # 0
    BY ReadCounts
  <2> QED BY <1>1, <2>1, OwnOps
<1>8. ASSUME NEW r, r.id = i
      PROVE  r \in ReadsUnderway <=>
               \/ /\ \/ i <= Len(program) /\ r \in Range(generated[GeneratorOf(Cmd(i))])
                     \/ r \in Range(inputs[Port(i)])
                     \/ r \in Range(memory["MteRead"])
                  /\ Request(r).to # "SparseIndex"
               \/ r \in Range(acknowledged)
  <2>1. (\E g \in Generators : r \in Range(generated[g])) <=>
          i <= Len(program) /\ r \in Range(generated[GeneratorOf(Cmd(i))])
    BY <1>4, <1>7, <1>8
  <2>2. (\E p \in InputPorts : r \in Range(inputs[p])) <=> r \in Range(inputs[Port(i)])
    BY <1>5, <1>6, <1>8
  <2>3. r \in Range(acknowledged) => Request(r).to # "SparseIndex"
    BY <1>3
  <2> QED BY <1>2, <1>8, <2>1, <2>2, <2>3, UnderwayParts
<1> QED BY <1>8

\* Nothing is left to read when all the outputs of a command have been sent.
LEMMA ReadsLeft ==
  ASSUME Inv, LedgerInv, NEW i \in Started, Reading(Cmd(i)),
         NEW s \in Nat, NEW m \in Nat, NEW a \in Nat, NEW z \in Nat, Fetched(i, s, m, a),
         Window(acknowledged, BlockOf(i), z, Done(Cmd(i), a))
  PROVE  z = Blocks(Cmd(i)) <=>
           /\ ~ToGenerate(i)
           /\ \A r \in ReadsUnderway : r.id # i
           /\ i > Len(program) => ~(pushed[i - Len(program)] < RequestCount(Cmd(i)))
<1> DEFINE c == Cmd(i)
           R == RequestCount(c)
<1>1. /\ Placed /\ SourcePlaced /\ InputsPlaced /\ OutputsPlaced /\ OffsetHolds /\ EngineType
      /\ i \in Ids /\ i \in Nat /\ Len(program) \in Nat
  <2>1. /\ issued <= Len(program) /\ issued \in Nat
        /\ Len(program) \in Nat /\ Len(others) \in Nat
    BY ProgramType DEF Inv, TypeOK, EngineType
  <2> QED BY <2>1 DEF Started, Ids, LedgerInv, Placed, Inv, TypeOK
<1>2. /\ a <= m /\ m <= s /\ s <= Made(i) /\ Made(i) \in 0..R /\ R \in Nat
      /\ a \in 0..R /\ Done(c, a) \in 0..Blocks(c) /\ z \in 0..Done(c, a) /\ Blocks(c) \in Nat
  BY <1>1, ReadChain, ReadCounts
<1>3. /\ SourceAt(i, s) /\ Window(inputs[Port(i)], IndexOf(i), m, s)
      /\ Window(memory["MteRead"], IndexOf(i), a, m)
  BY FetchedParts
<1>4. i <= Len(program) => GeneratorOf(c) \in Generators
  BY <1>1, ReadCounts, OwnOps
<1>5. /\ inputs[Port(i)] \in Seq(Entries) /\ memory["MteRead"] \in Seq(Entries)
      /\ acknowledged \in Seq(OutputReads)
      /\ i <= Len(program) => generated[GeneratorOf(c)] \in Seq(Entries)
  <2>1. inputs[Port(i)] \in Seq(ReadsAt(Port(i))) /\ memory["MteRead"] \in Seq(PathReads)
    BY <1>1, PortType DEF InputsPlaced, OutputsPlaced
  <2>2. i <= Len(program) => generated[GeneratorOf(c)] \in Seq(MadeBy(GeneratorOf(c)))
    BY <1>1, <1>4 DEF SourcePlaced
  <2>3. /\ ReadsAt(Port(i)) \subseteq Entries /\ PathReads \subseteq Entries
        /\ MadeBy(GeneratorOf(c)) \subseteq Entries
    BY DEF ReadsAt, PathReads, MadeBy
  <2>4. \A S, T : S \subseteq T => Seq(S) \subseteq Seq(T)
    BY MoreSequences
  <2>5. acknowledged \in Seq(OutputReads)
    BY <1>1 DEF OutputsPlaced
  <2> QED BY <2>1, <2>2, <2>3, <2>4, <2>5
<1>6. (\A r \in Range(memory["MteRead"]) : r.id = i => Request(r).to = "SparseIndex")
        <=> \A k \in (a + 1)..m : Sparse(i, k)
  BY <1>1, <1>3, <1>5, ReadsSeen
<1>7. (\A r \in Range(inputs[Port(i)]) : r.id = i => Request(r).to = "SparseIndex")
        <=> \A k \in (m + 1)..s : Sparse(i, k)
  BY <1>1, <1>3, <1>5, ReadsSeen
<1>8. (i <= Len(program) =>
         \A r \in Range(generated[GeneratorOf(c)]) :
           r.id = i => Request(r).to = "SparseIndex")
        <=> \A k \in (s + 1)..Made(i) : Sparse(i, k)
  <2>1. CASE i <= Len(program)
    <3>1. Window(generated[GeneratorOf(c)], IndexOf(i), s, Made(i)) /\ Made(i) \in Nat
      BY <1>2, <1>3, <2>1 DEF SourceAt
    <3> QED BY <1>1, <1>5, <2>1, <3>1, ReadsSeen
  <2>2. CASE ~(i <= Len(program))
    <3>1. s = Made(i)
      BY <1>3, <2>2 DEF SourceAt
    <3>2. (s + 1)..Made(i) = {}
      BY <3>1
    <3> QED BY <2>2, <3>2
  <2> QED BY <2>1, <2>2
<1>9. (\A r \in Range(acknowledged) : r.id # i) <=> z = Done(c, a)
  <2>1. PICK N, d : N = BlockOf(i) /\ d = Done(c, a)
    OBVIOUS
  <2>2. z = d <=> \A r \in Range(acknowledged) : N[r] = 0
    <3>1. d \in Nat
      BY <1>2, <2>1
    <3> QED BY <1>5, <2>1, <3>1, WindowClosed
  <2>3. ASSUME NEW r \in Range(acknowledged)
        PROVE  N[r] = 0 <=> r.id # i
    <3>1. r \in OutputReads
      BY <1>1, <2>3, OnTheWay
    <3>2. /\ N[r] = IF r.id = i THEN Done(c, r.index) ELSE 0
          /\ Done(Cmd(r.id), r.index) \in 1..Blocks(Cmd(r.id))
      BY <1>1, <2>1, <3>1, OutputFacts
    <3>3. r.id = i => N[r] \in 1..Blocks(c)
      BY <3>2
    <3> QED BY <1>2, <3>2, <3>3
  <2> QED BY <2>1, <2>2, <2>3
<1>10. Done(c, a) = Blocks(c) <=> \A k \in (a + 1)..R : Sparse(i, k)
  BY <1>2, DoneAll DEF Sparse
<1>11. (\A k \in (a + 1)..R : Sparse(i, k)) <=>
         /\ \A k \in (a + 1)..m : Sparse(i, k)
         /\ \A k \in (m + 1)..s : Sparse(i, k)
         /\ \A k \in (s + 1)..Made(i) : Sparse(i, k)
         /\ \A k \in (Made(i) + 1)..R : Sparse(i, k)
  <2>1. (a + 1)..R = (((a + 1)..m \cup (m + 1)..s) \cup (s + 1)..Made(i)) \cup (Made(i) + 1)..R
    BY <1>2
  <2> QED BY <2>1
<1>12. /\ ~ToGenerate(i)
       /\ i > Len(program) => ~(pushed[i - Len(program)] < R)
       <=> \A k \in (Made(i) + 1)..R : Sparse(i, k)
  BY SourceUnderway
<1>13. (\A r \in ReadsUnderway : r.id # i) <=>
         /\ z = Done(c, a)
         /\ \A k \in (a + 1)..m : Sparse(i, k)
         /\ \A k \in (m + 1)..s : Sparse(i, k)
         /\ \A k \in (s + 1)..Made(i) : Sparse(i, k)
  BY <1>1, <1>6, <1>7, <1>8, <1>9, ReadsParts
<1>14. z = Blocks(c) <=> z = Done(c, a) /\ Done(c, a) = Blocks(c)
  BY <1>2
<1> QED BY <1>10, <1>11, <1>12, <1>13, <1>14

\* Nothing is on its way to a destination when all that was sent has arrived.
LEMMA PiecesLeft ==
  ASSUME Inv, LedgerInv, NEW i \in Ids, Reading(Cmd(i)), NEW z \in Nat, NEW n \in Nat,
         Stored(i, z, n)
  PROVE  written[i] = n <=> \A f \in FragmentsUnderway : f.id # i
<1>1. Placed /\ RetiringPlaced /\ EngineType /\ written[i] \in Nat
  BY DEF LedgerInv, Placed, Inv, TypeOK, EngineType
<1>2. CASE Cmd(i).to \in Targets
  <2>1. Delivery(i, n)
    BY <1>2 DEF Stored
  <2> QED BY <1>2, <2>1, DeliveryUnderway
<1>3. CASE Cmd(i).to \notin Targets
  <2>1. \A f \in FragmentsUnderway : f.id = i => f \in Range(retiring)
    <3>1. \A t \in Targets, p \in WritePorts : \A f : f \in Range(writes[t][p]) => Cmd(f.id).to = t
      BY <1>1, OnTheWay DEF WritesAt
    <3>2. \A t \in Targets : \A f : f \in Range(acks[t]) => Cmd(f.id).to = t
      BY <1>1, OnTheWay DEF WritesTo
    <3> QED BY <1>3, <3>1, <3>2, UnderwayParts
  <2>2. (\A f \in FragmentsUnderway : f.id # i) <=> \A f \in Range(retiring) : f.id # i
    BY <2>1, UnderwayParts
  <2>3. CASE Cmd(i).to \in Locals
    <3>1. PICK x \in Nat : Window(retiring, UopOf(i), x, z) /\ written[i] + (z - x) = n
      BY <2>3 DEF Stored
    <3>2. PICK N : N = UopOf(i)
      OBVIOUS
    <3>3. x = z <=> \A f \in Range(retiring) : N[f] = 0
      BY <1>1, <3>1, <3>2, WindowClosed DEF RetiringPlaced
    <3>4. ASSUME NEW f \in Range(retiring)
          PROVE  N[f] = 0 <=> f.id # i
      <4>1. f \in LastPieces
        BY <1>1, <3>4, OnTheWay
      <4>2. /\ N[f] = IF f.id = i THEN Done(Cmd(i), f.index) ELSE 0
            /\ Done(Cmd(f.id), f.index) \in 1..Blocks(Cmd(f.id))
        BY <1>1, <3>2, <4>1, LastPieceFacts
      <4>3. Blocks(Cmd(i)) \in Nat
        BY ReadCounts
      <4>4. f.id = i => N[f] \in 1..Blocks(Cmd(i))
        BY <4>2
      <4> QED BY <4>2, <4>3, <4>4
    <3>5. written[i] = n <=> x = z
      BY <1>1, <3>1
    <3> QED BY <2>2, <3>3, <3>4, <3>5
  <2>4. CASE Cmd(i).to \notin Locals
    <3>1. Cmd(i).to = "External"
      BY <1>3, <2>4, ReadingTo
    <3>2. written[i] = n
      BY <3>1 DEF Stored
    <3>3. \A f \in Range(retiring) : f.id # i
      BY <1>1, <2>4, OnTheWay DEF LastPieces
    <3> QED BY <2>2, <3>2, <3>3
  <2> QED BY <2>3, <2>4
<1> QED BY <1>2, <1>3

LEMMA ReadUnderway ==
  ASSUME Inv, LedgerInv, NEW i \in Started, RequestCount(Cmd(i)) # 0, Cmd(i).op \notin Fills
  PROVE  written[i] = Outputs(Cmd(i)) <=> ~Underway(i)
<1>1. Placed /\ OffsetHolds /\ EngineType /\ i \in Ids
  <2>1. /\ issued <= Len(program) /\ issued \in Nat
        /\ Len(program) \in Nat /\ Len(others) \in Nat
    BY ProgramType DEF Inv, TypeOK, EngineType
  <2> QED BY <2>1 DEF Started, Ids, LedgerInv, Inv, TypeOK
<1>2. Reading(Cmd(i)) /\ Ledger(i)
  BY <1>1, ReadingCmd DEF LedgerInv
<1>3. ReadLedger(i)
  BY <1>2 DEF Ledger
<1>4. PICK s, m, a, z \in Nat :
        /\ Fetched(i, s, m, a)
        /\ Window(acknowledged, BlockOf(i), z, Done(Cmd(i), a))
        /\ Stored(i, z, z * PlanLength(Cmd(i)) + Offset(i))
  BY <1>3 DEF ReadLedger
<1>5. PICK n : n = z * PlanLength(Cmd(i)) + Offset(i)
  OBVIOUS
<1>6. /\ n \in 0..Outputs(Cmd(i)) /\ written[i] \in 0..n
      /\ n = Outputs(Cmd(i)) <=> z = Blocks(Cmd(i))
  BY <1>1, <1>2, <1>4, <1>5, SentBound
<1>7. z = Blocks(Cmd(i)) <=>
        /\ ~ToGenerate(i)
        /\ \A r \in ReadsUnderway : r.id # i
        /\ i > Len(program) => ~(pushed[i - Len(program)] < RequestCount(Cmd(i)))
  BY <1>2, <1>4, ReadsLeft
<1>8. n \in Nat /\ Outputs(Cmd(i)) \in Nat
  BY <1>1, <1>6, CountNat
<1>9. written[i] = n <=> \A f \in FragmentsUnderway : f.id # i
  BY <1>1, <1>2, <1>4, <1>5, <1>8, PiecesLeft
<1>10. written[i] = Outputs(Cmd(i)) <=> written[i] = n /\ n = Outputs(Cmd(i))
  BY <1>6, <1>8
<1> QED BY <1>6, <1>7, <1>9, <1>10 DEF Underway

LEMMA LedgerImplies ==
  ASSUME Inv, LedgerInv
  PROVE  CompletedWhenWritten
<1>1. EngineType /\ CompletedExactly /\ Started \subseteq Ids
  <2>1. /\ issued <= Len(program) /\ issued \in Nat
        /\ Len(program) \in Nat /\ Len(others) \in Nat
    BY ProgramType DEF Inv, TypeOK, EngineType
  <2> QED BY <2>1 DEF Started, Ids, LedgerInv, Inv, TypeOK
<1>2. ASSUME NEW i \in Started
      PROVE  written[i] = Outputs(Cmd(i)) <=> ~Underway(i)
  <2>1. CASE RequestCount(Cmd(i)) = 0
    <3>1. Routed(Cmd(i)) /\ Ledger(i)
      BY <1>1, RoutedCmd DEF LedgerInv
    <3>2. written[i] = 0 /\ Outputs(Cmd(i)) = 0
      BY <2>1, <3>1, NothingCounts DEF Ledger
    <3> QED BY <1>1, <2>1, <3>2, NothingUnderway
  <2> QED BY <2>1, FillUnderway, ReadUnderway
<1> QED BY <1>1, <1>2 DEF CompletedWhenWritten, CompletedExactly

\* A command on the path of MTE1, or of another user of the L1 interface, is
\* reported complete exactly when nothing it writes is on its way any more, and
\* then every fragment has arrived: last_in_instruction, which the callbacks of
\* advance_inner act on, is on the fragment that arrives last.
THEOREM CompletionExact == Spec => []CompletedWhenWritten
<1>1. Inv /\ LedgerInv /\ [Next]_vars => LedgerInv'
  BY NextLedger
<1>2. Inv /\ LedgerInv => CompletedWhenWritten
  BY LedgerImplies
<1> QED BY <1>1, <1>2, InitLedger, InvAlways, PTL DEF Spec
=============================================================================
