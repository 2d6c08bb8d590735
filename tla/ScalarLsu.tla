----------------------------- MODULE ScalarLsu -----------------------------
(***************************************************************************)
(* The scalar load/store unit with its data cache: the request pipeline of *)
(* LsuPipeline, the miss buffer, the coalescing store buffer, the direct   *)
(* store buffer, the read and write queues, the cache, cache maintenance   *)
(* and the memories behind it.                                             *)
(*                                                                         *)
(* advance_lsu_at runs one tick as a fixed sequence of phases; `phase' is  *)
(* the one that comes next.  An arrival (an instruction, a read response,  *)
(* a write acknowledgement) may or may not be there in its phase: memory   *)
(* latency, port acceptance and the ageing of queue heads are that choice. *)
(* UB responses arrive in order, external ones in any order.               *)
(*                                                                         *)
(* A line is <<memory, address>>.  A store writes its request number plus  *)
(* one to every byte it covers, so a value names its writer; 0 is the      *)
(* initial content.  Replacement counters are left out: when every way is  *)
(* valid any of them may be the victim.  There is one cache set and no     *)
(* stack partition.  Pair instructions and atomic stores are left out.  An *)
(* error return ends the simulation: `failure' names it and no step        *)
(* follows.                                                                *)
(***************************************************************************)
EXTENDS LsuPipeline, FiniteSets, FiniteSetsExt, SequencesExt

CONSTANTS
  Lines,            \* the lines the program touches: <<"Ub" | "External", address>>
  Operations,       \* the instructions the program may contain
  Offsets,          \* byte offsets in a line
  Ways,             \* cache ways
  MissEntries, MissSubs,      \* main_entries and sub_entries of the miss buffer
  StoreEntries, StoreSubs,    \* main_entries and sub_entries of the store buffer
  Timeout,          \* timeout_ticks of a store-buffer entry
  DirectCapacity,   \* direct_store_capacity
  ReadCapacity, WriteCapacity,
  CacheUb,          \* cache_ub
  UbWriteAllocate   \* ub_write_allocate

Ub(line) == line[1] = "Ub"
External(line) == line[1] = "External"
ZeroLine == <<"External", 0>>
Kinds == {"load", "store", "direct", "preload", "clean"}
Targets == {"Line", "All", "Ub", "External"}  \* scope of a clean
Operation == [kind : Kinds, line : Lines, bytes : SUBSET Offsets, target : Targets]

ASSUME LsuAssumption ==
  /\ Lines \subseteq {"Ub", "External"} \X Nat
  /\ Operations \subseteq Operation
  /\ \A op \in Operations :
       /\ op.kind \in {"load", "store", "direct"} =>
            \E a, b \in Offsets : a <= b /\ op.bytes = a..b
       /\ op.kind \in {"direct", "clean"} => External(op.line)
  /\ IsFiniteSet(Offsets) /\ Offsets = 0..Cardinality(Offsets) - 1
  /\ {MissEntries, MissSubs, StoreEntries, StoreSubs, Timeout, DirectCapacity,
      ReadCapacity, WriteCapacity} \subseteq Nat
  /\ Ways \in Nat \ {0}
  /\ {CacheUb, UbWriteAllocate} \subseteq BOOLEAN

VARIABLES
  phase,        \* next phase of advance_lsu_at
  ops,          \* admitted requests
  lookup,       \* their tag lookup: NotLooked, 0 for a miss, or the way
  misses,       \* line -> miss-buffer entry
  stores,       \* store-buffer entries, oldest first
  direct,       \* direct-store entries, oldest first
  reads,        \* read requests, oldest first
  writes,       \* write requests, oldest first
  evict,        \* address -> eviction_data
  cache,        \* way -> tag and data
  memory,       \* line -> content of the backing memory
  storeEvent,   \* store_next_tick is set
  directEvent,  \* a direct-store event is pending
  maintActive,  \* maintenance_active
  maintRelease, \* maintenance_release_tick: "none", "next" or "now"
  results,      \* load -> the bytes it returned
  done,         \* completed requests
  raced,        \* history: a lookup was used after a refill changed it, a refill took the
                \* way of a UB write, or a direct store was written a second time
  failure       \* the error that ended the simulation, or "none"

buffers == <<misses, stores, direct>>
queues == <<reads, writes>>
storage == <<cache, memory, evict>>
events == <<storeEvent, directEvent>>
maint == <<maintActive, maintRelease>>
outcome == <<results, done>>
vars == <<pipeVars, phase, ops, lookup, buffers, queues, storage, events, maint, outcome, raced, failure>>


Requests == 0..MaxRequests - 1
Data == [Offsets -> 0..MaxRequests]
Op(id) == ops[id + 1]
NotLooked == -1
EmptyLine == [o \in Offsets |-> 0]

Phases == <<"admit", "ubWrite", "ubRead", "externalRead", "externalWrite", "direct",
            "stores", "flush", "release", "M2", "M1", "M0", "sendReads", "sendWrites">>

TypeOK ==
  /\ PipeTypeOK
  /\ phase \in ToSet(Phases) \cup {"failed"}
  /\ Len(ops) = admitted
  /\ ToSet(ops) \subseteq Operations
  /\ Len(lookup) = admitted
  /\ ToSet(lookup) \subseteq NotLooked..Ways
  /\ DOMAIN misses \subseteq Lines
  /\ \A l \in DOMAIN misses :
       misses[l].state \in {"Idle", "Fetching"} /\ ToSet(misses[l].requests) \subseteq Requests
  /\ \A e \in ToSet(stores) :
       /\ e.line \in Lines
       /\ e.state \in {"Idle", "Fetching", "Ready"}
       /\ e.hit \in BOOLEAN /\ e.forbidden \in BOOLEAN
       /\ e.remaining \in 0..Timeout
       /\ ToSet(e.requests) \subseteq Requests
       /\ e.bytes \in Data /\ e.valid \subseteq Offsets
  /\ \A r \in ToSet(reads) :
       r \in [line : Lines, owner : {"Miss", "Store"}, state : {"Queued", "InFlight"}]
  /\ \A w \in ToSet(writes) :
       w \in [line : Lines \cup {ZeroLine}, state : {"Queued", "InFlight"}, way : 0..Ways]
  /\ \A d \in ToSet(direct) : d \in [line : Lines, request : Requests, bytes : Data]
  /\ cache \in [1..Ways -> [line : Lines \cup {ZeroLine}, valid : BOOLEAN,
                            dirty : BOOLEAN, data : Data]]
  /\ memory \in [Lines -> Data]
  /\ DOMAIN evict \subseteq Nat
  /\ {storeEvent, directEvent, maintActive, raced} \subseteq BOOLEAN
  /\ maintRelease \in {"none", "next", "now"}
  /\ done \subseteq Requests

Init ==
  /\ PipeInit
  /\ phase = "admit"
  /\ ops = <<>>
  /\ lookup = <<>>
  /\ misses = <<>>
  /\ stores = <<>>
  /\ direct = <<>>
  /\ reads = <<>>
  /\ writes = <<>>
  /\ evict = <<>>
  /\ cache = [w \in 1..Ways |-> [line |-> ZeroLine, valid |-> FALSE,
                                 dirty |-> FALSE, data |-> EmptyLine]]
  /\ memory = [l \in Lines |-> EmptyLine]
  /\ storeEvent = FALSE
  /\ directEvent = FALSE
  /\ maintActive = FALSE
  /\ maintRelease = "none"
  /\ results = <<>>
  /\ done = {}
  /\ raced = FALSE
  /\ failure = "none"

Then(p) ==
  LET i == CHOOSE i \in DOMAIN Phases : Phases[i] = p
  IN  phase = p /\ phase' = Phases[(i % Len(Phases)) + 1]

\* An error return: nothing else changes and the simulation ends.  A missing
\* cache line means that the lookup of a store hit went stale.
Fail(p, why) ==
  /\ phase = p
  /\ phase' = "failed"
  /\ failure' = why
  /\ raced' = (raced \/ why = "MissingCacheLine")
  /\ UNCHANGED <<pipeVars, ops, lookup, buffers, queues, storage, events, maint, outcome>>

\* The phase finds nothing to do.
Pass(p) ==
  /\ Then(p)
  /\ UNCHANGED <<pipeVars, ops, lookup, buffers, queues, storage, events, maint, outcome, raced, failure>>
-----------------------------------------------------------------------------
(* Cache *)

\* find_way: the valid bit does not matter.
FindWay(line) == Min({w \in 1..Ways : cache[w].line = line} \cup {Ways + 1}) % (Ways + 1)

\* lookup: 0 when no valid way holds the line.
Lookup(line) ==
  Min({w \in 1..Ways : cache[w].valid /\ cache[w].line = line} \cup {Ways + 1}) % (Ways + 1)

\* lookup_maintenance compares the address in either memory.
LookupMaintenance(line) ==
  Min({w \in 1..Ways : cache[w].valid /\ cache[w].line[2] = line[2]} \cup {Ways + 1}) % (Ways + 1)

Victims ==
  LET invalid == {w \in 1..Ways : ~cache[w].valid}
  IN  IF invalid # {} THEN {Min(invalid)} ELSE 1..Ways

Install(v, line, data, dirty) ==
  [cache EXCEPT ![v] = [line |-> line, valid |-> TRUE, dirty |-> dirty, data |-> data]]

\* Faulty variant: a dirty victim is dropped.
NeverWritesBack(v) == ~cache[v].valid /\ cache[v].dirty

NeedsWriteback(v) == cache[v].valid /\ cache[v].dirty


Merge(entry, data) == [o \in Offsets |-> IF o \in entry.valid THEN entry.bytes[o] ELSE data[o]]
-----------------------------------------------------------------------------
(* Buffers and queues *)

HasStore(line) == \E i \in DOMAIN stores : stores[i].line = line
StoreIndex(line) == CHOOSE i \in DOMAIN stores : stores[i].line = line
StoreEntry(line) == stores[StoreIndex(line)]
HasMiss(line) == line \in DOMAIN misses
MissRequests(line) == IF HasMiss(line) THEN ToSet(misses[line].requests) ELSE {}
HasDirect(line) == \E i \in DOMAIN direct : direct[i].line = line
DirectIndex(line) == Min({i \in DOMAIN direct : direct[i].line = line})
Drop(f, line) == [l \in DOMAIN f \ {line} |-> f[l]]
Put(f, line, x) == [l \in DOMAIN f \cup {line} |-> IF l = line THEN x ELSE f[l]]

MissFull(line) ==
  IF HasMiss(line) THEN Len(misses[line].requests) >= MissSubs
                   ELSE Cardinality(DOMAIN misses) >= MissEntries
StoreFull(line) ==
  IF HasStore(line) THEN Len(StoreEntry(line).requests) >= StoreSubs
                    ELSE Len(stores) >= StoreEntries

DirectFull == Len(direct) >= DirectCapacity

ReadOf(line, owner) == [line |-> line, owner |-> owner, state |-> "Queued"]
WriteOf(line, way) == [line |-> line, state |-> "Queued", way |-> way]
HasWrite(line) == \E i \in DOMAIN writes : writes[i].line = line

\* The loads that a line completes: a preload returns nothing.
LoadResults(ids, data) ==
  [id \in DOMAIN results \cup {i \in ids : Op(i).kind = "load"} |->
     IF id \in DOMAIN results THEN results[id] ELSE [o \in Op(id).bytes |-> data[o]]]
-----------------------------------------------------------------------------
(* Hazards *)

\* Faulty variant: the line's pending write does not matter.
LoadHazardIgnoresWrite(line) == MissFull(line)

LoadHazard(line) == MissFull(line) \/ HasWrite(line)

StoreHazard(line) ==
  \/ StoreFull(line)
  \/ HasMiss(line)
  \/ HasStore(line) /\ StoreEntry(line).forbidden
  \/ HasWrite(line)
  \/ DirectFull

Hazard(id) ==
  CASE Op(id).kind \in {"load", "preload"} -> LoadHazard(Op(id).line)
    [] Op(id).kind \in {"store", "direct"} -> StoreHazard(Op(id).line)
    [] OTHER -> FALSE
-----------------------------------------------------------------------------
(* Admission *)

Admit(op) ==
  /\ Then("admit")
  /\ AdmitRequests(1)
  /\ ops' = Append(ops, op)
  /\ lookup' = Append(lookup, NotLooked)
  /\ UNCHANGED <<buffers, queues, storage, events, maint, outcome, raced, failure>>

\* A scalar SET_FLAG that waits makes the idle entries due at once.
TriggerFlush ==
  /\ phase = "admit"
  /\ stores' = [i \in DOMAIN stores |->
                  IF stores[i].state = "Idle" THEN [stores[i] EXCEPT !.remaining = 0]
                                              ELSE stores[i]]
  /\ UNCHANGED <<pipeVars, phase, ops, lookup, misses, direct, queues, storage, events, maint,
                 outcome, raced, failure>>
-----------------------------------------------------------------------------
(* Responses *)

Complete(storeIds, loadIds, data) ==
  /\ results' = LoadResults(loadIds, data)
  /\ done' = done \cup storeIds \cup loadIds

InFlight(queue, m) == {i \in DOMAIN queue : queue[i].line[1] = m /\ queue[i].state = "InFlight"}

\* The acknowledgement of a UB write: the store entry's bytes, or else the
\* cache line's current content, reach UB.
UbWriteResponse ==
  /\ InFlight(writes, "Ub") # {}
  /\ LET i == Min(InFlight(writes, "Ub"))
         line == writes[i].line
         entry == StoreEntry(line)
     IN  \/ /\ HasStore(line)
            /\ entry.state # "Idle"
            /\ UbWriteAllocate => entry.valid = Offsets
            /\ Then("ubWrite")
            /\ memory' = [memory EXCEPT ![line] = Merge(entry, @)]
            /\ Complete(ToSet(entry.requests), MissRequests(line), memory'[line])
            /\ stores' = RemoveAt(stores, StoreIndex(line))
            /\ misses' = Drop(misses, line)
            /\ writes' = RemoveAt(writes, i)
            /\ UNCHANGED <<pipeVars, ops, lookup, direct, reads, cache, evict, events, maint, raced,
                           failure>>
         \/ /\ ~HasStore(line)
            /\ FindWay(line) # 0
            /\ Then("ubWrite")
            /\ memory' = [memory EXCEPT ![line] = cache[FindWay(line)].data]
            /\ writes' = RemoveAt(writes, i)
            /\ UNCHANGED <<pipeVars, ops, lookup, buffers, reads, cache, evict, events, maint, outcome,
                           raced, failure>>

\* The way holds the bytes of a UB write that is not acknowledged.
BeingWritten(v) == LET line == cache[v].line IN Ub(line) /\ HasWrite(line) /\ ~HasStore(line)

\* The buffer entry that asked for the line is fetching it.
Owned(read) == IF read.owner = "Miss" THEN HasMiss(read.line) /\ misses[read.line].state = "Fetching"
               ELSE HasStore(read.line) /\ StoreEntry(read.line).state = "Fetching"

\* An entry with the whole line; the store buffer's own read closes it to further stores.
Filled(entry, bytes, own) ==
  [entry EXCEPT !.state = "Ready", !.bytes = bytes, !.valid = Offsets, !.forbidden = @ \/ own]

\* A line arrives.  Loads that own the read get the line as read, loads linked to
\* a store's read the merged line.  A UB store stays until its write is
\* acknowledged.
ReadResponse(i, v) ==
  LET line == reads[i].line
      data == memory[line]
      stored == HasStore(line)
      entry == StoreEntry(line)
      merged == IF stored THEN Merge(entry, data) ELSE data
      byMiss == reads[i].owner = "Miss"
      refills == External(line) \/ CacheUb
      evicts == refills /\ NeedsWriteback(v)
      serves == byMiss \/ External(line)
  IN  /\ Owned(reads[i])
      /\ cache' = IF refills THEN Install(v, line, merged, External(line) /\ stored) ELSE cache
      /\ evict' = IF evicts THEN Put(evict, cache[v].line[2], cache[v].data) ELSE evict
      /\ writes' = writes \o (IF evicts THEN <<WriteOf(cache[v].line, 0)>> ELSE <<>>)
                          \o (IF stored /\ Ub(line) THEN <<WriteOf(line, 0)>> ELSE <<>>)
      /\ Complete(IF stored /\ External(line) THEN ToSet(entry.requests) ELSE {},
                  IF serves THEN MissRequests(line) ELSE {},
                  IF byMiss THEN data ELSE merged)
      /\ misses' = IF serves THEN Drop(misses, line) ELSE misses
      /\ stores' = IF ~stored THEN stores
                   ELSE IF External(line) THEN RemoveAt(stores, StoreIndex(line))
                   ELSE [stores EXCEPT ![StoreIndex(line)] = Filled(entry, merged, ~byMiss)]
      /\ reads' = RemoveAt(reads, i)
      /\ raced' = (raced \/ (refills /\ BeingWritten(v)))
      /\ UNCHANGED <<pipeVars, ops, lookup, direct, memory, events, maint, failure>>

UbReadResponse ==
  /\ InFlight(reads, "Ub") # {}
  /\ Then("ubRead")
  /\ \E v \in Victims : ReadResponse(Min(InFlight(reads, "Ub")), v)

ExternalReadResponse(i) ==
  /\ i \in InFlight(reads, "External")
  /\ Then("externalRead")
  /\ \E v \in Victims : ReadResponse(i, v)

\* The acknowledgement of an external write, by the source of its data: the
\* way a maintenance write holds, evicted data, or a direct store.
ExternalWriteResponse(i) ==
  /\ i \in InFlight(writes, "External")
  /\ LET line == writes[i].line
         way == writes[i].way
     IN  \/ /\ way # 0
            /\ Then("externalWrite")
            /\ memory' = [memory EXCEPT ![line] = cache[way].data]
            /\ cache' = [cache EXCEPT ![way].line = ZeroLine, ![way].valid = TRUE,
                                      ![way].dirty = FALSE]
            /\ writes' = RemoveAt(writes, i)
            /\ UNCHANGED <<pipeVars, ops, lookup, buffers, reads, evict, events, maint, outcome, raced,
                           failure>>
         \/ /\ way = 0
            /\ line[2] \in DOMAIN evict
            /\ Then("externalWrite")
            /\ memory' = [memory EXCEPT ![line] = evict[line[2]]]
            /\ evict' = Drop(evict, line[2])
            /\ writes' = RemoveAt(writes, i)
            /\ UNCHANGED <<pipeVars, ops, lookup, buffers, reads, cache, events, maint, outcome, raced,
                           failure>>
         \/ /\ way = 0
            /\ line[2] \notin DOMAIN evict
            /\ HasDirect(line)
            /\ Then("externalWrite")
            /\ memory' = [memory EXCEPT ![line] = direct[DirectIndex(line)].bytes]
            /\ done' = done \cup {direct[DirectIndex(line)].request}
            /\ direct' = RemoveAt(direct, DirectIndex(line))
            /\ writes' = RemoveAt(writes, i)
            /\ UNCHANGED <<pipeVars, ops, lookup, misses, stores, reads, cache, evict, events, maint,
                           results, raced, failure>>
-----------------------------------------------------------------------------
(* Buffer processes *)

\* Writes of a line whose bytes are no way's, and as many of them as evicted data accounts for
PlainWrites(line) == {j \in DOMAIN writes : writes[j].line = line /\ writes[j].way = 0}
WrittenBefore(line) == Cardinality(PlainWrites(line)) > (IF line[2] \in DOMAIN evict THEN 1 ELSE 0)

\* The direct-store event writes out every resident entry, including one whose
\* previous write is still in flight.
ProcessDirectStores ==
  /\ Then("direct")
  /\ directEvent
  /\ writes' = writes \o [i \in DOMAIN direct |-> WriteOf(direct[i].line, 0)]
  /\ directEvent' = FALSE
  /\ raced' = (raced \/ \E d \in ToSet(direct) : WrittenBefore(d.line))
  /\ UNCHANGED <<pipeVars, ops, lookup, buffers, reads, storage, storeEvent, maint, outcome, failure>>

\* Faulty variant: the timeout does not saturate.
AdvanceTimeoutsWraps ==
  /\ Then("stores")
  /\ storeEvent
  /\ stores' = [i \in DOMAIN stores |-> [stores[i] EXCEPT !.remaining = @ - 1]]
  /\ UNCHANGED <<pipeVars, ops, lookup, misses, direct, queues, storage, events, maint, outcome, raced,
                 failure>>

AdvanceTimeouts ==
  /\ Then("stores")
  /\ storeEvent
  /\ stores' = [i \in DOMAIN stores |->
                  [stores[i] EXCEPT !.remaining = IF @ = 0 THEN 0 ELSE @ - 1]]
  /\ UNCHANGED <<pipeVars, ops, lookup, misses, direct, queues, storage, events, maint, outcome, raced,
                 failure>>

ReadyToFlush(e) ==
  /\ e.state = "Idle"
  /\ e.remaining = 0 \/ Len(e.requests) >= StoreSubs \/ e.valid = Offsets
DueEntries == {i \in DOMAIN stores : ReadyToFlush(stores[i])}

\* The captured lookup of a request against the cache as it is now.
Stale(id) ==
  LET way == lookup[id + 1]
      line == Op(id).line
  IN  IF way = 0 THEN Lookup(line) # 0 ELSE ~(cache[way].valid /\ cache[way].line = line)

\* A hit writes the way that holds the line now and marks the way that the
\* first request's lookup found.
FlushedCache(e, way, dirty) ==
  LET written == [cache EXCEPT ![way].data = Merge(e, @)]
  IN  IF External(e.line) THEN [written EXCEPT ![dirty].dirty = TRUE] ELSE written

FlushHit(i) ==
  LET e == stores[i]
      way == FindWay(e.line)
      dirty == lookup[Head(e.requests) + 1]
  IN  /\ e.hit
      /\ way # 0
      /\ phase = "flush"
      /\ raced' = (raced \/ way # dirty \/ Stale(Head(e.requests)))
      /\ cache' = FlushedCache(e, way, dirty)
      /\ writes' = IF Ub(e.line) THEN Append(writes, WriteOf(e.line, 0)) ELSE writes
      /\ stores' = RemoveAt(stores, i)
      /\ done' = done \cup ToSet(e.requests)
      /\ UNCHANGED <<pipeVars, phase, ops, lookup, misses, direct, reads, memory, evict, events, maint,
                     results, failure>>

\* A miss fetches the line, or writes the bytes through to UB.
FlushMiss(i) ==
  LET e == stores[i]
      through == Ub(e.line) /\ ~UbWriteAllocate
  IN  /\ ~e.hit
      /\ phase = "flush"
      /\ raced' = (raced \/ Lookup(e.line) # 0)
      /\ stores' = [stores EXCEPT ![i].state = "Fetching"]
      /\ writes' = IF through THEN Append(writes, WriteOf(e.line, 0)) ELSE writes
      /\ reads' = IF through THEN reads ELSE Append(reads, ReadOf(e.line, "Store"))
      /\ UNCHANGED <<pipeVars, phase, ops, lookup, misses, direct, storage, events, maint, outcome,
                     failure>>

FlushStore == DueEntries # {} /\ (FlushHit(Min(DueEntries)) \/ FlushMiss(Min(DueEntries)))

\* Faulty variant: the store process does not schedule itself again.
EndFlushForgets ==
  /\ DueEntries = {}
  /\ Then("flush")
  /\ storeEvent' = FALSE
  /\ UNCHANGED <<pipeVars, ops, lookup, buffers, queues, storage, directEvent, maint, outcome, raced,
                 failure>>

EndFlush ==
  /\ DueEntries = {}
  /\ Then("flush")
  /\ storeEvent' = (stores # <<>>)
  /\ UNCHANGED <<pipeVars, ops, lookup, buffers, queues, storage, directEvent, maint, outcome, raced,
                 failure>>

\* Faulty variant: maintenance ends while its writes are pending.
ReleaseMaintenanceEarly ==
  /\ Then("release")
  /\ maintRelease = "now"
  /\ maintActive' = FALSE
  /\ maintRelease' = "none"
  /\ UNCHANGED <<pipeVars, ops, lookup, buffers, queues, storage, events, outcome, raced, failure>>

\* Maintenance ends a tick after its last write, once no external write is left.
ReleaseMaintenance ==
  /\ Then("release")
  /\ maintRelease = "now"
  /\ ~\E i \in DOMAIN writes : External(writes[i].line)
  /\ maintActive' = FALSE
  /\ maintRelease' = "none"
  /\ UNCHANGED <<pipeVars, ops, lookup, buffers, queues, storage, events, outcome, raced, failure>>
-----------------------------------------------------------------------------
(* M2: the data actions *)

AtM2(kinds) ==
  /\ Then("M2")
  /\ AdvanceM2
  /\ Op(consumed).kind \in kinds
  /\ ~Hazard(consumed)
  /\ UNCHANGED <<ops, lookup, failure>>

Covered(id) == IF HasStore(Op(id).line)
               THEN Cardinality(Op(id).bytes \cap StoreEntry(Op(id).line).valid) ELSE 0

\* A load that hits, or is covered by a store entry: as many leading bytes as
\* are covered come from the entry, the others from the way found in M0.
LoadHit(id) ==
  LET way == lookup[id + 1]
      forwarded == {o \in Op(id).bytes : o - Min(Op(id).bytes) < Covered(id)}
      value == [o \in Offsets |->
                  IF o \in forwarded THEN StoreEntry(Op(id).line).bytes[o]
                  ELSE IF way = 0 THEN 0 ELSE cache[way].data[o]]
  IN  /\ AtM2({"load"})
      /\ way # 0 \/ Covered(id) = Cardinality(Op(id).bytes)
      /\ Complete({}, {id}, value)
      /\ raced' = (raced \/ Stale(id))
      /\ UNCHANGED <<buffers, queues, storage, events, maint>>

PreloadHit(id) ==
  /\ AtM2({"preload"})
  /\ lookup[id + 1] # 0
  /\ Complete({}, {id}, EmptyLine)
  /\ raced' = (raced \/ Stale(id))
  /\ UNCHANGED <<buffers, queues, storage, events, maint>>


IssuesRead(missState, storeState) == missState = "Idle" /\ storeState \in {"none", "Idle"}

\* A miss joins the fetch of its line, waits for a store that is being written,
\* or starts a read that an idle store entry of the line shares.
LoadMiss(id) ==
  LET line == Op(id).line
      entry == IF HasMiss(line) THEN misses[line] ELSE [state |-> "Idle", requests |-> <<>>]
      store == IF HasStore(line) THEN StoreEntry(line).state ELSE "none"
      issues == IssuesRead(entry.state, store)
  IN  /\ AtM2({"load", "preload"})
      /\ lookup[id + 1] = 0
      /\ Op(id).kind = "load" => Covered(id) # Cardinality(Op(id).bytes)
      /\ misses' = Put(misses, line,
                       [state |-> IF entry.state = "Idle" /\ store = "Ready" THEN "Idle"
                                                                            ELSE "Fetching",
                        requests |-> Append(entry.requests, id)])
      /\ stores' = IF issues /\ HasStore(line)
                   THEN [stores EXCEPT ![StoreIndex(line)].state = "Fetching"] ELSE stores
      /\ reads' = IF issues THEN Append(reads, ReadOf(line, "Miss")) ELSE reads
      /\ raced' = (raced \/ Stale(id))
      /\ UNCHANGED <<direct, writes, storage, events, maint, outcome>>

\* A store joins the entry of its line, which keeps its hit result and timeout.
StoreM2(id) ==
  LET line == Op(id).line
      fresh == [line |-> line, state |-> "Idle", hit |-> lookup[id + 1] # 0, forbidden |-> FALSE,
                remaining |-> Timeout, requests |-> <<>>, bytes |-> EmptyLine, valid |-> {}]
      into(e) == [e EXCEPT !.requests = Append(@, id),
                           !.bytes = [o \in Offsets |-> IF o \in Op(id).bytes THEN id + 1 ELSE @[o]],
                           !.valid = @ \cup Op(id).bytes]
  IN  /\ AtM2({"store"})
      /\ stores' = IF HasStore(line) THEN [stores EXCEPT ![StoreIndex(line)] = into(@)]
                                     ELSE Append(stores, into(fresh))
      /\ storeEvent' = TRUE
      /\ raced' = (raced \/ Stale(id))
      /\ UNCHANGED <<misses, direct, queues, storage, directEvent, maint, outcome>>

\* A direct store captures its bytes in a zero-filled line.
DirectStoreM2(id) ==
  /\ AtM2({"direct"})
  /\ direct' = Append(direct, [line |-> Op(id).line, request |-> id,
                               bytes |-> [o \in Offsets |-> IF o \in Op(id).bytes THEN id + 1 ELSE 0]])
  /\ directEvent' = TRUE
  /\ UNCHANGED <<misses, stores, queues, storage, storeEvent, maint, outcome, raced>>

\* The ways a clean invalidates.
MaintenanceWays(id) ==
  IF Op(id).target = "Line" THEN {lookup[id + 1]} \ {0}
  ELSE {w \in 1..Ways : cache[w].valid /\ Op(id).target \in {"All", cache[w].line[1]}}

\* A clean meets a dirty UB way.
CleanLost ==
  /\ Evaluates("M2")
  /\ Op(consumed).kind = "clean"
  /\ \E w \in MaintenanceWays(consumed) : cache[w].dirty /\ Ub(cache[w].line)

\* A clean invalidates its ways and writes the dirty ones back from the cache.
Clean(id) ==
  LET ways == MaintenanceWays(id)
      dirty == {w \in ways : cache[w].valid /\ cache[w].dirty}
  IN  /\ AtM2({"clean"})
      /\ ~CleanLost
      /\ cache' = [w \in 1..Ways |-> [cache[w] EXCEPT !.valid = @ /\ w \notin ways]]
      /\ \E order \in [1..Cardinality(dirty) -> dirty] :
           /\ \A i, j \in DOMAIN order : i < j => order[i] < order[j]
           /\ writes' = writes \o [i \in DOMAIN order |-> WriteOf(cache[order[i]].line, order[i])]
      /\ maintActive' = (dirty # {} \/ Op(id).target = "Line")
      /\ maintRelease' = IF dirty # {} \/ Op(id).target = "Line" THEN "next" ELSE maintRelease
      /\ done' = done \cup {id}
      /\ UNCHANGED <<buffers, reads, memory, evict, events, results, raced>>

M2(id) == LoadHit(id) \/ PreloadHit(id) \/ LoadMiss(id) \/ StoreM2(id) \/ DirectStoreM2(id) \/ Clean(id)
-----------------------------------------------------------------------------
(* Replay, M1 and M0 *)

ReplayStage(stage) ==
  /\ Then(stage)
  /\ Replay(stage)
  /\ Hazard(HeadRequest(stage))
  /\ UNCHANGED <<ops, lookup, buffers, queues, storage, events, maint, outcome, raced, failure>>

M1 ==
  /\ Then("M1")
  /\ AdvanceM1
  /\ ~Hazard(HeadRequest("M1"))
  /\ UNCHANGED <<ops, lookup, buffers, queues, storage, events, maint, outcome, raced, failure>>

\* A way found earlier is kept when the new lookup misses.
LookedUp(id) ==
  LET way == IF Op(id).kind # "clean" THEN Lookup(Op(id).line)
             ELSE IF Op(id).target = "Line" THEN LookupMaintenance(Op(id).line) ELSE 0
  IN  [lookup EXCEPT ![id + 1] = IF way # 0 THEN way ELSE Max({0, @})]

\* Faulty variant: a clean that does not wait for the store buffer.
NeedsDrainIgnoresStores(id) ==
  Op(id).kind = "clean" /\ (m1 # <<>> \/ m2 # <<>> \/ misses # <<>> \/ direct # <<>>)

NeedsDrain(id) ==
  Op(id).kind = "clean" /\ (m1 # <<>> \/ m2 # <<>> \/ misses # <<>> \/ stores # <<>> \/ direct # <<>>)

BlockM0 ==
  /\ Then("M0")
  /\ HoldM0(TRUE)
  /\ maintActive \/ Hazard(issued)
  /\ UNCHANGED <<ops, lookup, buffers, queues, storage, events, maint, outcome, raced, failure>>

\* A clean waits for older requests, and for the retirement queue, whose
\* occupancy is left open.  An addressed clean looks its line up meanwhile.
DrainM0 ==
  /\ Then("M0")
  /\ HoldM0(FALSE)
  /\ ~maintActive /\ ~Hazard(issued)
  /\ Op(issued).kind = "clean"
  /\ lookup' = LookedUp(issued)
  /\ UNCHANGED <<ops, buffers, queues, storage, events, maint, outcome, raced, failure>>

M0 ==
  /\ Then("M0")
  /\ IssueM0
  /\ ~maintActive /\ ~Hazard(issued) /\ ~NeedsDrain(issued)
  /\ lookup' = LookedUp(issued)
  /\ maintActive' = (Op(issued).kind = "clean")
  /\ UNCHANGED <<ops, buffers, queues, storage, events, maintRelease, outcome, raced, failure>>
-----------------------------------------------------------------------------
(* Dispatch to memory *)

\* dispatch_clock: UB first, then external, below the shared capacity.
Dispatched(queue, capacity, accepts) ==
  LET send(q, m) ==
        LET queued == {i \in DOMAIN q : q[i].line[1] = m /\ q[i].state = "Queued"}
            outstanding == Cardinality({i \in DOMAIN q : q[i].state = "InFlight"})
        IN  IF m \in accepts /\ queued # {} /\ outstanding < capacity
            THEN [q EXCEPT ![Min(queued)].state = "InFlight"] ELSE q
  IN  send(send(queue, "Ub"), "External")

SendReads(accepts) ==
  /\ Then("sendReads")
  /\ reads' = Dispatched(reads, ReadCapacity, accepts)
  /\ UNCHANGED <<pipeVars, ops, lookup, buffers, writes, storage, events, maint, outcome, raced, failure>>

\* The last phase of a tick.
SendWrites(accepts) ==
  /\ Then("sendWrites")
  /\ writes' = Dispatched(writes, WriteCapacity, accepts)
  /\ PipeTick
  /\ maintRelease' = IF maintRelease = "next" THEN "now" ELSE maintRelease
  /\ UNCHANGED <<ops, lookup, buffers, reads, storage, events, maintActive, outcome, raced, failure>>

(* Errors *)

\* A write is acknowledged whose bytes are no longer kept: no store entry that
\* is being written and no cache line, or no maintained way, evicted line or
\* direct store.
UbWriteLost ==
  /\ InFlight(writes, "Ub") # {}
  /\ LET line == writes[Min(InFlight(writes, "Ub"))].line
     IN  IF HasStore(line)
         THEN \/ StoreEntry(line).state = "Idle"
              \/ UbWriteAllocate /\ StoreEntry(line).valid # Offsets
         ELSE FindWay(line) = 0
ExternalWriteLost ==
  \E i \in InFlight(writes, "External") :
    /\ writes[i].way = 0
    /\ writes[i].line[2] \notin DOMAIN evict
    /\ ~HasDirect(writes[i].line)

\* A store that hit finds no way with its line when it is flushed.
FlushLost ==
  DueEntries # {} /\ stores[Min(DueEntries)].hit /\ FindWay(stores[Min(DueEntries)].line) = 0

Errors ==
  {e \in {<<"ubWrite", "MissingWriteData", UbWriteLost>>,
          <<"externalWrite", "MissingWriteData", ExternalWriteLost>>,
          <<"ubRead", "UnexpectedReadResponse",
            InFlight(reads, "Ub") # {} /\ ~Owned(reads[Min(InFlight(reads, "Ub"))])>>,
          <<"externalRead", "UnexpectedReadResponse",
            \E i \in InFlight(reads, "External") : ~Owned(reads[i])>>,
          <<"flush", "MissingCacheLine", FlushLost>>,
          <<"M2", "MissingWriteData", CleanLost>>} : e[3]}

ErrorReturn == \E e \in Errors : Fail(e[1], e[2])

\* A phase without work: nothing has arrived, or its condition is off.
Skip ==
  \/ \E p \in {"admit", "ubWrite", "ubRead", "externalRead", "externalWrite"} : Pass(p)
  \/ Pass("direct") /\ ~directEvent
  \/ Pass("stores") /\ ~storeEvent
  \/ Pass("release") /\ (maintRelease # "now" \/ \E i \in DOMAIN writes : External(writes[i].line))
  \/ \E stage \in Stages : Pass(stage) /\ ~Evaluates(stage)

Next ==
  \/ \E op \in Operations : Admit(op)
  \/ TriggerFlush
  \/ UbWriteResponse
  \/ UbReadResponse
  \/ \E i \in DOMAIN reads : ExternalReadResponse(i)
  \/ \E i \in DOMAIN writes : ExternalWriteResponse(i)
  \/ ProcessDirectStores
  \/ AdvanceTimeouts
  \/ FlushStore
  \/ EndFlush
  \/ ReleaseMaintenance
  \/ M2(consumed)
  \/ \E stage \in {"M1", "M2"} : ReplayStage(stage)
  \/ M1
  \/ BlockM0
  \/ DrainM0
  \/ M0
  \/ \E accepts \in SUBSET {"Ub", "External"} : SendReads(accepts) \/ SendWrites(accepts)
  \/ ErrorReturn
  \/ Skip

\* The clock always advances.  A memory that can answer a request does so
\* eventually, a port that is free again and again eventually takes the head of
\* its queue, and the retirement queue drains.
Fairness ==
  /\ WF_vars(Next)
  /\ SF_vars(UbWriteResponse)
  /\ SF_vars(UbReadResponse)
  /\ SF_vars(\E i \in DOMAIN reads : ExternalReadResponse(i))
  /\ SF_vars(\E i \in DOMAIN writes : ExternalWriteResponse(i))
  /\ SF_vars(SendReads({"Ub", "External"}))
  /\ SF_vars(SendWrites({"Ub", "External"}))
  /\ SF_vars(M0)

Spec == Init /\ [][Next]_vars
FairSpec == Spec /\ Fairness
-----------------------------------------------------------------------------
(* Properties *)

WritesByte(id, line, o) == Op(id).kind = "store" /\ Op(id).line = line /\ o \in Op(id).bytes
Bypassed(line) == \E id \in 0..admitted - 1 : Op(id).kind = "direct" /\ Op(id).line = line

\* A load of one byte returns what the latest older store to that byte wrote,
\* whichever of the store buffer, the cache, a refill or a late UB write answers
\* it, as long as no lookup result went stale.  (A wider load takes a prefix of
\* a partly covering entry; ST_DEV bypasses the cache.)
LoadsSeeStores ==
  \A id \in DOMAIN results : \A o \in Op(id).bytes :
    ~raced /\ Op(id).bytes = {o} /\ ~Bypassed(Op(id).line) =>
      results[id][o] = Max({0} \cup {s + 1 : s \in {t \in 0..id - 1 : WritesByte(t, Op(id).line, o)}})

\* The same without the exception: a tag lookup of M0 is still right in M2.
LoadsSeeStoresAlways ==
  \A id \in DOMAIN results : \A o \in Op(id).bytes :
    Op(id).bytes = {o} /\ ~Bypassed(Op(id).line) =>
      results[id][o] = Max({0} \cup {s + 1 : s \in {t \in 0..id - 1 : WritesByte(t, Op(id).line, o)}})

\* The bytes of a line that will reach memory last: a dirty or maintained way,
\* a UB way or store entry that is being written, evicted data, else memory.
Newest(line) ==
  LET held == {w \in 1..Ways : /\ cache[w].line = line
                               /\ \/ cache[w].valid /\ cache[w].dirty
                                  \/ \E i \in DOMAIN writes : writes[i].way = w
                                  \/ Ub(line) /\ HasWrite(line) /\ ~HasStore(line) /\ w = FindWay(line)}
  IN  IF held # {} THEN cache[Min(held)].data
      ELSE IF External(line) /\ line[2] \in DOMAIN evict THEN evict[line[2]] ELSE memory[line]

\* A completed store is never lost: until a younger store to the byte exists,
\* its value is in the copy of the line that reaches memory last.  A legal
\* program does not end the simulation with an internal error either.
NoStoreLost ==
  ~raced =>
    /\ failure = "none"
    /\ \A s \in done : \A o \in Op(s).bytes :
         /\ Op(s).kind = "store"
         /\ ~\E t \in s + 1..admitted - 1 : WritesByte(t, Op(s).line, o)
         /\ ~Bypassed(Op(s).line)
         => Newest(Op(s).line)[o] = s + 1

\* Every read belongs to a buffer entry that is fetching, and no line is read
\* twice at a time: a response always finds its owner.
ReadsOwned ==
  /\ \A i \in DOMAIN reads : Owned(reads[i])
  /\ \A i, j \in DOMAIN reads : reads[i].line = reads[j].line => i = j

\* The bytes of a write stay in the store buffer, the cache, the eviction data or
\* the direct-store buffer until its response, one source for each write: a way
\* under maintenance is not reused, and one line has one UB write at a time.
WriteKept(i) ==
  LET line == writes[i].line
      way == writes[i].way
  IN  IF way # 0 THEN cache[way].line = line /\ ~cache[way].valid
      ELSE IF Ub(line)
      THEN /\ Cardinality(PlainWrites(line)) = 1
           /\ IF HasStore(line) THEN StoreEntry(line).state # "Idle" ELSE FindWay(line) # 0
      ELSE Cardinality(PlainWrites(line)) <= (IF line[2] \in DOMAIN evict THEN 1 ELSE 0)
                                             + Cardinality({d \in DOMAIN direct : direct[d].line = line})

\* Every write keeps its source, and every read its owner, until the answer.
PayloadKept == ~raced /\ failure = "none" => ReadsOwned /\ \A i \in DOMAIN writes : WriteKept(i)

\* From its arrival on the data of a store is in one place that knows about it:
\* completed stores are not lost, and no write loses the source of its bytes
\* while entries, ways and lines are reused.
StoresKept == NoStoreLost /\ PayloadKept

\* A clean of one line takes the first way with its address, whichever the memory.
CleanCovers(id, line) ==
  /\ Op(id).kind = "clean" /\ External(line)
  /\ \/ Op(id).target \in {"All", line[1]}
     \/ /\ Op(id).target = "Line" /\ Op(id).line = line
        /\ ~\E k \in 0..admitted - 1 : Ub(Op(k).line) /\ Op(k).line[2] = line[2]

\* Once a clean has finished, the older stores to external lines it covers are in memory, or in
\* evicted data on its way there, up to those a younger store overwrites.
CleanReachesMemory ==
  ~raced /\ failure = "none" /\ ~maintActive =>
    \A c \in done : \A s \in 0..c - 1 : \A o \in Op(s).bytes :
      /\ Op(s).kind = "store"
      /\ CleanCovers(c, Op(s).line)
      /\ ~\E t \in s + 1..admitted - 1 : WritesByte(t, Op(s).line, o)
      /\ ~Bypassed(Op(s).line)
      => (IF Op(s).line[2] \in DOMAIN evict THEN evict[Op(s).line[2]] ELSE memory[Op(s).line])[o] = s + 1

\* Every admitted request completes and the unit runs empty once the program
\* ends, or an error ends the simulation: no replay, full buffer, drain or
\* timeout holds a request for ever.
RequestsComplete ==
  done # 0..admitted - 1 ~> (done = 0..admitted - 1 \/ failure # "none")
=============================================================================
