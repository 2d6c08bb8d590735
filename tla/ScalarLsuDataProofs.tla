------------------------ MODULE ScalarLsuDataProofs ------------------------
(***************************************************************************)
(* What the loads and stores of ScalarLsu do to the bytes of the lines, on *)
(* the structure that ScalarLsuProofs proves: DataOk says of every line    *)
(* which of its copies, the store entry, the ways, evicted data, a way     *)
(* that is written out and memory, has which of the stores to it.  CleanOk *)
(* adds what a clean has made of a line: all older stores are below the    *)
(* ways.                                                                   *)
(***************************************************************************)
EXTENDS ScalarLsuProofs

-----------------------------------------------------------------------------
(* The inductive invariant: data *)

\* x is what the latest store older than n has written to byte o of a line, 0 when there is none.
Latest(l, o, n, x) ==
  /\ x = 0 \/ \E s \in 0..n - 1 : WritesByte(s, l, o) /\ x = s + 1
  /\ \A t \in 0..n - 1 : WritesByte(t, l, o) => t < x

\* The stores of a line that are older than its base have left the store buffer.
Oldest(l) == Head(StoreEntry(l).requests)
Base(l) == IF HasStore(l) THEN Oldest(l) ELSE consumed
CopyBase(l) == IF HasStore(l) /\ StoreEntry(l).state = "Idle" THEN Oldest(l) ELSE consumed

\* Bytes of a line with all its stores, with those that the store buffer does not hold, and with
\* those that a way has at least.
Full(l, d) == \A o \in Offsets : Latest(l, o, consumed, d[o])
Backed(l, d) == \A o \in Offsets : Latest(l, o, Base(l), d[o])
Copied(l, d) == \A o \in Offsets : Latest(l, o, CopyBase(l), d[o])

\* A store entry has the latest bytes of its line; no store that it collects wrote the others.
EntryData(l) ==
  HasStore(l) => \A o \in Offsets :
    IF o \in StoreEntry(l).valid THEN Latest(l, o, consumed, StoreEntry(l).bytes[o])
    ELSE \A t \in Oldest(l)..consumed - 1 : ~WritesByte(t, l, o)

\* A way has what the store buffer has not; from a refill on that is everything.
WayData(l) == \A w \in 1..Ways : cache[w].valid /\ cache[w].line = l => Copied(l, cache[w].data)

\* Evicted data has what the store buffer has not.
EvictData(l) == Evicted(l) => Backed(l, evict[l[2]])

\* A way that a maintenance write empties keeps the line until then.
HeldData(l) ==
  \A i \in DOMAIN writes : writes[i].line = l /\ writes[i].way # 0 => Backed(l, cache[writes[i].way].data)

\* So does the way that a UB write takes its bytes from.
WritingWay(l) == Ub(l) /\ HasWrite(l) /\ ~HasStore(l)
WritingBytes(l) == cache[FindWay(l)].data
WritingData(l) == WritingWay(l) => Full(l, WritingBytes(l))

\* Otherwise memory has what the store buffer has not.
DirtyWay(l) == \E w \in 1..Ways : cache[w].valid /\ cache[w].dirty /\ cache[w].line = l
InMemory(l) == ~Evicted(l) /\ ~DirtyWay(l) /\ ~WayWritten(l) /\ ~WritingWay(l)
MemoryData(l) == InMemory(l) => Backed(l, memory[l])

\* A load that waits for a line is younger than the stores to it, and the store entry does not cover
\* it when the load itself has asked for the line.
Waits(l, id) ==
  /\ id \in Nat /\ id < consumed /\ Op(id).line = l /\ Op(id).kind \in {"load", "preload"}
  /\ \A t \in 0..consumed - 1 : Op(t).kind = "store" /\ Op(t).line = l => t < id
Uncovered(l, id) ==
  HasStore(l) => \A o \in Offsets : Op(id).kind = "load" /\ Op(id).bytes = {o} => o \notin StoreEntry(l).valid
MissLoads(l) ==
  HasMiss(l) => \A id \in ToSet(misses[l].requests) :
    Waits(l, id) /\ (ReadBy(l, "Miss") => Uncovered(l, id))

\* A filled entry is being written; a fetching one has no way.
EntryStates(l) ==
  HasStore(l) => /\ StoreEntry(l).state = "Ready" => Ub(l) /\ HasWrite(l)
                 /\ StoreEntry(l).state = "Fetching" => ~Cached(l)

CopiesData(l) ==
  EntryData(l) /\ WayData(l) /\ EvictData(l) /\ HeldData(l) /\ WritingData(l) /\ MemoryData(l)
LineData(l) == EntryStates(l) /\ MissLoads(l) /\ (~Bypassed(l) => CopiesData(l))

\* A completed store has left the store buffer.
DoneStores ==
  \A s \in done : /\ s < consumed
                  /\ Op(s).kind = "store" /\ HasStore(Op(s).line) => s < Oldest(Op(s).line)

\* What a load of one byte has returned.
Returns(id, value) ==
  \A o \in Offsets : Op(id).bytes = {o} /\ ~Bypassed(Op(id).line) => Latest(Op(id).line, o, id, value[o])
Returned == \A id \in DOMAIN results : id \in Nat /\ id < consumed /\ Returns(id, results[id])

\* The first way with the tag of a line is the valid one.
TagFirst == \A w \in 1..Ways : cache[w].valid /\ cache[w].line \in Lines =>
              \A v \in 1..w - 1 : cache[v].line # cache[w].line

\* Direct stores are of requests that left M2.
DirectsKnown ==
  \A d \in DOMAIN direct : /\ direct[d].request < consumed
                           /\ Op(direct[d].request).kind = "direct"
                           /\ Op(direct[d].request).line = direct[d].line

DataOk == DoneStores /\ Returned /\ TagFirst /\ DirectsKnown /\ \A l \in Lines : LineData(l)

-----------------------------------------------------------------------------
(* How bytes stay up to date *)

\* A step in which no store to the line is consumed.
Quiet(l) ==
  consumed' = consumed
  \/ (consumed' = consumed + 1 /\ ~(Op(consumed).kind = "store" /\ Op(consumed).line = l))

AlikeBytes(l) ==
  /\ HasStore(l)' <=> HasStore(l)
  /\ HasStore(l) => /\ StoreEntry(l)'.requests = StoreEntry(l).requests
                    /\ StoreEntry(l)'.valid = StoreEntry(l).valid
                    /\ StoreEntry(l)'.bytes = StoreEntry(l).bytes
AlikeStore(l) == AlikeBytes(l) /\ (HasStore(l) => StoreEntry(l)'.state = StoreEntry(l).state)

\* A step that leaves the entry of a line alone.
LEMMA SameAlike == ASSUME NEW l, SameStore(l) PROVE AlikeStore(l)
BY DEF SameStore, AlikeStore, AlikeBytes

\* Requests are not renamed: a store that has been admitted stays what it is.
LEMMA WritesSame ==
  ASSUME SameOps, NEW s \in Nat, s < admitted, NEW l, NEW o
  PROVE  WritesByte(s, l, o)' <=> WritesByte(s, l, o)
BY DEF SameOps, WritesByte

\* What is up to date before a step is so after it, for the same number of requests.
LEMMA LatestSame ==
  ASSUME PipeFacts, SameOps, NEW n \in Nat, n <= admitted, NEW l, NEW o, NEW x
  PROVE  Latest(l, o, n, x)' <=> Latest(l, o, n, x)
<1>1. \A s \in 0..n - 1 : s \in Nat /\ s < admitted
  BY DEF PipeFacts
<1>2. \A s \in 0..n - 1 : WritesByte(s, l, o)' <=> WritesByte(s, l, o)
  BY <1>1, WritesSame
<1> QED BY <1>2 DEF Latest

\* A byte that nobody writes meanwhile stays up to date.
LEMMA LatestGrows ==
  ASSUME NEW n \in Nat, NEW m \in Nat, n <= m, NEW l, NEW o, NEW x,
         \A t \in n..m - 1 : ~WritesByte(t, l, o)
  PROVE  Latest(l, o, n, x) <=> Latest(l, o, m, x)
<1>1. \A t \in 0..m - 1 : t \in 0..n - 1 \/ t \in n..m - 1
  OBVIOUS
<1>2. \A t \in 0..n - 1 : t \in 0..m - 1
  OBVIOUS
<1> QED BY <1>1, <1>2 DEF Latest

\* The byte that a store writes is up to date.
LEMMA LatestWritten ==
  ASSUME NEW n \in Nat, NEW l, NEW o, WritesByte(n, l, o)
  PROVE  Latest(l, o, n + 1, n + 1)
BY DEF Latest

\* The oldest request of an entry.
LEMMA OldestFacts ==
  ASSUME Types, Struct, NEW l \in Lines, HasStore(l)
  PROVE  /\ Oldest(l) \in Nat /\ Oldest(l) < consumed
         /\ Oldest(l) \in ToSet(StoreEntry(l).requests) /\ StoreEntry(l).requests \in Seq(Requests)
         /\ StoreEntry(l).requests # <<>>
<1>1. StoreEntry(l).requests \in Seq(Requests)
  <2>1. StoreEntry(l) \in StoreRec
    BY StoreFacts DEF Types
  <2> QED BY <2>1, StoreRecUpdates
<1>2. StoreEntry(l).requests # <<>>
  BY DEF Struct, Entries
<1> DEFINE q == StoreEntry(l).requests
<1> HIDE DEF Requests
<1>3. Head(q) = q[1] /\ 1 \in DOMAIN q
  BY <1>1, <1>2
<1>4. Oldest(l) \in ToSet(q)
  BY <1>3 DEF Oldest, ToSet
<1>5. Entries
  BY DEF Struct
<1> QED BY <1>1, <1>2, <1>4, <1>5, EntryRequests

\* A byte that has the latest store keeps it while no store to the line is consumed.
LEMMA FullKept ==
  ASSUME PipeFacts, SameOps, NEW l, Quiet(l), consumed' <= admitted, NEW o, NEW x, Latest(l, o, consumed, x)
  PROVE  Latest(l, o, consumed, x)'
<1>1. consumed \in Nat /\ consumed' \in Nat
  BY DEF PipeFacts, Quiet
<1>2. PICK m \in Nat : m = consumed'
  BY <1>1
<1>3. consumed <= m /\ m <= admitted
  BY <1>1, <1>2 DEF Quiet
<1>4. \A t \in consumed..m - 1 : ~WritesByte(t, l, o)
  BY <1>1, <1>2 DEF Quiet, WritesByte
<1>5. Latest(l, o, m, x)
  BY <1>1, <1>3, <1>4, LatestGrows
<1>6. Latest(l, o, m, x)'
  BY <1>3, <1>5, LatestSame
<1> QED BY <1>2, <1>6 DEF Latest

\* How far a step gets: requests are admitted and consumed, none is forgotten.
Goes ==
  /\ PipeFacts /\ SameOps
  /\ consumed' \in Nat /\ consumed <= consumed' /\ consumed' <= admitted
  /\ admitted' \in Nat /\ admitted <= admitted'

\* The base of a line stays where its entry stays.
LEMMA BaseKept ==
  ASSUME NEW l, AlikeBytes(l)
  PROVE  /\ HasStore(l) => Base(l) = Oldest(l) /\ Base(l)' = Oldest(l) /\ Oldest(l)' = Oldest(l)
         /\ ~HasStore(l) => Base(l) = consumed /\ Base(l)' = consumed'
         /\ AlikeStore(l) =>
              /\ HasStore(l) /\ StoreEntry(l).state = "Idle" =>
                   CopyBase(l) = Oldest(l) /\ CopyBase(l)' = Oldest(l)
              /\ ~(HasStore(l) /\ StoreEntry(l).state = "Idle") =>
                   CopyBase(l) = consumed /\ CopyBase(l)' = consumed'
BY DEF AlikeStore, AlikeBytes, Base, CopyBase, Oldest

\* Bytes of a line stay up to date while no store to it is consumed.
LEMMA BytesKept ==
  ASSUME Types, Struct, Goes, NEW l \in Lines, Quiet(l), AlikeBytes(l), NEW d
  PROVE  /\ Full(l, d) => Full(l, d)'
         /\ Backed(l, d) => Backed(l, d)'
         /\ AlikeStore(l) /\ Copied(l, d) => Copied(l, d)'
<1>0. PipeFacts /\ SameOps /\ consumed' <= admitted /\ consumed \in Nat /\ consumed <= admitted
      /\ admitted \in Nat
  BY DEF Goes, PipeFacts
<1>1. \A o, x : Latest(l, o, consumed, x) => Latest(l, o, consumed, x)'
  BY <1>0, FullKept
<1>2. HasStore(l) => Oldest(l) \in Nat /\ Oldest(l) <= admitted
  <2>1. HasStore(l) => Oldest(l) \in Nat /\ Oldest(l) < consumed
    BY OldestFacts
  <2> QED BY <1>0, <2>1
<1>3. \A n \in Nat : \A o, x : n <= admitted => (Latest(l, o, n, x)' <=> Latest(l, o, n, x))
  BY <1>0, LatestSame
<1>4. HasStore(l) => \A o, x : Latest(l, o, Oldest(l), x) => Latest(l, o, Oldest(l), x)'
  <2> SUFFICES ASSUME HasStore(l), NEW o, NEW x, Latest(l, o, Oldest(l), x) PROVE Latest(l, o, Oldest(l), x)'
    OBVIOUS
  <2>1. PICK n \in Nat : n = Oldest(l) /\ n <= admitted
    BY <1>2
  <2>2. Latest(l, o, n, x)'
    BY <1>3, <2>1
  <2>3. Oldest(l)' = n
    BY <2>1, BaseKept
  <2> QED BY <2>2, <2>3 DEF Latest
<1>5. Full(l, d) => Full(l, d)'
  BY <1>1 DEF Full
<1>6. Backed(l, d) => Backed(l, d)'
  BY <1>1, <1>4, BaseKept DEF Backed, AlikeBytes, Base
<1>7. AlikeStore(l) /\ Copied(l, d) => Copied(l, d)'
  BY <1>1, <1>4, BaseKept DEF Copied, AlikeStore, AlikeBytes, CopyBase
<1> QED BY <1>5, <1>6, <1>7

\* Full is the strongest: what holds every store of the line holds the older ones, when no entry has
\* younger ones.
LEMMA NoEntry ==
  ASSUME NEW l, ~HasStore(l), NEW d
  PROVE  (Backed(l, d) <=> Full(l, d)) /\ (Copied(l, d) <=> Full(l, d))
BY DEF Backed, Copied, Full, Base, CopyBase

\* The entry's bytes over what the store buffer has not are all bytes.
LEMMA MergedFull ==
  ASSUME Types, Struct, PipeFacts, NEW l \in Lines, HasStore(l), EntryData(l), NEW d, Backed(l, d)
  PROVE  Full(l, Merge(StoreEntry(l), d))
<1> SUFFICES ASSUME NEW o \in Offsets PROVE Latest(l, o, consumed, Merge(StoreEntry(l), d)[o])
  BY DEF Full
<1>1. Merge(StoreEntry(l), d)[o] = IF o \in StoreEntry(l).valid THEN StoreEntry(l).bytes[o] ELSE d[o]
  BY DEF Merge
<1>2. CASE o \in StoreEntry(l).valid
  BY <1>1, <1>2 DEF EntryData
<1>3. CASE o \notin StoreEntry(l).valid
  <2>1. Latest(l, o, Oldest(l), d[o])
    BY DEF Backed, Base
  <2>2. \A t \in Oldest(l)..consumed - 1 : ~WritesByte(t, l, o)
    BY <1>3 DEF EntryData
  <2>3. Oldest(l) \in Nat /\ Oldest(l) <= consumed /\ consumed \in Nat
    BY OldestFacts DEF PipeFacts
  <2>4. Latest(l, o, consumed, d[o])
    BY <2>1, <2>2, <2>3, LatestGrows
  <2> QED BY <1>1, <1>3, <2>4
<1> QED BY <1>2, <1>3

\* A byte that the entry does not cover is up to date where the others are.
LEMMA UncoveredFull ==
  ASSUME Types, Struct, PipeFacts, NEW l \in Lines, HasStore(l), EntryData(l), NEW d, NEW o \in Offsets,
         o \notin StoreEntry(l).valid, Backed(l, d) \/ Copied(l, d)
  PROVE  Latest(l, o, consumed, d[o])
<1>1. Latest(l, o, Oldest(l), d[o]) \/ Latest(l, o, consumed, d[o])
  BY DEF Backed, Copied, Base, CopyBase
<1>2. \A t \in Oldest(l)..consumed - 1 : ~WritesByte(t, l, o)
  BY DEF EntryData
<1>3. Oldest(l) \in Nat /\ Oldest(l) <= consumed /\ consumed \in Nat
  BY OldestFacts DEF PipeFacts
<1> QED BY <1>1, <1>2, <1>3, LatestGrows
-----------------------------------------------------------------------------
(* What a line keeps when a step touches something else *)

WaysFrom(l) ==
  \A w \in 1..Ways : cache'[w].valid /\ cache'[w].line = l =>
    cache[w].valid /\ cache[w].line = l /\ cache'[w].data = cache[w].data
EvictFrom(l) == Evicted(l)' => Evicted(l) /\ evict'[l[2]] = evict[l[2]]
HeldFrom(l) ==
  \A i \in DOMAIN writes' : writes'[i].line = l /\ writes'[i].way # 0 =>
    \E j \in DOMAIN writes : /\ writes[j].line = l /\ writes[j].way = writes'[i].way
                             /\ cache'[writes[j].way].data = cache[writes[j].way].data
WritingFrom(l) == WritingWay(l)' => WritingWay(l) /\ WritingBytes(l)' = WritingBytes(l)
MemoryFrom(l) == InMemory(l)' => InMemory(l) /\ memory'[l] = memory[l]
MissFrom(l) ==
  /\ HasMiss(l)' => HasMiss(l) /\ misses'[l].requests = misses[l].requests
  /\ ReadBy(l, "Miss")' => ReadBy(l, "Miss")

\* An entry that a step leaves alone keeps the bytes of its line.
LEMMA EntryDataKept ==
  ASSUME Types, Struct, Goes, NEW l \in Lines, Quiet(l), AlikeBytes(l), EntryData(l)
  PROVE  EntryData(l)'
<1> SUFFICES ASSUME HasStore(l), NEW o \in Offsets
             PROVE  IF o \in StoreEntry(l)'.valid THEN Latest(l, o, consumed, StoreEntry(l).bytes[o])'
                    ELSE \A t \in Oldest(l)'..consumed' - 1 : ~WritesByte(t, l, o)'
  BY DEF EntryData, AlikeBytes
<1>0. PipeFacts /\ SameOps /\ consumed' <= admitted /\ consumed \in Nat /\ consumed <= admitted
      /\ consumed' \in Nat
  BY DEF Goes, PipeFacts
<1>1. /\ StoreEntry(l)'.valid = StoreEntry(l).valid /\ StoreEntry(l)'.bytes = StoreEntry(l).bytes
      /\ Oldest(l)' = Oldest(l)
  BY BaseKept DEF AlikeBytes
<1>2. CASE o \in StoreEntry(l).valid
  <2>1. PICK x : x = StoreEntry(l).bytes[o]
    OBVIOUS
  <2>2. Latest(l, o, consumed, x)
    BY <1>2, <2>1 DEF EntryData
  <2>3. Latest(l, o, consumed, x)'
    BY <1>0, <2>2, FullKept
  <2> QED BY <1>1, <1>2, <2>1, <2>3 DEF Latest
<1>3. CASE o \notin StoreEntry(l).valid
  <2>1. \A t \in Oldest(l)..consumed - 1 : ~WritesByte(t, l, o)
    BY <1>3 DEF EntryData
  <2>2. consumed' = consumed + 1 => ~WritesByte(consumed, l, o)
    BY <1>0 DEF Quiet, WritesByte
  <2>3. Oldest(l) \in Nat
    BY OldestFacts
  <2>4. ASSUME NEW t \in Oldest(l)..consumed' - 1 PROVE ~WritesByte(t, l, o)'
    <3>1. t \in Nat /\ t < admitted /\ (t \in Oldest(l)..consumed - 1 \/ (t = consumed /\ consumed' = consumed + 1))
      <4>1. admitted \in Nat /\ (consumed' = consumed \/ consumed' = consumed + 1)
        BY <1>0 DEF Quiet, PipeFacts
      <4>2. PICK a \in Nat : a = Oldest(l)
        BY <2>3
      <4>3. PICK c \in Nat : c = consumed'
        BY <1>0
      <4>4. t \in a..c - 1
        BY <2>4, <4>2, <4>3
      <4>5. c <= admitted /\ (c = consumed \/ c = consumed + 1)
        BY <1>0, <4>1, <4>3
      <4>6. t \in Nat /\ t < admitted
        BY <4>1, <4>4, <4>5
      <4>7. t \in a..consumed - 1 \/ (t = consumed /\ c = consumed + 1)
        BY <1>0, <4>4, <4>5
      <4> QED BY <4>2, <4>3, <4>6, <4>7
    <3>2. ~WritesByte(t, l, o)
      BY <2>1, <2>2, <3>1
    <3> QED BY <1>0, <3>1, <3>2, WritesSame
  <2> QED BY <1>1, <1>3, <2>4
<1> QED BY <1>2, <1>3

\* Bytes that stay where they are are as good as before.
LEMMA CopiesMoved ==
  ASSUME NEW l
  PROVE  /\ (\A d : Copied(l, d) => Copied(l, d)') /\ WayData(l) /\ WaysFrom(l) => WayData(l)'
         /\ (\A d : Backed(l, d) => Backed(l, d)') =>
              /\ EvictData(l) /\ EvictFrom(l) => EvictData(l)'
              /\ HeldData(l) /\ HeldFrom(l) => HeldData(l)'
              /\ MemoryData(l) /\ MemoryFrom(l) => MemoryData(l)'
         /\ (\A d : Full(l, d) => Full(l, d)') /\ WritingData(l) /\ WritingFrom(l) => WritingData(l)'
<1>1. ASSUME \A d : Copied(l, d) => Copied(l, d)', WayData(l), WaysFrom(l) PROVE WayData(l)'
  <2> SUFFICES ASSUME NEW w \in 1..Ways, cache'[w].valid, cache'[w].line = l PROVE Copied(l, cache[w].data)'
    BY DEF WayData
  <2>1. PICK d : d = cache[w].data
    OBVIOUS
  <2>2. Copied(l, d) /\ cache'[w].data = d
    BY <1>1, <2>1 DEF WayData, WaysFrom
  <2>3. Copied(l, d)'
    BY <1>1, <2>2
  <2> QED BY <2>2, <2>3 DEF Copied
<1>2. ASSUME \A d : Backed(l, d) => Backed(l, d)', EvictData(l), EvictFrom(l) PROVE EvictData(l)'
  <2> SUFFICES ASSUME Evicted(l)' PROVE Backed(l, evict[l[2]])'
    BY DEF EvictData
  <2>1. PICK d : d = evict[l[2]]
    OBVIOUS
  <2>2. Backed(l, d) /\ evict'[l[2]] = d
    BY <1>2, <2>1 DEF EvictData, EvictFrom
  <2>3. Backed(l, d)'
    BY <1>2, <2>2
  <2> QED BY <2>2, <2>3 DEF Backed
<1>3. ASSUME \A d : Backed(l, d) => Backed(l, d)', HeldData(l), HeldFrom(l) PROVE HeldData(l)'
  <2> SUFFICES ASSUME NEW i \in DOMAIN writes', writes'[i].line = l, writes'[i].way # 0
               PROVE  Backed(l, cache[writes[i].way].data)'
    BY DEF HeldData
  <2>1. PICK j \in DOMAIN writes : /\ writes[j].line = l /\ writes[j].way = writes'[i].way
                                   /\ cache'[writes[j].way].data = cache[writes[j].way].data
    BY <1>3 DEF HeldFrom
  <2>2. PICK d : d = cache[writes[j].way].data
    OBVIOUS
  <2>3. Backed(l, d) /\ cache'[writes'[i].way].data = d
    BY <1>3, <2>1, <2>2 DEF HeldData
  <2>4. Backed(l, d)'
    BY <1>3, <2>3
  <2> QED BY <2>3, <2>4 DEF Backed
<1>4. ASSUME \A d : Full(l, d) => Full(l, d)', WritingData(l), WritingFrom(l) PROVE WritingData(l)'
  <2> SUFFICES ASSUME WritingWay(l)' PROVE Full(l, WritingBytes(l))'
    BY DEF WritingData
  <2>1. PICK d : d = WritingBytes(l)
    OBVIOUS
  <2>2. Full(l, d) /\ WritingBytes(l)' = d
    BY <1>4, <2>1 DEF WritingData, WritingFrom
  <2>3. Full(l, d)'
    BY <1>4, <2>2
  <2> QED BY <2>2, <2>3 DEF Full
<1>5. ASSUME \A d : Backed(l, d) => Backed(l, d)', MemoryData(l), MemoryFrom(l) PROVE MemoryData(l)'
  <2> SUFFICES ASSUME InMemory(l)' PROVE Backed(l, memory[l])'
    BY DEF MemoryData
  <2>1. PICK d : d = memory[l]
    OBVIOUS
  <2>2. Backed(l, d) /\ memory'[l] = d
    BY <1>5, <2>1 DEF MemoryData, MemoryFrom
  <2>3. Backed(l, d)'
    BY <1>5, <2>2
  <2> QED BY <2>2, <2>3 DEF Backed
<1> QED BY <1>1, <1>2, <1>3, <1>4, <1>5

\* So do the copies of a line whose entry a step leaves alone.
LEMMA CopiesKept ==
  ASSUME Types, Struct, Goes, NEW l \in Lines, Quiet(l), AlikeBytes(l)
  PROVE  /\ AlikeStore(l) /\ WayData(l) /\ WaysFrom(l) => WayData(l)'
         /\ EvictData(l) /\ EvictFrom(l) => EvictData(l)'
         /\ HeldData(l) /\ HeldFrom(l) => HeldData(l)'
         /\ WritingData(l) /\ WritingFrom(l) => WritingData(l)'
         /\ MemoryData(l) /\ MemoryFrom(l) => MemoryData(l)'
<1>1. \A d : /\ Full(l, d) => Full(l, d)'
             /\ Backed(l, d) => Backed(l, d)'
             /\ AlikeStore(l) /\ Copied(l, d) => Copied(l, d)'
  BY BytesKept
<1>2. AlikeStore(l) => \A d : Copied(l, d) => Copied(l, d)'
  BY <1>1
<1>3. (\A d : Full(l, d) => Full(l, d)') /\ (\A d : Backed(l, d) => Backed(l, d)')
  BY <1>1
<1> QED BY <1>2, <1>3, CopiesMoved

\* A line that a direct store has bypassed stays one.
LEMMA BypassedKept ==
  ASSUME Goes, NEW l, Bypassed(l)
  PROVE  Bypassed(l)'
<1>1. PICK id \in 0..admitted - 1 : Op(id).kind = "direct" /\ Op(id).line = l
  BY DEF Bypassed
<1>2. admitted \in Nat /\ admitted' \in Nat /\ admitted <= admitted'
  BY DEF Goes, PipeFacts
<1>3. id \in Nat /\ id < admitted /\ id \in 0..admitted' - 1
  <2>1. PICK m \in Nat : m = admitted'
    BY <1>2
  <2>2. PICK k \in 0..admitted - 1 : k = id
    OBVIOUS
  <2>3. k \in Nat /\ k < admitted
    BY <1>2
  <2>4. admitted <= m
    BY <1>2, <2>1
  <2>5. k \in 0..m - 1
    BY <1>2, <2>3, <2>4
  <2> QED BY <2>1, <2>2, <2>3, <2>5
<1>4. Op(id)' = Op(id)
  BY <1>3 DEF Goes, SameOps
<1> QED BY <1>1, <1>3, <1>4 DEF Bypassed

\* The loads of a miss entry wait on while no store to their line is consumed.
LEMMA MissLoadsKept ==
  ASSUME Types, Struct, Goes, NEW l \in Lines, Quiet(l), AlikeBytes(l), MissLoads(l), MissFrom(l)
  PROVE  MissLoads(l)'
<1> SUFFICES ASSUME HasMiss(l)', NEW id \in ToSet(misses'[l].requests)
             PROVE  Waits(l, id)' /\ (ReadBy(l, "Miss")' => Uncovered(l, id)')
  BY DEF MissLoads
<1>0. /\ SameOps /\ consumed \in Nat /\ consumed' \in Nat /\ consumed <= consumed' /\ consumed <= admitted
      /\ admitted \in Nat /\ consumed' <= admitted
  BY DEF Goes, PipeFacts
<1>1. id \in ToSet(misses[l].requests) /\ HasMiss(l)
  BY DEF MissFrom
<1>2. Waits(l, id) /\ (ReadBy(l, "Miss") => Uncovered(l, id))
  BY <1>1 DEF MissLoads
<1>3. id \in Nat /\ id < consumed /\ id < admitted
  BY <1>0, <1>2 DEF Waits
<1>4. Op(id)' = Op(id)
  BY <1>0, <1>3 DEF SameOps
<1>5. ASSUME NEW t \in 0..consumed' - 1, Op(t)'.kind = "store", Op(t)'.line = l PROVE t < id
  <2>1. PICK c \in Nat : c = consumed'
    BY <1>0
  <2>2. c = consumed \/ (c = consumed + 1 /\ ~(Op(consumed).kind = "store" /\ Op(consumed).line = l))
    BY <2>1 DEF Quiet
  <2>3. t \in Nat /\ t < admitted /\ (t \in 0..consumed - 1 \/ (t = consumed /\ c = consumed + 1))
    BY <1>0, <2>1, <2>2
  <2>4. Op(t)' = Op(t)
    BY <1>0, <2>3 DEF SameOps
  <2> QED BY <1>2, <1>5, <2>2, <2>3, <2>4 DEF Waits
<1>6. Waits(l, id)'
  <2>1. id < consumed'
    BY <1>0, <1>3
  <2> QED BY <1>2, <1>4, <1>5, <2>1 DEF Waits
<1>7. ASSUME ReadBy(l, "Miss")' PROVE Uncovered(l, id)'
  <2>1. Uncovered(l, id)
    BY <1>2, <1>7 DEF MissFrom
  <2> QED BY <1>4, <2>1 DEF Uncovered, AlikeBytes
<1> QED BY <1>6, <1>7

\* A line that a step does not touch keeps its bytes.
LEMMA LineKept ==
  ASSUME Types, Struct, Goes, NEW l \in Lines, Quiet(l), AlikeStore(l), LineData(l),
         WaysFrom(l), EvictFrom(l), HeldFrom(l), WritingFrom(l), MemoryFrom(l), MissFrom(l),
         Cached(l)' => Cached(l), Ub(l) /\ HasWrite(l) /\ HasStore(l) => HasWrite(l)'
  PROVE  LineData(l)'
<1>1. EntryStates(l)'
  BY DEF LineData, EntryStates, AlikeStore, AlikeBytes
<1>2. MissLoads(l)'
  BY MissLoadsKept DEF LineData, AlikeStore
<1>3. ASSUME ~Bypassed(l)' PROVE CopiesData(l)'
  <2>1. CopiesData(l)
    BY <1>3, BypassedKept DEF LineData
  <2>2. EntryData(l)'
    BY <2>1, EntryDataKept DEF CopiesData, AlikeStore
  <2> QED BY <2>1, <2>2, CopiesKept DEF CopiesData, AlikeStore
<1> QED BY <1>1, <1>2, <1>3 DEF LineData

\* Completed stores have left the store buffer: what completes in a step has no entry after it, and a
\* new entry starts with a younger request.
LEMMA DoneStoresKept ==
  ASSUME Types, Goes, DoneStores,
         \A s \in done' : \/ s \in done
                          \/ /\ s \in Nat /\ s < consumed'
                             /\ Op(s)'.kind = "store" => ~HasStore(Op(s).line)',
         \A l : HasStore(l)' => (HasStore(l) /\ Oldest(l)' = Oldest(l)) \/ Oldest(l)' = consumed
  PROVE  DoneStores'
<1>0. /\ SameOps /\ consumed \in Nat /\ consumed' \in Nat /\ consumed <= consumed' /\ consumed <= admitted
      /\ admitted \in Nat /\ consumed' <= admitted
  BY DEF Goes, PipeFacts
<1> SUFFICES ASSUME NEW s \in done'
             PROVE  /\ s < consumed'
                    /\ Op(s)'.kind = "store" /\ HasStore(Op(s).line)' => s < Oldest(Op(s).line)'
  BY DEF DoneStores
<1>1. CASE s \in done
  <2>1. s \in Nat
    BY <1>1, MaxRequestsAssumption DEF Types, DoneT, Requests
  <2>2. s < consumed /\ (Op(s).kind = "store" /\ HasStore(Op(s).line) => s < Oldest(Op(s).line))
    BY <1>1 DEF DoneStores
  <2>3. s < admitted /\ s < consumed'
    BY <1>0, <2>1, <2>2
  <2>4. Op(s)' = Op(s)
    BY <1>0, <2>1, <2>3 DEF SameOps
  <2>5. PICK l : l = Op(s).line
    OBVIOUS
  <2>6. ASSUME Op(s).kind = "store", HasStore(l)' PROVE s < Oldest(l)'
    <3>1. (HasStore(l) /\ Oldest(l)' = Oldest(l)) \/ Oldest(l)' = consumed
      BY <2>6
    <3> QED BY <2>2, <2>5, <2>6, <3>1
  <2>7. Op(s).line' = l
    BY <2>4, <2>5
  <2>8. HasStore(Op(s).line)' <=> HasStore(l)'
    BY <2>7 DEF HasStore
  <2>9. Oldest(Op(s).line)' = Oldest(l)'
    BY <2>7 DEF Oldest, StoreEntry, StoreIndex
  <2> QED BY <2>3, <2>4, <2>6, <2>8, <2>9
<1>2. CASE s \notin done
  BY <1>2
<1> QED BY <1>1, <1>2

\* What a load has returned stays right.
LEMMA ReturnsKept ==
  ASSUME Types, Goes, NEW id \in Nat, id < admitted, NEW value, Returns(id, value)
  PROVE  Returns(id, value)'
<1>1. Op(id)' = Op(id)
  BY DEF Goes, SameOps
<1>2. PICK l : l = Op(id).line
  OBVIOUS
<1>3. ASSUME NEW o \in Offsets, Op(id).bytes = {o}, ~Bypassed(l)' PROVE Latest(l, o, id, value[o])'
  <2>1. ~Bypassed(l)
    BY <1>3, BypassedKept
  <2>2. Latest(l, o, id, value[o])
    BY <1>2, <1>3, <2>1 DEF Returns
  <2>3. PICK x : x = value[o]
    OBVIOUS
  <2>4. PipeFacts /\ SameOps /\ id <= admitted
    BY DEF Goes, PipeFacts
  <2>5. Latest(l, o, id, x)
    BY <2>2, <2>3
  <2>6. Latest(l, o, id, x)'
    BY <2>4, <2>5, LatestSame
  <2> QED BY <2>3, <2>6 DEF Latest
<1>4. Op(id).line' = l
  BY <1>1, <1>2
<1>5. Bypassed(Op(id).line)' <=> Bypassed(l)'
  BY <1>4 DEF Bypassed
<1>6. \A o : Latest(Op(id).line, o, id, value[o])' <=> Latest(l, o, id, value[o])'
  BY <1>4 DEF Latest, WritesByte
<1> QED BY <1>1, <1>3, <1>5, <1>6 DEF Returns

\* What a load has returned stays right: no older store appears later.
LEMMA ReturnedKept ==
  ASSUME Types, Goes, Returned,
         \A id \in DOMAIN results' : \/ id \in DOMAIN results /\ results'[id] = results[id]
                                     \/ id \in Nat /\ id < consumed' /\ Returns(id, results'[id])
  PROVE  Returned'
<1> SUFFICES ASSUME NEW id \in DOMAIN results'
             PROVE  id \in Nat /\ id < consumed' /\ Returns(id, results[id])'
  BY DEF Returned
<1>0. /\ consumed \in Nat /\ consumed' \in Nat /\ consumed <= consumed' /\ consumed' <= admitted /\ admitted \in Nat
  BY DEF Goes, PipeFacts
<1>1. PICK value : value = results'[id]
  OBVIOUS
<1>2. id \in Nat /\ id < consumed' /\ Returns(id, value)
  <2>1. CASE id \in DOMAIN results /\ results'[id] = results[id]
    <3>1. id \in Nat /\ id < consumed /\ Returns(id, value)
      BY <1>1, <2>1 DEF Returned
    <3> QED BY <1>0, <3>1
  <2> QED BY <1>1, <2>1
<1>3. id < admitted
  BY <1>0, <1>2
<1>4. Returns(id, value)'
  BY <1>2, <1>3, ReturnsKept
<1> QED BY <1>1, <1>2, <1>4 DEF Returns

\* The order of the tags stays when ways only become invalid.
LEMMA TagFirstKept ==
  ASSUME TagFirst,
         \A w \in 1..Ways : cache'[w].line = cache[w].line /\ (cache'[w].valid => cache[w].valid)
  PROVE  TagFirst'
<1>1. \A w \in 1..Ways : \A v \in 1..w - 1 : v \in 1..Ways
  BY LsuAssumption
<1> QED BY <1>1 DEF TagFirst

\* A direct store is of a line that the program uses so.
LEMMA DirectBypasses ==
  ASSUME Types, PipeFacts, DirectsKnown, NEW d \in DOMAIN direct
  PROVE  Bypassed(direct[d].line) /\ direct[d].request \in Nat /\ direct[d].request < consumed
<1>1. direct[d].request \in Nat
  BY QueueItems, MaxRequestsAssumption DEF Requests
<1>2. direct[d].request < consumed /\ consumed \in Nat /\ admitted \in Nat /\ consumed <= admitted
  BY DEF DirectsKnown, PipeFacts
<1>3. PICK id \in Nat : id = direct[d].request
  BY <1>1
<1>4. id \in 0..admitted - 1
  BY <1>2, <1>3
<1> QED BY <1>1, <1>2, <1>3, <1>4 DEF DirectsKnown, Bypassed

\* Direct stores are entered by M2 only.
LEMMA DirectsKept ==
  ASSUME Types, Goes, DirectsKnown,
         \A d \in DOMAIN direct' :
           \/ \E e \in DOMAIN direct : direct'[d] = direct[e]
           \/ /\ direct'[d].request = consumed /\ consumed' = consumed + 1 /\ consumed < admitted
              /\ Op(consumed).kind = "direct" /\ Op(consumed).line = direct'[d].line
  PROVE  DirectsKnown'
<1> SUFFICES ASSUME NEW d \in DOMAIN direct'
             PROVE  /\ direct'[d].request < consumed'
                    /\ Op(direct[d].request)'.kind = "direct"
                    /\ Op(direct[d].request)'.line = direct'[d].line
  BY DEF DirectsKnown
<1>1. PICK id : id = direct'[d].request
  OBVIOUS
<1>2. PipeFacts /\ SameOps /\ consumed \in Nat /\ consumed' \in Nat /\ consumed <= consumed'
      /\ consumed <= admitted /\ admitted \in Nat
  BY DEF Goes, PipeFacts
<1>3. /\ id \in Nat /\ id < consumed' /\ id < admitted
      /\ Op(id).kind = "direct" /\ Op(id).line = direct'[d].line
  <2>1. CASE \E e \in DOMAIN direct : direct'[d] = direct[e]
    <3>1. PICK e \in DOMAIN direct : direct'[d] = direct[e]
      BY <2>1
    <3>2. id \in Nat /\ id < consumed
      BY <1>1, <1>2, <3>1, DirectBypasses
    <3>3. Op(id).kind = "direct" /\ Op(id).line = direct[e].line
      BY <1>1, <3>1 DEF DirectsKnown
    <3>4. id < consumed' /\ id < admitted
      BY <1>2, <3>2
    <3> QED BY <3>1, <3>2, <3>3, <3>4
  <2>2. CASE ~\E e \in DOMAIN direct : direct'[d] = direct[e]
    BY <1>1, <1>2, <2>2
  <2> QED BY <2>1, <2>2
<1>4. Op(id)' = Op(id)
  BY <1>2, <1>3 DEF SameOps
<1>5. Op(direct[d].request)' = Op(id)'
  BY <1>1 DEF Op
<1> QED BY <1>1, <1>3, <1>4, <1>5
-----------------------------------------------------------------------------
(* Steps that leave the bytes of a line where they are *)

AlikeWays(l) ==
  \A w \in 1..Ways : /\ cache'[w].line = l <=> cache[w].line = l
                     /\ cache[w].line = l => cache'[w] = cache[w]
AlikeEvict(l) == /\ Evicted(l)' <=> Evicted(l)
                 /\ Evicted(l) => evict'[l[2]] = evict[l[2]]
AlikeWrites(l) ==
  /\ Ub(l) => (HasWrite(l)' <=> HasWrite(l))
  /\ \A i \in DOMAIN writes' : writes'[i].line = l /\ writes'[i].way # 0 =>
       \E j \in DOMAIN writes : writes[j].line = l /\ writes[j].way = writes'[i].way
  /\ WayWritten(l) => WayWritten(l)'

\* The ways of a line that a step leaves alone.
LEMMA AlikeWayFacts ==
  ASSUME NEW l, AlikeWays(l)
  PROVE  /\ FindWay(l)' = FindWay(l) /\ (Cached(l)' <=> Cached(l)) /\ (DirtyWay(l)' <=> DirtyWay(l))
         /\ (Tagged(l)' <=> Tagged(l)) /\ WaysFrom(l)
<1>1. {w \in 1..Ways : cache'[w].line = l} = {w \in 1..Ways : cache[w].line = l}
  BY DEF AlikeWays
<1>2. FindWay(l)' = FindWay(l)
  BY <1>1 DEF FindWay
<1>3. (Cached(l)' <=> Cached(l)) /\ (DirtyWay(l)' <=> DirtyWay(l)) /\ (Tagged(l)' <=> Tagged(l))
  BY DEF AlikeWays, Cached, DirtyWay, Tagged
<1>4. WaysFrom(l)
  BY DEF AlikeWays, WaysFrom
<1> QED BY <1>2, <1>3, <1>4

\* A step that moves nothing of a line leaves the sources of its bytes where they are.
LEMMA AlikeSources ==
  ASSUME Types, Struct, NEW l \in Lines, AlikeBytes(l), AlikeWays(l), AlikeEvict(l), AlikeWrites(l),
         memory'[l] = memory[l]
  PROVE  WaysFrom(l) /\ EvictFrom(l) /\ HeldFrom(l) /\ WritingFrom(l) /\ MemoryFrom(l)
<1>1. /\ FindWay(l)' = FindWay(l) /\ (Cached(l)' <=> Cached(l)) /\ (DirtyWay(l)' <=> DirtyWay(l))
      /\ WaysFrom(l)
  BY AlikeWayFacts
<1>2. EvictFrom(l)
  BY DEF AlikeEvict, EvictFrom
<1>3. HeldFrom(l)
  <2> SUFFICES ASSUME NEW i \in DOMAIN writes', writes'[i].line = l, writes'[i].way # 0
               PROVE  \E j \in DOMAIN writes : /\ writes[j].line = l /\ writes[j].way = writes'[i].way
                                               /\ cache'[writes[j].way].data = cache[writes[j].way].data
    BY DEF HeldFrom
  <2>1. PICK j \in DOMAIN writes : writes[j].line = l /\ writes[j].way = writes'[i].way
    BY DEF AlikeWrites
  <2>2. writes[j].way \in 1..Ways
    BY <2>1, QueueItems
  <2>3. cache[writes[j].way].line = l
    BY <2>1 DEF Struct, WaysKept, WaysHeld
  <2>4. cache'[writes[j].way] = cache[writes[j].way]
    BY <2>2, <2>3 DEF AlikeWays
  <2> QED BY <2>1, <2>4
<1>4. WritingWay(l)' <=> WritingWay(l)
  BY DEF WritingWay, AlikeWrites, AlikeBytes
<1>5. WritingFrom(l)
  <2> SUFFICES ASSUME WritingWay(l) PROVE WritingBytes(l)' = WritingBytes(l)
    BY <1>4 DEF WritingFrom
  <2>1. Tagged(l)
    BY DEF Struct, UbWrites, WritingWay
  <2>2. FindWay(l) \in 1..Ways /\ cache[FindWay(l)].line = l
    BY <2>1, TagSearch
  <2>3. cache'[FindWay(l)] = cache[FindWay(l)]
    BY <2>2 DEF AlikeWays
  <2> QED BY <1>1, <2>3 DEF WritingBytes
<1>6. MemoryFrom(l)
  <2>1. WayWritten(l)' <=> WayWritten(l)
    BY DEF AlikeWrites, WayWritten
  <2> QED BY <1>1, <1>4, <2>1 DEF MemoryFrom, InMemory, AlikeEvict
<1> QED BY <1>1, <1>2, <1>3, <1>5, <1>6

\* The copies of a line that a step does not touch.
LEMMA AlikeCopies ==
  ASSUME Types, Struct, Goes, NEW l \in Lines, Quiet(l), AlikeBytes(l), AlikeStore(l) \/ ~Cached(l)',
         AlikeWays(l), AlikeEvict(l), AlikeWrites(l), memory'[l] = memory[l], CopiesData(l)
  PROVE  CopiesData(l)'
<1>1. WaysFrom(l) /\ EvictFrom(l) /\ HeldFrom(l) /\ WritingFrom(l) /\ MemoryFrom(l)
  BY AlikeSources
<1>2. EntryData(l)'
  BY EntryDataKept DEF CopiesData
<1>3. WayData(l)'
  <2>1. CASE AlikeStore(l)
    BY <1>1, <2>1, CopiesKept DEF CopiesData
  <2>2. CASE ~Cached(l)'
    BY <2>2 DEF WayData, Cached
  <2> QED BY <2>1, <2>2
<1> QED BY <1>1, <1>2, <1>3, CopiesKept DEF CopiesData

\* It keeps them up to date.
LEMMA AlikeLine ==
  ASSUME Types, Struct, Goes, NEW l \in Lines, Quiet(l), AlikeStore(l), LineData(l), MissFrom(l),
         AlikeWays(l), AlikeEvict(l), AlikeWrites(l), memory'[l] = memory[l]
  PROVE  LineData(l)'
<1>1. AlikeBytes(l) /\ (Cached(l)' <=> Cached(l))
  BY AlikeWayFacts DEF AlikeStore
<1>2. Ub(l) /\ HasWrite(l) /\ HasStore(l) => HasWrite(l)'
  BY DEF AlikeWrites
<1>3. WaysFrom(l) /\ EvictFrom(l) /\ HeldFrom(l) /\ WritingFrom(l) /\ MemoryFrom(l)
  BY <1>1, AlikeSources
<1> QED BY <1>1, <1>2, <1>3, LineKept

\* What a step leaves alone is alike.
LEMMA AlikeFrames ==
  ASSUME NEW l
  PROVE  /\ UNCHANGED stores => AlikeStore(l)
         /\ UNCHANGED misses /\ UNCHANGED reads => MissFrom(l)
         /\ UNCHANGED cache => AlikeWays(l)
         /\ UNCHANGED evict => AlikeEvict(l)
         /\ UNCHANGED writes => AlikeWrites(l)
<1>1. UNCHANGED stores => AlikeStore(l)
  BY UnchangedParts, SameAlike
<1>2. UNCHANGED misses /\ UNCHANGED reads => MissFrom(l)
  BY DEF MissFrom, HasMiss, ReadBy
<1>3. UNCHANGED cache => AlikeWays(l)
  BY DEF AlikeWays
<1>4. UNCHANGED evict => AlikeEvict(l)
  BY DEF AlikeEvict, Evicted
<1>5. UNCHANGED writes => AlikeWrites(l)
  BY DEF AlikeWrites, HasWrite, WayWritten
<1> QED BY <1>1, <1>2, <1>3, <1>4, <1>5

\* Requests that only change their state are alike.
LEMMA AlikeQueues ==
  /\ SameWrites => \A l : AlikeWrites(l)
  /\ SameReads /\ UNCHANGED misses => \A l : MissFrom(l)
<1>1. SameWrites => \A l : AlikeWrites(l)
  BY DEF SameWrites, AlikeWrites, WayWritten
<1>2. SameReads /\ UNCHANGED misses => \A l : MissFrom(l)
  BY DEF SameReads, MissFrom, HasMiss
<1> QED BY <1>1, <1>2

\* Nothing moves: the step touches states of requests, timers and stages at most.
LEMMA NothingMoves ==
  ASSUME Types, Struct, Goes, DataOk, \A l : Quiet(l) /\ AlikeStore(l) /\ MissFrom(l) /\ AlikeWrites(l),
         UNCHANGED <<cache, evict, memory>>
  PROVE  TagFirst' /\ \A l \in Lines : LineData(l)'
<1>1. TagFirst'
  BY TagFirstKept DEF DataOk
<1>2. ASSUME NEW l \in Lines PROVE LineData(l)'
  <2>1. AlikeWays(l) /\ AlikeEvict(l) /\ memory'[l] = memory[l] /\ LineData(l)
    BY AlikeFrames DEF DataOk
  <2> QED BY <2>1, AlikeLine
<1> QED BY <1>1, <1>2

\* The entries stay, with their oldest requests.
LEMMA OldestKept ==
  ASSUME \A l : AlikeBytes(l)
  PROVE  \A l : HasStore(l)' => (HasStore(l) /\ Oldest(l)' = Oldest(l)) \/ Oldest(l)' = consumed
BY BaseKept DEF AlikeBytes

\* A step that consumes no request and moves nothing.
LEMMA StillData ==
  ASSUME Types, Struct, Goes, DataOk, \A l : AlikeStore(l) /\ MissFrom(l) /\ AlikeWrites(l),
         UNCHANGED <<consumed, cache, evict, memory, direct, results, done>>
  PROVE  DataOk'
<1>1. \A l : Quiet(l) /\ AlikeBytes(l)
  BY DEF Quiet, AlikeStore
<1>2. TagFirst' /\ \A l \in Lines : LineData(l)'
  BY <1>1, NothingMoves
<1>3. DoneStores'
  BY <1>1, OldestKept, DoneStoresKept DEF DataOk
<1>4. Returned'
  BY ReturnedKept DEF DataOk
<1>5. DirectsKnown'
  BY DirectsKept DEF DataOk
<1> QED BY <1>2, <1>3, <1>4, <1>5 DEF DataOk
-----------------------------------------------------------------------------
(* The data: steps that change no bytes *)

\* A step that admits nothing.
LEMMA GoesOn ==
  ASSUME PipeFacts, UNCHANGED <<ops, admitted>>, consumed' \in Nat, consumed <= consumed', consumed' <= admitted
  PROVE  Goes
BY UnchangedOps DEF Goes, PipeFacts

\* A step that neither admits nor consumes a request.
LEMMA GoesStill ==
  ASSUME PipeFacts, UNCHANGED <<ops, admitted, consumed>>
  PROVE  Goes
BY GoesOn DEF PipeFacts

\* Admission moves nothing.
LEMMA AdmitData ==
  ASSUME Types, PipeFacts, Struct, DataOk, NEW op \in Operations, Admit(op)
  PROVE  DataOk'
<1>1. SameOps
  <2>1. ops' = Append(ops, op)
    BY DEF Admit
  <2>2. \A k \in Nat : k < admitted => k + 1 \in 1..Len(ops)
    BY DEF PipeFacts, Types, OpsT
  <2>3. \A k \in 1..Len(ops) : Append(ops, op)[k] = ops[k]
    BY DEF Types, OpsT
  <2> QED BY <2>1, <2>2, <2>3 DEF SameOps, Op
<1>2. /\ UNCHANGED <<consumed, stores, reads, writes, misses, direct, cache, evict, memory, results, done>>
      /\ admitted' = admitted + 1
  BY DEF Admit, AdmitRequests, buffers, queues, storage, outcome
<1>3. Goes
  BY <1>1, <1>2 DEF Goes, PipeFacts
<1>4. \A l : AlikeStore(l) /\ MissFrom(l) /\ AlikeWrites(l)
  BY <1>2, AlikeFrames
<1> QED BY <1>2, <1>3, <1>4, StillData

\* Timers move nothing.
LEMMA TimersData ==
  ASSUME Types, PipeFacts, Struct, DataOk, TriggerFlush \/ AdvanceTimeouts
  PROVE  DataOk'
<1>1. ASSUME NEW i \in DOMAIN stores
      PROVE  /\ stores'[i].line = stores[i].line /\ stores'[i].state = stores[i].state
             /\ stores'[i].bytes = stores[i].bytes /\ stores'[i].valid = stores[i].valid
             /\ stores'[i].requests = stores[i].requests
  <2>1. stores[i] \in StoreRec
    <3> HIDE DEF StoreRec
    <3> QED BY DEF Types, StoreT
  <2>2. \/ stores'[i] = stores[i]
        \/ stores'[i] = [stores[i] EXCEPT !.remaining = 0]
        \/ stores'[i] = [stores[i] EXCEPT !.remaining = IF @ = 0 THEN 0 ELSE @ - 1]
    BY DEF TriggerFlush, AdvanceTimeouts
  <2> HIDE DEF Data, Requests
  <2>3. DOMAIN stores[i] = {"line", "state", "hit", "forbidden", "remaining", "requests", "bytes", "valid"}
    BY <2>1 DEF StoreRec
  <2>4. stores'[i] = stores[i]
        \/ \E r : stores'[i] = [stores[i] EXCEPT !.remaining = r]
    BY <2>2
  <2> QED BY <2>1, <2>4 DEF StoreRec
<1>2. DOMAIN stores' = DOMAIN stores
  BY DEF TriggerFlush, AdvanceTimeouts
<1>3. /\ \A l : HasStore(l)' <=> HasStore(l)
      /\ \A l : HasStore(l) => \E i \in DOMAIN stores : /\ stores[i].line = l
                                                        /\ StoreEntry(l) = stores[i]
                                                        /\ StoreEntry(l)' = stores'[i]
  BY <1>1, <1>2, StoresUpdated DEF Struct
<1>4. \A l : AlikeStore(l)
  BY <1>1, <1>3 DEF AlikeStore, AlikeBytes
<1>5. UNCHANGED <<ops, admitted, consumed, reads, writes, misses, direct, cache, evict, memory, results, done>>
  BY DEF TriggerFlush, AdvanceTimeouts, pipeVars, queues, storage, outcome
<1>6. Goes /\ \A l : MissFrom(l) /\ AlikeWrites(l)
  BY <1>5, GoesStill, AlikeFrames
<1> QED BY <1>4, <1>5, <1>6, StillData

\* Dispatch moves nothing.
LEMMA SendData ==
  ASSUME Types, Types', PipeFacts, Struct, DataOk, NEW accepts, SendReads(accepts) \/ SendWrites(accepts)
  PROVE  DataOk'
<1>1. \A x \in ReadRec : /\ Launched(x) \in ReadRec /\ Launched(Launched(x)) = Launched(x)
                         /\ Launched(x).line = x.line /\ Launched(x).owner = x.owner
  BY DEF Launched, ReadRec
<1>2. \A x \in WriteRec : /\ Launched(x) \in WriteRec /\ Launched(Launched(x)) = Launched(x)
                          /\ Launched(x).line = x.line /\ Launched(x).way = x.way
  BY DEF Launched, WriteRec
<1>3. UNCHANGED <<ops, admitted, consumed, stores, misses, direct, cache, evict, memory, results, done>>
  BY DEF SendReads, SendWrites, PipeTick, pipeVars, buffers, storage, outcome
<1> HIDE DEF ReadRec, WriteRec
<1>4. \A l : MissFrom(l)
  <2>1. CASE UNCHANGED reads
    BY <1>3, <2>1, AlikeFrames
  <2>2. CASE SendReads(accepts)
    <3>1. reads \in Seq(ReadRec) /\ reads' = Dispatched(reads, ReadCapacity, accepts)
      BY <2>2 DEF Types, ReadT, SendReads
    <3>2. \A x \in ReadRec : Launched(x) \in ReadRec /\ Launched(Launched(x)) = Launched(x)
      BY <1>1
    <3>3. /\ DOMAIN reads' = DOMAIN reads
          /\ \A i \in DOMAIN reads : reads'[i] = reads[i] \/ reads'[i] = Launched(reads[i])
      BY <3>1, <3>2, DispatchedFacts
    <3>4. \A i \in DOMAIN reads : reads[i] \in ReadRec
      BY <3>1
    <3>5. \A i \in DOMAIN reads : reads'[i].line = reads[i].line /\ reads'[i].owner = reads[i].owner
      BY <1>1, <3>3, <3>4
    <3>6. \A l, o : ReadBy(l, o)' <=> ReadBy(l, o)
      BY <3>3, <3>5, ReadsUpdated
    <3> QED BY <1>3, <3>6 DEF MissFrom, HasMiss
  <2> QED BY <2>1, <2>2 DEF SendWrites
<1>5. \A l : AlikeWrites(l)
  <2>1. CASE UNCHANGED writes
    BY <2>1, AlikeFrames
  <2>2. CASE SendWrites(accepts)
    <3>1. writes \in Seq(WriteRec) /\ writes' = Dispatched(writes, WriteCapacity, accepts)
      BY <2>2 DEF Types, WriteT, SendWrites
    <3>2. \A x \in WriteRec : Launched(x) \in WriteRec /\ Launched(Launched(x)) = Launched(x)
      BY <1>2
    <3>3. /\ DOMAIN writes' = DOMAIN writes
          /\ \A i \in DOMAIN writes : writes'[i] = writes[i] \/ writes'[i] = Launched(writes[i])
      BY <3>1, <3>2, DispatchedFacts
    <3>4. \A i \in DOMAIN writes : writes[i] \in WriteRec
      BY <3>1
    <3>5. \A i \in DOMAIN writes : writes'[i].line = writes[i].line /\ writes'[i].way = writes[i].way
      BY <1>2, <3>3, <3>4
    <3> QED BY <3>3, <3>5 DEF AlikeWrites, WayWritten, HasWrite
  <2> QED BY <2>1, <2>2 DEF SendReads
<1>6. Goes /\ \A l : AlikeStore(l)
  BY <1>3, GoesStill, AlikeFrames
<1> QED BY <1>3, <1>4, <1>5, <1>6, StillData

\* Steps of the pipeline, of maintenance and of the phases move nothing.
LEMMA IdleData ==
  ASSUME Types, PipeFacts, Struct, DataOk,
         \/ M1 \/ BlockM0 \/ DrainM0 \/ M0 \/ EndFlush \/ ReleaseMaintenance \/ ErrorReturn \/ Skip
         \/ (\E stage \in {"M1", "M2"} : ReplayStage(stage)) \/ UNCHANGED vars
  PROVE  DataOk'
<1>1. UNCHANGED <<ops, admitted, consumed, buffers, queues, storage, outcome>>
  <2>1. CASE M1 \/ BlockM0 \/ DrainM0 \/ M0
    BY <2>1 DEF M1, BlockM0, DrainM0, M0, AdvanceM1, HoldM0, IssueM0
  <2>2. CASE EndFlush \/ ReleaseMaintenance \/ UNCHANGED vars
    BY <2>2 DEF EndFlush, ReleaseMaintenance, vars, pipeVars
  <2>3. CASE ErrorReturn
    BY <2>3 DEF ErrorReturn, Fail, pipeVars
  <2>4. CASE Skip
    BY <2>4 DEF Skip, Pass, pipeVars
  <2>5. CASE \E stage \in {"M1", "M2"} : ReplayStage(stage)
    BY <2>5 DEF ReplayStage, Replay
  <2> QED BY <2>1, <2>2, <2>3, <2>4, <2>5
<1>2. UNCHANGED <<ops, admitted, consumed, stores, reads, writes, misses, direct, cache, evict, memory, results, done>>
  BY <1>1 DEF buffers, queues, storage, outcome
<1>3. Goes /\ \A l : AlikeStore(l) /\ MissFrom(l) /\ AlikeWrites(l)
  BY <1>2, GoesStill, AlikeFrames
<1> QED BY <1>2, <1>3, StillData
-----------------------------------------------------------------------------
(* The data: M2 *)

\* A request leaves M2.
LEMMA M2Goes ==
  ASSUME Types, IInv, NEW kinds, AtM2(kinds)
  PROVE  /\ Goes /\ consumed \in Nat /\ consumed' = consumed + 1 /\ consumed < admitted
         /\ Op(consumed).kind \in kinds /\ Op(consumed).line \in Lines /\ Op(consumed).bytes \subseteq Offsets
         /\ consumed \in Requests /\ consumed + 1 \in 0..MaxRequests
         /\ \A l : Op(consumed).kind # "store" \/ Op(consumed).line # l => Quiet(l)
<1>1. /\ PipeFacts /\ consumed < admitted /\ AdvanceM2 /\ UNCHANGED ops
      /\ Op(consumed).kind \in kinds /\ Op(consumed).line \in Lines /\ Op(consumed).bytes \subseteq Offsets
      /\ consumed \in Requests /\ consumed + 1 \in 0..MaxRequests
  BY AtM2Facts
<1>2. consumed' = consumed + 1 /\ UNCHANGED admitted
  BY <1>1 DEF AdvanceM2
<1>3. consumed \in Nat /\ admitted \in Nat
  BY <1>1 DEF PipeFacts
<1>4. Goes
  BY <1>1, <1>2, <1>3, GoesOn
<1>6. \A l : Op(consumed).kind # "store" \/ Op(consumed).line # l => Quiet(l)
  BY <1>2 DEF Quiet
<1> QED BY <1>1, <1>2, <1>3, <1>4, <1>6

\* What a completion returns.
LEMMA CompletedLoads ==
  ASSUME Types, Goes, Returned, NEW ids, NEW d, results' = LoadResults(ids, d),
         \A id \in ids : Op(id).kind = "load" =>
           /\ id \in Nat /\ id < consumed'
           /\ \A o \in Offsets : Op(id).bytes = {o} /\ ~Bypassed(Op(id).line) => Latest(Op(id).line, o, id, d[o])
  PROVE  Returned'
<1>1. ASSUME NEW id \in DOMAIN results', ~(id \in DOMAIN results /\ results'[id] = results[id])
      PROVE  id \in Nat /\ id < consumed' /\ Returns(id, results'[id])
  <2>1. /\ id \in DOMAIN results \/ (id \in ids /\ Op(id).kind = "load")
        /\ results'[id] = IF id \in DOMAIN results THEN results[id] ELSE [o \in Op(id).bytes |-> d[o]]
    BY <1>1 DEF LoadResults
  <2>2. id \in ids /\ Op(id).kind = "load" /\ results'[id] = [o \in Op(id).bytes |-> d[o]]
    BY <1>1, <2>1
  <2>3. \A o \in Offsets : Op(id).bytes = {o} => results'[id][o] = d[o]
    BY <2>2
  <2> QED BY <2>2, <2>3 DEF Returns
<1> QED BY <1>1, ReturnedKept

\* A load that a way or a store entry answers gets the latest bytes.
LEMMA HitReturns ==
  ASSUME Types, IInv, LookedUpFirst, Struct, DataOk, LoadHit(consumed), ~raced'
  PROVE  Returned'
<1>1. AtM2({"load"})
  BY DEF LoadHit
<1>2. /\ Goes /\ PipeFacts /\ consumed \in Nat /\ consumed' = consumed + 1 /\ Op(consumed).line \in Lines
  BY <1>1, M2Goes DEF Goes
<1>3. PICK l \in Lines : l = Op(consumed).line
  BY <1>2
<1>4. PICK id \in Nat : id = consumed
  BY <1>2
<1> DEFINE way == lookup[id + 1]
           forwarded == {o \in Op(id).bytes : o - Min(Op(id).bytes) < Covered(id)}
           value == [o \in Offsets |-> IF o \in forwarded THEN StoreEntry(l).bytes[o]
                                       ELSE IF way = 0 THEN 0 ELSE cache[way].data[o]]
<1>5. /\ results' = LoadResults({id}, value)
      /\ way # 0 \/ Covered(id) = Cardinality(Op(id).bytes)
      /\ ~Stale(id)
  BY <1>3, <1>4 DEF LoadHit, Complete
<1>6. ASSUME NEW o \in Offsets, Op(id).bytes = {o}, ~Bypassed(l)
      PROVE  Latest(l, o, consumed, value[o])
  <2>1. CopiesData(l)
    BY <1>6 DEF DataOk, LineData
  <2>2. o \in Nat /\ Min({o}) = o
    <3>1. o \in Nat
      <4>1. Cardinality(Offsets) \in Nat
        BY LsuAssumption, FS_CardinalityType
      <4> QED BY <4>1, LsuAssumption
    <3>2. Min({o}) \in {o}
      BY <3>1, MinFacts
    <3> QED BY <3>1, <3>2
  <2>3. CASE HasStore(l) /\ o \in StoreEntry(l).valid
    <3>1. Covered(id) = 1
      <4>1. Op(id).bytes \cap StoreEntry(l).valid = {o}
        BY <1>6, <2>3
      <4> QED BY <1>3, <1>4, <2>3, <4>1, FS_Singleton DEF Covered
    <3>2. o \in forwarded
      BY <1>6, <2>2, <3>1
    <3>3. value[o] = StoreEntry(l).bytes[o]
      BY <3>2
    <3> QED BY <2>1, <2>3, <3>3 DEF CopiesData, EntryData
  <2>4. CASE ~(HasStore(l) /\ o \in StoreEntry(l).valid)
    <3>1. Covered(id) = 0
      <4>1. HasStore(l) => Op(id).bytes \cap StoreEntry(l).valid = {}
        BY <1>6, <2>4
      <4> QED BY <1>3, <1>4, <4>1, FS_EmptySet DEF Covered
    <3>2. Cardinality(Op(id).bytes) = 1
      BY <1>6, FS_Singleton
    <3>3. way # 0
      BY <1>5, <3>1, <3>2
    <3>4. o \notin forwarded
      BY <1>6, <2>2, <3>1
    <3>5. value[o] = cache[way].data[o]
      BY <3>3, <3>4
    <3>6. cache[way].valid /\ cache[way].line = l
      BY <1>3, <1>4, <1>5, <3>3 DEF Stale
    <3>7. way \in 1..Ways
      <4>1. IInv /\ AtM2({"load"})
        BY <1>1
      <4>2. lookup[consumed + 1] \in NotLooked..Ways /\ consumed < issued /\ issued \in Nat
        BY <4>1, AtM2Facts DEF PipeFacts
      <4>3. consumed \in 0..issued - 1
        BY <1>2, <4>2
      <4>4. way # NotLooked
        BY <1>4, <4>3 DEF LookedUpFirst
      <4> QED BY <1>4, <3>3, <4>2, <4>4, LsuAssumption DEF NotLooked
    <3>8. Copied(l, cache[way].data)
      BY <2>1, <3>6, <3>7 DEF CopiesData, WayData
    <3>9. Latest(l, o, consumed, cache[way].data[o])
      <4>1. CASE HasStore(l)
        BY <1>2, <2>1, <2>4, <3>8, <4>1, UncoveredFull DEF CopiesData
      <4>2. CASE ~HasStore(l)
        BY <3>8, <4>2, NoEntry DEF Full
      <4> QED BY <4>1, <4>2
    <3> QED BY <3>5, <3>9
  <2> QED BY <2>3, <2>4
<1> HIDE DEF value
<1>7. \A k \in {id} : Op(k).kind = "load" =>
        /\ k \in Nat /\ k < consumed'
        /\ \A o \in Offsets : Op(k).bytes = {o} /\ ~Bypassed(Op(k).line) => Latest(Op(k).line, o, k, value[o])
  BY <1>2, <1>3, <1>4, <1>6
<1>8. Returned
  BY DEF DataOk
<1> QED BY <1>2, <1>5, <1>7, <1>8, CompletedLoads

\* The end of a request that stores nothing.
LEMMA CompletedOne ==
  ASSUME Types, IInv, NEW kinds, AtM2(kinds), "store" \notin kinds, DoneStores, \A l : AlikeBytes(l),
         done' = done \/ done' = done \cup {consumed}
  PROVE  DoneStores'
<1>1. Goes /\ consumed \in Nat /\ consumed' = consumed + 1 /\ consumed < admitted /\ Op(consumed).kind # "store"
  BY M2Goes
<1>2. PICK id \in Nat : id = consumed
  BY <1>1
<1>3. Op(id)' = Op(id) /\ Op(id).kind # "store"
  BY <1>1, <1>2 DEF Goes, SameOps
<1>4. ASSUME NEW s \in done', s \notin done PROVE s \in Nat /\ s < consumed' /\ Op(s)'.kind # "store"
  <2>1. s = id
    BY <1>2, <1>4
  <2>2. id < consumed'
    BY <1>1, <1>2
  <2> QED BY <1>3, <2>1, <2>2
<1> QED BY <1>1, <1>4, OldestKept, DoneStoresKept

\* A hit moves nothing.
LEMMA HitData ==
  ASSUME Types, IInv, LookedUpFirst, Struct, DataOk, LoadHit(consumed) \/ PreloadHit(consumed), ~raced'
  PROVE  DataOk'
<1>1. PICK kinds \in {{"load"}, {"preload"}} : AtM2(kinds)
  BY DEF LoadHit, PreloadHit
<1>2. /\ UNCHANGED <<stores, reads, writes, misses, direct, cache, evict, memory>>
      /\ done' = done \cup {consumed}
  BY DEF LoadHit, PreloadHit, Complete, buffers, queues, storage
<1>3. Goes /\ Op(consumed).kind \in kinds
  BY <1>1, M2Goes
<1>4. \A l : Quiet(l)
  BY <1>1, <1>3, M2Goes
<1>5. \A l : AlikeStore(l) /\ MissFrom(l) /\ AlikeWrites(l) /\ AlikeBytes(l)
  BY <1>2, AlikeFrames DEF AlikeStore
<1>6. TagFirst' /\ \A l \in Lines : LineData(l)'
  BY <1>2, <1>3, <1>4, <1>5, NothingMoves
<1>7. DoneStores'
  BY <1>1, <1>2, <1>5, CompletedOne DEF DataOk
<1>8. Returned'
  <2>1. CASE LoadHit(consumed)
    BY <2>1, HitReturns
  <2>2. CASE PreloadHit(consumed)
    <3>1. results' = LoadResults({consumed}, EmptyLine) /\ AtM2({"preload"})
      BY <2>2 DEF PreloadHit, Complete
    <3>2. Op(consumed).kind = "preload"
      BY <3>1, M2Goes
    <3>3. \A k \in {consumed} : Op(k).kind # "load"
      BY <3>2
    <3> QED BY <1>3, <3>1, <3>3, CompletedLoads DEF DataOk
  <2> QED BY <2>1, <2>2
<1>9. DirectsKnown'
  BY <1>2, <1>3, DirectsKept DEF DataOk
<1> QED BY <1>6, <1>7, <1>8, <1>9 DEF DataOk

\* ST_DEV moves nothing; its line is a bypassed one from now on.
LEMMA DirectStoreData ==
  ASSUME Types, IInv, Struct, DataOk, DirectStoreM2(consumed)
  PROVE  DataOk'
<1>1. AtM2({"direct"})
  BY DEF DirectStoreM2
<1>2. UNCHANGED <<stores, reads, writes, misses, cache, evict, memory, results, done>>
  BY DEF DirectStoreM2, queues, storage, outcome
<1>3. /\ Goes /\ consumed \in Nat /\ consumed' = consumed + 1 /\ consumed < admitted
      /\ Op(consumed).kind = "direct" /\ \A l : Quiet(l)
  BY <1>1, M2Goes
<1>4. \A l : AlikeStore(l) /\ MissFrom(l) /\ AlikeWrites(l) /\ AlikeBytes(l)
  BY <1>2, AlikeFrames DEF AlikeStore
<1>5. TagFirst' /\ \A l \in Lines : LineData(l)'
  BY <1>2, <1>3, <1>4, NothingMoves
<1>6. DoneStores'
  <2>1. done' = done
    BY <1>2
  <2>2. DoneStores
    BY DEF DataOk
  <2>3. "store" \notin {"direct"}
    OBVIOUS
  <2> QED BY <1>1, <1>4, <2>1, <2>2, <2>3, CompletedOne
<1>7. Returned'
  BY <1>2, <1>3, ReturnedKept DEF DataOk
<1>8. DirectsKnown'
  <2>1. PICK x : /\ x.line = Op(consumed).line /\ x.request = consumed /\ direct' = Append(direct, x)
    BY DEF DirectStoreM2
  <2>2. direct \in Seq(DirectRec)
    BY DEF Types, DirectT
  <2>3. ASSUME NEW d \in DOMAIN direct' PROVE (\E e \in DOMAIN direct : direct'[d] = direct[e]) \/ direct'[d] = x
    <3> HIDE DEF DirectRec
    <3> QED BY <2>1, <2>2
  <2> QED BY <1>3, <2>1, <2>3, DirectsKept DEF DataOk
<1> QED BY <1>5, <1>6, <1>7, <1>8 DEF DataOk

\* What a miss changes: it joins the miss of its line, and starts a read when nobody has.
LEMMA LoadMissParts ==
  ASSUME Types, IInv, Struct, LoadMiss(consumed), NEW line \in Lines, line = Op(consumed).line
  PROVE  /\ AlikeBytes(line)
         /\ HasStore(line) => StoreEntry(line)'.state \in {StoreEntry(line).state, "Fetching"}
         /\ \A l : l # line => AlikeStore(l) /\ MissFrom(l)
         /\ \A k \in ToSet(misses'[line].requests) :
              k = consumed \/ (HasMiss(line) /\ k \in ToSet(misses[line].requests))
         /\ ReadBy(line, "Miss")' => ReadBy(line, "Miss") \/ ~HasMiss(line) \/ ~HasStore(line)
<1> DEFINE old == IF HasMiss(line) THEN misses[line] ELSE [state |-> "Idle", requests |-> <<>>]
           store == IF HasStore(line) THEN StoreEntry(line).state ELSE "none"
           issues == IssuesRead(old.state, store)
           new == [state |-> IF old.state = "Idle" /\ store = "Ready" THEN "Idle" ELSE "Fetching",
                   requests |-> Append(old.requests, consumed)]
<1>1. /\ misses' = Put(misses, line, new)
      /\ stores' = IF issues /\ HasStore(line)
                   THEN [stores EXCEPT ![StoreIndex(line)].state = "Fetching"] ELSE stores
      /\ reads' = IF issues THEN Append(reads, ReadOf(line, "Miss")) ELSE reads
  BY DEF LoadMiss
<1>2. /\ HasMiss(line) => old = misses[line]
      /\ ~HasMiss(line) => old.requests = <<>>
      /\ HasStore(line) => store = StoreEntry(line).state
      /\ issues => store \in {"none", "Idle"}
  BY DEF IssuesRead
<1>3. old.requests \in Seq(Requests) /\ consumed \in Requests
  <2>1. HasMiss(line) => misses[line] \in MissRec
    <3> HIDE DEF MissRec
    <3> QED BY DEF Types, MissT, HasMiss
  <2>2. AtM2({"load", "preload"})
    BY DEF LoadMiss
  <2> HIDE DEF Requests
  <2>3. consumed \in Requests
    BY <2>2, M2Goes
  <2> QED BY <2>1, <2>3 DEF MissRec
<1>4. new.requests = Append(old.requests, consumed)
  OBVIOUS
<1> HIDE DEF old, store, issues, new, Requests
<1>5. /\ misses'[line].requests = Append(old.requests, consumed)
      /\ \A l : l # line => (HasMiss(l)' <=> HasMiss(l)) /\ (HasMiss(l) => misses'[l] = misses[l])
  <2>1. misses' = [l \in DOMAIN misses \cup {line} |-> IF l = line THEN new ELSE misses[l]]
    BY <1>1 DEF Put
  <2> QED BY <1>4, <2>1 DEF HasMiss
<1>6. \A k \in ToSet(misses'[line].requests) :
        k = consumed \/ (HasMiss(line) /\ k \in ToSet(misses[line].requests))
  <2>1. \A k \in ToSet(Append(old.requests, consumed)) : k = consumed \/ k \in ToSet(old.requests)
    BY <1>3 DEF ToSet
  <2>2. CASE HasMiss(line)
    BY <1>2, <1>5, <2>1, <2>2
  <2>3. CASE ~HasMiss(line)
    <3>1. ToSet(old.requests) = {}
      BY <1>2, <2>3 DEF ToSet
    <3> QED BY <1>5, <2>1, <3>1
  <2> QED BY <2>2, <2>3
<1>7. /\ \A l, o : l # line => (ReadBy(l, o)' => ReadBy(l, o))
      /\ ReadBy(line, "Miss")' => ReadBy(line, "Miss") \/ issues
  <2>1. CASE issues
    <3>1. reads' = Append(reads, ReadOf(line, "Miss")) /\ reads \in Seq(ReadRec)
      BY <1>1, <2>1 DEF Types, ReadT
    <3> HIDE DEF ReadRec
    <3>2. \A i \in DOMAIN reads' : (i \in DOMAIN reads /\ reads'[i] = reads[i]) \/ reads'[i] = ReadOf(line, "Miss")
      BY <3>1
    <3>3. ReadOf(line, "Miss").line = line
      BY DEF ReadOf
    <3> QED BY <2>1, <3>2, <3>3 DEF ReadBy
  <2>2. CASE ~issues
    BY <1>1, <2>2 DEF ReadBy
  <2> QED BY <2>1, <2>2
<1>8. /\ AlikeBytes(line) /\ \A l : l # line => AlikeStore(l)
      /\ HasStore(line) => StoreEntry(line)'.state \in {StoreEntry(line).state, "Fetching"}
  <2>1. CASE issues /\ HasStore(line)
    <3> DEFINE k == StoreIndex(line)
               f == [stores[k] EXCEPT !.state = "Fetching"]
    <3>1. k \in DOMAIN stores /\ stores[k] \in StoreRec /\ stores[k].line = line
          /\ StoreEntry(line) = stores[k]
      BY <2>1, StoreFacts DEF Types
    <3>2. f \in StoreRec
      BY <3>1, StoreRecUpdates
    <3>3. /\ f.line = line /\ f.state = "Fetching"
          /\ f.bytes = StoreEntry(line).bytes
          /\ f.valid = StoreEntry(line).valid /\ f.requests = StoreEntry(line).requests
      <4> HIDE DEF Data, Requests
      <4> QED BY <3>1 DEF StoreRec
    <3>4. stores' = [stores EXCEPT ![k] = f]
      BY <1>1, <2>1
    <3> HIDE DEF f, k, StoreRec
    <3>5. StoreT /\ StoresApart
      BY DEF Types, Struct
    <3>6. /\ HasStore(line)' /\ StoreEntry(line)' = f
          /\ \A l : l # line => /\ HasStore(l)' <=> HasStore(l)
                                /\ HasStore(l) => StoreEntry(l)' = StoreEntry(l)
      <4>1. f.line = line /\ line = stores[k].line
        BY <3>1, <3>3
      <4> QED BY <3>1, <3>2, <3>4, <3>5, <4>1, StoreReplaced
    <3>7. \A l : l # line => AlikeStore(l)
      BY <3>6, SameAlike DEF SameStore
    <3> QED BY <2>1, <3>3, <3>6, <3>7 DEF AlikeBytes
  <2>2. CASE ~(issues /\ HasStore(line))
    <3>1. UNCHANGED stores
      BY <1>1, <2>2
    <3>2. \A l : AlikeStore(l)
      BY <3>1, AlikeFrames
    <3> QED BY <3>2 DEF AlikeStore
  <2> QED BY <2>1, <2>2
<1>9. \A l : l # line => MissFrom(l)
  BY <1>5, <1>7 DEF MissFrom
<1>10. issues => ~HasMiss(line) \/ ~HasStore(line)
  <2>1. HasMiss(line) /\ HasStore(line) => StoreEntry(line).state # "Idle"
    BY DEF Struct, StoreBesideMiss
  <2>2. HasStore(line) /\ StoreEntry(line).state # "Idle" => StoreEntry(line).state # "none"
    <3>1. HasStore(line) => StoreEntry(line) \in StoreRec
      <4> HIDE DEF StoreRec
      <4> QED BY StoreFacts DEF Types
    <3> HIDE DEF Data
    <3> QED BY <3>1 DEF StoreRec
  <2> QED BY <1>2, <2>1, <2>2
<1> QED BY <1>6, <1>7, <1>8, <1>9, <1>10

\* The miss that joins is younger than the stores to its line and not covered by the entry.
LEMMA LoadMissWaits ==
  ASSUME Types, IInv, Struct, DataOk, LoadMiss(consumed), NEW line \in Lines, line = Op(consumed).line
  PROVE  MissLoads(line)'
<1>1. /\ Goes /\ consumed \in Nat /\ consumed' = consumed + 1 /\ consumed < admitted
      /\ Op(consumed).kind \in {"load", "preload"}
  <2>1. AtM2({"load", "preload"})
    BY DEF LoadMiss
  <2> QED BY <2>1, M2Goes
<1>2. PICK id \in Nat : id = consumed
  BY <1>1
<1>3. SameOps /\ admitted \in Nat /\ consumed' \in Nat
  BY <1>1 DEF Goes, PipeFacts
<1>4. \A t \in Nat : t <= id => Op(t)' = Op(t)
  BY <1>1, <1>2, <1>3 DEF SameOps
<1>5. AlikeBytes(line)
  BY LoadMissParts
<1>6. ASSUME NEW t \in 0..id, Op(t).kind = "store", Op(t).line = line PROVE t < id
  BY <1>1, <1>2, <1>6
<1> SUFFICES ASSUME NEW k \in ToSet(misses'[line].requests)
             PROVE  Waits(line, k)' /\ (ReadBy(line, "Miss")' => Uncovered(line, k)')
  BY DEF MissLoads
<1>7. CASE k = id
  <2>1. Waits(line, k)'
    <3>1. \A t \in 0..id : Op(t)'.kind = "store" /\ Op(t)'.line = line => t < id
      BY <1>4, <1>6
    <3>2. id < consumed' /\ Op(id)'.line = line /\ Op(id)'.kind \in {"load", "preload"}
      BY <1>1, <1>2, <1>4
    <3>3. \A t \in 0..consumed' - 1 : t \in 0..id
      BY <1>1, <1>2
    <3> QED BY <1>7, <3>1, <3>2, <3>3 DEF Waits
  <2>2. Uncovered(line, id)
    <3> SUFFICES ASSUME HasStore(line), NEW o \in Offsets, Op(id).kind = "load", Op(id).bytes = {o},
                        o \in StoreEntry(line).valid
                 PROVE  FALSE
      BY DEF Uncovered
    <3>1. Op(id).bytes \cap StoreEntry(line).valid = {o}
      OBVIOUS
    <3>2. Covered(id) = Cardinality(Op(id).bytes)
      BY <1>2, <3>1 DEF Covered
    <3> QED BY <1>2, <3>2 DEF LoadMiss
  <2>3. Uncovered(line, id)'
    BY <1>4, <1>5, <2>2 DEF Uncovered, AlikeBytes
  <2> QED BY <1>7, <2>1, <2>3
<1>8. CASE k # id
  <2>1. /\ HasMiss(line) /\ k \in ToSet(misses[line].requests)
        /\ ReadBy(line, "Miss")' => ReadBy(line, "Miss") \/ ~HasStore(line)
    BY <1>2, <1>8, LoadMissParts
  <2>2. Waits(line, k) /\ (ReadBy(line, "Miss") => Uncovered(line, k))
    BY <2>1 DEF DataOk, LineData, MissLoads
  <2>3. k \in Nat /\ k < id
    BY <1>2, <2>2 DEF Waits
  <2>4. Op(k)' = Op(k)
    BY <1>4, <2>3
  <2>5. ASSUME NEW t \in 0..consumed' - 1, Op(t)'.kind = "store", Op(t)'.line = line PROVE t < k
    <3>1. t \in Nat /\ t <= id
      BY <1>1, <1>2
    <3>2. Op(t)' = Op(t)
      BY <1>4, <3>1
    <3>3. t < id
      BY <1>6, <2>5, <3>1, <3>2
    <3>4. t \in 0..consumed - 1
      BY <1>2, <3>1, <3>3
    <3> QED BY <2>2, <2>5, <3>2, <3>4 DEF Waits
  <2>6. k < consumed'
    BY <1>1, <1>2, <2>3
  <2>7. Waits(line, k)'
    BY <2>2, <2>4, <2>5, <2>6 DEF Waits
  <2>8. ReadBy(line, "Miss")' => Uncovered(line, k)'
    BY <1>5, <2>1, <2>2, <2>4 DEF Uncovered, AlikeBytes
  <2> QED BY <2>7, <2>8
<1> QED BY <1>7, <1>8

\* A miss moves nothing; the entry of its line may be fetching now.
LEMMA LoadMissData ==
  ASSUME Types, IInv, Struct, DataOk, LoadMiss(consumed), ~raced'
  PROVE  DataOk'
<1>1. AtM2({"load", "preload"})
  BY DEF LoadMiss
<1>2. /\ Goes /\ consumed \in Nat /\ consumed' = consumed + 1 /\ consumed < admitted
      /\ Op(consumed).kind \in {"load", "preload"} /\ Op(consumed).line \in Lines /\ \A l : Quiet(l)
  BY <1>1, M2Goes
<1>3. PICK line \in Lines : line = Op(consumed).line
  BY <1>2
<1>4. UNCHANGED <<direct, writes, cache, evict, memory, results, done>>
  BY DEF LoadMiss, storage, outcome
<1>5. ~Cached(line)
  <2>1. ~Stale(consumed) /\ lookup[consumed + 1] = 0
    BY DEF LoadMiss
  <2> QED BY <1>3, <2>1, NotStale
<1>6. /\ AlikeBytes(line)
      /\ HasStore(line) => StoreEntry(line)'.state \in {StoreEntry(line).state, "Fetching"}
      /\ \A l : l # line => AlikeStore(l) /\ MissFrom(l)
  BY <1>3, LoadMissParts
<1>7. \A l : AlikeWays(l) /\ AlikeEvict(l) /\ AlikeWrites(l)
  BY <1>4, AlikeFrames
<1>8. ~Cached(line)' /\ (HasWrite(line)' <=> HasWrite(line))
  BY <1>4, <1>5 DEF Cached, HasWrite
<1>9. LineData(line)'
  <2>1. EntryStates(line)'
    <3>1. EntryStates(line)
      BY DEF DataOk, LineData
    <3> QED BY <1>6, <1>8, <3>1 DEF EntryStates, AlikeBytes
  <2>2. MissLoads(line)'
    BY <1>3, LoadMissWaits
  <2>3. ASSUME ~Bypassed(line)' PROVE CopiesData(line)'
    <3>1. CopiesData(line)
      BY <1>2, <2>3, BypassedKept DEF DataOk, LineData
    <3>2. memory'[line] = memory[line] /\ Quiet(line)
      BY <1>2, <1>4
    <3> QED BY <1>2, <1>6, <1>7, <1>8, <3>1, <3>2, AlikeCopies
  <2> QED BY <2>1, <2>2, <2>3 DEF LineData
<1>10. ASSUME NEW l \in Lines, l # line PROVE LineData(l)'
  <2>1. AlikeStore(l) /\ MissFrom(l) /\ Quiet(l) /\ memory'[l] = memory[l] /\ LineData(l)
    BY <1>2, <1>4, <1>6, <1>10 DEF DataOk
  <2> QED BY <1>2, <1>7, <2>1, AlikeLine
<1>11. TagFirst'
  BY <1>4, TagFirstKept DEF DataOk
<1>12. DoneStores'
  <2>1. \A l : AlikeBytes(l)
    BY <1>6 DEF AlikeStore
  <2>2. DoneStores /\ "store" \notin {"load", "preload"}
    BY DEF DataOk
  <2> QED BY <1>1, <1>4, <2>1, <2>2, CompletedOne
<1>13. Returned' /\ DirectsKnown'
  BY <1>2, <1>4, ReturnedKept, DirectsKept DEF DataOk
<1> QED BY <1>9, <1>10, <1>11, <1>12, <1>13 DEF DataOk

\* What a store changes: it joins the entry of its line or starts one.
LEMMA StoreM2Effect ==
  ASSUME Types, IInv, Struct, StoreM2(consumed), NEW line \in Lines, line = Op(consumed).line,
         NEW id \in Nat, id = consumed
  PROVE  /\ HasStore(line)' /\ \A l : l # line => AlikeStore(l)
         /\ HasStore(line) => /\ StoreEntry(line)'.state = StoreEntry(line).state
                              /\ Oldest(line)' = Oldest(line)
                              /\ StoreEntry(line)'.valid = StoreEntry(line).valid \cup Op(id).bytes
                              /\ \A o \in Offsets : o \notin Op(id).bytes =>
                                   StoreEntry(line)'.bytes[o] = StoreEntry(line).bytes[o]
         /\ ~HasStore(line) => /\ StoreEntry(line)'.state = "Idle" /\ Oldest(line)' = id
                               /\ StoreEntry(line)'.valid = Op(id).bytes
         /\ \A o \in Op(id).bytes : StoreEntry(line)'.bytes[o] = id + 1
<1> DEFINE old == IF HasStore(line) THEN StoreEntry(line) ELSE Fresh(consumed)
           new == Into(consumed, old)
<1>1. /\ consumed \in Requests /\ consumed + 1 \in 0..MaxRequests
      /\ Op(consumed).bytes \subseteq Offsets
  <2>1. AtM2({"store"})
    BY DEF StoreM2
  <2> QED BY <2>1, AtM2Facts
<1>2. StoreT /\ StoresApart
  BY DEF Types, Struct
<1>3. old \in StoreRec /\ old.line = line
  <2> HIDE DEF StoreRec
  <2>1. CASE HasStore(line)
    BY <1>2, <2>1, StoreFacts
  <2>2. CASE ~HasStore(line)
    BY <2>2, FreshTyped
  <2> QED BY <2>1, <2>2
<1>4. /\ ~HasStore(line) => old.state = "Idle" /\ old.requests = <<>> /\ old.valid = {}
      /\ HasStore(line) => old = StoreEntry(line)
  BY FreshTyped
<1>5. /\ HasStore(line) => stores' = [stores EXCEPT ![StoreIndex(line)] = new]
      /\ ~HasStore(line) => stores' = Append(stores, new)
  BY StoreM2Parts
<1> HIDE DEF old
<1>6. /\ new \in StoreRec /\ new.line = line /\ new.state = old.state
      /\ new.requests = Append(old.requests, consumed)
      /\ new.bytes = [o \in Offsets |-> IF o \in Op(consumed).bytes THEN consumed + 1 ELSE old.bytes[o]]
      /\ new.valid = old.valid \cup Op(consumed).bytes
  BY <1>1, <1>3, IntoTyped
<1> HIDE DEF new, StoreRec
<1>7. /\ HasStore(line)' /\ StoreEntry(line)' = new
      /\ \A l : l # line => /\ HasStore(l)' <=> HasStore(l)
                            /\ HasStore(l) => StoreEntry(l)' = StoreEntry(l)
  <2>1. CASE HasStore(line)
    <3>1. StoreIndex(line) \in DOMAIN stores /\ stores[StoreIndex(line)].line = line
      BY <1>2, <2>1, StoreFacts
    <3> QED BY <1>2, <1>5, <1>6, <2>1, <3>1, StoreReplaced
  <2>2. CASE ~HasStore(line)
    BY <1>2, <1>5, <1>6, <2>2, StoreAppended
  <2> QED BY <2>1, <2>2
<1>8. old.requests \in Seq(Requests)
  BY <1>3 DEF StoreRec
<1> HIDE DEF Requests
<1>9. /\ ~HasStore(line) => Head(new.requests) = id
      /\ HasStore(line) => Head(new.requests) = Head(old.requests)
  <2>1. HasStore(line) => old.requests # <<>>
    BY <1>4, OldestFacts
  <2>2. Head(<<id>>) = id
    OBVIOUS
  <2>3. CASE ~HasStore(line)
    BY <1>1, <1>4, <1>6, <2>3
  <2>4. CASE HasStore(line)
    BY <1>1, <1>6, <1>8, <2>1, <2>4
  <2> QED BY <2>3, <2>4
<1>10. \A l : l # line => AlikeStore(l)
  BY <1>7, SameAlike DEF SameStore
<1>11. Oldest(line)' = Head(new.requests)
  BY <1>7 DEF Oldest
<1>12. \A o \in Offsets : new.bytes[o] = IF o \in Op(id).bytes THEN id + 1 ELSE old.bytes[o]
  BY <1>6
<1>13. \A o \in Op(id).bytes : o \in Offsets
  BY <1>1
<1> QED BY <1>4, <1>6, <1>7, <1>9, <1>10, <1>11, <1>12, <1>13 DEF Oldest

\* What the older stores wrote is where it was when another store joins.
LEMMA BackedSame ==
  ASSUME PipeFacts, SameOps, NEW l, NEW b \in Nat, b <= admitted, NEW d
  PROVE  /\ Base(l) = b /\ Base(l)' = b /\ Backed(l, d) => Backed(l, d)'
         /\ CopyBase(l) = b /\ CopyBase(l)' = b /\ Copied(l, d) => Copied(l, d)'
<1>1. \A o, x : Latest(l, o, b, x) => Latest(l, o, b, x)'
  BY LatestSame
<1>2. ASSUME Base(l) = b, Base(l)' = b, Backed(l, d) PROVE Backed(l, d)'
  BY <1>1, <1>2 DEF Backed, Latest
<1>3. ASSUME CopyBase(l) = b, CopyBase(l)' = b, Copied(l, d) PROVE Copied(l, d)'
  BY <1>1, <1>3 DEF Copied, Latest
<1> QED BY <1>2, <1>3

\* The entry has the latest bytes when a store has joined.
LEMMA StoreM2Entry ==
  ASSUME Types, IInv, Struct, StoreM2(consumed), NEW line \in Lines, line = Op(consumed).line, EntryData(line)
  PROVE  EntryData(line)'
<1>1. /\ Goes /\ consumed \in Nat /\ consumed' = consumed + 1 /\ consumed < admitted
      /\ Op(consumed).kind = "store" /\ Op(consumed).bytes \subseteq Offsets
  <2>1. AtM2({"store"})
    BY DEF StoreM2
  <2> QED BY <2>1, M2Goes
<1>2. PICK id \in Nat : id = consumed
  BY <1>1
<1>3. /\ HasStore(line) => /\ Oldest(line)' = Oldest(line)
                           /\ StoreEntry(line)'.valid = StoreEntry(line).valid \cup Op(id).bytes
                           /\ \A o \in Offsets : o \notin Op(id).bytes =>
                                   StoreEntry(line)'.bytes[o] = StoreEntry(line).bytes[o]
      /\ ~HasStore(line) => Oldest(line)' = id /\ StoreEntry(line)'.valid = Op(id).bytes
      /\ \A o \in Op(id).bytes : StoreEntry(line)'.bytes[o] = id + 1
  BY <1>2, StoreM2Effect
<1>4. PipeFacts /\ SameOps /\ id + 1 \in Nat /\ id + 1 <= admitted /\ id < admitted
  BY <1>1, <1>2 DEF Goes, PipeFacts
<1>5. ASSUME NEW o \in Offsets, o \in Op(id).bytes PROVE Latest(line, o, id + 1, id + 1)'
  <2>1. WritesByte(id, line, o)
    BY <1>1, <1>2, <1>5 DEF WritesByte
  <2>2. Latest(line, o, id + 1, id + 1)
    BY <2>1, LatestWritten
  <2>3. PICK n \in Nat : n = id + 1
    BY <1>4
  <2>4. Latest(line, o, n, n)'
    BY <1>4, <2>2, <2>3, LatestSame
  <2> QED BY <2>3, <2>4 DEF Latest
<1>6. ASSUME NEW o \in Offsets, o \notin Op(id).bytes, NEW x, Latest(line, o, id, x)
      PROVE  Latest(line, o, id + 1, x)'
  <2>1. \A t \in id..(id + 1) - 1 : ~WritesByte(t, line, o)
    BY <1>2, <1>6 DEF WritesByte
  <2>2. PICK n \in Nat : n = id + 1
    BY <1>4
  <2>3. Latest(line, o, n, x)
    <3>1. id <= n /\ \A t \in id..n - 1 : ~WritesByte(t, line, o)
      BY <2>1, <2>2
    <3> QED BY <1>6, <3>1, LatestGrows
  <2>4. Latest(line, o, n, x)'
    BY <1>4, <2>2, <2>3, LatestSame
  <2> QED BY <2>2, <2>4 DEF Latest
<1>7. consumed' = id + 1
  BY <1>1, <1>2
<1> SUFFICES ASSUME NEW o \in Offsets
             PROVE  IF o \in StoreEntry(line)'.valid THEN Latest(line, o, consumed, StoreEntry(line).bytes[o])'
                    ELSE \A t \in Oldest(line)'..consumed' - 1 : ~WritesByte(t, line, o)'
  BY DEF EntryData
<1>8. CASE o \in Op(id).bytes
  <2>1. o \in StoreEntry(line)'.valid /\ StoreEntry(line)'.bytes[o] = id + 1
    BY <1>3, <1>8
  <2> QED BY <1>5, <1>7, <1>8, <2>1 DEF Latest
<1>9. CASE o \notin Op(id).bytes /\ o \in StoreEntry(line)'.valid
  <2>1. HasStore(line) /\ o \in StoreEntry(line).valid /\ StoreEntry(line)'.bytes[o] = StoreEntry(line).bytes[o]
    BY <1>3, <1>9
  <2>2. PICK x : x = StoreEntry(line).bytes[o]
    OBVIOUS
  <2>3. Latest(line, o, id, x)
    BY <1>2, <2>1, <2>2 DEF EntryData
  <2>4. Latest(line, o, id + 1, x)'
    BY <1>6, <1>9, <2>3
  <2> QED BY <1>7, <1>9, <2>1, <2>2, <2>4 DEF Latest
<1>10. CASE o \notin Op(id).bytes /\ o \notin StoreEntry(line)'.valid
  <2>1. PICK a \in Nat : a = Oldest(line)'
    <3>1. HasStore(line) => Oldest(line) \in Nat
      BY OldestFacts
    <3> QED BY <1>3, <3>1
  <2>2. ASSUME NEW t \in a..id PROVE ~WritesByte(t, line, o)'
    <3>1. ~WritesByte(t, line, o)
      <4>1. CASE t = id
        BY <1>10, <4>1 DEF WritesByte
      <4>2. CASE t # id /\ HasStore(line)
        <5>1. o \notin StoreEntry(line).valid /\ a = Oldest(line)
          BY <1>3, <1>10, <2>1, <4>2
        <5>2. t \in a..id - 1
          BY <2>2, <4>2
        <5> QED BY <1>2, <4>2, <5>1, <5>2 DEF EntryData
      <4>3. CASE ~HasStore(line)
        <5>1. a = id
          BY <1>3, <2>1, <4>3
        <5>2. t = id
          BY <2>2, <5>1
        <5> QED BY <1>10, <5>2 DEF WritesByte
      <4> QED BY <4>1, <4>2, <4>3
    <3>2. t \in Nat /\ t < admitted
      BY <1>4, <2>2 DEF PipeFacts
    <3> QED BY <1>4, <3>1, <3>2, WritesSame
  <2>3. \A t \in a..(id + 1) - 1 : t \in a..id
    OBVIOUS
  <2> QED BY <1>7, <1>10, <2>1, <2>2, <2>3
<1> QED BY <1>8, <1>9, <1>10

\* A store joins: its line's copies stay as good as they were.
LEMMA StoreM2Line ==
  ASSUME Types, IInv, Struct, DataOk, StoreM2(consumed), NEW line \in Lines, line = Op(consumed).line
  PROVE  LineData(line)'
<1>1. /\ Goes /\ consumed \in Nat /\ consumed' = consumed + 1 /\ consumed < admitted
      /\ Op(consumed).kind = "store"
  <2>1. AtM2({"store"})
    BY DEF StoreM2
  <2> QED BY <2>1, M2Goes
<1>2. PICK id \in Nat : id = consumed
  BY <1>1
<1>3. /\ HasStore(line)'
      /\ HasStore(line) => StoreEntry(line)'.state = StoreEntry(line).state /\ Oldest(line)' = Oldest(line)
      /\ ~HasStore(line) => StoreEntry(line)'.state = "Idle" /\ Oldest(line)' = id
  BY <1>2, StoreM2Effect
<1>4. UNCHANGED <<misses, reads, writes, cache, memory, evict>>
  BY DEF StoreM2, queues, storage
<1>5. ~HasMiss(line) /\ ~HasWrite(line)
  <2>1. AtM2({"store"})
    BY DEF StoreM2
  <2>2. ~Hazard(consumed)
    BY <2>1, AtM2Facts
  <2> QED BY <1>1, <2>2 DEF Hazard, StoreHazard
<1>6. ~HasMiss(line)' /\ ~HasWrite(line)' /\ (Cached(line)' <=> Cached(line))
  BY <1>4, <1>5 DEF HasMiss, HasWrite, Cached
<1>7. EntryStates(line) /\ (~Bypassed(line) => CopiesData(line))
  BY DEF DataOk, LineData
<1>8. HasStore(line) => StoreEntry(line).state = "Idle" \/ ~Cached(line)
  <2>1. HasStore(line) => StoreEntry(line).state \in {"Idle", "Fetching", "Ready"}
    <3>1. HasStore(line) => StoreEntry(line) \in StoreRec
      <4> HIDE DEF StoreRec
      <4> QED BY StoreFacts DEF Types
    <3> HIDE DEF Requests, Data
    <3> QED BY <3>1 DEF StoreRec
  <2> QED BY <1>5, <1>7, <2>1 DEF EntryStates
<1>9. EntryStates(line)'
  BY <1>3, <1>5, <1>6, <1>7 DEF EntryStates
<1>10. MissLoads(line)'
  BY <1>6 DEF MissLoads
<1>11. ASSUME ~Bypassed(line)' PROVE CopiesData(line)'
  <2>1. CopiesData(line)
    BY <1>1, <1>7, <1>11, BypassedKept
  <2>2. EntryData(line)'
    BY <2>1, StoreM2Entry DEF CopiesData
  <2>3. PICK b \in Nat : b = Base(line) /\ b = Base(line)' /\ b <= admitted
    <3>1. HasStore(line) => Oldest(line) \in Nat /\ Oldest(line) < consumed
      BY OldestFacts
    <3>2. Base(line) \in Nat /\ Base(line) <= admitted
      <4>1. admitted \in Nat
        BY <1>1 DEF Goes, PipeFacts
      <4> QED BY <1>1, <3>1, <4>1 DEF Base
    <3>3. Base(line)' = Base(line)
      BY <1>2, <1>3 DEF Base
    <3> QED BY <3>2, <3>3
  <2>4. PipeFacts /\ SameOps
    BY <1>1 DEF Goes
  <2>5. \A d : Backed(line, d) => Backed(line, d)'
    BY <2>3, <2>4, BackedSame
  <2>6. (HasStore(line) /\ StoreEntry(line).state # "Idle") \/ (CopyBase(line) = b /\ CopyBase(line)' = b)
    BY <1>2, <1>3, <2>3 DEF Base, CopyBase
  <2>7. WayData(line)'
    <3>1. CASE Cached(line)
      <4>1. CopyBase(line) = b /\ CopyBase(line)' = b
        BY <1>8, <2>6, <3>1
      <4>2. \A d : Copied(line, d) => Copied(line, d)'
        BY <2>3, <2>4, <4>1, BackedSame
      <4>3. WaysFrom(line)
        BY <1>4 DEF WaysFrom
      <4> QED BY <2>1, <4>2, <4>3, CopiesMoved DEF CopiesData
    <3>2. CASE ~Cached(line)
      <4>1. ~Cached(line)'
        BY <1>6, <3>2
      <4> QED BY <4>1 DEF WayData, Cached
    <3> QED BY <3>1, <3>2
  <2>8. EvictFrom(line) /\ HeldFrom(line)
    BY <1>4 DEF EvictFrom, HeldFrom, Evicted
  <2>9. ~WritingWay(line) /\ ~WritingWay(line)'
    BY <1>5, <1>6 DEF WritingWay
  <2>10. MemoryFrom(line)
    BY <1>4, <2>9 DEF MemoryFrom, InMemory, Evicted, DirtyWay, WayWritten
  <2>11. WritingData(line)'
    BY <2>9 DEF WritingData
  <2> QED BY <2>1, <2>2, <2>5, <2>7, <2>8, <2>10, <2>11, CopiesMoved DEF CopiesData
<1> QED BY <1>9, <1>10, <1>11 DEF LineData

\* A store that joins or starts an entry.
LEMMA StoreM2Data ==
  ASSUME Types, IInv, Struct, DataOk, StoreM2(consumed)
  PROVE  DataOk'
<1>1. AtM2({"store"})
  BY DEF StoreM2
<1>2. /\ Goes /\ consumed \in Nat /\ consumed' = consumed + 1 /\ consumed < admitted
      /\ Op(consumed).line \in Lines /\ \A l : Op(consumed).line # l => Quiet(l)
  BY <1>1, M2Goes
<1>3. PICK line \in Lines : line = Op(consumed).line
  BY <1>2
<1>4. PICK id \in Nat : id = consumed
  BY <1>2
<1>5. UNCHANGED <<misses, direct, reads, writes, cache, evict, memory, results, done>>
  BY DEF StoreM2, queues, storage, outcome
<1>6. /\ HasStore(line) => Oldest(line)' = Oldest(line)
      /\ ~HasStore(line) => Oldest(line)' = consumed
      /\ \A l : l # line => AlikeStore(l)
  BY <1>3, <1>4, StoreM2Effect
<1>7. \A l : MissFrom(l) /\ AlikeWays(l) /\ AlikeEvict(l) /\ AlikeWrites(l)
  BY <1>5, AlikeFrames
<1>8. LineData(line)'
  BY <1>3, StoreM2Line
<1>9. ASSUME NEW l \in Lines, l # line PROVE LineData(l)'
  <2>1. AlikeStore(l) /\ Quiet(l) /\ memory'[l] = memory[l] /\ LineData(l)
    BY <1>2, <1>3, <1>5, <1>6, <1>9 DEF DataOk
  <2> QED BY <1>2, <1>7, <2>1, AlikeLine
<1>10. TagFirst'
  BY <1>5, TagFirstKept DEF DataOk
<1>11. DoneStores'
  <2>1. ASSUME NEW l, HasStore(l)' PROVE (HasStore(l) /\ Oldest(l)' = Oldest(l)) \/ Oldest(l)' = consumed
    <3>1. CASE l = line
      BY <1>6, <3>1
    <3>2. CASE l # line
      <4>1. AlikeBytes(l)
        BY <1>6, <3>2 DEF AlikeStore
      <4> QED BY <2>1, <4>1, BaseKept DEF AlikeBytes
    <3> QED BY <3>1, <3>2
  <2> QED BY <1>2, <1>5, <2>1, DoneStoresKept DEF DataOk
<1>12. Returned' /\ DirectsKnown'
  BY <1>2, <1>5, ReturnedKept, DirectsKept DEF DataOk
<1> QED BY <1>8, <1>9, <1>10, <1>11, <1>12 DEF DataOk
-----------------------------------------------------------------------------
(* The data: responses to writes, direct stores *)

\* New writes take their bytes from no way.
LEMMA WritesGrown ==
  ASSUME WriteT, WriteT', NEW t \in Seq(WriteRec), writes' = writes \o t, NEW l,
         \A j \in DOMAIN t : t[j].line = l => t[j].way = 0 /\ ~Ub(l)
  PROVE  AlikeWrites(l)
<1>1. /\ HasWrite(l)' <=> HasWrite(l) \/ \E j \in DOMAIN t : t[j].line = l
      /\ \A j \in DOMAIN writes' : \/ j \in DOMAIN writes /\ writes'[j] = writes[j]
                                   \/ \E i \in DOMAIN t : writes'[j] = t[i] /\ j = Len(writes) + i
      /\ \A j \in DOMAIN writes : j \in DOMAIN writes' /\ writes'[j] = writes[j]
  BY WritesExtended
<1>2. WayWritten(l) => WayWritten(l)'
  BY <1>1 DEF WayWritten
<1> QED BY <1>1, <1>2 DEF AlikeWrites

\* The others stay when a write is acknowledged.
LEMMA WritesShrunk ==
  ASSUME WriteT, WriteT', NEW k \in DOMAIN writes, writes' = RemoveAt(writes, k), NEW l,
         l # writes[k].line \/ (writes[k].way = 0 /\ ~Ub(l))
  PROVE  AlikeWrites(l)
<1>1. /\ l # writes[k].line => (HasWrite(l)' <=> HasWrite(l))
      /\ \A j \in DOMAIN writes' : \E i \in DOMAIN writes : i # k /\ writes'[j] = writes[i]
  BY WriteRemoved
<1>2. writes \in Seq(WriteRec)
  BY DEF WriteT
<1>3. \A i \in DOMAIN writes : i # k => \E j \in DOMAIN writes' : writes'[j] = writes[i]
  <2> HIDE DEF WriteRec
  <2> QED BY <1>2, RemoveMembers
<1>4. WayWritten(l) => WayWritten(l)'
  BY <1>3 DEF WayWritten
<1> QED BY <1>1, <1>4 DEF AlikeWrites

\* All bytes of a line stay up to date.
LEMMA FullStays ==
  ASSUME Goes, NEW l, Quiet(l), NEW d, Full(l, d)
  PROVE  Full(l, d)'
<1>1. PipeFacts /\ SameOps /\ consumed' <= admitted
  BY DEF Goes
<1> QED BY <1>1, FullKept DEF Full

\* Without an entry all of them are needed.
LEMMA NoEntryNext ==
  ASSUME NEW l, ~HasStore(l)', NEW d
  PROVE  (Backed(l, d)' <=> Full(l, d)') /\ (Copied(l, d)' <=> Full(l, d)')
BY DEF Backed, Copied, Full, Base, CopyBase

\* What is up to date when a line arrives is what the loads that wait for it must see.
LEMMA WaitsLatest ==
  ASSUME PipeFacts, NEW l, NEW id, Waits(l, id), NEW o, NEW x, Latest(l, o, consumed, x)
  PROVE  Latest(l, o, id, x)
<1>1. id \in Nat /\ id <= consumed /\ consumed \in Nat
  BY DEF Waits, PipeFacts
<1>2. \A t \in id..consumed - 1 : ~WritesByte(t, l, o)
  <2> SUFFICES ASSUME NEW t \in id..consumed - 1, WritesByte(t, l, o) PROVE FALSE
    OBVIOUS
  <2>1. t \in 0..consumed - 1 /\ id <= t
    BY <1>1
  <2>2. t < id
    BY <2>1 DEF Waits, WritesByte
  <2> QED BY <1>1, <2>1, <2>2
<1> QED BY <1>1, <1>2, LatestGrows

\* The stores of a line complete when its entry leaves.
LEMMA StoresDone ==
  ASSUME Types, Goes, DoneStores, NEW line,
         \A s \in done' : \/ s \in done
                          \/ /\ s \in Nat /\ s < consumed
                             /\ Op(s).kind = "store" => Op(s).line = line /\ ~HasStore(line)',
         \A l : HasStore(l)' => HasStore(l) /\ Oldest(l)' = Oldest(l)
  PROVE  DoneStores'
<1>1. SameOps /\ consumed \in Nat /\ consumed' \in Nat /\ admitted \in Nat /\ consumed <= admitted
      /\ consumed <= consumed'
  BY DEF Goes, PipeFacts
<1>2. ASSUME NEW s \in done', s \notin done
      PROVE  s \in Nat /\ s < consumed' /\ (Op(s)'.kind = "store" => ~HasStore(Op(s).line)')
  <2>1. s \in Nat /\ s < consumed /\ (Op(s).kind = "store" => Op(s).line = line /\ ~HasStore(line)')
    BY <1>2
  <2>2. s < admitted /\ s < consumed'
    BY <1>1, <2>1
  <2>3. Op(s)' = Op(s)
    BY <1>1, <2>1, <2>2 DEF SameOps
  <2>4. Op(s)'.kind = "store" => Op(s)'.line = line /\ ~HasStore(line)'
    BY <2>1, <2>3
  <2>5. Op(s)'.line = line => (HasStore(Op(s).line)' <=> HasStore(line)')
    BY DEF HasStore
  <2> QED BY <2>1, <2>2, <2>4, <2>5
<1> QED BY <1>2, DoneStoresKept

\* Direct stores are written out; their bytes are nobody else's.
LEMMA ProcessData ==
  ASSUME Types, Types', PipeFacts, Struct, DataOk, ProcessDirectStores
  PROVE  DataOk'
<1> DEFINE t == [i \in DOMAIN direct |-> WriteOf(direct[i].line, 0)]
<1> HIDE DEF WriteRec, DirectRec
<1>1. /\ writes' = writes \o t
      /\ UNCHANGED <<ops, admitted, consumed, stores, misses, reads, direct, cache, evict, memory, results, done>>
  BY DEF ProcessDirectStores, pipeVars, buffers, storage, outcome
<1>2. \A i \in DOMAIN direct : direct[i].line \in Lines /\ ~Ub(direct[i].line)
  BY QueueItems, LineFacts DEF Struct, DirectExternal
<1>3. /\ t \in Seq(WriteRec) /\ DOMAIN t = DOMAIN direct
      /\ \A i \in DOMAIN direct : t[i].line = direct[i].line /\ t[i].way = 0
  <2>1. \A i \in DOMAIN direct : WriteOf(direct[i].line, 0) \in WriteRec
    <3>1. 0 \in 0..Ways
      BY LsuAssumption
    <3> QED BY <1>2, <3>1, QueueItems
  <2>2. DOMAIN direct = 1..Len(direct) /\ Len(direct) \in Nat
    BY DEF Types, DirectT
  <2>3. t \in [1..Len(direct) -> WriteRec]
    BY <2>1, <2>2
  <2>4. \A i \in DOMAIN direct : t[i] = WriteOf(direct[i].line, 0)
    OBVIOUS
  <2>5. DOMAIN t = DOMAIN direct
    OBVIOUS
  <2> HIDE DEF t
  <2>6. t \in Seq(WriteRec)
    BY <2>2, <2>3
  <2> QED BY <2>1, <2>4, <2>5, <2>6 DEF WriteOf
<1> HIDE DEF t
<1>4. \A l : AlikeWrites(l)
  <2> SUFFICES ASSUME NEW l PROVE AlikeWrites(l)
    OBVIOUS
  <2>1. \A j \in DOMAIN t : t[j].line = l => t[j].way = 0 /\ ~Ub(l)
    BY <1>2, <1>3
  <2>2. WriteT /\ WriteT'
    BY DEF Types
  <2> QED BY <1>1, <1>3, <2>1, <2>2, WritesGrown
<1>5. Goes /\ \A l : AlikeStore(l) /\ MissFrom(l)
  BY <1>1, GoesStill, AlikeFrames
<1> QED BY <1>1, <1>4, <1>5, StillData

\* The bytes of a UB write are those of the line.
LEMMA UbWritten ==
  ASSUME Types, PipeFacts, Struct, DataOk, NEW line \in Lines, Ub(line), HasWrite(line), ~Bypassed(line),
         NEW d, \/ HasStore(line) /\ StoreEntry(line).state # "Idle" /\ d = Merge(StoreEntry(line), memory[line])
                \/ ~HasStore(line) /\ d = cache[FindWay(line)].data
  PROVE  Full(line, d)
<1>1. CopiesData(line)
  BY DEF DataOk, LineData
<1>2. CASE HasStore(line) /\ StoreEntry(line).state # "Idle" /\ d = Merge(StoreEntry(line), memory[line])
  <2>1. ~Evicted(line) /\ ~DirtyWay(line) /\ ~WayWritten(line) /\ ~WritingWay(line)
    <3>1. ~External(line)
      BY LineFacts
    <3>2. ~DirtyWay(line)
      BY <3>1 DEF DirtyWay, Struct, DirtyExternal
    <3>3. ~WayWritten(line)
      BY <3>1 DEF WayWritten, Struct, WaysKept, WaysHeld
    <3> QED BY <1>2, <3>1, <3>2, <3>3 DEF Evicted, WritingWay
  <2>2. Backed(line, memory[line])
    BY <1>1, <2>1 DEF CopiesData, MemoryData, InMemory
  <2>3. EntryData(line)
    BY <1>1 DEF CopiesData
  <2> QED BY <1>2, <2>2, <2>3, MergedFull
<1>3. CASE ~HasStore(line) /\ d = cache[FindWay(line)].data
  BY <1>1, <1>3 DEF CopiesData, WritingData, WritingWay, WritingBytes
<1> QED BY <1>2, <1>3

\* The acknowledgement of a UB write brings the line to memory.
LEMMA UbWriteData ==
  ASSUME Types, Types', PipeFacts, Struct, DataOk, UbWriteResponse
  PROVE  DataOk'
<1> DEFINE head == Min(InFlight(writes, "Ub"))
<1>1. head \in DOMAIN writes /\ Ub(writes[head].line)
  <2>1. InFlight(writes, "Ub") # {} /\ writes \in Seq(WriteRec)
    BY DEF UbWriteResponse, Types, WriteT
  <2>2. head \in InFlight(writes, "Ub")
    BY <2>1, QueueHead
  <2> HIDE DEF head
  <2> QED BY <2>2 DEF InFlight, Ub
<1>2. PICK k \in DOMAIN writes : k = head
  BY <1>1
<1>3. PICK line \in Lines : line = writes[k].line
  BY <1>1, <1>2, QueueItems
<1>4. Ub(line) /\ ~External(line) /\ writes[k].way = 0 /\ HasWrite(line)
  BY <1>1, <1>2, <1>3, LineFacts DEF Struct, WaysKept, WaysHeld, HasWrite
<1>5. /\ writes' = RemoveAt(writes, k)
      /\ UNCHANGED <<ops, consumed, admitted, reads, cache, evict, direct>>
  <2>1. writes' = RemoveAt(writes, head)
    BY DEF UbWriteResponse
  <2>2. UNCHANGED <<ops, consumed, admitted, reads, cache, evict, direct>>
    BY DEF UbWriteResponse, pipeVars, buffers
  <2> QED BY <1>2, <2>1, <2>2
<1>6. PICK d : memory' = [memory EXCEPT ![line] = d] /\
        \/ /\ HasStore(line) /\ StoreEntry(line).state # "Idle" /\ d = Merge(StoreEntry(line), memory[line])
           /\ stores' = RemoveAt(stores, StoreIndex(line))
           /\ misses' = Drop(misses, line)
           /\ results' = LoadResults(MissRequests(line), d)
           /\ done' = done \cup ToSet(StoreEntry(line).requests) \cup MissRequests(line)
        \/ /\ ~HasStore(line) /\ d = cache[FindWay(line)].data
           /\ UNCHANGED <<stores, misses, results, done>>
  <2>1. memory \in [Lines -> Data]
    BY DEF Types, MemoryT
  <2>2. writes[head].line = line
    BY <1>2, <1>3
  <2> HIDE DEF head
  <2>3. \A d : [memory EXCEPT ![line] = d][line] = d
    BY <2>1
  <2>4. CASE HasStore(line)
    <3>1. /\ StoreEntry(line).state # "Idle"
          /\ memory' = [memory EXCEPT ![line] = Merge(StoreEntry(line), memory[line])]
          /\ results' = LoadResults(MissRequests(line), memory'[line])
          /\ done' = done \cup ToSet(StoreEntry(line).requests) \cup MissRequests(line)
          /\ stores' = RemoveAt(stores, StoreIndex(line))
          /\ misses' = Drop(misses, line)
      BY <2>2, <2>4 DEF UbWriteResponse, Complete, head
    <3> QED BY <2>3, <2>4, <3>1
  <2>5. CASE ~HasStore(line)
    <3>1. /\ memory' = [memory EXCEPT ![line] = cache[FindWay(line)].data]
          /\ UNCHANGED <<stores, misses, results, done>>
      BY <2>2, <2>5 DEF UbWriteResponse, buffers, outcome, head
    <3> QED BY <2>5, <3>1
  <2> QED BY <2>4, <2>5
<1> HIDE DEF head
<1>7. /\ Goes /\ \A l : Quiet(l) /\ AlikeWays(l) /\ AlikeEvict(l)
      /\ consumed \in Nat
  BY <1>5, GoesStill, AlikeFrames DEF Quiet, PipeFacts
<1>8. memory'[line] = d /\ \A l \in Lines : l # line => memory'[l] = memory[l]
  BY <1>6 DEF Types, MemoryT
<1>9. ~HasWrite(line)'
  <2>1. /\ Plain(line)' = Plain(line) - 1
        /\ \A j \in DOMAIN writes' : \E i \in DOMAIN writes : i # k /\ writes'[j] = writes[i]
    BY <1>3, <1>4, <1>5, WriteRemoved DEF Types
  <2>2. Plain(line) = 1
    BY <1>4 DEF Struct, UbWrites
  <2>3. Plain(line)' = 0
    BY <2>1, <2>2
  <2>4. \A j \in DOMAIN writes' : writes'[j].line = line => writes'[j].way # 0
    BY <2>3, NextCounts
  <2>5. \A i \in DOMAIN writes : writes[i].line = line => writes[i].way = 0
    BY <1>4 DEF Struct, WaysKept, WaysHeld
  <2> QED BY <2>1, <2>4, <2>5 DEF HasWrite
<1>10. ~HasStore(line)' /\ \A l : l # line => AlikeStore(l)
  <2>1. CASE HasStore(line)
    <3>1. StoreIndex(line) \in DOMAIN stores /\ stores[StoreIndex(line)].line = line
      BY <2>1, StoreFacts DEF Types
    <3>2. /\ ~HasStore(line)'
          /\ \A l : l # line => /\ HasStore(l)' <=> HasStore(l)
                                /\ HasStore(l) => StoreEntry(l)' = StoreEntry(l)
      BY <1>6, <2>1, <3>1, StoreRemoved DEF Types, Struct
    <3> QED BY <3>2, SameAlike DEF SameStore
  <2>2. CASE ~HasStore(line)
    <3>1. UNCHANGED stores
      BY <1>6, <2>2
    <3> QED BY <2>2, <3>1, AlikeFrames DEF AlikeStore, AlikeBytes
  <2> QED BY <2>1, <2>2
<1>11. /\ \A l : l # line => MissFrom(l)
       /\ HasMiss(line)' => HasMiss(line) /\ ~HasStore(line) /\ MissFrom(line)
  <2>1. CASE HasStore(line)
    <3>1. misses \in [DOMAIN misses -> MissRec] /\ misses' = Drop(misses, line)
      BY <1>6, <2>1 DEF Types, MissT
    <3>2. /\ DOMAIN misses' = DOMAIN misses \ {line}
          /\ \A j \in DOMAIN misses' : misses'[j] = misses[j]
      BY <3>1 DEF Drop
    <3> QED BY <1>5, <3>2 DEF MissFrom, HasMiss, ReadBy
  <2>2. CASE ~HasStore(line)
    BY <1>5, <1>6, <2>2, AlikeFrames DEF HasMiss
  <2> QED BY <2>1, <2>2
<1>12. ASSUME ~Bypassed(line) PROVE Full(line, d)
  BY <1>4, <1>6, <1>12, UbWritten
<1>13. LineData(line)'
  <2>1. EntryStates(line)'
    BY <1>10 DEF EntryStates
  <2>2. MissLoads(line)'
    <3>1. CASE HasMiss(line)'
      <4>1. AlikeBytes(line) /\ MissFrom(line) /\ MissLoads(line)
        BY <1>10, <1>11, <3>1 DEF AlikeBytes, DataOk, LineData
      <4> QED BY <1>7, <4>1, MissLoadsKept
    <3>2. CASE ~HasMiss(line)'
      BY <3>2 DEF MissLoads
    <3> QED BY <3>1, <3>2
  <2>3. ASSUME ~Bypassed(line)' PROVE CopiesData(line)'
    <3>1. ~Bypassed(line)
      BY <1>7, <2>3, BypassedKept
    <3>2. CopiesData(line)
      BY <3>1 DEF DataOk, LineData
    <3>3. EntryData(line)'
      BY <1>10 DEF EntryData
    <3>4. WayData(line)'
      <4>1. \A x : Copied(line, x) => Full(line, x)
        BY <1>6 DEF Copied, Full, CopyBase
      <4>2. \A x : Full(line, x) => Full(line, x)'
        BY <1>7, FullStays
      <4>3. \A x : Full(line, x)' => Copied(line, x)'
        BY <1>10, NoEntryNext
      <4>4. WaysFrom(line)
        BY <1>7, AlikeWayFacts
      <4>5. WayData(line)
        BY <3>2 DEF CopiesData
      <4>6. \A x : Copied(line, x) => Copied(line, x)'
        BY <4>1, <4>2, <4>3
      <4> QED BY <4>4, <4>5, <4>6, CopiesMoved
    <3>5. EvictData(line)'
      BY <1>4 DEF EvictData, Evicted, External
    <3>6. HeldData(line)' /\ WritingData(line)'
      BY <1>9 DEF HeldData, WritingData, WritingWay, HasWrite
    <3>7. MemoryData(line)'
      <4>1. Full(line, d)'
        BY <1>7, <1>12, <3>1, FullStays
      <4>2. Backed(line, d)'
        BY <1>10, <4>1, NoEntryNext
      <4>3. Backed(line, memory[line])'
        BY <1>8, <4>2 DEF Backed
      <4> QED BY <4>3 DEF MemoryData
    <3> QED BY <3>3, <3>4, <3>5, <3>6, <3>7 DEF CopiesData
  <2> QED BY <2>1, <2>2, <2>3 DEF LineData
<1>14. ASSUME NEW l \in Lines, l # line PROVE LineData(l)'
  <2>1. AlikeWrites(l)
    BY <1>3, <1>5, <1>14, WritesShrunk DEF Types
  <2>2. AlikeStore(l) /\ MissFrom(l) /\ memory'[l] = memory[l] /\ LineData(l)
    BY <1>8, <1>10, <1>11, <1>14 DEF DataOk
  <2> QED BY <1>7, <2>1, <2>2, AlikeLine
<1>15. TagFirst' /\ DirectsKnown'
  BY <1>5, <1>7, TagFirstKept, DirectsKept DEF DataOk
<1>16. \A id \in MissRequests(line) : Waits(line, id)
  <2>1. MissLoads(line)
    BY DEF DataOk, LineData
  <2> QED BY <2>1 DEF MissLoads, MissRequests
<1>17. Returned'
  <2>1. CASE HasStore(line)
    <3>1. ASSUME NEW id \in MissRequests(line), NEW o \in Offsets, ~Bypassed(Op(id).line)
          PROVE  Latest(Op(id).line, o, id, d[o])
      <4>1. Waits(line, id) /\ Op(id).line = line
        BY <1>16 DEF Waits
      <4>2. Full(line, d)
        BY <1>12, <3>1, <4>1
      <4>3. Latest(line, o, consumed, d[o])
        BY <4>2 DEF Full
      <4>4. Latest(line, o, id, d[o])
        BY <4>1, <4>3, WaitsLatest
      <4> QED BY <4>1, <4>4
    <3>2. \A id \in MissRequests(line) : id \in Nat /\ id < consumed'
      BY <1>5, <1>16 DEF Waits
    <3>3. results' = LoadResults(MissRequests(line), d)
      BY <1>6, <2>1
    <3>4. Returned
      BY DEF DataOk
    <3> QED BY <1>7, <3>1, <3>2, <3>3, <3>4, CompletedLoads
  <2>2. CASE ~HasStore(line)
    BY <1>6, <1>7, <2>2, ReturnedKept DEF DataOk
  <2> QED BY <2>1, <2>2
<1>18. DoneStores'
  <2>1. ASSUME NEW s \in done', s \notin done
        PROVE  /\ s \in Nat /\ s < consumed
               /\ Op(s).kind = "store" => Op(s).line = line /\ ~HasStore(line)'
    <3>1. CASE s \in MissRequests(line)
      <4>1. s \in Nat /\ s < consumed /\ Op(s).kind \in {"load", "preload"}
        BY <1>16, <3>1 DEF Waits
      <4> QED BY <4>1
    <3>2. CASE HasStore(line) /\ s \in ToSet(StoreEntry(line).requests)
      <4>1. Entries
        BY DEF Struct
      <4>2. s \in Nat /\ s < consumed /\ Op(s).line = line
        BY <3>2, <4>1, EntryRequests DEF Entries
      <4> QED BY <1>10, <4>2
    <3> QED BY <1>6, <2>1, <3>1, <3>2
  <2>2. \A l : HasStore(l)' => HasStore(l) /\ Oldest(l)' = Oldest(l)
    BY <1>10, BaseKept DEF AlikeStore, AlikeBytes
  <2> QED BY <1>7, <2>1, <2>2, StoresDone DEF DataOk
<1> QED BY <1>13, <1>14, <1>15, <1>17, <1>18 DEF DataOk

\* What a write brings to an external line's memory has what the store buffer has not.
LEMMA MemoryWritten ==
  ASSUME Types, Struct, Goes, NEW l \in Lines, External(l), Quiet(l), AlikeStore(l), LineData(l),
         MissFrom(l), WaysFrom(l), EvictFrom(l), HeldFrom(l), Cached(l)' => Cached(l),
         NEW d, memory'[l] = d, ~Bypassed(l) => Backed(l, d)
  PROVE  LineData(l)'
<1>0. AlikeBytes(l) /\ ~Ub(l)
  BY LineFacts DEF AlikeStore
<1>1. EntryStates(l)'
  <2>1. ~(HasStore(l) /\ StoreEntry(l).state = "Ready")
    BY <1>0 DEF LineData, EntryStates
  <2> QED BY <2>1 DEF LineData, EntryStates, AlikeStore, AlikeBytes
<1>2. MissLoads(l)'
  BY <1>0, MissLoadsKept DEF LineData
<1>3. ASSUME ~Bypassed(l)' PROVE CopiesData(l)'
  <2>1. ~Bypassed(l) /\ CopiesData(l)
    BY <1>3, BypassedKept DEF LineData
  <2>2. EntryData(l)'
    BY <1>0, <2>1, EntryDataKept DEF CopiesData
  <2>3. WayData(l)' /\ EvictData(l)' /\ HeldData(l)'
    BY <1>0, <2>1, CopiesKept DEF CopiesData
  <2>4. WritingData(l)'
    BY <1>0 DEF WritingData, WritingWay, Ub
  <2>5. MemoryData(l)'
    <3>1. Backed(l, d)'
      BY <1>0, <2>1, BytesKept
    <3> QED BY <3>1 DEF MemoryData, Backed
  <2> QED BY <2>2, <2>3, <2>4, <2>5 DEF CopiesData
<1> QED BY <1>1, <1>2, <1>3 DEF LineData

\* The acknowledgement of an external write brings the line to memory.
LEMMA ExternalWriteData ==
  ASSUME ZeroLine \notin Lines, Types, Types', PipeFacts, Struct, DataOk,
         NEW k \in DOMAIN writes, ExternalWriteResponse(k)
  PROVE  DataOk'
<1>1. PICK line \in Lines : line = writes[k].line
  BY DEF Struct, WaysKept, WritesKnown
<1>2. External(line) /\ ~Ub(line)
  <2>1. k \in InFlight(writes, "External")
    BY DEF ExternalWriteResponse
  <2> QED BY <1>1, <2>1, LineFacts DEF InFlight, External
<1>3. PICK way \in 0..Ways : way = writes[k].way
  BY QueueItems
<1>4. /\ writes' = RemoveAt(writes, k)
      /\ UNCHANGED <<ops, consumed, admitted, stores, misses, reads, results>>
  BY DEF ExternalWriteResponse, pipeVars, buffers, outcome
<1>5. PICK d : memory' = [memory EXCEPT ![line] = d] /\
        \/ /\ way # 0 /\ d = cache[way].data
           /\ cache' = [cache EXCEPT ![way].line = ZeroLine, ![way].valid = TRUE, ![way].dirty = FALSE]
           /\ UNCHANGED <<evict, direct, done>>
        \/ /\ way = 0 /\ line[2] \in DOMAIN evict /\ d = evict[line[2]]
           /\ evict' = Drop(evict, line[2])
           /\ UNCHANGED <<cache, direct, done>>
        \/ /\ way = 0 /\ HasDirect(line)
           /\ done' = done \cup {direct[DirectIndex(line)].request}
           /\ direct' = RemoveAt(direct, DirectIndex(line))
           /\ UNCHANGED <<cache, evict>>
  BY <1>1, <1>3 DEF ExternalWriteResponse, buffers, outcome
<1>6. /\ Goes /\ \A l : Quiet(l) /\ AlikeStore(l) /\ AlikeBytes(l) /\ MissFrom(l)
      /\ consumed \in Nat
  BY <1>4, GoesStill, AlikeFrames DEF Quiet, PipeFacts, AlikeStore
<1>7. memory'[line] = d /\ \A l \in Lines : l # line => memory'[l] = memory[l]
  BY <1>5 DEF Types, MemoryT
<1>8. /\ \A l : l # line \/ (way = 0 /\ l = line) => AlikeWrites(l)
      /\ \A j \in DOMAIN writes' : \E i \in DOMAIN writes : i # k /\ writes'[j] = writes[i]
  <2>1. WriteT /\ WriteT'
    BY DEF Types
  <2> QED BY <1>1, <1>2, <1>3, <1>4, <2>1, WriteRemoved, WritesShrunk
<1>9. Returned'
  BY <1>4, <1>6, ReturnedKept DEF DataOk
<1>10. LineData(line) /\ (~Bypassed(line) => CopiesData(line))
  BY DEF DataOk, LineData
<1>11. CASE way # 0
  <2>1. way \in 1..Ways /\ cache[way].line = line /\ ZeroLine # line
    BY <1>1, <1>3, <1>11 DEF Struct, WaysKept, WaysHeld
  <2>2. /\ \A w \in 1..Ways : w # way => cache'[w] = cache[w]
        /\ cache'[way].line = ZeroLine
        /\ d = cache[way].data /\ UNCHANGED <<evict, direct, done>>
    <3>1. cache[way] \in WayRec /\ cache \in [1..Ways -> WayRec]
      BY <2>1, WayTyped DEF Types, CacheT
    <3>2. cache' = [cache EXCEPT ![way].line = ZeroLine, ![way].valid = TRUE, ![way].dirty = FALSE]
          /\ d = cache[way].data /\ UNCHANGED <<evict, direct, done>>
      BY <1>5, <1>11
    <3> HIDE DEF Data
    <3> QED BY <2>1, <3>1, <3>2 DEF WayRec
  <2>3. ASSUME NEW l \in Lines, l # line PROVE LineData(l)'
    <3>1. AlikeWays(l) /\ AlikeEvict(l)
      BY <2>1, <2>2, <2>3, AlikeFrames DEF AlikeWays
    <3>2. AlikeWrites(l) /\ memory'[l] = memory[l] /\ LineData(l)
      BY <1>7, <1>8, <2>3 DEF DataOk
    <3> QED BY <1>6, <3>1, <3>2, AlikeLine
  <2>4. LineData(line)'
    <3>1. WaysFrom(line) /\ (Cached(line)' => Cached(line))
      BY <2>1, <2>2 DEF WaysFrom, Cached
    <3>2. EvictFrom(line)
      BY <2>2 DEF EvictFrom, Evicted
    <3>3. HeldFrom(line)
      <4> SUFFICES ASSUME NEW j \in DOMAIN writes', writes'[j].line = line, writes'[j].way # 0
                   PROVE  \E i \in DOMAIN writes : /\ writes[i].line = line /\ writes[i].way = writes'[j].way
                                                   /\ cache'[writes[i].way].data = cache[writes[i].way].data
        BY DEF HeldFrom
      <4>1. PICK i \in DOMAIN writes : i # k /\ writes'[j] = writes[i]
        BY <1>8
      <4>2. writes[i].way \in 1..Ways
        BY <4>1, QueueItems
      <4>3. writes[i].way # way
        BY <1>3, <1>11, <4>1 DEF Struct, WaysKept, WaysApart
      <4> QED BY <2>2, <4>1, <4>2, <4>3
    <3>4. ~Bypassed(line) => Backed(line, d)
      BY <1>1, <1>3, <1>10, <1>11, <2>2 DEF CopiesData, HeldData
    <3> QED BY <1>2, <1>6, <1>7, <1>10, <3>1, <3>2, <3>3, <3>4, MemoryWritten
  <2>5. TagFirst'
    <3>1. \A w \in 1..Ways : \A v \in 1..w - 1 : v \in 1..Ways
      BY LsuAssumption
    <3>2. TagFirst
      BY DEF DataOk
    <3> QED BY <2>2, <3>1, <3>2 DEF TagFirst
  <2>6. DoneStores' /\ DirectsKnown'
    BY <1>6, <2>2, OldestKept, DoneStoresKept, DirectsKept DEF DataOk
  <2> QED BY <1>9, <2>3, <2>4, <2>5, <2>6 DEF DataOk
<1>12. CASE way = 0
  <2>1. /\ UNCHANGED cache /\ \A l : AlikeWays(l) /\ WaysFrom(l) /\ (Cached(l)' <=> Cached(l))
        /\ TagFirst'
    BY <1>5, <1>12, AlikeFrames, AlikeWayFacts, TagFirstKept DEF DataOk
  <2>2. HeldFrom(line)
    BY <1>8, <2>1 DEF HeldFrom
  <2>3. AlikeWrites(line)
    BY <1>8, <1>12
  <2>4. CASE /\ line[2] \in DOMAIN evict /\ d = evict[line[2]]
             /\ evict' = Drop(evict, line[2]) /\ UNCHANGED <<direct, done>>
    <3>1. /\ DOMAIN evict' = DOMAIN evict \ {line[2]}
          /\ \A a \in DOMAIN evict' : evict'[a] = evict[a]
      BY <2>4 DEF Drop
    <3>2. Evicted(line) /\ EvictFrom(line)
      BY <1>2, <2>4, <3>1 DEF Evicted, EvictFrom, External
    <3>3. ASSUME NEW l \in Lines, l # line PROVE LineData(l)'
      <4>1. AlikeEvict(l)
        <5>1. External(l) => l[2] # line[2]
          BY <1>2, <3>3, SameAddress
        <5> QED BY <3>1, <5>1 DEF AlikeEvict, Evicted, External
      <4>2. AlikeWrites(l) /\ memory'[l] = memory[l] /\ LineData(l)
        BY <1>7, <1>8, <3>3 DEF DataOk
      <4> QED BY <1>6, <2>1, <4>1, <4>2, AlikeLine
    <3>4. LineData(line)'
      <4>1. ~Bypassed(line) => Backed(line, d)
        BY <1>10, <2>4, <3>2 DEF CopiesData, EvictData
      <4> QED BY <1>2, <1>6, <1>7, <1>10, <2>1, <2>2, <3>2, <4>1, MemoryWritten
    <3>5. DoneStores' /\ DirectsKnown'
      BY <1>6, <2>4, OldestKept, DoneStoresKept, DirectsKept DEF DataOk
    <3> QED BY <1>9, <2>1, <3>3, <3>4, <3>5 DEF DataOk
  <2>5. CASE /\ HasDirect(line)
             /\ done' = done \cup {direct[DirectIndex(line)].request}
             /\ direct' = RemoveAt(direct, DirectIndex(line)) /\ UNCHANGED evict
    <3>1. PICK n \in DOMAIN direct : n = DirectIndex(line) /\ direct[n].line = line
      BY <2>5, DirectFirst DEF Types
    <3>2. Bypassed(line) /\ direct[n].request \in Nat /\ direct[n].request < consumed
          /\ Op(direct[n].request).kind = "direct"
      <4>1. DirectsKnown
        BY DEF DataOk
      <4> QED BY <3>1, <4>1, DirectBypasses DEF DirectsKnown
    <3>3. \A l : AlikeEvict(l)
      BY <2>5, AlikeFrames
    <3>4. ASSUME NEW l \in Lines, l # line PROVE LineData(l)'
      <4>1. AlikeWrites(l) /\ memory'[l] = memory[l] /\ LineData(l)
        BY <1>7, <1>8, <3>4 DEF DataOk
      <4> QED BY <1>6, <2>1, <3>3, <4>1, AlikeLine
    <3>5. LineData(line)'
      <4>1. EvictFrom(line)
        BY <3>3 DEF AlikeEvict, EvictFrom
      <4> QED BY <1>2, <1>6, <1>7, <1>10, <2>1, <2>2, <3>2, <4>1, MemoryWritten
    <3>6. DoneStores'
      <4>1. \A s \in done' : \/ s \in done
                             \/ /\ s \in Nat /\ s < consumed
                                /\ Op(s).kind = "store" => Op(s).line = line /\ ~HasStore(line)'
        BY <2>5, <3>1, <3>2
      <4>2. \A l : HasStore(l)' => HasStore(l) /\ Oldest(l)' = Oldest(l)
        BY <1>6, BaseKept DEF AlikeBytes
      <4> QED BY <1>6, <4>1, <4>2, StoresDone DEF DataOk
    <3>7. DirectsKnown'
      <4>1. direct \in Seq(DirectRec)
        BY DEF Types, DirectT
      <4>2. \A a \in DOMAIN direct' : \E b \in DOMAIN direct : direct'[a] = direct[b]
        <5> HIDE DEF DirectRec
        <5> QED BY <2>5, <3>1, <4>1, RemoveMembers
      <4> QED BY <1>6, <4>2, DirectsKept DEF DataOk
    <3> QED BY <1>9, <2>1, <3>4, <3>5, <3>6, <3>7 DEF DataOk
  <2> QED BY <1>5, <1>12, <2>4, <2>5
<1> QED BY <1>11, <1>12
-----------------------------------------------------------------------------
(* The data: flushes *)

\* A write of a UB line is added.
LEMMA WriteAdded ==
  ASSUME Types, Types', NEW line \in Lines, writes' = Append(writes, WriteOf(line, 0))
  PROVE  /\ \A l : l # line => AlikeWrites(l)
         /\ HasWrite(line)' /\ (WayWritten(line) => WayWritten(line)')
         /\ \A j \in DOMAIN writes' : (\E i \in DOMAIN writes : writes'[j] = writes[i]) \/ writes'[j].way = 0
<1> HIDE DEF WriteRec
<1>1. writes \in Seq(WriteRec)
  BY DEF Types, WriteT
<1>2. /\ \A l : HasWrite(l)' <=> HasWrite(l) \/ l = line
      /\ \A j \in DOMAIN writes' : \/ j \in DOMAIN writes /\ writes'[j] = writes[j]
                                   \/ writes'[j].line = line /\ writes'[j].way = 0
  BY WriteAppended DEF Types
<1>3. \A j \in DOMAIN writes : j \in DOMAIN writes' /\ writes'[j] = writes[j]
  BY <1>1
<1>4. \A l : WayWritten(l) => WayWritten(l)'
  BY <1>3 DEF WayWritten
<1> QED BY <1>2, <1>4 DEF AlikeWrites

\* A flushed miss fetches its line; the bytes stay in the entry.
LEMMA FlushMissData ==
  ASSUME Types, Types', IInv, Struct, DataOk, NEW i \in DOMAIN stores, ReadyToFlush(stores[i]), FlushMiss(i),
         ~raced'
  PROVE  DataOk'
<1> HIDE DEF StoreRec, WriteRec, WayRec, Data, Requests
<1>0. PipeFacts
  BY PipeNumbers
<1>1. PICK line : line = stores[i].line
  OBVIOUS
<1>2. /\ line \in Lines /\ HasStore(line) /\ StoreIndex(line) = i /\ StoreEntry(line) = stores[i]
      /\ stores[i] \in StoreRec /\ stores[i].state = "Idle"
      /\ ~HasMiss(line) /\ ~HasRead(line)
  BY <1>1, DueFacts
<1>3. /\ stores' = [stores EXCEPT ![i].state = "Fetching"]
      /\ Lookup(line) = 0
      /\ writes' = IF Ub(line) /\ ~UbWriteAllocate THEN Append(writes, WriteOf(line, 0)) ELSE writes
      /\ reads' = IF Ub(line) /\ ~UbWriteAllocate THEN reads ELSE Append(reads, ReadOf(line, "Store"))
      /\ UNCHANGED <<ops, consumed, admitted, misses, direct, cache, evict, memory, results, done>>
  BY <1>1 DEF FlushMiss, pipeVars, storage, outcome
<1>4. ~Cached(line)
  BY <1>3, TagSearch
<1>5. /\ Goes /\ consumed \in Nat /\ \A l : Quiet(l) /\ AlikeWays(l) /\ AlikeEvict(l)
  BY <1>0, <1>3, GoesStill, AlikeFrames DEF Quiet, PipeFacts
<1>6. PICK x \in StoreRec : /\ stores' = [stores EXCEPT ![i] = x]
                            /\ x.line = line /\ x.state = "Fetching" /\ x.requests = stores[i].requests
                            /\ x.valid = stores[i].valid /\ x.bytes = stores[i].bytes
  <2> DEFINE x == [stores[i] EXCEPT !.state = "Fetching"]
  <2>1. x \in StoreRec
    BY <1>2, StoreRecUpdates
  <2>2. /\ x.line = line /\ x.state = "Fetching" /\ x.requests = stores[i].requests
        /\ x.valid = stores[i].valid /\ x.bytes = stores[i].bytes
    BY <1>1, <1>2 DEF StoreRec
  <2>3. stores' = [stores EXCEPT ![i] = x]
    BY <1>3
  <2> QED BY <2>1, <2>2, <2>3
<1>7. /\ HasStore(line)' /\ StoreEntry(line)' = x
      /\ \A l : l # line => /\ HasStore(l)' <=> HasStore(l)
                            /\ HasStore(l) => StoreEntry(l)' = StoreEntry(l)
  <2>1. StoreT /\ StoresApart
    BY DEF Types, Struct
  <2> QED BY <1>1, <1>6, <2>1, StoreReplaced
<1>8. AlikeBytes(line) /\ \A l : l # line => AlikeStore(l)
  BY <1>2, <1>6, <1>7 DEF AlikeStore, AlikeBytes
<1>9. \A l : AlikeBytes(l)
  BY <1>8 DEF AlikeStore
<1>10. \A l : MissFrom(l)
  <2>1. \A l : ReadBy(l, "Miss")' => ReadBy(l, "Miss")
    <3>1. CASE Ub(line) /\ ~UbWriteAllocate
      BY <1>3, <3>1 DEF ReadBy
    <3>2. CASE ~(Ub(line) /\ ~UbWriteAllocate)
      <4>1. /\ \A l, o : l # line => (ReadBy(l, o)' <=> ReadBy(l, o))
            /\ \A o : ReadBy(line, o)' <=> o = "Store"
        BY <1>2, <1>3, <3>2, ReadAppended DEF Types, Struct
      <4> QED BY <4>1
    <3> QED BY <3>1, <3>2
  <2> QED BY <1>3, <2>1 DEF MissFrom, HasMiss
<1>11. /\ \A l : l # line => AlikeWrites(l)
       /\ WayWritten(line) => WayWritten(line)'
       /\ \A j \in DOMAIN writes' : (\E k \in DOMAIN writes : writes'[j] = writes[k]) \/ writes'[j].way = 0
  <2>1. CASE Ub(line) /\ ~UbWriteAllocate
    BY <1>2, <1>3, <2>1, WriteAdded
  <2>2. CASE UNCHANGED writes
    BY <2>2, AlikeFrames DEF WayWritten
  <2> QED BY <1>3, <2>1, <2>2
<1>12. LineData(line)'
  <2>1. ~Cached(line)'
    BY <1>4, <1>5, AlikeWayFacts
  <2>2. EntryStates(line)'
    BY <1>6, <1>7, <2>1 DEF EntryStates
  <2>3. MissLoads(line)'
    BY <1>2, <1>3 DEF MissLoads, HasMiss
  <2>4. ASSUME ~Bypassed(line)' PROVE CopiesData(line)'
    <3>1. CopiesData(line)
      BY <1>2, <1>5, <2>4, BypassedKept DEF DataOk, LineData
    <3>2. EntryData(line)'
      BY <1>2, <1>5, <1>9, <3>1, EntryDataKept DEF CopiesData
    <3>3. WayData(line)'
      BY <2>1 DEF WayData, Cached
    <3>4. EvictFrom(line)
      BY <1>5 DEF AlikeEvict, EvictFrom
    <3>5. HeldFrom(line)
      BY <1>3, <1>11 DEF HeldFrom
    <3>6. WritingData(line)'
      BY <1>7 DEF WritingData, WritingWay
    <3>7. MemoryFrom(line)
      <4>1. ~WritingWay(line)
        BY <1>2 DEF WritingWay
      <4>2. DirtyWay(line)' <=> DirtyWay(line)
        BY <1>5, AlikeWayFacts
      <4>3. memory' = memory /\ (Evicted(line)' <=> Evicted(line)) /\ (WayWritten(line) => WayWritten(line)')
        BY <1>3, <1>5, <1>11 DEF AlikeEvict
      <4> QED BY <4>1, <4>2, <4>3 DEF MemoryFrom, InMemory
    <3>8. EvictData(line)' /\ HeldData(line)' /\ MemoryData(line)'
      BY <1>2, <1>5, <1>9, <3>1, <3>4, <3>5, <3>7, CopiesKept DEF CopiesData
    <3> QED BY <3>2, <3>3, <3>6, <3>8 DEF CopiesData
  <2> QED BY <2>2, <2>3, <2>4 DEF LineData
<1>13. ASSUME NEW l \in Lines, l # line PROVE LineData(l)'
  <2>1. AlikeWrites(l) /\ AlikeStore(l) /\ memory'[l] = memory[l] /\ LineData(l)
    BY <1>3, <1>8, <1>11, <1>13 DEF DataOk
  <2> QED BY <1>5, <1>10, <2>1, AlikeLine
<1>14. TagFirst' /\ DoneStores'
  BY <1>3, <1>5, <1>9, OldestKept, DoneStoresKept, TagFirstKept DEF DataOk
<1>15. Returned' /\ DirectsKnown'
  BY <1>3, <1>5, ReturnedKept, DirectsKept DEF DataOk
<1> QED BY <1>12, <1>13, <1>14, <1>15 DEF DataOk

\* A flushed hit merges its bytes into the way, which has all of them then.
LEMMA FlushHitData ==
  ASSUME Types, Types', IInv, Struct, DataOk, NEW i \in DOMAIN stores, ReadyToFlush(stores[i]), FlushHit(i),
         ~raced'
  PROVE  DataOk'
<1> HIDE DEF StoreRec, WriteRec, WayRec, Data, Requests
<1>0. PipeFacts
  BY PipeNumbers
<1>1. PICK line : line = stores[i].line
  OBVIOUS
<1>2. /\ line \in Lines /\ HasStore(line) /\ StoreIndex(line) = i /\ StoreEntry(line) = stores[i]
      /\ stores[i] \in StoreRec /\ stores[i].state = "Idle"
      /\ ~maintActive /\ ~HasMiss(line) /\ (Ub(line) => ~HasWrite(line))
      /\ \A id \in ToSet(stores[i].requests) : Op(id).line = line
  BY <1>1, DueFacts
<1>3. PICK way : way = FindWay(line)
  OBVIOUS
<1>4. /\ way # 0 /\ way = lookup[Head(stores[i].requests) + 1]
      /\ ~Stale(Head(stores[i].requests))
      /\ stores' = RemoveAt(stores, i)
      /\ writes' = IF Ub(line) THEN Append(writes, WriteOf(line, 0)) ELSE writes
      /\ cache' = FlushedCache(stores[i], way, way)
      /\ done' = done \cup ToSet(stores[i].requests)
      /\ UNCHANGED <<ops, consumed, admitted, reads, misses, direct, evict, memory, results>>
  BY <1>1, <1>3 DEF FlushHit, pipeVars
<1>5. way \in 1..Ways /\ cache[way].line = line /\ cache[way].valid
  <2>1. way \in 1..Ways /\ cache[way].line = line
    BY <1>3, <1>4, TagSearch
  <2>2. cache[way].valid
    BY <1>4 DEF Stale
  <2> QED BY <2>1, <2>2
<1>6. PICK d : d = Merge(stores[i], cache[way].data)
  OBVIOUS
<1>7. /\ \A w \in 1..Ways : cache'[w].line = cache[w].line /\ cache'[w].valid = cache[w].valid
      /\ \A w \in 1..Ways : w # way => cache'[w] = cache[w]
      /\ cache'[way].data = d
      /\ External(line) => cache'[way].dirty
  <2> DEFINE c == [cache[way] EXCEPT !.data = d]
             written == [cache EXCEPT ![way] = c]
  <2>1. cache[way] \in WayRec /\ cache \in [1..Ways -> WayRec]
    BY <1>5, WayTyped DEF Types, CacheT
  <2>2. written = [cache EXCEPT ![way].data = Merge(stores[i], @)]
    BY <1>5, <1>6, <2>1
  <2>4. c.line = cache[way].line /\ c.valid = cache[way].valid /\ c.data = d
        /\ DOMAIN c = {"line", "valid", "dirty", "data"}
    BY <2>1 DEF WayRec
  <2>5. DOMAIN written = 1..Ways /\ written[way] = c /\ \A w \in 1..Ways : w # way => written[w] = cache[w]
    BY <1>5, <2>1
  <2> HIDE DEF c, written
  <2>3. cache' = IF External(line) THEN [written EXCEPT ![way].dirty = TRUE] ELSE written
    BY <1>1, <1>4, <2>2 DEF FlushedCache
  <2>6. CASE External(line)
    <3>1. cache'[way] = [c EXCEPT !.dirty = TRUE] /\ \A w \in 1..Ways : w # way => cache'[w] = cache[w]
      BY <1>5, <2>3, <2>5, <2>6
    <3>2. cache'[way].line = c.line /\ cache'[way].valid = c.valid /\ cache'[way].data = c.data /\ cache'[way].dirty
      BY <2>4, <3>1
    <3> QED BY <2>4, <3>1, <3>2
  <2>7. CASE ~External(line)
    BY <1>5, <2>3, <2>4, <2>5, <2>7
  <2> QED BY <2>6, <2>7
<1>8. /\ Goes /\ consumed \in Nat /\ \A l : Quiet(l) /\ MissFrom(l) /\ AlikeEvict(l)
  BY <1>0, <1>4, GoesStill, AlikeFrames DEF Quiet, PipeFacts
<1>9. ~HasStore(line)' /\ \A l : l # line => AlikeStore(l)
  <2>1. StoreT /\ StoresApart
    BY DEF Types, Struct
  <2>2. /\ ~HasStore(line)'
        /\ \A l : l # line => /\ HasStore(l)' <=> HasStore(l)
                              /\ HasStore(l) => StoreEntry(l)' = StoreEntry(l)
    BY <1>1, <1>4, <2>1, StoreRemoved
  <2> QED BY <2>2, SameAlike DEF SameStore
<1>10. /\ \A l : l # line => AlikeWrites(l)
       /\ Ub(line) => HasWrite(line)'
       /\ \A j \in DOMAIN writes' : (\E k \in DOMAIN writes : writes'[j] = writes[k]) \/ writes'[j].way = 0
  <2>1. CASE Ub(line)
    BY <1>2, <1>4, <2>1, WriteAdded
  <2>2. CASE ~Ub(line)
    BY <1>4, <2>2, AlikeFrames
  <2> QED BY <2>1, <2>2
<1>11. ASSUME ~Bypassed(line) PROVE Full(line, d)
  <2>1. CopiesData(line)
    BY <1>2, <1>11 DEF DataOk, LineData
  <2>2. Copied(line, cache[way].data)
    BY <1>5, <2>1 DEF CopiesData, WayData
  <2>3. Backed(line, cache[way].data)
    BY <1>2, <2>2 DEF Backed, Copied, Base, CopyBase
  <2>4. EntryData(line)
    BY <2>1 DEF CopiesData
  <2>5. Full(line, Merge(StoreEntry(line), cache[way].data))
    BY <1>0, <1>2, <2>3, <2>4, MergedFull
  <2> QED BY <1>2, <1>6, <2>5
<1>12. LineData(line)'
  <2>1. EntryStates(line)' /\ MissLoads(line)'
    BY <1>2, <1>4, <1>9 DEF EntryStates, MissLoads, HasMiss
  <2>2. ASSUME ~Bypassed(line)' PROVE CopiesData(line)'
    <3>1. ~Bypassed(line)
      BY <1>8, <2>2, BypassedKept
    <3>2. Full(line, d)'
      BY <1>8, <1>11, <3>1, FullStays
    <3>3. Copied(line, d)'
      BY <1>9, <3>2, NoEntryNext
    <3>4. EntryData(line)'
      BY <1>9 DEF EntryData
    <3>5. WayData(line)'
      <4>1. ASSUME NEW w \in 1..Ways, cache'[w].valid, cache'[w].line = line PROVE w = way
        BY <1>2, <1>5, <1>7, <4>1 DEF Struct, OneCopy
      <4>2. \A w \in 1..Ways : cache'[w].valid /\ cache'[w].line = line => cache'[w].data = d
        BY <1>7, <4>1
      <4> QED BY <3>3, <4>2 DEF WayData, Copied
    <3>6. EvictData(line)'
      <4>1. ~Evicted(line)
        BY <1>2, <1>5 DEF Struct, EvictedAlone, Cached
      <4> QED BY <1>8, <4>1 DEF EvictData, AlikeEvict
    <3>7. HeldData(line)'
      <4>1. \A j \in DOMAIN writes' : writes'[j].way = 0
        BY <1>2, <1>10, NoWays
      <4> QED BY <4>1 DEF HeldData
    <3>8. WritingData(line)'
      <4>1. FindWay(line)' = way
        <5>1. {w \in 1..Ways : cache'[w].line = line} = {w \in 1..Ways : cache[w].line = line}
          BY <1>7
        <5> QED BY <1>3, <5>1 DEF FindWay
      <4>2. WritingBytes(line)' = d
        BY <1>7, <4>1 DEF WritingBytes
      <4> QED BY <3>2, <4>2 DEF WritingData, Full
    <3>9. MemoryData(line)'
      <4>1. ~InMemory(line)'
        <5>1. CASE External(line)
          <6>1. DirtyWay(line)'
            BY <1>5, <1>7, <5>1 DEF DirtyWay
          <6> QED BY <6>1 DEF InMemory
        <5>2. CASE Ub(line)
          <6>1. WritingWay(line)'
            BY <1>9, <1>10, <5>2 DEF WritingWay, Ub
          <6> QED BY <6>1 DEF InMemory
        <5> QED BY <1>2, <5>1, <5>2, LineFacts
      <4> QED BY <4>1 DEF MemoryData
    <3> QED BY <3>4, <3>5, <3>6, <3>7, <3>8, <3>9 DEF CopiesData
  <2> QED BY <2>1, <2>2 DEF LineData
<1>13. ASSUME NEW l \in Lines, l # line PROVE LineData(l)'
  <2>1. AlikeWrites(l) /\ AlikeStore(l) /\ memory'[l] = memory[l] /\ LineData(l)
    BY <1>4, <1>9, <1>10, <1>13 DEF DataOk
  <2>2. AlikeWays(l)
    BY <1>5, <1>7, <1>13 DEF AlikeWays
  <2> QED BY <1>8, <2>1, <2>2, AlikeLine
<1>14. TagFirst'
  BY <1>7, TagFirstKept DEF DataOk
<1>15. DoneStores'
  <2>1. ASSUME NEW s \in done', s \notin done
        PROVE  /\ s \in Nat /\ s < consumed
               /\ Op(s).kind = "store" => Op(s).line = line /\ ~HasStore(line)'
    <3>1. s \in ToSet(StoreEntry(line).requests)
      BY <1>2, <1>4, <2>1
    <3>2. Entries
      BY DEF Struct
    <3>3. s \in Nat /\ s < consumed /\ Op(s).line = line
      BY <1>2, <3>1, <3>2, EntryRequests
    <3> QED BY <1>9, <3>3
  <2>2. \A l : HasStore(l)' => HasStore(l) /\ Oldest(l)' = Oldest(l)
    BY <1>9, BaseKept DEF AlikeStore, AlikeBytes
  <2> QED BY <1>8, <2>1, <2>2, StoresDone DEF DataOk
<1>16. Returned' /\ DirectsKnown'
  BY <1>4, <1>8, ReturnedKept, DirectsKept DEF DataOk
<1> QED BY <1>12, <1>13, <1>14, <1>15, <1>16 DEF DataOk
-----------------------------------------------------------------------------
(* The data: maintenance *)

\* A clean empties its ways and writes the dirty ones out, in an otherwise empty unit.
LEMMA CleanEffect ==
  ASSUME Types, Types', IInv, LookedUpFirst, Struct, Clean(consumed)
  PROVE  /\ stores = <<>> /\ misses = <<>>
         /\ UNCHANGED <<misses, stores, direct, reads, evict, memory, results>> /\ done' = done \cup {consumed}
         /\ \A l : ~WayWritten(l)
         /\ \A w \in 1..Ways : /\ cache'[w].line = cache[w].line /\ cache'[w].dirty = cache[w].dirty
                               /\ cache'[w].data = cache[w].data /\ (cache'[w].valid => cache[w].valid)
         /\ \A j \in DOMAIN writes' : writes'[j].way # 0 =>
              /\ writes'[j].way \in 1..Ways
              /\ cache[writes'[j].way].valid /\ cache[writes'[j].way].line = writes'[j].line
         /\ \A w \in 1..Ways : cache[w].valid /\ cache[w].dirty /\ ~cache'[w].valid =>
              \E j \in DOMAIN writes' : writes'[j].line = cache[w].line /\ writes'[j].way = w
         /\ \A l : Ub(l) => (HasWrite(l)' <=> HasWrite(l))
<1> DEFINE ways == MaintenanceWays(consumed)
           dirty == DirtyWays(consumed)
<1> HIDE DEF Data, WayRec, WriteRec
<1>1. AtM2({"clean"})
  BY CleanParts
<1>2. PipeFacts /\ consumed < admitted /\ consumed < issued /\ Op(consumed).kind = "clean"
  BY <1>1, AtM2Facts
<1>3. maintActive /\ issued = consumed + 1
  <2>1. Maintained
    BY DEF Struct
  <2>2. consumed \in consumed..issued - 1
    BY <1>2 DEF PipeFacts
  <2>3. maintActive
    BY <1>2, <2>1, <2>2 DEF Maintained
  <2> QED BY <1>2, <2>1, <2>3 DEF Maintained, PipeFacts
<1>4. misses = <<>> /\ stores = <<>>
  BY <1>3 DEF Struct, Maintained
<1>5. UNCHANGED <<misses, stores, direct, reads, evict, memory, results>> /\ done' = done \cup {consumed}
  BY CleanParts DEF buffers
<1>6. \A i \in DOMAIN writes : writes[i].way = 0
  BY <1>2 DEF Struct, WaysKept, WaysHeld, PipeFacts
<1>7. ways \subseteq 1..Ways /\ dirty \subseteq 1..Ways /\ dirty \subseteq ways
      /\ dirty = {w \in ways : cache[w].valid /\ cache[w].dirty}
  <2>1. consumed \in 0..issued - 1
    BY <1>1, AtM2Facts DEF PipeFacts
  <2> QED BY <1>1, <2>1, MaintenanceWaysFacts DEF LookedUpFirst, DirtyWays
<1>8. \A w \in 1..Ways : /\ cache'[w].line = cache[w].line /\ cache'[w].dirty = cache[w].dirty
                         /\ cache'[w].data = cache[w].data
                         /\ cache'[w].valid <=> cache[w].valid /\ w \notin ways
  <2>1. cache' = Invalidated(ways)
    BY CleanParts
  <2>2. \A w \in 1..Ways : cache[w] \in WayRec
    BY WayTyped
  <2>4. \A w \in 1..Ways : cache'[w] = [cache[w] EXCEPT !.valid = @ /\ w \notin ways]
    BY <2>1 DEF Invalidated
  <2> HIDE DEF ways
  <2> QED BY <2>2, <2>4 DEF WayRec
<1>9. \A w \in dirty : External(cache[w].line) /\ cache[w].line \in Lines
  BY <1>7 DEF Struct, DirtyExternal
<1>10. PICK order \in [1..Cardinality(dirty) -> dirty] :
         Increasing(order) /\ writes' = writes \o WayWrites(order)
  BY CleanParts
<1> DEFINE t == WayWrites(order)
           n == Cardinality(dirty)
<1>11. IsFiniteSet(dirty) /\ n \in Nat
  <2>1. 1 \in Int /\ Ways \in Int
    BY LsuAssumption
  <2>2. IsFiniteSet(1..Ways)
    BY <2>1, FS_Interval
  <2> QED BY <1>7, <2>2, FS_Subset, FS_CardinalityType
<1>12. /\ \A i \in 1..n : order[i] \in dirty
       /\ \A i, j \in 1..n : order[i] = order[j] => i = j
  <2>1. \A i \in 1..n : order[i] \in dirty /\ order[i] \in Int
    BY <1>7, <1>10
  <2>2. DOMAIN order = 1..n
    BY <1>10
  <2> HIDE DEF n, dirty
  <2>3. \A i, j \in 1..n : i < j => order[i] < order[j]
    BY <1>10, <2>2 DEF Increasing
  <2> QED BY <1>11, <2>1, <2>3
<1>13. /\ t \in Seq(WriteRec) /\ DOMAIN t = 1..n
       /\ \A i \in 1..n : t[i].line = cache[order[i]].line /\ t[i].way = order[i]
  <2>1. DOMAIN order = 1..n
    BY <1>10
  <2>2. t = [i \in 1..n |-> WriteOf(cache[order[i]].line, order[i])]
    BY <2>1 DEF WayWrites
  <2>3. \A i \in 1..n : order[i] \in 1..Ways /\ order[i] \in 0..Ways
    BY <1>7, <1>12, LsuAssumption
  <2>4. \A i \in 1..n : WriteOf(cache[order[i]].line, order[i]) \in WriteRec
    BY <2>3, WayTyped, QueueItems
  <2> HIDE DEF t, n, dirty
  <2>5. t \in Seq(WriteRec)
    BY <1>11, <2>2, <2>4
  <2> QED BY <2>2, <2>3, <2>5 DEF WriteOf
<1> HIDE DEF t, ways
<1>14. \A w \in dirty : \E i \in 1..n : order[i] = w
  <2> DEFINE S == {w \in dirty : \E i \in 1..n : order[i] = w}
  <2>1. IsFiniteSet(1..n) /\ Cardinality(1..n) = n
    <3>1. 1 \in Int /\ n \in Int
      BY <1>11
    <3> HIDE DEF n
    <3>2. IsFiniteSet(1..n) /\ Cardinality(1..n) = IF 1 > n THEN 0 ELSE n - 1 + 1
      BY <3>1, FS_Interval
    <3> QED BY <1>11, <3>2
  <2> HIDE DEF n, dirty
  <2>2. order \in [1..n -> S]
    BY <1>10, <1>12 DEF n
  <2>3. Cardinality(S) = n
    BY <1>12, <2>1, <2>2, MappedCount
  <2>4. S \in SUBSET dirty
    OBVIOUS
  <2>5. S = dirty
    BY <1>11, <2>3, <2>4, FS_Subset DEF n
  <2> QED BY <2>5
<1> HIDE DEF n, dirty
<1>15. /\ \A l : HasWrite(l)' <=> HasWrite(l) \/ \E j \in DOMAIN t : t[j].line = l
       /\ \A j \in DOMAIN writes' : \/ j \in DOMAIN writes /\ writes'[j] = writes[j]
                                    \/ \E i \in DOMAIN t : writes'[j] = t[i] /\ j = Len(writes) + i
       /\ \A i \in DOMAIN t : \E j \in DOMAIN writes' : writes'[j] = t[i]
  <2>1. WriteT /\ WriteT' /\ writes' = writes \o t
    BY <1>10 DEF Types, t
  <2>2. writes \in Seq(WriteRec)
    BY <2>1 DEF WriteT
  <2>3. \A i \in DOMAIN t : \E j \in DOMAIN writes' : writes'[j] = t[i]
    <3> SUFFICES ASSUME NEW i \in DOMAIN t PROVE \E j \in DOMAIN writes' : writes'[j] = t[i]
      OBVIOUS
    <3>1. /\ Len(writes) \in Nat /\ Len(t) \in Nat /\ Len(writes \o t) = Len(writes) + Len(t)
          /\ \A j \in 1..Len(t) : (writes \o t)[Len(writes) + j] = t[j]
      BY <1>13, <2>2, ConcatFacts
    <3>2. i \in 1..Len(t)
      <4>1. t \in Seq(WriteRec)
        BY <1>13
      <4>2. DOMAIN t = 1..Len(t)
        BY <4>1
      <4> QED BY <4>2
    <3>4. DOMAIN writes' = 1..Len(writes')
      <4>1. writes' \in Seq(WriteRec)
        BY <2>1 DEF WriteT
      <4> QED BY <4>1
    <3>3. writes'[Len(writes) + i] = t[i] /\ Len(writes) + i \in DOMAIN writes'
      BY <2>1, <3>1, <3>2, <3>4
    <3> QED BY <3>3
  <2> QED BY <1>13, <2>1, <2>3, WritesExtended
<1>16. \A j \in DOMAIN writes' : writes'[j].way # 0 =>
         /\ writes'[j].way \in 1..Ways
         /\ cache[writes'[j].way].valid /\ cache[writes'[j].way].line = writes'[j].line
  <2> SUFFICES ASSUME NEW j \in DOMAIN writes', writes'[j].way # 0
               PROVE  /\ writes'[j].way \in 1..Ways
                      /\ cache[writes'[j].way].valid /\ cache[writes'[j].way].line = writes'[j].line
    OBVIOUS
  <2>1. PICK a \in 1..n : writes'[j] = t[a]
    BY <1>6, <1>13, <1>15
  <2> QED BY <1>7, <1>12, <1>13, <2>1
<1>17. ASSUME NEW w \in 1..Ways, cache[w].valid, cache[w].dirty, ~cache'[w].valid
       PROVE  \E j \in DOMAIN writes' : writes'[j].line = cache[w].line /\ writes'[j].way = w
  <2>1. w \in dirty
    BY <1>7, <1>8, <1>17
  <2>2. PICK i \in 1..n : order[i] = w
    BY <1>14, <2>1
  <2>3. i \in DOMAIN t /\ t[i].line = cache[w].line /\ t[i].way = w
    BY <1>13, <2>2
  <2> QED BY <1>15, <2>3
<1>18. \A l : Ub(l) => (HasWrite(l)' <=> HasWrite(l))
  BY <1>9, <1>12, <1>13, <1>15 DEF Ub, External
<1>19. \A l : ~WayWritten(l)
  BY <1>6 DEF WayWritten
<1> QED BY <1>4, <1>5, <1>8, <1>16, <1>17, <1>18, <1>19

\* A clean leaves every byte with a way, a write of a way or memory.
LEMMA CleanData ==
  ASSUME Types, Types', IInv, LookedUpFirst, Struct, DataOk, Clean(consumed)
  PROVE  DataOk'
<1>1. AtM2({"clean"})
  BY CleanParts
<1>2. /\ Goes /\ consumed \in Nat /\ consumed' = consumed + 1 /\ Op(consumed).kind = "clean"
      /\ \A l : Quiet(l)
  BY <1>1, M2Goes
<1>3. /\ stores = <<>> /\ misses = <<>>
      /\ UNCHANGED <<misses, stores, direct, reads, evict, memory, results>> /\ done' = done \cup {consumed}
      /\ \A l : ~WayWritten(l)
      /\ \A w \in 1..Ways : /\ cache'[w].line = cache[w].line /\ cache'[w].dirty = cache[w].dirty
                            /\ cache'[w].data = cache[w].data /\ (cache'[w].valid => cache[w].valid)
      /\ \A j \in DOMAIN writes' : writes'[j].way # 0 =>
           /\ writes'[j].way \in 1..Ways
           /\ cache[writes'[j].way].valid /\ cache[writes'[j].way].line = writes'[j].line
      /\ \A w \in 1..Ways : cache[w].valid /\ cache[w].dirty /\ ~cache'[w].valid =>
           \E j \in DOMAIN writes' : writes'[j].line = cache[w].line /\ writes'[j].way = w
      /\ \A l : Ub(l) => (HasWrite(l)' <=> HasWrite(l))
  BY CleanEffect
<1>4. \A l : /\ AlikeStore(l) /\ AlikeBytes(l) /\ MissFrom(l) /\ AlikeEvict(l)
             /\ ~HasStore(l) /\ ~HasStore(l)' /\ ~HasMiss(l)'
  BY <1>3, AlikeFrames DEF AlikeStore, HasStore, HasMiss
<1>5. ASSUME NEW l \in Lines PROVE LineData(l)'
  <2>1. EntryStates(l)' /\ MissLoads(l)'
    BY <1>4 DEF EntryStates, MissLoads
  <2>2. ASSUME ~Bypassed(l)' PROVE CopiesData(l)'
    <3>1. CopiesData(l)
      BY <1>2, <1>5, <2>2, BypassedKept DEF DataOk, LineData
    <3>2. WaysFrom(l) /\ EvictFrom(l)
      BY <1>3, <1>4 DEF WaysFrom, AlikeEvict, EvictFrom
    <3>3. WritingFrom(l)
      <4> SUFFICES ASSUME WritingWay(l)' PROVE WritingWay(l) /\ WritingBytes(l)' = WritingBytes(l)
        BY DEF WritingFrom
      <4>1. WritingWay(l)
        BY <1>3, <1>4 DEF WritingWay, Ub
      <4>2. Tagged(l)
        BY <4>1 DEF Struct, UbWrites, WritingWay
      <4>3. FindWay(l) \in 1..Ways
        BY <4>2, TagSearch
      <4>4. FindWay(l)' = FindWay(l)
        <5>1. {w \in 1..Ways : cache'[w].line = l} = {w \in 1..Ways : cache[w].line = l}
          BY <1>3
        <5> QED BY <5>1 DEF FindWay
      <4> QED BY <1>3, <4>1, <4>3, <4>4 DEF WritingBytes
    <3>4. MemoryFrom(l)
      <4> SUFFICES ASSUME InMemory(l)' PROVE InMemory(l)
        BY <1>3 DEF MemoryFrom
      <4>1. ~Evicted(l) /\ ~WayWritten(l)
        BY <1>3, <1>4 DEF InMemory, AlikeEvict
      <4>2. ~DirtyWay(l)
        <5> SUFFICES ASSUME NEW w \in 1..Ways, cache[w].valid, cache[w].dirty, cache[w].line = l PROVE FALSE
          BY DEF DirtyWay
        <5>1. CASE cache'[w].valid
          <6>1. DirtyWay(l)'
            BY <1>3, <5>1 DEF DirtyWay
          <6> QED BY <6>1 DEF InMemory
        <5>2. CASE ~cache'[w].valid
          <6>1. \E j \in DOMAIN writes' : writes'[j].line = l /\ writes'[j].way = w
            BY <1>3, <5>2
          <6>2. w # 0
            OBVIOUS
          <6>3. WayWritten(l)'
            BY <6>1, <6>2 DEF WayWritten
          <6> QED BY <6>3 DEF InMemory
        <5> QED BY <5>1, <5>2
      <4>3. ~WritingWay(l)
        BY <1>3, <1>4 DEF InMemory, WritingWay, Ub
      <4> QED BY <4>1, <4>2, <4>3 DEF InMemory
    <3>5. HeldData(l)'
      <4> SUFFICES ASSUME NEW j \in DOMAIN writes', writes'[j].line = l, writes'[j].way # 0
                   PROVE  Backed(l, cache[writes[j].way].data)'
        BY DEF HeldData
      <4>1. PICK w \in 1..Ways : /\ w = writes'[j].way /\ cache[w].valid /\ cache[w].line = l
                                 /\ cache'[w].data = cache[w].data
        BY <1>3
      <4>2. PICK d : d = cache[w].data
        OBVIOUS
      <4>3. Copied(l, d)
        BY <3>1, <4>1, <4>2 DEF CopiesData, WayData
      <4>4. Full(l, d)
        BY <1>4, <4>3, NoEntry
      <4>5. Full(l, d)'
        BY <1>2, <4>4, FullStays
      <4>6. Backed(l, d)'
        BY <1>4, <4>5, NoEntryNext
      <4> QED BY <4>1, <4>2, <4>6 DEF Backed
    <3>6. EntryData(l)'
      BY <1>4 DEF EntryData
    <3>7. WayData(l)' /\ EvictData(l)' /\ WritingData(l)' /\ MemoryData(l)'
      BY <1>2, <1>4, <3>1, <3>2, <3>3, <3>4, CopiesKept DEF CopiesData
    <3> QED BY <3>5, <3>6, <3>7 DEF CopiesData
  <2> QED BY <2>1, <2>2 DEF LineData
<1>6. TagFirst'
  BY <1>3, TagFirstKept DEF DataOk
<1>7. DoneStores'
  <2>1. "store" \notin {"clean"}
    OBVIOUS
  <2>2. DoneStores /\ done' = done \cup {consumed}
    BY <1>3 DEF DataOk
  <2> QED BY <1>1, <1>4, <2>1, <2>2, CompletedOne
<1>8. Returned' /\ DirectsKnown'
  BY <1>2, <1>3, ReturnedKept, DirectsKept DEF DataOk
<1> QED BY <1>5, <1>6, <1>7, <1>8 DEF DataOk
-----------------------------------------------------------------------------
(* The data: responses to reads *)

\* What a read response does to its line, to the line whose way it takes and to the others.
Arrives(i, v, line, old, merged) ==
  /\ v \in 1..Ways /\ line = reads[i].line /\ old = cache[v].line /\ merged = Merged(i)
  /\ HasRead(line) /\ ~Cached(line) /\ ~Evicted(line) /\ (Ub(line) => ~HasWrite(line)) /\ ~maintActive
  /\ External(line) <=> ~Ub(line)
  /\ UNCHANGED <<ops, consumed, admitted, direct, memory>>
  /\ Refills(i) => /\ cache'[v].line = line /\ cache'[v].valid /\ cache'[v].data = merged
                   /\ External(line) /\ HasStore(line) => cache'[v].dirty
                   /\ ~BeingWritten(v)
  /\ \A w \in 1..Ways : w # v \/ ~Refills(i) => cache'[w] = cache[w]
  /\ External(line) => Refills(i)
  /\ Evicts(i, v) <=> Refills(i) /\ cache[v].valid /\ cache[v].dirty
  /\ Evicts(i, v) => /\ old \in Lines /\ External(old) /\ old # line
                     /\ Evicted(old)' /\ evict'[old[2]] = cache[v].data
  /\ \A l \in Lines : (Evicts(i, v) /\ l = old) \/ AlikeEvict(l)
  /\ \A l : l # line => AlikeWrites(l) /\ AlikeStore(l) /\ MissFrom(l)
  /\ Ub(line) => (HasWrite(line)' <=> HasStore(line))
  /\ \A j \in DOMAIN writes' : writes'[j].way = 0
  /\ HasStore(line)' <=> HasStore(line) /\ Ub(line)
  /\ HasStore(line)' => /\ StoreEntry(line)'.state = "Ready" /\ StoreEntry(line)'.valid = Offsets
                        /\ StoreEntry(line)'.bytes = merged
                        /\ StoreEntry(line)'.requests = StoreEntry(line).requests
  /\ HasMiss(line)' => HasMiss(line) /\ misses'[line].requests = misses[line].requests
  /\ ~ReadBy(line, "Miss")'

\* A read response does what Arrives says, external or of UB, cached or not, with an entry or without.
LEMMA ReadEffect ==
  ASSUME Types, Types', IInv, Struct, NEW i \in DOMAIN reads, NEW v \in Victims, ReadResponse(i, v), ~raced',
         NEW line \in Lines, line = reads[i].line, NEW old \in Lines \cup {ZeroLine}, old = cache[v].line,
         NEW merged, merged = Merged(i)
  PROVE  Arrives(i, v, line, old, merged)
<1> HIDE DEF StoreRec, WriteRec, ReadRec, WayRec, Data, Requests
<1>3. PICK refills : refills = Refills(i)
  OBVIOUS
<1>4. PICK evicts : evicts = Evicts(i, v)
  OBVIOUS
<1>p. /\ cache' = IF refills THEN Install(v, line, merged, External(line) /\ HasStore(line)) ELSE cache
      /\ evict' = IF evicts THEN Put(evict, old[2], cache[v].data) ELSE evict
      /\ writes' = writes \o WritesBack(i, v) \o WritesThrough(i)
      /\ misses' = IF Serves(i) THEN Drop(misses, line) ELSE misses
      /\ reads' = RemoveAt(reads, i)
      /\ raced' = (raced \/ (refills /\ BeingWritten(v)))
      /\ UNCHANGED <<pipeVars, ops, lookup, direct, memory, events, maint, failure>>
  BY <1>3, <1>4, ReadResponseParts
<1>s. /\ ~HasStore(line) => stores' = stores
      /\ HasStore(line) /\ External(line) => stores' = RemoveAt(stores, StoreIndex(line))
      /\ HasStore(line) /\ ~External(line) => stores' = [stores EXCEPT ![StoreIndex(line)] = Readied(i)]
  BY ReadResponseParts
<1>6. UNCHANGED <<ops, consumed, admitted, direct, memory>>
  BY <1>p DEF pipeVars
<1>7. /\ HasRead(line) /\ ~Cached(line) /\ ~Evicted(line) /\ (Ub(line) => ~HasWrite(line))
  <2>1. OfLine(line) /\ HasRead(line)
    BY StructByLine DEF HasRead
  <2> QED BY <2>1 DEF OfLine, OfReads, OfEvicted, OfUb
<1>8. ~maintActive
  BY DEF Struct, Maintained
<1>9. (External(line) <=> ~Ub(line)) /\ (refills <=> External(line) \/ CacheUb)
  BY <1>3, LineFacts DEF Refills
<1>v. v \in 1..Ways
  BY VictimFacts
<1>10. /\ evicts <=> refills /\ cache[v].valid /\ cache[v].dirty
       /\ evicts => old \in Lines /\ External(old) /\ ~Ub(old) /\ old # line
  <2>2. evicts <=> refills /\ cache[v].valid /\ cache[v].dirty
    BY <1>3, <1>4 DEF Evicts, NeedsWriteback
  <2>3. cache[v].dirty => External(old) /\ old \in Lines
    BY <1>v DEF Struct, DirtyExternal
  <2>4. cache[v].valid => old # line
    BY <1>7, <1>v DEF Cached
  <2> QED BY <2>2, <2>3, <2>4, LineFacts
<1>11. /\ refills => /\ cache'[v].line = line /\ cache'[v].valid /\ cache'[v].data = merged
                     /\ External(line) /\ HasStore(line) => cache'[v].dirty
       /\ \A w \in 1..Ways : w # v \/ ~refills => cache'[w] = cache[w]
  <2>1. CacheT
    BY DEF Types
  <2>2. merged \in Data
    <3>1. memory[line] \in Data
      BY DEF Types, MemoryT
    <3>2. HasStore(line) => Merge(StoreEntry(line), memory[line]) \in Data
      BY <3>1, MergeTyped, StoreFacts DEF Types
    <3> QED BY <3>1, <3>2 DEF Merged
  <2>b. (External(line) /\ HasStore(line)) \in BOOLEAN
    OBVIOUS
  <2>3. PICK b \in BOOLEAN : b = (External(line) /\ HasStore(line))
    BY <2>b
  <2>b2. b \in BOOLEAN
    BY <2>3
  <2> DEFINE c == Install(v, line, merged, b)
  <2>4. /\ c[v] = [line |-> line, valid |-> TRUE, dirty |-> b, data |-> merged]
        /\ \A w \in 1..Ways : w # v => c[w] = cache[w]
    BY <1>v, <2>1, <2>2, <2>b2, InstallTyped
  <2>5. refills => cache' = c
    BY <1>p, <2>3
  <2>6. ~refills => cache' = cache
    BY <1>p
  <2> HIDE DEF c
  <2>7. c[v].line = line /\ c[v].valid /\ c[v].dirty = b /\ c[v].data = merged
    BY <2>4
  <2> QED BY <1>v, <2>3, <2>4, <2>5, <2>6, <2>7
<1>12. /\ \A o : ~ReadBy(line, o)'
       /\ \A l, o : l # line => (ReadBy(l, o)' <=> ReadBy(l, o))
  BY <1>p, ReadRemoved DEF Types, Struct
<1>13. \A l : HasMiss(l)' => HasMiss(l) /\ misses'[l] = misses[l]
  <2>1. Serves(i) => misses' = [l \in DOMAIN misses \ {line} |-> misses[l]]
    BY <1>p DEF Drop
  <2>2. ~Serves(i) => UNCHANGED misses
    BY <1>p
  <2> QED BY <2>1, <2>2 DEF HasMiss
<1>14. /\ HasStore(line)' <=> HasStore(line) /\ Ub(line)
       /\ HasStore(line)' => /\ StoreEntry(line)'.state = "Ready" /\ StoreEntry(line)'.valid = Offsets
                             /\ StoreEntry(line)'.bytes = merged
                             /\ StoreEntry(line)'.requests = StoreEntry(line).requests
       /\ \A l : l # line => SameStore(l)
  <2>1. StoreT /\ StoresApart
    BY DEF Types, Struct
  <2>2. CASE ~HasStore(line)
    <3>1. \A l : SameStore(l)
      BY <1>s, <2>1, <2>2, UnchangedParts
    <3> QED BY <2>2, <3>1 DEF SameStore
  <2>3. CASE HasStore(line) /\ External(line)
    <3>1. StoreIndex(line) \in DOMAIN stores /\ line = stores[StoreIndex(line)].line
      BY <2>1, <2>3, StoreFacts
    <3>2. stores' = RemoveAt(stores, StoreIndex(line))
      BY <1>s, <2>3
    <3>3. /\ ~HasStore(line)'
          /\ \A l : l # line => /\ HasStore(l)' <=> HasStore(l)
                                /\ HasStore(l) => StoreEntry(l)' = StoreEntry(l)
      BY <2>1, <3>1, <3>2, StoreRemoved
    <3> QED BY <1>9, <2>3, <3>3 DEF SameStore
  <2>4. CASE HasStore(line) /\ ~External(line)
    <3> DEFINE k == StoreIndex(line)
               f == Readied(i)
    <3>1. k \in DOMAIN stores /\ stores[k].line = line /\ StoreEntry(line) \in StoreRec
          /\ StoreEntry(line).line = line
      BY <2>1, <2>4, StoreFacts
    <3>2. Merged(i) \in Data
      <4>1. memory[line] \in Data
        BY DEF Types, MemoryT
      <4>2. Merge(StoreEntry(line), memory[line]) \in Data
        BY <3>1, <4>1, MergeTyped
      <4> QED BY <2>4, <4>2 DEF Merged
    <3>3. /\ f \in StoreRec /\ f.line = line /\ f.state = "Ready" /\ f.valid = Offsets
          /\ f.bytes = merged /\ f.requests = StoreEntry(line).requests
      <4>1. (~(reads[i].owner = "Miss")) \in BOOLEAN
        OBVIOUS
      <4> QED BY <3>1, <3>2, <4>1, StoreReady DEF Readied
    <3>4. stores' = [stores EXCEPT ![k] = f]
      BY <1>s, <2>4
    <3> HIDE DEF k, f
    <3>5. /\ HasStore(line)' /\ StoreEntry(line)' = f
          /\ \A l : l # line => /\ HasStore(l)' <=> HasStore(l)
                                /\ HasStore(l) => StoreEntry(l)' = StoreEntry(l)
      BY <2>1, <3>1, <3>3, <3>4, StoreReplaced
    <3> QED BY <1>9, <2>4, <3>3, <3>5 DEF SameStore
  <2> QED BY <2>2, <2>3, <2>4
<1>15. /\ \A l : HasWrite(l)' <=> HasWrite(l) \/ (evicts /\ l = old)
                                             \/ (HasStore(line) /\ Ub(line) /\ l = line)
       /\ \A j \in DOMAIN writes' : \/ \E k \in DOMAIN writes : writes'[j] = writes[k]
                                    \/ writes'[j].way = 0 /\ writes'[j].line \in Lines
  <2>1. Evicts(i, v) => old \in Lines
    BY <1>4, <1>10
  <2> QED BY <1>4, <1>p, <1>v, <2>1, ResponseWrites
<1>16. \A k \in DOMAIN writes : writes[k].way = 0
  BY <1>8, NoWays
<1>17. \A j \in DOMAIN writes' : writes'[j].way = 0
  BY <1>15, <1>16
<1>18. \A l : l # line => AlikeWrites(l)
  <2>1. \A l : ~WayWritten(l)
    BY <1>16 DEF WayWritten
  <2>2. \A l : l # line /\ Ub(l) => (HasWrite(l)' <=> HasWrite(l))
    BY <1>10, <1>15
  <2> QED BY <1>17, <2>1, <2>2 DEF AlikeWrites
<1>19. /\ evicts => Evicted(old)' /\ evict'[old[2]] = cache[v].data
       /\ \A l \in Lines : (evicts /\ l = old) \/ AlikeEvict(l)
  <2>1. CASE evicts
    <3>1. evict' = [a \in DOMAIN evict \cup {old[2]} |-> IF a = old[2] THEN cache[v].data ELSE evict[a]]
      BY <1>p, <2>1 DEF Put
    <3>2. \A l \in Lines : l # old /\ External(l) => l[2] # old[2]
      BY <1>10, <2>1, SameAddress
    <3>3. Evicted(old)' /\ evict'[old[2]] = cache[v].data
      BY <1>10, <2>1, <3>1 DEF Evicted, External
    <3>4. \A l \in Lines : l # old => AlikeEvict(l)
      BY <3>1, <3>2 DEF AlikeEvict, Evicted, External
    <3> QED BY <2>1, <3>3, <3>4
  <2>2. CASE ~evicts
    BY <1>p, <2>2, AlikeFrames
  <2> QED BY <2>1, <2>2
<1>20. \A l : l # line => AlikeStore(l) /\ MissFrom(l)
  BY <1>12, <1>13, <1>14, SameAlike DEF MissFrom
<1>21. Ub(line) => (HasWrite(line)' <=> HasStore(line))
  BY <1>7, <1>10, <1>15
<1>22. refills => ~BeingWritten(v)
  BY <1>p
<1> QED BY <1>3, <1>4, <1>6, <1>7, <1>8, <1>9, <1>v, <1>10, <1>11, <1>12, <1>13, <1>14, <1>17, <1>18, <1>19,
           <1>20, <1>21, <1>22 DEF Arrives

\* The bytes that arrive, with the entry's over them, are all bytes of the line.
LEMMA ReadBytes ==
  ASSUME Types, Struct, PipeFacts, NEW i, NEW v, NEW line \in Lines, NEW old, NEW merged,
         Arrives(i, v, line, old, merged), CopiesData(line)
  PROVE  InMemory(line) /\ Backed(line, memory[line]) /\ Full(line, merged)
<1>1. /\ line = reads[i].line /\ merged = Merged(i)
      /\ ~Cached(line) /\ ~Evicted(line) /\ (Ub(line) => ~HasWrite(line)) /\ ~maintActive
  BY DEF Arrives
<1>2. ~WayWritten(line)
  BY <1>1, NoWays DEF WayWritten
<1>3. InMemory(line)
  BY <1>1, <1>2 DEF InMemory, DirtyWay, Cached, WritingWay
<1>4. Backed(line, memory[line])
  BY <1>3 DEF CopiesData, MemoryData
<1>5. CASE HasStore(line)
  <2>1. merged = Merge(StoreEntry(line), memory[line])
    BY <1>1, <1>5 DEF Merged
  <2>2. EntryData(line)
    BY DEF CopiesData
  <2>3. Full(line, Merge(StoreEntry(line), memory[line]))
    BY <1>4, <1>5, <2>2, MergedFull
  <2> QED BY <1>3, <1>4, <2>1, <2>3
<1>6. CASE ~HasStore(line)
  <2>1. merged = memory[line]
    BY <1>1, <1>6 DEF Merged
  <2> QED BY <1>3, <1>4, <1>6, <2>1, NoEntry
<1> QED BY <1>5, <1>6

\* The line that arrives.
LEMMA ReadLineData ==
  ASSUME Types, Struct, Goes, DataOk, NEW i, NEW v, NEW line \in Lines, NEW old, NEW merged,
         Arrives(i, v, line, old, merged)
  PROVE  LineData(line)'
<1>0. PipeFacts
  BY DEF Goes
<1>1. /\ UNCHANGED <<ops, consumed, admitted, memory>> /\ v \in 1..Ways /\ Quiet(line)
      /\ ~Cached(line) /\ ~Evicted(line) /\ (External(line) <=> ~Ub(line))
  BY DEF Arrives, Quiet
<1>2. /\ HasStore(line)' <=> HasStore(line) /\ Ub(line)
      /\ HasStore(line)' => /\ StoreEntry(line)'.state = "Ready" /\ StoreEntry(line)'.valid = Offsets
                            /\ StoreEntry(line)'.bytes = merged
                            /\ StoreEntry(line)'.requests = StoreEntry(line).requests
      /\ Ub(line) => (HasWrite(line)' <=> HasStore(line))
  BY DEF Arrives
<1>3. EntryStates(line)'
  BY <1>2 DEF EntryStates, Ub
<1>4. MissLoads(line)'
  <2> SUFFICES ASSUME HasMiss(line)', NEW id \in ToSet(misses'[line].requests)
               PROVE  Waits(line, id)' /\ (ReadBy(line, "Miss")' => Uncovered(line, id)')
    BY DEF MissLoads
  <2>1. HasMiss(line) /\ id \in ToSet(misses[line].requests) /\ ~ReadBy(line, "Miss")'
    BY DEF Arrives
  <2>2. Waits(line, id)
    BY <2>1 DEF DataOk, LineData, MissLoads
  <2>3. Waits(line, id)'
    BY <1>1, <2>2 DEF Waits, Op
  <2> QED BY <2>1, <2>3
<1>5. ASSUME ~Bypassed(line)' PROVE CopiesData(line)'
  <2>1. ~Bypassed(line)
    BY <1>5, BypassedKept
  <2>2. CopiesData(line)
    BY <2>1 DEF DataOk, LineData
  <2>3. Full(line, merged) /\ Backed(line, memory[line])
    BY <1>0, <2>2, ReadBytes
  <2>4. Full(line, merged)'
    BY <1>1, <2>3, FullStays
  <2>5. EntryData(line)'
    BY <1>2, <2>4 DEF EntryData, Full
  <2>6. Copied(line, merged)'
    BY <1>2, <2>4 DEF Full, Copied, CopyBase
  <2>7. WayData(line)'
    <3>1. ASSUME NEW w \in 1..Ways, cache'[w].valid, cache'[w].line = line PROVE cache'[w].data = merged
      <4>1. w = v /\ Refills(i)
        BY <1>1, <3>1 DEF Arrives, Cached
      <4> QED BY <4>1 DEF Arrives
    <3> QED BY <2>6, <3>1 DEF WayData, Copied
  <2>8. EvictData(line)'
    <3>1. AlikeEvict(line)
      BY DEF Arrives
    <3> QED BY <1>1, <3>1 DEF EvictData, AlikeEvict
  <2>9. HeldData(line)'
    <3>1. \A j \in DOMAIN writes' : writes'[j].way = 0
      BY DEF Arrives
    <3> QED BY <3>1 DEF HeldData
  <2>10. WritingData(line)'
    BY <1>2 DEF WritingData, WritingWay, Ub
  <2>11. MemoryData(line)'
    <3>1. PICK d : d = memory[line]
      OBVIOUS
    <3>2. Backed(line, d)
      BY <2>3, <3>1
    <3>3. ASSUME InMemory(line)' PROVE Backed(line, d)'
      <4>1. CASE HasStore(line)'
        <5>1. HasStore(line) /\ Oldest(line) \in Nat /\ Oldest(line) < consumed
          BY <1>2, <4>1, OldestFacts
        <5>2. PICK b \in Nat : b = Oldest(line)
          BY <5>1
        <5>3. Base(line) = b /\ Base(line)' = b /\ b <= admitted
          <6>1. Base(line) = b /\ Base(line)' = b
            BY <1>2, <4>1, <5>1, <5>2 DEF Base, Oldest
          <6>2. b <= admitted
            BY <1>0, <5>1, <5>2 DEF PipeFacts
          <6> QED BY <6>1, <6>2
        <5>4. SameOps
          BY DEF Goes
        <5> QED BY <1>0, <3>2, <5>3, <5>4, BackedSame
      <4>2. CASE ~HasStore(line)'
        <5>1. CASE HasStore(line)
          <6>1. External(line) /\ Refills(i)
            BY <1>1, <1>2, <4>2, <5>1 DEF Arrives
          <6>2. cache'[v].valid /\ cache'[v].dirty /\ cache'[v].line = line
            BY <5>1, <6>1 DEF Arrives
          <6>3. DirtyWay(line)'
            BY <1>1, <6>2 DEF DirtyWay
          <6> QED BY <3>3, <6>3 DEF InMemory
        <5>2. CASE ~HasStore(line)
          <6>1. Full(line, d)
            BY <3>2, <5>2, NoEntry
          <6>2. Full(line, d)'
            BY <1>1, <6>1, FullStays
          <6> QED BY <4>2, <6>2, NoEntryNext
        <5> QED BY <5>1, <5>2
      <4> QED BY <4>1, <4>2
    <3>4. memory'[line] = d
      BY <1>1, <3>1
    <3> QED BY <3>3, <3>4 DEF MemoryData, Backed
  <2> QED BY <2>5, <2>7, <2>8, <2>9, <2>10, <2>11 DEF CopiesData
<1> QED BY <1>3, <1>4, <1>5 DEF LineData

\* The line that gives up its way and waits to be written back.
LEMMA ReadOldData ==
  ASSUME Types, Struct, Goes, DataOk, NEW i, NEW v, NEW line \in Lines, NEW old \in Lines, NEW merged,
         Arrives(i, v, line, old, merged), Evicts(i, v)
  PROVE  LineData(old)'
<1>0. PipeFacts
  BY DEF Goes
<1>1. /\ UNCHANGED <<ops, consumed, admitted, memory>> /\ v \in 1..Ways /\ Quiet(old)
      /\ External(old) /\ old # line /\ Evicted(old)' /\ evict'[old[2]] = cache[v].data
      /\ cache[v].line = old /\ cache[v].valid
      /\ cache'[v].line = line /\ \A w \in 1..Ways : w # v => cache'[w] = cache[w]
      /\ AlikeWrites(old) /\ AlikeStore(old) /\ MissFrom(old)
  BY DEF Arrives, Quiet
<1>2. AlikeBytes(old) /\ LineData(old)
  BY <1>1 DEF AlikeStore, DataOk
<1>3. ~Ub(old)
  BY <1>1, LineFacts
<1>4. HasStore(old) => StoreEntry(old).state = "Idle"
  <2>1. Cached(old)
    BY <1>1 DEF Cached
  <2>2. HasStore(old) => StoreEntry(old).state \in {"Idle", "Fetching", "Ready"}
    <3>1. HasStore(old) => StoreEntry(old) \in StoreRec
      <4> HIDE DEF StoreRec
      <4> QED BY StoreFacts DEF Types
    <3> HIDE DEF Requests, Data
    <3> QED BY <3>1 DEF StoreRec
  <2> QED BY <1>2, <1>3, <2>1, <2>2 DEF LineData, EntryStates
<1>5. ~Cached(old)'
  <2> SUFFICES ASSUME NEW w \in 1..Ways, cache'[w].valid, cache'[w].line = old PROVE FALSE
    BY DEF Cached
  <2>1. w # v /\ cache'[w] = cache[w]
    BY <1>1
  <2> QED BY <1>1, <2>1 DEF Struct, OneCopy
<1>6. EntryStates(old)'
  BY <1>1, <1>2, <1>4, <1>5 DEF AlikeStore, AlikeBytes, EntryStates
<1>7. MissLoads(old)'
  BY <1>1, <1>2, MissLoadsKept DEF LineData
<1>8. ASSUME ~Bypassed(old)' PROVE CopiesData(old)'
  <2>1. CopiesData(old)
    BY <1>2, <1>8, BypassedKept DEF LineData
  <2>2. EntryData(old)'
    BY <1>1, <1>2, <2>1, EntryDataKept DEF CopiesData
  <2>3. WayData(old)'
    BY <1>5 DEF WayData, Cached
  <2>4. EvictData(old)'
    <3>1. PICK d : d = cache[v].data
      OBVIOUS
    <3>2. Copied(old, d)
      BY <1>1, <2>1, <3>1 DEF CopiesData, WayData
    <3>3. Backed(old, d)
      BY <1>4, <3>2 DEF Backed, Copied, Base, CopyBase
    <3>4. Backed(old, d)'
      BY <1>1, <1>2, <3>3, BytesKept
    <3>5. evict'[old[2]] = d
      BY <1>1, <3>1
    <3> QED BY <3>4, <3>5 DEF EvictData, Backed
  <2>5. HeldData(old)'
    <3>1. \A j \in DOMAIN writes' : writes'[j].way = 0
      BY DEF Arrives
    <3> QED BY <3>1 DEF HeldData
  <2>6. WritingData(old)'
    BY <1>3 DEF WritingData, WritingWay, Ub
  <2>7. MemoryData(old)'
    BY <1>1 DEF MemoryData, InMemory
  <2> QED BY <2>2, <2>3, <2>4, <2>5, <2>6, <2>7 DEF CopiesData
<1> QED BY <1>6, <1>7, <1>8 DEF LineData

\* Every other line, one that gives up a clean way included.
LEMMA ReadOtherData ==
  ASSUME Types, Struct, Goes, DataOk, NEW i, NEW v, NEW line \in Lines, NEW old, NEW merged,
         Arrives(i, v, line, old, merged), NEW l \in Lines, l # line, ~(Evicts(i, v) /\ l = old)
  PROVE  LineData(l)'
<1>1. /\ UNCHANGED <<consumed, memory>> /\ v \in 1..Ways /\ Quiet(l) /\ old = cache[v].line
      /\ AlikeWrites(l) /\ AlikeStore(l) /\ MissFrom(l) /\ AlikeEvict(l) /\ LineData(l)
      /\ \A w \in 1..Ways : w # v \/ ~Refills(i) => cache'[w] = cache[w]
      /\ Refills(i) => cache'[v].line = line /\ cache'[v].valid /\ ~BeingWritten(v)
      /\ \A j \in DOMAIN writes' : writes'[j].way = 0
      /\ Evicts(i, v) <=> Refills(i) /\ cache[v].valid /\ cache[v].dirty
  BY DEF Arrives, Quiet, DataOk
<1>2. CASE ~(Refills(i) /\ l = old)
  <2>1. AlikeWays(l)
    BY <1>1, <1>2 DEF AlikeWays
  <2> QED BY <1>1, <2>1, AlikeLine
<1>3. CASE Refills(i) /\ l = old
  <2>1. ~(cache[v].valid /\ cache[v].dirty) /\ cache[v].line = l
    BY <1>1, <1>3
  <2>2. WaysFrom(l) /\ (Cached(l)' => Cached(l))
    <3>1. \A w \in 1..Ways : cache'[w].valid /\ cache'[w].line = l => cache'[w] = cache[w]
      BY <1>1, <1>3
    <3> QED BY <3>1 DEF WaysFrom, Cached
  <2>3. EvictFrom(l) /\ HeldFrom(l)
    BY <1>1 DEF EvictFrom, HeldFrom, AlikeEvict
  <2>4. ~WritingWay(l)
    BY <1>1, <1>3, <2>1 DEF BeingWritten, WritingWay
  <2>5. WritingWay(l)' => WritingWay(l)
    BY <1>1 DEF AlikeWrites, AlikeStore, AlikeBytes, WritingWay, Ub
  <2>6. WritingFrom(l)
    BY <2>4, <2>5 DEF WritingFrom
  <2>7. MemoryFrom(l)
    <3>1. DirtyWay(l) => DirtyWay(l)'
      <4> SUFFICES ASSUME NEW w \in 1..Ways, cache[w].valid, cache[w].dirty, cache[w].line = l PROVE DirtyWay(l)'
        BY DEF DirtyWay
      <4>1. w # v /\ cache'[w] = cache[w]
        BY <1>1, <2>1
      <4> QED BY <4>1 DEF DirtyWay
    <3> QED BY <1>1, <2>4, <3>1 DEF MemoryFrom, InMemory, AlikeEvict, AlikeWrites
  <2>8. Ub(l) /\ HasWrite(l) /\ HasStore(l) => HasWrite(l)'
    BY <1>1 DEF AlikeWrites
  <2> QED BY <1>1, <2>2, <2>3, <2>6, <2>7, <2>8, LineKept
<1> QED BY <1>2, <1>3

\* The loads that waited get the bytes of their stores.
LEMMA ReadReturns ==
  ASSUME Types, Struct, Goes, DataOk, NEW i \in DOMAIN reads, NEW v, NEW line \in Lines, NEW old, NEW merged,
         Arrives(i, v, line, old, merged),
         results' = LoadResults(IF Serves(i) THEN MissRequests(line) ELSE {},
                                IF reads[i].owner = "Miss" THEN memory[line] ELSE merged)
  PROVE  Returned'
<1>0. PipeFacts /\ consumed' = consumed /\ consumed \in Nat /\ line = reads[i].line
  BY DEF Goes, PipeFacts, Arrives
<1> DEFINE ids == IF Serves(i) THEN MissRequests(line) ELSE {}
<1>1. PICK d : d = IF reads[i].owner = "Miss" THEN memory[line] ELSE merged
  OBVIOUS
<1>2. ASSUME NEW id \in ids
      PROVE  Waits(line, id) /\ (reads[i].owner = "Miss" => Uncovered(line, id))
  <2>1. HasMiss(line) /\ id \in ToSet(misses[line].requests)
    BY <1>2 DEF MissRequests
  <2>2. reads[i].owner = "Miss" => ReadBy(line, "Miss")
    BY <1>0 DEF ReadBy
  <2> QED BY <2>1, <2>2 DEF DataOk, LineData, MissLoads
<1>3. ASSUME NEW id \in ids, Op(id).kind = "load", NEW o \in Offsets, Op(id).bytes = {o}, ~Bypassed(line)
      PROVE  Latest(line, o, id, d[o])
  <2>1. CopiesData(line)
    BY <1>3 DEF DataOk, LineData
  <2>2. Backed(line, memory[line]) /\ Full(line, merged)
    BY <1>0, <2>1, ReadBytes
  <2>3. Latest(line, o, consumed, d[o])
    <3>1. CASE reads[i].owner = "Miss" /\ HasStore(line)
      <4>1. o \notin StoreEntry(line).valid
        BY <1>2, <1>3, <3>1 DEF Uncovered
      <4>2. EntryData(line)
        BY <2>1 DEF CopiesData
      <4>3. Latest(line, o, consumed, memory[line][o])
        BY <1>0, <2>2, <3>1, <4>1, <4>2, UncoveredFull
      <4> QED BY <1>1, <3>1, <4>3
    <3>2. CASE reads[i].owner = "Miss" /\ ~HasStore(line)
      <4>1. Full(line, memory[line])
        BY <2>2, <3>2, NoEntry
      <4> QED BY <1>1, <3>2, <4>1 DEF Full
    <3>3. CASE reads[i].owner # "Miss"
      BY <1>1, <2>2, <3>3 DEF Full
    <3> QED BY <3>1, <3>2, <3>3
  <2>4. Waits(line, id)
    BY <1>2, <1>3
  <2> QED BY <1>0, <2>3, <2>4, WaitsLatest
<1>4. \A id \in ids : id \in Nat /\ id < consumed' /\ Op(id).line = line
  BY <1>0, <1>2 DEF Waits
<1>5. results' = LoadResults(ids, d)
  BY <1>1
<1> HIDE DEF ids
<1>6. \A id \in ids : Op(id).kind = "load" =>
        /\ id \in Nat /\ id < consumed'
        /\ \A o \in Offsets : Op(id).bytes = {o} /\ ~Bypassed(Op(id).line) => Latest(Op(id).line, o, id, d[o])
  BY <1>3, <1>4
<1>7. Returned
  BY DEF DataOk
<1> QED BY <1>5, <1>6, <1>7, CompletedLoads

\* The stores that complete have left the store buffer.
LEMMA ReadCompletes ==
  ASSUME Types, Struct, Goes, DataOk, NEW i \in DOMAIN reads, NEW v, NEW line \in Lines, NEW old, NEW merged,
         Arrives(i, v, line, old, merged),
         done' = done \cup (IF HasStore(line) /\ External(line) THEN ToSet(StoreEntry(line).requests) ELSE {})
                      \cup (IF Serves(i) THEN MissRequests(line) ELSE {})
  PROVE  DoneStores'
<1>1. ASSUME NEW s \in done', s \notin done
      PROVE  s \in Nat /\ s < consumed /\ (Op(s).kind = "store" => Op(s).line = line /\ ~HasStore(line)')
  <2>1. CASE HasStore(line) /\ External(line) /\ s \in ToSet(StoreEntry(line).requests)
    <3>1. Entries /\ ~HasStore(line)'
      BY <2>1 DEF Struct, Arrives
    <3>2. Op(s).line = line
      BY <2>1 DEF Struct, Entries
    <3> QED BY <2>1, <3>1, <3>2, EntryRequests
  <2>2. CASE s \in MissRequests(line)
    <3>1. HasMiss(line) /\ s \in ToSet(misses[line].requests)
      BY <2>2 DEF MissRequests
    <3>2. Waits(line, s)
      BY <3>1 DEF DataOk, LineData, MissLoads
    <3> QED BY <3>2 DEF Waits
  <2> QED BY <1>1, <2>1, <2>2
<1>2. \A l : HasStore(l)' => HasStore(l) /\ Oldest(l)' = Oldest(l)
  <2> TAKE l
  <2>1. CASE l = line
    BY <2>1 DEF Arrives, Oldest
  <2>2. CASE l # line
    <3>1. AlikeBytes(l)
      BY <2>2 DEF Arrives, AlikeStore
    <3> QED BY <3>1, BaseKept DEF AlikeBytes
  <2> QED BY <2>1, <2>2
<1>3. DoneStores
  BY DEF DataOk
<1> QED BY <1>1, <1>2, <1>3, StoresDone

\* The way that is refilled is the first invalid one, and the only one with the tag of the line.
LEMMA ReadTags ==
  ASSUME Types, Struct, DataOk, NEW i, NEW v \in Victims, NEW line \in Lines, NEW old, NEW merged,
         Arrives(i, v, line, old, merged)
  PROVE  TagFirst'
<1>1. /\ v \in 1..Ways /\ ~Cached(line)
      /\ \A w \in 1..Ways : w # v \/ ~Refills(i) => cache'[w] = cache[w]
      /\ Refills(i) => cache'[v].line = line
  BY DEF Arrives
<1> SUFFICES ASSUME NEW w \in 1..Ways, cache'[w].valid, cache'[w].line \in Lines,
                    NEW u \in 1..w - 1, cache'[u].line = cache'[w].line
             PROVE  FALSE
  BY DEF TagFirst
<1>2. u \in 1..Ways /\ u < w /\ Ways \in Nat
  BY LsuAssumption
<1>3. CASE ~Refills(i) \/ (w # v /\ u # v)
  <2>1. cache'[w] = cache[w] /\ cache'[u] = cache[u]
    BY <1>1, <1>2, <1>3
  <2> QED BY <2>1 DEF DataOk, TagFirst
<1>4. CASE Refills(i) /\ u = v
  <2>1. cache[w].valid /\ cache[w].line = line
    BY <1>1, <1>2, <1>4
  <2> QED BY <1>1, <2>1 DEF Cached
<1>5. CASE Refills(i) /\ w = v
  <2>1. cache[u].line = line
    BY <1>1, <1>2, <1>5
  <2>2. ~cache[u].valid
    BY <1>1, <1>2, <2>1 DEF Cached
  <2> DEFINE invalid == {x \in 1..Ways : ~cache[x].valid}
  <2>3. u \in invalid /\ invalid \subseteq Nat
    BY <1>2, <2>2
  <2>4. v = Min(invalid)
    BY <2>3 DEF Victims
  <2>5. v <= u
    <3> HIDE DEF invalid
    <3> QED BY <2>3, <2>4, MinFacts
  <2> QED BY <1>2, <1>5, <2>5
<1> QED BY <1>3, <1>4, <1>5

\* A line arrives.
LEMMA ReadData ==
  ASSUME Types, Types', IInv, Struct, DataOk, NEW i \in DOMAIN reads, NEW v \in Victims, ReadResponse(i, v),
         ~raced'
  PROVE  DataOk'
<1>1. PICK line \in Lines : line = reads[i].line
  BY QueueItems
<1>2. PICK old \in Lines \cup {ZeroLine} : old = cache[v].line
  <2>1. v \in 1..Ways
    BY VictimFacts
  <2>2. cache[v] \in WayRec
    BY <2>1, WayTyped DEF Types, CacheT
  <2> HIDE DEF Data
  <2> QED BY <2>2 DEF WayRec
<1>3. PICK merged : merged = Merged(i)
  OBVIOUS
<1>4. Arrives(i, v, line, old, merged)
  BY <1>1, <1>2, <1>3, ReadEffect
<1>5. /\ results' = LoadResults(IF Serves(i) THEN MissRequests(line) ELSE {},
                                IF reads[i].owner = "Miss" THEN memory[line] ELSE merged)
      /\ done' = done \cup (IF HasStore(line) /\ External(line) THEN ToSet(StoreEntry(line).requests) ELSE {})
                      \cup (IF Serves(i) THEN MissRequests(line) ELSE {})
  BY <1>1, <1>3, ReadResponseParts
<1>6. Goes /\ UNCHANGED direct
  <2>1. UNCHANGED <<ops, admitted, consumed, direct>>
    BY <1>4 DEF Arrives
  <2> QED BY <2>1, PipeNumbers, GoesStill
<1>7. LineData(line)'
  BY <1>4, <1>6, ReadLineData
<1>8. ASSUME NEW l \in Lines, l # line PROVE LineData(l)'
  <2>1. CASE Evicts(i, v) /\ l = old
    BY <1>4, <1>6, <2>1, ReadOldData
  <2>2. CASE ~(Evicts(i, v) /\ l = old)
    BY <1>4, <1>6, <1>8, <2>2, ReadOtherData
  <2> QED BY <2>1, <2>2
<1>9. TagFirst'
  BY <1>4, ReadTags
<1>10. Returned'
  BY <1>4, <1>5, <1>6, ReadReturns
<1>11. DoneStores'
  BY <1>4, <1>5, <1>6, ReadCompletes
<1>12. DirectsKnown'
  BY <1>6, DirectsKept DEF DataOk
<1> QED BY <1>7, <1>8, <1>9, <1>10, <1>11, <1>12 DEF DataOk

\* A line arrives from either memory.
LEMMA ReadsData ==
  ASSUME Types, Types', IInv, Struct, DataOk, UbReadResponse \/ \E i \in DOMAIN reads : ExternalReadResponse(i),
         ~raced'
  PROVE  DataOk'
<1>1. CASE UbReadResponse
  <2>1. InFlight(reads, "Ub") # {} /\ reads \in Seq(ReadRec)
    BY <1>1 DEF UbReadResponse, Types, ReadT
  <2>2. Min(InFlight(reads, "Ub")) \in DOMAIN reads
    BY <2>1, QueueHead
  <2>3. PICK v \in Victims : ReadResponse(Min(InFlight(reads, "Ub")), v)
    BY <1>1 DEF UbReadResponse
  <2> QED BY <2>2, <2>3, ReadData
<1>2. ASSUME NEW i \in DOMAIN reads, ExternalReadResponse(i) PROVE DataOk'
  <2>1. PICK v \in Victims : ReadResponse(i, v)
    BY <1>2 DEF ExternalReadResponse
  <2> QED BY <2>1, ReadData
<1> QED BY <1>1, <1>2
-----------------------------------------------------------------------------
(* Every step keeps the data *)

\* flush_ready keeps the data.
LEMMA FlushData ==
  ASSUME Types, Types', IInv, Struct, DataOk, FlushStore, ~raced'
  PROVE  DataOk'
<1>1. DueEntries \subseteq Nat /\ DueEntries # {}
  <2>1. stores \in Seq(StoreRec)
    BY DEF Types, StoreT
  <2> HIDE DEF StoreRec
  <2> QED BY <2>1 DEF DueEntries, FlushStore
<1>2. PICK i \in DueEntries : i = Min(DueEntries)
  BY <1>1, MinFacts
<1>3. i \in DOMAIN stores /\ ReadyToFlush(stores[i])
  BY DEF DueEntries
<1>4. FlushHit(i) \/ FlushMiss(i)
  BY <1>2 DEF FlushStore
<1> QED BY <1>3, <1>4, FlushHitData, FlushMissData

\* Every step that meets no race keeps every byte reachable.
LEMMA DataStep ==
  ASSUME ZeroLine \notin Lines, Types, Types', IInv, LookedUpFirst, Struct, DataOk, [Next]_vars, ~raced'
  PROVE  DataOk'
<1>0. PipeFacts
  BY PipeNumbers
<1> HIDE DEF PipeFacts
<1>1. CASE UbReadResponse \/ \E i \in DOMAIN reads : ExternalReadResponse(i)
  BY <1>1, ReadsData
<1>2. ASSUME NEW i \in DOMAIN writes, ExternalWriteResponse(i) PROVE DataOk'
  BY <1>0, <1>2, ExternalWriteData
<1>3. CASE UbWriteResponse \/ ProcessDirectStores \/ FlushStore
  BY <1>0, <1>3, UbWriteData, ProcessData, FlushData
<1>4. CASE M2(consumed)
  BY <1>4, HitData, LoadMissData, StoreM2Data, DirectStoreData, CleanData DEF M2
<1>5. CASE TriggerFlush \/ AdvanceTimeouts
  BY <1>0, <1>5, TimersData
<1>6. CASE M1 \/ BlockM0 \/ DrainM0 \/ M0 \/ EndFlush \/ ReleaseMaintenance \/ ErrorReturn \/ Skip
           \/ UNCHANGED vars
  BY <1>0, <1>6, IdleData
<1>7. ASSUME NEW op \in Operations, Admit(op) PROVE DataOk'
  BY <1>0, <1>7, AdmitData
<1>8. ASSUME NEW stage \in {"M1", "M2"}, ReplayStage(stage) PROVE DataOk'
  BY <1>0, <1>8, IdleData
<1>9. ASSUME NEW accepts, SendReads(accepts) \/ SendWrites(accepts) PROVE DataOk'
  BY <1>0, <1>9, SendData
<1> QED BY <1>1, <1>2, <1>3, <1>4, <1>5, <1>6, <1>7, <1>8, <1>9 DEF Next

\* No request has been made: memory has the zeroes that no store has replaced.
LEMMA InitData == Init => DataOk
<1> SUFFICES ASSUME Init PROVE DataOk
  OBVIOUS
<1>1. /\ misses = <<>> /\ stores = <<>> /\ direct = <<>> /\ writes = <<>> /\ evict = <<>>
      /\ consumed = 0 /\ done = {} /\ results = <<>>
      /\ \A w \in 1..Ways : ~cache[w].valid
      /\ memory = [l \in Lines |-> [o \in Offsets |-> 0]]
  BY DEF Init, PipeInit, EmptyLine
<1>2. \A l : ~HasStore(l) /\ ~HasMiss(l) /\ ~HasWrite(l) /\ ~Evicted(l)
  BY <1>1 DEF HasStore, HasMiss, HasWrite, Evicted
<1>3. ASSUME NEW l \in Lines PROVE LineData(l)
  <2>1. \A o \in Offsets : Latest(l, o, 0, 0)
    BY DEF Latest
  <2>2. Full(l, memory[l])
    BY <1>1, <2>1 DEF Full
  <2>3. MemoryData(l)
    BY <1>2, <2>2, NoEntry DEF MemoryData
  <2> QED BY <1>1, <1>2, <2>3 DEF LineData, EntryStates, MissLoads, CopiesData, EntryData, WayData, EvictData,
                                  HeldData, WritingData, WritingWay
<1> QED BY <1>1, <1>3 DEF DataOk, DoneStores, Returned, TagFirst, DirectsKnown

\* Before a race.
DataInv == ~raced => DataOk

\* The data invariant holds throughout.
LEMMA DataHolds == ZeroLine \notin Lines => (Spec => []DataInv)
<1> SUFFICES ASSUME ZeroLine \notin Lines PROVE Spec => []DataInv
  OBVIOUS
<1>1. Init => DataInv
  BY InitData DEF DataInv
<1>2. Types /\ LookedUpFirst /\ IInv /\ Types' /\ StructInv /\ DataInv /\ [Next]_vars => DataInv'
  <2> SUFFICES ASSUME Types, LookedUpFirst, IInv, Types', StructInv, DataInv, [Next]_vars, ~raced'
               PROVE  DataOk'
    BY DEF DataInv
  <2>1. ~raced
    BY RacesAreKept
  <2>2. Struct /\ DataOk
    BY <2>1 DEF StructInv, DataInv
  <2> QED BY <2>2, DataStep
<1>3. Spec => [](Types /\ LookedUpFirst /\ IInv)
  BY TypesHold
<1>4. Spec => []StructInv
  BY UnitHoldsTogether
<1> QED BY <1>1, <1>2, <1>3, <1>4, PTL DEF Spec

\* The maximum of a set of numbers is its greatest member.
LEMMA MaxIs ==
  ASSUME NEW S, S \subseteq Nat, NEW x \in S, \A y \in S : y <= x
  PROVE  Max(S) = x
<1>1. \E z \in S : \A y \in S : z >= y
  BY SMT
<1>2. Max(S) \in S /\ \A y \in S : Max(S) >= y
  BY <1>1 DEF Max
<1>3. Max(S) \in Nat /\ x \in Nat /\ Max(S) >= x /\ Max(S) <= x
  BY <1>2
<1> QED BY <1>3

\* What Latest says is what LoadsSeeStores asks for.
LEMMA LatestIsMax ==
  ASSUME NEW n \in Nat, NEW l, NEW o, NEW x, Latest(l, o, n, x)
  PROVE  x = Max({0} \cup {s + 1 : s \in {t \in 0..n - 1 : WritesByte(t, l, o)}})
<1> DEFINE T == {t \in 0..n - 1 : WritesByte(t, l, o)}
           S == {0} \cup {s + 1 : s \in T}
<1>1. \A t \in T : t \in Nat /\ t < x
  BY DEF Latest
<1>2. x = 0 \/ \E s \in T : x = s + 1
  BY DEF Latest
<1>3. T \subseteq Nat
  BY <1>1
<1> HIDE DEF T
<1>4. S \subseteq Nat /\ x \in S
  BY <1>2, <1>3
<1>5. ASSUME NEW y \in S PROVE y <= x
  <2>1. x \in Nat
    BY <1>4
  <2>2. CASE y = 0
    BY <2>1, <2>2
  <2>3. CASE \E s \in T : y = s + 1
    <3>1. PICK s \in T : y = s + 1
      BY <2>3
    <3>2. s \in Nat /\ s < x
      BY <1>1
    <3> QED BY <2>1, <3>1, <3>2
  <2> QED BY <2>2, <2>3
<1> HIDE DEF S
<1>6. Max(S) = x
  BY <1>4, <1>5, MaxIs
<1> QED BY <1>6 DEF S, T

\* A load of one byte returns what the latest older store to that byte wrote,
\* for every program, number of ways and capacity and every order of answers,
\* as long as no lookup result went stale: from the store buffer, from a way,
\* from a refill before or after the entry's own write, or from memory.
THEOREM LoadsReturnLatest == ZeroLine \notin Lines => (Spec => []LoadsSeeStores)
<1> SUFFICES ASSUME ZeroLine \notin Lines PROVE Spec => []LoadsSeeStores
  OBVIOUS
<1>1. Types /\ IInv /\ DataInv => LoadsSeeStores
  <2> SUFFICES ASSUME Types, IInv, DataOk, NEW id \in DOMAIN results, NEW o \in Op(id).bytes, Op(id).bytes = {o},
                      ~Bypassed(Op(id).line)
               PROVE  results[id][o] = Max({0} \cup {s + 1 : s \in {t \in 0..id - 1 :
                                                                      WritesByte(t, Op(id).line, o)}})
    BY DEF DataInv, LoadsSeeStores
  <2>1. id \in Nat /\ id < admitted /\ PipeFacts
    BY PipeNumbers DEF DataOk, Returned, PipeFacts
  <2>2. o \in Offsets
    BY <2>1, OpFacts DEF Types
  <2>3. Latest(Op(id).line, o, id, results[id][o])
    BY <2>2 DEF DataOk, Returned, Returns
  <2> QED BY <2>1, <2>3, LatestIsMax
<1> QED BY <1>1, DataHolds, TypesHold, PTL

\* A byte that is up to date has the last store to it.
LEMMA LatestLast ==
  ASSUME admitted \in Nat, NEW s \in Nat, NEW n \in Nat, s < n, n <= admitted, NEW l, NEW o, NEW x,
         WritesByte(s, l, o), Latest(l, o, n, x), ~\E t \in s + 1..admitted - 1 : WritesByte(t, l, o)
  PROVE  x = s + 1
<1>1. s < x
  BY DEF Latest
<1>2. PICK t \in 0..n - 1 : WritesByte(t, l, o) /\ x = t + 1
  BY <1>1 DEF Latest
<1>3. t \notin s + 1..admitted - 1 /\ t \in Nat /\ t < admitted
  BY <1>2
<1> QED BY <1>1, <1>2, <1>3

\* Wherever a line is kept, its newest copy has what the store buffer has not.
LEMMA NewestBacked ==
  ASSUME Types, Struct, PipeFacts, NEW l \in Lines, CopiesData(l)
  PROVE  Backed(l, Newest(l)) \/ Copied(l, Newest(l)) \/ Full(l, Newest(l))
<1> DEFINE held == {w \in 1..Ways : /\ cache[w].line = l
                                    /\ \/ cache[w].valid /\ cache[w].dirty
                                       \/ \E i \in DOMAIN writes : writes[i].way = w
                                       \/ Ub(l) /\ HasWrite(l) /\ ~HasStore(l) /\ w = FindWay(l)}
<1>1. CASE held # {}
  <2>1. held \subseteq Nat
    OBVIOUS
  <2>2. PICK w \in held : w = Min(held)
    BY <1>1, <2>1, MinFacts
  <2>3. Newest(l) = cache[w].data
    BY <1>1, <2>2 DEF Newest
  <2>4. w \in 1..Ways /\ cache[w].line = l
    OBVIOUS
  <2>5. CASE cache[w].valid /\ cache[w].dirty
    BY <2>3, <2>4, <2>5 DEF CopiesData, WayData
  <2>6. ASSUME NEW i \in DOMAIN writes, writes[i].way = w PROVE Backed(l, Newest(l))
    <3>1. w # 0
      BY <2>4
    <3>2. writes[i].line = l
      BY <2>4, <2>6, <3>1 DEF Struct, WaysKept, WaysHeld
    <3> QED BY <2>3, <2>6, <3>1, <3>2 DEF CopiesData, HeldData
  <2>7. CASE Ub(l) /\ HasWrite(l) /\ ~HasStore(l) /\ w = FindWay(l)
    BY <2>3, <2>7 DEF CopiesData, WritingData, WritingWay, WritingBytes
  <2> QED BY <2>5, <2>6, <2>7
<1>2. CASE held = {}
  <2>1. CASE Evicted(l)
    <3>1. Newest(l) = evict[l[2]]
      BY <1>2, <2>1 DEF Newest, Evicted
    <3> QED BY <2>1, <3>1 DEF CopiesData, EvictData
  <2>2. CASE ~Evicted(l)
    <3>1. Newest(l) = memory[l]
      BY <1>2, <2>2 DEF Newest, Evicted
    <3>2. ~DirtyWay(l)
      BY <1>2 DEF DirtyWay
    <3>3. ~WayWritten(l)
      <4> SUFFICES ASSUME NEW i \in DOMAIN writes, writes[i].line = l, writes[i].way # 0 PROVE FALSE
        BY DEF WayWritten
      <4>1. cache[writes[i].way].line = l
        BY DEF Struct, WaysKept, WaysHeld
      <4>2. writes[i].way \in 1..Ways
        <5>1. writes[i].way \in 0..Ways
          BY QueueItems
        <5> QED BY <5>1, LsuAssumption
      <4> QED BY <1>2, <4>1, <4>2
    <3>4. ~WritingWay(l)
      <4> SUFFICES ASSUME WritingWay(l) PROVE FALSE
        OBVIOUS
      <4>1. Tagged(l)
        BY DEF WritingWay, Struct, UbWrites
      <4>2. FindWay(l) \in 1..Ways /\ cache[FindWay(l)].line = l
        BY <4>1, TagSearch
      <4> QED BY <1>2, <4>2 DEF WritingWay
    <3>5. InMemory(l)
      BY <2>2, <3>2, <3>3, <3>4 DEF InMemory
    <3> QED BY <3>1, <3>5 DEF CopiesData, MemoryData
  <2> QED BY <2>1, <2>2
<1> QED BY <1>1, <1>2

\* A store that has completed is in the newest copy of its line.
LEMMA CompletedIsKept ==
  ASSUME Types, IInv, Struct, DataOk, NEW s \in done, NEW o \in Op(s).bytes, Op(s).kind = "store",
         ~\E t \in s + 1..admitted - 1 : WritesByte(t, Op(s).line, o), ~Bypassed(Op(s).line)
  PROVE  Newest(Op(s).line)[o] = s + 1
<1>1. PipeFacts /\ consumed \in Nat /\ admitted \in Nat /\ consumed <= admitted
  BY PipeNumbers DEF PipeFacts
<1>2. s \in Nat /\ s < consumed /\ s < admitted
  <2>1. s \in Nat
    BY MaxRequestsAssumption DEF Types, DoneT, Requests
  <2>2. s < consumed
    BY DEF DataOk, DoneStores
  <2> QED BY <1>1, <2>1, <2>2
<1>3. PICK l \in Lines : l = Op(s).line /\ o \in Offsets
  BY <1>1, <1>2, OpFacts DEF Types
<1>4. HasStore(l) => Oldest(l) \in Nat /\ Oldest(l) < consumed /\ s < Oldest(l)
  <2>1. HasStore(l) => s < Oldest(l)
    BY <1>3 DEF DataOk, DoneStores
  <2> QED BY <2>1, OldestFacts
<1>5. CopiesData(l)
  BY <1>3 DEF DataOk, LineData
<1>6. PICK x : x = Newest(l)[o]
  OBVIOUS
<1>7. \E n \in Nat : s < n /\ n <= admitted /\ Latest(l, o, n, x)
  <2>1. Backed(l, Newest(l)) \/ Copied(l, Newest(l)) \/ Full(l, Newest(l))
    BY <1>1, <1>5, NewestBacked
  <2>2. Latest(l, o, Base(l), x) \/ Latest(l, o, CopyBase(l), x) \/ Latest(l, o, consumed, x)
    BY <1>3, <1>6, <2>1 DEF Backed, Copied, Full
  <2>3. Latest(l, o, consumed, x) \/ (HasStore(l) /\ Latest(l, o, Oldest(l), x))
    BY <2>2 DEF Base, CopyBase
  <2>4. HasStore(l) => Oldest(l) <= admitted
    BY <1>1, <1>4
  <2> QED BY <1>1, <1>2, <1>4, <2>3, <2>4
<1>8. PICK n \in Nat : s < n /\ n <= admitted /\ Latest(l, o, n, x)
  BY <1>7
<1>9. WritesByte(s, l, o)
  BY <1>3 DEF WritesByte
<1>10. x = s + 1
  BY <1>1, <1>2, <1>3, <1>8, <1>9, LatestLast
<1> QED BY <1>3, <1>6, <1>10

\* A completed store is never lost, and what the unit waits for keeps its source
\* or its owner: until a younger store to the byte exists, the value of a store
\* that left the store buffer is in a dirty or maintained way, in a way that a UB
\* write takes its bytes from, in evicted data, or in memory when there is none
\* of these.
THEOREM StoresAreKept == ZeroLine \notin Lines => (Spec => []StoresKept)
<1> SUFFICES ASSUME ZeroLine \notin Lines PROVE Spec => []StoresKept
  OBVIOUS
<1>1. Types /\ IInv /\ StructInv /\ DataInv => NoStoreLost
  <2> SUFFICES ASSUME Types, IInv, Struct, DataOk, NEW s \in done, NEW o \in Op(s).bytes, Op(s).kind = "store",
                      ~\E t \in s + 1..admitted - 1 : WritesByte(t, Op(s).line, o), ~Bypassed(Op(s).line)
               PROVE  Newest(Op(s).line)[o] = s + 1
    BY DEF StructInv, DataInv, NoStoreLost
  <2> QED BY CompletedIsKept
<1>2. NoStoreLost /\ PayloadKept => StoresKept
  BY DEF StoresKept
<1> QED BY <1>1, <1>2, DataHolds, UnitHoldsTogether, PayloadIsKept, TypesHold, PTL
-----------------------------------------------------------------------------
(* What a clean leaves behind *)

\* x is what a store to the byte wrote, none of those older than n left out; 0 when there is none.
Since(l, o, n, x) ==
  /\ x = 0 \/ \E s \in 0..consumed - 1 : WritesByte(s, l, o) /\ x = s + 1
  /\ \A t \in 0..n - 1 : WritesByte(t, l, o) => t < x

\* The bytes of an external line below the ways.
Under(l) == IF Evicted(l) THEN evict[l[2]] ELSE memory[l]
Reaches(l, n, d) == \A o \in Offsets : Since(l, o, n, d[o])

\* A clean that has left M2 covers the line.
Cleaned(l, c) == c \in Nat /\ c < consumed /\ CleanCovers(c, l)

\* A clean waits for the store buffer: every entry is of younger stores.
CleanStores ==
  \A l \in Lines : HasStore(l) => \A c \in Nat : c < consumed /\ Op(c).kind = "clean" => c < Oldest(l)

\* Only the lines of admitted requests are fetched or kept.
Touched(l) == \E k \in Nat : k < admitted /\ Op(k).line = l
LinesTouched == /\ \A l \in Lines : HasMiss(l) => Touched(l)
                /\ \A l \in Lines : Cached(l) => Touched(l)

\* The clean of a line that M0 has issued has found the way of the line.
CleanLooked ==
  maintActive /\ issued = consumed + 1 /\ Op(consumed).target = "Line" =>
    \A l \in Lines : CleanCovers(consumed, l) =>
      \A w \in 1..Ways : cache[w].valid /\ cache[w].line = l => lookup[consumed + 1] = w

\* The stores that a clean has covered are below the ways, unless a way is being written out.
CleanLine(l) ==
  External(l) /\ ~Bypassed(l) /\ ~WayWritten(l) => \A c \in Nat : Cleaned(l, c) => Reaches(l, c, Under(l))

CleanOk == CleanStores /\ LinesTouched /\ CleanLooked /\ \A l \in Lines : CleanLine(l)
CleanInv == ~raced => CleanOk

\* What has all stores of a line up to some point has those up to any earlier one.
LEMMA LatestSince ==
  ASSUME NEW n \in Nat, NEW m \in Nat, n <= m, consumed \in Nat, m <= consumed, NEW l, NEW o, NEW x,
         Latest(l, o, m, x)
  PROVE  Since(l, o, n, x)
<1>1. \A s \in 0..m - 1 : s \in 0..consumed - 1
  OBVIOUS
<1>2. \A t \in 0..n - 1 : t \in 0..m - 1
  OBVIOUS
<1> QED BY <1>1, <1>2 DEF Latest, Since

\* The same after a step.
LEMMA LatestSinceNext ==
  ASSUME NEW n \in Nat, NEW m \in Nat, n <= m, consumed' \in Nat, m <= consumed', NEW l, NEW o, NEW x,
         Latest(l, o, m, x)'
  PROVE  Since(l, o, n, x)'
<1>0. PICK k \in Nat : k = consumed'
  OBVIOUS
<1>5. m <= k /\ k \in Nat
  BY <1>0
<1>1. \A s \in 0..m - 1 : s \in 0..k - 1
  BY <1>5
<1>2. \A t \in 0..n - 1 : t \in 0..m - 1
  OBVIOUS
<1>3. x = 0 \/ \E s \in 0..k - 1 : WritesByte(s, l, o)' /\ x = s + 1
  BY <1>1 DEF Latest
<1>4. \A t \in 0..n - 1 : WritesByte(t, l, o)' => t < x
  BY <1>2 DEF Latest
<1> QED BY <1>0, <1>3, <1>4 DEF Since

\* Requests that are admitted or consumed meanwhile take nothing away.
LEMMA SinceNext ==
  ASSUME Goes, NEW n \in Nat, n <= consumed, NEW l, NEW o, NEW x, Since(l, o, n, x)
  PROVE  Since(l, o, n, x)'
<1>1. /\ SameOps /\ consumed \in Nat /\ consumed' \in Nat /\ admitted \in Nat /\ consumed <= consumed'
      /\ consumed <= admitted
  BY DEF Goes, PipeFacts
<1>2. PICK k \in Nat : k = consumed'
  BY <1>1
<1>8. consumed <= k /\ k \in Nat /\ consumed \in Nat /\ consumed <= admitted /\ admitted \in Nat
  BY <1>1, <1>2
<1>3. \A s \in 0..consumed - 1 : s \in Nat /\ s < admitted /\ s \in 0..k - 1
  BY <1>8
<1>4. \A s \in 0..consumed - 1 : WritesByte(s, l, o)' <=> WritesByte(s, l, o)
  BY <1>1, <1>3, WritesSame
<1>5. \A t \in 0..n - 1 : t \in 0..consumed - 1
  BY <1>1
<1>6. x = 0 \/ \E s \in 0..k - 1 : WritesByte(s, l, o)' /\ x = s + 1
  BY <1>3, <1>4 DEF Since
<1>7. \A t \in 0..n - 1 : WritesByte(t, l, o)' => t < x
  BY <1>4, <1>5 DEF Since
<1> QED BY <1>2, <1>6, <1>7 DEF Since

\* What has the stores that the store buffer does not hold has those older than a clean.
LEMMA BackedReaches ==
  ASSUME Types, Struct, PipeFacts, CleanStores, NEW l \in Lines, NEW c \in Nat, c < consumed, Op(c).kind = "clean",
         NEW d, Backed(l, d)
  PROVE  Reaches(l, c, d)
<1>1. \E m \in Nat : m = Base(l) /\ c <= m /\ m <= consumed
  <2>1. CASE HasStore(l)
    <3>1. Oldest(l) \in Nat /\ Oldest(l) < consumed /\ c < Oldest(l)
      BY <2>1, OldestFacts DEF CleanStores
    <3> QED BY <2>1, <3>1 DEF Base, PipeFacts
  <2>2. CASE ~HasStore(l)
    BY <2>2 DEF Base, PipeFacts
  <2> QED BY <2>1, <2>2
<1>2. PICK m \in Nat : m = Base(l) /\ c <= m /\ m <= consumed
  BY <1>1
<1>3. \A o \in Offsets : Latest(l, o, m, d[o])
  BY <1>2 DEF Backed
<1>4. consumed \in Nat
  BY DEF PipeFacts
<1> QED BY <1>2, <1>3, <1>4, LatestSince DEF Reaches

\* The same after a step.
LEMMA BackedReachesNext ==
  ASSUME Types', Struct', PipeFacts', CleanStores', NEW l \in Lines, NEW c \in Nat, c < consumed',
         Op(c)'.kind = "clean", NEW d, Backed(l, d)'
  PROVE  Reaches(l, c, d)'
<1>1. \E m \in Nat : m = Base(l)' /\ c <= m /\ m <= consumed'
  <2>1. CASE HasStore(l)'
    <3>1. PICK q : q = StoreEntry(l)'.requests
      OBVIOUS
    <3>2. q \in Seq(Requests) /\ q # <<>> /\ \A id \in ToSet(q) : id < consumed'
      <4>1. StoreT' /\ Entries'
        BY DEF Types, Struct
      <4>2. StoreEntry(l)' \in StoreRec
        <5>1. PICK i \in DOMAIN stores' : stores'[i].line = l
          BY <2>1 DEF HasStore
        <5>2. StoreIndex(l)' \in DOMAIN stores'
          BY <5>1 DEF StoreIndex
        <5> HIDE DEF StoreRec
        <5> QED BY <4>1, <5>2 DEF StoreT, StoreEntry
      <4>3. q \in Seq(Requests)
        BY <3>1, <4>2 DEF StoreRec
      <4> QED BY <2>1, <3>1, <4>1, <4>3 DEF Entries
    <3>3. Head(q) \in Nat /\ Head(q) < consumed'
      <4>1. Head(q) = q[1] /\ 1 \in DOMAIN q
        <5> HIDE DEF Requests
        <5> QED BY <3>2
      <4>2. q[1] \in Requests /\ q[1] \in ToSet(q)
        <5> HIDE DEF Requests
        <5> QED BY <3>2, <4>1 DEF ToSet
      <4> QED BY <3>2, <4>1, <4>2, MaxRequestsAssumption DEF Requests
    <3>4. Oldest(l)' = Head(q)
      BY <3>1 DEF Oldest
    <3>5. c < Oldest(l)'
      BY <2>1 DEF CleanStores
    <3>6. consumed' \in Nat
      BY DEF PipeFacts
    <3>7. Base(l)' = Head(q)
      BY <2>1, <3>4 DEF Base
    <3> QED BY <3>3, <3>4, <3>5, <3>6, <3>7
  <2>2. CASE ~HasStore(l)'
    BY <2>2 DEF Base, PipeFacts
  <2> QED BY <2>1, <2>2
<1>2. PICK m \in Nat : m = Base(l)' /\ c <= m /\ m <= consumed'
  BY <1>1
<1>3. \A o \in Offsets : Latest(l, o, m, d[o])'
  BY <1>2 DEF Backed, Latest
<1>4. consumed' \in Nat
  BY DEF PipeFacts
<1>5. \A o \in Offsets : Since(l, o, c, d[o])'
  BY <1>2, <1>3, <1>4, LatestSinceNext
<1> QED BY <1>5 DEF Reaches, Since

-----------------------------------------------------------------------------
(* Which steps change what *)

Answers == UbReadResponse \/ \E i \in DOMAIN reads : ExternalReadResponse(i)
Written == \E i \in DOMAIN writes : ExternalWriteResponse(i)
Admits == \E op \in Operations : Admit(op)
Replays == \E stage \in {"M1", "M2"} : ReplayStage(stage)
Timers == TriggerFlush \/ AdvanceTimeouts
Sends == \E accepts \in SUBSET {"Ub", "External"} : SendWrites(accepts)

\* The steps that change a part of the unit.
Moved ==
  /\ UNCHANGED <<ops, admitted>> \/ Admits
  /\ UNCHANGED consumed \/ M2(consumed)
  /\ UNCHANGED misses \/ UbWriteResponse \/ Answers \/ LoadMiss(consumed)
  /\ UNCHANGED stores \/ Timers \/ FlushStore \/ UbWriteResponse \/ Answers \/ LoadMiss(consumed)
     \/ StoreM2(consumed)
  /\ UNCHANGED cache \/ Answers \/ Written \/ FlushStore \/ Clean(consumed)
  /\ UNCHANGED evict \/ Answers \/ Written
  /\ UNCHANGED memory \/ UbWriteResponse \/ Written
  /\ UNCHANGED writes \/ UbWriteResponse \/ Answers \/ Written \/ ProcessDirectStores \/ FlushStore
     \/ Clean(consumed) \/ Sends
  /\ UNCHANGED lookup \/ Admits \/ DrainM0 \/ M0
  /\ UNCHANGED maintActive \/ M0 \/ ReleaseMaintenance \/ Clean(consumed)
  /\ UNCHANGED issued \/ M0 \/ Replays

\* Every step changes what it may.
LEMMA StepMoves == ASSUME [Next]_vars PROVE Moved
<1>1. CASE Admits
  BY <1>1 DEF Moved, Admits, Admit, AdmitRequests, buffers, storage, maint, queues
<1>2. CASE Timers
  BY <1>2 DEF Moved, Timers, TriggerFlush, AdvanceTimeouts, pipeVars, storage, maint, queues
<1>3. CASE UbWriteResponse
  BY <1>3 DEF Moved, UbWriteResponse, pipeVars, buffers, maint
<1>4. CASE Answers
  BY <1>4 DEF Moved, Answers, UbReadResponse, ExternalReadResponse, ReadResponse, pipeVars, maint, queues
<1>5. CASE Written
  BY <1>5 DEF Moved, Written, ExternalWriteResponse, pipeVars, buffers, maint
<1>6. CASE ProcessDirectStores
  BY <1>6 DEF Moved, ProcessDirectStores, pipeVars, buffers, storage, maint, queues
<1>7. CASE FlushStore
  BY <1>7 DEF Moved, FlushStore, FlushHit, FlushMiss, pipeVars, storage, maint, queues
<1>8. CASE EndFlush \/ ReleaseMaintenance
  BY <1>8 DEF Moved, EndFlush, ReleaseMaintenance, pipeVars, buffers, storage, maint, queues
<1>9. CASE M2(consumed)
  <2>1. CASE LoadHit(consumed) \/ PreloadHit(consumed) \/ DirectStoreM2(consumed)
    BY <1>9, <2>1 DEF Moved, LoadHit, PreloadHit, DirectStoreM2, AtM2, AdvanceM2, buffers, storage, maint, queues
  <2>2. CASE LoadMiss(consumed)
    BY <1>9, <2>2 DEF Moved, LoadMiss, AtM2, AdvanceM2, storage, maint, queues
  <2>3. CASE StoreM2(consumed)
    BY <1>9, <2>3 DEF Moved, StoreM2, AtM2, AdvanceM2, storage, maint, queues
  <2>4. CASE Clean(consumed)
    BY <1>9, <2>4 DEF Moved, Clean, AtM2, AdvanceM2, buffers
  <2> QED BY <1>9, <2>1, <2>2, <2>3, <2>4 DEF M2
<1>10. CASE Replays
  BY <1>10 DEF Moved, Replays, ReplayStage, Replay, buffers, storage, maint, queues
<1>11. CASE M1 \/ BlockM0 \/ DrainM0 \/ M0
  BY <1>11 DEF Moved, M1, BlockM0, DrainM0, M0, AdvanceM1, HoldM0, IssueM0, buffers, storage, maint, queues
<1>12. CASE \E accepts \in SUBSET {"Ub", "External"} : SendReads(accepts) \/ SendWrites(accepts)
  BY <1>12 DEF Moved, Sends, SendReads, SendWrites, PipeTick, pipeVars, buffers, storage, maint, queues
<1>13. CASE ErrorReturn \/ Skip
  BY <1>13 DEF Moved, ErrorReturn, Fail, Skip, Pass, pipeVars, buffers, storage, maint, queues
<1>14. CASE UNCHANGED vars
  BY <1>14 DEF Moved, vars, pipeVars, buffers, storage, maint, queues
<1> QED
  BY <1>1, <1>2, <1>3, <1>4, <1>5, <1>6, <1>7, <1>8, <1>9, <1>10, <1>11, <1>12, <1>13, <1>14
     DEF Next, Answers, Written, Admits, Replays, Timers

\* How far any step gets.
LEMMA StepGoes ==
  ASSUME Types, IInv, [Next]_vars
  PROVE  Goes /\ (consumed' = consumed \/ (M2(consumed) /\ consumed' = consumed + 1 /\ consumed < admitted
                                           /\ AdvanceM2 /\ UNCHANGED <<ops, admitted>>))
<1>0. PipeFacts /\ Moved
  BY PipeNumbers, StepMoves
<1>1. CASE Admits
  <2>1. PICK op \in Operations : Admit(op)
    BY <1>1 DEF Admits
  <2>2. ops' = Append(ops, op) /\ UNCHANGED consumed /\ admitted' = admitted + 1
    BY <2>1 DEF Admit, AdmitRequests
  <2>3. \A k \in Nat : k < admitted => k + 1 \in 1..Len(ops)
    BY <1>0 DEF PipeFacts, Types, OpsT
  <2>4. \A k \in 1..Len(ops) : Append(ops, op)[k] = ops[k]
    BY DEF Types, OpsT
  <2>5. SameOps
    BY <2>2, <2>3, <2>4 DEF SameOps, Op
  <2> QED BY <1>0, <2>2, <2>5 DEF Goes, PipeFacts
<1>2. CASE M2(consumed)
  <2>1. PICK kinds : AtM2(kinds)
    BY <1>2 DEF M2, LoadHit, PreloadHit, LoadMiss, StoreM2, DirectStoreM2, Clean
  <2>2. AdvanceM2 /\ UNCHANGED ops
    BY <2>1 DEF AtM2
  <2>3. UNCHANGED admitted
    BY <2>2 DEF AdvanceM2
  <2> QED BY <1>2, <2>1, <2>2, <2>3, M2Goes
<1>3. CASE UNCHANGED <<ops, admitted, consumed>>
  BY <1>0, <1>3, GoesStill
<1> QED BY <1>0, <1>1, <1>2, <1>3 DEF Moved

\* The clean that leaves M2 does so in Clean.
LEMMA CleanLeaves ==
  ASSUME M2(consumed), Op(consumed).kind = "clean"
  PROVE  Clean(consumed)
BY DEF M2, LoadHit, PreloadHit, LoadMiss, StoreM2, DirectStoreM2, AtM2

-----------------------------------------------------------------------------
(* A clean and the store buffer *)

\* Timers move no entry.
LEMMA TimersAlike ==
  ASSUME Types, Struct, Timers
  PROVE  \A l : AlikeStore(l)
<1>1. ASSUME NEW i \in DOMAIN stores
      PROVE  /\ stores'[i].line = stores[i].line /\ stores'[i].state = stores[i].state
             /\ stores'[i].bytes = stores[i].bytes /\ stores'[i].valid = stores[i].valid
             /\ stores'[i].requests = stores[i].requests
  <2>1. stores[i] \in StoreRec
    <3> HIDE DEF StoreRec
    <3> QED BY DEF Types, StoreT
  <2>2. \/ stores'[i] = stores[i]
        \/ stores'[i] = [stores[i] EXCEPT !.remaining = 0]
        \/ stores'[i] = [stores[i] EXCEPT !.remaining = IF @ = 0 THEN 0 ELSE @ - 1]
    BY DEF Timers, TriggerFlush, AdvanceTimeouts
  <2> HIDE DEF Data, Requests
  <2>3. DOMAIN stores[i] = {"line", "state", "hit", "forbidden", "remaining", "requests", "bytes", "valid"}
    BY <2>1 DEF StoreRec
  <2>4. stores'[i] = stores[i]
        \/ \E r : stores'[i] = [stores[i] EXCEPT !.remaining = r]
    BY <2>2
  <2> QED BY <2>1, <2>4 DEF StoreRec
<1>2. DOMAIN stores' = DOMAIN stores
  BY DEF Timers, TriggerFlush, AdvanceTimeouts
<1>3. /\ \A l : HasStore(l)' <=> HasStore(l)
      /\ \A l : HasStore(l) => \E i \in DOMAIN stores : /\ stores[i].line = l
                                                        /\ StoreEntry(l) = stores[i]
                                                        /\ StoreEntry(l)' = stores'[i]
  BY <1>1, <1>2, StoresUpdated DEF Struct
<1> QED BY <1>1, <1>3 DEF AlikeStore, AlikeBytes

\* An entry leaves; the others stay.
LEMMA RemovedAlike ==
  ASSUME Types, Struct, NEW k \in DOMAIN stores, stores' = RemoveAt(stores, k)
  PROVE  \A l : HasStore(l)' => AlikeStore(l)
<1>1. PICK line : line = stores[k].line
  OBVIOUS
<1>2. StoreT /\ StoresApart
  BY DEF Types, Struct
<1>3. /\ ~HasStore(line)'
      /\ \A l : l # line => /\ HasStore(l)' <=> HasStore(l)
                            /\ HasStore(l) => StoreEntry(l)' = StoreEntry(l)
  BY <1>1, <1>2, StoreRemoved
<1> QED BY <1>3, SameAlike DEF SameStore

\* The entry that is flushed leaves or starts its read; the others stay.
LEMMA FlushedAlike ==
  ASSUME Types, IInv, Struct, FlushStore
  PROVE  \A l : HasStore(l)' => AlikeBytes(l)
<1>1. DueEntries \subseteq Nat /\ DueEntries # {}
  <2>1. stores \in Seq(StoreRec)
    BY DEF Types, StoreT
  <2> HIDE DEF StoreRec
  <2> QED BY <2>1 DEF DueEntries, FlushStore
<1>2. PICK i \in DueEntries : i = Min(DueEntries)
  BY <1>1, MinFacts
<1>3. i \in DOMAIN stores /\ ReadyToFlush(stores[i])
  BY DEF DueEntries
<1>4. CASE FlushHit(i)
  <2>1. stores' = RemoveAt(stores, i)
    BY <1>4 DEF FlushHit
  <2> QED BY <1>3, <2>1, RemovedAlike DEF AlikeStore
<1>5. CASE FlushMiss(i)
  <2>1. PICK line : line = stores[i].line
    OBVIOUS
  <2>2. StoreEntry(line) = stores[i] /\ stores[i] \in StoreRec /\ HasStore(line)
    BY <1>3, <2>1, DueFacts
  <2> DEFINE x == [stores[i] EXCEPT !.state = "Fetching"]
  <2>3. x \in StoreRec
    BY <2>2, StoreRecUpdates
  <2>4. x.line = line /\ x.requests = stores[i].requests /\ x.valid = stores[i].valid /\ x.bytes = stores[i].bytes
    <3> HIDE DEF Data, Requests
    <3> QED BY <2>1, <2>2 DEF StoreRec
  <2>5. stores' = [stores EXCEPT ![i] = x]
    BY <1>5 DEF FlushMiss
  <2> HIDE DEF x, StoreRec
  <2>6. StoreT /\ StoresApart
    BY DEF Types, Struct
  <2>7. /\ HasStore(line)' /\ StoreEntry(line)' = x
        /\ \A l : l # line => /\ HasStore(l)' <=> HasStore(l)
                              /\ HasStore(l) => StoreEntry(l)' = StoreEntry(l)
    BY <1>3, <2>1, <2>3, <2>4, <2>5, <2>6, StoreReplaced
  <2>8. \A l : l # line => AlikeStore(l)
    BY <2>7, SameAlike DEF SameStore
  <2> QED BY <2>2, <2>4, <2>7, <2>8 DEF AlikeStore, AlikeBytes
<1> QED BY <1>2, <1>4, <1>5 DEF FlushStore

\* A read response is one of those that ReadEffect describes.
LEMMA AnswerArrives ==
  ASSUME Types, Types', IInv, Struct, Answers, ~raced'
  PROVE  \E i \in DOMAIN reads : \E v, merged : \E line \in Lines : \E old \in Lines \cup {ZeroLine} :
           Arrives(i, v, line, old, merged)
<1>1. \E i \in DOMAIN reads : \E v \in Victims : ReadResponse(i, v)
  <2>1. CASE UbReadResponse
    <3>1. InFlight(reads, "Ub") # {} /\ reads \in Seq(ReadRec)
      BY <2>1 DEF UbReadResponse, Types, ReadT
    <3>2. Min(InFlight(reads, "Ub")) \in DOMAIN reads
      BY <3>1, QueueHead
    <3> QED BY <2>1, <3>2 DEF UbReadResponse
  <2>2. CASE \E i \in DOMAIN reads : ExternalReadResponse(i)
    BY <2>2 DEF ExternalReadResponse
  <2> QED BY <2>1, <2>2 DEF Answers
<1>2. PICK i \in DOMAIN reads : \E v \in Victims : ReadResponse(i, v)
  BY <1>1
<1>3. PICK v \in Victims : ReadResponse(i, v)
  BY <1>2
<1>4. PICK line \in Lines : line = reads[i].line
  BY QueueItems
<1>5. PICK old \in Lines \cup {ZeroLine} : old = cache[v].line
  BY VictimFacts, WayTyped
<1>6. PICK merged : merged = Merged(i)
  OBVIOUS
<1>7. Arrives(i, v, line, old, merged)
  BY <1>3, <1>4, <1>5, <1>6, ReadEffect
<1> QED BY <1>7

\* The oldest store of an entry changes only when a store starts it.
LEMMA OldestStep ==
  ASSUME Types, Types', IInv, Struct, [Next]_vars, ~raced', NEW l \in Lines, HasStore(l)'
  PROVE  \/ HasStore(l) /\ Oldest(l)' = Oldest(l)
         \/ StoreM2(consumed) /\ Oldest(l)' = consumed
<1>0. AlikeBytes(l) => HasStore(l) /\ Oldest(l)' = Oldest(l)
  BY BaseKept DEF AlikeBytes
<1>1. CASE UNCHANGED stores
  BY <1>0, <1>1, AlikeFrames DEF AlikeStore
<1>2. CASE Timers
  BY <1>0, <1>2, TimersAlike DEF AlikeStore
<1>3. CASE FlushStore
  BY <1>0, <1>3, FlushedAlike
<1>4. CASE UbWriteResponse
  <2>1. CASE UNCHANGED stores
    BY <1>0, <2>1, AlikeFrames DEF AlikeStore
  <2>2. CASE \E line : HasStore(line) /\ stores' = RemoveAt(stores, StoreIndex(line))
    <3>1. PICK line : HasStore(line) /\ stores' = RemoveAt(stores, StoreIndex(line))
      BY <2>2
    <3>2. StoreIndex(line) \in DOMAIN stores
      BY <3>1, StoreFacts DEF Types
    <3> QED BY <1>0, <3>1, <3>2, RemovedAlike DEF AlikeStore
  <2> QED BY <1>4, <2>1, <2>2 DEF UbWriteResponse, buffers
<1>5. CASE Answers
  <2>1. PICK i \in DOMAIN reads : \E v, merged : \E line \in Lines : \E old \in Lines \cup {ZeroLine} :
               Arrives(i, v, line, old, merged)
    BY <1>5, AnswerArrives
  <2>2. PICK v, merged : \E line \in Lines : \E old \in Lines \cup {ZeroLine} : Arrives(i, v, line, old, merged)
    BY <2>1
  <2>3. PICK line \in Lines : \E old \in Lines \cup {ZeroLine} : Arrives(i, v, line, old, merged)
    BY <2>2
  <2>4. PICK old \in Lines \cup {ZeroLine} : Arrives(i, v, line, old, merged)
    BY <2>3
  <2>5. CASE l # line
    BY <1>0, <2>4, <2>5 DEF Arrives, AlikeStore
  <2>6. CASE l = line
    <3>1. HasStore(l) /\ StoreEntry(l)'.requests = StoreEntry(l).requests
      BY <2>4, <2>6 DEF Arrives
    <3> QED BY <3>1 DEF Oldest
  <2> QED BY <2>5, <2>6
<1>6. CASE LoadMiss(consumed)
  <2>1. PICK line \in Lines : line = Op(consumed).line
    <3>1. AtM2({"load", "preload"})
      BY <1>6 DEF LoadMiss
    <3> QED BY <3>1, M2Goes
  <2>2. AlikeBytes(line) /\ \A k : k # line => AlikeStore(k)
    BY <1>6, <2>1, LoadMissParts
  <2> QED BY <1>0, <2>2 DEF AlikeStore
<1>7. CASE StoreM2(consumed)
  <2>1. PICK line \in Lines : line = Op(consumed).line /\ consumed \in Nat
    <3>1. AtM2({"store"})
      BY <1>7 DEF StoreM2
    <3> QED BY <3>1, M2Goes
  <2>2. PICK id \in Nat : id = consumed
    BY <2>1
  <2>3. /\ \A k : k # line => AlikeStore(k)
        /\ HasStore(line) => Oldest(line)' = Oldest(line)
        /\ ~HasStore(line) => Oldest(line)' = id
    BY <1>7, <2>1, <2>2, StoreM2Effect
  <2> QED BY <1>0, <1>7, <2>2, <2>3 DEF AlikeStore
<1> QED BY <1>1, <1>2, <1>3, <1>4, <1>5, <1>6, <1>7, StepMoves DEF Moved

\* An entry that stays or starts is younger than every clean.
LEMMA CleanStoresStep ==
  ASSUME Types, Types', IInv, LookedUpFirst, Struct, CleanStores, [Next]_vars, ~raced'
  PROVE  CleanStores'
<1> SUFFICES ASSUME NEW l \in Lines, HasStore(l)', NEW c \in Nat, c < consumed', Op(c)'.kind = "clean"
             PROVE  c < Oldest(l)'
  BY DEF CleanStores
<1>1. /\ Goes /\ consumed \in Nat
      /\ consumed' = consumed \/ (M2(consumed) /\ consumed' = consumed + 1 /\ consumed < admitted /\ AdvanceM2
                                  /\ UNCHANGED <<ops, admitted>>)
  BY StepGoes DEF Goes, PipeFacts
<1>2. c \in Nat /\ (c < consumed \/ (c = consumed /\ M2(consumed)))
  BY <1>1
<1>3. c < admitted /\ Op(c).kind = "clean"
  <2>1. consumed <= admitted /\ admitted \in Nat
    BY <1>1 DEF Goes, PipeFacts
  <2>2. c < admitted
    BY <1>1, <1>2, <2>1
  <2> QED BY <1>1, <2>2 DEF Goes, SameOps
<1>4. CASE c = consumed /\ M2(consumed)
  <2>1. Clean(consumed)
    BY <1>3, <1>4, CleanLeaves
  <2>2. stores = <<>> /\ UNCHANGED stores
    BY <2>1, CleanEffect
  <2> QED BY <2>2 DEF HasStore
<1>5. CASE c < consumed
  <2>1. HasStore(l) => c < Oldest(l)
    BY <1>3, <1>5 DEF CleanStores
  <2> QED BY <1>5, <2>1, OldestStep
<1> QED BY <1>2, <1>4, <1>5

-----------------------------------------------------------------------------
(* Only the lines of the program are fetched *)

\* A line of the program stays one.
LEMMA TouchedNext ==
  ASSUME Goes, NEW l, Touched(l)
  PROVE  Touched(l)'
<1>1. PICK k \in Nat : k < admitted /\ Op(k).line = l
  BY DEF Touched
<1>2. SameOps /\ admitted \in Nat /\ admitted' \in Nat /\ admitted <= admitted'
  BY DEF Goes, PipeFacts
<1>3. k < admitted' /\ Op(k)' = Op(k)
  BY <1>1, <1>2 DEF SameOps
<1> QED BY <1>1, <1>3 DEF Touched

\* A line that is read has a buffer entry, so a request of the program has asked for it.
LEMMA ReadTouched ==
  ASSUME Types, Struct, PipeFacts, LinesTouched, NEW l \in Lines, HasRead(l)
  PROVE  Touched(l)
<1>1. ReadBy(l, "Miss") \/ ReadBy(l, "Store")
  BY ReadOwners
<1>2. CASE ReadBy(l, "Miss")
  BY <1>2 DEF Struct, Owners, LinesTouched
<1>3. CASE ReadBy(l, "Store")
  <2>1. HasStore(l)
    BY <1>3 DEF Struct, Owners
  <2>2. Oldest(l) \in Nat /\ Oldest(l) < consumed /\ Oldest(l) \in ToSet(StoreEntry(l).requests)
    BY <2>1, OldestFacts
  <2>3. Op(Oldest(l)).line = l
    BY <2>1, <2>2 DEF Struct, Entries
  <2>4. Oldest(l) < admitted
    BY <2>2 DEF PipeFacts
  <2> QED BY <2>2, <2>3, <2>4 DEF Touched
<1> QED BY <1>1, <1>2, <1>3

\* A miss is entered for the line of the request in M2.
LEMMA MissStep ==
  ASSUME Types, Types', IInv, Struct, [Next]_vars, ~raced', NEW l \in Lines, HasMiss(l)'
  PROVE  HasMiss(l) \/ (LoadMiss(consumed) /\ l = Op(consumed).line)
<1>1. CASE UNCHANGED misses
  BY <1>1 DEF HasMiss
<1>2. CASE UbWriteResponse
  <2>1. UNCHANGED misses \/ \E line : misses' = Drop(misses, line)
    BY <1>2 DEF UbWriteResponse, buffers
  <2> QED BY <2>1 DEF HasMiss, Drop
<1>3. CASE Answers
  <2>1. PICK i \in DOMAIN reads : \E v, merged : \E line \in Lines : \E old \in Lines \cup {ZeroLine} :
               Arrives(i, v, line, old, merged)
    BY <1>3, AnswerArrives
  <2> QED BY <2>1 DEF Arrives, MissFrom
<1>4. CASE LoadMiss(consumed)
  <2>1. PICK line \in Lines : line = Op(consumed).line
    <3>1. AtM2({"load", "preload"})
      BY <1>4 DEF LoadMiss
    <3> QED BY <3>1, M2Goes
  <2>2. \A k : k # line => MissFrom(k)
    BY <1>4, <2>1, LoadMissParts
  <2> QED BY <1>4, <2>1, <2>2 DEF MissFrom
<1> QED BY <1>1, <1>2, <1>3, <1>4, StepMoves DEF Moved

\* A flush leaves the tags alone.
LEMMA FlushWays ==
  ASSUME Types, IInv, Struct, FlushStore, ~raced'
  PROVE  \A w \in 1..Ways : cache'[w].line = cache[w].line /\ cache'[w].valid = cache[w].valid
<1> HIDE DEF StoreRec, WriteRec, WayRec, Data, Requests
<1>1. PICK i : FlushHit(i) \/ FlushMiss(i)
  BY DEF FlushStore
<1>2. CASE FlushMiss(i)
  BY <1>2 DEF FlushMiss, storage
<1>3. CASE FlushHit(i)
  <2>1. PICK way : way = FindWay(stores[i].line)
    OBVIOUS
  <2>2. way # 0 /\ cache' = FlushedCache(stores[i], way, way)
    BY <1>3, <2>1 DEF FlushHit
  <2>3. way \in 1..Ways
    BY <2>1, <2>2, TagSearch
  <2> DEFINE c == [cache[way] EXCEPT !.data = Merge(stores[i], @)]
             written == [cache EXCEPT ![way] = c]
  <2>4. cache[way] \in WayRec /\ cache \in [1..Ways -> WayRec]
    BY <2>3, WayTyped DEF Types, CacheT
  <2>5. written = [cache EXCEPT ![way].data = Merge(stores[i], @)]
    BY <2>3, <2>4
  <2>6. c.line = cache[way].line /\ c.valid = cache[way].valid /\ DOMAIN c = {"line", "valid", "dirty", "data"}
    BY <2>4 DEF WayRec
  <2>7. DOMAIN written = 1..Ways /\ written[way] = c /\ \A w \in 1..Ways : w # way => written[w] = cache[w]
    BY <2>3, <2>4
  <2> HIDE DEF c, written
  <2>8. cache' = [written EXCEPT ![way].dirty = TRUE] \/ cache' = written
    BY <2>2, <2>5 DEF FlushedCache
  <2>9. CASE cache' = [written EXCEPT ![way].dirty = TRUE]
    <3>1. cache'[way] = [c EXCEPT !.dirty = TRUE] /\ \A w \in 1..Ways : w # way => cache'[w] = cache[w]
      BY <2>3, <2>7, <2>9
    <3>2. cache'[way].line = c.line /\ cache'[way].valid = c.valid
      BY <2>6, <3>1
    <3> QED BY <2>6, <3>1, <3>2
  <2>10. CASE cache' = written
    BY <2>3, <2>6, <2>7, <2>10
  <2> QED BY <2>8, <2>9, <2>10
<1> QED BY <1>1, <1>2, <1>3

\* The way that a maintenance write empties is tagged with line 0; other external writes leave the ways alone.
LEMMA WrittenWays ==
  ASSUME Types, Struct, Written
  PROVE  \A w \in 1..Ways : cache'[w] = cache[w] \/ cache'[w].line = ZeroLine
<1>1. PICK i \in DOMAIN writes : ExternalWriteResponse(i)
  BY DEF Written
<1>2. CASE UNCHANGED cache
  BY <1>2
<1>3. CASE cache' = [cache EXCEPT ![writes[i].way].line = ZeroLine, ![writes[i].way].valid = TRUE,
                                  ![writes[i].way].dirty = FALSE]
           /\ writes[i].way # 0
  <2>1. PICK way \in 1..Ways : way = writes[i].way
    BY <1>3, QueueItems, LsuAssumption
  <2>2. cache[way] \in WayRec /\ cache \in [1..Ways -> WayRec]
    BY WayTyped DEF Types, CacheT
  <2>3. cache' = [cache EXCEPT ![way].line = ZeroLine, ![way].valid = TRUE, ![way].dirty = FALSE]
    BY <1>3, <2>1
  <2> HIDE DEF Data
  <2> QED BY <2>2, <2>3 DEF WayRec
<1> QED BY <1>1, <1>2, <1>3 DEF ExternalWriteResponse

\* A way takes a line when its read is answered.
LEMMA WayStep ==
  ASSUME ZeroLine \notin Lines, Types, Types', IInv, LookedUpFirst, Struct, [Next]_vars, ~raced',
         NEW l \in Lines, Cached(l)'
  PROVE  Cached(l) \/ HasRead(l)
<1>0. PICK w \in 1..Ways : cache'[w].valid /\ cache'[w].line = l
  BY DEF Cached
<1>1. CASE UNCHANGED cache
  BY <1>0, <1>1 DEF Cached
<1>2. CASE Answers
  <2>1. PICK i \in DOMAIN reads : \E v, merged : \E line \in Lines : \E old \in Lines \cup {ZeroLine} :
               Arrives(i, v, line, old, merged)
    BY <1>2, AnswerArrives
  <2>2. PICK v, merged : \E line \in Lines : \E old \in Lines \cup {ZeroLine} : Arrives(i, v, line, old, merged)
    BY <2>1
  <2>3. PICK line \in Lines : \E old \in Lines \cup {ZeroLine} : Arrives(i, v, line, old, merged)
    BY <2>2
  <2>4. /\ HasRead(line) /\ (Refills(i) => cache'[v].line = line)
        /\ (w # v \/ ~Refills(i) => cache'[w] = cache[w])
    BY <2>3 DEF Arrives
  <2> QED BY <1>0, <2>4 DEF Cached
<1>3. CASE Written
  BY <1>0, <1>3, WrittenWays DEF Cached
<1>4. CASE FlushStore
  BY <1>0, <1>4, FlushWays DEF Cached
<1>5. CASE Clean(consumed)
  BY <1>0, <1>5, CleanEffect DEF Cached
<1> QED BY <1>1, <1>2, <1>3, <1>4, <1>5, StepMoves DEF Moved

\* Every line that is fetched or kept is one of the program's.
LEMMA TouchedStep ==
  ASSUME ZeroLine \notin Lines, Types, Types', IInv, LookedUpFirst, Struct, LinesTouched, [Next]_vars, ~raced'
  PROVE  LinesTouched'
<1>0. Goes /\ PipeFacts
  BY StepGoes, PipeNumbers
<1>1. ASSUME NEW l \in Lines, HasMiss(l)' PROVE Touched(l)'
  <2>1. CASE HasMiss(l)
    BY <1>0, <2>1, TouchedNext DEF LinesTouched
  <2>2. CASE LoadMiss(consumed) /\ l = Op(consumed).line
    <3>1. AtM2({"load", "preload"})
      BY <2>2 DEF LoadMiss
    <3>2. consumed \in Nat /\ consumed < admitted
      BY <3>1, M2Goes
    <3>3. Touched(l)
      BY <2>2, <3>2 DEF Touched
    <3> QED BY <1>0, <3>3, TouchedNext
  <2> QED BY <1>1, <2>1, <2>2, MissStep
<1>2. ASSUME NEW l \in Lines, Cached(l)' PROVE Touched(l)'
  <2>1. Cached(l) \/ HasRead(l)
    BY <1>2, WayStep
  <2>2. Touched(l)
    BY <1>0, <2>1, ReadTouched DEF LinesTouched
  <2> QED BY <1>0, <2>2, TouchedNext
<1> QED BY <1>1, <1>2 DEF LinesTouched

-----------------------------------------------------------------------------
(* The way that a clean of one line finds *)

\* What a clean covers after a step it covered before.
LEMMA CoversBefore ==
  ASSUME Goes, NEW c \in Nat, c < admitted, NEW l, CleanCovers(c, l)'
  PROVE  CleanCovers(c, l)
<1>1. SameOps /\ admitted \in Nat /\ admitted' \in Nat /\ admitted <= admitted'
  BY DEF Goes, PipeFacts
<1>2. Op(c)' = Op(c) /\ External(l)' = External(l)
  BY <1>1 DEF SameOps, External
<1>3. ASSUME NEW k \in 0..admitted - 1, Ub(Op(k).line), Op(k).line[2] = l[2]
      PROVE  \E n \in 0..admitted' - 1 : Ub(Op(n)'.line) /\ Op(n)'.line[2] = l[2]
  <2>1. PICK m \in Nat : m = admitted'
    BY <1>1
  <2>2. m \in Nat /\ admitted <= m /\ admitted \in Nat
    BY <1>1, <2>1
  <2>3. k \in 0..m - 1 /\ k \in Nat /\ k < admitted
    BY <2>2
  <2>4. Op(k)' = Op(k)
    BY <1>1, <2>3 DEF SameOps
  <2> QED BY <1>3, <2>1, <2>3, <2>4
<1> QED BY <1>2, <1>3 DEF CleanCovers, Ub, External

\* M0 finds the line of a clean in its only way: the unit is empty and no UB line has the address.
LEMMA CleanIssued ==
  ASSUME ZeroLine \notin Lines, Types, IInv, Struct, LinesTouched, M0, Op(issued).kind = "clean",
         Op(issued).target = "Line", NEW l \in Lines, CleanCovers(issued, l),
         NEW w \in 1..Ways, cache[w].valid, cache[w].line = l
  PROVE  issued = consumed /\ lookup'[issued + 1] = w
<1>0. PipeFacts /\ issued < admitted
  BY PipeNumbers, M0Request DEF M0, IssueM0
<1>1. issued = consumed
  <2>1. m1 = <<>> /\ m2 = <<>>
    BY DEF M0, NeedsDrain
  <2>2. issued = consumed + Len(m2) + Len(m1)
    BY DEF IInv, InFlightInOrder
  <2>3. Len(m1) = 0 /\ Len(m2) = 0
    BY <2>1
  <2> QED BY <1>0, <2>2, <2>3 DEF PipeFacts
<1>2. External(l) /\ Op(issued).line = l /\ ~\E k \in 0..admitted - 1 : Ub(Op(k).line) /\ Op(k).line[2] = l[2]
  BY DEF CleanCovers, External
<1>3. PICK v : v = LookupMaintenance(l)
  OBVIOUS
<1>4. v # 0 /\ v \in 1..Ways /\ cache[v].valid /\ cache[v].line[2] = l[2]
  BY <1>3, MaintenanceSearch
<1>5. cache[v].line \in Lines \cup {ZeroLine}
  BY <1>4, WayTyped
<1>6. External(cache[v].line)
  <2>1. CASE cache[v].line = ZeroLine
    BY <2>1, LineFacts
  <2>2. CASE cache[v].line \in Lines
    <3>1. Touched(cache[v].line)
      BY <1>4, <2>2 DEF LinesTouched, Cached
    <3>2. PICK k \in Nat : k < admitted /\ Op(k).line = cache[v].line
      BY <3>1 DEF Touched
    <3>3. k \in 0..admitted - 1
      BY <1>0, <3>2 DEF PipeFacts
    <3>4. ~Ub(cache[v].line)
      BY <1>2, <1>4, <3>2, <3>3
    <3> QED BY <2>2, <3>4, LineFacts
  <2> QED BY <1>5, <2>1, <2>2
<1>7. cache[v].line = l
  BY <1>2, <1>4, <1>5, <1>6, SameAddress
<1>8. v = w
  BY <1>4, <1>7 DEF Struct, OneCopy
<1>9. lookup' = [lookup EXCEPT ![issued + 1] = v]
  BY <1>2, <1>3, <1>4 DEF M0, LookedUp
<1>10. issued + 1 \in DOMAIN lookup
  BY <1>0 DEF PipeFacts, Types, OpsT
<1> QED BY <1>1, <1>8, <1>9, <1>10

\* While an issued clean waits for M2 the unit stands still.
LEMMA CleanWaits ==
  ASSUME Types, Types', IInv, LookedUpFirst, Struct, [Next]_vars, ~raced', ~M0, maintActive', issued' = consumed' + 1
  PROVE  /\ maintActive /\ issued = consumed + 1 /\ UNCHANGED <<consumed, cache>>
         /\ lookup'[consumed + 1] = lookup[consumed + 1]
<1>0. PipeFacts /\ Moved
  BY PipeNumbers, StepMoves
<1>1. ~Clean(consumed)
  <2> SUFFICES ASSUME Clean(consumed) PROVE FALSE
    OBVIOUS
  <2>1. AtM2({"clean"})
    BY CleanParts
  <2>2. consumed < issued /\ Op(consumed).kind = "clean" /\ consumed' = consumed + 1 /\ UNCHANGED issued
    BY <2>1, AtM2Facts DEF AdvanceM2
  <2>3. consumed \in consumed..issued - 1
    BY <1>0, <2>2 DEF PipeFacts
  <2>4. issued <= consumed + 1
    BY <2>2, <2>3 DEF Struct, Maintained
  <2> QED BY <1>0, <2>2, <2>4 DEF PipeFacts
<1>2. maintActive
  BY <1>0, <1>1 DEF Moved, ReleaseMaintenance
<1>3. /\ issued <= consumed + 1 /\ stores = <<>>
      /\ issued = consumed + 1 => Op(consumed).kind = "clean"
  BY <1>2 DEF Struct, Maintained
<1>4. ~Replays
  <2> SUFFICES ASSUME NEW stage \in {"M1", "M2"}, ReplayStage(stage) PROVE FALSE
    BY DEF Replays
  <2>1. issued' = HeadRequest(stage) /\ Hazard(HeadRequest(stage)) /\ UNCHANGED consumed
    BY DEF ReplayStage, Replay
  <2>2. HeadRequest(stage) < issued
    <3>1. stage = "M1" => m1 # <<>> /\ HeadRequest(stage) = Head(m1).request
      BY DEF ReplayStage, Replay, Evaluates, HeadReady, HasHead, HeadRequest
    <3>2. stage = "M2" => m2 # <<>> /\ HeadRequest(stage) = Head(m2).request
      BY DEF ReplayStage, Replay, Evaluates, HeadReady, HasHead, HeadRequest
    <3> QED BY <3>1, <3>2, HeadIssued
  <2> QED BY <1>0, <1>3, <2>1, <2>2 DEF PipeFacts
<1>5. UNCHANGED issued
  BY <1>0, <1>4 DEF Moved
<1>6. UNCHANGED consumed
  <2>1. consumed' = consumed \/ consumed' = consumed + 1
    BY StepGoes
  <2> QED BY <1>0, <1>3, <1>5, <2>1 DEF PipeFacts
<1>7. issued = consumed + 1
  BY <1>5, <1>6
<1>8. UNCHANGED cache
  <2>1. ~Answers
    <3> SUFFICES ASSUME Answers PROVE FALSE
      OBVIOUS
    <3>1. PICK i \in DOMAIN reads : \E v, merged : \E line \in Lines : \E old \in Lines \cup {ZeroLine} :
                 Arrives(i, v, line, old, merged)
      BY AnswerArrives
    <3> QED BY <1>2, <3>1 DEF Arrives
  <2>2. ~FlushStore
    BY <1>3 DEF FlushStore, DueEntries
  <2>3. ASSUME Written PROVE UNCHANGED cache
    <3>1. PICK i \in DOMAIN writes : ExternalWriteResponse(i)
      BY <2>3 DEF Written
    <3>2. writes[i].way = 0
      BY <1>0, <1>7 DEF Struct, WaysKept, WaysHeld, PipeFacts
    <3> QED BY <3>1, <3>2 DEF ExternalWriteResponse
  <2> QED BY <1>0, <1>1, <2>1, <2>2, <2>3 DEF Moved
<1>9. lookup'[consumed + 1] = lookup[consumed + 1]
  <2>1. CASE Admits
    <3>1. PICK op \in Operations : Admit(op)
      BY <2>1 DEF Admits
    <3>2. lookup' = Append(lookup, NotLooked) /\ consumed + 1 \in 1..Len(lookup) /\ lookup \in Seq(NotLooked..Ways)
      BY <1>0, <1>7, <3>1 DEF Admit, PipeFacts, Types, OpsT
    <3> HIDE DEF NotLooked
    <3> QED BY <3>2
  <2>2. ~DrainM0
    BY <1>2 DEF DrainM0
  <2> QED BY <1>0, <2>1, <2>2 DEF Moved
<1> QED BY <1>2, <1>6, <1>7, <1>8, <1>9

\* The clean that M0 has issued knows the way of its line.
LEMMA CleanLookedStep ==
  ASSUME ZeroLine \notin Lines, Types, Types', IInv, LookedUpFirst, Struct, CleanOk, [Next]_vars, ~raced'
  PROVE  CleanLooked'
<1> SUFFICES ASSUME maintActive', issued' = consumed' + 1, Op(consumed)'.target = "Line",
                    NEW l \in Lines, CleanCovers(consumed, l)',
                    NEW w \in 1..Ways, cache'[w].valid, cache'[w].line = l
             PROVE  lookup'[consumed' + 1] = w
  BY DEF CleanLooked
<1>0. Goes /\ PipeFacts
  BY StepGoes, PipeNumbers
<1>1. CASE M0
  <2>1. PICK c \in Nat : c = issued
    BY <1>0 DEF PipeFacts
  <2>2. c < admitted
    BY <2>1, <1>1, M0Request DEF M0, IssueM0
  <2>3. UNCHANGED <<consumed, cache, ops>> /\ issued' = issued + 1 /\ maintActive' = (Op(issued).kind = "clean")
    BY <1>1 DEF M0, IssueM0, storage
  <2>4. consumed' = c
    BY <1>0, <2>1, <2>3 DEF PipeFacts
  <2>5. CleanCovers(c, l)' /\ Op(c)'.target = "Line" /\ Op(c)' = Op(c)
    BY <2>3, <2>4 DEF CleanCovers, Op
  <2>6. CleanCovers(issued, l) /\ Op(issued).target = "Line" /\ Op(issued).kind = "clean"
    BY <1>0, <2>1, <2>2, <2>3, <2>5, CoversBefore
  <2>7. lookup'[issued + 1] = w
    BY <1>1, <2>3, <2>6, CleanIssued DEF CleanOk
  <2> QED BY <2>1, <2>4, <2>7
<1>2. CASE ~M0
  <2>1. /\ maintActive /\ issued = consumed + 1 /\ UNCHANGED <<consumed, cache>>
        /\ lookup'[consumed + 1] = lookup[consumed + 1]
    BY <1>2, CleanWaits
  <2>2. PICK c \in Nat : c = consumed /\ c < admitted
    BY <1>0, <2>1 DEF PipeFacts
  <2>3. CleanCovers(c, l)' /\ Op(c)'.target = "Line"
    BY <2>1, <2>2 DEF CleanCovers, Op
  <2>4. CleanCovers(c, l) /\ Op(c) = Op(c)'
    BY <1>0, <2>2, <2>3, CoversBefore DEF Goes, SameOps
  <2> QED BY <2>1, <2>2, <2>3, <2>4 DEF CleanOk, CleanLooked
<1> QED BY <1>1, <1>2

-----------------------------------------------------------------------------
(* What a clean has written stays below the ways *)

\* An external write of the line is answered.
LineWritten(l) == \E k \in DOMAIN writes : ExternalWriteResponse(k) /\ writes[k].line = l

\* The write of an invalidated way waits for its answer.
LEMMA WayWrittenStep ==
  ASSUME Types, Types', IInv, LookedUpFirst, Struct, [Next]_vars, ~raced', NEW l \in Lines, External(l),
         WayWritten(l), ~LineWritten(l)
  PROVE  WayWritten(l)'
<1> HIDE DEF WriteRec
<1>0. PICK i \in DOMAIN writes : writes[i].line = l /\ writes[i].way # 0
  BY DEF WayWritten
<1>1. maintActive /\ issued = consumed /\ stores = <<>> /\ direct = <<>>
  BY <1>0 DEF Struct, WaysKept, WaysHeld, Maintained
<1>2. WriteT /\ WriteT' /\ writes \in Seq(WriteRec) /\ ~Ub(l)
  BY LineFacts DEF Types, WriteT
<1>3. ASSUME NEW k \in DOMAIN writes, writes' = RemoveAt(writes, k), writes[k].line # l PROVE WayWritten(l)'
  <2>1. \E j \in DOMAIN writes' : writes'[j] = writes[i]
    BY <1>0, <1>2, <1>3, RemoveMembers
  <2> QED BY <1>0, <2>1 DEF WayWritten
<1>4. CASE UNCHANGED writes
  BY <1>4 DEF WayWritten
<1>5. CASE UbWriteResponse
  <2>1. PICK k : k = Min(InFlight(writes, "Ub"))
    OBVIOUS
  <2>2. k \in InFlight(writes, "Ub") /\ k \in DOMAIN writes
    BY <1>2, <1>5, <2>1, QueueHead DEF UbWriteResponse
  <2>3. writes' = RemoveAt(writes, k) /\ writes[k].line # l
    BY <1>2, <1>5, <2>1, <2>2 DEF UbWriteResponse, InFlight, Ub
  <2> QED BY <1>3, <2>2, <2>3
<1>6. CASE Answers
  <2>1. PICK k \in DOMAIN reads : \E v, merged : \E line \in Lines : \E old \in Lines \cup {ZeroLine} :
               Arrives(k, v, line, old, merged)
    BY <1>6, AnswerArrives
  <2> QED BY <1>1, <2>1 DEF Arrives
<1>7. CASE Written
  <2>1. PICK k \in DOMAIN writes : ExternalWriteResponse(k)
    BY <1>7 DEF Written
  <2>2. writes' = RemoveAt(writes, k) /\ writes[k].line # l
    BY <2>1 DEF ExternalWriteResponse, LineWritten
  <2> QED BY <1>3, <2>2
<1>8. CASE ProcessDirectStores
  <2>1. writes' = writes \o [j \in DOMAIN direct |-> WriteOf(direct[j].line, 0)]
    BY <1>8 DEF ProcessDirectStores
  <2>2. [j \in DOMAIN direct |-> WriteOf(direct[j].line, 0)] = <<>>
    BY <1>1
  <2>3. writes' = writes
    BY <1>2, <2>1, <2>2
  <2> QED BY <2>3 DEF WayWritten
<1>9. CASE FlushStore
  BY <1>1, <1>9 DEF FlushStore, DueEntries
<1>10. CASE Clean(consumed)
  BY <1>10, CleanEffect
<1>11. CASE Sends
  <2>1. PICK accepts : SendWrites(accepts)
    BY <1>11 DEF Sends
  <2>2. writes' = Dispatched(writes, WriteCapacity, accepts)
    BY <2>1 DEF SendWrites
  <2>3. \A x \in WriteRec : /\ Launched(x) \in WriteRec /\ Launched(Launched(x)) = Launched(x)
                            /\ Launched(x).line = x.line /\ Launched(x).way = x.way
    BY DEF Launched, WriteRec
  <2>4. \A x \in WriteRec : Launched(x) \in WriteRec /\ Launched(Launched(x)) = Launched(x)
    BY <2>3
  <2>5. DOMAIN writes' = DOMAIN writes
        /\ \A j \in DOMAIN writes : writes'[j] = writes[j] \/ writes'[j] = Launched(writes[j])
    BY <1>2, <2>2, <2>4, DispatchedFacts
  <2>6. writes[i] \in WriteRec
    BY <1>0, <1>2
  <2>7. writes'[i].line = l /\ writes'[i].way # 0
    BY <1>0, <2>3, <2>5, <2>6
  <2> QED BY <1>0, <2>5, <2>7 DEF WayWritten
<1> QED BY <1>4, <1>5, <1>6, <1>7, <1>8, <1>9, <1>10, <1>11, StepMoves DEF Moved

\* Only the answer of an external write of the line brings it to memory.
LEMMA UnderStep ==
  ASSUME Types, Types', IInv, Struct, [Next]_vars, ~raced', NEW l \in Lines, External(l),
         ~LineWritten(l), ~Evicted(l)'
  PROVE  ~Evicted(l) /\ memory'[l] = memory[l]
<1>0. ~Ub(l)
  BY LineFacts
<1>1. ~Evicted(l)
  <2>1. CASE UNCHANGED evict
    BY <2>1 DEF Evicted
  <2>2. CASE Answers
    <3>1. PICK k \in DOMAIN reads : \E v, merged : \E line \in Lines : \E old \in Lines \cup {ZeroLine} :
                 Arrives(k, v, line, old, merged)
      BY <2>2, AnswerArrives
    <3>2. PICK v : \E merged : \E line \in Lines : \E old \in Lines \cup {ZeroLine} :
                 Arrives(k, v, line, old, merged)
      BY <3>1
    <3>3. PICK old : \E merged : \E line \in Lines : Arrives(k, v, line, old, merged)
      BY <3>2
    <3>4. (Evicts(k, v) /\ l = old) \/ AlikeEvict(l)
      BY <3>3 DEF Arrives
    <3>5. Evicts(k, v) => Evicted(old)'
      BY <3>3 DEF Arrives
    <3> QED BY <3>4, <3>5 DEF AlikeEvict, Evicted
  <2>3. CASE Written
    <3>1. PICK k \in DOMAIN writes : ExternalWriteResponse(k)
      BY <2>3 DEF Written
    <3>2. PICK line \in Lines : line = writes[k].line /\ line # l /\ External(line)
      <4>1. writes[k].line \in Lines /\ writes[k].line # l
        BY <3>1 DEF Struct, WaysKept, WritesKnown, LineWritten
      <4> QED BY <3>1, <4>1 DEF ExternalWriteResponse, InFlight, External
    <3>3. line[2] # l[2]
      BY <3>2, SameAddress
    <3>4. UNCHANGED evict \/ evict' = Drop(evict, line[2])
      BY <3>1, <3>2 DEF ExternalWriteResponse
    <3> QED BY <3>3, <3>4 DEF Evicted, Drop
  <2> QED BY <2>1, <2>2, <2>3, StepMoves DEF Moved
<1>2. memory'[l] = memory[l]
  <2>0. memory \in [Lines -> Data]
    BY DEF Types, MemoryT
  <2> HIDE DEF Data
  <2>1. CASE UNCHANGED memory
    BY <2>1
  <2>2. CASE UbWriteResponse
    <3>1. PICK k : k = Min(InFlight(writes, "Ub"))
      OBVIOUS
    <3>2. k \in InFlight(writes, "Ub")
      <4>1. writes \in Seq(WriteRec)
        BY DEF Types, WriteT
      <4> QED BY <2>2, <3>1, <4>1, QueueHead DEF UbWriteResponse
    <3>3. PICK line : line = writes[k].line /\ line # l
      BY <1>0, <3>2 DEF InFlight, Ub
    <3>4. \E d : memory' = [memory EXCEPT ![line] = d]
      BY <2>2, <3>1, <3>3 DEF UbWriteResponse
    <3> QED BY <2>0, <3>3, <3>4
  <2>3. CASE Written
    <3>1. PICK k \in DOMAIN writes : ExternalWriteResponse(k)
      BY <2>3 DEF Written
    <3>2. PICK line : line = writes[k].line /\ line # l
      BY <3>1 DEF LineWritten
    <3>3. \E d : memory' = [memory EXCEPT ![line] = d]
      BY <3>1, <3>2 DEF ExternalWriteResponse
    <3> QED BY <2>0, <3>2, <3>3
  <2> QED BY <2>1, <2>2, <2>3, StepMoves DEF Moved
<1> QED BY <1>1, <1>2

\* What the answer of an external write brings to memory has what the store buffer does not hold.
LEMMA ExternalWritten ==
  ASSUME Types, PipeFacts, Struct, DataOk, NEW l \in Lines, LineWritten(l), ~Bypassed(l)
  PROVE  \E d : memory'[l] = d /\ Backed(l, d)
<1>1. PICK k \in DOMAIN writes : ExternalWriteResponse(k) /\ writes[k].line = l
  BY DEF LineWritten
<1>2. External(l)
  BY <1>1 DEF ExternalWriteResponse, InFlight, External
<1>3. PICK way \in 0..Ways : way = writes[k].way
  BY <1>1, QueueItems
<1>4. PICK d : memory' = [memory EXCEPT ![l] = d] /\
        \/ way # 0 /\ d = cache[way].data
        \/ way = 0 /\ l[2] \in DOMAIN evict /\ d = evict[l[2]]
        \/ HasDirect(l)
  BY <1>1, <1>3 DEF ExternalWriteResponse
<1>5. memory'[l] = d
  BY <1>4 DEF Types, MemoryT
<1>6. CopiesData(l)
  BY DEF DataOk, LineData
<1>7. CASE way # 0 /\ d = cache[way].data
  BY <1>1, <1>3, <1>5, <1>6, <1>7 DEF CopiesData, HeldData
<1>8. CASE l[2] \in DOMAIN evict /\ d = evict[l[2]]
  BY <1>2, <1>5, <1>6, <1>8 DEF CopiesData, EvictData, Evicted, External
<1>9. CASE HasDirect(l)
  <2>1. DirectIndex(l) \in DOMAIN direct /\ direct[DirectIndex(l)].line = l
    BY <1>9, DirectFirst DEF Types
  <2>2. Bypassed(l)
    BY <2>1, DirectBypasses DEF DataOk
  <2> QED BY <2>2
<1> QED BY <1>4, <1>7, <1>8, <1>9

\* A clean that leaves M2 empties the ways of what it covers.
LEMMA CleanEmpties ==
  ASSUME Types, Types', IInv, LookedUpFirst, Struct, CleanLooked, Clean(consumed), NEW l \in Lines,
         CleanCovers(consumed, l)
  PROVE  ~Cached(l)'
<1> SUFFICES ASSUME NEW w \in 1..Ways, cache'[w].valid, cache'[w].line = l PROVE FALSE
  BY DEF Cached
<1>1. AtM2({"clean"}) /\ cache' = Invalidated(MaintenanceWays(consumed))
  BY CleanParts
<1>2. PipeFacts /\ consumed < issued /\ Op(consumed).kind = "clean"
  BY <1>1, AtM2Facts
<1>3. maintActive /\ issued = consumed + 1
  <2>1. consumed \in consumed..issued - 1
    BY <1>2 DEF PipeFacts
  <2>2. maintActive
    BY <1>2, <2>1 DEF Struct, Maintained
  <2> QED BY <1>2, <2>2 DEF Struct, Maintained, PipeFacts
<1>4. cache[w].valid /\ cache[w].line = l
  BY CleanEffect
<1>5. w \in MaintenanceWays(consumed)
  <2>1. CASE Op(consumed).target = "Line"
    <3>1. lookup[consumed + 1] = w /\ w # 0
      BY <1>3, <1>4, <2>1 DEF CleanLooked
    <3> QED BY <2>1, <3>1 DEF MaintenanceWays
  <2>2. CASE Op(consumed).target # "Line"
    BY <1>4, <2>2 DEF MaintenanceWays, CleanCovers
  <2> QED BY <2>1, <2>2
<1>6. cache'[w].valid = (cache[w].valid /\ w \notin MaintenanceWays(consumed))
  <2>1. cache[w] \in WayRec
    BY WayTyped
  <2>2. cache'[w] = [cache[w] EXCEPT !.valid = @ /\ w \notin MaintenanceWays(consumed)]
    BY <1>1 DEF Invalidated
  <2> HIDE DEF Data
  <2> QED BY <2>1, <2>2 DEF WayRec
<1> QED BY <1>5, <1>6

\* What has reached memory stays as recent.
LEMMA ReachesNext ==
  ASSUME Goes, NEW l \in Lines, NEW c \in Nat, c <= consumed, NEW d, Reaches(l, c, d)
  PROVE  Reaches(l, c, d)'
<1>1. \A o \in Offsets : Since(l, o, c, d[o])'
  BY SinceNext DEF Reaches
<1> QED BY <1>1 DEF Reaches, Since

\* The stores that a clean has covered stay below the ways.
LEMMA CleanLineStep ==
  ASSUME ZeroLine \notin Lines, Types, Types', IInv, PipeFacts', LookedUpFirst, Struct, Struct', DataOk, DataOk',
         CleanOk, CleanStores', [Next]_vars, ~raced', NEW l \in Lines
  PROVE  CleanLine(l)'
<1> SUFFICES ASSUME External(l)', ~Bypassed(l)', ~WayWritten(l)', NEW c \in Nat, Cleaned(l, c)'
             PROVE  Reaches(l, c, Under(l))'
  BY DEF CleanLine
<1>0. Goes /\ PipeFacts /\ PipeFacts'
  BY StepGoes, PipeNumbers
<1>1. /\ External(l) /\ ~Ub(l) /\ ~Bypassed(l)
      /\ c < consumed' /\ CleanCovers(c, l)' /\ Op(c)'.kind = "clean"
  <2>1. External(l) /\ ~Ub(l)
    BY LineFacts DEF External
  <2>2. ~Bypassed(l)
    BY <1>0, BypassedKept
  <2> QED BY <2>1, <2>2 DEF Cleaned, CleanCovers
<1>2. CopiesData(l)'
  BY DEF DataOk, LineData
<1>3. ASSUME NEW d, Backed(l, d)', d = Under(l)' PROVE Reaches(l, c, Under(l))'
  <2>1. Reaches(l, c, d)'
    BY <1>0, <1>1, <1>3, BackedReachesNext
  <2> QED BY <1>3, <2>1 DEF Reaches, Since
<1>4. CASE Evicted(l)'
  <2>1. PICK d : d = evict'[l[2]]
    OBVIOUS
  <2>2. d = Under(l)'
    BY <1>4, <2>1 DEF Under
  <2>3. Backed(l, evict[l[2]])'
    BY <1>2, <1>4 DEF CopiesData, EvictData
  <2>4. Backed(l, d)'
    BY <2>1, <2>3 DEF Backed, Latest
  <2> QED BY <1>3, <2>2, <2>4
<1>5. CASE InMemory(l)'
  <2>1. PICK d : d = memory'[l]
    OBVIOUS
  <2>2. d = Under(l)'
    BY <1>5, <2>1 DEF Under, InMemory
  <2>3. Backed(l, memory[l])'
    BY <1>2, <1>5 DEF CopiesData, MemoryData
  <2>4. Backed(l, d)'
    BY <2>1, <2>3 DEF Backed, Latest
  <2> QED BY <1>3, <2>2, <2>4
<1>6. CASE ~Evicted(l)' /\ ~InMemory(l)'
  <2>1. Cached(l)' /\ Under(l)' = memory'[l]
    BY <1>1, <1>6 DEF InMemory, WritingWay, Ub, DirtyWay, Cached, Under
  <2>2. c < consumed /\ Op(c).kind = "clean" /\ CleanCovers(c, l)
    <3>1. consumed' = consumed \/ (M2(consumed) /\ consumed' = consumed + 1 /\ consumed < admitted)
      BY StepGoes
    <3>2. c < consumed \/ (c = consumed /\ M2(consumed))
      BY <1>0, <1>1, <3>1 DEF PipeFacts
    <3>3. c < admitted
      BY <1>0, <1>1, <3>1 DEF PipeFacts
    <3>4. CleanCovers(c, l) /\ Op(c).kind = "clean"
      BY <1>0, <1>1, <3>3, CoversBefore DEF CleanCovers
    <3>5. ~(c = consumed /\ M2(consumed))
      <4> SUFFICES ASSUME c = consumed, M2(consumed) PROVE FALSE
        OBVIOUS
      <4>1. Clean(consumed) /\ CleanCovers(consumed, l)
        BY <3>4, CleanLeaves
      <4>2. ~Cached(l)'
        BY <4>1, CleanEmpties DEF CleanOk
      <4> QED BY <2>1, <4>2
    <3> QED BY <3>2, <3>4, <3>5
  <2>3. PICK d : d = memory'[l]
    OBVIOUS
  <2>4. Reaches(l, c, d)
    <3>1. CASE LineWritten(l)
      <4>1. Backed(l, d)
        BY <1>0, <1>1, <2>3, <3>1, ExternalWritten
      <4> QED BY <1>0, <2>2, <4>1, BackedReaches DEF CleanOk
    <3>2. CASE ~LineWritten(l)
      <4>1. ~WayWritten(l) /\ ~Evicted(l) /\ memory[l] = d
        BY <1>1, <1>6, <2>3, <3>2, WayWrittenStep, UnderStep
      <4> QED BY <1>1, <2>2, <4>1 DEF CleanOk, CleanLine, Cleaned, Under
    <3> QED BY <3>1, <3>2
  <2>5. c <= consumed
    BY <1>0, <2>2 DEF PipeFacts
  <2>6. Reaches(l, c, d)'
    BY <1>0, <2>4, <2>5, ReachesNext
  <2> QED BY <2>1, <2>3, <2>6 DEF Reaches, Since
<1> QED BY <1>4, <1>5, <1>6

-----------------------------------------------------------------------------
(* Cleans reach memory *)

\* No request has been made.
LEMMA InitClean == Init => CleanOk
<1> SUFFICES ASSUME Init PROVE CleanOk
  OBVIOUS
<1>1. misses = <<>> /\ stores = <<>> /\ consumed = 0 /\ ~maintActive /\ \A w \in 1..Ways : ~cache[w].valid
  BY DEF Init, PipeInit
<1>2. \A l : ~HasStore(l) /\ ~HasMiss(l) /\ ~Cached(l)
  BY <1>1 DEF HasStore, HasMiss, Cached
<1> QED BY <1>1, <1>2 DEF CleanOk, CleanStores, LinesTouched, CleanLooked, CleanLine, Cleaned

\* Every step keeps what the cleans have left behind.
LEMMA CleanStep ==
  ASSUME ZeroLine \notin Lines, Types, Types', IInv, PipeFacts', LookedUpFirst, Struct, Struct', DataOk, DataOk',
         CleanOk, [Next]_vars, ~raced'
  PROVE  CleanOk'
<1>1. CleanStores'
  BY CleanStoresStep DEF CleanOk
<1>2. LinesTouched'
  BY TouchedStep DEF CleanOk
<1>3. CleanLooked'
  BY CleanLookedStep
<1>4. \A l \in Lines : CleanLine(l)'
  BY <1>1, CleanLineStep
<1> QED BY <1>1, <1>2, <1>3, <1>4 DEF CleanOk

\* The invariant of the cleans holds throughout.
LEMMA CleanHolds == ZeroLine \notin Lines => (Spec => []CleanInv)
<1> SUFFICES ASSUME ZeroLine \notin Lines PROVE Spec => []CleanInv
  OBVIOUS
<1>1. Init => CleanInv
  BY InitClean DEF CleanInv
<1>2. Types /\ LookedUpFirst /\ IInv /\ Types' /\ PipeFacts' /\ StructInv /\ StructInv' /\ DataInv /\ DataInv'
        /\ CleanInv /\ [Next]_vars
      => CleanInv'
  <2> SUFFICES ASSUME Types, LookedUpFirst, IInv, Types', PipeFacts', StructInv, StructInv', DataInv, DataInv',
                      CleanInv, [Next]_vars, ~raced'
               PROVE  CleanOk'
    BY DEF CleanInv
  <2>1. ~raced
    BY RacesAreKept
  <2>2. Struct /\ DataOk /\ CleanOk
    BY <2>1 DEF StructInv, DataInv, CleanInv
  <2>3. Struct' /\ DataOk'
    BY DEF StructInv, DataInv
  <2> QED BY <2>2, <2>3, CleanStep
<1>3. Spec => [](Types /\ LookedUpFirst /\ IInv)
  BY TypesHold
<1>4. Spec => []StructInv
  BY UnitHoldsTogether
<1>5. Spec => []DataInv
  BY DataHolds
<1> QED BY <1>1, <1>2, <1>3, <1>4, <1>5, PipeNumbers, PTL DEF Spec

\* A store that a finished clean covers is in memory or on its way there.
LEMMA CleanedIsKept ==
  ASSUME Types, IInv, Struct, DataOk, CleanOk, ~maintActive,
         NEW c \in done, NEW s \in 0..c - 1, NEW o \in Op(s).bytes,
         Op(s).kind = "store", CleanCovers(c, Op(s).line),
         ~\E t \in s + 1..admitted - 1 : WritesByte(t, Op(s).line, o), ~Bypassed(Op(s).line)
  PROVE  (IF Op(s).line[2] \in DOMAIN evict THEN evict[Op(s).line[2]] ELSE memory[Op(s).line])[o] = s + 1
<1>1. PipeFacts
  BY PipeNumbers
<1>2. c \in Nat /\ c < consumed
  BY <1>1 DEF Types, DoneT, Requests, DataOk, DoneStores
<1>3. s \in Nat /\ s < c /\ s < admitted
  BY <1>1, <1>2 DEF PipeFacts
<1>4. PICK l \in Lines : l = Op(s).line /\ o \in Offsets
  BY <1>1, <1>3, OpFacts DEF Types
<1>5. External(l) /\ ~WayWritten(l) /\ Cleaned(l, c)
  <2>1. ~WayWritten(l)
    BY NoWays DEF WayWritten
  <2> QED BY <1>2, <1>4, <2>1 DEF Cleaned, CleanCovers
<1>6. PICK x : x = Under(l)[o]
  OBVIOUS
<1>7. Since(l, o, c, x)
  <2>1. ~Bypassed(l) /\ CleanLine(l)
    BY <1>4 DEF CleanOk
  <2>2. Reaches(l, c, Under(l))
    BY <1>2, <1>5, <2>1 DEF CleanLine
  <2> QED BY <1>4, <1>6, <2>2 DEF Reaches
<1>8. s < x
  BY <1>2, <1>3, <1>4, <1>7 DEF Since, WritesByte
<1>9. PICK t \in 0..consumed - 1 : WritesByte(t, l, o) /\ x = t + 1
  BY <1>3, <1>7, <1>8 DEF Since
<1>10. t = s
  <2>1. ~(t \in s + 1..admitted - 1)
    BY <1>4, <1>9
  <2> QED BY <1>1, <1>3, <1>8, <1>9, <2>1 DEF PipeFacts
<1> QED BY <1>4, <1>5, <1>6, <1>9, <1>10 DEF Under, Evicted

\* DC_CIVAC and the cleans of a whole memory: once the unit has finished one, the older stores to the
\* external lines it covers are in memory or in evicted data on its way there, up to those that a younger
\* store overwrites.  It waited for the store buffer, it took the only way of the line, and what a later
\* eviction or flush brings to memory has all those stores too.
THEOREM CleansReachMemory == ZeroLine \notin Lines => (Spec => []CleanReachesMemory)
<1> SUFFICES ASSUME ZeroLine \notin Lines PROVE Spec => []CleanReachesMemory
  OBVIOUS
<1>1. Types /\ IInv /\ StructInv /\ DataInv /\ CleanInv => CleanReachesMemory
  BY CleanedIsKept DEF StructInv, DataInv, CleanInv, CleanReachesMemory
<1>2. Spec => [](Types /\ LookedUpFirst /\ IInv)
  BY TypesHold
<1>3. Spec => []StructInv
  BY UnitHoldsTogether
<1>4. Spec => []DataInv
  BY DataHolds
<1>5. Spec => []CleanInv
  BY CleanHolds
<1> QED BY <1>1, <1>2, <1>3, <1>4, <1>5, PTL
=============================================================================
