------------------------------ MODULE LogStore ------------------------------
(***************************************************************************)
(* The in-memory log store (internal/store/memory_log_store.go) under the  *)
(* log service (internal/service/log_service.go).                          *)
(*                                                                         *)
(* Clients create entries in two phases, as the code does: the identifier  *)
(* and the timestamp of every entry of a request are fixed before the      *)
(* store's mutex is taken, and StoreBatch takes that mutex once per entry. *)
(* The two operations that loop under the mutex (DeleteBySource, Cleanup)  *)
(* hold `mu' from their first step to their last, so that the slice that   *)
(* DeleteBySource ranges over can be changed under it, as it is in Go.     *)
(***************************************************************************)
EXTENDS Integers, Sequences, FiniteSets, SequencesExt

CONSTANTS
  Ids,          \* identifiers GenerateID can return
  Clients,      \* concurrent requests that create entries
  Sources, Levels, Keywords,
  Norm,         \* normalizeKW: keyword -> its lower-case form
  Profiles,     \* the (source, level, keywords) an entry may carry
  MaxEntries,   \* capacity given to NewMemoryLogStore
  Retention,    \* config.Storage.RetentionPeriod
  MaxBatch,     \* bound: entries in one request
  MaxTime       \* bound: last value of the clock

ASSUME CapacityAssumption == MaxEntries \in Nat \ {0}
ASSUME BoundsAssumption == Retention \in Nat /\ MaxBatch \in Nat /\ MaxTime \in Nat
ASSUME NormAssumption == Norm \in [Keywords -> Keywords]
ASSUME ProfilesAssumption ==
  Profiles \subseteq [source : Sources, level : Levels, keywords : Seq(Keywords)]

VARIABLES
  db,      \* the fields of MemoryLogStore
  phase,   \* what each client is doing
  batch,   \* the entries a client has stamped and not yet stored
  mu,      \* who holds the write lock across steps
  now      \* the wall clock
vars == <<db, phase, batch, mu, now>>

Times == 0..MaxTime
Entry == [id : Ids, ts : Times, source : Sources, level : Levels,
          keywords : Seq(Keywords)]
Phases == {"idle", "stamping", "storing"}

Free == [kind |-> "free"]
CleanupLoop == [kind : {"cleanup"}, cutoff : Int]
DeleteLoop == [kind : {"delete"}, source : Sources, ids : Seq(Ids), i : Nat \ {0}]

Live(d) == DOMAIN d.entries
Full(d) == Cardinality(Live(d)) >= MaxEntries

-----------------------------------------------------------------------------
(* The indices.  timeIndex and sourceIndex are sequences, because their     *)
(* order is used.  levelIndex and keywordIndex are only ever appended to    *)
(* and removed from, so they are kept as the number of times each id occurs *)
(* in the slice.  An absent map key and an empty slice are the same thing:  *)
(* the code deletes keys whose slice became empty and reads both alike.     *)

DropFirst(s, e) ==
  IF \E i \in DOMAIN s : s[i] = e
  THEN RemoveAt(s, CHOOSE i \in DOMAIN s : s[i] = e /\ \A j \in 1..(i-1) : s[j] # e)
  ELSE s

Occurrences(kws, k) == Cardinality({i \in DOMAIN kws : Norm[kws[i]] = k})

(* Fault: removal counts a repeated keyword once. *)
LessOnce(n, m) == IF n = 0 \/ m = 0 THEN n ELSE n - 1

Less(n, m) == IF n >= m THEN n - m ELSE 0

(* Fault: the id stays in timeIndex. *)
RemoveEntryKeepingTime(d, id) ==
  [d EXCEPT !.entries = [x \in Live(d) \ {id} |-> d.entries[x]]]

RemoveEntry(d, id) ==
  LET e == d.entries[id] IN
  [entries      |-> [x \in Live(d) \ {id} |-> d.entries[x]],
   timeIndex    |-> DropFirst(d.timeIndex, id),
   sourceIndex  |-> [d.sourceIndex EXCEPT ![e.source] = DropFirst(@, id)],
   levelIndex   |-> [d.levelIndex EXCEPT ![e.level][id] = Less(@, 1)],
   keywordIndex |-> [k \in Keywords |->
      [d.keywordIndex[k] EXCEPT ![id] = Less(@, Occurrences(e.keywords, k))]]]

(* Fault: new entries are appended, as if they arrived in order. *)
InsertLast(d, e) == {Len(d.timeIndex)}

(* sort.Search only promises a position at which the predicate becomes      *)
(* true; it is the first such position when the index is sorted.            *)
InsertPositions(d, e) ==
  {pos \in 0..Len(d.timeIndex) :
     /\ pos < Len(d.timeIndex) => d.entries[d.timeIndex[pos+1]].ts > e.ts
     /\ pos > 0 => d.entries[d.timeIndex[pos]].ts <= e.ts}

(* Fault: the placeholder that makes room in timeIndex is left there. *)
InsertPlaceholder(d, e, pos) ==
  [d EXCEPT !.entries = [x \in Live(d) \cup {e.id} |-> IF x = e.id THEN e ELSE @[x]],
            !.timeIndex = InsertAt(@, pos + 1, "")]

Insert(d, e, pos) ==
  [entries      |-> [x \in Live(d) \cup {e.id} |-> IF x = e.id THEN e ELSE d.entries[x]],
   timeIndex    |-> InsertAt(d.timeIndex, pos + 1, e.id),
   sourceIndex  |-> [d.sourceIndex EXCEPT ![e.source] = Append(@, e.id)],
   levelIndex   |-> [d.levelIndex EXCEPT ![e.level][e.id] = @ + 1],
   keywordIndex |-> [k \in Keywords |->
      [d.keywordIndex[k] EXCEPT ![e.id] = @ + Occurrences(e.keywords, k)]]]

(* Fault: the newest entry is evicted. *)
RemoveNewest(d) ==
  IF d.timeIndex # <<>> THEN RemoveEntry(d, Last(d.timeIndex)) ELSE d

(* Fault: the entry leaves the map and timeIndex but no other index. *)
EvictFromTimeOnly(d) ==
  IF d.timeIndex = <<>> THEN d
  ELSE [d EXCEPT !.entries = [x \in Live(d) \ {Head(d.timeIndex)} |-> @[x]],
                 !.timeIndex = Tail(@)]

(* Fault: a full store evicts nothing. *)
EvictNothing(d) == d

(* evictOldest: removeEntry already takes the oldest id out of timeIndex;   *)
(* the code then reslices timeIndex[1:], which drops one id more, or        *)
(* panics when there is none.                                               *)
RemoveOldest(d) ==
  IF d.timeIndex # <<>> /\ Head(d.timeIndex) \in Live(d)
  THEN RemoveEntry(d, Head(d.timeIndex))
  ELSE d

EvictPanics(d) == d.timeIndex # <<>> /\ RemoveOldest(d).timeIndex = <<>>

(* Fault: the oldest entry of the map is evicted, hidden or not. *)
EvictOldestOfMap(d) ==
  LET oldest == CHOOSE id \in Live(d) : \A x \in Live(d) : d.entries[id].ts <= d.entries[x].ts
  IN IF d.timeIndex = <<>> THEN d ELSE [RemoveEntry(d, oldest) EXCEPT !.timeIndex = Tail(@)]

EvictOldest(d) ==
  IF d.timeIndex = <<>> THEN d
  ELSE [RemoveOldest(d) EXCEPT !.timeIndex = Tail(@)]

-----------------------------------------------------------------------------
(* What Query and Count report for a filter; NoFilter stands for the empty  *)
(* source or level of a request.                                            *)

NoFilter == "any"
Selected(e, source, level, from, to) ==
  /\ from <= e.ts /\ e.ts <= to
  /\ source \in {NoFilter, e.source}
  /\ level \in {NoFilter, e.level}

QueryTotal(d, source, level, from, to) ==
  Cardinality({i \in DOMAIN d.timeIndex :
                 /\ d.timeIndex[i] \in Live(d)
                 /\ Selected(d.entries[d.timeIndex[i]], source, level, from, to)})

Count(d, source, level, from, to) ==
  Cardinality({id \in Live(d) : Selected(d.entries[id], source, level, from, to)})

-----------------------------------------------------------------------------
EmptyStore ==
  [entries      |-> [x \in {} |-> x],
   timeIndex    |-> <<>>,
   sourceIndex  |-> [s \in Sources |-> <<>>],
   levelIndex   |-> [l \in Levels |-> [x \in Ids |-> 0]],
   keywordIndex |-> [k \in Keywords |-> [x \in Ids |-> 0]]]

Init ==
  /\ db = EmptyStore
  /\ phase = [c \in Clients |-> "idle"]
  /\ batch = [c \in Clients |-> <<>>]
  /\ mu = Free
  /\ now = 0

(* GenerateID: never an id that is in the store or in another request.      *)
Fresh(id) ==
  /\ id \notin Live(db)
  /\ \A c \in Clients : \A i \in DOMAIN batch[c] : batch[c][i].id # id

NewEntry(id, p) ==
  [id |-> id, ts |-> now, source |-> p.source, level |-> p.level,
   keywords |-> p.keywords]

(* NewLogEntry / the stamping loop of CreateBatchLogs: no lock is held.     *)
Stamp(c) ==
  /\ phase[c] \in {"idle", "stamping"}
  /\ Len(batch[c]) < MaxBatch
  /\ \E id \in Ids, p \in Profiles :
       /\ Fresh(id)
       /\ batch' = [batch EXCEPT ![c] = Append(@, NewEntry(id, p))]
  /\ phase' = [phase EXCEPT ![c] = "stamping"]
  /\ UNCHANGED <<db, mu, now>>

(* A later entry of the batch fails validation: nothing has been stored.    *)
RejectBatch(c) ==
  /\ phase[c] = "stamping"
  /\ phase' = [phase EXCEPT ![c] = "idle"]
  /\ batch' = [batch EXCEPT ![c] = <<>>]
  /\ UNCHANGED <<db, mu, now>>

(* One iteration of StoreBatch: Store takes and releases the lock.          *)
Advance(c) ==
  /\ batch' = [batch EXCEPT ![c] = Tail(@)]
  /\ phase' = [phase EXCEPT ![c] = IF Len(batch[c]) = 1 THEN "idle" ELSE "storing"]

Storing(c) == phase[c] \in {"stamping", "storing"} /\ batch[c] # <<>> /\ mu = Free

StoreWithRoom(c) ==
  /\ Storing(c)
  /\ ~Full(db)
  /\ \E pos \in InsertPositions(db, Head(batch[c])) :
       db' = Insert(db, Head(batch[c]), pos)
  /\ Advance(c)
  /\ UNCHANGED <<mu, now>>

StoreEvicting(c) ==
  /\ Storing(c)
  /\ Full(db)
  /\ ~EvictPanics(db)
  /\ \E pos \in InsertPositions(EvictOldest(db), Head(batch[c])) :
       db' = Insert(EvictOldest(db), Head(batch[c]), pos)
  /\ Advance(c)
  /\ UNCHANGED <<mu, now>>

(* The reslice panics: the deferred Unlock runs, the request ends in the    *)
(* Recover middleware, and the eviction done so far stays.                  *)
StorePanics(c) ==
  /\ Storing(c)
  /\ Full(db)
  /\ EvictPanics(db)
  /\ db' = RemoveOldest(db)
  /\ batch' = [batch EXCEPT ![c] = <<>>]
  /\ phase' = [phase EXCEPT ![c] = "idle"]
  /\ UNCHANGED <<mu, now>>

Store(c) == StoreWithRoom(c) \/ StoreEvicting(c) \/ StorePanics(c)

DeleteByID(id) ==
  /\ mu = Free
  /\ id \in Live(db)
  /\ db' = RemoveEntry(db, id)
  /\ UNCHANGED <<phase, batch, mu, now>>

-----------------------------------------------------------------------------
(* Fault: the ids are taken from the wrong index. *)
DeleteFromTimeIndex(source) ==
  /\ mu = Free
  /\ db.timeIndex # <<>>
  /\ mu' = [kind |-> "delete", source |-> source, ids |-> db.timeIndex, i |-> 1]
  /\ UNCHANGED <<db, phase, batch, now>>

(* DeleteBySource: `ids' is the slice header read from sourceIndex; its     *)
(* elements are shifted in place by every removeEntry of the loop.          *)

DeleteBySource(source) ==
  /\ mu = Free
  /\ db.sourceIndex[source] # <<>>
  /\ mu' = [kind |-> "delete", source |-> source, ids |-> db.sourceIndex[source], i |-> 1]
  /\ UNCHANGED <<db, phase, batch, now>>

(* The backing array after removeEntry took one id out of a slice of length *)
(* m: the shorter slice, then the old tail from position m on.              *)
Shifted(ids, slice, m) ==
  IF Len(slice) < m THEN slice \o SubSeq(ids, m, Len(ids)) ELSE ids

DeleteNext ==
  /\ mu.kind = "delete"
  /\ mu.i <= Len(mu.ids)
  /\ LET id == mu.ids[mu.i] IN
       \/ /\ id \in Live(db)
          /\ db' = RemoveEntry(db, id)
          /\ mu' = [mu EXCEPT !.i = @ + 1,
                      !.ids = Shifted(@, db'.sourceIndex[mu.source],
                                      Len(db.sourceIndex[mu.source]))]
       \/ /\ id \notin Live(db)
          /\ mu' = [mu EXCEPT !.i = @ + 1]
          /\ UNCHANGED db
  /\ UNCHANGED <<phase, batch, now>>

DeleteDone ==
  /\ mu.kind = "delete"
  /\ mu.i > Len(mu.ids)
  /\ db' = [db EXCEPT !.sourceIndex[mu.source] = <<>>]
  /\ mu' = Free
  /\ UNCHANGED <<phase, batch, now>>

(* Cleanup: the cutoff is computed under the lock; the map is ranged over   *)
(* in any order.                                                            *)
Cleanup ==
  /\ mu = Free
  /\ Retention > 0
  /\ mu' = [kind |-> "cleanup", cutoff |-> now - Retention]
  /\ UNCHANGED <<db, phase, batch, now>>

Expired(id) == db.entries[id].ts < mu.cutoff

CleanupNext ==
  /\ mu.kind = "cleanup"
  /\ \E id \in Live(db) : Expired(id) /\ db' = RemoveEntry(db, id)
  /\ UNCHANGED <<phase, batch, mu, now>>

CleanupDone ==
  /\ mu.kind = "cleanup"
  /\ \A id \in Live(db) : ~Expired(id)
  /\ mu' = Free
  /\ UNCHANGED <<db, phase, batch, now>>

Tick ==
  /\ now < MaxTime
  /\ now' = now + 1
  /\ UNCHANGED <<db, phase, batch, mu>>

Next ==
  \/ \E c \in Clients : Stamp(c) \/ RejectBatch(c) \/ Store(c)
  \/ \E id \in Ids : DeleteByID(id)
  \/ \E s \in Sources : DeleteBySource(s)
  \/ DeleteNext \/ DeleteDone
  \/ Cleanup \/ CleanupNext \/ CleanupDone
  \/ Tick

Spec == Init /\ [][Next]_vars

-----------------------------------------------------------------------------
(* Properties.                                                              *)

(* Every variable keeps its type.  The entries map, the four indices and    *)
(* the loop state are those of MemoryLogStore and its methods.              *)
StoreType(d) ==
  /\ DOMAIN d = {"entries", "timeIndex", "sourceIndex", "levelIndex", "keywordIndex"}
  /\ Live(d) \subseteq Ids /\ IsFiniteSet(Live(d))
  /\ \A id \in Live(d) : d.entries[id] \in Entry /\ d.entries[id].id = id
  /\ d.timeIndex \in Seq(Ids)
  /\ d.sourceIndex \in [Sources -> Seq(Ids)]
  /\ d.levelIndex \in [Levels -> [Ids -> Nat]]
  /\ d.keywordIndex \in [Keywords -> [Ids -> Nat]]

TypeOK ==
  /\ StoreType(db)
  /\ phase \in [Clients -> Phases]
  /\ batch \in [Clients -> Seq(Entry)]
  /\ mu \in {Free} \cup CleanupLoop \cup DeleteLoop
  /\ now \in Times

(* The store never exceeds its capacity (memory_log_store.go:57), although  *)
(* evictOldest evicts nothing when timeIndex is empty and some live entries *)
(* are missing from timeIndex.                                              *)
Capacity == Cardinality(Live(db)) <= MaxEntries

(* Part of why Capacity holds: a full store has an entry in timeIndex, so   *)
(* the early return of evictOldest (memory_log_store.go:288) is never taken.*)
Evictable(d) == Full(d) => d.timeIndex # <<>>
AlwaysEvictable == Evictable(db)

(* timeIndex lists live entries, each once: the dereference in             *)
(* insertTimeIndex (memory_log_store.go:303) never meets a nil entry.      *)
NoDuplicates(s) == \A i, j \in DOMAIN s : s[i] = s[j] => i = j
TimeSound(d) ==
  /\ \A i \in DOMAIN d.timeIndex : d.timeIndex[i] \in Live(d)
  /\ NoDuplicates(d.timeIndex)
TimeIndexSound == TimeSound(db)

(* timeIndex is in timestamp order ("a time-ordered index of ids",          *)
(* memory_log_store.go:15) although requests stamp entries before they take *)
(* the lock and so arrive out of order.                                     *)
TimeSorted(d) ==
  \A i, j \in DOMAIN d.timeIndex :
    i < j => d.entries[d.timeIndex[i]].ts <= d.entries[d.timeIndex[j]].ts
TimeIndexSorted == TimeSorted(db)

(* sourceIndex never lists a removed entry, an entry of another source or   *)
(* the same entry twice, also while DeleteBySource shifts its slices.       *)
SourceSound(d) ==
  \A s \in Sources :
    /\ \A i \in DOMAIN d.sourceIndex[s] :
          /\ d.sourceIndex[s][i] \in Live(d)
          /\ d.entries[d.sourceIndex[s][i]].source = s
    /\ NoDuplicates(d.sourceIndex[s])
SourceIndexSound == SourceSound(db)

(* levelIndex and keywordIndex hold exactly the live entries: a keyword     *)
(* that an entry repeats (in any case) is added and removed equally often,  *)
(* so no slice keeps an id of an entry that has gone.                       *)
LevelsExact(d) ==
  \A l \in Levels, id \in Ids :
    d.levelIndex[l][id] = IF id \in Live(d) /\ d.entries[id].level = l THEN 1 ELSE 0
KeywordsExact(d) ==
  \A k \in Keywords, id \in Ids :
    d.keywordIndex[k][id] =
      IF id \in Live(d) THEN Occurrences(d.entries[id].keywords, k) ELSE 0
LevelAndKeywordIndexExact == LevelsExact(db) /\ KeywordsExact(db)

(* Query reads timeIndex and Count reads the map: for no filter does Query  *)
(* report more entries than Count.                                          *)
QueryNeverOvercounts ==
  \A s \in Sources \cup {NoFilter}, l \in Levels \cup {NoFilter}, from \in Times :
    QueryTotal(db, s, l, from, now) <= Count(db, s, l, from, now)

(* A store at capacity removes one entry, and no entry that Query can see   *)
(* is older than it (memory_log_store.go:286 "evict the oldest entry").     *)
EvictsOldestVisible ==
  [][\A c \in Clients : StoreEvicting(c) =>
       /\ Cardinality(Live(db) \ Live(db)') = 1
       /\ \A x \in Live(db) \ Live(db)', i \in DOMAIN db.timeIndex :
            db.entries[x].ts <= db.entries[db.timeIndex[i]].ts]_vars

(* The live entries that no query returns. *)
Hidden(d) == Live(d) \ {d.timeIndex[i] : i \in DOMAIN d.timeIndex}

(* An entry that an eviction has hidden is never evicted by a later Store   *)
(* and never shown again: the room it takes is given back by a deletion or  *)
(* a cleanup only.  An entry given to Store is lost only when every entry   *)
(* that is left is hidden (memory_log_store.go:291-296).                    *)
HiddenOnlyGrow ==
  [][\A c \in Clients : Store(c) =>
       /\ Hidden(db) \subseteq Hidden(db)'
       /\ Head(batch[c]).id \in Live(db)' \/ Hidden(db)' = Live(db)']_vars

(* What the users of the store see of it: the entries in the order of       *)
(* timeIndex, and those that are only in the map.                           *)
Timeline(d) == [i \in DOMAIN d.timeIndex |-> d.entries[d.timeIndex[i]]]
HiddenEntries(d) == {d.entries[id] : id \in Hidden(d)}

View == INSTANCE BoundedLog WITH
  Entries <- Entry, Room <- MaxEntries,
  log <- Timeline(db), hidden <- HiddenEntries(db)
(* The store is a bounded log (BoundedLog): whatever the requests, batches, *)
(* evictions, deletions and cleanups do, one after the other or in each     *)
(* other's gaps, what its queries see changes by one entry that arrives in  *)
(* its place, one that goes, or the oldest that makes room and takes the    *)
(* next out of sight (memory_log_store.go:47-101, 206-311).                 *)
ImplementsBoundedLog == View!Spec

(* DeleteBySource removes no entry of another source, whatever the shifting *)
(* of the slice under its range loop makes it visit.                        *)
OtherSourcesSurvive ==
  [][DeleteNext => \A id \in Live(db) \ Live(db)' : db.entries[id].source = mu.source]_vars

-----------------------------------------------------------------------------
(* What the comments promise and the code does not do.                      *)

(* "an index of the ids ordered by time" (memory_log_store.go:15): every    *)
(* stored entry is in it, so that Query can return it.                      *)
TimeIndexComplete ==
  \A id \in Live(db) : \E i \in DOMAIN db.timeIndex : db.timeIndex[i] = id

(* "delete the logs of the given source" (memory_log_store.go:221): when    *)
(* DeleteBySource returns, the source has no entry left.                    *)
DeletesWholeSource ==
  [][DeleteDone => \A id \in Live(db)' : db.entries[id].source # mu.source]_vars
=============================================================================
