----------------------------- MODULE LogReaders -----------------------------
(***************************************************************************)
(* Readers of a log that changes: a client that turns the pages of         *)
(* GET /api/logs, each page a request of its own, and the reports of       *)
(* Statistics, asked for at any moment, while entries arrive (some time    *)
(* after their timestamp was taken), are deleted, cleaned up or evicted,   *)
(* and time goes on.  The log is that of BoundedLog.  What one critical    *)
(* section of the store does at once, an eviction and the insertion after  *)
(* it, is several steps here: a reader may see more states than there are, *)
(* never fewer.                                                            *)
(***************************************************************************)
EXTENDS Statistics

CONSTANTS
  Ids,        \* identifiers of entries
  Kinds,      \* source, level and words of the entries that arrive
  Filter,     \* the source that the paging client asks for
  Orders,     \* orders in which it asks
  PageSize,   \* entries of a page
  MaxDelay,   \* bound: time between an entry's timestamp and its arrival
  MaxTime,    \* bound: the last moment
  MaxChanges  \* bound: entries that come or go between the pages of a client

ASSUME ReadersAssumption ==
  /\ PageSize \in 1..MaxLimit
  /\ MaxDelay \in Nat /\ MaxTime \in Nat /\ MaxChanges \in Nat
  /\ Orders \subseteq {Ascending, Descending}
  /\ Kinds \subseteq [source : STRING, level : STRING, words : SUBSET STRING]

VARIABLES
  log,    \* the entries in the order of timeIndex
  now,
  pager   \* the paging client: what it saw, how many it was shown, what was
          \* there at its first page, and what came and went since
rvars == <<log, now, pager>>

Idle == [stage |-> "idle", order |-> Ascending, offset |-> 0, seen |-> {},
         shown |-> 0, since |-> {}, gone |-> 0, come |-> 0]

Listed == {log[i].id : i \in DOMAIN log}
Wanted(e) == Filter \in {"", e.source}

(* What the change of an entry is to the paging client. *)
Changed(e, field) ==
  IF pager.stage = "paging" /\ Wanted(e) THEN [pager EXCEPT ![field] = @ + 1] ELSE pager

Init == log = <<>> /\ now = 0 /\ pager = Idle

(* Fault: entries are appended, as if they arrived in order. *)
PositionsAtEnd(t) == {Len(log)}

(* sort.Search and the insertion: after the entries that are not newer. *)
Positions(t) ==
  {p \in 0..Len(log) :
     /\ p > 0 => log[p].time <= t
     /\ p < Len(log) => log[p + 1].time > t}

Arrive(id, kind, t) ==
  /\ id \notin Listed \cup pager.since \cup pager.seen   \* identifiers are not used again
  /\ pager.come + pager.gone < MaxChanges
  /\ now - t <= MaxDelay
  /\ \E p \in Positions(t) :
       log' = SubSeq(log, 1, p)
              \o <<[id |-> id, time |-> t, source |-> kind.source, level |-> kind.level,
                    words |-> kind.words]>>
              \o SubSeq(log, p + 1, Len(log))
  /\ pager' = Changed(kind, "come")
  /\ UNCHANGED now

Disappear(i) ==
  /\ pager.come + pager.gone < MaxChanges
  /\ log' = SubSeq(log, 1, i - 1) \o SubSeq(log, i + 1, Len(log))
  /\ pager' = Changed(log[i], "gone")
  /\ UNCHANGED now

Tick ==
  /\ now < MaxTime
  /\ now' = now + 1
  /\ UNCHANGED <<log, pager>>

(* The answer to GET /api/logs?source=...&limit=...&offset=...&order=... *)
Page(order, offset) ==
  Query(log, ParseLogQuery([source |-> Filter, limit |-> PageSize, offset |-> offset,
                            order |-> order]), now)

PageIds(page) == {log[page.items[i]].id : i \in DOMAIN page.items}

(* The client goes on to the next offset until it has asked for the total   *)
(* of the last answer.                                                      *)
TurnPage(reader, page) ==
  LET next == reader.offset + PageSize IN
  [reader EXCEPT !.offset = next, !.seen = @ \cup PageIds(page),
                 !.shown = @ + Len(page.items),
                 !.stage = IF next >= page.total THEN "done" ELSE "paging"]

FirstPage(order) ==
  /\ pager.stage = "idle"
  /\ pager' = TurnPage([Idle EXCEPT !.order = order,
                                    !.since = {log[i].id : i \in {j \in DOMAIN log : Wanted(log[j])}}],
                       Page(order, 0))
  /\ UNCHANGED <<log, now>>

NextPage ==
  /\ pager.stage = "paging"
  /\ pager' = TurnPage(pager, Page(pager.order, pager.offset))
  /\ UNCHANGED <<log, now>>

Forget ==
  /\ pager.stage = "done"
  /\ pager' = Idle
  /\ UNCHANGED <<log, now>>

Next ==
  \/ \E id \in Ids, kind \in Kinds, t \in 0..now : Arrive(id, kind, t)
  \/ \E i \in DOMAIN log : Disappear(i)
  \/ Tick
  \/ \E order \in Orders : FirstPage(order)
  \/ NextPage \/ Forget

Spec == Init /\ [][Next]_rvars
-----------------------------------------------------------------------------
(* Properties *)

(* The types of the variables; the log is in the order of time, although    *)
(* entries arrive out of order (memory_log_store.go:300-311).               *)
TypeOK ==
  /\ now \in 0..MaxTime
  /\ log \in Seq([id : Ids, time : 0..now, source : STRING, level : STRING,
                  words : SUBSET STRING])
  /\ \A i, j \in DOMAIN log : i < j => log[i].time <= log[j].time /\ log[i].id # log[j].id
  /\ pager.stage \in {"idle", "paging", "done"} /\ pager.order \in Orders \cup {Ascending}
  /\ pager.offset \in Nat /\ pager.gone \in Nat /\ pager.come \in Nat
  /\ pager.shown \in Nat /\ pager.seen \in SUBSET Ids /\ pager.since \in SUBSET Ids

(* A client that turns all pages misses at most as many of the entries that *)
(* were there from first to last as matching entries disappeared meanwhile, *)
(* and is shown at most as many twice as arrived, in either order.          *)
(* (memory_log_store.go:163-181: an offset counts from the beginning of     *)
(* whatever matches when the page is asked for.)                            *)
PagingIsOffByWhatChanged ==
  pager.stage = "done" =>
    /\ Cardinality((pager.since \cap Listed) \ pager.seen) <= pager.gone
    /\ pager.shown - Cardinality(pager.seen) <= pager.come

(* What entries[begin:end] needs and gives (memory_log_store.go:165-181). *)
IsSlice(asked) ==
  LET answer == Query(log, asked, now)
      begin == PageBegin(Clipped(asked), answer.total)
      end == PageEnd(Clipped(asked), answer.total)
  IN /\ answer.total = Count(log, Filter, "", 0, now)
     /\ begin <= end /\ end <= answer.total
     /\ Len(answer.items) = end - begin
     /\ Len(answer.items) <= asked.limit /\ Len(answer.items) <= MaxLimit

(* A page is a slice that Go can take, whatever the limit (none, as the     *)
(* alert engine asks, or above the maximum) and however far the offset is   *)
(* beyond what matches at that moment: it begins and ends within the total, *)
(* which is what Count answers, and it is no longer than its limit.  A      *)
(* slice out of range would be a panic under the lock.                      *)
PagesAreSlices ==
  pager.stage = "idle" => \A limit \in 0..MaxLimit + 1, offset \in 0..Len(log) + 1 :
    IsSlice(ParseLogQuery([source |-> Filter, limit |-> limit, offset |-> offset]))

SumOf(tally) ==
  Cardinality({u \in (DOMAIN tally) \X (1..Len(log)) : u[2] <= tally[u[1]]})

(* The reports agree with each other and with Count: the total is that of   *)
(* Count, or MaxLimit if that is less, and then the entries that are left   *)
(* out are the newest (stats_service.go:42, query.go:51); sums by source,   *)
(* level and hour add up to it, the aggregation service counts the same,    *)
(* and the day's SourceCount is its number of entries, not of sources.      *)
(* (Nothing here depends on the pager, so one of its states is enough.)     *)
StatisticsAgree ==
  pager.stage = "idle" => \A start \in 0..now :
    LET stats == GetStatistics(log, start, NotGiven, now)
        sample == Sampled(log, start, now, now)
        report == DailyReport(log, start \div DayLength, 1, now)
    IN /\ ~StatisticsFail(start, NotGiven, now)
       /\ stats.total = LeastOf(MaxLimit, Count(log, "", "", start, now))
       /\ \A i \in sample, j \in DOMAIN log \ sample :
            log[j].time >= start => log[i].time <= log[j].time
       /\ SumOf(stats.bySource) = stats.total /\ SumOf(stats.byLevel) = stats.total
       /\ SumOf(stats.byHour) = stats.total
       /\ \A s \in DOMAIN stats.errorRate : stats.errorRate[s][1] <= stats.bySource[s]
       /\ AggregateBySource(log, start, now, now) = stats.bySource
       /\ AggregateByLevel(log, start, now, now) = stats.byLevel
       /\ \A answer \in GetSourceStats(log, start, now) :
            \A r \in answer.items : r.total = SumOf(r.byLevel)
       /\ start = now - DayLength =>
            \A top \in GetTopSources(log, MaxSources, now) :
              \A r \in top : stats.errorRate[r.source] = <<r.errors, r.count>>
       /\ report.sourceCount = report.total
       /\ report.peakCount <= report.total
       /\ (start % DayLength = 0 /\ now < start + DayLength) =>
            report.total = stats.total /\ report.peakHours \subseteq DOMAIN stats.byHour

(* The hours of a trend add up to the statistics of the same period, but    *)
(* for the entries of the hour in which the period begins: they are queried *)
(* and no hour of the trend counts them (stats_service.go:84-106).          *)
TrendsMissTheFirstHour ==
  pager.stage = "idle" => \A given \in 0..MaxHours :
    LET hours == GetHourlyTrends(log, given, now).hours
        trends == GetHourlyTrends(log, given, now).items
        start == now - hours * HourLength
        sample == Sampled(log, start, now, now)
        missed == {i \in sample : Hour(log[i].time) = Hour(start)}
    IN /\ SumOf([n \in DOMAIN trends |-> trends[n].count])
            = Cardinality(sample) - Cardinality(missed)
       /\ AggregateByHour(log, hours, now)
            = [h \in {Hour(log[i].time) : i \in missed}
                 \cup {trends[n].hour : n \in {m \in DOMAIN trends : trends[m].count > 0}}
               |-> IF h = Hour(start) THEN Cardinality(missed)
                   ELSE trends[CHOOSE n \in DOMAIN trends : trends[n].hour = h].count]
=============================================================================
