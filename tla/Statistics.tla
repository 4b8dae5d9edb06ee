----------------------------- MODULE Statistics -----------------------------
(***************************************************************************)
(* The reports of StatsService (internal/service/stats_service.go), the    *)
(* sums of AggregationService (internal/service/aggregation_service.go)    *)
(* and LogStatistics (internal/model/statistics.go), as functions of the   *)
(* stored entries.                                                         *)
(*                                                                         *)
(* Each asks the store for at most 100000 entries, of which the query's    *)
(* validation leaves MaxLimit, in no given order, which means ascending.   *)
(* A rate is the pair of numbers that the code divides.                    *)
(***************************************************************************)
EXTENDS LogQuery

CONSTANTS
  HourLength,                  \* in units of time
  DayLength,
  MaxHours, DefaultHours,      \* of a trend: 168 and 24 in the code
  MaxSources, DefaultSources   \* of the source statistics: 100 and 10 in the code

ASSUME PeriodAssumption ==
  HourLength \in Nat \ {0} /\ DayLength \in Nat \ {0} /\ DayLength % HourLength = 0
ASSUME ParameterAssumption ==
  /\ MaxHours \in Nat \ {0} /\ DefaultHours \in 1..MaxHours
  /\ MaxSources \in Nat \ {0} /\ DefaultSources \in 1..MaxSources

Hour(time) == time \div HourLength
ErrorLevels == {"ERROR", "FATAL"}

(* Fault: the newest entries are asked for, as the log pages do. *)
StatsQueryDescending(start, end) ==
  [DefaultLogQuery EXCEPT !.start = start, !.end = end, !.limit = MaxLimit]

(* 100000 is more than MaxLimit; it is given as MaxLimit + 1 here. *)
StatsQuery(start, end) ==
  [DefaultLogQuery EXCEPT !.start = start, !.end = end, !.limit = MaxLimit + 1, !.order = ""]

(* The entries a report is made of. *)
Sampled(log, start, end, now) ==
  LET page == Query(log, StatsQuery(start, end), now).items
  IN {page[n] : n \in DOMAIN page}

Errors(log, sample) == {i \in sample : log[i].level \in ErrorLevels}

(* How many of the sample have each of the keys that occur. *)
Tally(sample, key) ==
  [k \in {key[i] : i \in sample} |-> Cardinality({i \in sample : key[i] = k})]

BySource(log, sample) == Tally(sample, [i \in sample |-> log[i].source])
ByLevel(log, sample) == Tally(sample, [i \in sample |-> log[i].level])
ByHour(log, sample) == Tally(sample, [i \in sample |-> Hour(log[i].time)])

SourceErrors(log, sample, source) ==
  Cardinality({i \in Errors(log, sample) : log[i].source = source})

(* StatsService.GetStatistics; the query fails when the range is reversed. *)
StatsRange(start, end, now) ==
  [start |-> IF start = NotGiven THEN now - DayLength ELSE start,
   end   |-> IF end = NotGiven THEN now ELSE end]

StatisticsFail(start, end, now) ==
  LET range == StatsRange(start, end, now) IN Rejected(StatsQuery(range.start, range.end))

GetStatistics(log, start, end, now) ==
  LET range == StatsRange(start, end, now)
      sample == Sampled(log, range.start, range.end, now)
      sources == BySource(log, sample)
  IN [total |-> Cardinality(sample),
      byLevel |-> ByLevel(log, sample), bySource |-> sources, byHour |-> ByHour(log, sample),
      errorRate |-> [s \in DOMAIN sources |-> <<SourceErrors(log, sample, s), sources[s]>>]]

(* Fault: the oldest of the listed hours is the one that the range begins   *)
(* in, and the current hour is left out.                                    *)
TrendHoursBefore(hours, now) == [n \in 1..hours |-> Hour(now) - (hours - n) - 1]

(* The current hour and the hours - 1 hours before it, as many as asked for *)
(* although the range that is queried begins in the hour before them.       *)
TrendHours(hours, now) == [n \in 1..hours |-> Hour(now) - (hours - n)]

HourlyTrends(log, hours, now) ==
  LET sample == Sampled(log, now - hours * HourLength, now, now)
      listed == TrendHours(hours, now)
      In(set, n) == {i \in set : Hour(log[i].time) = listed[n]}
  IN [n \in 1..hours |->
        [hour |-> listed[n], count |-> Cardinality(In(sample, n)),
         errors |-> Cardinality(In(Errors(log, sample), n))]]

(* A number of a request that is missing, unreadable or out of range is     *)
(* replaced by the default.                                                 *)
InRangeOr(default, most, n) == IF n \in 1..most THEN n ELSE default

(* GET /api/stats/hourly and GET /api/stats/error-rate. *)
GetHourlyTrends(log, given, now) ==
  LET hours == InRangeOr(DefaultHours, MaxHours, given) IN
  [hours |-> hours, items |-> HourlyTrends(log, hours, now)]

(* Values are pairs, which stand for quotients. *)
AtLeast(v, w) == v[1] * w[2] >= w[1] * v[2]

(* The possible sets of the first ones of a list sorted by a value: the     *)
(* order of equal ones, in a list made from a map, is arbitrary.            *)
Top(set, limit, value) ==
  {t \in SUBSET set :
     /\ Cardinality(t) = LeastOf(limit, Cardinality(set))
     /\ \A a \in t, b \in set \ t : AtLeast(value[a], value[b])}

SourceReport(log, sample, source) ==
  LET own == {i \in sample : log[i].source = source} IN
  [source |-> source, total |-> Cardinality(own), byLevel |-> ByLevel(log, own),
   errors |-> Cardinality(Errors(log, own)),
   lastActivity |-> CHOOSE t \in {log[i].time : i \in own} : \A i \in own : log[i].time <= t]

(* StatsService.GetSourceStats: the sources with most entries of a day. *)
SourceStats(log, limit, now) ==
  LET sample == Sampled(log, now - DayLength, now, now)
      reports == {SourceReport(log, sample, log[i].source) : i \in sample}
  IN Top(reports, limit, [r \in reports |-> <<r.total, 1>>])

(* GET /api/stats/sources. *)
GetSourceStats(log, given, now) ==
  {[sources |-> Cardinality(top), items |-> top] :
     top \in SourceStats(log, InRangeOr(DefaultSources, MaxSources, given), now)}

(* StatsService.GetDailyReport: SourceCount goes up with every entry.  The  *)
(* peak is any of the hours with most entries; the sources are sorted by    *)
(* error rate.                                                              *)
DailyReport(log, day, topErrors, now) ==
  LET sample == Sampled(log, day * DayLength, (day + 1) * DayLength - 1, now)
      hours == ByHour(log, sample)
      peaks == {h \in DOMAIN hours : \A g \in DOMAIN hours : hours[g] <= hours[h]}
      reports == {SourceReport(log, sample, log[i].source) : i \in sample}
  IN [total |-> Cardinality(sample), sourceCount |-> Cardinality(sample), peakHours |-> peaks,
      peakCount |-> IF peaks = {} THEN 0 ELSE hours[CHOOSE h \in peaks : TRUE],
      topErrors |-> Top(reports, topErrors, [r \in reports |-> <<r.errors, r.total>>])]

(* AggregationService: the same sums over a range of the caller's. *)
AggregateByHour(log, hours, now) ==
  ByHour(log, Sampled(log, now - hours * HourLength, now, now))
AggregateBySource(log, start, end, now) == BySource(log, Sampled(log, start, end, now))
AggregateByLevel(log, start, end, now) == ByLevel(log, Sampled(log, start, end, now))
GetTopSources(log, limit, now) ==
  {{[source |-> r.source, count |-> r.total, errors |-> r.errors] : r \in top} :
     top \in SourceStats(log, limit, now)}
=============================================================================
