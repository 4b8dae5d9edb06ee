------------------------------ MODULE LogQuery ------------------------------
(***************************************************************************)
(* What a log query answers: LogQuery (internal/model/query.go), the query *)
(* and the count of the log store (internal/store/memory_log_store.go      *)
(* 104-204) and the parsing of a request's parameters                      *)
(* (internal/handler/log_handler.go:188-228), as functions of the stored   *)
(* entries.                                                                *)
(*                                                                         *)
(* A log is the sequence of entries in the order of timeIndex.  sort.Slice *)
(* is stable for up to twelve elements, so entries of one time stay in     *)
(* that order; larger results are not modelled.                            *)
(***************************************************************************)
EXTENDS Integers, Sequences, FiniteSets

CONSTANTS
  MaxLimit,      \* most entries of a page: 10000 in the code
  DefaultLimit   \* entries of a page without a limit: 100 in the code

ASSUME LimitAssumption == MaxLimit \in Nat /\ DefaultLimit \in 0..MaxLimit

NotGiven == -1       \* a time, limit or offset that is not given
Ascending == "asc"
Descending == "desc"

LeastOf(a, b) == IF a < b THEN a ELSE b

DefaultLogQuery ==
  [source |-> "", level |-> "", keywords |-> {}, start |-> NotGiven, end |-> NotGiven,
   limit |-> DefaultLimit, offset |-> 0, order |-> Descending]

(* A parameter that is absent or cannot be parsed, which is not in params   *)
(* here, leaves the default.                                                *)
ParseLogQuery(params) ==
  [f \in DOMAIN DefaultLogQuery |->
     IF f \in DOMAIN params THEN params[f] ELSE DefaultLogQuery[f]]

(* LogQuery.Validate: a query it rejects, and the limit it clips. *)
Rejected(q) ==
  \/ q.limit < 0 \/ q.offset < 0
  \/ q.start # NotGiven /\ q.end # NotGiven /\ q.start > q.end

Clipped(q) == [q EXCEPT !.limit = LeastOf(@, MaxLimit)]

TimeRange(q, now) ==
  (IF q.start = NotGiven THEN 0 ELSE q.start)..(IF q.end = NotGiven THEN now ELSE q.end)

Matches(q, e, now) ==
  /\ e.time \in TimeRange(q, now)
  /\ q.source \in {"", e.source}
  /\ q.level \in {"", e.level}
  /\ q.keywords \subseteq e.words   \* those its message contains

(* Positions of the matching entries, and the order in which they are       *)
(* answered: the i-th is the one with i - 1 others before it.               *)
Matching(log, q, now) == {i \in DOMAIN log : Matches(q, log[i], now)}

Precedes(log, order, i, j) ==
  \/ log[i].time = log[j].time /\ i < j
  \/ IF order = Descending THEN log[i].time > log[j].time ELSE log[i].time < log[j].time

InOrder(log, order, found) ==
  [n \in 1..Cardinality(found) |->
     CHOOSE i \in found : Cardinality({j \in found : Precedes(log, order, j, i)}) = n - 1]

(* Fault: an offset beyond the end stays where it is. *)
PageBeginUnclipped(q, total) == q.offset

(* The page is the slice entries[begin:end] of the answer. *)
PageBegin(q, total) == LeastOf(q.offset, total)

(* Fault: the page ends at the limit, as if it began at the first entry. *)
PageEndAtLimit(q, total) == LeastOf(q.limit, total)

PageEnd(q, total) == LeastOf(PageBegin(q, total) + q.limit, total)

(* MemoryLogStore.Query.  The default of the limit is set after the end of  *)
(* the page is computed: a query with limit 0 reports the default limit and *)
(* answers no entry.                                                        *)
Query(log, query, now) ==
  LET q == Clipped(query)
      found == Matching(log, q, now)
      total == Cardinality(found)
  IN [total |-> total,
      limit |-> LeastOf(IF q.limit = 0 THEN DefaultLimit ELSE q.limit, total),
      items |-> SubSeq(InOrder(log, q.order, found), PageBegin(q, total) + 1, PageEnd(q, total))]

(* MemoryLogStore.Count. *)
Count(log, source, level, start, end) ==
  Cardinality({i \in DOMAIN log :
    /\ log[i].time \in start..end
    /\ source \in {"", log[i].source}
    /\ level \in {"", log[i].level}})
=============================================================================
