------------------------------ MODULE BoundedLog ------------------------------
(***************************************************************************)
(* What the log store is to those who use it: a log in the order of time,  *)
(* which queries and reports read, and entries that take up room although  *)
(* no query shows them.  A full log makes room by losing the oldest entry  *)
(* and hiding the next one; with a single entry to lose, it loses the      *)
(* entry and does not take the new one.  There are no indices here, no     *)
(* locks, no batches and no loops.  LogStore implements this; its log is   *)
(* what the functions of LogQuery and Statistics are applied to.           *)
(***************************************************************************)
EXTENDS Integers, SequencesExt

CONSTANTS
  Entries,   \* what may be stored: records with an id and a time ts
  Room       \* entries that fit

VARIABLES
  log,       \* the entries that are shown, in the order of time
  hidden     \* the entries that are not
logVars == <<log, hidden>>

Shown == {log[i] : i \in DOMAIN log}
Stored == Shown \cup hidden
Full == Cardinality(Stored) = Room

Init == log = <<>> /\ hidden = {}

(* The log becomes `rest' and a new entry, which comes after those of its   *)
(* time and before the newer ones.                                          *)
Arrives(rest) ==
  \E i \in DOMAIN log' : LET e == log'[i] IN
    /\ e \in Entries
    /\ \A x \in Stored : x.id # e.id
    /\ log' = InsertAt(rest, i, e)
    /\ \A j \in DOMAIN log' : /\ j < i => log'[j].ts <= e.ts
                              /\ j > i => e.ts < log'[j].ts

Put == ~Full /\ Arrives(log) /\ UNCHANGED hidden

PutEvicting ==
  /\ Full /\ Len(log) > 1
  /\ Arrives(Tail(Tail(log)))
  /\ hidden' = hidden \cup {log[2]}

Lose == Full /\ Len(log) = 1 /\ log' = <<>> /\ UNCHANGED hidden

Take == \E i \in DOMAIN log : log' = RemoveAt(log, i) /\ UNCHANGED hidden

TakeHidden == \E x \in hidden : hidden' = hidden \ {x} /\ UNCHANGED log

Next == Put \/ PutEvicting \/ Lose \/ Take \/ TakeHidden

Spec == Init /\ [][Next]_logVars
=============================================================================
