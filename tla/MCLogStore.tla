----------------------------- MODULE MCLogStore -----------------------------
(* Small instances of LogStore for TLC. *)
EXTENDS LogStore

CONSTANTS s1, s2, info, error, Upper, lower

MCSources == {s1, s2}
MCLevels == {info, error}
MCKeywords == {Upper, lower}

(* normalizeKW maps the upper-case spelling to the lower-case one. *)
MCNorm == [k \in MCKeywords |-> lower]

(* Two sources; an entry of the first repeats a keyword in two spellings.   *)
MCProfiles ==
  {[source |-> s1, level |-> info,  keywords |-> <<Upper, lower>>],
   [source |-> s2, level |-> error, keywords |-> <<lower>>]}

Symmetry == Permutations(Ids) \cup Permutations(Clients)
=============================================================================
