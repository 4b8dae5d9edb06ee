---------------------------- MODULE MCRuleService ----------------------------
(* Small instances of RuleService for TLC. *)
EXTENDS RuleService, TLC

Symmetry == Permutations(Ids) \cup Permutations(Requests)

(* One name in two places; the other name comes from a rename. *)
MCDrafts ==
  {[name |-> "n1", source |-> s, window |-> 1, threshold |-> 1, enabled |-> FALSE] :
     s \in {"", "a"}}

NoChange == [name |-> "", source |-> "", window |-> 0, threshold |-> 0, enabled |-> {}]

(* A rename, a move, and a move that validation rejects. *)
MCPatches ==
  {[NoChange EXCEPT !.name = "n2", !.enabled = {TRUE}],
   [NoChange EXCEPT !.source = "a"],
   [NoChange EXCEPT !.source = "b", !.window = 3]}
=============================================================================
