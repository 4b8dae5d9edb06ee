---------------------------- MODULE MCAlertEngine ----------------------------
(* A small instance of AlertEngine for TLC: one rule that requests edit and *)
(* one whose window wraps, two entries of two sources.                      *)
EXTENDS AlertEngine, TLC

Watched == [enabled |-> TRUE, source |-> "app", level |-> "ERROR",
            window |-> 1, threshold |-> 1]
Wrapped == [enabled |-> TRUE, source |-> "", level |-> "ERROR",
            window |-> -1, threshold |-> 1]

MCSources == {"", "app", "db"}
MCLevels == {"", "ERROR"}
MCRules == {"r1", "r2"}
MCDrafts == ("r1" :> {Watched}) @@ ("r2" :> {Wrapped})
MCKinds == {[source |-> "app", level |-> "ERROR"], [source |-> "db", level |-> "ERROR"]}
MCEdits ==
  {[rule |-> "r1", field |-> f.field, value |-> f.value] :
     f \in {[field |-> "enabled", value |-> FALSE], [field |-> "enabled", value |-> TRUE],
            [field |-> "threshold", value |-> 2], [field |-> "source", value |-> ""]}}
=============================================================================
