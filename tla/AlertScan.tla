------------------------------ MODULE AlertScan ------------------------------
(***************************************************************************)
(* What AlertService.EvaluateAllRules promises, whatever happens to the    *)
(* rules meanwhile: a scan deals with each rule that was stored when the   *)
(* scan began exactly once, a rule fires at most once in it, only a rule   *)
(* that was enabled at some moment of the scan fires, and every scan ends. *)
(* AlertEngine implements this.                                            *)
(***************************************************************************)
CONSTANT Rules

VARIABLES
  stored,   \* rules the store holds
  enabled,  \* rules that are enabled
  awake,    \* rules that have been enabled at some moment since the scan began
  pending,  \* rules the scan still has to deal with
  fired     \* rules for which the scan has stored an event
scanVars == <<stored, enabled, awake, pending, fired>>

Init ==
  /\ stored = {} /\ enabled = {} /\ awake = {}
  /\ pending = {} /\ fired = {}

ChangeRules ==
  /\ stored' \in SUBSET Rules
  /\ enabled' \in SUBSET Rules
  /\ awake' = awake \cup enabled'
  /\ UNCHANGED <<pending, fired>>

Begin ==
  /\ pending = {}
  /\ pending' = stored
  /\ awake' = enabled
  /\ fired' = {}
  /\ UNCHANGED <<stored, enabled>>

PassOver(r) ==
  /\ r \in pending
  /\ pending' = pending \ {r}
  /\ UNCHANGED <<stored, enabled, awake, fired>>

Fire(r) ==
  /\ r \in pending \cap awake
  /\ pending' = pending \ {r}
  /\ fired' = fired \cup {r}
  /\ UNCHANGED <<stored, enabled, awake>>

Next == ChangeRules \/ Begin \/ \E r \in Rules : PassOver(r) \/ Fire(r)

Safe == Init /\ [][Next]_scanVars

Spec == Safe /\ []<>(pending = {})
=============================================================================
