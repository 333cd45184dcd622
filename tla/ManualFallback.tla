--------------------------- MODULE ManualFallback ---------------------------
(***************************************************************************)
(* May what an operator recorded by hand stand in for an automatic         *)
(* measurement?  (manual.py: classify_automatic_failure, resolve_result)   *)
(*                                                                         *)
(* r is an automatic result; wording is the first pattern its error text   *)
(* matches, text is FALSE when there is no error to speak of.              *)
(***************************************************************************)
EXTENDS Absent

CONSTANTS ManualOnly,   \* pools with a prepaid credit (MANUAL_ONLY_POOLS)
          Required      \* [pool -> windows a manual fallback must cover]

(* What the automatic measurement amounts to (_auto_state).                *)
AutoState(r) ==
    LET success == ~r.error /\ ~r.warning /\ r.usable
    IN [fetched |-> r.fetched, success |-> success, fresh |-> success /\ ~r.stale]

FailureKind(r) ==
    CASE r.kind = "manual_only" -> "manual_only"
      [] r.kind # "manual_only" /\ ~r.text -> "no_failure"
      [] OTHER ->
           IF r.wording = "auth" THEN "auth"
           ELSE IF r.kind \in {"transport", "probe_timeout", "probe_in_progress"}
           THEN "transport"
           ELSE IF r.kind = "parse_error" THEN "parse_error"
           ELSE CASE r.wording = "rate" -> "transport"
                  [] r.wording = "parse" -> "parse_error"
                  [] OTHER -> "unsupported"

(* Whether the entries of r's pool, if there are any and those in active   *)
(* still count, are taken for r.                                           *)
Fallback(r, entries, active) ==
    CASE r.limited -> "observed_limit"
      [] ~r.limited /\ ~entries -> "no_entry"
      [] OTHER ->
           IF AutoState(r).fresh THEN "automatic_fresh"
           ELSE IF r.grouped THEN "unsupported_group_scope"
           ELSE IF r.over THEN "automatic_cutoff"
           ELSE IF FailureKind(r) = "auth" THEN "auth_failure"
           ELSE IF FailureKind(r) \notin
                     {"transport", "parse_error"}
                       \cup (IF r.pool \in ManualOnly THEN {"manual_only"} ELSE {})
           THEN "unsupported_failure"
           ELSE IF ~(Required[r.pool] \subseteq active) \/ active = {}
           THEN "incomplete_bucket_coverage"
           ELSE "manual_fallback"
=============================================================================
