---------------------------- MODULE GateMeasure ----------------------------
(***************************************************************************)
(* The second half of gate_check (recommend.py): an admitted request is    *)
(* judged on a measurement of its pool.  Percentages are levels: at Room   *)
(* the next job fits under every cutoff, at Tight it does not fit under    *)
(* that of a preserve pool, Kept is that cutoff and Spent the one of a     *)
(* spend pool (PRESERVE_EXCLUDE_PCT, SPEND_EXCLUDE_PCT).                   *)
(*                                                                         *)
(* m is a result as collect returns it (see Result), w what the host knows *)
(* when it asks: the class of the pool, the jobs in flight here and on     *)
(* other hosts, the account the pool's fusion profile is billed to as its  *)
(* shared document measures it.  p is the request.                         *)
(***************************************************************************)
EXTENDS Integers, FiniteSets, ManualFallback

CONSTANT GatePool       \* the pool of the profile asked about

Levels == 0 .. 3
Room == 0   Tight == 1   Kept == 2   Spent == 3
GateWindows == Required[GatePool]

(* A result without failure, and what makes it less (model.py).            *)
Result(used) ==
    [pool |-> GatePool, source |-> "provider", error |-> FALSE, warning |-> FALSE,
     stale |-> FALSE, kind |-> "none", text |-> FALSE, wording |-> "other",
     fetched |-> 1, used |-> used, model |-> None, aged |-> FALSE, old |-> FALSE,
     ahead |-> TRUE, match |-> "same", own |-> TRUE, strict |-> FALSE]
(* What collect returns; never the operator's own entries.                 *)
Usages == [GateWindows -> Levels \cup {None}]
Measurement ==
    [pool : {GatePool}, source : {"provider", "remote"}, error : BOOLEAN, warning : BOOLEAN,
     stale : BOOLEAN, kind : STRING, text : BOOLEAN, wording : STRING,
     fetched : Int \cup {None}, used : Usages, model : Levels \cup {None}, aged : BOOLEAN,
     old : BOOLEAN, ahead : BOOLEAN, match : {"same", "other", "unknown"}, own : BOOLEAN,
     strict : BOOLEAN]
Ok(m) == ~m.error /\ ~m.stale /\ ~m.warning
Matched(m) == {x \in GateWindows : m.used[x] # None}
Missing(m) == GateWindows \ Matched(m)

Cutoff(class) == IF class = "spend" THEN Spent ELSE Kept
(* Slip: the window that is looked at is the one with the most left.       *)
OverAll(m, class) ==
    Matched(m) # {} /\ \A x \in Matched(m) : m.used[x] >= Cutoff(class)
Over(m, class) == \E x \in Matched(m) : m.used[x] >= Cutoff(class)

------------------------------------------------------------------------------
(* A stale result that may be judged as if it were fresh.                  *)
StaleFailure(m) ==
    \/ m.kind \in {"probe_in_progress", "rate_limited", "server", "network", "transport"}
    \/ m.kind = "none" /\ FailureKind(m) = "transport"
(* Slip: one window is enough.                                             *)
AcceptedInPart(m) ==
    /\ m.stale /\ ~m.error /\ ~m.warning /\ StaleFailure(m)
    /\ IF m.kind = "probe_in_progress" THEN m.match # "other" ELSE m.match = "same"
    /\ ~m.old /\ m.ahead /\ Matched(m) # {}
Accepted(m) ==
    /\ m.stale /\ ~m.error /\ ~m.warning /\ StaleFailure(m)
    /\ IF m.kind = "probe_in_progress" THEN m.match # "other" ELSE m.match = "same"
    /\ ~m.old /\ m.ahead
    /\ Matched(m) # {} /\ Missing(m) = {}

(* The result a fusion profile is judged on: that of the account it is     *)
(* billed to, measured here or by another host.                            *)
Billed(p, m, w) == IF p.kind # "fusion" \/ m.own THEN m ELSE w.shared

(* Every job in flight reserves a level of each required window.           *)
Crowded(m, w) ==
    LET n == w.local + (IF m.source = "manual" THEN 0 ELSE w.remote)
    IN \E x \in Matched(m) :
          m.used[x] < Cutoff(w.class) /\ Cutoff(w.class) <= m.used[x] + n

Swe2Current(m) ==
    /\ ~m.error /\ ~m.stale /\ m.source # "manual" /\ ~m.aged
    /\ m.warning => m.wording # "model"

------------------------------------------------------------------------------
(* saw: what exhaust.observe is told of the account on the way.            *)
Says(verdict, saw) == [verdict |-> verdict, saw |-> saw]

(* A result to judge on: fresh or accepted, and with the windows of a      *)
(* listed plan.                                                            *)
Measurable(m) ==
    /\ ~m.error /\ ~m.warning /\ (Ok(m) \/ Accepted(m))
    /\ m.strict => Missing(m) = {}
    /\ Matched(m) # {}

(* The judgement on the account's windows.                                 *)
OnWindows(m, w) ==
    IF w.class = "exclude" THEN Says("refused", "nothing")
    ELSE IF ~Measurable(m) THEN Says("unmeasured", "nothing")
    ELSE IF Over(m, w.class) THEN Says("refused", "over")
    ELSE Says(IF Crowded(m, w) THEN "refused" ELSE "ok", "under")

(* A swe2 profile is judged on its model's own scope.                      *)
Swe2Scope(p, m, w) == /\ p.kind = "swe2" /\ w.class # "exclude"
                      /\ Swe2Current(m) => m.model # None
OnScope(m, w) ==
    IF ~Swe2Current(m) THEN Says("swe2_unmeasured", "nothing")
    ELSE Says(IF m.model >= Cutoff(w.class) THEN "refused" ELSE "ok", "nothing")

(* A row behind the escalation gate opens when the others of its grade are *)
(* used up, or at an operator's request.                                   *)
Escalates(p) == p.kind \in {"escalation", "unquotaed"}
Unescalated(p) == Escalates(p) /\ p.others /\ ~p.ref

Judge(p, m, w) ==
    LET b == Billed(p, m, w)
    IN IF Unescalated(p) THEN Says("refused", "nothing")
       ELSE IF p.kind = "unquotaed" THEN Says("ok", "nothing")
       ELSE IF Swe2Scope(p, m, w) THEN OnScope(m, w)
       ELSE IF b = None THEN Says("unmeasured", "nothing")
       ELSE OnWindows(b, w)
=============================================================================
