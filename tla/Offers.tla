------------------------------- MODULE Offers -------------------------------
(***************************************************************************)
(* What `--recommend` makes of a listed row and the measurement of its     *)
(* pool (recommend.py, second half of the loop of _evaluate).  It has the  *)
(* steps of gate_check's judgement once more, in code of its own, and      *)
(* reports what it sees to exhaust.observe as the gate does.               *)
(*                                                                         *)
(* p, m and w are those of GateMeasure.                                    *)
(***************************************************************************)
EXTENDS GateMeasure

Lists(in, saw) == [in |-> in, saw |-> saw]

(* A row is judged on the windows of its model, where it has a scope of    *)
(* its own, or on those of the account.                                    *)
OwnScope(p, m) == p.kind = "swe2" /\ m # None /\ m.model # None
(* Slip: a plan's missing window is not asked for.                         *)
UnfitInPart(p, m) ==
    \/ m = None
    \/ p.kind = "swe2" /\ ~Swe2Current(m)
    \/ ~OwnScope(p, m) /\ (m.error \/ m.warning \/ (~Ok(m) /\ ~Accepted(m)) \/ Matched(m) = {})
Unfit(p, m) ==
    \/ m = None
    \/ p.kind = "swe2" /\ ~Swe2Current(m)
    \/ /\ ~OwnScope(p, m)
       /\ \/ m.error \/ m.warning \/ (~Ok(m) /\ ~Accepted(m))
          \/ m.strict /\ Missing(m) # {}
          \/ Matched(m) = {}
UsedUp(p, m, class) ==
    IF OwnScope(p, m) THEN m.model >= Cutoff(class) ELSE Over(m, class)

(* The list a row lands in.                                                *)
Offer(p, m, w) ==
    LET b == Billed(p, m, w)
        saw == IF OwnScope(p, b) THEN "nothing"
               ELSE IF UsedUp(p, b, w.class) THEN "over" ELSE "under"
    IN IF w.class = "exclude" THEN Lists("policy_excluded", "nothing")
       ELSE IF Unfit(p, b) THEN Lists("unmeasurable", "nothing")
       ELSE Lists(IF UsedUp(p, b, w.class) THEN "exhausted" ELSE "candidate", saw)

(* A row behind the escalation gate is listed apart, with a note on its    *)
(* pool.  The note asks for no policy: it reports on excluded pools too.   *)
EscalationNote(m, w) ==
    IF m.error \/ m.warning \/ (~Ok(m) /\ ~Accepted(m))
       \/ (m.strict /\ Missing(m) # {}) \/ Matched(m) = {}
    THEN Lists("escalation", "nothing")
    ELSE Lists("escalation", IF Over(m, w.class) THEN "over" ELSE "under")

------------------------------------------------------------------------------
(* A row the recommendation offers is one the gate admits on the same      *)
(* measurement, but for the jobs in flight, which only the gate counts;    *)
(* what the gate admits is on offer; what one cannot measure the other     *)
(* cannot, though the list may have dropped it for its pool's policy; and  *)
(* both say the same of the account to exhaust.observe.                    *)
AgreesWithGate(p, m, w) ==
    LET o == Offer(p, m, w)
        j == Judge(p, m, w)
        b == Billed(p, m, w)
    IN /\ o.in = "candidate" =>
             j.verdict = "ok" \/ (j.verdict = "refused" /\ ~OwnScope(p, b) /\ Crowded(b, w))
       /\ j.verdict = "ok" => o.in = "candidate"
       /\ o.in = "unmeasurable" => j.verdict \in {"unmeasured", "swe2_unmeasured"}
       /\ j.verdict \in {"unmeasured", "swe2_unmeasured"} =>
             o.in \in {"unmeasurable", "policy_excluded"}
       /\ o.saw = j.saw
=============================================================================
