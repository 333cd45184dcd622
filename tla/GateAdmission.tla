--------------------------- MODULE GateAdmission ---------------------------
(***************************************************************************)
(* The first half of gate_check (recommend.py): may this request be judged *)
(* on quota at all, and as which row?  Every refusal has a condition of    *)
(* its own; the first one that holds, in the order of the code, is the     *)
(* answer.                                                                 *)
(*                                                                         *)
(* q is the request.  w is what the caller read of the world: the catalog  *)
(* view, the build's bundle and the table made of them (cli.py).           *)
(***************************************************************************)
EXTENDS Placements

CONSTANT Poolless   \* names profile_pool knows no provider for

World(view, bundle) ==
    [view |-> view, bundle |-> bundle, table |-> RuntimeTable(view, bundle)]

RetiredRungs(view) == {Key(r) : r \in {s \in view.rows : s.retired}}
ConsultRungs(view) == {Key(r) : r \in {s \in Live(view.rows) : s.gate = "consult_only"}}

(* What a spelling without an effort would run, for the rules about rungs. *)
PolicyContext(q, w) ==
    LET p == Canonical(q.name)
        own == RowsOf(w.view.rows, p)
        rows == {r \in Live(own) : r.gate = "consult_only" \/ ~UnmeasuredRow(r, w.bundle)}
        default == DefaultEffort(p, rows)
        none == [resolved |-> None, row |-> None, retired |-> FALSE]
    IN IF own # {} /\ Live(own) = {} THEN [none EXCEPT !.retired = TRUE]
       ELSE IF q.effort # None \/ Names_(q.marker, p) \/ rows = {} THEN none
       ELSE [resolved |-> default.shown, retired |-> FALSE,
             row |-> IF \E r \in rows : r.effort = default.shown
                     THEN default.shown ELSE default.row]

------------------------------------------------------------------------------
(* The rung in question: the one named, or the one a marker of this        *)
(* profile names.                                                          *)
Rung(q) == IF q.effort # None THEN q.effort
           ELSE IF Names_(q.marker, Canonical(q.name)) THEN q.marker.effort ELSE None

RungRow(q, w) == {r \in RowsOf(w.table, Canonical(q.name)) : r.effort = Rung(q)}
FoundRow(q, w) ==
    LET own == RowsOf(w.table, Canonical(q.name))
        ordinary == {r \in own : r.gate = "default"}
    IN {CHOOSE r \in BestOf(IF ordinary # {} THEN ordinary ELSE own) : TRUE : x \in own}

(* What the rules below judge: the world, the context, the rung's row and  *)
(* the one the profile is found by.                                        *)
Situation(q, w) ==
    [view |-> w.view, bundle |-> w.bundle, table |-> w.table,
     context |-> PolicyContext(q, w), row |-> RungRow(q, w), found |-> FoundRow(q, w)]

RetiredEffort(q, s) == IF Rung(q) # None THEN Rung(q) ELSE s.context.resolved
ConsultEffort(q, s) == IF Rung(q) # None THEN Rung(q) ELSE s.context.row

RetiredRung(q, s) == <<Canonical(q.name), RetiredEffort(q, s)>> \in RetiredRungs(s.view)
(* The one experiment that may run a retired rung.                         *)
(* Slip: its reference alone revives one.                                  *)
ExperimentUnmarked(q, s) == RetiredRung(q, s) /\ q.ref = "experiment"
Experiment(q, s) ==
    /\ RetiredRung(q, s) /\ q.ref = "experiment"
    /\ Matches(q.marker, Canonical(q.name), RetiredEffort(q, s))

ConsultByCatalog(q, s) ==
    \/ q.name \in Fable
    \/ /\ Canonical(q.name) \notin Astra
       /\ <<Canonical(q.name), ConsultEffort(q, s)>> \in ConsultRungs(s.view)
    \/ Experiment(q, s)
Consult(q, s) ==
    \/ ConsultByCatalog(q, s)
    \/ \E r \in IF s.row # {} THEN s.row ELSE s.found :
          r.gate = "consult_only"

(* An unmeasured E6 rung is in question.                                   *)
E6Row(q, s) ==
    LET p == Canonical(q.name)
    IN /\ <<p, Rung(q)>> \in Arms
       /\ ~ /\ ConsultByCatalog(q, s) /\ p \notin CreditProfiles
            /\ ~E6Only(p, s.table)
       /\ \A r \in s.row : r.grade = CarrierGrade(p, Rung(q))
E6Admitted(q, s) == E6Row(q, s) /\ Matches(q.marker, Canonical(q.name), Rung(q))

(* The row the request is judged as, if any.                               *)
Judged(q, s) ==
    IF Consult(q, s) /\ q.name \notin Fable THEN {}
    ELSE IF E6Admitted(q, s)
    THEN {[profile |-> Canonical(q.name), effort |-> Rung(q), gate |-> "default",
           grade |-> CarrierGrade(Canonical(q.name), Rung(q)),
           retired |-> FALSE, barred |-> FALSE]}
    ELSE IF s.row # {} THEN s.row ELSE s.found

------------------------------------------------------------------------------
(* The refusals.                                                           *)
Barred(q, s) ==
    \/ q.name \in BarredNames
    \/ \E r \in RowsOf(s.table, Canonical(q.name)) : r.barred
RoleRestricted(q, s) ==
    \/ ~RoundExtRoleAllowed(q.name, q.role, q.purpose, q.ref)
    \/ q.name \in Astra /\ ~AstraPurposeAllowed(q.name, q.purpose, q.ref)
Unsubscribed(q, s) == ~q.subscribed
BadAudit(q, s) ==
    \/ q.by # None /\ q.ref = None
    \/ ~RefValid(q.ref) \/ ~RefValid(q.pace) \/ q.by = "invalid"
CreditUnnamed(q, s) == Canonical(q.name) \in CreditProfiles /\ q.effort = None
CreditUnplaced(q, s) ==
    /\ Canonical(q.name) \in CreditProfiles /\ Rung(q) # None
    /\ Rung(q) \notin CreditRungs(Canonical(q.name), s.bundle)
(* Slip: the catalog's own word on a rung is not asked for.                *)
CreditSeatByRow(q, s) ==
    LET p == Canonical(q.name)
    IN PlacedSeatDenied(p, q.role) \/ BuilderSeatDenied(p, q.role, s.found)
CreditSeat(q, s) ==
    LET p == Canonical(q.name)
    IN \/ PlacedSeatDenied(p, q.role)
       \/ BuilderSeatDenied(p, q.role, s.row)
       \/ /\ q.role = "builder" /\ p \in CreditProfiles
          /\ <<p, Rung(q)>> \in ConsultRungs(s.view)
Retired(q, s) ==
    /\ RetiredRung(q, s) \/ s.context.retired
    /\ ~Experiment(q, s)
E6Unmarked(q, s) == E6Row(q, s) /\ ~E6Admitted(q, s)
E6Seat(q, s) == E6Admitted(q, s) /\ WorkerTesterDenied(Canonical(q.name), q.role)
NotApplicable(q, s) ==
    /\ q.ref # None
    /\ \A r \in Judged(q, s) : r.gate # "escalation"
    /\ ~Consult(q, s) /\ ~E6Admitted(q, s)
    /\ ~ /\ q.name \in Astra /\ RoundExtension(q.purpose)
         /\ AstraPurposeAllowed(q.name, q.purpose, q.ref)
ConsultUnasked(q, s) == Consult(q, s) /\ q.ref = None
E6OnlyUnmarked(q, s) ==
    /\ E6Only(Canonical(q.name), s.table)
    /\ ~E6Admitted(q, s) /\ ~Consult(q, s)
UnknownProfile(q, s) == Judged(q, s) = {} /\ q.name \in Poolless

GateOrder == <<"barred", "role", "unsubscribed", "audit", "credit_unnamed",
    "credit_unplaced", "credit_seat", "retired", "e6_required", "e6_seat",
    "not_applicable", "consult_only", "e6_only", "unknown">>
Refuses(why, q, s) ==
    CASE why = "barred" -> Barred(q, s)
      [] why = "role" -> RoleRestricted(q, s)
      [] why = "unsubscribed" -> Unsubscribed(q, s)
      [] why = "audit" -> BadAudit(q, s)
      [] why = "credit_unnamed" -> CreditUnnamed(q, s)
      [] why = "credit_unplaced" -> CreditUnplaced(q, s)
      [] why = "credit_seat" -> CreditSeat(q, s)
      [] why = "retired" -> Retired(q, s)
      [] why = "e6_required" -> E6Unmarked(q, s)
      [] why = "e6_seat" -> E6Seat(q, s)
      [] why = "not_applicable" -> NotApplicable(q, s)
      [] why = "consult_only" -> ConsultUnasked(q, s)
      [] why = "e6_only" -> E6OnlyUnmarked(q, s)
      [] why = "unknown" -> UnknownProfile(q, s)

Admission(q, w) ==
    LET s == Situation(q, w)
        holding == {i \in DOMAIN GateOrder : Refuses(GateOrder[i], q, s)}
    IN IF holding = {} THEN "admitted"
       ELSE GateOrder[CHOOSE i \in holding : \A j \in holding : i <= j]
=============================================================================
