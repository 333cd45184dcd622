--------------------------- MODULE LaunchResolve ---------------------------
(***************************************************************************)
(* resolve_launch (launch.py): which catalog row a launch runs, or why it  *)
(* is refused.  It is written apart from the gate and judges the same      *)
(* request over the same view.                                             *)
(***************************************************************************)
EXTENDS Placements

BundleRows(bundle, p) == {r \in RowsOf(bundle, p) : Key(r) \notin Arms}
ArmRow(p, e) == [profile |-> p, effort |-> e, gate |-> "default", barred |-> FALSE,
                 grade |-> CarrierGrade(p, e), retired |-> FALSE]
ArmRows(p, e) == {ArmRow(a[1], a[2]) : a \in {b \in Arms : b = <<p, e>>}}
IsRetired(view, p, e) == \E r \in view.rows : r.retired /\ Key(r) = <<p, e>>

(* The effort asked for: an E6-only profile's may come from its marker.    *)
Named(q, bundle) ==
    LET p == Canonical(q.name)
    IN IF q.effort # None THEN q.effort
       ELSE IF Names_(q.marker, p) /\ E6Only(p, CodeTable(bundle))
       THEN q.marker.effort ELSE None

(* The one experiment that may run a retired rung.                         *)
ExperimentEffort(q, view, named) ==
    LET p == Canonical(q.name)
        e == IF named # None THEN named
             ELSE IF Names_(q.marker, p) THEN q.marker.effort ELSE None
    IN IF /\ IsRetired(view, p, e) /\ q.ref = "experiment"
          /\ Matches(q.marker, p, e)
       THEN e ELSE None

(* The live rows, the experiment's among them as a consultation.           *)
Candidates(p, view, experiment) ==
    RowsOf(Live(view.rows), p)
      \cup {[r EXCEPT !.gate = "consult_only", !.retired = FALSE] :
               r \in {s \in view.rows : experiment # None /\ Key(s) = <<p, experiment>> /\ s.retired}}

E6Open(q, e) == <<Canonical(q.name), e>> \in Arms /\ Matches(q.marker, Canonical(q.name), e)

(* Without its marker an unmeasured row is no answer to any request.       *)
Offers(p, bundle, candidates, open) ==
    {r \in candidates :
        \/ open
        \/ r.gate = "consult_only" /\ ~E6Only(p, CodeTable(bundle))
        \/ ~UnmeasuredRow(r, bundle)}

(* What the rows are taken from: the view, or the bundle for a profile the *)
(* view does not mention.                                                  *)
Rows(p, bundle, offers, e, open) ==
    LET bundled == BundleRows(bundle, p)
    IN IF offers # {} THEN offers
       ELSE IF bundled = {} /\ open THEN ArmRows(p, e) ELSE bundled

(* The request with what it comes to: its effort, whether that opens an    *)
(* arm, the candidates and the rows.                                       *)
Asked(q, view, bundle, experiment, named) ==
    [q |-> q, p |-> Canonical(q.name), view |-> view, bundle |-> bundle,
     experiment |-> experiment, effort |-> IF experiment # None THEN experiment ELSE named]
Opened(a) ==
    [ask |-> a, open |-> E6Open(a.q, a.effort),
     candidates |-> Candidates(a.p, a.view, a.experiment)]
Drawn(o) ==
    LET a == o.ask
        offers == Offers(a.p, a.bundle, o.candidates, o.open)
    IN [ask |-> a, open |-> o.open, candidates |-> o.candidates,
        fromBundle |-> offers = {}, rows |-> Rows(a.p, a.bundle, offers, a.effort, o.open)]
Request(q, view, bundle) ==
    LET named == Named(q, bundle)
    IN Drawn(Opened(Asked(q, view, bundle, ExperimentEffort(q, view, named), named)))

Resolved(d) ==
    IF d.ask.effort # None THEN d.ask.effort ELSE DefaultEffort(d.ask.p, d.rows).shown

(* The rung's own row, its arm if that is open, else the fallback's.       *)
OwnRow(d, e) ==
    LET own == {r \in d.rows : r.effort = e}
    IN IF own = {} /\ d.open /\ ~IsRetired(d.ask.view, d.ask.p, e)
       THEN ArmRows(d.ask.p, e) ELSE own
LaunchRow(d, own) ==
    IF own # {} THEN own
    ELSE {r \in d.rows : r.effort = DefaultEffort(d.ask.p, d.rows).row}

(* What the later refusals look at, when there are rows.                   *)
Found(d, e, own) ==
    [drawn |-> d, ask |-> d.ask, resolved |-> e, own |-> own, row |-> LaunchRow(d, own)]
Settled(d) ==
    LET e == Resolved(d)
    IN Found(d, e, OwnRow(d, e))

OpenedArm(f) ==
    /\ f.drawn.open
    /\ \E r \in f.own : r.grade = CarrierGrade(r.profile, r.effort)

------------------------------------------------------------------------------
(* The refusals, each over what the steps before it leave.                 *)
LaunchBarred(d) ==
    \/ d.ask.q.name \in BarredNames
    \/ \E r \in RowsOf(CodeTable(d.ask.bundle), d.ask.p) : r.barred
RowBarred(d) == \E r \in d.candidates : r.barred
LaunchRole(q) ==
    \/ ~RoundExtRoleAllowed(q.name, q.role, q.purpose, q.ref)
    \/ /\ q.name \in Astra
       /\ q.name \in AstraSeats \/ RoundExtension(q.purpose)
       /\ ~AstraPurposeAllowed(q.name, q.purpose, q.ref)
CreditRung(a) == a.p \in CreditProfiles /\ a.q.effort \notin CreditRungs(a.p, a.bundle)
ArmUnmarked(d) ==
    LET a == d.ask
    IN /\ ~d.open
       /\ \/ /\ a.q.ref # None
             /\ \E r \in d.candidates : /\ r.effort = a.effort /\ r.gate # "consult_only"
                                        /\ UnmeasuredRow(r, a.bundle)
          \/ /\ d.fromBundle /\ RowsOf(a.view.rows, a.p) # {}
             /\ E6Only(a.p, CodeTable(a.bundle))
NoRows(d) ==
    /\ d.fromBundle
    /\ \/ RowsOf(d.ask.view.rows, d.ask.p) # {} \/ d.rows = {}
       \/ d.ask.view.source = "snapshot"
RungRetired(f) == f.own = {} /\ IsRetired(f.ask.view, f.ask.p, f.resolved)
ArmFallback(f) == f.own = {} /\ E6Only(f.ask.p, CodeTable(f.ask.bundle))
LaunchSeat(f) ==
    LET p == f.ask.p
        role == f.ask.q.role
    IN IF OpenedArm(f) THEN WorkerTesterDenied(p, role)
       ELSE PlacedSeatDenied(p, role) \/ BuilderSeatDenied(p, role, f.own)
LaunchUnsubscribed(q) == ~q.subscribed
ConsultSatisfied(p, ref, purpose) ==
    IF p \in Astra /\ (p \in AstraSeats \/ RoundExtension(purpose))
    THEN AstraPurposeAllowed(p, purpose, ref)
    ELSE ref # None \/ (p \in Astra /\ AstraPurposeAllowed(p, purpose, None))
LaunchConsult(f) ==
    \E r \in f.row :
       r.gate = "consult_only" /\ ~ConsultSatisfied(f.ask.p, f.ask.q.ref, f.ask.q.purpose)
StaleGate(f) ==
    /\ f.ask.view.stale \/ f.drawn.fromBundle
    /\ f.ask.q.ref = None
    /\ \E r \in f.row : r.gate = "escalation"

RequestOrder == <<"barred", "role", "ref", "credit_rung", "row_barred", "e6_required", "no_rows">>
RequestRefuses(why, d) ==
    CASE why = "barred" -> LaunchBarred(d)
      [] why = "role" -> LaunchRole(d.ask.q)
      [] why = "ref" -> ~RefValid(d.ask.q.ref)
      [] why = "credit_rung" -> CreditRung(d.ask)
      [] why = "row_barred" -> RowBarred(d)
      [] why = "e6_required" -> ArmUnmarked(d)
      [] why = "no_rows" -> NoRows(d)
LaunchOrder == <<"retired", "e6_fallback", "seat", "unsubscribed", "consult_only", "stale">>
LaunchRefuses(why, f) ==
    CASE why = "retired" -> RungRetired(f)
      [] why = "e6_fallback" -> ArmFallback(f)
      [] why = "seat" -> LaunchSeat(f)
      [] why = "unsubscribed" -> LaunchUnsubscribed(f.ask.q)
      [] why = "consult_only" -> LaunchConsult(f)
      [] why = "stale" -> StaleGate(f)
FirstOf(order, holding) == order[CHOOSE i \in holding : \A j \in holding : i <= j]
Verdict(d) ==
    LET early == {i \in DOMAIN RequestOrder : RequestRefuses(RequestOrder[i], d)}
        late == {i \in DOMAIN LaunchOrder : LaunchRefuses(LaunchOrder[i], Settled(d))}
    IN IF early # {} THEN FirstOf(RequestOrder, early)
       ELSE IF late # {} THEN FirstOf(LaunchOrder, late) ELSE "resolved"
Launch(q, view, bundle) == Verdict(Request(q, view, bundle))
=============================================================================
