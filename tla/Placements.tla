---------------------------- MODULE Placements ----------------------------
(***************************************************************************)
(* Who may sit where.  A catalog row places one effort rung of a profile   *)
(* at a grade and behind a gate; the build carries a bundle of such rows   *)
(* and a list of E6 rungs, which are measured but not placed.  What the    *)
(* gate and the launcher have in common: names, seats, markers, the grade  *)
(* table made of a catalog (recommend.py, launch.py, bench.py).            *)
(*                                                                         *)
(* A host's view of the catalog is a record: its rows, its source and      *)
(* whether the source is degraded (CatalogView).                           *)
(***************************************************************************)
EXTENDS Absent, Integers, Sequences, FiniteSets

CONSTANTS Names,         \* the spellings a caller may use
          Alias,         \* PROFILE_ALIASES: [some names -> profiles]
          BarredNames,   \* BARRED_PROFILE_ALIASES
          Astra,         \* ASTRA_ROLE_PROFILES
          AstraSeats,    \* those removed: ASTRA_FORBIDDEN_SEATS
          Fable,         \* CONSULT_ONLY_PROFILES
          CreditProfiles, \* E6_WORKER_TESTER_ONLY_PROFILES
          BuilderAstra,  \* who may sit as builder in a round extension
          BundledConsult, \* profiles of CONSULT_ONLY_SNAPSHOT
          Trials,        \* UNGRADED_TRIAL_PROFILE_NAMES
          Arms,          \* E6_ARM_KEYS: a set of <<profile, effort>>
          Carrier,       \* [Arms -> grades] E6_ARM_CARRIER_GRADES
          Lowest,        \* the lowest grade; grades are 0 (best) .. Lowest
          Ladder,        \* the named efforts, cheapest first
          Preferred,     \* DEFAULT_LAUNCH_EFFORTS: [some profiles -> efforts]
          NoEffort       \* the effort of a profile's default row

Efforts == {Ladder[i] : i \in DOMAIN Ladder} \cup {NoEffort}
Gates == {"default", "escalation", "consult_only"}
Roles == {None, "worker", "tester", "builder", "reviewer", "captain"}
Purposes == {None, "director", "round-extension", "Round-Extension"}
\* What an operator's reference may be: a document, the experiment's task, a
\* round extension's document, or no reference at all.
Refs == {None, "doc", "experiment", "round-ext", "invalid"}

Canonical(name) == IF name \in DOMAIN Alias THEN Alias[name] ELSE name
CarrierGrade(p, e) == IF <<p, e>> \in Arms THEN Carrier[<<p, e>>] ELSE Lowest
Rank(e) == IF e = NoEffort THEN 0
           ELSE CHOOSE i \in DOMAIN Ladder : Ladder[i] = e
Key(row) == <<row.profile, row.effort>>
RowsOf(rows, p) == {r \in rows : r.profile = p}
Live(rows) == {r \in rows : ~r.retired}

------------------------------------------------------------------------------
(* Seats.  The comparison of a builder's purpose is exact, the others fold *)
(* case.                                                                   *)
RoundExtension(purpose) == purpose \in {"round-extension", "Round-Extension"}

RoundExtRoleAllowed(name, role, purpose, ref) ==
    \/ name \notin Astra \cup Fable
    \/ /\ name \notin AstraSeats /\ role \notin {"worker", "captain"}
       /\ role \in {"builder", "tester", "reviewer"} =>
             /\ role = "builder" =>
                   name \in BuilderAstra /\ purpose = "round-extension"
             /\ RoundExtension(purpose) /\ ref = "round-ext"

AstraPurposeAllowed(name, purpose, ref) ==
    /\ name \notin AstraSeats
    /\ purpose = "director" \/ (RoundExtension(purpose) /\ ref = "round-ext")

RefValid(ref) == ref # "invalid"

(* A credit profile's seats: its unmeasured rungs are for workers and      *)
(* testers, its placed ones for builders too, the latter only on a row     *)
(* with the default gate.                                                  *)
WorkerTesterDenied(p, role) == p \in CreditProfiles /\ role \notin {"worker", "tester"}
PlacedSeatDenied(p, role) ==
    p \in CreditProfiles /\ role \notin {"worker", "tester", "builder"}
BuilderSeatDenied(p, role, own) ==
    /\ p \in CreditProfiles /\ role = "builder"
    /\ ~\E r \in own : r.gate = "default"

------------------------------------------------------------------------------
(* The grade table.                                                        *)

(* The rows of a profile the table carries, over any effort.               *)
InTable(table, p) == RowsOf(table, p) # {}
E6Only(p, table) == (\E a \in Arms : a[1] = p) /\ ~InTable(table, p)

(* The table bundled with the code: the bundle without the rows for        *)
(* consultation, those on trial and the arms.                              *)
CodeTable(bundle) == {r \in bundle :
    r.profile \notin BundledConsult \cup Trials /\ Key(r) \notin Arms}

(* A key nobody has measured yet, and a row that only says so.             *)
UnmeasuredKey(p, e, bundle) == <<p, e>> \in Arms \/ E6Only(p, CodeTable(bundle))
UnmeasuredRow(r, bundle) ==
    UnmeasuredKey(r.profile, r.effort, bundle)
      /\ r.grade = CarrierGrade(r.profile, r.effort)

Placed(rows, bundle) ==
    {r \in Live(rows) : /\ r.gate # "consult_only" /\ r.profile \notin Trials
                         /\ ~UnmeasuredRow(r, bundle)}

(* A profile's default row gives way to the rungs that replace it.         *)
CatalogTable(rows, bundle) ==
    LET placed == Placed(rows, bundle)
        legacy == {r \in placed : r.effort = NoEffort /\ \E s \in placed :
                      /\ s.profile = r.profile /\ s.grade = r.grade
                      /\ s.effort # NoEffort}
        covered == {r.profile : r \in rows}
    IN (placed \ legacy)
         \cup {r \in CodeTable(bundle) : r.profile \notin covered}

(* A degraded or local view falls back on the code's table.                *)
RuntimeTable(view, bundle) ==
    IF view.source \in {"server", "cache", "cache-stale"} /\ view.rows # {}
    THEN CatalogTable(view.rows, bundle) ELSE CodeTable(bundle)

(* The rung a bare spelling starts on, and the one it is reported as.      *)
BestOf(rows) == {r \in rows : \A s \in rows : r.grade <= s.grade}
Cheapest(rows) == CHOOSE r \in rows : \A s \in rows : Rank(r.effort) <= Rank(s.effort)
PreferredOf(p) == IF p \in DOMAIN Preferred THEN Preferred[p] ELSE NoEffort
DefaultEffort(p, rows) ==
    LET ordinary == {r \in rows : r.gate = "default"}
        best == BestOf(IF ordinary # {} THEN ordinary ELSE rows)
        preferred == PreferredOf(p)
    IN IF preferred # NoEffort /\ \E r \in ordinary : r.effort = preferred
       THEN [row |-> preferred, shown |-> preferred]
       ELSE IF \E r \in best : r.effort = NoEffort
       THEN [row |-> NoEffort, shown |-> preferred]
       ELSE [row |-> Cheapest(best).effort, shown |-> Cheapest(best).effort]

------------------------------------------------------------------------------
(* A marker names one E6 rung, under the profile's canonical name.         *)
Marker(profile, effort) == [profile |-> profile, effort |-> effort]
Names_(marker, p) == marker # None /\ marker.profile = p
Matches(marker, p, e) == marker # None /\ e # None /\ marker = Marker(p, e)

(* The rungs a credit profile has been placed at in the bundle.            *)
CreditRungs(p, bundle) == {r.effort : r \in RowsOf(CodeTable(bundle), p)}
=============================================================================
