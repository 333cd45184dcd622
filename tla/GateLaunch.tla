----------------------------- MODULE GateLaunch ----------------------------
(***************************************************************************)
(* A caller asks the gate, then launches.  Both judge the same request     *)
(* over what their host knows of the catalog, while operators move the     *)
(* canon: a rung changes grade or gate, is retired, or is given a barred   *)
(* model.  What a host knows is the canon, an earlier one it has cached,   *)
(* or the bundle (bench.py, read_catalog).                                 *)
(***************************************************************************)
EXTENDS Listing, LaunchResolve

CONSTANTS Subjects,     \* the profiles asked about
          Pushable,     \* [Subjects -> sets of rows] what may be published
          Requests,     \* [Subjects -> sets of requests]
          Bundle,       \* the rows and the arms the build carries
          MaxPushes

\* A request: what a caller names of a profile, and on whose word.
RequestForms ==
    [name : Names, effort : Efforts \cup {None},
     marker : [profile : Names, effort : Efforts] \cup {None},
     role : Roles, purpose : Purposes, ref : Refs, by : {None, "operator", "invalid"},
     pace : Refs, subscribed : BOOLEAN]

\* A row of the catalog.
RowForms ==
    [profile : Names, effort : Efforts, grade : 0 .. Lowest, gate : Gates,
     retired : BOOLEAN, barred : BOOLEAN]

\* A default row has no effort to ask for it by.
ASSUME RequestAssumption ==
    /\ \A p \in Subjects : Requests[p] \subseteq RequestForms
    /\ \A p \in Subjects : \A q \in Requests[p] : q.effort # NoEffort
    /\ None \notin Efforts \cup {"doc", "experiment", "round-ext", "invalid",
                                "worker", "tester", "builder", "reviewer", "captain"}
\* A catalog has one row for a rung.
ASSUME CatalogAssumption ==
    /\ MaxPushes \in Nat
    /\ Bundle \subseteq RowForms /\ \A p \in Subjects : Pushable[p] \subseteq RowForms
    /\ \A r, s \in Bundle : Key(r) = Key(s) => r = s
\* So the build's tables are: no row is retired; an arm is carried at its
\* grade, and its profile, if it has nothing else, at the lowest; no arm is of
\* a profile on trial or kept for consultation; an alias is of the same kind,
\* and the kinds do not overlap; what is borrowed is a named rung.
ASSUME TablesAssumption ==
    /\ Lowest \in Nat /\ Ladder \in Seq(Efforts)
    /\ \A r \in Bundle : ~r.retired /\ (Key(r) \in Arms => r.grade = Carrier[Key(r)])
    /\ Arms \subseteq Names \X Efforts
    /\ CreditProfiles \cap (Astra \cup Fable) = {}
    /\ \A b \in Borrowed : b.key[2] # NoEffort
    /\ \A a \in Arms : /\ a[1] \notin BundledConsult \cup Trials \cup Astra \cup Fable
                       /\ E6Only(a[1], CodeTable(Bundle)) => Carrier[a] = Lowest
    /\ \A n \in Names : \A kind \in {Astra, AstraSeats, Fable} :
          n \in kind <=> Canonical(n) \in kind

VARIABLES subject,  \* the profile in question
          canon,    \* the server's rows
          cached,   \* those of an earlier canon, which a host may hold
          pushes,   \* the number of publications so far
          view,     \* what the caller's host knows
          asked     \* the request and its two answers
launchVars == <<subject, canon, cached, pushes, view, asked>>

Answers(q, gate, launch) == [q |-> q, gate |-> gate, launch |-> launch]
Upsert(rows, row) == {r \in rows : Key(r) # Key(row)} \cup {row}

(* A higher effort is never placed below a lower one.                      *)
Ladderlike(rows, p) == \A r, s \in RowsOf(Live(rows), p) :
    (r.effort # NoEffort /\ s.effort # NoEffort /\ Rank(r.effort) < Rank(s.effort))
       => s.grade <= r.grade

(* A server may not have been seeded with all of the bundle.               *)
LaunchInit ==
    /\ subject \in Subjects
    /\ canon \in {Bundle, Bundle \ RowsOf(Bundle, subject)} /\ cached = canon
    /\ pushes = 0 /\ view = None /\ asked = None

Push == /\ pushes < MaxPushes /\ view = None
        /\ \E row \in Pushable[subject] \ canon :
              /\ canon' = Upsert(canon, row)
              /\ Ladderlike(canon', row.profile)
        /\ cached' \in {cached, canon}
        /\ pushes' = pushes + 1
        /\ UNCHANGED <<subject, view, asked>>

View(rows, source, stale) == [rows |-> rows, source |-> source, stale |-> stale]
Views(canonical, earlier) ==
    {View(canonical, "server", FALSE), View(earlier, "cache", FALSE),
     View(earlier, "cache-stale", TRUE), View(Bundle, "snapshot", TRUE),
     View(Bundle, "unsupported", FALSE)}
Serve == /\ view = None
         /\ view' \in Views(canon, cached)
         /\ UNCHANGED <<subject, canon, cached, pushes, asked>>

Ask == /\ view # None /\ asked = None
       /\ \E q \in Requests[subject] :
             asked' = Answers(q, Admission(q, World(view, Bundle)), Launch(q, view, Bundle))
       /\ UNCHANGED <<subject, canon, cached, pushes, view>>

LaunchNext == Push \/ Serve \/ Ask
LaunchSpec == LaunchInit /\ [][LaunchNext]_launchVars

------------------------------------------------------------------------------
LaunchTypeOK ==
    /\ subject \in Subjects /\ pushes \in 0 .. MaxPushes
    /\ \A rows \in {canon, cached} : \A r, s \in rows : Key(r) = Key(s) => r = s
    /\ view = None \/ view \in Views(canon, cached)
    /\ asked = None \/ asked.q \in Requests[subject]

Gate(q) == Admission(q, World(view, Bundle))
Resolves(q) == Launch(q, view, Bundle) = "resolved"

(* The caller names the rung, or no marker does it for them.               *)
Plain(q) == q.effort # None \/ ~Names_(q.marker, Canonical(q.name))
Catalogued(p) == RowsOf(view.rows \cup Bundle, p) # {}
(* A row with a barred model that the gate's table leaves out.             *)
BarUnseen(p) == \E r \in RowsOf(view.rows \cup Bundle, p) :
    r.barred /\ r \notin World(view, Bundle).table

(* What the gate lets through, the launcher starts: the two were written   *)
(* apart and read the same view.  In the exceptions the launcher is the    *)
(* stricter: a rung behind the escalation gate while the catalog is stale; *)
(* a rung without a row, when the row it falls back on is kept for         *)
(* consultation; a profile that has nothing but arms in the code, which    *)
(* only the gate may take for placed; a barred model on a row for          *)
(* consultation or one in the code that the catalog has replaced; a        *)
(* profile nobody has a row of; a rung only the marker names, which the    *)
(* launcher does not take it from (gate_check, resolve_launch).            *)
AdmittedLaunches ==
    (asked # None /\ asked.gate = "admitted" /\ asked.launch # "resolved") =>
       LET p == Canonical(asked.q.name)
           launch == asked.launch
       IN \/ launch = "stale"
          \/ launch = "consult_only" /\ <<p, Rung(asked.q)>> \notin {Key(r) : r \in view.rows}
          \/ launch \in {"e6_required", "e6_fallback", "retired"} /\ E6Only(p, CodeTable(Bundle))
          \/ launch \in {"barred", "row_barred"} /\ BarUnseen(p)
          \/ launch = "no_rows" /\ ~Catalogued(p)
          \/ launch \in {"no_rows", "retired", "consult_only"} /\ ~Plain(asked.q)

(* What the gate calls closed, no launch opens: a barred model, a retired  *)
(* rung, a seat a credit profile may not take, an arm with the wrong seat. *)
(* (The launcher has a pool from the catalog for a name without one.)      *)
Closed == {"barred", "unsubscribed", "credit_unnamed", "credit_unplaced", "credit_seat",
           "retired", "e6_seat", "e6_only", "unknown"}
ClosedStaysClosed ==
    (/\ asked # None /\ asked.gate \in Closed /\ Plain(asked.q)
     /\ asked.gate = "unknown" => ~Catalogued(Canonical(asked.q.name)))
       => asked.launch # "resolved"

(* An operator's reference opens a rung kept for consultation, the one     *)
(* experiment on a retired rung and a round extension's seat, and no other *)
(* refusal: it is not a key to the catalog.  (Without a reference nobody   *)
(* can be named who gave it.)                                              *)
ReferenceOpens ==
    (asked # None /\ asked.gate = "admitted" /\ asked.q.ref # None) =>
       LET bare == Gate([asked.q EXCEPT !.ref = None, !.by = None])
       IN \/ bare \in {"admitted", "consult_only"}
          \/ /\ bare = "retired" /\ asked.q.ref = "experiment"
             /\ asked.q.marker # None
          \/ /\ bare = "role" /\ asked.q.ref = "round-ext"
             /\ RoundExtension(asked.q.purpose)

(* A marker opens its own rung.  With the rung named it makes a difference *)
(* to no other request, be it to the gate or to the launcher.              *)
MarkerOpensItsRung ==
    (asked # None /\ asked.q.marker # None /\ asked.q.effort # None) =>
       LET bare == [asked.q EXCEPT !.marker = None]
           own == Matches(asked.q.marker, Canonical(asked.q.name), asked.q.effort)
       IN own \/ (asked.gate = Gate(bare) /\ (asked.launch = "resolved") = Resolves(bare))

(* What is offered as a candidate has a seat: some role and purpose with   *)
(* which the gate lets the row through and the launcher starts it, without *)
(* a marker and without an operator's reference.  What the list leaves out *)
(* of account is said by NotObtainable: an escalated rung that is borrowed *)
(* as an ordinary one, while the catalog is stale or has no row of the     *)
(* profile; a barred model on another row of the profile, be it in the     *)
(* catalog or in the code; what the name itself forbids; a rung of a       *)
(* credit profile that the code has not placed; and a default row, which   *)
(* is asked for by the bare name, when the effort that name is to start    *)
(* with is retired, behind a gate, or an arm of a profile without others.  *)
Seats(r) == [name : {r.profile}, effort : {IF r.effort = NoEffort THEN None ELSE r.effort},
             marker : {None}, role : Roles, purpose : Purposes, ref : {None},
             by : {None}, pace : {None}, subscribed : {TRUE}]
BarredSomewhere(p) == \E r \in RowsOf(Live(view.rows) \cup CodeTable(Bundle), p) : r.barred
\* What the catalog says of a profile, or the code of one it does not mention.
Told(p) == IF RowsOf(view.rows, p) # {} THEN RowsOf(view.rows, p) ELSE RowsOf(CodeTable(Bundle), p)
NotObtainable(r) ==
    LET p == r.profile
    IN \/ r.gate = "escalation" /\ (view.stale \/ RowsOf(view.rows, p) = {})
       \/ BarredSomewhere(p)
       \/ p \in Fable \cup AstraSeats \cup BarredNames \cup DOMAIN Alias
       \/ p \in CreditProfiles /\ r.effort \notin CreditRungs(p, Bundle) \ {NoEffort}
       \/ /\ r.effort = NoEffort
          /\ \/ E6Only(p, CodeTable(Bundle))
             \/ \E t \in Told(p) : t.effort = PreferredOf(p) /\ (t.retired \/ t.gate # "default")
Launchable(r, w) == \E q \in Seats(r) :
    Admission(q, w) = "admitted" /\ Launch(q, view, Bundle) = "resolved"
OffersAreLaunchable ==
    (view # None /\ asked = None) =>
       LET w == World(view, Bundle)
       IN \A g \in 0 .. Lowest, offered \in {{}, CreditProfiles} :
             \A e \in {d \in Entries(g, w, offered) :
                          Destination(d, g, offered, TRUE) = "candidate"} :
                Launchable(e.row, w) \/ NotObtainable(e.row)

(* The gate and the launcher agree on what is open and on what is closed.  *)
LauncherAgrees == LaunchTypeOK /\ AdmittedLaunches /\ ClosedStaysClosed
(* A key opens its own door.                                               *)
KeysOpenTheirOwn == ReferenceOpens /\ MarkerOpensItsRung
=============================================================================
