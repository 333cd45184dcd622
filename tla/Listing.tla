------------------------------ MODULE Listing ------------------------------
(***************************************************************************)
(* What `--recommend` lists at a grade before it looks at any measurement  *)
(* (recommend.py, first half of _evaluate): the rows placed at the grade,  *)
(* those of the grade above that qualify, those an operator has listed one *)
(* grade below their own, and where each of them goes.                     *)
(*                                                                         *)
(* g is the grade, w the world of GateAdmission, offered the credit        *)
(* profiles whose pool has credit left (credit_row_offered).               *)
(***************************************************************************)
EXTENDS GateAdmission

CONSTANTS RepMeasured,  \* keys that qualify one grade below their own
          Sol,          \* _SOL_PROFILES
          Grok,         \* profiles not listed below GrokFloor
          GrokFloor,    \* GROK_MIN_LISTED_GRADE
          Borrowed      \* BORROWED_RUNGS: the key, the grade and gate it is listed at

Entry(row, as, gate) == [row |-> row, as |-> as, gate |-> gate]

Unbarred(w) == {r \in w.table : ~r.barred}

OwnRows(g, w) == {r \in Unbarred(w) : r.grade = g}
OneUpRows(g, w) ==
    {r \in OwnRows(g - 1, w) :
        r.gate = "default" /\ r.profile \notin Sol /\ Key(r) \in RepMeasured}
(* A borrowed listing is inert unless its rung is placed one grade above.  *)
BorrowedEntries(g, w) ==
    UNION {{Entry(r, "borrowed", b.gate) : r \in {s \in OwnRows(g - 1, w) : Key(s) = b.key}} :
              b \in {c \in Borrowed : c.at = g}}
(* An arm that is nowhere placed, while there is credit for it.            *)
OfferedArms(g, w, offered) ==
    LET known == {Key(r) : r \in Unbarred(w)}
        canon == IF w.table = CodeTable(w.bundle) THEN Arms
                 ELSE {Key(r) : r \in Live(w.view.rows)}
    IN {[profile |-> a[1], effort |-> a[2], grade |-> g, gate |-> "default",
         retired |-> FALSE, barred |-> FALSE] :
            a \in {b \in Arms \cap canon : g = Lowest /\ b[1] \in offered /\ b \notin known}}

Entries(g, w, offered) ==
    LET borrowed == BorrowedEntries(g, w)
    IN {Entry(r, "own", r.gate) : r \in OwnRows(g, w) \cup OfferedArms(g, w, offered)}
         \cup {Entry(r, "one_up", r.gate) :
                  r \in OneUpRows(g, w) \ {e.row : e \in borrowed}}
         \cup borrowed

(* Where an entry goes; a candidate goes on to be measured.                *)
Unmeasured(e, offered) ==
    /\ Key(e.row) \in Arms /\ e.row.grade = CarrierGrade(e.row.profile, e.row.effort)
    /\ e.row.profile \notin offered
Destination(e, g, offered, subscribed) ==
    CASE e.row.gate = "consult_only" -> "consult_only"
      [] e.row.gate # "consult_only" /\ g > GrokFloor /\ e.row.profile \in Grok -> "grok"
      [] OTHER -> IF Unmeasured(e, offered) THEN "e6_unmeasured"
                  ELSE IF ~subscribed THEN "unsubscribed"
                  ELSE IF e.gate = "escalation" THEN "escalation" ELSE "candidate"
=============================================================================
