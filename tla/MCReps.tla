------------------------------ MODULE MCReps ------------------------------
(***************************************************************************)
(* Measured repetitions: how one rep reaches the server among the writes   *)
(* of others (scene "one"), how two do (scene "two"), and how the grades   *)
(* follow from them (scene "grading").  The queue and the grades touch no  *)
(* common state, so that their interleavings would only multiply.          *)
(***************************************************************************)
EXTENDS PendingReps, Grading, TLC

CONSTANTS a1, a2, b1, b2, b3
VARIABLE scene  \* the subject

MCSymmetry == Permutations({a1, a2}) \cup Permutations({b1, b2, b3})

MCLadder == <<"low", "medium", "high">>
Run(e, t, k, g) ==
    [effort |-> e, task |-> t, kind |-> k, grade |-> g, flawed |-> FALSE, supersedes |-> FALSE,
     run |-> 0]
MCShapes ==
    {Run("low", "t1", "pass", 1), Run("medium", "t2", "pass", 2), Run("high", "t1", "pass", 2),
     Run("high", "t2", "pass", 2), Run("high", "t1", "fail", 1), Run("high", "t2", "fail", None),
     Run("high", "t1", "postmerge", 0),
     [Run("high", "t2", "pass", 2) EXCEPT !.supersedes = TRUE],
     [Run("low", "t2", "fail", 1) EXCEPT !.flawed = TRUE]}
Placing(g, l) == [grade |-> g, live |-> l]
Opening(low, medium, high) ==
    [e \in {"low", "medium", "high"} |->
        CASE e = "low" -> low [] e = "medium" -> medium [] e = "high" -> high]
MCStepped == Opening(Placing(0, TRUE), Placing(1, TRUE), Placing(1, TRUE))
MCOpenings ==
    {MCStepped, Opening(Placing(2, TRUE), Placing(1, FALSE), Placing(1, TRUE))}

(* A scene that is not played has one initial state.                       *)
Fixed(s) ==
    /\ s = "grading" => dialect = "ids"
    /\ s # "grading" => placed = MCStepped
Init == /\ scene \in {"one", "two", "grading"}
        /\ PendingInit /\ GradingInit
        /\ Fixed(scene)

(* The bounds of a scene: one rep that draws two keys, or two reps that    *)
(* draw three, with nobody else on the server and no page that is cut.     *)
AloneAmongOthers ==
    /\ Cardinality(drawn') <= 2
    /\ "s" \notin {client'[p].rep : p \in Clients} \cup {w[2] : w \in stored'}
TwoByThemselves ==
    /\ strangers' = 0
    /\ \A p \in Clients : client'[p].pc \in {"commit", "rewrite"} => client'[p].complete
(* The bound of the grades: one rung at a time is off the canon.           *)
OneRetired == Cardinality({e \in Efforts : ~placed'[e].live}) <= 1
Next ==
    /\ UNCHANGED scene
    /\ \/ scene = "one" /\ PendingNext /\ AloneAmongOthers /\ UNCHANGED gradingVars
       \/ scene = "two" /\ PendingNext /\ TwoByThemselves /\ UNCHANGED gradingVars
       \/ scene = "grading" /\ GradingNext /\ OneRetired /\ UNCHANGED pendingVars
Spec == Init /\ [][Next]_<<scene, pendingVars, gradingVars>>
=============================================================================
