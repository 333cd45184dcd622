------------------------------ MODULE Grading ------------------------------
(***************************************************************************)
(* Grades from measured repetitions (grades.py).  Repetitions of one       *)
(* profile's rungs are recorded; an operator computes a proposal from them *)
(* and the canon, applies it, which checks it against the evidence again   *)
(* and stamps the catalog, and pushes the stamped rows (bench.py).  The    *)
(* canon must never place a higher effort below a lower one.               *)
(*                                                                         *)
(* A grade is its strength, 0 the weakest.  The canon places every effort; *)
(* repetitions are in the order of their recorded_at, which is recency.    *)
(***************************************************************************)
EXTENDS Absent, Integers, Sequences, FiniteSets, FiniteSetsExt

CONSTANTS Operators,
          Ladder,      \* the efforts, cheapest first
          Unspelled,   \* the effort of a repetition that names none
          Preferred,   \* the launcher's default effort
          Top,         \* the best grade; grades are 0 .. Top
          Tasks,       \* what the repetitions were runs of
          Shapes,      \* what a repetition may record, of no run yet
          Thresholds,  \* the --min-passes operators ask for
          DemoteWindow, \* DEMOTE_WINDOW
          RateOf,      \* DEMOTE_FAIL_RATE in fifths
          Openings,    \* the canons to start from
          MaxReps     \* a bound of the model

VARIABLES reps,    \* the repetitions, oldest first
          placed,  \* the canon: [efforts -> [grade, live]]
          op       \* [Operators -> what the operator is doing]
gradingVars == <<reps, placed, op>>

Efforts == {Ladder[i] : i \in DOMAIN Ladder}
Rank(e) == CHOOSE i \in DOMAIN Ladder : Ladder[i] = e
Grades == 0 .. Top
Placements == [Efforts -> [grade : Grades, live : BOOLEAN]]
(* What a repetition showed; "other" is a pass that proves no grade.       *)
Failures == {"fail", "postmerge"}
Kinds == {"pass", "other"} \cup Failures
Repetitions == [effort : Efforts \cup {Unspelled}, task : Tasks, kind : Kinds,
                grade : Grades \cup {None}, flawed : BOOLEAN, supersedes : BOOLEAN, run : Nat]

ASSUME GradingAssumption ==
    /\ DemoteWindow \in Nat \ {0} /\ Thresholds \subseteq Nat \ {0} /\ Top \in Nat
    /\ Ladder \in Seq(Efforts) /\ None \notin Efforts
    /\ Shapes \subseteq Repetitions /\ Openings \subseteq Placements /\ MaxReps \in Nat

GradingIdle == [pc |-> "idle", shown |-> None, rows |-> None]
GradingInit ==
    /\ reps = <<>>
    /\ placed \in Openings
    /\ op = [o \in Operators |-> GradingIdle]

------------------------------------------------------------------------------
(* Which rung a repetition measured: the effort it names, else the one the *)
(* catalog starts the profile on.  It counts only on a live row.           *)
DefaultEffort(rows) ==
    LET live == {e \in Efforts : rows[e].live}
        best == {e \in live : \A f \in live : rows[f].grade <= rows[e].grade}
    IN IF live = {} THEN None
       ELSE IF Preferred \in live THEN Preferred
       ELSE CHOOSE e \in best : \A f \in best : Rank(e) <= Rank(f)
RungOf(rep, rows) ==
    LET e == IF rep.effort = Unspelled THEN DefaultEffort(rows) ELSE rep.effort
    IN IF e = None THEN None ELSE IF rows[e].live THEN e ELSE None

(* Not evidence: a repetition the next one supersedes, one with a flaw: it *)
(* contradicts itself, was no coding, ran another model or names no task.  *)
Superseded(seq, i) == i < Len(seq) /\ seq[i + 1].supersedes
Sound(seq, rows) == {i \in DOMAIN seq :
    ~Superseded(seq, i) /\ ~seq[i].flawed /\ RungOf(seq[i], rows) # None}

(* One run recorded under two spellings counts once, preferably as a       *)
(* repetition that names its effort, the first of them; one task counts    *)
(* once on a rung, by its latest repetition.                               *)
OncePerRun(seq, among) ==
    LET Group(i) == {j \in among : seq[j].run = seq[i].run}
        Named(i) == {j \in Group(i) : seq[j].effort # Unspelled}
    IN {i \in among :
          \/ \A j \in Group(i) : seq[j].effort = seq[i].effort
          \/ i = Min(IF Named(i) # {} THEN Named(i) ELSE Group(i))}
(* Slip: a task counts by its earliest repetition.                         *)
FirstPerTask(seq, among, rows) == {i \in among :
    \A j \in among : (seq[j].task = seq[i].task /\ RungOf(seq[j], rows) = RungOf(seq[i], rows))
       => i <= j}
OncePerTask(seq, among, rows) == {i \in among :
    \A j \in among : (seq[j].task = seq[i].task /\ RungOf(seq[j], rows) = RungOf(seq[i], rows))
       => j <= i}
Counted(seq, rows) == OncePerTask(seq, OncePerRun(seq, Sound(seq, rows)), rows)

------------------------------------------------------------------------------
(* One rung's verdict over what counts on it.                              *)
Result(action, target) == [action |-> action, target |-> target]
Latest(S, n) == {i \in S : Cardinality({j \in S : j > i}) < n}
(* A demotion goes below the easiest task failed.                          *)
Below(seq, against, current) ==
    Max({0, Min({(IF seq[i].grade = None THEN current ELSE seq[i].grade) - 1 : i \in against})})
RungVerdict(seq, own, current, least) ==
    LET fails == {i \in own : seq[i].kind \in Failures}
        passes(g) == {i \in own : seq[i].kind = "pass" /\ seq[i].grade = g}
        recent == Latest(own, DemoteWindow)
        against == {i \in fails \cap recent : seq[i].grade = None \/ seq[i].grade \in 0 .. current}
        rated == Cardinality(against) >= 2
                   /\ 5 * Cardinality(against) >= RateOf * Cardinality(recent)
        qualifying == {g \in Grades : Cardinality(passes(g)) >= least}
    IN IF rated \/ \E i \in against : seq[i].kind = "postmerge"
       THEN IF current \in qualifying THEN Result("conflicted", current)
            ELSE Result("demote", Below(seq, against, current))
       ELSE IF fails # {} THEN Result("blocked", current)
       ELSE IF qualifying = {} THEN Result("insufficient", current)
       ELSE IF Max(qualifying) > current THEN Result("promote", Max(qualifying))
       ELSE Result("hold", current)

Results(seq, rows, least) ==
    LET counted == Counted(seq, rows)
        On(e) == {i \in counted : RungOf(seq[i], rows) = e}
    IN [e \in {f \in Efforts : rows[f].live} |-> RungVerdict(seq, On(e), rows[e].grade, least)]
Changes(results, rows) == {e \in DOMAIN results :
    results[e].action \in {"promote", "demote"} /\ results[e].target # rows[e].grade}

------------------------------------------------------------------------------
(* The ladder, the canon with some changes made.  The first rung placed    *)
(* below the one before it breaks it.                                      *)
Merged(rows, targets, offered) ==
    [e \in {f \in Efforts : rows[f].live \/ f \in offered} |->
        IF e \in offered THEN targets[e] ELSE rows[e].grade]
Lower(ladder, e) == {f \in DOMAIN ladder : Rank(f) < Rank(e)}
Under(ladder, e) == CHOOSE f \in Lower(ladder, e) : \A g \in Lower(ladder, e) : Rank(g) <= Rank(f)
Inversions(ladder) == {e \in DOMAIN ladder :
    Lower(ladder, e) # {} /\ ladder[e] < ladder[Under(ladder, e)]}
First(inversions) == CHOOSE e \in inversions : \A f \in inversions : Rank(e) <= Rank(f)

(* Changes that would break it are withdrawn, one inversion at a time: the *)
(* rung itself when its present grade would do, else whatever raised a     *)
(* lower rung above it, else, where the canon was broken before, all.      *)
Withdrawn(rows, targets, offered) ==
    LET ladder == Merged(rows, targets, offered)
        e == First(Inversions(ladder))
        raisers == {f \in offered : Rank(f) < Rank(e) /\ targets[f] > ladder[e]}
    IN IF e \in offered /\ rows[e].grade >= ladder[Under(ladder, e)] THEN {e}
       ELSE IF raisers # {} THEN raisers ELSE offered
Applyable(rows, targets, changes) ==
    LET Kept[offered \in SUBSET changes] ==
            IF offered = {} \/ Inversions(Merged(rows, targets, offered)) = {} THEN offered
            ELSE Kept[offered \ Withdrawn(rows, targets, offered)]
    IN Kept[changes]

(* A proposal: its digest binds the evidence and the canon it was made of. *)
Proposal(seq, rows, least) ==
    LET results == Results(seq, rows, least)
        targets == [e \in DOMAIN results |-> results[e].target]
    IN [digest |-> <<seq, rows, least>>, least |-> least, targets |-> targets,
        open |-> Applyable(rows, targets, Changes(results, rows))]

------------------------------------------------------------------------------
(* A repetition is recorded; a run may be recorded a second time, under    *)
(* another spelling of its rung.                                           *)
Record == /\ Len(reps) < MaxReps
          /\ \E shape \in Shapes : reps' = Append(reps, [shape EXCEPT !.run = Len(reps) + 1])
          /\ UNCHANGED <<placed, op>>
RecordTwin ==
    /\ Len(reps) \in 1 .. MaxReps - 1
    /\ \E e \in (Efforts \cup {Unspelled}) \ {reps[Len(reps)].effort} :
          reps' = Append(reps, [reps[Len(reps)] EXCEPT !.effort = e, !.supersedes = FALSE])
    /\ UNCHANGED <<placed, op>>

(* A rung is retired, whoever does it.                                     *)
Retire == /\ \E e \in Efforts : placed[e].live /\ placed' = [placed EXCEPT ![e].live = FALSE]
          /\ UNCHANGED <<reps, op>>

(* grades propose, grades apply: apply computes the proposal again and     *)
(* refuses one that is not the one shown; the operator approves what is    *)
(* open of it, or a part of that which keeps the ladder.                   *)
Propose(o) == /\ op[o].pc = "idle"
              /\ \E least \in Thresholds :
                    op' = [op EXCEPT ![o] = [pc |-> "shown", rows |-> None,
                                             shown |-> Proposal(reps, placed, least)]]
              /\ UNCHANGED <<reps, placed>>
(* Slip: the digest is not compared.                                       *)
SameAnyway(shown, live) == TRUE
SameDigest(shown, live) == shown.digest = live.digest
Apply(o) ==
    /\ op[o].pc = "shown"
    /\ LET live == Proposal(reps, placed, op[o].shown.least)
       IN IF ~SameDigest(op[o].shown, live) THEN op' = [op EXCEPT ![o] = GradingIdle]
          ELSE \E approved \in {live.open} \cup ((SUBSET live.open) \ {{}}) :
                  /\ Inversions(Merged(placed, live.targets, approved)) = {} \/ approved = {}
                  /\ op' = IF approved = {} THEN [op EXCEPT ![o] = GradingIdle]
                           ELSE [op EXCEPT ![o] = [pc |-> "stamped", shown |-> op[o].shown,
                                                   rows |-> [e \in approved |-> live.targets[e]]]]
    /\ UNCHANGED <<reps, placed>>

(* bench push-catalog: the rows are written, live, over those the server   *)
(* has unless they break the ladder there.                                 *)
PushRows(o) ==
    /\ op[o].pc = "stamped"
    /\ LET rows == op[o].rows
           kept == Inversions(Merged(placed, rows, DOMAIN rows)) = {}
       IN placed' = IF ~kept THEN placed
                    ELSE [e \in Efforts |-> IF e \in DOMAIN rows THEN [grade |-> rows[e], live |-> TRUE]
                                            ELSE placed[e]]
    /\ op' = [op EXCEPT ![o] = GradingIdle]
    /\ UNCHANGED reps

GradingNext == \/ Record \/ RecordTwin \/ Retire
               \/ \E o \in Operators : Propose(o) \/ Apply(o) \/ PushRows(o)
GradingSpec == GradingInit /\ [][GradingNext]_gradingVars

------------------------------------------------------------------------------
GradingTypeOK ==
    /\ placed \in Placements /\ reps \in Seq(Repetitions) /\ Len(reps) <= MaxReps
    /\ \A o \in Operators :
          /\ op[o].pc \in {"idle", "shown", "stamped"}
          /\ op[o].pc = "idle" => op[o] = GradingIdle
          /\ op[o].pc # "idle" => op[o].shown.open \subseteq Efforts
          /\ op[o].pc = "shown" => op[o].rows = None
          /\ op[o].pc = "stamped" => /\ DOMAIN op[o].rows \subseteq Efforts
                                     /\ \A e \in DOMAIN op[o].rows : op[o].rows[e] \in Grades

(* A promotion is earned: as many tasks as it takes were passed cleanly at *)
(* its grade on this rung, and no task's last word on it is a failure,     *)
(* whatever was recorded twice, superseded or recorded again (_evaluate_   *)
(* row, _collapse_task_repeats).                                           *)
On(e) == {i \in Sound(reps, placed) : RungOf(reps[i], placed) = e}
Twins(i) == {j \in Sound(reps, placed) : j # i /\ reps[j].run = reps[i].run}
EarnedPromotion ==
    \A least \in Thresholds : \A e \in DOMAIN Results(reps, placed, least) :
       LET r == Results(reps, placed, least)[e] IN
       r.action = "promote" =>
          /\ r.target > placed[e].grade
          /\ Cardinality({reps[i].task : i \in {j \in On(e) : reps[j].kind = "pass"
                                              /\ reps[j].grade = r.target}}) >= least
          /\ \A i \in On(e) : (reps[i].kind \in Failures /\ Twins(i) = {}) =>
                \E j \in On(e) : j > i /\ reps[j].task = reps[i].task

(* A run recorded under two spellings never speaks for two rungs           *)
(* (_collapse_alias_duplicates).                                           *)
RunCountsOnce ==
    \A i, j \in Counted(reps, placed) : reps[i].run = reps[j].run => i = j

(* The evidence settles: with the open changes made, the same repetitions  *)
(* ask for no other change of the rungs changed.  Not so where a failure   *)
(* has no grade, which demotes again each time, or where the changes move  *)
(* the rung of the repetitions that name none (_evaluate_row).             *)
ChangesSettle == \A least \in Thresholds :
    LET p == Proposal(reps, placed, least)
        after == [e \in Efforts |-> IF e \in p.open THEN [placed[e] EXCEPT !.grade = p.targets[e]]
                                    ELSE placed[e]]
        again == Changes(Results(reps, after, least), after)
    IN \A e \in p.open \cap again :
          \/ \E i \in On(e) : reps[i].kind \in Failures /\ reps[i].grade = None
          \/ DefaultEffort(placed) # DefaultEffort(after)

(* What is stamped is what the operator was shown, though other operators  *)
(* publish and repetitions are recorded in between (apply_proposals).      *)
StampedAsShown ==
    \A o \in Operators : op[o].pc = "stamped" =>
       \A e \in DOMAIN op[o].rows : e \in op[o].shown.open
                                      /\ op[o].rows[e] = op[o].shown.targets[e]

(* What is open can be written as it is, and a change is withheld for a    *)
(* conflict: it breaks the ladder with those that are kept, or crosses     *)
(* another that is withheld.  (The latter need not have stood itself: of   *)
(* two changes that cross, and a placement only one of them goes with,     *)
(* both may be lost: _apply_monotonicity_blocks.)                          *)
Crosses(e, f, targets) == Rank(e) < Rank(f) /\ targets[e] > targets[f]
HasCause(e, rows, targets, kept, withheld) ==
    \/ Inversions(Merged(rows, targets, kept \cup {e})) # {}
    \/ \E f \in withheld : Crosses(e, f, targets) \/ Crosses(f, e, targets)
WithheldForCause == \A least \in Thresholds :
    LET p == Proposal(reps, placed, least)
        changes == Changes(Results(reps, placed, least), placed)
    IN /\ p.open = {} \/ Inversions(Merged(placed, p.targets, p.open)) = {}
       /\ \A e \in changes \ p.open : HasCause(e, placed, p.targets, p.open, changes \ p.open)

(* A canon whose ladder was in order stays so, whatever part of a proposal *)
(* is pushed and whichever rungs are retired (catalog_monotonicity_        *)
(* violations): a step breaks no ladder.                                   *)
InOrder == Inversions(Merged(placed, placed, {})) = {}
LadderKept == [][InOrder => InOrder']_gradingVars

(* No repetition counts for more than it measured.                         *)
EvidenceCounts == EarnedPromotion /\ RunCountsOnce
(* What a proposal asks for can be made, is what was shown, and settles.   *)
ProposalsHold == GradingTypeOK /\ ChangesSettle /\ StampedAsShown /\ WithheldForCause
=============================================================================
