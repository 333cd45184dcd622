---------------------------- MODULE GateCommand ----------------------------
(***************************************************************************)
(* `scopefuel gate` (cli.py, _gate_command) from the collected result to   *)
(* the exit code.  A result that cannot be judged is looked at again: a    *)
(* swe2 profile has its pool probed anew; any other has the last values    *)
(* judged as if they could be trusted, which may refuse and never admits,  *)
(* and then the operator's own entries in their place.                     *)
(*                                                                         *)
(* Every one of these judgements asks anew for the policy, the jobs, the   *)
(* shared documents and manual.json, which others change meanwhile, and    *)
(* every one reports what it saw of the account to exhaust.observe.        *)
(***************************************************************************)
EXTENDS Offers

CONSTANTS Asks,    \* requests: kind, ref, others
          Measures,     \* what collect may return for the pool
          Remeasured,   \* those among them that may come later
          Worlds,       \* what the host may know when it starts
          MaxChanges    \* bound on what others change

Classes == {"preserve", "spend", "exclude"}
Requested == [kind : {"plain", "grouped", "swe2", "fusion", "escalation", "unquotaed"},
              ref : BOOLEAN, others : BOOLEAN]
Situated == [class : Classes, local : Nat, remote : Nat, measure : Measurement,
             shared : Measurement \cup {None}, manual : Usages]

(* The pool is one that a provider measures.                               *)
ASSUME GateAssumption ==
    /\ GatePool \notin ManualOnly /\ None \notin Levels \cup Measurement
    /\ MaxChanges \in Nat
    /\ Asks \subseteq Requested /\ Measures \cup Remeasured \subseteq Measurement
    /\ \A w \in Worlds, m \in Measures : [w EXCEPT !.measure = m] \in Situated

VARIABLES ask,       \* what the caller asks, over and over
          world,     \* class, jobs, shared result, manual entries, and the
                     \* result the pool's provider or cache has now
          cmd,       \* the command: its request, result, step and exit code
          recorded,  \* the pool's episode is in exhaust-notify.json
          notices,   \* notices sent since anything last changed
          seen,      \* history: the worlds since the command began
          changes
gateVars == <<ask, world, cmd, recorded, notices, seen, changes>>

Command(p, m, at) == [p |-> p, m |-> m, at |-> at, basis |-> "provider", code |-> 0]
Running == cmd # None /\ cmd.at # "done"

(* exhaust.observe for a pool whose on_exhaust is operator-switch.  The    *)
(* count of notices stops at Many.                                         *)
Many == 2
Observe(saw) ==
    /\ recorded' = IF saw = "nothing" THEN recorded ELSE saw = "over"
    /\ notices' = IF saw = "over" /\ ~recorded /\ notices < Many
                  THEN notices + 1 ELSE notices

GateCollect ==
    /\ ~Running
    /\ cmd' = Command(ask, world.measure, "judge")
    /\ seen' = {world}
    /\ UNCHANGED <<ask, world, recorded, notices, changes>>

(* Exit codes; a --gate-output that cannot be written outranks them all.   *)
CodeOf(verdict) == CASE verdict = "ok" -> 0 [] verdict = "refused" -> 3 [] OTHER -> 4
Finish(verdict, basis, m) ==
    \E unwritten \in BOOLEAN :
        cmd' = [cmd EXCEPT !.at = "done", !.basis = basis, !.m = m,
                           !.code = IF unwritten THEN 2 ELSE CodeOf(verdict)]

Dispatch(verdict, m, probed) ==
    CASE verdict = "swe2_unmeasured" /\ ~probed ->
            cmd' = [cmd EXCEPT !.at = "probe", !.m = m]
      [] verdict = "unmeasured" -> cmd' = [cmd EXCEPT !.at = "snapshot", !.m = m]
      [] OTHER -> Finish(verdict, m.source, m)

FirstJudgement ==
    /\ cmd # None /\ cmd.at = "judge"
    /\ LET j == Judge(cmd.p, cmd.m, world)
       IN Observe(j.saw) /\ Dispatch(j.verdict, cmd.m, FALSE)
    /\ UNCHANGED <<ask, world, seen, changes>>

(* refresh_swe2_result is asked for, or the old verdict stands.            *)
Probe ==
    /\ cmd # None /\ cmd.at = "probe"
    /\ IF world.class = "exclude" \/ (~cmd.m.stale /\ ~cmd.m.aged)
       THEN Finish("swe2_unmeasured", cmd.m.source, cmd.m) /\ UNCHANGED <<recorded, notices>>
       ELSE \/ Finish("swe2_unmeasured", cmd.m.source, cmd.m) /\ UNCHANGED <<recorded, notices>>
            \/ \E m \in Remeasured : LET j == Judge(cmd.p, m, world)
               IN Observe(j.saw) /\ Dispatch(j.verdict, m, TRUE)
    /\ UNCHANGED <<ask, world, seen, changes>>

Trusted(m) == [m EXCEPT !.error = FALSE, !.warning = FALSE, !.stale = FALSE]
(* confirmed_automatic_cutoff: of the account's own windows.               *)
Confirmed(p, m, class) == p.kind # "grouped" /\ class # "exclude" /\ Over(m, class)

Snapshot ==
    /\ cmd # None /\ cmd.at = "snapshot"
    /\ IF /\ FailureKind(cmd.m) # "auth" /\ Matched(cmd.m) # {}
          /\ cmd.m.fetched # None \/ Confirmed(cmd.p, cmd.m, world.class)
       THEN LET j == Judge(cmd.p, Trusted(cmd.m), world)
            IN /\ Observe(j.saw)
               /\ IF j.verdict = "refused" THEN Finish("refused", "snapshot", cmd.m)
                  ELSE cmd' = [cmd EXCEPT !.at = "manual"]
       ELSE cmd' = [cmd EXCEPT !.at = "manual"] /\ UNCHANGED <<recorded, notices>>
    /\ UNCHANGED <<ask, world, seen, changes>>

(* The manual entries in force as a result of their own: it belongs to no  *)
(* account, and a plan's windows are those of the fallback.                *)
ManualResult == [Result(world.manual) EXCEPT !.source = "manual", !.match = "unknown",
                                             !.own = FALSE]
Resolution(p, m) ==
    LET active == {x \in GateWindows : world.manual[x] # None}
        r == [pool |-> m.pool, error |-> m.error, warning |-> m.warning, stale |-> m.stale,
              kind |-> m.kind, text |-> m.text, wording |-> m.wording, fetched |-> m.fetched,
              usable |-> Matched(m) # {}, over |-> Confirmed(p, m, world.class),
              grouped |-> p.kind = "grouped", limited |-> FALSE]
    IN Fallback(r, active # {}, active)

Manual ==
    /\ cmd # None /\ cmd.at = "manual"
    /\ IF Resolution(cmd.p, cmd.m) = "manual_fallback"
       THEN LET j == Judge(cmd.p, ManualResult, world)
            IN Observe(j.saw) /\ Finish(j.verdict, "manual", cmd.m)
       ELSE Finish("unmeasured", cmd.m.source, cmd.m) /\ UNCHANGED <<recorded, notices>>
    /\ UNCHANGED <<ask, world, seen, changes>>

(* Meanwhile: another command, another host, an operator.  A change before *)
(* the first judgement is one before the command.                          *)
Disturb(next) ==
    /\ Running /\ cmd.at # "judge" /\ changes < MaxChanges
    /\ world' = next /\ next # world
    /\ changes' = changes + 1 /\ seen' = seen \cup {next} /\ notices' = 0
    /\ UNCHANGED <<ask, cmd, recorded>>
SetClass == \E c \in Classes : Disturb([world EXCEPT !.class = c])
JobStarts == world.local + world.remote = 0 /\ Disturb([world EXCEPT !.remote = 1])
EnterByHand == \E x \in GateWindows, v \in {None, Kept} :
                  Disturb([world EXCEPT !.manual[x] = v])
Measured == \E m \in Remeasured : Disturb([world EXCEPT !.measure = m])

GateInit ==
    /\ ask \in Asks /\ \E w \in Worlds, m \in Measures : world = [w EXCEPT !.measure = m]
    /\ cmd = None /\ recorded = FALSE /\ notices = 0
    /\ seen = {} /\ changes = 0
GateNext == GateCollect \/ FirstJudgement \/ Probe \/ Snapshot \/ Manual
               \/ SetClass \/ JobStarts \/ EnterByHand \/ Measured
GateSpec == GateInit /\ [][GateNext]_gateVars

------------------------------------------------------------------------------
GateTypeOK ==
    /\ cmd = None \/ cmd.code \in {0, 2, 3, 4}
    /\ recorded \in BOOLEAN /\ (cmd # None => world \in seen)
    /\ world.class \in Classes
    /\ changes \in 0 .. MaxChanges /\ notices \in 0 .. Many

Admitted == cmd # None /\ cmd.at = "done" /\ cmd.code = 0
OwnWindows == {"plain", "grouped", "escalation"}

(* A pool whose measurement shows a window at its cutoff stays shut,       *)
(* whatever became of the probe since, whatever an operator entered beside *)
(* it, and whichever of the judgements had the last word: there was a      *)
(* moment while the command ran at which the policy left it room.          *)
ExhaustedStaysShut ==
    /\ GateTypeOK
    /\ (Admitted /\ cmd.p.kind \in OwnWindows) =>
          \E w \in seen : w.class # "exclude" /\
             \A x \in GateWindows : cmd.m.used[x] # None => cmd.m.used[x] < Cutoff(w.class)

(* What admits without a measurement of now is complete: every required    *)
(* window was known, by the last measurement or by hand, and left room; it *)
(* is not an account known to be another's, and not a login that failed.   *)
NotFreshIsWhole ==
    (Admitted /\ cmd.p.kind \in OwnWindows /\ ~Ok(cmd.m)) =>
        /\ \E w \in seen : LET used == IF cmd.basis = "manual" THEN w.manual ELSE cmd.m.used
           IN \A x \in GateWindows : used[x] # None /\ used[x] < Cutoff(w.class)
        /\ cmd.basis # "manual" => cmd.m.match # "other" /\ ~cmd.m.old
        /\ cmd.basis = "manual" => FailureKind(cmd.m) \in {"transport", "parse_error"}

(* The recommendation and the gate agree on what the pool has left for     *)
(* every row that is not listed apart, and on what they tell of one that   *)
(* is.                                                                     *)
OffersAgree ==
    /\ \A k \in {"plain", "grouped", "swe2", "fusion"} :
          AgreesWithGate([ask EXCEPT !.kind = k], world.measure, world)
    /\ world.class # "exclude" =>
          EscalationNote(world.measure, world).saw = OnWindows(world.measure, world).saw

(* While nothing changes, the operator is told once (exhaust.py, module    *)
(* docstring: one notice per episode).                                     *)
GateNotifiesOnce == notices <= 1
=============================================================================
