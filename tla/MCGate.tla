------------------------------- MODULE MCGate -------------------------------
(***************************************************************************)
(* Three scenes around the gate: the request against the catalog, with one *)
(* profile of every kind the gate tells apart (an ordinary one with an arm *)
(* above its placements, one behind the escalation gate, the two kept for  *)
(* consultation, a credit profile, one that only has arms, one whose model *)
(* in the code is barred and one that is new); the command that judges an  *)
(* admitted request on quota; and the operator's own entries it may fall   *)
(* back on.                                                                *)
(***************************************************************************)
EXTENDS ManualStore, Gate, TLC

CONSTANTS sonnet, claudeSonnet, opus, codexAstra, captainAstra, fable,
          dsflash, terra, oldTerra, terra56, fresh, unlisted,
          noEffort, low, high, max

VARIABLE scene  \* the subject

Row(profile, effort, grade, gate) ==
    [profile |-> profile, effort |-> effort, grade |-> grade, gate |-> gate,
     retired |-> FALSE, barred |-> FALSE]

MCArms == {<<sonnet, max>>, <<terra, low>>, <<terra, high>>}
MCCarrier == [a \in MCArms |-> IF a[1] = sonnet THEN 1 ELSE 3]
MCArmRows == {Row(a[1], a[2], MCCarrier[a], "default") : a \in MCArms}
MCBundle == MCArmRows \cup
    {Row(sonnet, low, 2, "default"), Row(sonnet, high, 1, "default"),
     Row(opus, high, 1, "escalation"),
     Row(codexAstra, noEffort, 0, "consult_only"), Row(fable, noEffort, 0, "consult_only"),
     [Row(oldTerra, high, 2, "default") EXCEPT !.barred = TRUE],
     Row(dsflash, low, 3, "default"), Row(dsflash, high, 2, "consult_only")}

MCAlias == [n \in {claudeSonnet} |-> sonnet]
MCLadder == <<low, high, max>>
MCPreferred ==
    [p \in {sonnet, opus, codexAstra, dsflash, terra} |->
        IF p = terra \/ p = codexAstra THEN max ELSE high]
MCRepMeasured == {<<sonnet, high>>, <<opus, high>>}
MCBorrowed ==
    {[key |-> <<sonnet, high>>, at |-> 2, gate |-> "default"],
     [key |-> <<opus, high>>, at |-> 2, gate |-> "default"]}
MCPushable ==
    [p \in Subjects |->
        CASE p = sonnet -> {[r EXCEPT !.gate = g] : r \in {Row(sonnet, high, 1, "default")},
                                                    g \in {"escalation", "consult_only"}}
                 \cup {[Row(sonnet, high, 1, "default") EXCEPT !.retired = TRUE],
                       [Row(sonnet, high, 1, "default") EXCEPT !.barred = TRUE],
                       [Row(sonnet, low, 2, "consult_only") EXCEPT !.barred = TRUE],
                       [Row(sonnet, max, 1, "default") EXCEPT !.retired = TRUE],
                       Row(sonnet, max, 1, "default"), Row(sonnet, max, 0, "escalation")}
          [] p = opus -> {Row(opus, high, 1, "default"), Row(opus, low, 2, "default"),
                          Row(opus, low, 1, "consult_only"), Row(opus, noEffort, 0, "consult_only"),
                          Row(opus, noEffort, 0, "default"),
                          [Row(opus, high, 1, "default") EXCEPT !.retired = TRUE]}
          [] p \in {codexAstra, fable} ->
                {Row(p, noEffort, 0, "default"), Row(p, noEffort, 0, "escalation"),
                 [Row(p, noEffort, 0, "consult_only") EXCEPT !.retired = TRUE]}
          [] p = dsflash -> {Row(dsflash, high, 2, "default"), Row(dsflash, low, 3, "consult_only"),
                             Row(dsflash, max, 2, "default"),
                             [Row(dsflash, low, 3, "default") EXCEPT !.retired = TRUE]}
          [] p = terra -> {Row(terra, high, 2, "default"), Row(terra, high, 3, "consult_only"),
                           Row(terra, noEffort, 2, "default"),
                           [Row(terra, high, 3, "default") EXCEPT !.retired = TRUE],
                           [Row(terra, max, 3, "default") EXCEPT !.retired = TRUE]}
          [] p = oldTerra -> {Row(oldTerra, high, 2, "default"), Row(oldTerra, low, 3, "default")}
                              \cup {Row(n, max, 1, "default") : n \in {claudeSonnet, captainAstra, terra56}}
          [] p = fresh -> {Row(fresh, high, 1, "default"), Row(fresh, high, 1, "consult_only")}]
MCRequests ==
    [p \in Subjects |->
        [name: CASE p = oldTerra -> {oldTerra, claudeSonnet} [] p = codexAstra -> {codexAstra, captainAstra}
                 [] p = fresh -> {fresh, unlisted, terra56}
                 [] OTHER -> {p},
         effort: CASE p \in {codexAstra, fable} -> {None, high} [] p = oldTerra -> {None, low, high}
                   [] OTHER -> {None, low, high, max},
         marker: {None} \cup [profile : {p}, effort : {high}]
                   \cup (IF p = opus THEN [profile : {sonnet}, effort : {high}] ELSE {})
                   \cup (IF p \in {sonnet, opus, terra}
                         THEN [profile : {p}, effort : {IF p = opus THEN low ELSE max}] ELSE {}),
         role: IF p \in {dsflash, codexAstra, fable} THEN {None, "worker", "builder"} ELSE {None},
         purpose: CASE p = codexAstra -> {None, "director", "round-extension", "Round-Extension"}
                    [] p = fable -> {None, "round-extension"} [] OTHER -> {None},
         ref: CASE p \in {sonnet, opus, terra} -> {None, "doc", "experiment"}
                [] p = codexAstra -> {None, "doc", "round-ext", "invalid"}
                [] p = fable -> {None, "experiment", "round-ext"}
                [] OTHER -> {None, "doc"},
         by: {None}, pace: {None}, subscribed: {TRUE}]]

------------------------------------------------------------------------------
MCSymmetry == Permutations(Values)
MCRequired == [p \in Pools \cup {GatePool} |-> IF p = GatePool THEN {"w5h", "w7d"} ELSE IF p \in ManualOnly THEN {Credit} ELSE Rolling]
MCLegacy == {[event |-> "set", pool |-> p, window |-> Credit, used |-> u,
              measured |-> 0, entered |-> 0, expires |-> x, day |-> d,
              policy |-> "none", supersedes |-> 0] :
                p \in ManualOnly, u \in Values,
                x \in 1 .. MaxTtl, d \in {1}}

(* The automatic results a gate may come with: a fresh one, a failed or    *)
(* stale probe, with the date of the success before it, and one reason     *)
(* against a fallback at most.                                             *)
AutoCase(pool, error, stale, fetched, reason) ==
    [pool |-> pool, error |-> error, warning |-> FALSE, stale |-> stale, usable |-> TRUE,
     fetched |-> fetched, over |-> reason = "over", kind |-> "transport", text |-> TRUE,
     wording |-> IF reason = "auth" THEN "auth" ELSE "other",
     limited |-> reason = "limited", grouped |-> FALSE]
Reasons == {"none", "over", "limited", "auth"}
MCAutoCases ==
    {AutoCase(p, e, s, 1, x) : p \in Pools, e \in BOOLEAN, s \in BOOLEAN, x \in Reasons}
      \cup {AutoCase(p, e, FALSE, None, x) : p \in Pools, e \in BOOLEAN, x \in Reasons}

------------------------------------------------------------------------------
(* What collect returns for a pool of two windows: a fresh result, one the *)
(* provider warned about, a snapshot after a failure, a failure with what  *)
(* could be read of the answer.                                            *)
MCUsed == {[x \in GateWindows |-> IF x = "w5h" THEN Kept ELSE Room],
           [x \in GateWindows |-> IF x = "w5h" THEN Room ELSE None]}
            \cup {[x \in GateWindows |-> l] : l \in {None, Room, Tight, Spent}}
MCFailures == {<<"probe_in_progress", "other">>, <<"network", "auth">>, <<"none", "rate">>,
               <<"none", "auth">>}
MCStale(u, f) ==
    {[Result(u) EXCEPT !.stale = TRUE, !.text = TRUE, !.kind = f[1], !.wording = f[2],
                       !.match = a, !.old = a # "other" /\ o, !.own = a = "same"] :
        a \in {"same", "other", "unknown"}, o \in BOOLEAN}
MCFailed(u, f) ==
    {[Result(u) EXCEPT !.error = TRUE, !.text = TRUE, !.kind = f[1], !.wording = f[2],
                       !.fetched = t, !.match = "unknown"] : t \in {None, 1}}
MCByModel == {[Result([x \in GateWindows |-> Kept]) EXCEPT !.model = l, !.aged = d] :
                l \in {Room, Kept}, d \in BOOLEAN}
MCMeasures ==
    {Result(u) : u \in MCUsed} \cup {[Result(u) EXCEPT !.strict = TRUE] : u \in MCUsed}
      \cup {[Result(u) EXCEPT !.warning = TRUE, !.text = TRUE] : u \in MCUsed}
      \cup UNION {MCStale(u, f) \cup MCFailed(u, f) : u \in MCUsed, f \in MCFailures}
      \cup MCByModel
MCRemeasured == {Result([x \in GateWindows |-> Room])} \cup MCByModel
MCAsks == [kind : {"plain", "grouped", "swe2", "fusion"}, ref : {FALSE}, others : {FALSE}]
            \cup [kind : {"escalation"}, ref : BOOLEAN, others : {TRUE}]
            \cup [kind : {"unquotaed"}, ref : {FALSE}, others : {FALSE}]
MCWorlds ==
    {[class |-> c, local |-> IF l = Room THEN 1 ELSE 0, remote |-> 0, measure |-> None,
      shared |-> IF c = "spend" THEN None
                 ELSE [Result([x \in GateWindows |-> Room]) EXCEPT !.source = "remote"],
      manual |-> [x \in GateWindows |-> l]] :
        c \in {"preserve", "spend"}, l \in {None, Room, Kept}}

------------------------------------------------------------------------------
requestVars == <<subject, canon, cached, pushes, view, asked>>
(* A scene that is not played has one initial state.  A server without     *)
(* anything of the profile is tried with all of them but codexAstra.       *)
Init ==
    /\ scene \in {"catalog", "quota", "manual"} /\ LaunchInit
    /\ IF scene = "catalog" THEN subject = codexAstra => canon = Bundle
       ELSE subject = sonnet /\ canon = Bundle
    /\ IF scene = "manual" THEN TRUE ELSE history = <<>>
    /\ IF scene = "quota" THEN TRUE
       ELSE /\ ask = CHOOSE p \in Asks : TRUE
            /\ world = [(CHOOSE w \in Worlds : TRUE) EXCEPT
                           !.measure = CHOOSE m \in Measures : \A x \in GateWindows : m.used[x] = None]
    /\ GateInit /\ ManualInit
Next ==
    /\ UNCHANGED scene
    /\ \/ scene = "catalog" /\ LaunchNext /\ UNCHANGED <<gateVars, manualVars>>
       \/ scene = "quota" /\ GateNext /\ UNCHANGED <<requestVars, manualVars>>
       \/ scene = "manual" /\ ManualNext /\ UNCHANGED <<requestVars, gateVars>>
Spec == Init /\ [][Next]_<<scene, requestVars, gateVars, manualVars>>
=============================================================================
