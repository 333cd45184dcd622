----------------------------- MODULE ConfigEdit -----------------------------
(***************************************************************************)
(* The operator's config.toml, edited by several commands at once.         *)
(* `scopefuel policy` never renders the file anew: it splices the lines of *)
(* the key it was asked for into the text the operator wrote (policy.py,   *)
(* _Doc), checks that the result still parses to what was meant, and       *)
(* replaces the file, all under an advisory lock.                          *)
(*                                                                         *)
(* A file is a sequence of lines: a table header, a header of an array of  *)
(* tables, a statement, or a note (a comment).  A statement carries the    *)
(* leaves its value parses to: one with an empty key for a scalar, several *)
(* for an inline table.  Values are numbers, blank lines are left out, and *)
(* an array of tables has one element.                                     *)
(***************************************************************************)
EXTENDS Integers, Sequences, FiniteSets, SequencesExt

CONSTANTS Editors,   \* the running commands
          Configs,   \* the files an operator may have written
          Requests,  \* what a command may be asked: [verb, base, ops]
          Today      \* the day

VARIABLES config,    \* the lines of the file
          editor     \* what each command is doing: its phase, request and copy
configVars == <<config, editor>>

(* ---- The parsed view of the lines (_parse_key, _scan_doc) ---- *)
Headers(lines) == {i \in DOMAIN lines : lines[i].kind \in {"header", "array"}}
Statements(lines) == {i \in DOMAIN lines : lines[i].kind = "stmt"}

(* The header a line stands under (0: none yet), and the path it gives.    *)
RegionOf(lines, i) == Max({0} \cup {j \in Headers(lines) : j <= i})
Home(lines, i) == IF RegionOf(lines, i) = 0 THEN <<>> ELSE lines[RegionOf(lines, i)].path
RegionEnd(lines, r) == Min({Len(lines) + 1} \cup {j \in Headers(lines) : j > r})
FullPath(lines, i) == IF i \in Headers(lines) THEN lines[i].path ELSE Home(lines, i) \o lines[i].path

Leaves(lines) ==
    UNION {{<<FullPath(lines, i) \o leaf[1], leaf[2]>> : leaf \in lines[i].value} :
             i \in Statements(lines)}
Tables(lines) == {lines[i].path : i \in Headers(lines)}
Within(base, leaves) == {leaf \in leaves : IsPrefix(base, leaf[1])}
Known(paths, path) == \E other \in paths : IsPrefix(path, other)

NoValue == -1
Entry(lines, path) ==
    LET found == {leaf[2] : leaf \in {l \in Leaves(lines) : l[1] = path}}
    IN IF found = {} THEN NoValue ELSE CHOOSE n \in found : TRUE

(* tomllib: no key twice, no table under a value, no header repeated or    *)
(* standing for a table that dotted keys already made.                     *)
Parses(lines) ==
    /\ \A i \in Statements(lines) : \A j \in DOMAIN lines \ {i} :
          lines[j].kind # "note" => ~IsPrefix(FullPath(lines, i), FullPath(lines, j))
    /\ \A i \in Headers(lines) : \A j \in DOMAIN lines \ {i} :
          /\ j \in Headers(lines) => lines[j].path # lines[i].path
          /\ j \in Statements(lines) =>
                ~(/\ Len(lines[i].path) > Len(Home(lines, j))
                  /\ IsPrefix(lines[i].path, FullPath(lines, j)))

(* ---- The edits of _Doc; a copy is its lines, the paths of the snapshot  *)
(* ---- it was parsed into, and whether no edit refused so far ---- *)
Copy(lines) ==
    [lines |-> lines, ok |-> TRUE,
     known |-> {leaf[1] : leaf \in Leaves(lines)} \cup Tables(lines)]
Refused(copy) == [copy EXCEPT !.ok = FALSE]

(* _check_not_aot: the path runs through an array of tables.               *)
ThroughArray(lines, path) ==
    \E i \in Headers(lines) : lines[i].kind = "array" /\ IsPrefix(lines[i].path, path)

Statement(key, n) == [kind |-> "stmt", path |-> key, value |-> {<<<<>>, n>>}]
Header(path) == [kind |-> "header", path |-> path, value |-> {}]

(* set_value: in the statement's place, else after the last key of its     *)
(* table, else beside its dotted siblings, else in a new table behind the  *)
(* last one of the same kind.                                              *)
SetValue(copy, path, n) ==
    LET lines == copy.lines
        parent == Front(path)
        present == {i \in Statements(lines) : FullPath(lines, i) = path}
        region == {i \in Headers(lines) : lines[i].kind = "header" /\ lines[i].path = parent}
        members == {i \in Statements(lines) : RegionOf(lines, i) \in region}
        siblings == {i \in Statements(lines) : Front(FullPath(lines, i)) = parent}
        kin == {i \in Headers(lines) : lines[i].path[1] = parent[1]}
        behind == IF kin = {} THEN Len(lines) + 1 ELSE RegionEnd(lines, Max(kin))
        put(new) == [copy EXCEPT !.lines = new]
    IN CASE ~copy.ok \/ ThroughArray(lines, path) -> Refused(copy)
         [] present # {} -> put([lines EXCEPT ![Min(present)].value = {<<<<>>, n>>}])
         [] region # {} ->
              put(InsertAt(lines, Max(region \cup members) + 1, Statement(<<Last(path)>>, n)))
         [] siblings # {} ->
              LET i == Max(siblings)
              IN put(InsertAt(lines, i + 1, Statement(Front(lines[i].path) \o <<Last(path)>>, n)))
         [] Known(copy.known, parent) -> Refused(copy)
         [] OTHER ->
              put(InsertAt(InsertAt(lines, behind, Statement(<<Last(path)>>, n)),
                           behind, Header(parent)))

(* remove_key and delete_table: the latter takes every line under a header *)
(* of the path, its notes too, and tells the snapshot.                     *)
Striking(lines, gone) ==
    LET kept == SelectSeq([i \in DOMAIN lines |-> i], LAMBDA i : i \notin gone)
    IN [k \in DOMAIN kept |-> lines[kept[k]]]
RemoveKey(copy, path) ==
    LET present == {i \in Statements(copy.lines) : FullPath(copy.lines, i) = path}
    IN IF ~copy.ok \/ ThroughArray(copy.lines, path) THEN Refused(copy)
       ELSE [copy EXCEPT !.lines = Striking(copy.lines, present)]
UnderTable(lines, path) ==
    {i \in DOMAIN lines : \/ RegionOf(lines, i) # 0 /\ IsPrefix(path, Home(lines, i))
                          \/ i \in Statements(lines) /\ IsPrefix(path, FullPath(lines, i))}
DeleteTable(copy, path) ==
    LET gone == UnderTable(copy.lines, path)
    IN CASE ~copy.ok \/ ThroughArray(copy.lines, path) -> Refused(copy)
         [] gone = {} -> copy
         [] OTHER -> [copy EXCEPT
                        !.lines = Striking(copy.lines, gone),
                        !.known = {p \in copy.known : ~IsPrefix(path, p)} \cup {Front(path)}]

(* ---- The commands ---- *)
Classes == 1..3
(* An operation is a key and the leaves to give it: none deletes the key,  *)
(* one without a key of its own is a scalar, others make a table.          *)
Scalar(leaves) == \E leaf \in leaves : leaf[1] = <<>>
Applied(request, copy, op) ==
    LET path == request.base \o <<op.key>>
        keyed == SetToSeq(op.leaves)
    IN CASE op.leaves = {} /\ request.verb = "policy" -> DeleteTable(RemoveKey(copy, path), path)
         [] op.leaves = {} -> RemoveKey(copy, path)
         [] Scalar(op.leaves) -> SetValue(copy, path, keyed[1][2])
         [] OTHER -> FoldLeft(LAMBDA c, leaf : SetValue(c, path \o leaf[1], leaf[2]),
                              DeleteTable(copy, path), keyed)

(* What the table of the request must parse to afterwards.                 *)
Asked(request, leaves) ==
    LET own == Within(request.base, leaves)
        replaced == {leaf \in own : \E k \in DOMAIN request.ops :
                       IsPrefix(request.base \o <<request.ops[k].key>>, leaf[1])}
        given == UNION {{<<request.base \o <<request.ops[k].key>> \o leaf[1], leaf[2]>> :
                           leaf \in request.ops[k].leaves} : k \in DOMAIN request.ops}
    IN IF request.verb = "clear" THEN {} ELSE (own \ replaced) \cup given

(* clear_policy: an absent table is nothing to clear, an inline one is     *)
(* refused.                                                                *)
ClearedTable(base, lines) ==
    LET copy == Copy(lines)
        cleared == DeleteTable(copy, base)
    IN CASE ~Known(copy.known, base) \/ Entry(lines, base) # NoValue -> copy
         [] cleared.lines = lines -> Refused(copy)
         [] OTHER -> cleared

(* A table nothing is left in goes with its last key.                      *)
WithoutEmpty(request, lines, copy) ==
    IF Asked(request, Leaves(lines)) = {} THEN DeleteTable(copy, request.base) ELSE copy

(* set_policy, set_subscribed and set_setting, or clear_policy: an edit of *)
(* one table.                                                              *)
Edited(request, lines) ==
    IF request.verb = "clear" THEN ClearedTable(request.base, lines)
    ELSE WithoutEmpty(request, lines,
                      FoldLeft(LAMBDA c, op : Applied(request, c, op), Copy(lines), request.ops))

(* What the command line lets through: something to do, an expiry with a   *)
(* class or a boost, a positive setting.                                   *)
Given(request, key) ==
    \E k \in DOMAIN request.ops : request.ops[k].key = key /\ request.ops[k].leaves # {}
Admissible(request) ==
    /\ request.verb = "policy" =>
          /\ request.ops # <<>>
          /\ Given(request, "class") \/ Given(request, "boost") => Given(request, "until")
    /\ request.base = <<"settings">> =>
          \A k \in DOMAIN request.ops : \A leaf \in request.ops[k].leaves : leaf[2] > 0

(* What the commands hand over of a key: a class, a day and a flag are     *)
(* single values, a reserve has a percentage for each of its windows, and  *)
(* class and day are never taken away.                                     *)
One(op) == \E leaf \in op.leaves : op.leaves = {leaf} /\ leaf[1] = <<>>
Values(op) == {leaf[2] : leaf \in op.leaves}
HandedOver(op) ==
    IF op.key = "inflight_reserve_pct"
    THEN Values(op) \subseteq 0..100 /\ \A leaf \in op.leaves : Len(leaf[1]) = 1
    ELSE /\ One(op) \/ (op.leaves = {} /\ op.key \notin {"class", "until"})
         /\ op.key = "class" => Values(op) \subseteq Classes
         /\ op.key = "subscribed" => Values(op) \subseteq 0..1
PoolKeys == {"class", "until", "boost", "subscribed", "inflight_reserve_pct"}
Told(request) ==
    /\ request.base \in Seq(STRING)
    /\ \A j, k \in DOMAIN request.ops : request.ops[j].key = request.ops[k].key => j = k
    /\ \A k \in DOMAIN request.ops :
          LET op == request.ops[k]
          IN /\ op.key \in STRING /\ op.leaves \subseteq Seq(STRING) \X Nat /\ HandedOver(op)
             /\ request.verb = "plain" /\ request.base # <<"settings">> => op.key = "subscribed"
             /\ request.base = <<"settings">> => op.key \notin PoolKeys
    /\ \/ request.base = <<"settings">> /\ request.verb = "plain"
       \/ /\ Len(request.base) = 2 /\ request.verb \in {"policy", "clear", "plain"}
          /\ request.verb # "plain" => request.base[1] = "pools"
          /\ request.verb = "clear" => request.ops = <<>>
ASSUME ConfigAssumption ==
    /\ \A lines \in Configs : Leaves(lines) \subseteq Seq(STRING) \X Nat
    /\ \A request \in Requests : Told(request)

(* _edit_config: the result is written only when it parses, is what was    *)
(* asked under the table, and is what it was everywhere else.              *)
Accepts(request, lines, copy) ==
    LET before == Leaves(lines)
        after == Leaves(copy.lines)
    IN /\ Parses(lines) /\ copy.ok /\ Parses(copy.lines)
       /\ before \ Within(request.base, before) = after \ Within(request.base, after)
       /\ Within(request.base, after) = Asked(request, before)
       /\ Asked(request, before) = {} => ~Known(Tables(copy.lines), request.base)

(* Slip: no lock is taken (the non-POSIX fallback of _locked).             *)
Unlocked == TRUE
(* _locked: one command at a time, on a file beside the configuration.     *)
LockFree == \A p \in Editors : editor[p].phase # "editing"

Ended(phase) ==
    [phase |-> phase, request |-> [verb |-> "none", base |-> <<>>, ops |-> <<>>], lines |-> <<>>]
ConfigInit == config \in Configs /\ editor = [p \in Editors |-> Ended("idle")]

(* The lock is taken and the file read.                                    *)
Begin(p) ==
    /\ editor[p].phase = "idle" /\ LockFree
    /\ \E request \in {r \in Requests : Admissible(r)} :
          editor' = [editor EXCEPT ![p] = [phase |-> "editing", request |-> request, lines |-> config]]
    /\ UNCHANGED config
(* The edit lands whole (os.replace), and the lock goes.                   *)
Land(p) ==
    LET copy == Edited(editor[p].request, editor[p].lines)
    IN /\ editor[p].phase = "editing"
       /\ Accepts(editor[p].request, editor[p].lines, copy)
       /\ config' = copy.lines
       /\ editor' = [editor EXCEPT ![p] = Ended("written")]
Refuse(p) ==
    /\ editor[p].phase = "editing"
    /\ ~Accepts(editor[p].request, editor[p].lines,
                Edited(editor[p].request, editor[p].lines))
    /\ editor' = [editor EXCEPT ![p] = Ended("refused")]
    /\ UNCHANGED config
(* The command is killed before it replaces the file; the lock goes too.   *)
Killed(p) ==
    /\ editor[p].phase = "editing"
    /\ editor' = [editor EXCEPT ![p] = Ended("killed")]
    /\ UNCHANGED config
ConfigNext == \E p \in Editors : Begin(p) \/ Land(p) \/ Refuse(p) \/ Killed(p)
ConfigSpec == ConfigInit /\ [][ConfigNext]_configVars

(* ---- The readers of the file ---- *)
(* get_policy and get_boost: a value without an expiry, or past it, is the *)
(* same as none, and both share one expiry.                                *)
Current(lines, pool) ==
    LET until == Entry(lines, <<"pools", pool, "until">>) IN until # NoValue /\ until >= Today
EffectiveClass(lines, pool) ==
    LET set == Entry(lines, <<"pools", pool, "class">>)
    IN IF set \in Classes /\ Current(lines, pool) THEN set ELSE NoValue
EffectiveBoost(lines, pool) ==
    IF Current(lines, pool) THEN Entry(lines, <<"pools", pool, "boost">>) ELSE NoValue
(* get_reset_urgency_hours and its like: the default unless positive.      *)
Setting(lines, name) ==
    LET set == Entry(lines, <<"settings", name>>) IN IF set > 0 THEN set ELSE NoValue
(* get_subscribed and get_profile_subscribed: not a boolean, not said.     *)
Subscription(lines, root, name) ==
    LET set == Entry(lines, <<root, name, "subscribed">>)
    IN IF set \in 0..1 THEN set ELSE NoValue
(* get_inflight_reserve: the windows with a percentage, unless all are 0.  *)
Reserves(lines, pool) ==
    LET base == <<"pools", pool, "inflight_reserve_pct">>
        said == {<<leaf[1][Len(leaf[1])], leaf[2]>> :
                   leaf \in {l \in Leaves(lines) : Front(l[1]) = base /\ l[2] \in 0..100}}
    IN IF \E r \in said : r[2] > 0 THEN said ELSE {}

(* ---- What an edit promises ---- *)
(* The tables an edit may take away, and with them the notes inside.       *)
TakenTables(request, lines) ==
    IF Asked(request, Leaves(lines)) = {} THEN {request.base}
    ELSE {request.base \o <<request.ops[k].key>> :
            k \in {j \in DOMAIN request.ops : ~Scalar(request.ops[j].leaves)}}
NotesOf(lines) == SelectSeq(lines, LAMBDA line : line.kind = "note")
Said(n) == IF n = NoValue THEN {} ELSE {<<<<>>, n>>}
\* Lines outside the table stay, and notes outside what is taken away.
LinesLand(request, before, after) ==
    /\ Striking(after, UnderTable(after, request.base))
         = Striking(before, UnderTable(before, request.base))
    /\ NotesOf(after) =
         NotesOf(Striking(before, UNION {UnderTable(before, t) : t \in TakenTables(request, before)}))

\* The readers see what was given; a reserve of nothing but 0 is none.
Seen(request, op, after) ==
    LET name == Last(request.base)
    IN /\ op.key = "class" /\ Current(after, name) => Said(EffectiveClass(after, name)) = op.leaves
       /\ op.key = "boost" /\ Current(after, name) => Said(EffectiveBoost(after, name)) = op.leaves
       /\ op.key = "subscribed" => Said(Subscription(after, request.base[1], name)) = op.leaves
       /\ op.key = "inflight_reserve_pct" =>
             Reserves(after, name) = IF Values(op) \subseteq {0} THEN {}
                                     ELSE {<<leaf[1][1], leaf[2]>> : leaf \in op.leaves}
       /\ request.base = <<"settings">> => Said(Setting(after, op.key)) = op.leaves
Has(lines, pool, key) == Entry(lines, <<"pools", pool, key>>) # NoValue
Endless(lines, pool) ==
    (Has(lines, pool, "class") \/ Has(lines, pool, "boost")) /\ ~Has(lines, pool, "until")

ValuesLand(request, before, after) ==
    /\ Within(request.base, Leaves(after)) = Asked(request, Leaves(before))
    /\ Leaves(after) \ Within(request.base, Leaves(after))
         = Leaves(before) \ Within(request.base, Leaves(before))
    /\ \A k \in DOMAIN request.ops : Seen(request, request.ops[k], after)
    /\ \A pool \in {p[2] : p \in {leaf[1] : leaf \in Leaves(after)}} :
          Endless(after, pool) => Has(before, pool, "class") \/ Has(before, pool, "boost")
Landed(request, before, after) ==
    ValuesLand(request, before, after) /\ LinesLand(request, before, after)

(* The shapes no edit can be spliced into: a file that does not parse, an  *)
(* array of tables or a plain value where the table should be, and a table *)
(* without a header of its own that the edit leaves only its sub-tables,   *)
(* or nothing, before it sets a key.                                       *)
Unsplicable(request, lines) ==
    LET base == request.base
        dropped == {base \o <<request.ops[k].key>> :
                      k \in {j \in DOMAIN request.ops : request.ops[j].leaves = {}}}
        left == {i \in Statements(lines) : /\ FullPath(lines, i) \notin dropped
                                           /\ Front(FullPath(lines, i)) = base}
    IN \/ ~Parses(lines)
       \/ \E i \in Headers(lines) : lines[i].kind = "array" /\ IsPrefix(lines[i].path, base)
       \/ \E i \in Statements(lines) : IsPrefix(FullPath(lines, i), base)
       \/ base \notin Tables(lines) /\ left = {} /\ Known(Copy(lines).known, base)

(* An edit either lands exactly as asked, on the file as it is then and    *)
(* whatever other commands wrote meanwhile, where every other line and     *)
(* every note outside a table it takes away stays, and the readers see it  *)
(* (no edit makes a class or a boost that never expires);                  *)
(* or it is refused because of the shape of the file, and changes nothing  *)
(* (policy.py, _edit_config, _Doc; tests/test_policy_roundtrip.py).        *)
EditsHold ==
    [][\A p \in Editors :
         /\ editor'[p].phase = "written" /\ editor[p].phase # "written" =>
              Landed(editor[p].request, config, config')
         /\ editor'[p].phase = "refused" /\ editor[p].phase # "refused" =>
              config' = config /\ Unsplicable(editor[p].request, config)]_configVars

(* Of that, what the checks before the rename are to see to: whatever else *)
(* was written since, an edit changes what it was asked for and no other   *)
(* value, the readers see it, and nothing begins that never expires        *)
(* (_edit_config, set_policy).                                             *)
EditsTakeEffect ==
    [][\A p \in Editors :
         editor'[p].phase = "written" /\ editor[p].phase # "written" =>
            ValuesLand(editor[p].request, config, config')]_configVars
=============================================================================
