------------------------------ MODULE MCServer ------------------------------
(***************************************************************************)
(* What the hosts share through the server, the ranking one of them makes  *)
(* of it, and the configuration it reads, one subject at a time: they      *)
(* touch no common state, so that their interleavings would only multiply. *)
(***************************************************************************)
EXTENDS CatalogCache, QuotaShare, Inflight, AreaCache, Ranking, ConfigEdit, TLC

CONSTANTS a1, a2, a3, b1, b2
VARIABLE scene  \* the subject

MCSymmetry == Permutations({a1, a2}) \cup Permutations({b1, b2})
MCClockOf == [h \in Hosts |-> IF h = "h1" THEN 0 ELSE 1]
MCHostOf == [g \in Gates |-> IF g = a3 THEN "h2" ELSE "h1"]

(* Pools: two that may be hot or cool, that of the alternative lanes, that *)
(* of the free rows, which also has a row of no free scope, and one of     *)
(* which no weekly window is known.                                        *)
Lane(profile, pool, as, slot, headroom, scored, merit) ==
    [profile |-> profile, effort |-> "high", pool |-> pool, as |-> as, slot |-> slot,
     headroom |-> headroom, scored |-> scored, merit |-> merit, alt |-> pool = "alt",
     credit |-> pool = "alt", scope |-> pool = "free", free |-> pool = "free"]
MCListable ==
    {Lane("hot1", "hot", "own", 1, None, TRUE, 1), Lane("hot2", "hot", "own", 2, 1, TRUE, 0),
     Lane("hot3", "hot", "borrowed", 10, None, TRUE, 2),
     Lane("cool1", "cool", "own", 3, None, FALSE, 1), Lane("cool2", "cool", "one_up", 8, None, TRUE, 2),
     Lane("alt1", "alt", "own", 4, None, FALSE, 0), Lane("alt2", "alt", "borrowed", 9, None, TRUE, 0),
     Lane("free1", "free", "own", 5, None, FALSE, 2), Lane("free2", "free", "own", 6, None, TRUE, 0),
     Lane("dark", "dark", "own", 7, None, TRUE, 1),
     [Lane("fusion", "free", "own", 11, None, TRUE, 1) EXCEPT !.scope = FALSE]}
MCPaces == [{"hot", "cool", "alt", "free", "dark"} -> {None}] \cup
    {[q \in {"hot", "cool", "alt", "free", "dark"} |->
        CASE q = "hot" -> h [] q = "cool" -> c [] q = "alt" -> 2 [] q = "free" -> f [] OTHER -> None] :
          h \in {1, 2}, c \in {1, 2, None}, f \in {1, 2}}
MCLimit == [q \in {"hot", "cool", "alt", "free", "dark"} |-> 2]
Ran(profile, effort, role, completed, blockers) ==
    [profile |-> profile, effort |-> effort, role |-> role, completed |-> completed,
     blockers |-> blockers]
MCEvidence == {{}, {Ran("alt1", None, "fix", TRUE, TRUE)},
               {Ran("cool1", "high", "verify", FALSE, FALSE), Ran("alt1", "high", "verify", TRUE, TRUE)},
               {Ran("free1", "high", "impl", FALSE, FALSE)}}
Exception(profile, effort, action) ==
    [profile |-> profile, effort |-> effort, action |-> action, model |-> "m1"]
MCExceptions ==
    {{}, {Exception("hot1", None, "prefer")}, {Exception("alt1", "high", "prefer")},
     {Exception("dark", None, "prefer"), Exception("hot1", "high", "exclude"),
      Exception("cool2", "high", "prefer")}}
MCModels == {[k \in {<<c.profile, c.effort>> : c \in MCListable} |->
                IF k[1] \in stale THEN "m2" ELSE "m1"] : stale \in {{}, {"hot1"}}}

(* The files an operator may have written: with headers, inline tables,    *)
(* dotted keys, sub-tables alone, arrays of tables, and one that does not  *)
(* parse; and what the commands are asked for.                             *)
Table(path) == [kind |-> "header", path |-> path, value |-> {}]
Line(path, n) == [kind |-> "stmt", path |-> path, value |-> {<<<<>>, n>>}]
Inline(path, leaves) == [kind |-> "stmt", path |-> path, value |-> leaves]
Comment(n) == [kind |-> "note", path |-> <<>>, value |-> {<<<<>>, n>>}]
ArrayOf(path) == [kind |-> "array", path |-> path, value |-> {}]
A == <<"pools", "a">>
MCConfigs ==
  {<<>>,
   <<Comment(1), Table(A), Line(<<"class">>, 1), Line(<<"until">>, 5), Comment(2),
     Table(<<"pools", "b">>), Comment(3), Line(<<"class">>, 2)>>,
   <<Table(<<"pools">>), Inline(<<"a">>, {<<<<"class">>, 1>>, <<<<"until">>, 5>>}), Line(<<"b", "class">>, 2)>>,
   <<Line(<<"pools", "a", "boost">>, 1), Comment(1), Line(<<"settings", "x">>, 1)>>,
   <<Table(<<"pools", "a", "inflight_reserve_pct">>), Line(<<"7d">>, 5), Comment(1)>>,
   <<ArrayOf(<<"pools">>), Line(<<"class">>, 1), Table(<<"settings">>), Comment(1), Line(<<"x">>, 2)>>,
   <<Inline(<<"pools">>, {<<<<"b", "class">>, 2>>})>>,
   <<Table(A), Line(<<"class">>, 1), Table(A), Line(<<"boost">>, 1)>>,
   <<Table(A), Inline(<<"inflight_reserve_pct">>, {<<<<"5h">>, 5>>, <<<<"7d">>, 9>>}), Comment(1)>>}
Set(key, n) == [key |-> key, leaves |-> {<<<<>>, n>>}]
Drop(key) == [key |-> key, leaves |-> {}]
Request(verb, base, ops) == [verb |-> verb, base |-> base, ops |-> ops]
MCRequests ==
  {Request("policy", A, <<Set("class", 3), Set("until", 6)>>),
   Request("policy", A, <<Drop("boost"), Set("subscribed", 0)>>),
   Request("policy", A, <<Set("boost", 2), Set("until", 3)>>),
   Request("policy", A, <<[key |-> "inflight_reserve_pct", leaves |-> {<<<<"7d">>, 7>>, <<<<"5h">>, 3>>}]>>),
   Request("policy", A, <<[key |-> "inflight_reserve_pct", leaves |-> {<<<<"7d">>, 0>>}]>>),
   Request("policy", A, <<Drop("inflight_reserve_pct")>>), Request("policy", A, <<Set("class", 1)>>),
   Request("clear", A, <<>>), Request("clear", <<"pools", "b">>, <<>>),
   Request("plain", <<"profiles", "p">>, <<Set("subscribed", 1)>>),
   Request("plain", <<"profiles", "p">>, <<Drop("subscribed")>>),
   Request("plain", <<"settings">>, <<Set("x", 7)>>),
   Request("plain", <<"settings">>, <<Drop("x")>>), Request("plain", <<"settings">>, <<Set("x", 0)>>)}

(* A scene that is not played has one initial state.                       *)
Fixed(s) == s # "catalog" => canon = Rows(Bundled, 1) /\ hostCopy = None
Init == /\ scene \in {"catalog", "share", "inflight", "ranking", "config", "areas"}
        /\ CatalogInit /\ ShareInit /\ InflightInit
        /\ Fixed(scene)
        /\ IF scene = "ranking" THEN TRUE ELSE gathered = {CHOOSE c \in MCListable : TRUE}
        /\ RankingInit
        /\ IF scene = "config" THEN TRUE ELSE config = <<>>
        /\ ConfigInit
        /\ IF scene = "areas" THEN TRUE ELSE list = "task-areas"
        /\ AreaInit
Next ==
    /\ UNCHANGED scene
    /\ \/ scene = "catalog" /\ CatalogNext /\ UNCHANGED <<shareVars, inflightVars, rankingVars, configVars, areaVars>>
       \/ scene = "share" /\ ShareNext /\ UNCHANGED <<catalogVars, inflightVars, rankingVars, configVars, areaVars>>
       \/ scene = "inflight" /\ InflightNext /\ UNCHANGED <<catalogVars, shareVars, rankingVars, configVars, areaVars>>
       \/ scene = "ranking" /\ RankingNext /\ UNCHANGED <<catalogVars, shareVars, inflightVars, configVars, areaVars>>
       \/ scene = "config" /\ ConfigNext /\ UNCHANGED <<catalogVars, shareVars, inflightVars, rankingVars, areaVars>>
       \/ scene = "areas" /\ AreaNext
          /\ UNCHANGED <<catalogVars, shareVars, inflightVars, rankingVars, configVars>>
Spec == Init /\ [][Next]_<<scene, catalogVars, shareVars, inflightVars, rankingVars, configVars, areaVars>>
=============================================================================
