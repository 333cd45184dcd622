------------------------------ MODULE Ranking ------------------------------
(***************************************************************************)
(* The order in which `--recommend` lists the candidates of one grade      *)
(* (recommend.py): _evaluate ranks them, promotes lanes with quota left    *)
(* over the rows of a pool that is consumed too fast, and gives the free   *)
(* rows back their place; the exceptions of the area asked about are       *)
(* applied to what came out; and while the free pool is rate limited, a    *)
(* free row and the row to fall back on are put first.                     *)
(*                                                                         *)
(* A candidate has its profile, effort and pool; as what it is listed      *)
(* ("own", and a grade below its placement "one_up" or "borrowed"); its    *)
(* headroom, None unless its pool runs out before it resets, else the      *)
(* larger the better; whether it has a benchmark score; and its merit, for *)
(* the quota, price and table order of the rank key, the smaller the       *)
(* better.  Alternative lanes, credit rows, rows of a free scope and       *)
(* FREE_PROFILES are marked.                                               *)
(***************************************************************************)
EXTENDS Absent, Integers, FiniteSets, Sequences, Functions

CONSTANTS Listable,     \* the candidates there may be
          AltPools,     \* ALTLANE_POOLS
          Limit,        \* [pools -> get_altlane_pace_multiple]
          Paces,        \* readings of the pools: a multiple or None
          Evidence,     \* sets of repetitions recorded at the grade
          Exceptions,   \* sets of exceptions recorded for the area
          Models,       \* [<<profile, effort>> -> model] catalogs
          MaxListed     \* bound on the candidates

VARIABLES gathered,    \* the candidates of the grade
          readings,  \* what the pools' weekly windows say
          promoted,  \* the candidates that are promoted
          ranked,    \* the order that _evaluate returns
          order,     \* the order so far
          dropped,   \* what the area excludes
          limited,   \* the free pool is rate limited
          stage
rankingVars == <<gathered, readings, promoted, ranked, order, dropped, limited, stage>>

(* A row's place in the table is its own, and the credit rows are not of   *)
(* those that may be free.                                                 *)
ASSUME RankingAssumption ==
    /\ IsFiniteSet(Listable)
    /\ \A c \in Listable : c.merit \in Int /\ c.slot \in Int /\ c.headroom \in Int \cup {None}
    /\ \A c, d \in Listable : c.slot = d.slot => c = d
    /\ \A c \in Listable : c.credit => ~c.scope /\ ~c.free

(* _recommend_rank_key, compared from the left.                            *)
RankKey(c, lifted) ==
    << IF c.credit /\ ~lifted THEN 1 ELSE 0,
       IF c.headroom = None THEN 0 ELSE 1, IF c.headroom = None THEN 0 ELSE -c.headroom,
       IF c.scored THEN 0 ELSE 1, c.merit, IF c.as = "own" THEN 0 ELSE 1, c.slot >>
Before(k, l) ==
    \E i \in DOMAIN k : k[i] < l[i] /\ \A j \in 1 .. i - 1 : k[j] = l[j]
Sorted(rows, lifted) ==
    LET Key(c) == RankKey(c, c \in lifted)
    IN [n \in 1 .. Cardinality(rows) |->
          CHOOSE c \in rows : Cardinality({d \in rows : Before(Key(d), Key(c))}) = n - 1]

------------------------------------------------------------------------------
(* A pool yields when its weekly multiple is at its limit, and is under-   *)
(* used when it is below: no reading, an early or an unreadable one is     *)
(* neither.  The pools of the alternative lanes are not looked at.         *)
Multiple(p, r) == p \notin AltPools /\ r[p] # None
Yielding(r) == {p \in DOMAIN r : Multiple(p, r) /\ r[p] >= Limit[p]}
UnderUsed(r) == {p \in DOMAIN r : Multiple(p, r) /\ r[p] < Limit[p]}

(* A failure, or a rejection of the lane's own work, that names the rung   *)
(* or no rung: _promotion_blocks.                                          *)
Blocks(reps) ==
    {<<x.profile, x.effort>> :
        x \in {y \in reps : ~y.completed \/ (y.blockers /\ y.role \in {"impl", "fix"})}}
Promoted(rows, r, reps) ==
    {c \in rows : /\ Yielding(r) # {} /\ c.as # "borrowed"
                  /\ c.alt \/ c.pool \in UnderUsed(r)
                  /\ {<<c.profile, c.effort>>, <<c.profile, None>>} \cap Blocks(reps) = {}}

(* The rows of a list in their order, and the list with some rows first    *)
(* and each part in its order: what the code does with stable sorts,       *)
(* comprehensions and slices.                                              *)
Least(S) == CHOOSE i \in S : \A j \in S : i <= j
Places(s, rows) == {i \in DOMAIN s : s[i] \in rows}
Above(s, i) == {s[j] : j \in 1 .. i - 1}
Only(s, rows) ==
    LET places == Places(s, rows)
    IN [n \in 1 .. Cardinality(places) |->
          s[CHOOSE i \in places : Cardinality({j \in places : j < i}) = n - 1]]
Without(s, rows) == Only(s, Range(s) \ rows)
Foremost(s, rows) == Only(s, rows) \o Without(s, rows)

(* The promoted rows as one block, above the first row of a yielding pool, *)
(* and no lower than the first of them stands already.                     *)
Yields(s, lifted, r) ==
    {i \in DOMAIN s : s[i] \notin lifted /\ ~s[i].scope /\ s[i].pool \in Yielding(r)}
Block(s, lifted, seat) == Foremost(Foremost(s, lifted), Above(s, seat) \ lifted)
(* Slip: as it was before the second review, right above the yielding row. *)
SeatedAtYield(s, lifted, r) ==
    IF lifted = {} \/ Yields(s, lifted, r) = {} THEN s
    ELSE Block(s, lifted, Least(Yields(s, lifted, r)))
Seated(s, lifted, r) ==
    IF lifted = {} \/ Yields(s, lifted, r) = {} THEN s
    ELSE Block(s, lifted, Least(Yields(s, lifted, r) \cup Places(s, lifted)))

(* Free rows at or below the block go ahead of it.                         *)
FreeAhead(s, lifted) ==
    IF lifted = {} THEN s
    ELSE LET above == Above(s, Least(Places(s, lifted)))
             free == {c \in Range(s) : c.scope}
         IN Foremost(Foremost(s, free \ above), above)

------------------------------------------------------------------------------
(* An exception is live for a candidate while the catalog still has the    *)
(* model it was decided on.                                                *)
Applies(e, c, models) ==
    /\ e.profile = c.profile /\ (e.effort = None \/ e.effort = c.effort)
    /\ models[<<c.profile, c.effort>>] = e.model
Excluded(s, exceptions, models) ==
    {c \in Range(s) : \E e \in exceptions : e.action = "exclude" /\ Applies(e, c, models)}

(* Preferred rows of the grade itself go up, after the last row of a       *)
(* better grade; credit rows that are not promoted stay last.              *)
Lifted(s, exceptions, models, raised) ==
    LET above == {c \in Range(s) : \E i, j \in DOMAIN s : i <= j /\ s[i] = c /\ s[j].as # "own"}
        moving == {c \in Range(s) \ above : c.as = "own" /\
                      \E e \in exceptions : e.action = "prefer" /\ Applies(e, c, models)}
        credit == {c \in Range(s) \ above : c.credit /\ c \notin raised}
    IN Foremost(Foremost(Foremost(s, moving), Range(s) \ credit), above)

(* _prioritize_free_fallback: the first free row, then the first of the    *)
(* others, then the rest.                                                  *)
FreeFirst(s) ==
    LET free == {i \in DOMAIN s : s[i].free}
        Lead(places) == {s[Least(p)] : p \in {places} \ {{}}}
    IN IF free = {} THEN s
       ELSE Foremost(Foremost(s, Lead(DOMAIN s \ free)), Lead(free))

------------------------------------------------------------------------------
RankingInit ==
    /\ gathered \in {S \in SUBSET Listable : Cardinality(S) \in 1 .. MaxListed}
    /\ readings = None /\ promoted = {} /\ dropped = {}
    /\ ranked = <<>> /\ order = <<>>
    /\ limited = FALSE /\ stage = "start"

Evaluate ==
    /\ stage = "start"
    /\ \E r \in Paces, reps \in Evidence :
          LET lifted == Promoted(gathered, r, reps)
          IN /\ readings' = r /\ promoted' = lifted
             /\ ranked' = FreeAhead(Seated(Sorted(gathered, lifted), lifted, r), lifted)
    /\ order' = ranked' /\ stage' = "ranked"
    /\ UNCHANGED <<gathered, dropped, limited>>

ApplyAreaExceptions ==
    /\ stage = "ranked"
    /\ \E exceptions \in Exceptions, models \in Models :
          /\ dropped' = Excluded(order, exceptions, models)
          /\ order' = Lifted(Without(order, dropped'), exceptions, models, promoted)
    /\ stage' = "adjusted"
    /\ UNCHANGED <<gathered, readings, promoted, ranked, limited>>

PrioritizeFreeFallback ==
    /\ stage = "adjusted" /\ stage' = "done"
    /\ limited' \in BOOLEAN
    /\ order' = IF limited' THEN FreeFirst(order) ELSE order
    /\ UNCHANGED <<gathered, readings, promoted, ranked, dropped>>

RankingNext == Evaluate \/ ApplyAreaExceptions \/ PrioritizeFreeFallback
RankingSpec == RankingInit /\ [][RankingNext]_rankingVars

------------------------------------------------------------------------------
Ahead(s, c, d) == \E i, j \in DOMAIN s : i < j /\ s[i] = c /\ s[j] = d
Reorders(s, t, rows) == \E c, d \in rows : Ahead(s, c, d) /\ Ahead(t, d, c)

(* Promotion: the promoted rows are above every row of a yielding pool and *)
(* below every free row, but those that are free themselves; none is lower *)
(* than it would be without, and the others keep the order they would have.*)
PromotionHolds == stage = "ranked" =>
    LET plain == Sorted(gathered, {})
        rest == gathered \ promoted
    IN /\ \A c \in promoted, d \in rest : ~d.scope =>
             /\ d.pool \in Yielding(readings) => Ahead(order, c, d)
             /\ Ahead(plain, c, d) => Ahead(order, c, d)
       /\ \A c \in promoted, d \in gathered : ~c.scope /\ d.scope => Ahead(order, d, c)
       /\ ~Reorders(plain, order, {c \in rest : ~c.scope})

(* An exception takes a row out or lifts it among those of its grade: it   *)
(* puts none ahead of a row of a better grade that it was behind.          *)
AreaHolds == stage = "adjusted" =>
    ~\E c, d \in gathered \ dropped :
        c.as = "own" /\ d.as # "own" /\ Ahead(ranked, d, c) /\ Ahead(order, c, d)

(* Paid credit is for when nothing else is left, unless it is promoted or  *)
(* the row to fall back on while the free pool is limited.                 *)
CreditLast == \A c, d \in gathered :
    (c.credit /\ c \notin promoted /\ ~d.credit /\ Ahead(order, c, d)) =>
        limited /\ c = order[2] /\ d.free

(* Nothing is lost on the way, or listed twice.                            *)
RowsConserved == stage # "start" =>
    Range(order) = gathered \ dropped /\ Len(order) = Cardinality(Range(order))

(* While the free pool is limited, the first two rows are a free one and   *)
(* the best of the others.                                                 *)
FallbackFirst == (stage = "done" /\ limited) =>
    LET others == {c \in Range(order) : ~c.free}
    IN (others # {} /\ others # Range(order)) => order[1].free /\ ~order[2].free

RankingHolds == PromotionHolds /\ AreaHolds /\ CreditLast /\ RowsConserved /\ FallbackFirst
=============================================================================
