---------------------------- MODULE ManualStore ----------------------------
(***************************************************************************)
(* manual.json: what operators recorded by hand, as one append-only        *)
(* history and a projection of the current entries (manual.py).  Every     *)
(* reader and writer first validates the whole file and refuses it when    *)
(* one record breaks a rule.  The reader derives from the history which    *)
(* entries still count and whether they may stand in for an automatic      *)
(* measurement that failed.                                                *)
(*                                                                         *)
(* Writers hold manual.lock from the load to the rename, so that recording *)
(* and clearing are one step each; the moment of entry is read before the  *)
(* lock.  The id of an observation is its place in the history.            *)
(***************************************************************************)
EXTENDS Integers, Sequences, FiniteSets, ManualFallback

CONSTANTS Pools,        \* the pools entries are recorded for
          Rolling,      \* the rolling windows: 5h, 7d, ...
          Credit,       \* the window of a prepaid credit
          Values,       \* percentages
          Ttls,         \* the --ttl operators give
          Resets,       \* the --resets-at operators give
          Days,         \* the --expires-on operators give
          Skew, DefaultTtl, MaxTtl, CreditV1MaxTtl,
          Wait,         \* how long a writer may wait for manual.lock
          Horizon,      \* bound on the clock
          MaxEvents,    \* bound on the history
          Legacy,       \* credit entries of earlier versions, one of which
                        \* the history may start with
          AutoCases     \* the automatic results they may stand in for

ASSUME ManualAssumption ==
    /\ {Skew, DefaultTtl, MaxTtl, CreditV1MaxTtl, Wait, Horizon, MaxEvents}
          \subseteq Nat
    /\ DefaultTtl <= MaxTtl
    /\ ManualOnly \subseteq Pools
    /\ Credit \notin Rolling
    /\ Ttls \subseteq Nat \ {0} /\ Resets \cup Days \subseteq Int
    /\ None \notin Int
    /\ \A r \in AutoCases : r.pool \in Pools /\ r.fetched \in Int \cup {None}

VARIABLES history, latest, now
manualVars == <<history, latest, now>>

Windows == Rolling \cup {Credit}
Keys == {k \in Pools \X Windows : (k[2] = Credit) <=> (k[1] \in ManualOnly)}

(* A set event.  day is the start of the day a credit expires on, policy   *)
(* the rule its expiry was computed by (none before hk 2106).              *)
SetEvent == [event : {"set"}, pool : Pools, window : Windows, used : Values,
             measured : Int, entered : Int, expires : Int, day : Int,
             policy : {"none", "v1", "v2"}, supersedes : Nat]
ClearEvent == [event : {"clear"}, pool : Pools, entered : Int,
               cleared : SUBSET Nat]

Lower(a, b) == IF a <= b THEN a ELSE b
IsSet(h, i, key) ==
    h[i].event = "set" /\ <<h[i].pool, h[i].window>> = key

(* j is the last set event of a key before place i, 0 if there is none.    *)
LatestSet(h, i, key, j) ==
    /\ j # 0 => IsSet(h, j, key)
    /\ \A k \in (j + 1) .. (i - 1) : ~IsSet(h, k, key)

------------------------------------------------------------------------------
(* What _validate_store asks of one record.                                *)
Limited(e, ttl) == e.expires <= e.measured + ttl /\ e.expires <= e.entered + ttl
WithinBounds(e) ==
    IF e.window # Credit THEN Limited(e, MaxTtl)
    ELSE CASE e.policy = "v2" -> e.expires <= e.day
           [] e.policy = "v1" -> Limited(e, CreditV1MaxTtl) /\ e.expires <= e.day
           [] OTHER -> Limited(e, MaxTtl)

SoundSet(h, i) ==
    LET e == h[i]
        key == <<e.pool, e.window>>
    IN /\ key \in Keys
       /\ e.window # Credit => e.policy = "none"
       /\ \A j \in 1 .. (i - 1) :
             ~ /\ IsSet(h, j, key)
               /\ h[j].used = e.used /\ h[j].measured = e.measured
       /\ e.measured <= e.entered + Skew
       /\ WithinBounds(e)
       /\ e.supersedes \in 0 .. (i - 1)
       /\ LatestSet(h, i, key, e.supersedes)
       /\ (e.supersedes # 0 /\ e.measured <= h[e.supersedes].measured) =>
             /\ e.used # h[e.supersedes].used
             /\ e.expires <= h[e.supersedes].expires

SoundClear(h, i) ==
    \A j \in h[i].cleared : j \in 1 .. (i - 1) /\ h[j].event = "set"

Sound(h) == \A i \in DOMAIN h :
    IF h[i].event = "set" THEN SoundSet(h, i) ELSE SoundClear(h, i)
ASSUME LegacyAssumption == Legacy \subseteq SetEvent /\ \A e \in Legacy : Sound(<<e>>)

(* ... and of its time stamps, against the reader's clock.                 *)
NotAhead(h, t) == \A i \in DOMAIN h :
    /\ h[i].entered <= t + Skew
    /\ h[i].event = "set" => h[i].measured <= t + Skew

Projected(h, l) == \A key \in Keys :
    l[key] # 0 => l[key] \in DOMAIN h /\ h[l[key]].event = "set"

Validates(h, l, t) == Sound(h) /\ NotAhead(h, t) /\ Projected(h, l)

------------------------------------------------------------------------------
(* record_observation: the expiry before a correction is cut.              *)
Expiry(window, measured, ttl, reset, day, entered) ==
    LET plain ==
          IF window = Credit
          THEN IF ttl = None THEN day
               ELSE IF ttl >= day - measured THEN day ELSE measured + ttl
          ELSE Lower(measured + (IF ttl = None THEN DefaultTtl ELSE ttl),
                     entered + MaxTtl)
    IN IF reset = None THEN plain ELSE Lower(plain, reset)

(* A value measured no later than the one before it corrects that one and  *)
(* lives no longer.                                                        *)
Cut(expires, measured, prior) ==
    IF prior # 0 /\ measured <= history[prior].measured
    THEN Lower(expires, history[prior].expires) ELSE expires

Repeats(key, used, measured, prior) ==
    /\ prior # 0
    /\ \/ measured <= history[prior].measured /\ used = history[prior].used
       \/ \E i \in DOMAIN history :
             /\ IsSet(history, i, key)
             /\ history[i].used = used /\ history[i].measured = measured

Acceptable(key, measured, ttl, reset, day, entered) ==
    /\ measured <= entered + Skew
    /\ key[2] = Credit => reset = None /\ entered < day
    /\ key[2] # Credit => ttl \in {None} \cup (1 .. MaxTtl)

Record(key, used, measured, ttl, reset, day, entered) ==
    /\ Acceptable(key, measured, ttl, reset, day, entered)
    /\ \E prior \in 0 .. Len(history) :
          /\ LatestSet(history, Len(history) + 1, key, prior)
          /\ ~Repeats(key, used, measured, prior)
          /\ history' = Append(history,
               [event |-> "set", pool |-> key[1], window |-> key[2],
                used |-> used, measured |-> measured, entered |-> entered,
                expires |-> Cut(Expiry(key[2], measured, ttl, reset, day, entered),
                                measured, prior),
                day |-> day, supersedes |-> prior,
                policy |-> IF key[2] = Credit THEN "v2" ELSE "none"])
    /\ latest' = [latest EXCEPT ![key] = Len(history) + 1]
    /\ UNCHANGED now

RecordObservation ==
    /\ Validates(history, latest, now)
    /\ Len(history) < MaxEvents
    /\ \E key \in Keys, used \in Values, ttl \in Ttls \cup {None},
          reset \in Resets \cup {None}, entered \in (now - Wait) .. now,
          measured \in 0 .. (now + Skew) :
             \E day \in IF key[2] = Credit THEN Days ELSE {0} :
                Record(key, used, measured, ttl, reset, day, entered)

(* Slip: the projection of a cleared pool is left as it was.               *)
ClearedKeeping(pool) == latest
Cleared(pool) == [key \in Keys |-> IF key[1] = pool THEN 0 ELSE latest[key]]
ClearPool(pool, entered) ==
    /\ Validates(history, latest, now)
    /\ Len(history) < MaxEvents
    /\ history' = Append(history,
         [event |-> "clear", pool |-> pool, entered |-> entered,
          cleared |-> {i \in DOMAIN history : /\ history[i].event = "set"
                                              /\ history[i].pool = pool}])
    /\ latest' = Cleared(pool)
    /\ UNCHANGED now
Clear == \E pool \in Pools, entered \in (now - Wait) .. now :
            ClearPool(pool, entered)

(* The host's clock, which may be set back.                                *)
ManualTick == now < Horizon /\ now' = now + 1 /\ UNCHANGED <<history, latest>>
SetBack == now > 0 /\ now' = now - 1 /\ UNCHANGED <<history, latest>>

LatestOf(h) == [key \in Keys |->
    IF h # <<>> /\ IsSet(h, 1, key) THEN 1 ELSE 0]
ManualInit ==
    /\ now = 0
    /\ history \in {<<>>} \cup {<<e>> : e \in Legacy}
    /\ latest = LatestOf(history)
ManualNext == RecordObservation \/ Clear \/ ManualTick \/ SetBack
ManualSpec == ManualInit /\ [][ManualNext]_manualVars

------------------------------------------------------------------------------
(* What a reader makes of the history (_entry_views).                      *)

(* The event that replaced entry i: the next of its key, or a clear.       *)
Replacers(h, i) == {j \in (i + 1) .. Len(h) :
    \/ IsSet(h, j, <<h[i].pool, h[i].window>>)
    \/ h[j].event = "clear" /\ h[j].pool = h[i].pool}
First(S) == CHOOSE i \in S : \A j \in S : i <= j

ShownExpiry(e) == IF e.window = Credit THEN Lower(e.expires, e.day) ELSE e.expires

(* Slip: an entry is only superseded by a success that is still fresh.     *)
OutdatedWhenFresh(e, auto) == auto.fresh /\ auto.fetched > e.measured
Outdated(e, auto) == auto.success /\ auto.fetched # None /\ auto.fetched > e.measured

Status(h, i, t, auto) ==
    LET later == Replacers(h, i)
    IN IF later # {}
       THEN IF h[First(later)].event = "set" THEN "superseded" ELSE "cleared"
       ELSE IF Outdated(h[i], auto) THEN "superseded_by_auto"
       ELSE IF ShownExpiry(h[i]) <= t THEN "expired"
       ELSE IF auto.fresh THEN "shadowed_by_fresh_auto"
       ELSE "active"

Active(h, t, r) == {i \in DOMAIN h :
    /\ h[i].event = "set" /\ h[i].pool = r.pool
    /\ Status(h, i, t, AutoState(r)) = "active"}

(* resolve_result: may the manual entries stand in for result r?           *)
Resolve(h, t, r) ==
    Fallback(r, \E i \in DOMAIN h : h[i].event = "set" /\ h[i].pool = r.pool,
             {h[i].window : i \in Active(h, t, r)})

------------------------------------------------------------------------------
ManualTypeOK ==
    /\ history \in Seq(SetEvent \cup ClearEvent)
    /\ latest \in [Keys -> Nat]
    /\ now \in Nat

(* Whatever was recorded, corrected and cleared, in whatever order and     *)
(* however long writers waited for the lock: every reader still accepts    *)
(* the file.  Only a clock set back by more than the tolerated skew locks  *)
(* it, until the clock has caught up.                                      *)
Readable == NotAhead(history, now) => Validates(history, latest, now)

(* The projection in the file and the one the reader derives from the      *)
(* history name the same current entry of each pool and window, and there  *)
(* is at most one.                                                         *)
LatestIsCurrent == \A key \in Keys :
    {i \in DOMAIN history : IsSet(history, i, key) /\ Replacers(history, i) = {}}
       = IF latest[key] = 0 THEN {} ELSE {latest[key]}

(* The file stays readable, and its two records of the present agree.      *)
StoreHolds == ManualTypeOK /\ Readable /\ LatestIsCurrent

(* A manual entry stands in for a measurement only while it may: every     *)
(* required window is covered by the current entry of that window, which   *)
(* no automatic success has overtaken, no rolling reading is older than    *)
(* MaxTtl and no credit is past its day, and neither a refusal seen in the *)
(* pane, a confirmed cut-off nor a rejected login is hidden by it.         *)
FallbackIsJustified == history # <<>> => \A r \in AutoCases :
    Resolve(history, now, r) = "manual_fallback" =>
      /\ ~r.limited /\ ~r.over /\ FailureKind(r) # "auth"
      /\ \A w \in Required[r.pool] : LET i == latest[<<r.pool, w>>]
         IN /\ i # 0
            /\ w # Credit => now - history[i].measured < MaxTtl
            /\ w = Credit => now < history[i].day
            /\ (~r.error /\ ~r.warning /\ r.usable /\ r.fetched # None) =>
                  r.fetched <= history[i].measured
=============================================================================
