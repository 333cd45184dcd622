----------------------------- MODULE GateProofs -----------------------------
(***************************************************************************)
(* What is proved around the gate.                                         *)
(*                                                                         *)
(* Of manual.json, for any pools, windows, values, times to live and       *)
(* waits, and a history of any length: whatever was recorded, corrected    *)
(* and cleared leaves a file that every reader accepts, the projection in  *)
(* it is what the history says, and an entry stands in for a measurement   *)
(* only while it may.                                                      *)
(*                                                                         *)
(* Of the gate command, for any requests, measurements, windows and states *)
(* of the host, and any number of changes beside it: what it admits had    *)
(* room, and the recommendation judges every measurement as it does.       *)
(*                                                                         *)
(* Of the request, for any catalog, bundle and table of names: an          *)
(* operator's reference and a marker open what they are given for and      *)
(* nothing else, to the gate and to the launcher; the launcher starts what *)
(* the gate admits and nothing it calls closed; and what the list offers   *)
(* has a seat that both of them open.                                      *)
(***************************************************************************)
EXTENDS ManualStore, Gate, TLAPS, WellFoundedInduction

Events == SetEvent \cup ClearEvent

\* The set events of a key that nothing has replaced.
Current(h, key) == {i \in DOMAIN h : IsSet(h, i, key) /\ Replacers(h, i) = {}}
AsProjected(h, l) == \A key \in Keys : Current(h, key) = IF l[key] = 0 THEN {} ELSE {l[key]}

StoreInv == ManualTypeOK /\ Sound(history) /\ AsProjected(history, latest)

------------------------------------------------------------------------------
LEMMA EventTypes ==
    ASSUME NEW e \in Events
    PROVE  /\ e.event = "set" => /\ e \in SetEvent /\ e.pool \in Pools /\ e.window \in Windows
                                 /\ e.measured \in Int /\ e.entered \in Int /\ e.expires \in Int
                                 /\ e.day \in Int /\ e.supersedes \in Nat
           /\ e.event # "set" => e \in ClearEvent /\ e.event = "clear"
    BY DEF Events, SetEvent, ClearEvent

\* g is h with one more event at its end.
Grown(h, g) ==
    /\ h \in Seq(Events) /\ g \in Seq(Events) /\ Len(g) = Len(h) + 1
    /\ \A i \in 1 .. Len(h) : g[i] = h[i]

LEMMA AppendGrows ==
    ASSUME NEW h \in Seq(Events), NEW e \in Events
    PROVE  Grown(h, Append(h, e)) /\ Append(h, e)[Len(h) + 1] = e
    BY DEF Grown

\* A record stays as sound as it was, whatever is appended after it.
LEMMA PrefixSound ==
    ASSUME NEW h, NEW g, Grown(h, g), NEW i \in 1 .. Len(h)
    PROVE  (SoundSet(h, i) => SoundSet(g, i)) /\ (SoundClear(h, i) => SoundClear(g, i))
<1>1. Len(h) \in Nat /\ \A j \in 1 .. i : j \in 1 .. Len(h) /\ g[j] = h[j] BY DEF Grown
<1>2. i \in 1 .. i /\ g[i] = h[i] BY <1>1
<1>3. SoundClear(h, i) => SoundClear(g, i)
    <2> SUFFICES ASSUME SoundClear(h, i), NEW j \in g[i].cleared
                 PROVE  j \in 1 .. (i - 1) /\ g[j].event = "set"
        BY DEF SoundClear
    <2>1. j \in 1 .. (i - 1) /\ h[j].event = "set" BY <1>2 DEF SoundClear
    <2>2. j \in 1 .. i BY <2>1
    <2>3. QED BY <2>1, <2>2, <1>1
<1>4. SoundSet(h, i) => SoundSet(g, i)
    <2> SUFFICES ASSUME SoundSet(h, i) PROVE SoundSet(g, i) OBVIOUS
    <2> DEFINE e == h[i]
               key == <<e.pool, e.window>>
               s == e.supersedes
    <2>1. s \in 0 .. (i - 1) BY DEF SoundSet
    <2>2. \A j \in 1 .. (i - 1) : IsSet(g, j, key) <=> IsSet(h, j, key)
        BY <1>1 DEF IsSet
    <2>3. LatestSet(g, i, key, s)
        <3>1. LatestSet(h, i, key, s) BY DEF SoundSet
        <3>2. s # 0 => s \in 1 .. (i - 1) BY <2>1
        <3>3. \A k \in (s + 1) .. (i - 1) : k \in 1 .. (i - 1) BY <2>1
        <3>4. QED BY <3>1, <3>2, <3>3, <2>2 DEF LatestSet
    <2>4. s # 0 => g[s] = h[s] BY <2>1, <1>1
    <2>5. \A j \in 1 .. (i - 1) : g[j] = h[j] BY <1>1
    <2>6. QED BY <1>2, <2>1, <2>2, <2>3, <2>4, <2>5 DEF SoundSet
<1>5. QED BY <1>3, <1>4

LEMMA GrownSound ==
    ASSUME NEW h, NEW g, Grown(h, g), Sound(h),
           LET n == Len(h) + 1 IN IF g[n].event = "set" THEN SoundSet(g, n) ELSE SoundClear(g, n)
    PROVE  Sound(g)
<1> SUFFICES ASSUME NEW i \in 1 .. Len(g)
             PROVE  IF g[i].event = "set" THEN SoundSet(g, i) ELSE SoundClear(g, i)
    BY DEF Sound, Grown
<1>1. CASE i \in 1 .. Len(h)
    <2>1. g[i] = h[i] BY <1>1 DEF Grown
    <2>2. IF h[i].event = "set" THEN SoundSet(h, i) ELSE SoundClear(h, i)
        BY <1>1 DEF Sound, Grown
    <2>3. QED BY <1>1, <2>1, <2>2, PrefixSound
<1>2. CASE i = Len(h) + 1 BY <1>2
<1>3. QED BY <1>1, <1>2 DEF Grown

\* Who replaces an entry, once an event is appended.
LEMMA GrownReplacers ==
    ASSUME NEW h, NEW g, Grown(h, g), NEW i \in 1 .. Len(h)
    PROVE  LET n == Len(h) + 1
           IN Replacers(g, i) = Replacers(h, i) \cup
                  (IF IsSet(g, n, <<h[i].pool, h[i].window>>)
                      \/ (g[n].event = "clear" /\ g[n].pool = h[i].pool) THEN {n} ELSE {})
<1>1. Len(h) \in Nat /\ Len(g) = Len(h) + 1 /\ g[i] = h[i] BY DEF Grown
<1>2. (i + 1) .. Len(g) = ((i + 1) .. Len(h)) \cup {Len(h) + 1} BY <1>1
<1>3. \A j \in (i + 1) .. Len(h) : g[j] = h[j] BY DEF Grown
<1>4. \A j \in (i + 1) .. Len(h) : \A key : IsSet(g, j, key) <=> IsSet(h, j, key)
    BY <1>3 DEF IsSet
<1>5. QED BY <1>1, <1>2, <1>3, <1>4 DEF Replacers

LEMMA LastReplacers ==
    ASSUME NEW h, NEW g, Grown(h, g) PROVE Replacers(g, Len(h) + 1) = {}
    BY DEF Grown, Replacers

------------------------------------------------------------------------------
\* The expiry of a record keeps its limits, before a correction and after.
LEMMA ExpiryBounds ==
    ASSUME NEW key \in Keys, NEW measured \in Int, NEW ttl \in Ttls \cup {None},
           NEW reset \in Resets \cup {None}, NEW day \in Int, NEW entered \in Int,
           Acceptable(key, measured, ttl, reset, day, entered)
    PROVE  LET x == Expiry(key[2], measured, ttl, reset, day, entered)
           IN /\ x \in Int
              /\ key[2] # Credit => x <= measured + MaxTtl /\ x <= entered + MaxTtl
              /\ key[2] = Credit => x <= day
<1>1. DefaultTtl \in Nat /\ MaxTtl \in Nat /\ DefaultTtl <= MaxTtl BY ManualAssumption
<1>2. (ttl # None => ttl \in Nat) /\ (reset # None => reset \in Int)
    BY ManualAssumption
<1>3. CASE key[2] = Credit
    <2>1. reset = None BY <1>3 DEF Acceptable
    <2>2. QED BY <1>1, <1>2, <1>3, <2>1 DEF Expiry
<1>4. CASE key[2] # Credit
    <2>1. ttl # None => ttl <= MaxTtl BY <1>1, <1>4 DEF Acceptable
    <2> DEFINE own == IF ttl = None THEN DefaultTtl ELSE ttl
               plain == Lower(measured + own, entered + MaxTtl)
    <2>2. own \in Nat /\ own <= MaxTtl BY <1>1, <1>2, <2>1
    <2> HIDE DEF own
    <2>3. plain \in Int /\ plain <= measured + MaxTtl /\ plain <= entered + MaxTtl
        BY <1>1, <2>2 DEF Lower
    <2> HIDE DEF plain
    <2>4. Expiry(key[2], measured, ttl, reset, day, entered)
             = IF reset = None THEN plain ELSE Lower(plain, reset)
        BY <1>4 DEF Expiry, plain, own
    <2> DEFINE x == Expiry(key[2], measured, ttl, reset, day, entered)
    <2>5. x \in Int /\ x <= plain
        <3>1. CASE reset = None BY <3>1, <2>3, <2>4
        <3>2. CASE reset # None
            <4>1. x = Lower(plain, reset) BY <3>2, <2>4
            <4> HIDE DEF x
            <4>2. QED BY <4>1, <3>2, <2>3, <1>2 DEF Lower
        <3>3. QED BY <3>1, <3>2
    <2> HIDE DEF x
    <2>6. x <= measured + MaxTtl /\ x <= entered + MaxTtl BY <2>3, <2>5, <1>1
    <2>7. QED BY <1>4, <2>5, <2>6 DEF x
<1>5. QED BY <1>3, <1>4

LEMMA CutBounds ==
    ASSUME NEW x \in Int, NEW measured \in Int, NEW prior \in 0 .. Len(history),
           prior # 0 => history[prior].expires \in Int
    PROVE  /\ Cut(x, measured, prior) \in Int /\ Cut(x, measured, prior) <= x
           /\ prior # 0 /\ measured <= history[prior].measured
                  => Cut(x, measured, prior) <= history[prior].expires
    BY DEF Cut, Lower

------------------------------------------------------------------------------
LEMMA InitStoreInv == ManualInit => StoreInv
<1> SUFFICES ASSUME ManualInit PROVE StoreInv OBVIOUS
<1>1. /\ history = <<>> \/ \E e \in SetEvent : history = <<e>> /\ Sound(<<e>>)
      /\ now = 0 /\ latest = LatestOf(history)
    BY LegacyAssumption DEF ManualInit
<1>2. ManualTypeOK
    <2>1. history \in Seq(SetEvent \cup ClearEvent)
        <3>1. CASE history = <<>> BY <3>1
        <3>2. ASSUME NEW e \in SetEvent, history = <<e>> PROVE history \in Seq(SetEvent \cup ClearEvent)
            <4>1. e \in SetEvent \cup ClearEvent OBVIOUS
            <4>2. QED BY <3>2, <4>1
        <3>3. QED BY <1>1, <3>1, <3>2
    <2>2. latest \in [Keys -> Nat] BY <1>1 DEF LatestOf
    <2>3. QED BY <1>1, <2>1, <2>2 DEF ManualTypeOK
<1>3. Sound(history)
    <2>1. CASE history = <<>> BY <2>1 DEF Sound
    <2>2. QED BY <1>1, <2>1
<1>4. AsProjected(history, latest)
    <2> SUFFICES ASSUME NEW key \in Keys
                 PROVE  Current(history, key) = IF latest[key] = 0 THEN {} ELSE {latest[key]}
        BY DEF AsProjected
    <2>1. CASE history = <<>> BY <1>1, <2>1 DEF Current, LatestOf
    <2>2. CASE history # <<>>
        <3>1. PICK e \in SetEvent : history = <<e>> BY <1>1, <2>2
        <3>2. DOMAIN history = {1} /\ Len(history) = 1 BY <3>1
        <3>3. Replacers(history, 1) = {} BY <3>2 DEF Replacers
        <3>4. latest[key] = IF IsSet(history, 1, key) THEN 1 ELSE 0
            BY <1>1, <2>2 DEF LatestOf
        <3>5. QED BY <3>2, <3>3, <3>4 DEF Current
    <2>3. QED BY <2>1, <2>2
<1>5. QED BY <1>2, <1>3, <1>4 DEF StoreInv

LEMMA StepRecord ==
    ASSUME StoreInv, NEW key \in Keys, NEW used \in Values, NEW measured \in Int,
           NEW ttl \in Ttls \cup {None}, NEW reset \in Resets \cup {None}, NEW day \in Int,
           NEW entered \in Int, Record(key, used, measured, ttl, reset, day, entered)
    PROVE  StoreInv'
<1> USE DEF StoreInv
<1>a. /\ history \in Seq(Events) /\ latest \in [Keys -> Nat] /\ now \in Nat
      /\ key \in Pools \X Windows /\ key[1] \in Pools /\ key[2] \in Windows
      /\ Len(history) \in Nat
    BY DEF ManualTypeOK, Events, Keys
<1>b. Acceptable(key, measured, ttl, reset, day, entered) /\ now' = now
      /\ latest' = [latest EXCEPT ![key] = Len(history) + 1]
    BY DEF Record
<1>1. PICK prior \in 0 .. Len(history) :
          /\ LatestSet(history, Len(history) + 1, key, prior)
          /\ ~Repeats(key, used, measured, prior)
          /\ history' = Append(history,
               [event |-> "set", pool |-> key[1], window |-> key[2],
                used |-> used, measured |-> measured, entered |-> entered,
                expires |-> Cut(Expiry(key[2], measured, ttl, reset, day, entered),
                                measured, prior),
                day |-> day, supersedes |-> prior,
                policy |-> IF key[2] = Credit THEN "v2" ELSE "none"])
    BY DEF Record
<1> DEFINE n == Len(history) + 1
           plain == Expiry(key[2], measured, ttl, reset, day, entered)
           x == Cut(plain, measured, prior)
           policy == IF key[2] = Credit THEN "v2" ELSE "none"
           e == [event |-> "set", pool |-> key[1], window |-> key[2], used |-> used,
                 measured |-> measured, entered |-> entered, expires |-> x, day |-> day,
                 supersedes |-> prior, policy |-> policy]
<1>2. prior # 0 => /\ IsSet(history, prior, key) /\ history[prior].expires \in Int
                   /\ history[prior].measured \in Int
    <2> SUFFICES ASSUME prior # 0
                 PROVE  /\ IsSet(history, prior, key) /\ history[prior].expires \in Int
                        /\ history[prior].measured \in Int
        OBVIOUS
    <2>1. IsSet(history, prior, key) /\ history[prior].event = "set" BY <1>1 DEF LatestSet, IsSet
    <2>2. history[prior] \in Events BY <1>a
    <2>3. QED BY <2>1, <2>2, EventTypes
<1>3. /\ plain \in Int
      /\ key[2] # Credit => plain <= measured + MaxTtl /\ plain <= entered + MaxTtl
      /\ key[2] = Credit => plain <= day
    BY <1>b, ExpiryBounds
<1>4. /\ x \in Int /\ x <= plain
      /\ prior # 0 /\ measured <= history[prior].measured => x <= history[prior].expires
    <2> HIDE DEF plain
    <2>1. QED BY <1>2, <1>3, CutBounds
<1> HIDE DEF x, plain
<1>5. e \in SetEvent /\ e \in Events
    BY <1>a, <1>4 DEF SetEvent, Events, Windows
<1>6. /\ e.event = "set" /\ e.pool = key[1] /\ e.window = key[2] /\ e.used = used
      /\ e.measured = measured /\ e.entered = entered /\ e.expires = x /\ e.day = day
      /\ e.supersedes = prior /\ e.policy = policy
    OBVIOUS
<1>7. history' = Append(history, e) BY <1>1 DEF x, plain
<1> HIDE DEF e
<1>8. Grown(history, history') /\ history'[n] = e BY <1>5, <1>7, <1>a, AppendGrows
<1>9. <<e.pool, e.window>> = key BY <1>6, <1>a
<1>10. SoundSet(history', n)
    <2>1. \A j \in 1 .. (n - 1) : history'[j] = history[j] /\ j \in DOMAIN history
        BY <1>8, <1>a DEF Grown
    <2>2. \A j \in 1 .. (n - 1) : \A k : IsSet(history', j, k) <=> IsSet(history, j, k)
        BY <2>1 DEF IsSet
    <2>3. e.window # Credit => e.policy = "none" BY <1>6
    <2>4. \A j \in 1 .. (n - 1) :
              ~ (IsSet(history', j, key) /\ history'[j].used = used /\ history'[j].measured = measured)
        <3> SUFFICES ASSUME NEW j \in 1 .. (n - 1), IsSet(history, j, key), history[j].used = used,
                            history[j].measured = measured
                     PROVE  FALSE
            BY <2>1, <2>2
        <3>1. prior # 0 BY <1>1, <1>a DEF LatestSet
        <3>2. QED BY <3>1, <2>1, <1>1 DEF Repeats
    <2>5. e.measured <= e.entered + Skew BY <1>b, <1>6 DEF Acceptable
    <2>6. WithinBounds(e)
        <3>1. CASE key[2] = Credit
            <4>1. x <= day BY <3>1, <1>3, <1>4
            <4>2. QED BY <3>1, <4>1, <1>6 DEF WithinBounds
        <3>2. CASE key[2] # Credit
            <4>a. MaxTtl \in Int BY ONLY ManualAssumption
            <4>b. plain <= measured + MaxTtl /\ plain <= entered + MaxTtl BY ONLY <3>2, <1>3
            <4>1. x <= measured + MaxTtl /\ x <= entered + MaxTtl
                BY ONLY <4>a, <4>b, <1>3, <1>4, measured \in Int, entered \in Int
            <4>2. QED BY <3>2, <4>1, <1>6 DEF WithinBounds, Limited
        <3>3. QED BY <3>1, <3>2
    <2>7. LatestSet(history', n, key, prior)
        <3>1. prior # 0 => prior \in 1 .. (n - 1) BY <1>a
        <3>2. \A k \in (prior + 1) .. (n - 1) : k \in 1 .. (n - 1) BY <1>a
        <3>3. QED BY <3>1, <3>2, <2>2, <1>1 DEF LatestSet
    <2>8. prior # 0 /\ measured <= history'[prior].measured
              => used # history'[prior].used /\ x <= history'[prior].expires
        <3> SUFFICES ASSUME prior # 0, measured <= history'[prior].measured
                     PROVE  used # history'[prior].used /\ x <= history'[prior].expires
            OBVIOUS
        <3>1. history'[prior] = history[prior] BY <2>1, <1>a
        <3>2. QED BY <3>1, <1>1, <1>4 DEF Repeats
    <2>9. prior \in 0 .. (n - 1) BY <1>a
    <2>10. QED
        BY <1>6, <1>8, <1>9, <2>3, <2>4, <2>5, <2>6, <2>7, <2>8, <2>9 DEF SoundSet
<1>11. Sound(history') BY <1>6, <1>8, <1>10, GrownSound
<1>12. ManualTypeOK'
    <2>1. history' \in Seq(SetEvent \cup ClearEvent) BY <1>8 DEF Grown, Events
    <2>2. QED BY <2>1, <1>a, <1>b DEF ManualTypeOK
<1>13. AsProjected(history', latest')
    <2> SUFFICES ASSUME NEW k \in Keys
                 PROVE  Current(history', k) = IF latest'[k] = 0 THEN {} ELSE {latest'[k]}
        BY DEF AsProjected
    <2>1. DOMAIN history' = 1 .. n /\ DOMAIN history = 1 .. (n - 1) BY <1>8, <1>a DEF Grown
    <2>2. \A i \in 1 .. (n - 1) : /\ history'[i] = history[i]
                                  /\ IsSet(history', i, k) <=> IsSet(history, i, k)
        BY <1>8, <1>a DEF Grown, IsSet
    <2>3. IsSet(history', n, k) <=> k = key BY <1>6, <1>8, <1>9 DEF IsSet
    <2>4. \A i \in 1 .. (n - 1) : IsSet(history, i, k) =>
              Replacers(history', i) = Replacers(history, i) \cup (IF k = key THEN {n} ELSE {})
        <3> SUFFICES ASSUME NEW i \in 1 .. (n - 1), IsSet(history, i, k)
                     PROVE  Replacers(history', i)
                                = Replacers(history, i) \cup (IF k = key THEN {n} ELSE {})
            OBVIOUS
        <3>1. <<history[i].pool, history[i].window>> = k BY DEF IsSet
        <3>2. history'[n].event # "clear" BY <1>6, <1>8
        <3>3. i \in 1 .. Len(history) BY <1>a
        <3>4. QED BY <3>1, <3>2, <3>3, <2>3, <1>8, GrownReplacers
    <2>5. Replacers(history', n) = {} BY <1>8, LastReplacers
    <2>6. CASE k = key
        <3>1. Current(history', k) = {n}
            <4>1. n \in Current(history', k) BY <2>1, <2>3, <2>5, <2>6, <1>a DEF Current
            <4>2. \A i \in 1 .. (n - 1) : i \notin Current(history', k)
                BY <2>2, <2>4, <2>6 DEF Current
            <4>3. Current(history', k) \subseteq 1 .. n BY <2>1 DEF Current
            <4>4. 1 .. n = (1 .. (n - 1)) \cup {n} BY <1>a
            <4>5. QED BY <4>1, <4>2, <4>3, <4>4
        <3>2. latest'[k] = n BY <2>6, <1>a, <1>b
        <3>3. QED BY <3>1, <3>2, <1>a
    <2>7. CASE k # key
        <3>1. Current(history', k) = Current(history, k)
            BY <2>1, <2>2, <2>3, <2>4, <2>7, <1>a DEF Current
        <3>2. latest'[k] = latest[k] BY <2>7, <1>a, <1>b
        <3>3. QED BY <3>1, <3>2 DEF AsProjected
    <2>8. QED BY <2>6, <2>7
<1>14. QED BY <1>11, <1>12, <1>13

LEMMA StepClear ==
    ASSUME StoreInv, NEW pool \in Pools, NEW entered \in Int, ClearPool(pool, entered) PROVE StoreInv'
<1> USE DEF StoreInv
<1>a. /\ history \in Seq(Events) /\ latest \in [Keys -> Nat] /\ now \in Nat
      /\ Len(history) \in Nat
    BY DEF ManualTypeOK, Events
<1> DEFINE n == Len(history) + 1
           gone == {i \in DOMAIN history : history[i].event = "set" /\ history[i].pool = pool}
           e == [event |-> "clear", pool |-> pool, entered |-> entered, cleared |-> gone]
<1>1. e \in ClearEvent /\ e \in Events
    <2>1. gone \in SUBSET Nat BY <1>a
    <2> HIDE DEF gone
    <2>2. QED BY <2>1 DEF ClearEvent, Events
<1>2. e.event = "clear" /\ e.pool = pool /\ e.cleared = gone OBVIOUS
<1>3. history' = Append(history, e) /\ latest' = Cleared(pool) /\ now' = now
    BY DEF ClearPool
<1> HIDE DEF e
<1>4. Grown(history, history') /\ history'[n] = e BY <1>1, <1>3, <1>a, AppendGrows
<1>5. Sound(history')
    <2>1. SoundClear(history', n)
        <3> SUFFICES ASSUME NEW j \in gone
                     PROVE  j \in 1 .. (n - 1) /\ history'[j].event = "set"
            BY <1>2, <1>4 DEF SoundClear
        <3>1. j \in 1 .. Len(history) /\ history[j].event = "set" BY <1>a
        <3>2. QED BY <3>1, <1>4, <1>a DEF Grown
    <2>2. QED BY <2>1, <1>2, <1>4, GrownSound
<1>6. ManualTypeOK'
    <2>1. history' \in Seq(SetEvent \cup ClearEvent) BY <1>4 DEF Grown, Events
    <2>2. latest' \in [Keys -> Nat] BY <1>3, <1>a DEF Cleared
    <2>3. QED BY <2>1, <2>2, <1>a, <1>3 DEF ManualTypeOK
<1>7. AsProjected(history', latest')
    <2> SUFFICES ASSUME NEW k \in Keys
                 PROVE  Current(history', k) = IF latest'[k] = 0 THEN {} ELSE {latest'[k]}
        BY DEF AsProjected
    <2>1. DOMAIN history' = 1 .. n /\ DOMAIN history = 1 .. (n - 1) BY <1>4, <1>a DEF Grown
    <2>2. \A i \in 1 .. (n - 1) : /\ history'[i] = history[i]
                                  /\ IsSet(history', i, k) <=> IsSet(history, i, k)
        BY <1>4, <1>a DEF Grown, IsSet
    <2>3. \A j : ~IsSet(history', n, j) BY <1>2, <1>4 DEF IsSet
    <2>4. \A i \in 1 .. (n - 1) : IsSet(history, i, k) =>
              Replacers(history', i)
                  = Replacers(history, i) \cup (IF k[1] = pool THEN {n} ELSE {})
        <3> SUFFICES ASSUME NEW i \in 1 .. (n - 1), IsSet(history, i, k)
                     PROVE  Replacers(history', i)
                                = Replacers(history, i) \cup (IF k[1] = pool THEN {n} ELSE {})
            OBVIOUS
        <3>1. history[i].pool = k[1] BY DEF IsSet
        <3>2. i \in 1 .. Len(history) BY <1>a
        <3>3. history'[n].event = "clear" /\ history'[n].pool = pool BY <1>2, <1>4
        <3>4. ~IsSet(history', n, <<history[i].pool, history[i].window>>) BY <2>3
        <3>5. QED BY <3>1, <3>2, <3>3, <3>4, <1>4, GrownReplacers
    <2>5. latest'[k] = IF k[1] = pool THEN 0 ELSE latest[k] BY <1>3 DEF Cleared
    <2>6. CASE k[1] = pool
        <3>1. Current(history', k) = {}
            <4>1. n \notin Current(history', k) BY <2>3 DEF Current
            <4>2. \A i \in 1 .. (n - 1) : i \notin Current(history', k)
                BY <2>2, <2>4, <2>6 DEF Current
            <4>3. Current(history', k) \subseteq 1 .. n BY <2>1 DEF Current
            <4>4. 1 .. n = (1 .. (n - 1)) \cup {n} BY <1>a
            <4>5. QED BY <4>1, <4>2, <4>3, <4>4
        <3>2. QED BY <3>1, <2>5, <2>6
    <2>7. CASE k[1] # pool
        <3>1. Current(history', k) = Current(history, k)
            BY <2>1, <2>2, <2>3, <2>4, <2>7, <1>a DEF Current
        <3>2. QED BY <3>1, <2>5, <2>7 DEF AsProjected
    <2>8. QED BY <2>6, <2>7
<1>8. QED BY <1>5, <1>6, <1>7

------------------------------------------------------------------------------
\* Every state has a history that is sound record by record and a projection
\* that agrees with it.
THEOREM StoreInductive == ManualSpec => []StoreInv
<1>1. StoreInv /\ [ManualNext]_manualVars => StoreInv'
    <2> SUFFICES ASSUME StoreInv, [ManualNext]_manualVars PROVE StoreInv' OBVIOUS
    <2>a. now \in Nat BY DEF StoreInv, ManualTypeOK
    <2>1. CASE RecordObservation
        <3>1. PICK key \in Keys, used \in Values, ttl \in Ttls \cup {None},
                   reset \in Resets \cup {None}, entered \in (now - Wait) .. now,
                   measured \in 0 .. (now + Skew) :
                      \E day \in IF key[2] = Credit THEN Days ELSE {0} :
                          Record(key, used, measured, ttl, reset, day, entered)
            BY <2>1 DEF RecordObservation
        <3>2. PICK day \in Int : Record(key, used, measured, ttl, reset, day, entered)
            BY <3>1, ManualAssumption
        <3>3. entered \in Int /\ measured \in Int BY <2>a, ManualAssumption
        <3>4. QED BY <3>2, <3>3, StepRecord
    <2>2. CASE Clear
        <3>1. PICK pool \in Pools, entered \in (now - Wait) .. now : ClearPool(pool, entered)
            BY <2>2 DEF Clear
        <3>2. entered \in Int BY <2>a, ManualAssumption
        <3>3. QED BY <3>1, <3>2, StepClear
    <2>3. CASE ManualTick \/ SetBack \/ UNCHANGED manualVars
        <3>1. UNCHANGED <<history, latest>> /\ now' \in Nat
            BY <2>3, <2>a DEF ManualTick, SetBack, manualVars
        <3>2. Sound(history') /\ AsProjected(history', latest') BY ONLY <3>1, StoreInv DEF StoreInv
        <3>3. ManualTypeOK' BY ONLY <3>1, StoreInv DEF StoreInv, ManualTypeOK
        <3>4. QED BY ONLY <3>2, <3>3 DEF StoreInv
    <2>4. QED BY <2>1, <2>2, <2>3 DEF ManualNext
<1>2. QED BY <1>1, InitStoreInv, PTL DEF ManualSpec

\* However often operators record, correct and clear, and however long they
\* wait for manual.lock, every reader accepts the file and the projection in
\* it is the history's (record_observation, clear_pool, _validate_store).
THEOREM StoreHoldsThm == ManualSpec => []StoreHolds
<1>1. StoreInv => StoreHolds
    <2> SUFFICES ASSUME StoreInv PROVE StoreHolds OBVIOUS
    <2>1. LatestIsCurrent BY DEF StoreInv, AsProjected, Current, LatestIsCurrent
    <2>2. Projected(history, latest)
        <3> SUFFICES ASSUME NEW key \in Keys, latest[key] # 0
                     PROVE  latest[key] \in DOMAIN history /\ history[latest[key]].event = "set"
            BY DEF Projected
        <3>1. latest[key] \in Current(history, key) BY DEF StoreInv, AsProjected
        <3>2. QED BY <3>1 DEF Current, IsSet
    <2>3. Readable BY <2>2 DEF StoreInv, Readable, Validates
    <2>4. QED BY <2>1, <2>3 DEF StoreInv, StoreHolds
<1>2. QED BY <1>1, StoreInductive, PTL

------------------------------------------------------------------------------
\* Nothing stands in for a limit seen in the pane, a confirmed cut-off or a
\* rejected login, and nothing stands in without every required window.
LEMMA FallbackRests ==
    ASSUME NEW r, NEW entries \in BOOLEAN, NEW active,
           Fallback(r, entries, active) = "manual_fallback"
    PROVE  ~r.limited /\ ~r.over /\ FailureKind(r) # "auth" /\ Required[r.pool] \subseteq active
<1>1. ~r.limited /\ entries /\ ~AutoState(r).fresh /\ ~r.over /\ FailureKind(r) # "auth"
    BY DEF Fallback
<1>2. Required[r.pool] \subseteq active BY <1>1 DEF Fallback
<1>3. QED BY <1>1, <1>2

\* An entry that still counts is the current one of its window, and neither
\* expired nor overtaken.
LEMMA ActiveRests ==
    ASSUME StoreInv, NEW r, NEW i \in Active(history, now, r)
    PROVE  LET e == history[i]
           IN /\ i \in DOMAIN history /\ e \in SetEvent /\ e.pool = r.pool /\ SoundSet(history, i)
              /\ latest[<<e.pool, e.window>>] = i
              /\ ~Outdated(e, AutoState(r)) /\ ~(ShownExpiry(e) <= now)
<1> DEFINE e == history[i]
           auto == AutoState(r)
<1> HIDE DEF auto
<1>1. /\ i \in DOMAIN history /\ e.event = "set" /\ e.pool = r.pool
      /\ Status(history, i, now, auto) = "active"
    BY DEF Active, auto
<1>2. history \in Seq(Events) /\ Sound(history) BY DEF StoreInv, ManualTypeOK, Events
<1>3. e \in Events BY <1>1, <1>2
<1>4. e \in SetEvent /\ SoundSet(history, i) BY <1>1, <1>2, <1>3, EventTypes DEF Sound
<1>5. Replacers(history, i) = {} /\ ~Outdated(e, auto) /\ ~(ShownExpiry(e) <= now)
    BY <1>1 DEF Status
<1> DEFINE key == <<e.pool, e.window>>
<1>6. key \in Keys BY <1>4 DEF SoundSet
<1>7. i \in Current(history, key) BY <1>1, <1>5 DEF Current, IsSet
<1>8. latest[key] = i BY <1>6, <1>7 DEF StoreInv, AsProjected
<1>9. QED BY <1>1, <1>4, <1>5, <1>8 DEF auto

\* A manual entry stands in for a measurement only while it may
\* (resolve_result).
THEOREM FallbackIsJustifiedThm == ManualSpec => []FallbackIsJustified
<1>1. StoreInv => FallbackIsJustified
    <2> SUFFICES ASSUME StoreInv, NEW r \in AutoCases, Resolve(history, now, r) = "manual_fallback",
                        NEW w \in Required[r.pool]
                 PROVE  /\ ~r.limited /\ ~r.over /\ FailureKind(r) # "auth"
                        /\ LET i == latest[<<r.pool, w>>]
                           IN /\ i # 0
                              /\ w # Credit => now - history[i].measured < MaxTtl
                              /\ w = Credit => now < history[i].day
                              /\ (~r.error /\ ~r.warning /\ r.usable /\ r.fetched # None) =>
                                    r.fetched <= history[i].measured
        <3>1. ASSUME NEW r \in AutoCases, Resolve(history, now, r) = "manual_fallback"
              PROVE  ~r.limited /\ ~r.over /\ FailureKind(r) # "auth"
            BY <3>1, FallbackRests DEF Resolve
        <3>2. QED BY <3>1 DEF FallbackIsJustified
    <2>1. /\ ~r.limited /\ ~r.over /\ FailureKind(r) # "auth"
          /\ w \in {history[i].window : i \in Active(history, now, r)}
        BY FallbackRests DEF Resolve
    <2>2. PICK i \in Active(history, now, r) : w = history[i].window BY <2>1
    <2> DEFINE e == history[i]
    <2>3. /\ i \in DOMAIN history /\ e \in SetEvent /\ e.pool = r.pool /\ SoundSet(history, i)
          /\ latest[<<e.pool, e.window>>] = i
          /\ ~Outdated(e, AutoState(r)) /\ ~(ShownExpiry(e) <= now)
        BY ActiveRests
    <2>4. latest[<<r.pool, w>>] = i BY <2>2, <2>3
    <2>a. i # 0
        <3>1. history \in Seq(Events) BY DEF StoreInv, ManualTypeOK, Events
        <3>2. QED BY <3>1, <2>3
    <2>5. /\ now \in Nat /\ MaxTtl \in Nat /\ e.measured \in Int /\ e.entered \in Int
          /\ e.expires \in Int /\ e.day \in Int
        BY <2>3, ManualAssumption DEF StoreInv, ManualTypeOK, SetEvent
    <2>6. ASSUME w # Credit PROVE now - e.measured < MaxTtl
        <3>1. Limited(e, MaxTtl) BY <2>2, <2>3, <2>6 DEF SoundSet, WithinBounds
        <3>2. ~(e.expires <= now) BY <2>2, <2>3, <2>6 DEF ShownExpiry
        <3>3. QED BY <2>5, <3>1, <3>2 DEF Limited
    <2>7. ASSUME w = Credit PROVE now < e.day
        BY <2>2, <2>3, <2>5, <2>7 DEF ShownExpiry, Lower
    <2>8. ASSUME ~r.error, ~r.warning, r.usable, r.fetched # None PROVE r.fetched <= e.measured
        <3>1. r.fetched \in Int BY <2>8, ManualAssumption
        <3>2. ~(r.fetched > e.measured) BY <2>3, <2>8 DEF Outdated, AutoState
        <3>3. QED BY <2>5, <3>1, <3>2
    <2>9. QED BY <2>1, <2>4, <2>a, <2>6, <2>7, <2>8
<1>2. QED BY <1>1, StoreInductive, PTL

------------------------------------------------------------------------------
(* The gate.                                                               *)

Steps == {"judge", "probe", "snapshot", "manual", "done"}
Commands == [p : Requested, m : Measurement, at : Steps, code : {0, 2, 3, 4},
             basis : {"provider", "remote", "manual", "snapshot"}]
OwnKind == cmd.p.kind \in OwnWindows
GateTypes ==
    /\ ask \in Requested /\ world \in Situated
    /\ recorded \in BOOLEAN /\ changes \in 0 .. MaxChanges /\ notices \in 0 .. Many
    /\ cmd # None => cmd \in Commands /\ world \in seen /\ (cmd.at = "probe" => ~OwnKind)
GateInv == GateTypes /\ ExhaustedStaysShut /\ NotFreshIsWhole

\* What a judgement that admits says of a request for windows of its own.
LEMMA JudgedOk ==
    ASSUME NEW p \in Requested, p.kind \in OwnWindows, NEW m, m.used \in Usages, NEW w \in Situated,
           Judge(p, m, w).verdict = "ok"
    PROVE  /\ w.class # "exclude" /\ Measurable(m)
           /\ \A x \in GateWindows : m.used[x] # None => m.used[x] < Cutoff(w.class)
<1>1. p.kind # "unquotaed" /\ p.kind # "swe2" /\ p.kind # "fusion" BY DEF OwnWindows
<1>2. Billed(p, m, w) = m BY <1>1 DEF Billed
<1>3. Judge(p, m, w) \in {Says("refused", "nothing"), OnWindows(m, w), Says("unmeasured", "nothing")}
    BY <1>1, <1>2 DEF Judge, Swe2Scope
<1>4. OnWindows(m, w).verdict = "ok" BY <1>3 DEF Says
<1>5. w.class # "exclude" /\ Measurable(m) /\ ~Over(m, w.class) BY <1>4 DEF OnWindows, Says
<1>6. SUFFICES ASSUME NEW x \in GateWindows, m.used[x] # None PROVE m.used[x] < Cutoff(w.class)
    BY <1>5
<1>7. ~(m.used[x] >= Cutoff(w.class)) BY <1>5, <1>6 DEF Over, Matched
<1>8. m.used[x] \in Levels /\ Cutoff(w.class) \in Levels
    BY <1>6 DEF Usages, Cutoff, Kept, Spent, Levels
<1>9. QED BY <1>7, <1>8 DEF Levels

\* Only a swe2 profile is sent to the probe.
LEMMA NeverProbed ==
    ASSUME NEW p \in Requested, p.kind \in OwnWindows, NEW m, NEW w
    PROVE  Judge(p, m, w).verdict \in {"ok", "refused", "unmeasured"}
<1>1. p.kind # "unquotaed" /\ p.kind # "swe2" /\ p.kind # "fusion" BY DEF OwnWindows
<1>2. QED BY <1>1 DEF Judge, Swe2Scope, Billed, OnWindows, Says

\* What a judgement without a fresh result rests on.
LEMMA MeasuredWhole ==
    ASSUME NEW m \in Measurement, Measurable(m), ~Ok(m)
    PROVE  Missing(m) = {} /\ ~m.old /\ m.match # "other"
    BY DEF Measurable, Accepted

LEMMA SeenInv ==
    ASSUME NEW j, recorded \in BOOLEAN, notices \in 0 .. Many, Observe(j.saw)
    PROVE  (recorded \in BOOLEAN /\ notices \in 0 .. Many)'
<1>1. recorded' \in BOOLEAN
    <2>1. CASE j.saw = "nothing" BY <2>1 DEF Observe
    <2>2. CASE j.saw # "nothing"
        <3>1. recorded' = (j.saw = "over") BY <2>2 DEF Observe
        <3>2. QED BY <3>1
    <2>3. QED BY <2>1, <2>2
<1>2. notices' \in 0 .. Many
    <2>1. notices' = notices \/ (notices < Many /\ notices' = notices + 1) BY DEF Observe
    <2>2. QED BY <2>1 DEF Many
<1>3. QED BY <1>1, <1>2

\* The command ends with a verdict.  Only "ok" admits.
LEMMA FinishInv ==
    ASSUME GateInv, Running, NEW verdict, NEW m \in Measurement,
           NEW basis \in {"provider", "remote", "manual", "snapshot"},
           Finish(verdict, basis, m), UNCHANGED <<ask, world, seen, changes>>,
           (recorded \in BOOLEAN /\ notices \in 0 .. Many)',
           (OwnKind /\ verdict = "ok") =>
              /\ \E w \in seen : w.class # "exclude" /\
                    \A x \in GateWindows : m.used[x] # None => m.used[x] < Cutoff(w.class)
              /\ ~Ok(m) =>
                    /\ \E w \in seen : LET used == IF basis = "manual" THEN w.manual ELSE m.used
                       IN \A x \in GateWindows : used[x] # None /\ used[x] < Cutoff(w.class)
                    /\ basis # "manual" => m.match # "other" /\ ~m.old
                    /\ basis = "manual" => FailureKind(m) \in {"transport", "parse_error"}
    PROVE  GateInv'
<1>1. PICK unwritten \in BOOLEAN :
         cmd' = [cmd EXCEPT !.at = "done", !.basis = basis, !.m = m,
                            !.code = IF unwritten THEN 2 ELSE CodeOf(verdict)]
    BY DEF Finish
<1>2. cmd # None /\ cmd \in Commands /\ world \in seen BY DEF GateInv, GateTypes, Running
<1>3. /\ cmd' \in Commands /\ cmd'.p = cmd.p /\ cmd'.m = m /\ cmd'.basis = basis
      /\ cmd'.at = "done" /\ (cmd'.code = 0 => verdict = "ok")
    <2> DEFINE code == IF unwritten THEN 2 ELSE CodeOf(verdict)
    <2>1. code \in {0, 2, 3, 4} /\ (code = 0 => verdict = "ok") BY DEF CodeOf
    <2> HIDE DEF code
    <2>2. cmd' = [cmd EXCEPT !.at = "done", !.basis = basis, !.m = m, !.code = code]
        BY <1>1 DEF code
    <2>3. QED BY <1>2, <2>1, <2>2 DEF Commands, Steps
<1>4. GateTypes' BY <1>2, <1>3 DEF GateInv, GateTypes, OwnKind
<1>5. GateTypeOK' BY <1>4 DEF GateTypes, GateTypeOK, Commands, Situated
<1>6. seen' = seen OBVIOUS
<1>7. (Admitted /\ cmd.p.kind \in OwnWindows)' => OwnKind /\ verdict = "ok"
    BY <1>3 DEF Admitted, OwnKind
<1>8. ExhaustedStaysShut' BY <1>3, <1>5, <1>6, <1>7 DEF ExhaustedStaysShut
<1>9. NotFreshIsWhole' BY <1>3, <1>6, <1>7 DEF NotFreshIsWhole
<1>10. QED BY <1>4, <1>8, <1>9 DEF GateInv

\* The command goes on to another look.
LEMMA MoveInv ==
    ASSUME GateInv, Running, UNCHANGED <<ask, world, seen, changes>>,
           (recorded \in BOOLEAN /\ notices \in 0 .. Many)',
           cmd' \in Commands, cmd'.p = cmd.p, cmd'.at # "done", cmd'.at = "probe" => ~OwnKind
    PROVE  GateInv'
<1>1. cmd # None /\ cmd \in Commands /\ world \in seen BY DEF GateInv, GateTypes, Running
<1>2. GateTypes' BY <1>1 DEF GateInv, GateTypes, OwnKind
<1>3. GateTypeOK' BY <1>2 DEF GateTypes, GateTypeOK, Commands, Situated
<1>4. ~Admitted' BY DEF Admitted
<1>5. QED BY <1>2, <1>3, <1>4 DEF GateInv, ExhaustedStaysShut, NotFreshIsWhole

\* A judgement of the result itself, at first or after the probe.
LEMMA DispatchInv ==
    ASSUME GateInv, Running, NEW m \in Measurement, NEW probed \in BOOLEAN,
           LET j == Judge(cmd.p, m, world) IN Observe(j.saw) /\ Dispatch(j.verdict, m, probed),
           UNCHANGED <<ask, world, seen, changes>>
    PROVE  GateInv'
<1> DEFINE j == Judge(cmd.p, m, world)
<1>1. cmd # None /\ cmd \in Commands /\ world \in seen /\ world \in Situated
    BY DEF GateInv, GateTypes, Running
<1>2. cmd.p \in Requested /\ (cmd = [cmd EXCEPT !.at = cmd.at]) BY <1>1 DEF Commands
<1>3. (recorded \in BOOLEAN /\ notices \in 0 .. Many)'
    BY ONLY GateInv, Observe(j.saw), SeenInv DEF GateInv, GateTypes
<1>4. Dispatch(j.verdict, m, probed) OBVIOUS
<1>5. OwnKind => j.verdict \in {"ok", "refused", "unmeasured"}
    BY <1>2, NeverProbed DEF OwnKind
<1>6. CASE j.verdict = "swe2_unmeasured" /\ ~probed
    <2>1. cmd' = [cmd EXCEPT !.at = "probe", !.m = m] BY <1>4, <1>6 DEF Dispatch
    <2>2. cmd' \in Commands /\ cmd'.p = cmd.p /\ cmd'.at = "probe"
        BY <1>1, <2>1 DEF Commands, Steps
    <2>3. ~OwnKind BY <1>5, <1>6
    <2>4. QED BY <1>3, <2>2, <2>3, MoveInv
<1>7. CASE j.verdict = "unmeasured"
    <2>1. cmd' = [cmd EXCEPT !.at = "snapshot", !.m = m] BY <1>4, <1>7 DEF Dispatch
    <2>2. cmd' \in Commands /\ cmd'.p = cmd.p /\ cmd'.at = "snapshot"
        BY <1>1, <2>1 DEF Commands, Steps
    <2>3. QED BY <1>3, <2>2, MoveInv
<1>8. CASE ~(j.verdict = "swe2_unmeasured" /\ ~probed) /\ j.verdict # "unmeasured"
    <2>1. Finish(j.verdict, m.source, m) BY <1>4, <1>8 DEF Dispatch
    <2>2. m.source \in {"provider", "remote"} BY DEF Measurement
    <2>3. ASSUME OwnKind, j.verdict = "ok"
          PROVE  /\ world.class # "exclude" /\ Measurable(m)
                 /\ \A x \in GateWindows : m.used[x] # None => m.used[x] < Cutoff(world.class)
        BY <1>1, <1>2, <2>3, JudgedOk DEF OwnKind, Measurement
    <2>4. ASSUME OwnKind, j.verdict = "ok", ~Ok(m)
          PROVE  /\ m.match # "other" /\ ~m.old
                 /\ \A x \in GateWindows : m.used[x] # None
        BY <2>3, <2>4, MeasuredWhole DEF Missing, Matched
    <2>5. QED BY <1>1, <1>3, <2>1, <2>2, <2>3, <2>4, FinishInv
<1>9. QED BY <1>6, <1>7, <1>8

\* A probe that is not made, or brings nothing.
LEMMA RefusedInv ==
    ASSUME GateInv, Running, NEW verdict, verdict # "ok", NEW m \in Measurement,
           NEW basis \in {"provider", "remote", "manual", "snapshot"},
           Finish(verdict, basis, m), UNCHANGED <<ask, world, seen, changes>>,
           (recorded \in BOOLEAN /\ notices \in 0 .. Many)'
    PROVE  GateInv'
    BY FinishInv

LEMMA ProbeInv == ASSUME GateInv, Probe PROVE GateInv'
<1>1. cmd # None /\ cmd \in Commands /\ cmd.m \in Measurement /\ Running
    BY DEF GateInv, GateTypes, Running, Commands, Probe
<1>2. cmd.m.source \in {"provider", "remote"} BY <1>1 DEF Measurement
<1>3. UNCHANGED <<ask, world, seen, changes>> BY DEF Probe
<1>4. CASE Finish("swe2_unmeasured", cmd.m.source, cmd.m) /\ UNCHANGED <<recorded, notices>>
    <2>1. (recorded \in BOOLEAN /\ notices \in 0 .. Many)' BY <1>4 DEF GateInv, GateTypes
    <2>2. QED BY <1>1, <1>2, <1>3, <1>4, <2>1, RefusedInv
<1>5. CASE \E m \in Remeasured : LET j == Judge(cmd.p, m, world)
               IN Observe(j.saw) /\ Dispatch(j.verdict, m, TRUE)
    <2>1. PICK m \in Remeasured : LET j == Judge(cmd.p, m, world)
               IN Observe(j.saw) /\ Dispatch(j.verdict, m, TRUE)
        BY <1>5
    <2>2. m \in Measurement BY GateAssumption
    <2>3. QED BY <1>1, <1>3, <2>1, <2>2, DispatchInv
<1>6. QED BY <1>4, <1>5 DEF Probe

LEMMA SnapshotInv == ASSUME GateInv, Snapshot PROVE GateInv'
<1>1. cmd # None /\ cmd \in Commands /\ cmd.m \in Measurement /\ Running
    BY DEF GateInv, GateTypes, Running, Commands, Snapshot
<1>2. UNCHANGED <<ask, world, seen, changes>> BY DEF Snapshot
<1>3. recorded \in BOOLEAN /\ notices \in 0 .. Many BY DEF GateInv, GateTypes
<1>4. (recorded \in BOOLEAN /\ notices \in 0 .. Many)'
    <2> DEFINE j == Judge(cmd.p, Trusted(cmd.m), world)
    <2>1. Observe(j.saw) \/ UNCHANGED <<recorded, notices>> BY DEF Snapshot
    <2>2. QED BY ONLY <1>3, <2>1, SeenInv
<1>5. CASE Finish("refused", "snapshot", cmd.m)
    BY <1>1, <1>2, <1>4, <1>5, RefusedInv
<1>6. CASE cmd' = [cmd EXCEPT !.at = "manual"]
    <2>1. cmd' \in Commands /\ cmd'.p = cmd.p /\ cmd'.at = "manual"
        BY <1>1, <1>6 DEF Commands, Steps
    <2>2. QED BY <1>1, <1>2, <1>4, <2>1, MoveInv
<1>7. QED BY <1>5, <1>6 DEF Snapshot

\* What the operator's own entries may stand in for.
LEMMA ResolutionRests ==
    ASSUME NEW p \in Requested, NEW m \in Measurement, world \in Situated,
           Resolution(p, m) = "manual_fallback"
    PROVE  /\ ~Confirmed(p, m, world.class) /\ p.kind # "grouped"
           /\ FailureKind(m) \in {"transport", "parse_error"}
           /\ \A x \in GateWindows : world.manual[x] # None
<1> DEFINE active == {x \in GateWindows : world.manual[x] # None}
           r == [pool |-> m.pool, error |-> m.error, warning |-> m.warning, stale |-> m.stale,
                 kind |-> m.kind, text |-> m.text, wording |-> m.wording, fetched |-> m.fetched,
                 usable |-> Matched(m) # {}, over |-> Confirmed(p, m, world.class),
                 grouped |-> p.kind = "grouped", limited |-> FALSE]
<1>1. Fallback(r, active # {}, active) = "manual_fallback" BY DEF Resolution
<1>2. r.pool = GatePool BY DEF Measurement
<1>3. FailureKind(r) = FailureKind(m) BY DEF FailureKind
<1>4. r.over = Confirmed(p, m, world.class) /\ r.grouped = (p.kind = "grouped") OBVIOUS
<1>5. GatePool \notin ManualOnly BY GateAssumption
<1> HIDE DEF r, active
<1>6. /\ ~r.grouped /\ ~r.over /\ Required[r.pool] \subseteq active
      /\ FailureKind(r) \in {"transport", "parse_error"}
    BY <1>1, <1>2, <1>5 DEF Fallback
<1>7. QED BY <1>2, <1>3, <1>4, <1>6 DEF GateWindows, active

LEMMA ManualInv == ASSUME GateInv, Manual PROVE GateInv'
<1>1. /\ cmd # None /\ cmd \in Commands /\ cmd.m \in Measurement /\ Running
      /\ cmd.p \in Requested /\ world \in Situated /\ world \in seen
    BY DEF GateInv, GateTypes, Running, Commands, Manual
<1>2. UNCHANGED <<ask, world, seen, changes>> BY DEF Manual
<1>3. recorded \in BOOLEAN /\ notices \in 0 .. Many BY DEF GateInv, GateTypes
<1>4. cmd.m.source \in {"provider", "remote"} BY <1>1 DEF Measurement
<1>5. CASE Finish("unmeasured", cmd.m.source, cmd.m) /\ UNCHANGED <<recorded, notices>>
    <2>1. (recorded \in BOOLEAN /\ notices \in 0 .. Many)' BY <1>3, <1>5
    <2>2. QED BY <1>1, <1>2, <1>4, <1>5, <2>1, RefusedInv
<1>6. CASE Resolution(cmd.p, cmd.m) = "manual_fallback"
    <2> DEFINE j == Judge(cmd.p, ManualResult, world)
    <2>1. Observe(j.saw) /\ Finish(j.verdict, "manual", cmd.m) BY <1>6 DEF Manual
    <2>2. (recorded \in BOOLEAN /\ notices \in 0 .. Many)' BY ONLY <1>3, <2>1, SeenInv
    <2>3. /\ ~Confirmed(cmd.p, cmd.m, world.class) /\ cmd.p.kind # "grouped"
          /\ FailureKind(cmd.m) \in {"transport", "parse_error"}
          /\ \A x \in GateWindows : world.manual[x] # None
        BY <1>1, <1>6, ResolutionRests
    <2>4. ASSUME OwnKind, j.verdict = "ok"
          PROVE  /\ world.class # "exclude"
                 /\ \A x \in GateWindows : world.manual[x] < Cutoff(world.class)
        <3>1. ManualResult.used = world.manual /\ world.manual \in Usages
            BY <1>1 DEF ManualResult, Result, Situated
        <3>2. world.class # "exclude" /\ \A x \in GateWindows :
                 ManualResult.used[x] # None => ManualResult.used[x] < Cutoff(world.class)
            BY <1>1, <2>4, <3>1, JudgedOk DEF OwnKind
        <3>3. QED BY <2>3, <3>1, <3>2
    <2>5. ASSUME OwnKind, j.verdict = "ok"
          PROVE  \A x \in GateWindows : cmd.m.used[x] # None => cmd.m.used[x] < Cutoff(world.class)
        <3>1. ~Over(cmd.m, world.class) BY <2>3, <2>4, <2>5 DEF Confirmed
        <3>2. SUFFICES ASSUME NEW x \in GateWindows, cmd.m.used[x] # None
                       PROVE  cmd.m.used[x] < Cutoff(world.class)
            OBVIOUS
        <3>3. ~(cmd.m.used[x] >= Cutoff(world.class)) BY <3>1, <3>2 DEF Over, Matched
        <3>4. cmd.m.used[x] \in Levels /\ Cutoff(world.class) \in Levels
            BY <1>1, <3>2 DEF Measurement, Usages, Cutoff, Kept, Spent, Levels
        <3>5. QED BY <3>3, <3>4 DEF Levels
    <2>6. QED BY <1>1, <1>2, <2>1, <2>2, <2>3, <2>4, <2>5, FinishInv
<1>7. QED BY <1>5, <1>6 DEF Manual

LEMMA DisturbInv == ASSUME GateInv, NEW next \in Situated, Disturb(next) PROVE GateInv'
<1>1. /\ cmd # None /\ cmd \in Commands /\ cmd.at # "done" /\ UNCHANGED <<ask, cmd, recorded>>
      /\ world' = next /\ next \in seen' /\ notices' = 0 /\ changes' \in 0 .. MaxChanges
    BY GateAssumption DEF GateInv, GateTypes, Running, Disturb
<1>2. GateTypes' BY <1>1 DEF GateInv, GateTypes, OwnKind, Many
<1>3. GateTypeOK' BY <1>2 DEF GateTypes, GateTypeOK, Commands, Situated
<1>4. ~Admitted' BY <1>1 DEF Admitted
<1>5. QED BY <1>2, <1>3, <1>4 DEF GateInv, ExhaustedStaysShut, NotFreshIsWhole

\* Whatever a command does, and whatever others change beside it.
THEOREM GateInductive == GateSpec => []GateInv
<1>1. GateInit => GateInv
    <2> SUFFICES ASSUME GateInit PROVE GateInv OBVIOUS
    <2>1. cmd = None /\ recorded = FALSE /\ notices = 0 /\ changes = 0 /\ ask \in Asks BY DEF GateInit
    <2>2. world \in Situated BY GateAssumption DEF GateInit
    <2>b. changes \in 0 .. MaxChanges /\ notices \in 0 .. Many BY <2>1, GateAssumption DEF Many
    <2>c. ask \in Requested BY <2>1, GateAssumption
    <2>3. GateTypes BY <2>1, <2>2, <2>b, <2>c DEF GateTypes
    <2>4. GateTypeOK BY <2>3 DEF GateTypes, GateTypeOK, Situated, Commands
    <2>5. ~Admitted BY <2>1 DEF Admitted
    <2>6. QED BY <2>3, <2>4, <2>5 DEF GateInv, ExhaustedStaysShut, NotFreshIsWhole
<1>2. GateInv /\ [GateNext]_gateVars => GateInv'
    <2> SUFFICES ASSUME GateInv, [GateNext]_gateVars PROVE GateInv' OBVIOUS
    <2>a. world \in Situated /\ ask \in Requested BY DEF GateInv, GateTypes
    <2>1. CASE GateCollect
        <3>a. world.measure \in Measurement BY <2>a DEF Situated
        <3>b. cmd' = [p |-> ask, m |-> world.measure, at |-> "judge", basis |-> "provider",
                      code |-> 0]
            BY <2>1 DEF GateCollect, Command
        <3>c. seen' = {world} /\ UNCHANGED <<ask, world, recorded, notices, changes>>
            BY <2>1 DEF GateCollect
        <3>1. cmd' \in Commands /\ cmd'.at = "judge" /\ world' \in seen'
            BY <2>a, <3>a, <3>b, <3>c DEF Commands, Steps
        <3>2. GateTypes' BY <3>1, <3>c DEF GateInv, GateTypes
        <3>3. GateTypeOK' BY <3>2 DEF GateTypes, GateTypeOK, Commands, Situated
        <3>4. ~Admitted' BY <3>1 DEF Admitted
        <3>5. QED BY <3>2, <3>3, <3>4 DEF GateInv, ExhaustedStaysShut, NotFreshIsWhole
    <2>2. CASE FirstJudgement
        <3>1. Running /\ cmd.m \in Measurement
            BY <2>2 DEF FirstJudgement, Running, GateInv, GateTypes, Commands
        <3>2. QED BY <2>2, <3>1, DispatchInv DEF FirstJudgement
    <2>3. CASE Probe BY <2>3, ProbeInv
    <2>4. CASE Snapshot BY <2>4, SnapshotInv
    <2>5. CASE Manual BY <2>5, ManualInv
    <2>6. CASE SetClass
        <3>1. PICK c \in Classes : Disturb([world EXCEPT !.class = c]) BY <2>6 DEF SetClass
        <3>2. [world EXCEPT !.class = c] \in Situated BY <2>a DEF Situated
        <3>3. QED BY <3>1, <3>2, DisturbInv
    <2>7. CASE JobStarts
        <3>1. [world EXCEPT !.remote = 1] \in Situated BY <2>a DEF Situated
        <3>2. QED BY <2>7, <3>1, DisturbInv DEF JobStarts
    <2>8. CASE EnterByHand
        <3>1. PICK x \in GateWindows, v \in {None, Kept} :
                 Disturb([world EXCEPT !.manual[x] = v])
            BY <2>8 DEF EnterByHand
        <3>2. [world EXCEPT !.manual[x] = v] \in Situated
            BY <2>a DEF Situated, Usages, Kept, Levels
        <3>3. QED BY <3>1, <3>2, DisturbInv
    <2>9. CASE Measured
        <3>1. PICK m \in Remeasured : Disturb([world EXCEPT !.measure = m]) BY <2>9 DEF Measured
        <3>2. [world EXCEPT !.measure = m] \in Situated BY <2>a, GateAssumption DEF Situated
        <3>3. QED BY <3>1, <3>2, DisturbInv
    <2>10. CASE UNCHANGED gateVars
        BY <2>10 DEF gateVars, GateInv, GateTypes, OwnKind, ExhaustedStaysShut, NotFreshIsWhole,
                     GateTypeOK, Admitted, Commands, Situated
    <2>11. QED BY <2>1, <2>2, <2>3, <2>4, <2>5, <2>6, <2>7, <2>8, <2>9, <2>10 DEF GateNext
<1>3. QED BY <1>1, <1>2, PTL DEF GateSpec

\* A pool whose measurement shows a window at its cutoff stays shut.
THEOREM ExhaustedStaysShutThm == GateSpec => []ExhaustedStaysShut
<1>1. GateInv => ExhaustedStaysShut BY DEF GateInv
<1>2. QED BY <1>1, GateInductive, PTL

\* What admits without a measurement of now is complete.
THEOREM NotFreshIsWholeThm == GateSpec => []NotFreshIsWhole
<1>1. GateInv => NotFreshIsWhole BY DEF GateInv
<1>2. QED BY <1>1, GateInductive, PTL

------------------------------------------------------------------------------
\* A row is fit for the recommendation when the gate can measure it.
LEMMA FitIsMeasurable ==
    ASSUME NEW p, NEW b, b # None, ~OwnScope(p, b), p.kind = "swe2" => Swe2Current(b)
    PROVE  Unfit(p, b) <=> ~Measurable(b)
    BY DEF Unfit, Measurable

LEMMA WindowsAgree ==
    ASSUME NEW p, NEW m, NEW w, NEW b, b = Billed(p, m, w), b # None, w.class # "exclude",
           Judge(p, m, w) = OnWindows(b, w), ~OwnScope(p, b),
           p.kind = "swe2" => Swe2Current(b)
    PROVE  AgreesWithGate(p, m, w)
<1>1. Unfit(p, b) <=> ~Measurable(b) BY FitIsMeasurable
<1>2. UsedUp(p, b, w.class) <=> Over(b, w.class) BY DEF UsedUp
<1>3. CASE ~Measurable(b)
    <2>1. Offer(p, m, w) = Lists("unmeasurable", "nothing") BY <1>1, <1>3 DEF Offer
    <2>2. Judge(p, m, w) = Says("unmeasured", "nothing") BY <1>3 DEF OnWindows
    <2>3. QED BY <2>1, <2>2 DEF AgreesWithGate, Lists, Says
<1>4. CASE Measurable(b) /\ Over(b, w.class)
    <2>1. Offer(p, m, w) = Lists("exhausted", "over") BY <1>1, <1>2, <1>4 DEF Offer
    <2>2. Judge(p, m, w) = Says("refused", "over") BY <1>4 DEF OnWindows
    <2>3. QED BY <2>1, <2>2 DEF AgreesWithGate, Lists, Says
<1>5. CASE Measurable(b) /\ ~Over(b, w.class)
    <2>1. Offer(p, m, w) = Lists("candidate", "under") BY <1>1, <1>2, <1>5 DEF Offer
    <2>2. Judge(p, m, w) = Says(IF Crowded(b, w) THEN "refused" ELSE "ok", "under")
        BY <1>5 DEF OnWindows
    <2>3. QED BY <2>1, <2>2 DEF AgreesWithGate, Lists, Says
<1>6. QED BY <1>3, <1>4, <1>5

\* The offer and the gate agree on a pool whose policy excludes it.
LEMMA ExcludedAgree ==
    ASSUME NEW p, ~Escalates(p), NEW m, NEW w, w.class = "exclude"
    PROVE  AgreesWithGate(p, m, w)
<1>1. Offer(p, m, w) = Lists("policy_excluded", "nothing") BY DEF Offer
<1>2. Judge(p, m, w) \in {Says("unmeasured", "nothing"), Says("refused", "nothing")}
    BY DEF Judge, Unescalated, Escalates, Swe2Scope, OnWindows
<1>3. QED BY <1>1, <1>2 DEF AgreesWithGate, Lists, Says

\* The recommendation and the gate have code of their own for the same
\* judgement, and come to the same end on every measurement.
LEMMA JudgementsAgree ==
    ASSUME NEW p, p.kind \in {"plain", "grouped", "swe2", "fusion"},
           NEW m \in Measurement, NEW w \in Situated
    PROVE  AgreesWithGate(p, m, w)
<1> DEFINE b == Billed(p, m, w)
<1>1. ~Escalates(p) /\ p.kind # "unquotaed" /\ ~Unescalated(p) BY DEF Escalates, Unescalated
<1>2. m # None /\ b \in {m, w.shared} /\ (p.kind = "swe2" => b = m)
    BY GateAssumption DEF Billed
<1> HIDE DEF b
<1>3. CASE w.class = "exclude" BY <1>1, <1>3, ExcludedAgree
<1>4. CASE w.class # "exclude" /\ b = None
    <2>1. p.kind # "swe2" BY <1>2, <1>4
    <2>2. Offer(p, m, w) = Lists("unmeasurable", "nothing") BY <1>4 DEF Offer, Unfit, b
    <2>3. Judge(p, m, w) = Says("unmeasured", "nothing")
        BY <1>1, <1>4, <2>1 DEF Judge, Swe2Scope, b
    <2>4. QED BY <2>2, <2>3 DEF AgreesWithGate, Lists, Says
<1>5. CASE w.class # "exclude" /\ b # None /\ Swe2Scope(p, m, w)
    <2>1. p.kind = "swe2" /\ b = m BY <1>2, <1>5 DEF Swe2Scope
    <2>2. Judge(p, m, w) = OnScope(m, w) BY <1>1, <1>5 DEF Judge
    <2>3. CASE ~Swe2Current(m)
        <3>1. Offer(p, m, w) = Lists("unmeasurable", "nothing")
            BY <1>5, <2>1, <2>3 DEF Offer, Unfit, b
        <3>2. QED BY <2>2, <2>3, <3>1 DEF OnScope, AgreesWithGate, Lists, Says
    <2>4. CASE Swe2Current(m)
        <3>1. OwnScope(p, m) BY <1>2, <1>5, <2>1, <2>4 DEF Swe2Scope, OwnScope
        <3>2. ~Unfit(p, m) BY <1>2, <2>4, <3>1 DEF Unfit
        <3>3. Offer(p, m, w) =
                 Lists(IF m.model >= Cutoff(w.class) THEN "exhausted" ELSE "candidate", "nothing")
            BY <1>5, <2>1, <3>1, <3>2 DEF Offer, UsedUp, b
        <3>4. Judge(p, m, w) =
                 Says(IF m.model >= Cutoff(w.class) THEN "refused" ELSE "ok", "nothing")
            BY <2>2, <2>4 DEF OnScope
        <3>5. QED BY <3>3, <3>4 DEF AgreesWithGate, Lists, Says
    <2>5. QED BY <2>3, <2>4
<1>6. CASE w.class # "exclude" /\ b # None /\ ~Swe2Scope(p, m, w)
    <2>1. Judge(p, m, w) = OnWindows(b, w) BY <1>1, <1>6 DEF Judge, b
    <2>2. p.kind = "swe2" => Swe2Current(b) /\ ~OwnScope(p, b)
        BY <1>2, <1>6 DEF Swe2Scope, OwnScope
    <2>3. ~OwnScope(p, b) BY <2>2 DEF OwnScope
    <2>4. QED BY <1>6, <2>1, <2>2, <2>3, WindowsAgree DEF b
<1>7. QED BY <1>3, <1>4, <1>5, <1>6

\* The note on a row behind the escalation gate tells exhaust.observe what
\* the gate would.
LEMMA NoteAgrees ==
    ASSUME NEW m, NEW w, w.class # "exclude"
    PROVE  EscalationNote(m, w).saw = OnWindows(m, w).saw
<1>1. CASE Measurable(m)
    <2>1. EscalationNote(m, w) = Lists("escalation", IF Over(m, w.class) THEN "over" ELSE "under")
        BY <1>1 DEF EscalationNote, Measurable
    <2>2. QED BY <1>1, <2>1 DEF OnWindows, Lists, Says
<1>2. CASE ~Measurable(m)
    <2>1. EscalationNote(m, w) = Lists("escalation", "nothing")
        BY <1>2 DEF EscalationNote, Measurable
    <2>2. QED BY <1>2, <2>1 DEF OnWindows, Lists, Says
<1>3. QED BY <1>1, <1>2

\* The recommendation and the gate agree on every measurement the pool may
\* have, whatever the host knows beside it.
THEOREM OffersAgreeThm == GateSpec => []OffersAgree
<1>1. GateInv => OffersAgree
    <2> SUFFICES ASSUME GateInv PROVE OffersAgree OBVIOUS
    <2>1. world \in Situated /\ world.measure \in Measurement /\ ask \in Requested
        BY DEF GateInv, GateTypes, Situated
    <2>2. ASSUME NEW k \in {"plain", "grouped", "swe2", "fusion"}
          PROVE  AgreesWithGate([ask EXCEPT !.kind = k], world.measure, world)
        <3> DEFINE p == [ask EXCEPT !.kind = k]
        <3>1. p.kind = k BY <2>1 DEF Requested
        <3> HIDE DEF p
        <3>2. AgreesWithGate(p, world.measure, world) BY <2>1, <3>1, JudgementsAgree
        <3>3. QED BY <3>2 DEF p
    <2>3. world.class # "exclude" =>
             EscalationNote(world.measure, world).saw = OnWindows(world.measure, world).saw
        BY NoteAgrees
    <2>4. QED BY <2>2, <2>3 DEF OffersAgree
<1>2. QED BY <1>1, GateInductive, PTL

------------------------------------------------------------------------------
(* The request at the gate and at the launcher (GateLaunch).               *)
\* The answers are those of the gate and of the launcher over the view.
AskedInv ==
    /\ subject \in Subjects
    /\ asked # None =>
          /\ view # None /\ asked.q \in RequestForms
          /\ asked.gate = Admission(asked.q, World(view, Bundle))
          /\ asked.launch = Launch(asked.q, view, Bundle)

------------------------------------------------------------------------------
\* Some numbers have a least.
LEMMA LeastExists ==
    ASSUME NEW S \in SUBSET Nat, S # {}
    PROVE  \E i \in S : \A j \in S : i <= j
<1> DEFINE R == OpToRel(<, Nat)
<1>1. PICK i \in S : \A j \in S : ~(<<j, i>> \in R)
    <2>1. IsWellFoundedOn(R, Nat) BY NatLessThanWellFounded
    <2> HIDE DEF R
    <2>2. QED BY <2>1, WFMin
<1>2. \A j \in S : ~(j < i) BY <1>1 DEF OpToRel
<1>3. QED BY <1>2

\* The refusals that hold, and the first of them.
Holding(q, s) == {i \in DOMAIN GateOrder : Refuses(GateOrder[i], q, s)}
LEMMA FirstHolds ==
    ASSUME NEW q, NEW w
    PROVE  LET holding == Holding(q, Situation(q, w)) IN
           /\ holding = {} <=> Admission(q, w) = "admitted"
           /\ holding # {} => \E i \in holding : /\ Admission(q, w) = GateOrder[i]
                                                 /\ \A j \in holding : i <= j
<1> DEFINE s == Situation(q, w)
           holding == Holding(q, s)
<1>1. holding \subseteq 1 .. 14 BY DEF Holding, GateOrder
<1>2. Admission(q, w) = IF holding = {} THEN "admitted"
                        ELSE GateOrder[CHOOSE i \in holding : \A j \in holding : i <= j]
    BY DEF Admission, Holding
<1>3. \A i \in 1 .. 14 : GateOrder[i] # "admitted" BY DEF GateOrder
<1> HIDE DEF holding
<1>4. ASSUME holding # {}
      PROVE  \E i \in holding : Admission(q, w) = GateOrder[i] /\ \A j \in holding : i <= j
    <2>1. \E i \in holding : \A j \in holding : i <= j BY <1>1, <1>4, LeastExists
    <2>2. QED BY <1>2, <1>4, <2>1
<1>5. QED BY <1>1, <1>2, <1>3, <1>4 DEF holding

\* Which refusal stands where, and what it asks.
LEMMA RefusalsInOrder ==
    ASSUME NEW q, NEW s
    PROVE  /\ 1 \in Holding(q, s) <=> Barred(q, s)
           /\ 2 \in Holding(q, s) <=> RoleRestricted(q, s)
           /\ 3 \in Holding(q, s) <=> Unsubscribed(q, s)
           /\ 4 \in Holding(q, s) <=> BadAudit(q, s)
           /\ 5 \in Holding(q, s) <=> CreditUnnamed(q, s)
           /\ 6 \in Holding(q, s) <=> CreditUnplaced(q, s)
           /\ 7 \in Holding(q, s) <=> CreditSeat(q, s)
           /\ 8 \in Holding(q, s) <=> Retired(q, s)
           /\ 9 \in Holding(q, s) <=> E6Unmarked(q, s)
           /\ 10 \in Holding(q, s) <=> E6Seat(q, s)
           /\ 11 \in Holding(q, s) <=> NotApplicable(q, s)
           /\ 12 \in Holding(q, s) <=> ConsultUnasked(q, s)
           /\ 13 \in Holding(q, s) <=> E6OnlyUnmarked(q, s)
           /\ 14 \in Holding(q, s) <=> UnknownProfile(q, s)
           /\ Holding(q, s) \subseteq 1 .. 14
<1>1. /\ DOMAIN GateOrder = 1 .. 14
      /\ GateOrder[1] = "barred"
      /\ GateOrder[2] = "role"
      /\ GateOrder[3] = "unsubscribed"
      /\ GateOrder[4] = "audit"
      /\ GateOrder[5] = "credit_unnamed"
      /\ GateOrder[6] = "credit_unplaced"
      /\ GateOrder[7] = "credit_seat"
      /\ GateOrder[8] = "retired"
      /\ GateOrder[9] = "e6_required"
      /\ GateOrder[10] = "e6_seat"
      /\ GateOrder[11] = "not_applicable"
      /\ GateOrder[12] = "consult_only"
      /\ GateOrder[13] = "e6_only"
      /\ GateOrder[14] = "unknown"
    BY DEF GateOrder
<1>2. /\ Refuses("barred", q, s) <=> Barred(q, s)
      /\ Refuses("role", q, s) <=> RoleRestricted(q, s)
      /\ Refuses("unsubscribed", q, s) <=> Unsubscribed(q, s)
      /\ Refuses("audit", q, s) <=> BadAudit(q, s)
      /\ Refuses("credit_unnamed", q, s) <=> CreditUnnamed(q, s)
      /\ Refuses("credit_unplaced", q, s) <=> CreditUnplaced(q, s)
      /\ Refuses("credit_seat", q, s) <=> CreditSeat(q, s)
      /\ Refuses("retired", q, s) <=> Retired(q, s)
      /\ Refuses("e6_required", q, s) <=> E6Unmarked(q, s)
      /\ Refuses("e6_seat", q, s) <=> E6Seat(q, s)
      /\ Refuses("not_applicable", q, s) <=> NotApplicable(q, s)
      /\ Refuses("consult_only", q, s) <=> ConsultUnasked(q, s)
      /\ Refuses("e6_only", q, s) <=> E6OnlyUnmarked(q, s)
      /\ Refuses("unknown", q, s) <=> UnknownProfile(q, s)
    BY DEF Refuses
<1>3. \A i \in 1 .. 14 : i \in Holding(q, s) <=> Refuses(GateOrder[i], q, s) BY <1>1 DEF Holding
<1>4. Holding(q, s) \subseteq 1 .. 14 BY <1>1 DEF Holding
<1>5. QED BY <1>1, <1>2, <1>3, <1>4

\* Two requests that the same refusals hold for have the same answer.
LEMMA SameRefusals ==
    ASSUME NEW q, NEW b, NEW w, Holding(q, Situation(q, w)) = Holding(b, Situation(b, w))
    PROVE  Admission(q, w) = Admission(b, w)
<1>1. \A r : Admission(r, w) =
          LET holding == Holding(r, Situation(r, w)) IN
          IF holding = {} THEN "admitted"
          ELSE GateOrder[CHOOSE i \in holding : \A j \in holding : i <= j]
    BY DEF Admission, Holding
<1>2. QED BY <1>1

\* Two requests for the same rung and seat, of which an experiment and a marker
\* make the same.
Alike(q, b, s) ==
    /\ b.name = q.name /\ b.role = q.role /\ b.effort = q.effort /\ b.subscribed = q.subscribed
    /\ Rung(b) = Rung(q)
    /\ Matches(b.marker, Canonical(q.name), Rung(q)) <=> Matches(q.marker, Canonical(q.name), Rung(q))
    /\ Experiment(b, s) <=> Experiment(q, s)

\* The rules about rungs and seats tell such requests apart by nothing.
LEMMA AlikeRules ==
    ASSUME NEW q, NEW b, NEW s, Alike(q, b, s)
    PROVE  /\ Consult(b, s) <=> Consult(q, s)
           /\ E6Admitted(b, s) <=> E6Admitted(q, s)
           /\ Judged(b, s) = Judged(q, s)
           /\ Barred(b, s) <=> Barred(q, s)
           /\ Unsubscribed(b, s) <=> Unsubscribed(q, s)
           /\ CreditUnnamed(b, s) <=> CreditUnnamed(q, s)
           /\ CreditUnplaced(b, s) <=> CreditUnplaced(q, s)
           /\ CreditSeat(b, s) <=> CreditSeat(q, s)
           /\ Retired(b, s) <=> Retired(q, s)
           /\ E6Unmarked(b, s) <=> E6Unmarked(q, s)
           /\ E6Seat(b, s) <=> E6Seat(q, s)
           /\ E6OnlyUnmarked(b, s) <=> E6OnlyUnmarked(q, s)
           /\ UnknownProfile(b, s) <=> UnknownProfile(q, s)
<1>1. /\ b.name = q.name /\ b.role = q.role /\ b.effort = q.effort /\ b.subscribed = q.subscribed
      /\ Rung(b) = Rung(q)
      /\ Matches(b.marker, Canonical(q.name), Rung(q)) <=> Matches(q.marker, Canonical(q.name), Rung(q))
      /\ Experiment(b, s) <=> Experiment(q, s)
    BY DEF Alike
<1>2. RetiredRung(b, s) <=> RetiredRung(q, s) BY <1>1 DEF RetiredRung, RetiredEffort
<1>3. ConsultByCatalog(b, s) <=> ConsultByCatalog(q, s) BY <1>1 DEF ConsultByCatalog, ConsultEffort
<1>4. Consult(b, s) <=> Consult(q, s) BY <1>3 DEF Consult
<1>5. E6Row(b, s) <=> E6Row(q, s) BY <1>1, <1>3 DEF E6Row
<1>6. E6Admitted(b, s) <=> E6Admitted(q, s) BY <1>1, <1>5 DEF E6Admitted
<1>7. Judged(b, s) = Judged(q, s) BY <1>1, <1>4, <1>6 DEF Judged
<1>8. /\ Barred(b, s) <=> Barred(q, s)
      /\ Unsubscribed(b, s) <=> Unsubscribed(q, s)
      /\ CreditUnnamed(b, s) <=> CreditUnnamed(q, s)
      /\ CreditUnplaced(b, s) <=> CreditUnplaced(q, s)
      /\ CreditSeat(b, s) <=> CreditSeat(q, s)
    BY <1>1 DEF Barred, Unsubscribed, CreditUnnamed, CreditUnplaced, CreditSeat
<1>9. /\ Retired(b, s) <=> Retired(q, s)
      /\ E6Unmarked(b, s) <=> E6Unmarked(q, s)
      /\ E6Seat(b, s) <=> E6Seat(q, s)
      /\ E6OnlyUnmarked(b, s) <=> E6OnlyUnmarked(q, s)
      /\ UnknownProfile(b, s) <=> UnknownProfile(q, s)
    BY <1>1, <1>2, <1>4, <1>5, <1>6, <1>7
    DEF Retired, E6Unmarked, E6Seat, E6OnlyUnmarked, UnknownProfile
<1>10. QED BY <1>4, <1>6, <1>7, <1>8, <1>9

\* The context is that of a name, an effort and of whether the marker names one.
LEMMA SameContext ==
    ASSUME NEW q, NEW b, NEW w, b.name = q.name, b.effort = q.effort,
           q.effort # None \/ b.marker = q.marker
    PROVE  PolicyContext(b, w) = PolicyContext(q, w)
<1> DEFINE own(p) == RowsOf(w.view.rows, p)
           rows(p) == {r \in Live(own(p)) : r.gate = "consult_only" \/ ~UnmeasuredRow(r, w.bundle)}
           none == [resolved |-> None, row |-> None, retired |-> FALSE]
           default(p) == DefaultEffort(p, rows(p))
           context(p, named) ==
               IF own(p) # {} /\ Live(own(p)) = {} THEN [none EXCEPT !.retired = TRUE]
               ELSE IF named \/ rows(p) = {} THEN none
               ELSE [resolved |-> default(p).shown, retired |-> FALSE,
                     row |-> IF \E r \in rows(p) : r.effort = default(p).shown
                             THEN default(p).shown ELSE default(p).row]
<1>1. /\ PolicyContext(q, w)
            = context(Canonical(q.name), q.effort # None \/ Names_(q.marker, Canonical(q.name)))
      /\ PolicyContext(b, w)
            = context(Canonical(b.name), b.effort # None \/ Names_(b.marker, Canonical(b.name)))
    BY DEF PolicyContext
<1>2. q.effort # None \/ Names_(q.marker, Canonical(q.name))
        <=> b.effort # None \/ Names_(b.marker, Canonical(b.name))
    OBVIOUS
<1> HIDE DEF context
<1>3. QED BY <1>1, <1>2

\* What is left of a request without its marker.
LEMMA Unmarked ==
    ASSUME NEW q \in RequestForms, NEW b, b = [q EXCEPT !.marker = None]
    PROVE  /\ b.name = q.name /\ b.effort = q.effort /\ b.role = q.role /\ b.purpose = q.purpose
           /\ b.ref = q.ref /\ b.by = q.by /\ b.pace = q.pace /\ b.subscribed = q.subscribed
           /\ b.marker = None
BY DEF RequestForms

\* A marker of another rung makes no difference to the gate.
LEMMA MarkerAtGate ==
    ASSUME NEW q \in RequestForms, NEW w, NEW b, b = [q EXCEPT !.marker = None],
           q.effort # None, ~Matches(q.marker, Canonical(q.name), q.effort)
    PROVE  Admission(q, w) = Admission(b, w)
<1>1. /\ b.name = q.name /\ b.effort = q.effort /\ b.role = q.role /\ b.purpose = q.purpose
      /\ b.ref = q.ref /\ b.by = q.by /\ b.pace = q.pace /\ b.subscribed = q.subscribed
      /\ b.marker = None
    BY Unmarked
<1>2. Rung(q) = q.effort /\ Rung(b) = q.effort BY <1>1 DEF Rung
<1>3. PolicyContext(b, w) = PolicyContext(q, w) BY ONLY <1>1, SameContext, q.effort # None
<1>4. Situation(b, w) = Situation(q, w)
    BY ONLY <1>1, <1>2, <1>3 DEF Situation, RungRow, FoundRow
<1> DEFINE s == Situation(q, w)
<1> HIDE DEF s
<1>5. ~Matches(b.marker, Canonical(q.name), q.effort) BY <1>1 DEF Matches
<1>6. ~Experiment(q, s) /\ ~Experiment(b, s)
    BY <1>1, <1>2, <1>5 DEF Experiment, RetiredEffort
<1>7. Alike(q, b, s) BY <1>1, <1>2, <1>5, <1>6 DEF Alike
<1>8. /\ RoleRestricted(b, s) <=> RoleRestricted(q, s)
      /\ BadAudit(b, s) <=> BadAudit(q, s)
      /\ NotApplicable(b, s) <=> NotApplicable(q, s)
      /\ ConsultUnasked(b, s) <=> ConsultUnasked(q, s)
    BY <1>1, <1>7, AlikeRules DEF RoleRestricted, BadAudit, NotApplicable, ConsultUnasked
<1>9. Holding(q, s) = Holding(b, s)
    <2>1. \A i \in 1 .. 14 : i \in Holding(q, s) <=> i \in Holding(b, s)
        BY <1>7, <1>8, AlikeRules, RefusalsInOrder
    <2>2. QED BY <2>1, RefusalsInOrder
<1>10. QED BY <1>4, <1>9, SameRefusals DEF s

\* What is left of a request without its reference and who gave it.
LEMMA Unreferred ==
    ASSUME NEW q \in RequestForms, NEW b, b = [q EXCEPT !.ref = None, !.by = None]
    PROVE  /\ b.name = q.name /\ b.effort = q.effort /\ b.role = q.role /\ b.purpose = q.purpose
           /\ b.marker = q.marker /\ b.pace = q.pace /\ b.subscribed = q.subscribed
           /\ b.ref = None /\ b.by = None
BY DEF RequestForms

\* A reference opens nothing but what is said of it.
LEMMA ReferenceAtGate ==
    ASSUME NEW q \in RequestForms, NEW w, NEW b, b = [q EXCEPT !.ref = None, !.by = None],
           q.ref # None, Admission(q, w) = "admitted", RequestAssumption
    PROVE  \/ Admission(b, w) \in {"admitted", "consult_only"}
           \/ /\ Admission(b, w) = "retired" /\ q.ref = "experiment" /\ q.marker # None
           \/ /\ Admission(b, w) = "role" /\ q.ref = "round-ext" /\ RoundExtension(q.purpose)
<1>1. /\ b.name = q.name /\ b.effort = q.effort /\ b.role = q.role /\ b.purpose = q.purpose
      /\ b.marker = q.marker /\ b.pace = q.pace /\ b.subscribed = q.subscribed
      /\ b.ref = None /\ b.by = None
    BY Unreferred
<1>2. Rung(b) = Rung(q) BY <1>1 DEF Rung
<1>3. PolicyContext(b, w) = PolicyContext(q, w) BY ONLY <1>1, SameContext
<1>4. Situation(b, w) = Situation(q, w)
    BY ONLY <1>1, <1>2, <1>3 DEF Situation, RungRow, FoundRow
<1> DEFINE s == Situation(q, w)
<1>5. Holding(q, s) = {} BY FirstHolds
<1>6. Situation(b, w) = s BY <1>4
<1> HIDE DEF s
<1>7. /\ ~Barred(q, s) /\ ~RoleRestricted(q, s) /\ ~Unsubscribed(q, s) /\ ~BadAudit(q, s)
      /\ ~CreditUnnamed(q, s) /\ ~CreditUnplaced(q, s) /\ ~CreditSeat(q, s) /\ ~Retired(q, s)
      /\ ~E6Unmarked(q, s) /\ ~E6Seat(q, s) /\ ~E6OnlyUnmarked(q, s) /\ ~UnknownProfile(q, s)
    BY <1>5, RefusalsInOrder
<1>8. /\ ~Barred(b, s) /\ ~Unsubscribed(b, s) /\ ~BadAudit(b, s)
      /\ ~CreditUnnamed(b, s) /\ ~CreditUnplaced(b, s) /\ ~CreditSeat(b, s)
    BY <1>1, <1>2, <1>7
    DEF Barred, Unsubscribed, BadAudit, RefValid, RequestAssumption, CreditUnnamed, CreditUnplaced, CreditSeat
<1>9. RoleRestricted(b, s) => q.ref = "round-ext" /\ RoundExtension(q.purpose)
    BY <1>1, <1>7 DEF RoleRestricted, RoundExtRoleAllowed, AstraPurposeAllowed
<1>10. CASE Holding(b, s) = {} BY <1>10, <1>6, FirstHolds
<1>11. CASE Holding(b, s) # {}
    <2>1. PICK i \in Holding(b, s) : Admission(b, w) = GateOrder[i] /\ \A j \in Holding(b, s) : i <= j
        BY <1>11, <1>6, FirstHolds
    <2>2. /\ i \in 1 .. 14
          /\ i \notin {1, 3, 4, 5, 6, 7}
          /\ i = 2 => RoleRestricted(b, s)
        BY <1>8, RefusalsInOrder
    <2>3. /\ GateOrder[2] = "role" /\ GateOrder[8] = "retired" /\ GateOrder[12] = "consult_only"
        BY DEF GateOrder
    <2>4. CASE Experiment(q, s)
        <3>1. RetiredRung(b, s) /\ ~Experiment(b, s)
            BY <2>4, <1>1, <1>2 DEF Experiment, RetiredRung, RetiredEffort, RequestAssumption
        <3>2. Retired(b, s) BY <3>1 DEF Retired
        <3>3. 8 \in Holding(b, s) BY <3>2, RefusalsInOrder
        <3>4. i \in {2, 8} BY <2>1, <2>2, <3>3
        <3>5. q.ref = "experiment" /\ q.marker # None BY <2>4 DEF Experiment, Matches
        <3>6. QED BY <2>1, <2>2, <2>3, <3>4, <3>5, <1>9
    <2>5. CASE ~Experiment(q, s)
        <3>1. ~Experiment(b, s) BY <1>1 DEF Experiment, RequestAssumption
        <3>2. Alike(q, b, s) BY <2>5, <3>1, <1>1, <1>2 DEF Alike
        <3>3. /\ ~Retired(b, s) /\ ~E6Unmarked(b, s) /\ ~E6Seat(b, s)
              /\ ~E6OnlyUnmarked(b, s) /\ ~UnknownProfile(b, s)
            BY <3>2, <1>7, AlikeRules
        <3>4. ~NotApplicable(b, s) BY <1>1 DEF NotApplicable
        <3>5. i \notin {8, 9, 10, 11, 13, 14} BY <3>3, <3>4, RefusalsInOrder
        <3>6. i \in {2, 12} BY <2>2, <3>5
        <3>7. QED BY <2>1, <2>2, <2>3, <3>6, <1>9
    <2>6. QED BY <2>4, <2>5
<1>12. QED BY <1>10, <1>11

------------------------------------------------------------------------------
\* Two requests for the same row, drawn alike.
Like(d, c) ==
    /\ c.open = d.open /\ c.candidates = d.candidates
    /\ c.fromBundle = d.fromBundle /\ c.rows = d.rows
    /\ c.ask.p = d.ask.p /\ c.ask.view = d.ask.view /\ c.ask.bundle = d.ask.bundle
    /\ c.ask.effort = d.ask.effort
    /\ c.ask.q.name = d.ask.q.name /\ c.ask.q.role = d.ask.q.role
    /\ c.ask.q.purpose = d.ask.q.purpose /\ c.ask.q.ref = d.ask.q.ref
    /\ c.ask.q.effort = d.ask.q.effort /\ c.ask.q.subscribed = d.ask.q.subscribed

\* The refusals of the launcher tell such requests apart by nothing.
LEMMA LikeVerdicts ==
    ASSUME NEW d, NEW c, Like(d, c) PROVE Verdict(d) = Verdict(c)
<1> USE DEF Like
<1>1. /\ LaunchBarred(d) <=> LaunchBarred(c)
      /\ LaunchRole(d.ask.q) <=> LaunchRole(c.ask.q)
      /\ d.ask.q.ref = c.ask.q.ref
      /\ CreditRung(d.ask) <=> CreditRung(c.ask)
      /\ RowBarred(d) <=> RowBarred(c)
      /\ ArmUnmarked(d) <=> ArmUnmarked(c)
      /\ NoRows(d) <=> NoRows(c)
    BY DEF LaunchBarred, LaunchRole, CreditRung, RowBarred, ArmUnmarked, NoRows
<1>2. \A i \in DOMAIN RequestOrder :
          RequestRefuses(RequestOrder[i], d) <=> RequestRefuses(RequestOrder[i], c)
    <2>1. \A why \in {"barred", "role", "ref", "credit_rung", "row_barred", "e6_required", "no_rows"} :
             RequestRefuses(why, d) <=> RequestRefuses(why, c)
        BY <1>1 DEF RequestRefuses
    <2>2. QED BY <2>1 DEF RequestOrder
<1> DEFINE e == Resolved(d)
           own == OwnRow(d, e)
           f == Found(d, e, own)
           g == Found(c, e, own)
<1>3. Resolved(c) = e BY DEF Resolved
<1>4. OwnRow(c, e) = own BY DEF OwnRow
<1>5. Settled(d) = f /\ Settled(c) = g BY <1>3, <1>4 DEF Settled
<1>6. LaunchRow(c, own) = LaunchRow(d, own) BY DEF LaunchRow
<1>7. /\ f.drawn = d /\ f.ask = d.ask /\ g.drawn = c /\ g.ask = c.ask
      /\ f.resolved = g.resolved /\ f.own = g.own /\ f.row = g.row
    BY <1>6 DEF Found
<1> HIDE DEF e, own, f, g
<1>8. /\ RungRetired(f) <=> RungRetired(g)
      /\ ArmFallback(f) <=> ArmFallback(g)
      /\ LaunchSeat(f) <=> LaunchSeat(g)
      /\ LaunchUnsubscribed(f.ask.q) <=> LaunchUnsubscribed(g.ask.q)
      /\ LaunchConsult(f) <=> LaunchConsult(g)
      /\ StaleGate(f) <=> StaleGate(g)
    BY <1>7 DEF RungRetired, ArmFallback, LaunchSeat, OpenedArm, LaunchUnsubscribed, LaunchConsult, StaleGate
<1>9. \A i \in DOMAIN LaunchOrder :
          LaunchRefuses(LaunchOrder[i], f) <=> LaunchRefuses(LaunchOrder[i], g)
    <2>1. \A why \in {"retired", "e6_fallback", "seat", "unsubscribed", "consult_only", "stale"} :
             LaunchRefuses(why, f) <=> LaunchRefuses(why, g)
        BY <1>8 DEF LaunchRefuses
    <2>2. QED BY <2>1 DEF LaunchOrder
<1>10. QED BY <1>2, <1>5, <1>9 DEF Verdict

\* The launcher draws the same for a request without the marker of another rung.
LEMMA MarkerAtLaunch ==
    ASSUME NEW q \in RequestForms, NEW v, NEW bundle, NEW b, b = [q EXCEPT !.marker = None],
           q.effort # None, ~Matches(q.marker, Canonical(q.name), q.effort)
    PROVE  Launch(q, v, bundle) = Launch(b, v, bundle)
<1>1. /\ b.name = q.name /\ b.effort = q.effort /\ b.role = q.role /\ b.purpose = q.purpose
      /\ b.ref = q.ref /\ b.by = q.by /\ b.pace = q.pace /\ b.subscribed = q.subscribed
      /\ b.marker = None
    BY Unmarked
<1> DEFINE p == Canonical(q.name)
<1>2. Named(q, bundle) = q.effort /\ Named(b, bundle) = q.effort BY <1>1 DEF Named
<1>3. ~Matches(b.marker, p, q.effort) BY <1>1 DEF Matches
<1>4. /\ ExperimentEffort(q, v, q.effort) = None
      /\ ExperimentEffort(b, v, q.effort) = None
    BY <1>1, <1>3 DEF ExperimentEffort
<1>5. ~E6Open(q, q.effort) /\ ~E6Open(b, q.effort) BY <1>1, <1>3 DEF E6Open
<1> DEFINE A(r) == [q |-> r, p |-> p, view |-> v, bundle |-> bundle,
                    experiment |-> None, effort |-> q.effort]
           candidates == Candidates(p, v, None)
           offers == Offers(p, bundle, candidates, FALSE)
           D(r) == [ask |-> A(r), open |-> FALSE, candidates |-> candidates,
                    fromBundle |-> offers = {},
                    rows |-> Rows(p, bundle, offers, q.effort, FALSE)]
<1>6. Request(q, v, bundle) = D(q) /\ Request(b, v, bundle) = D(b)
    <2>1. ASSUME NEW r, r.name = q.name, Named(r, bundle) = q.effort,
                 ExperimentEffort(r, v, q.effort) = None, E6Open(r, q.effort) = FALSE
          PROVE  Request(r, v, bundle) = D(r)
        <3>1. Request(r, v, bundle) = Drawn(Opened(A(r))) BY <2>1 DEF Request, Asked
        <3>2. Opened(A(r)) = [ask |-> A(r), open |-> FALSE, candidates |-> candidates]
            BY <2>1 DEF Opened
        <3> DEFINE o == [ask |-> A(r), open |-> FALSE, candidates |-> candidates]
        <3>3. /\ o.ask = A(r) /\ o.open = FALSE /\ o.candidates = candidates
              /\ A(r).p = p /\ A(r).bundle = bundle /\ A(r).effort = q.effort
            OBVIOUS
        <3>4. Request(r, v, bundle) = Drawn(o) BY <3>1, <3>2
        <3> HIDE DEF o, candidates, A, p
        <3>5. Drawn(o) = D(r) BY <3>3 DEF Drawn
        <3>6. QED BY <3>4, <3>5
    <2>2. QED BY <2>1, <1>1, <1>2, <1>4, <1>5 DEF E6Open
<1>7. Like(D(q), D(b))
    <2>1. /\ A(q).q = q /\ A(b).q = b OBVIOUS
    <2> HIDE DEF candidates, offers, p
    <2>2. QED BY <2>1, <1>1 DEF Like
<1> HIDE DEF D
<1>8. QED BY <1>6, <1>7, LikeVerdicts DEF Launch

------------------------------------------------------------------------------
\* The answers stay those of the view they were given over.
THEOREM AskedInductive == LaunchSpec => []AskedInv
<1>1. LaunchInit => AskedInv BY DEF LaunchInit, AskedInv
<1>2. AskedInv /\ [LaunchNext]_launchVars => AskedInv'
    <2> SUFFICES ASSUME AskedInv, [LaunchNext]_launchVars PROVE AskedInv' OBVIOUS
    <2>1. CASE Push \/ Serve
        <3>1. asked = None BY <2>1 DEF Push, Serve, AskedInv
        <3>2. asked' = asked /\ subject' = subject BY <2>1 DEF Push, Serve
        <3>3. QED BY <3>1, <3>2 DEF AskedInv
    <2>2. CASE Ask
        <3>1. PICK q \in Requests[subject] :
                 asked' = Answers(q, Admission(q, World(view, Bundle)), Launch(q, view, Bundle))
            BY <2>2 DEF Ask
        <3>2. q \in RequestForms BY RequestAssumption DEF AskedInv
        <3>3. view' = view /\ subject' = subject /\ view # None BY <2>2 DEF Ask
        <3>4. /\ asked'.q = q /\ asked'.gate = Admission(q, World(view, Bundle))
              /\ asked'.launch = Launch(q, view, Bundle)
            BY <3>1 DEF Answers
        <3>5. QED BY <3>2, <3>3, <3>4 DEF AskedInv
    <2>3. CASE UNCHANGED launchVars BY <2>3 DEF AskedInv, launchVars
    <2>4. QED BY <2>1, <2>2, <2>3 DEF LaunchNext
<1>3. QED BY <1>1, <1>2, PTL DEF LaunchSpec

\* A reference opens a consultation, its experiment and its round extension, and
\* a marker of another rung opens nothing, whatever the catalog, the bundle and
\* the request are (gate_check, resolve_launch).
THEOREM KeysOpenTheirOwnThm == LaunchSpec => []KeysOpenTheirOwn
<1>1. AskedInv => ReferenceOpens
    <2> SUFFICES ASSUME AskedInv, asked # None, asked.gate = "admitted", asked.q.ref # None
                 PROVE  LET bare == Gate([asked.q EXCEPT !.ref = None, !.by = None]) IN
                        \/ bare \in {"admitted", "consult_only"}
                        \/ bare = "retired" /\ asked.q.ref = "experiment" /\ asked.q.marker # None
                        \/ bare = "role" /\ asked.q.ref = "round-ext" /\ RoundExtension(asked.q.purpose)
        BY DEF ReferenceOpens
    <2>1. asked.q \in RequestForms /\ Admission(asked.q, World(view, Bundle)) = "admitted"
        BY DEF AskedInv
    <2>2. QED BY <2>1, ReferenceAtGate, RequestAssumption DEF Gate
<1>2. AskedInv => MarkerOpensItsRung
    <2> SUFFICES ASSUME AskedInv, asked # None, asked.q.effort # None,
                        ~Matches(asked.q.marker, Canonical(asked.q.name), asked.q.effort)
                 PROVE  LET bare == [asked.q EXCEPT !.marker = None] IN
                        asked.gate = Gate(bare) /\ (asked.launch = "resolved") = Resolves(bare)
        BY DEF MarkerOpensItsRung
    <2> DEFINE bare == [asked.q EXCEPT !.marker = None]
    <2>1. /\ asked.q \in RequestForms /\ asked.gate = Admission(asked.q, World(view, Bundle))
          /\ asked.launch = Launch(asked.q, view, Bundle)
        BY DEF AskedInv
    <2>2. asked.gate = Admission(bare, World(view, Bundle)) BY <2>1, MarkerAtGate
    <2>3. asked.launch = Launch(bare, view, Bundle) BY <2>1, MarkerAtLaunch
    <2>4. QED BY <2>2, <2>3 DEF Gate, Resolves
<1>3. QED BY <1>1, <1>2, AskedInductive, PTL DEF KeysOpenTheirOwn

------------------------------------------------------------------------------
(* What the gate calls closed, at the launcher (GateLaunch).               *)
\* A catalog, and what a host may know: one, which is the bundle where the
\* table is the code's.
Catalog(rows) == rows \subseteq RowForms /\ \A r, s \in rows : Key(r) = Key(s) => r = s
Sighted(v) ==
    /\ Catalog(v.rows)
    /\ v.source \notin {"server", "cache", "cache-stale"} => v.rows = Bundle

\* What was asked was asked over such a view, of a rung that can be named.
SightedInv ==
    /\ AskedInv
    /\ Catalog(canon) /\ Catalog(cached)
    /\ view # None => Sighted(view)
    /\ asked # None => asked.q.effort # NoEffort

------------------------------------------------------------------------------
\* The answer of the gate is a refusal that holds.
LEMMA SaidByGate ==
    ASSUME NEW q, NEW w
    PROVE  LET s == Situation(q, w) IN
           /\ Admission(q, w) = "barred" => Barred(q, s)
           /\ Admission(q, w) = "unsubscribed" => Unsubscribed(q, s)
           /\ Admission(q, w) = "credit_unnamed" => CreditUnnamed(q, s)
           /\ Admission(q, w) = "credit_unplaced" => CreditUnplaced(q, s)
           /\ Admission(q, w) = "credit_seat" => CreditSeat(q, s)
           /\ Admission(q, w) = "retired" => Retired(q, s)
           /\ Admission(q, w) = "e6_seat" => ~CreditUnplaced(q, s) /\ E6Seat(q, s)
           /\ Admission(q, w) = "e6_only" => ~NotApplicable(q, s) /\ E6OnlyUnmarked(q, s)
           /\ Admission(q, w) = "unknown" => UnknownProfile(q, s)
<1> DEFINE s == Situation(q, w)
<1>1. Admission(q, w) # "admitted" =>
         \E i \in Holding(q, s) : Admission(q, w) = GateOrder[i] /\ \A j \in Holding(q, s) : i <= j
    BY FirstHolds
<1> HIDE DEF s
<1>2. Holding(q, s) \subseteq 1 .. 14 BY RefusalsInOrder
<1>3. /\ GateOrder[1] = "barred"
      /\ GateOrder[2] = "role"
      /\ GateOrder[3] = "unsubscribed"
      /\ GateOrder[4] = "audit"
      /\ GateOrder[5] = "credit_unnamed"
      /\ GateOrder[6] = "credit_unplaced"
      /\ GateOrder[7] = "credit_seat"
      /\ GateOrder[8] = "retired"
      /\ GateOrder[9] = "e6_required"
      /\ GateOrder[10] = "e6_seat"
      /\ GateOrder[11] = "not_applicable"
      /\ GateOrder[12] = "consult_only"
      /\ GateOrder[13] = "e6_only"
      /\ GateOrder[14] = "unknown"
    BY DEF GateOrder
<1>4. ASSUME NEW k \in 1 .. 14, Admission(q, w) = GateOrder[k]
      PROVE  k \in Holding(q, s) /\ \A j \in Holding(q, s) : k <= j
    <2>1. Admission(q, w) # "admitted" BY <1>3, <1>4
    <2>2. PICK i \in Holding(q, s) : GateOrder[k] = GateOrder[i] /\ \A j \in Holding(q, s) : i <= j
        BY <1>1, <1>4, <2>1
    <2>3. i = k BY <1>2, <1>3, <2>2
    <2>4. QED BY <2>2, <2>3
<1>5. /\ 1 \in Holding(q, s) => Barred(q, s)
      /\ 3 \in Holding(q, s) => Unsubscribed(q, s)
      /\ 5 \in Holding(q, s) => CreditUnnamed(q, s)
      /\ 6 \in Holding(q, s) <=> CreditUnplaced(q, s)
      /\ 7 \in Holding(q, s) => CreditSeat(q, s)
      /\ 8 \in Holding(q, s) => Retired(q, s)
      /\ 10 \in Holding(q, s) => E6Seat(q, s)
      /\ 11 \in Holding(q, s) <=> NotApplicable(q, s)
      /\ 13 \in Holding(q, s) => E6OnlyUnmarked(q, s)
      /\ 14 \in Holding(q, s) => UnknownProfile(q, s)
    BY RefusalsInOrder
<1>6. Admission(q, w) = "e6_seat" => ~(6 \in Holding(q, s)) /\ 10 \in Holding(q, s)
    <2> SUFFICES ASSUME Admission(q, w) = "e6_seat" PROVE ~(6 \in Holding(q, s)) /\ 10 \in Holding(q, s)
        OBVIOUS
    <2>1. 10 \in Holding(q, s) /\ \A j \in Holding(q, s) : 10 <= j BY <1>3, <1>4
    <2>2. QED BY <2>1
<1>7. Admission(q, w) = "e6_only" => ~(11 \in Holding(q, s)) /\ 13 \in Holding(q, s)
    <2> SUFFICES ASSUME Admission(q, w) = "e6_only"
                 PROVE  ~(11 \in Holding(q, s)) /\ 13 \in Holding(q, s)
        OBVIOUS
    <2>1. 13 \in Holding(q, s) /\ \A j \in Holding(q, s) : 13 <= j BY <1>3, <1>4
    <2>2. QED BY <2>1
<1>8. /\ Admission(q, w) = "barred" => Barred(q, s)
      /\ Admission(q, w) = "unsubscribed" => Unsubscribed(q, s)
      /\ Admission(q, w) = "credit_unnamed" => CreditUnnamed(q, s)
      /\ Admission(q, w) = "credit_unplaced" => CreditUnplaced(q, s)
      /\ Admission(q, w) = "credit_seat" => CreditSeat(q, s)
      /\ Admission(q, w) = "retired" => Retired(q, s)
      /\ Admission(q, w) = "unknown" => UnknownProfile(q, s)
    BY <1>3, <1>4, <1>5
<1>9. QED BY <1>5, <1>6, <1>7, <1>8 DEF s

\* Where a launch resolves, none of its refusals holds.
LEMMA NoneRefused ==
    ASSUME NEW d, Verdict(d) = "resolved"
    PROVE  /\ ~LaunchBarred(d) /\ ~CreditRung(d.ask) /\ ~RowBarred(d)
           /\ ~ArmUnmarked(d) /\ ~NoRows(d)
           /\ ~RungRetired(Settled(d)) /\ ~ArmFallback(Settled(d)) /\ ~LaunchSeat(Settled(d))
           /\ ~LaunchUnsubscribed(Settled(d).ask.q) /\ ~LaunchConsult(Settled(d))
<1> DEFINE early == {i \in DOMAIN RequestOrder : RequestRefuses(RequestOrder[i], d)}
           late == {i \in DOMAIN LaunchOrder : LaunchRefuses(LaunchOrder[i], Settled(d))}
<1>1. Verdict(d) = IF early # {} THEN FirstOf(RequestOrder, early)
                   ELSE IF late # {} THEN FirstOf(LaunchOrder, late) ELSE "resolved"
    BY DEF Verdict
<1>2. early \subseteq 1 .. 7 /\ late \subseteq 1 .. 6 BY DEF RequestOrder, LaunchOrder
<1>3. \A i \in 1 .. 7 : RequestOrder[i] # "resolved" BY DEF RequestOrder
<1>4. \A i \in 1 .. 6 : LaunchOrder[i] # "resolved" BY DEF LaunchOrder
<1> HIDE DEF early, late
<1>5. ASSUME NEW order, NEW holding \in SUBSET Nat, holding # {}
      PROVE  \E i \in holding : FirstOf(order, holding) = order[i]
    <2>1. \E i \in holding : \A j \in holding : i <= j BY <1>5, LeastExists
    <2>2. QED BY <2>1 DEF FirstOf
<1>6. early = {}
    <2> SUFFICES ASSUME early # {} PROVE FALSE OBVIOUS
    <2>1. \E i \in early : FirstOf(RequestOrder, early) = RequestOrder[i] BY <1>2, <1>5
    <2>2. QED BY <1>1, <1>2, <1>3, <2>1
<1>7. late = {}
    <2> SUFFICES ASSUME late # {} PROVE FALSE OBVIOUS
    <2>1. \E i \in late : FirstOf(LaunchOrder, late) = LaunchOrder[i] BY <1>2, <1>5
    <2>2. QED BY <1>1, <1>2, <1>4, <1>6, <2>1
<1>8. /\ ~RequestRefuses("barred", d) /\ ~RequestRefuses("credit_rung", d)
      /\ ~RequestRefuses("row_barred", d) /\ ~RequestRefuses("e6_required", d)
      /\ ~RequestRefuses("no_rows", d)
    <2>1. /\ 1 \in DOMAIN RequestOrder /\ RequestOrder[1] = "barred"
          /\ 4 \in DOMAIN RequestOrder /\ RequestOrder[4] = "credit_rung"
          /\ 5 \in DOMAIN RequestOrder /\ RequestOrder[5] = "row_barred"
          /\ 6 \in DOMAIN RequestOrder /\ RequestOrder[6] = "e6_required"
          /\ 7 \in DOMAIN RequestOrder /\ RequestOrder[7] = "no_rows"
        BY DEF RequestOrder
    <2>2. \A i \in DOMAIN RequestOrder : ~RequestRefuses(RequestOrder[i], d) BY <1>6 DEF early
    <2>3. QED BY <2>1, <2>2
<1>9. /\ ~LaunchRefuses("retired", Settled(d)) /\ ~LaunchRefuses("e6_fallback", Settled(d))
      /\ ~LaunchRefuses("seat", Settled(d)) /\ ~LaunchRefuses("unsubscribed", Settled(d))
      /\ ~LaunchRefuses("consult_only", Settled(d))
    <2>1. /\ 1 \in DOMAIN LaunchOrder /\ LaunchOrder[1] = "retired"
          /\ 2 \in DOMAIN LaunchOrder /\ LaunchOrder[2] = "e6_fallback"
          /\ 3 \in DOMAIN LaunchOrder /\ LaunchOrder[3] = "seat"
          /\ 4 \in DOMAIN LaunchOrder /\ LaunchOrder[4] = "unsubscribed"
          /\ 5 \in DOMAIN LaunchOrder /\ LaunchOrder[5] = "consult_only"
        BY DEF LaunchOrder
    <2>2. \A i \in DOMAIN LaunchOrder : ~LaunchRefuses(LaunchOrder[i], Settled(d)) BY <1>7 DEF late
    <2>3. QED BY <2>1, <2>2
<1>10. QED BY <1>8, <1>9 DEF RequestRefuses, LaunchRefuses

\* What is drawn for a plain request: its own effort; the live rows, and the
\* experiment's as a consultation; of those the ones on offer, else the bundle's.
Draws(d, q, v, x) ==
    LET p == Canonical(q.name)
        offers == Offers(p, d.ask.bundle, d.candidates, d.open)
    IN /\ d.ask.q = q /\ d.ask.p = p /\ d.ask.view = v /\ d.ask.bundle = Bundle
       /\ d.ask.effort = q.effort
       /\ d.open = E6Open(q, q.effort)
       /\ d.candidates = Candidates(p, v, x)
       /\ d.fromBundle = (offers = {})
       /\ d.rows = Rows(p, d.ask.bundle, offers, q.effort, d.open)

LEMMA PlainDraws ==
    ASSUME NEW q \in RequestForms, NEW v, Plain(q)
    PROVE  \E x : /\ Draws(Request(q, v, Bundle), q, v, x)
                  /\ x # None => /\ x = q.effort /\ IsRetired(v, Canonical(q.name), x)
                                 /\ q.ref = "experiment" /\ Matches(q.marker, Canonical(q.name), x)
<1> DEFINE p == Canonical(q.name)
           x == ExperimentEffort(q, v, q.effort)
           a == Asked(q, v, Bundle, x, q.effort)
           o == Opened(a)
           d == Drawn(o)
<1>1. Named(q, Bundle) = q.effort BY DEF Named, Plain
<1>2. Request(q, v, Bundle) = d BY <1>1 DEF Request
<1>3. x # None => /\ x = q.effort /\ IsRetired(v, p, x)
                  /\ q.ref = "experiment" /\ Matches(q.marker, p, x)
    <2>1. q.effort = None => x = None BY DEF ExperimentEffort, Plain, Matches
    <2>2. q.effort # None =>
             x = IF IsRetired(v, p, q.effort) /\ q.ref = "experiment" /\ Matches(q.marker, p, q.effort)
                 THEN q.effort ELSE None
        BY DEF ExperimentEffort
    <2> HIDE DEF x
    <2>3. QED BY <2>1, <2>2
<1> HIDE DEF x
<1>4. /\ a.q = q /\ a.p = p /\ a.view = v /\ a.bundle = Bundle /\ a.experiment = x
      /\ a.effort = IF x # None THEN x ELSE q.effort
    BY DEF Asked
<1>5. a.effort = q.effort BY <1>3, <1>4
<1> HIDE DEF a, p
<1>6. /\ o.ask = a /\ o.open = E6Open(a.q, a.effort)
      /\ o.candidates = Candidates(a.p, a.view, a.experiment)
    BY DEF Opened
<1> HIDE DEF o
<1>7. LET offers == Offers(a.p, a.bundle, o.candidates, o.open)
      IN /\ d.ask = a /\ d.open = o.open /\ d.candidates = o.candidates
         /\ d.fromBundle = (offers = {})
         /\ d.rows = Rows(a.p, a.bundle, offers, a.effort, o.open)
    BY <1>6 DEF Drawn
<1> HIDE DEF d
<1>8. Draws(d, q, v, x)
    <2>1. /\ d.ask.q = q /\ d.ask.p = p /\ d.ask.view = v /\ d.ask.bundle = Bundle
          /\ d.ask.effort = q.effort
        BY <1>4, <1>5, <1>7
    <2>2. d.open = E6Open(q, q.effort) /\ d.candidates = Candidates(p, v, x)
        BY <1>4, <1>5, <1>6, <1>7
    <2>3. LET offers == Offers(p, d.ask.bundle, d.candidates, d.open)
          IN d.fromBundle = (offers = {}) /\ d.rows = Rows(p, d.ask.bundle, offers, q.effort, d.open)
        BY <1>4, <1>5, <1>7
    <2>4. QED BY <2>1, <2>2, <2>3 DEF Draws, p
<1>9. QED BY <1>2, <1>3, <1>8 DEF p

\* The candidates are live rows, and the experiment's as a consultation.
LEMMA CandidatesAre ==
    ASSUME NEW v, Sighted(v), NEW p, NEW x
    PROVE  /\ RowsOf(Live(v.rows), p) \subseteq Candidates(p, v, x)
           /\ \A r \in Candidates(p, v, x) :
                 \/ r \in v.rows /\ ~r.retired /\ r.profile = p
                 \/ x # None /\ r.gate = "consult_only"
<1>1. RowsOf(Live(v.rows), p) \subseteq Candidates(p, v, x) BY DEF Candidates
<1>2. ASSUME NEW r \in Candidates(p, v, x)
      PROVE  \/ r \in v.rows /\ ~r.retired /\ r.profile = p
             \/ x # None /\ r.gate = "consult_only"
    <2>1. CASE r \in RowsOf(Live(v.rows), p) BY <2>1 DEF RowsOf, Live
    <2>2. CASE \E t \in {t \in v.rows : x # None /\ Key(t) = <<p, x>> /\ t.retired} :
                   r = [t EXCEPT !.gate = "consult_only", !.retired = FALSE]
        <3>1. PICK t \in v.rows : x # None /\ r = [t EXCEPT !.gate = "consult_only", !.retired = FALSE]
            BY <2>2
        <3>2. t \in RowForms BY DEF Sighted, Catalog
        <3>3. r.gate = "consult_only" BY <3>1, <3>2 DEF RowForms
        <3>4. QED BY <3>1, <3>3
    <2>3. QED BY <1>2, <2>1, <2>2 DEF Candidates
<1>3. QED BY <1>1, <1>2

\* What the table of a view has of it.
LEMMA TableOf ==
    ASSUME NEW v, Sighted(v)
    PROVE  LET table == World(v, Bundle).table IN
           /\ \A r \in table : r \in CodeTable(Bundle) \/ (r \in v.rows /\ ~r.retired)
           /\ \A r \in CodeTable(Bundle) : RowsOf(v.rows, r.profile) = {} => r \in table
           /\ \A r \in v.rows :
                 (/\ ~r.retired /\ r.gate # "consult_only" /\ r.effort # NoEffort
                  /\ r.profile \notin BundledConsult \cup Trials
                  /\ Key(r) \notin Arms /\ ~UnmeasuredRow(r, Bundle)) => r \in table
<1> DEFINE table == World(v, Bundle).table
<1>1. table = RuntimeTable(v, Bundle) BY DEF World
<1>2. CASE v.source \in {"server", "cache", "cache-stale"} /\ v.rows # {}
    <2>1. table = CatalogTable(v.rows, Bundle) BY <1>1, <1>2 DEF RuntimeTable
    <2> HIDE DEF table
    <2>2. \A r \in Placed(v.rows, Bundle) : r \in v.rows /\ ~r.retired BY DEF Placed, Live
    <2>3. \A r \in table : r \in CodeTable(Bundle) \/ r \in Placed(v.rows, Bundle)
        BY <2>1 DEF CatalogTable
    <2>4. ASSUME NEW r \in CodeTable(Bundle), RowsOf(v.rows, r.profile) = {} PROVE r \in table
        BY <2>1, <2>4 DEF CatalogTable, RowsOf
    <2>5. ASSUME NEW r \in v.rows, ~r.retired, r.gate # "consult_only", r.effort # NoEffort,
                 r.profile \notin Trials, ~UnmeasuredRow(r, Bundle)
          PROVE  r \in table
        <3>1. r \in Placed(v.rows, Bundle) BY <2>5 DEF Placed, Live
        <3>2. QED BY <2>1, <2>5, <3>1 DEF CatalogTable
    <2>6. QED BY <2>2, <2>3, <2>4, <2>5 DEF table
<1>3. CASE ~(v.source \in {"server", "cache", "cache-stale"} /\ v.rows # {})
    <2>1. table = CodeTable(Bundle) BY <1>1, <1>3 DEF RuntimeTable
    <2> HIDE DEF table
    <2>2. v.rows = {} \/ v.rows = Bundle BY <1>3 DEF Sighted
    <2>3. ASSUME NEW r \in v.rows, r.profile \notin BundledConsult \cup Trials, Key(r) \notin Arms
          PROVE  r \in table
        BY <2>1, <2>2, <2>3 DEF CodeTable
    <2>4. QED BY <2>1, <2>3 DEF table
<1>4. QED BY <1>2, <1>3

------------------------------------------------------------------------------
\* A barred name or model is barred at the launcher.
LEMMA BarredAtLaunch ==
    ASSUME NEW v, Sighted(v), NEW q, NEW x, NEW d, Draws(d, q, v, x),
           Barred(q, Situation(q, World(v, Bundle)))
    PROVE  LaunchBarred(d) \/ RowBarred(d)
<1> DEFINE p == Canonical(q.name)
           table == World(v, Bundle).table
<1>1. Situation(q, World(v, Bundle)).table = table BY DEF Situation
<1>2. /\ d.ask.q = q /\ d.ask.p = p /\ d.ask.bundle = Bundle
      /\ d.candidates = Candidates(p, v, x)
    BY DEF Draws
<1>3. CASE q.name \in BarredNames BY <1>2, <1>3 DEF LaunchBarred
<1>4. CASE \E r \in RowsOf(table, p) : r.barred
    <2>1. PICK r \in table : r.profile = p /\ r.barred BY <1>4 DEF RowsOf
    <2>2. r \in CodeTable(Bundle) \/ (r \in v.rows /\ ~r.retired) BY <2>1, TableOf
    <2>3. CASE r \in CodeTable(Bundle)
        <3>1. r \in RowsOf(CodeTable(Bundle), p) BY <2>1, <2>3 DEF RowsOf
        <3>2. QED BY <1>2, <2>1, <3>1 DEF LaunchBarred
    <2>4. CASE r \in v.rows /\ ~r.retired
        <3>1. r \in RowsOf(Live(v.rows), p) BY <2>1, <2>4 DEF RowsOf, Live
        <3>2. r \in d.candidates BY <1>2, <3>1, CandidatesAre
        <3>3. QED BY <2>1, <3>2 DEF RowBarred
    <2>5. QED BY <2>2, <2>3, <2>4
<1>5. QED BY <1>1, <1>3, <1>4 DEF Barred

\* A placed rung of a credit profile is no arm, and its profile is placed.
LEMMA CreditRungIs ==
    ASSUME NEW p, NEW e \in CreditRungs(p, Bundle)
    PROVE  /\ e \in Efforts /\ <<p, e>> \notin Arms /\ p \notin BundledConsult \cup Trials
           /\ ~E6Only(p, CodeTable(Bundle))
<1>1. PICK c \in RowsOf(CodeTable(Bundle), p) : e = c.effort BY DEF CreditRungs
<1>2. c \in Bundle /\ c.profile = p /\ p \notin BundledConsult \cup Trials /\ Key(c) \notin Arms
    BY <1>1 DEF RowsOf, CodeTable
<1>3. e \in Efforts BY <1>1, <1>2, CatalogAssumption DEF RowForms
<1>4. <<p, e>> \notin Arms BY <1>1, <1>2 DEF Key
<1>5. ~E6Only(p, CodeTable(Bundle)) BY <1>1 DEF E6Only, InTable
<1>6. QED BY <1>2, <1>3, <1>4, <1>5

\* A seat the gate keeps from a credit profile is kept from it at the launcher.
LEMMA SeatAtLaunch ==
    ASSUME NEW v, Sighted(v), NEW q, q.effort # NoEffort, NEW x, NEW d, Draws(d, q, v, x),
           CreditSeat(q, Situation(q, World(v, Bundle))),
           ~CreditRung(d.ask), ~NoRows(d)
    PROVE  LaunchSeat(Settled(d))
<1> DEFINE p == Canonical(q.name)
           table == World(v, Bundle).table
           s == Situation(q, World(v, Bundle))
           f == Settled(d)
           offers == Offers(p, Bundle, d.candidates, d.open)
<1>1. /\ d.ask.q = q /\ d.ask.p = p /\ d.ask.bundle = Bundle /\ d.ask.view = v
      /\ d.ask.effort = q.effort /\ d.open = E6Open(q, q.effort)
      /\ d.candidates = Candidates(p, v, x) /\ d.fromBundle = (offers = {})
      /\ d.rows = Rows(p, Bundle, offers, q.effort, d.open)
    BY DEF Draws
<1>2. p \in CreditProfiles BY DEF CreditSeat, PlacedSeatDenied, BuilderSeatDenied
<1>3. q.effort \in CreditRungs(p, Bundle) BY <1>1, <1>2 DEF CreditRung
<1>4. /\ q.effort \in Efforts /\ <<p, q.effort>> \notin Arms /\ p \notin BundledConsult \cup Trials
      /\ ~E6Only(p, CodeTable(Bundle))
    BY <1>3, CreditRungIs
<1>5. q.effort # None BY <1>4, RequestAssumption
<1>6. ~d.open BY <1>1, <1>4 DEF E6Open
<1>7. Rung(q) = q.effort BY <1>5 DEF Rung
<1>8. /\ s.row = {r \in RowsOf(table, p) : r.effort = q.effort} /\ s.view = v
    BY <1>7 DEF Situation, RungRow, World
<1>9. /\ f.ask = d.ask /\ f.drawn = d /\ f.own = {r \in d.rows : r.effort = q.effort}
    <2>1. Resolved(d) = q.effort BY <1>1, <1>5 DEF Resolved
    <2>2. OwnRow(d, q.effort) = {r \in d.rows : r.effort = q.effort} BY <1>6 DEF OwnRow
    <2>3. QED BY <2>1, <2>2 DEF Settled, Found
<1> HIDE DEF p, table, s, f, offers
<1>10. LaunchSeat(f) <=> PlacedSeatDenied(p, q.role) \/ BuilderSeatDenied(p, q.role, f.own)
    BY <1>1, <1>6, <1>9 DEF LaunchSeat, OpenedArm
<1>11. ASSUME NEW r \in f.own, r.gate = "default"
       PROVE  r \in s.row /\ <<p, q.effort>> \notin ConsultRungs(v)
    <2>1. r \in d.rows /\ r.effort = q.effort BY <1>9, <1>11
    <2>2. CASE offers # {}
        <3>1. r \in offers BY <1>1, <2>1, <2>2 DEF Rows
        <3>2. r \in d.candidates /\ ~UnmeasuredRow(r, Bundle)
            BY <1>6, <1>11, <3>1 DEF offers, Offers
        <3>3. r \in v.rows /\ ~r.retired /\ r.profile = p
            BY <1>1, <1>11, <3>2, CandidatesAre
        <3>4. Key(r) = <<p, q.effort>> BY <2>1, <3>3 DEF Key
        <3>5. r \in table
            BY <1>4, <1>11, <2>1, <3>2, <3>3, <3>4, TableOf DEF table
        <3>6. r \in s.row BY <1>8, <2>1, <3>3, <3>5 DEF RowsOf
        <3>7. <<p, q.effort>> \notin ConsultRungs(v)
            <4> SUFFICES ASSUME NEW c \in v.rows, Key(c) = <<p, q.effort>>, c.gate = "consult_only"
                         PROVE  FALSE
                BY DEF ConsultRungs, Live
            <4>1. c = r BY <3>3, <3>4 DEF Sighted, Catalog
            <4>2. QED BY <1>11, <4>1
        <3>8. QED BY <3>6, <3>7
    <2>3. CASE offers = {}
        <3>1. RowsOf(v.rows, p) = {} BY <1>1, <2>3 DEF NoRows
        <3>2. r \in BundleRows(Bundle, p) BY <1>1, <1>6, <2>1, <2>3 DEF Rows
        <3>3. r \in CodeTable(Bundle) /\ r.profile = p
            BY <1>4, <3>2 DEF BundleRows, RowsOf, CodeTable
        <3>4. r \in table BY <3>1, <3>3, TableOf DEF table
        <3>5. r \in s.row BY <1>8, <2>1, <3>3, <3>4 DEF RowsOf
        <3>6. <<p, q.effort>> \notin ConsultRungs(v)
            <4> SUFFICES ASSUME NEW c \in v.rows, Key(c) = <<p, q.effort>> PROVE FALSE
                BY DEF ConsultRungs, Live
            <4>1. c.profile = p BY DEF Key
            <4>2. QED BY <3>1, <4>1 DEF RowsOf
        <3>7. QED BY <3>5, <3>6
    <2>4. QED BY <2>2, <2>3
<1>12. CASE PlacedSeatDenied(p, q.role) BY <1>10, <1>12 DEF f
<1>13. CASE ~PlacedSeatDenied(p, q.role)
    <2>1. /\ q.role = "builder"
          /\ BuilderSeatDenied(p, q.role, s.row) \/ <<p, q.effort>> \in ConsultRungs(v)
        BY <1>7, <1>8, <1>13 DEF CreditSeat, BuilderSeatDenied, s, p
    <2>2. ~\E r \in f.own : r.gate = "default" BY <1>11, <2>1 DEF BuilderSeatDenied
    <2>3. BuilderSeatDenied(p, q.role, f.own) BY <1>2, <2>1, <2>2 DEF BuilderSeatDenied
    <2>4. QED BY <1>10, <2>3 DEF f
<1>14. QED BY <1>12, <1>13

\* The context of a spelling without an effort or a marker: what its rows on
\* offer start on, if it has any.
LEMMA ContextIs ==
    ASSUME NEW q, NEW v
    PROVE  LET p == Canonical(q.name)
               c == PolicyContext(q, World(v, Bundle))
               rows == {r \in Live(RowsOf(v.rows, p)) : r.gate = "consult_only" \/ ~UnmeasuredRow(r, Bundle)}
           IN /\ c.retired <=> RowsOf(v.rows, p) # {} /\ Live(RowsOf(v.rows, p)) = {}
              /\ (q.effort = None /\ Plain(q) /\ ~c.retired) =>
                    c.resolved = IF rows = {} THEN None ELSE DefaultEffort(p, rows).shown
<1> DEFINE p == Canonical(q.name)
           own == RowsOf(v.rows, p)
           rows == {r \in Live(own) : r.gate = "consult_only" \/ ~UnmeasuredRow(r, Bundle)}
           c == PolicyContext(q, World(v, Bundle))
           none == [resolved |-> None, row |-> None, retired |-> FALSE]
           start == DefaultEffort(p, rows)
<1>1. World(v, Bundle).view = v /\ World(v, Bundle).bundle = Bundle BY DEF World
<1>2. c = IF own # {} /\ Live(own) = {} THEN [none EXCEPT !.retired = TRUE]
          ELSE IF q.effort # None \/ Names_(q.marker, p) \/ rows = {} THEN none
          ELSE [resolved |-> start.shown, retired |-> FALSE,
                row |-> IF \E r \in rows : r.effort = start.shown THEN start.shown ELSE start.row]
    BY <1>1 DEF PolicyContext
<1> HIDE DEF c, start, rows, own
<1>3. c.retired <=> own # {} /\ Live(own) = {} BY <1>2
<1>4. ASSUME q.effort = None, Plain(q), ~c.retired
      PROVE  c.resolved = IF rows = {} THEN None ELSE start.shown
    <2>1. ~(own # {} /\ Live(own) = {}) BY <1>2, <1>4
    <2>2. ~Names_(q.marker, p) BY <1>4 DEF Plain
    <2>3. QED BY <1>2, <1>4, <2>1, <2>2
<1>5. QED BY <1>3, <1>4 DEF c, start, rows, own

\* A retired rung the gate keeps closed is retired at the launcher.
LEMMA RetiredAtLaunch ==
    ASSUME NEW v, Sighted(v), NEW q, Plain(q), NEW x, NEW d, Draws(d, q, v, x),
           x # None => /\ x = q.effort /\ IsRetired(v, Canonical(q.name), x)
                       /\ q.ref = "experiment" /\ Matches(q.marker, Canonical(q.name), x),
           Retired(q, Situation(q, World(v, Bundle))),
           q.effort # None \/ ~E6Only(Canonical(q.name), CodeTable(Bundle)),
           ~NoRows(d)
    PROVE  RungRetired(Settled(d))
<1> DEFINE p == Canonical(q.name)
           s == Situation(q, World(v, Bundle))
           own == RowsOf(v.rows, p)
           offers == Offers(p, Bundle, d.candidates, d.open)
<1>1. /\ d.ask.q = q /\ d.ask.p = p /\ d.ask.bundle = Bundle /\ d.ask.view = v
      /\ d.ask.effort = q.effort /\ d.open = E6Open(q, q.effort)
      /\ d.candidates = Candidates(p, v, x) /\ d.fromBundle = (offers = {})
      /\ d.rows = Rows(p, Bundle, offers, q.effort, d.open)
    BY DEF Draws
<1>2. /\ s.context = PolicyContext(q, World(v, Bundle)) /\ s.view = v BY DEF Situation, World
<1>3. Rung(q) = q.effort BY DEF Rung, Plain
<1>4. ~Experiment(q, s) /\ (RetiredRung(q, s) \/ s.context.retired) BY DEF Retired
<1> HIDE DEF s
<1>5. x = None
    <2> SUFFICES ASSUME x # None PROVE FALSE OBVIOUS
    <2>1. /\ q.effort # None /\ IsRetired(v, p, q.effort) /\ q.ref = "experiment"
          /\ Matches(q.marker, p, q.effort)
        BY DEF Matches
    <2>2. RetiredEffort(q, s) = q.effort BY <1>3, <2>1 DEF RetiredEffort
    <2>3. <<p, q.effort>> \in RetiredRungs(v) BY <2>1 DEF IsRetired, RetiredRungs
    <2>4. QED BY <1>2, <1>4, <2>1, <2>2, <2>3 DEF Experiment, RetiredRung
<1>6. d.candidates = Live(own) /\ \A r \in d.candidates : r \in v.rows /\ ~r.retired /\ r.profile = p
    <2>1. \A r \in d.candidates : r \in v.rows /\ ~r.retired /\ r.profile = p
        BY <1>1, <1>5, CandidatesAre
    <2>2. d.candidates \subseteq Live(own) BY <2>1 DEF Live, RowsOf
    <2>3. Live(own) \subseteq d.candidates
        <3>1. Live(own) = RowsOf(Live(v.rows), p) BY DEF Live, RowsOf
        <3>2. QED BY <1>1, <3>1, CandidatesAre
    <2>4. QED BY <2>1, <2>2, <2>3
<1>7. offers \subseteq d.candidates BY DEF Offers
<1>8. own # {} => d.rows = offers /\ offers # {} BY <1>1 DEF NoRows, Rows
<1>9. ASSUME <<p, Resolved(d)>> \in RetiredRungs(v) PROVE RungRetired(Settled(d))
    <2> DEFINE e == Resolved(d)
    <2>1. PICK t \in v.rows : t.retired /\ Key(t) = <<p, e>> BY <1>9 DEF RetiredRungs
    <2>2. t \in own BY <2>1 DEF RowsOf, Key
    <2>3. IsRetired(v, p, e) BY <2>1 DEF IsRetired
    <2> HIDE DEF e
    <2>4. {r \in d.rows : r.effort = e} = {}
        <3> SUFFICES ASSUME NEW r \in d.rows, r.effort = e PROVE FALSE OBVIOUS
        <3>1. r \in v.rows /\ ~r.retired /\ r.profile = p BY <1>6, <1>7, <1>8, <2>2
        <3>2. Key(r) = Key(t) BY <2>1, <3>1 DEF Key
        <3>3. r = t BY <2>1, <3>1, <3>2 DEF Sighted, Catalog
        <3>4. QED BY <2>1, <3>1, <3>3
    <2>5. OwnRow(d, e) = {} BY <1>1, <2>3, <2>4 DEF OwnRow
    <2>6. Settled(d) = Found(d, e, {}) BY <2>5 DEF Settled, e
    <2>7. LET f == Settled(d) IN f.own = {} /\ f.ask = d.ask /\ f.resolved = e
        BY <2>6 DEF Found
    <2>8. QED BY <1>1, <2>3, <2>7 DEF RungRetired
<1>10. ~s.context.retired
    <2> SUFFICES ASSUME s.context.retired PROVE FALSE OBVIOUS
    <2>1. own # {} /\ Live(own) = {} BY <1>2, ContextIs
    <2>2. offers = {} BY <1>6, <1>7, <2>1
    <2>3. QED BY <1>8, <2>1, <2>2
<1>11. <<p, RetiredEffort(q, s)>> \in RetiredRungs(v) BY <1>2, <1>4, <1>10 DEF RetiredRung
<1>12. PICK t \in v.rows : t.retired /\ t.profile = p /\ t.effort = RetiredEffort(q, s)
    BY <1>11 DEF RetiredRungs, Key
<1>13. own # {} BY <1>12 DEF RowsOf
<1>14. Resolved(d) = RetiredEffort(q, s)
    <2>1. CASE q.effort # None BY <1>1, <1>3, <2>1 DEF Resolved, RetiredEffort
    <2>2. CASE q.effort = None
        <3> DEFINE rows == {r \in Live(own) : r.gate = "consult_only" \/ ~UnmeasuredRow(r, Bundle)}
        <3>1. RetiredEffort(q, s) = s.context.resolved BY <1>3, <2>2 DEF RetiredEffort
        <3>2. s.context.resolved = IF rows = {} THEN None ELSE DefaultEffort(p, rows).shown
            <4> DEFINE c == PolicyContext(q, World(v, Bundle))
            <4>1. s.context = c /\ ~c.retired BY <1>2, <1>10
            <4>2. (q.effort = None /\ Plain(q) /\ ~c.retired) =>
                     c.resolved = IF rows = {} THEN None ELSE DefaultEffort(p, rows).shown
                BY ONLY ContextIs
            <4> HIDE DEF c, rows
            <4>3. QED BY <2>2, <4>1, <4>2
        <3>3. ~d.open BY <1>1, <2>2 DEF E6Open, Matches
        <3>4. offers = rows BY <1>6, <2>2, <3>3 DEF Offers
        <3>5. d.rows = rows /\ rows # {} BY <1>8, <1>13, <3>4
        <3> HIDE DEF rows
        <3>6. Resolved(d) = DefaultEffort(p, rows).shown BY <1>1, <2>2, <3>5 DEF Resolved
        <3>7. QED BY <3>1, <3>2, <3>5, <3>6
    <2>3. QED BY <2>1, <2>2
<1>15. QED BY <1>9, <1>11, <1>14

------------------------------------------------------------------------------
(* What the gate admits, at the launcher, and the closed rest.             *)
\* What is admitted, no refusal of the gate holds of.
LEMMA AdmittedBy ==
    ASSUME NEW q, NEW w, Admission(q, w) = "admitted"
    PROVE  LET s == Situation(q, w) IN
           /\ ~Barred(q, s) /\ ~RoleRestricted(q, s) /\ ~Unsubscribed(q, s) /\ ~BadAudit(q, s)
           /\ ~CreditUnnamed(q, s) /\ ~CreditUnplaced(q, s) /\ ~CreditSeat(q, s) /\ ~Retired(q, s)
           /\ ~E6Unmarked(q, s) /\ ~ConsultUnasked(q, s) /\ ~E6OnlyUnmarked(q, s)
<1> DEFINE s == Situation(q, w)
<1>1. Holding(q, s) = {} BY FirstHolds
<1> HIDE DEF s
<1>2. QED BY <1>1, RefusalsInOrder DEF s

\* A launch that does not resolve is refused by the first refusal that holds.
LEMMA FirstAtLaunch ==
    ASSUME NEW d
    PROVE  LET f == Settled(d)
               why == Verdict(d)
           IN \/ why = "resolved"
              \/ why = "barred" /\ LaunchBarred(d)
              \/ why = "role" /\ LaunchRole(d.ask.q)
              \/ why = "ref" /\ ~RefValid(d.ask.q.ref)
              \/ why = "credit_rung" /\ CreditRung(d.ask)
              \/ why = "row_barred" /\ RowBarred(d)
              \/ why = "e6_required" /\ ArmUnmarked(d)
              \/ why = "no_rows" /\ NoRows(d) /\ ~ArmUnmarked(d)
              \/ /\ ~NoRows(d)
                 /\ \/ why = "retired" /\ RungRetired(f)
                    \/ why = "e6_fallback" /\ ArmFallback(f)
                    \/ why = "seat" /\ LaunchSeat(f)
                    \/ why = "unsubscribed" /\ LaunchUnsubscribed(f.ask.q)
                    \/ /\ why = "consult_only" /\ LaunchConsult(f)
                       /\ ~RungRetired(f) /\ ~ArmFallback(f)
                    \/ why = "stale" /\ StaleGate(f)
<1> DEFINE early == {i \in DOMAIN RequestOrder : RequestRefuses(RequestOrder[i], d)}
           late == {i \in DOMAIN LaunchOrder : LaunchRefuses(LaunchOrder[i], Settled(d))}
<1>1. Verdict(d) = IF early # {} THEN FirstOf(RequestOrder, early)
                   ELSE IF late # {} THEN FirstOf(LaunchOrder, late) ELSE "resolved"
    BY DEF Verdict
<1>2. early \subseteq 1 .. 7 /\ late \subseteq 1 .. 6 BY DEF RequestOrder, LaunchOrder
<1>3. /\ 1 \in early <=> LaunchBarred(d)
      /\ 2 \in early <=> LaunchRole(d.ask.q)
      /\ 3 \in early <=> ~RefValid(d.ask.q.ref)
      /\ 4 \in early <=> CreditRung(d.ask)
      /\ 5 \in early <=> RowBarred(d)
      /\ 6 \in early <=> ArmUnmarked(d)
      /\ 7 \in early <=> NoRows(d)
    <2>1. /\ RequestRefuses("barred", d) <=> LaunchBarred(d)
          /\ RequestRefuses("role", d) <=> LaunchRole(d.ask.q)
          /\ RequestRefuses("ref", d) <=> ~RefValid(d.ask.q.ref)
          /\ RequestRefuses("credit_rung", d) <=> CreditRung(d.ask)
          /\ RequestRefuses("row_barred", d) <=> RowBarred(d)
          /\ RequestRefuses("e6_required", d) <=> ArmUnmarked(d)
          /\ RequestRefuses("no_rows", d) <=> NoRows(d)
        BY DEF RequestRefuses
    <2>2. QED BY <2>1 DEF RequestOrder
<1>4. /\ 1 \in late <=> RungRetired(Settled(d))
      /\ 2 \in late <=> ArmFallback(Settled(d))
      /\ 3 \in late <=> LaunchSeat(Settled(d))
      /\ 4 \in late <=> LaunchUnsubscribed(Settled(d).ask.q)
      /\ 5 \in late <=> LaunchConsult(Settled(d))
      /\ 6 \in late <=> StaleGate(Settled(d))
    <2>1. /\ LaunchRefuses("retired", Settled(d)) <=> RungRetired(Settled(d))
          /\ LaunchRefuses("e6_fallback", Settled(d)) <=> ArmFallback(Settled(d))
          /\ LaunchRefuses("seat", Settled(d)) <=> LaunchSeat(Settled(d))
          /\ LaunchRefuses("unsubscribed", Settled(d)) <=> LaunchUnsubscribed(Settled(d).ask.q)
          /\ LaunchRefuses("consult_only", Settled(d)) <=> LaunchConsult(Settled(d))
          /\ LaunchRefuses("stale", Settled(d)) <=> StaleGate(Settled(d))
        BY DEF LaunchRefuses
    <2>2. QED BY <2>1 DEF LaunchOrder
<1> HIDE DEF early, late
<1>5. ASSUME NEW order, NEW holding \in SUBSET Nat, holding # {}
      PROVE  \E i \in holding : FirstOf(order, holding) = order[i] /\ \A j \in holding : i <= j
    <2>1. \E i \in holding : \A j \in holding : i <= j BY <1>5, LeastExists
    <2>2. QED BY <2>1 DEF FirstOf
<1>6. CASE early # {}
    <2>1. PICK i \in early : Verdict(d) = RequestOrder[i] /\ \A j \in early : i <= j
        BY <1>1, <1>2, <1>5, <1>6
    <2>2. 6 \in early => i # 7 BY <2>1
    <2>3. i \in 1 .. 7 BY <1>2, <2>1
    <2>4. /\ RequestOrder[1] = "barred" /\ RequestOrder[2] = "role" /\ RequestOrder[3] = "ref"
          /\ RequestOrder[4] = "credit_rung" /\ RequestOrder[5] = "row_barred"
          /\ RequestOrder[6] = "e6_required" /\ RequestOrder[7] = "no_rows"
        BY DEF RequestOrder
    <2>5. i \in {1, 2, 3, 4, 5, 6, 7} BY <2>3
    <2>6. QED BY <1>3, <2>1, <2>2, <2>4, <2>5
<1>7. CASE early = {} /\ late # {}
    <2>1. PICK i \in late : Verdict(d) = LaunchOrder[i] /\ \A j \in late : i <= j
        BY <1>1, <1>2, <1>5, <1>7
    <2>2. i = 5 => ~(1 \in late) /\ ~(2 \in late) BY <2>1
    <2>3. /\ LaunchOrder[1] = "retired" /\ LaunchOrder[2] = "e6_fallback" /\ LaunchOrder[3] = "seat"
          /\ LaunchOrder[4] = "unsubscribed" /\ LaunchOrder[5] = "consult_only"
          /\ LaunchOrder[6] = "stale"
        BY DEF LaunchOrder
    <2>4. i \in {1, 2, 3, 4, 5, 6} BY <1>2, <2>1
    <2>5. ~NoRows(d) BY <1>3, <1>7
    <2>6. QED BY <1>4, <2>1, <2>2, <2>3, <2>4, <2>5
<1>8. CASE early = {} /\ late = {} BY <1>1, <1>8
<1>9. QED BY <1>6, <1>7, <1>8

\* A row of the table is a placed row of the view, or one of the code's for a
\* profile the view does not mention.
LEMMA TableRows ==
    ASSUME NEW v, Sighted(v), NEW r \in World(v, Bundle).table
    PROVE  \/ r \in v.rows /\ ~r.retired /\ ~UnmeasuredRow(r, Bundle)
           \/ r \in CodeTable(Bundle) /\ RowsOf(v.rows, r.profile) = {}
<1> DEFINE table == World(v, Bundle).table
<1>1. table = RuntimeTable(v, Bundle) BY DEF World
<1>2. CASE v.source \in {"server", "cache", "cache-stale"} /\ v.rows # {}
    <2>1. table = CatalogTable(v.rows, Bundle) BY <1>1, <1>2 DEF RuntimeTable
    <2> HIDE DEF table
    <2>2. \/ r \in Placed(v.rows, Bundle)
          \/ r \in CodeTable(Bundle) /\ r.profile \notin {t.profile : t \in v.rows}
        BY <2>1 DEF CatalogTable, table
    <2>3. QED BY <2>2 DEF Placed, Live, RowsOf
<1>3. CASE ~(v.source \in {"server", "cache", "cache-stale"} /\ v.rows # {})
    <2>1. r \in CodeTable(Bundle) BY <1>1, <1>3 DEF RuntimeTable
    <2>2. v.rows = {} \/ v.rows = Bundle BY <1>3 DEF Sighted
    <2>3. CASE v.rows = {} BY <2>1, <2>3 DEF RowsOf
    <2>4. CASE v.rows = Bundle
        <3>1. r \in Bundle /\ Key(r) \notin Arms BY <2>1 DEF CodeTable
        <3>2. ~r.retired BY <3>1, TablesAssumption
        <3>3. r \in RowsOf(CodeTable(Bundle), r.profile) BY <2>1 DEF RowsOf
        <3>4. ~UnmeasuredRow(r, Bundle)
            BY <3>1, <3>3 DEF UnmeasuredRow, UnmeasuredKey, E6Only, InTable, Key
        <3>5. QED BY <2>4, <3>1, <3>2, <3>4
    <2>5. QED BY <2>2, <2>3, <2>4
<1>4. QED BY <1>2, <1>3

\* A placed row of a view puts its profile into the table.
LEMMA TableCovers ==
    ASSUME NEW v, Sighted(v), NEW r \in v.rows, ~r.retired, r.gate # "consult_only",
           r.profile \notin BundledConsult \cup Trials, ~UnmeasuredRow(r, Bundle)
    PROVE  RowsOf(World(v, Bundle).table, r.profile) # {}
<1> DEFINE table == World(v, Bundle).table
<1>1. table = RuntimeTable(v, Bundle) BY DEF World
<1>2. CASE v.source \in {"server", "cache", "cache-stale"} /\ v.rows # {}
    <2>1. table = CatalogTable(v.rows, Bundle) BY <1>1, <1>2 DEF RuntimeTable
    <2> HIDE DEF table
    <2> DEFINE placed == Placed(v.rows, Bundle)
    <2>2. r \in placed BY DEF Placed, Live
    <2>3. \A t \in placed : t.effort # NoEffort => t \in table BY <2>1 DEF CatalogTable
    <2>4. r \in table \/ \E t \in placed : t.profile = r.profile /\ t.effort # NoEffort
        BY <2>1, <2>2 DEF CatalogTable
    <2> HIDE DEF placed
    <2>5. \E t \in table : t.profile = r.profile BY <2>3, <2>4
    <2>6. QED BY <2>5 DEF RowsOf, table
<1>3. CASE ~(v.source \in {"server", "cache", "cache-stale"} /\ v.rows # {})
    <2>1. v.rows = Bundle BY <1>3 DEF Sighted
    <2>2. Key(r) \notin Arms
        <3> SUFFICES ASSUME Key(r) \in Arms PROVE FALSE OBVIOUS
        <3>1. r.grade = Carrier[Key(r)] BY <2>1, TablesAssumption
        <3>2. r.grade = CarrierGrade(r.profile, r.effort) BY <3>1 DEF CarrierGrade, Key
        <3>3. QED BY <3>2 DEF UnmeasuredRow, UnmeasuredKey, Key
    <2>3. r \in CodeTable(Bundle) BY <2>1, <2>2 DEF CodeTable
    <2>4. r \in table BY <1>1, <1>3, <2>3 DEF RuntimeTable
    <2> HIDE DEF table
    <2>5. QED BY <2>4 DEF RowsOf, table
<1>4. QED BY <1>2, <1>3

\* What is drawn for any request.
Drawn_(d, q, v, x) ==
    LET p == Canonical(q.name)
        offers == Offers(p, Bundle, d.candidates, d.open)
    IN /\ d.ask.q = q /\ d.ask.p = p /\ d.ask.view = v /\ d.ask.bundle = Bundle
       /\ d.ask.effort = IF x # None THEN x ELSE Named(q, Bundle)
       /\ d.open = E6Open(q, d.ask.effort)
       /\ d.candidates = Candidates(p, v, x)
       /\ d.fromBundle = (offers = {})
       /\ d.rows = Rows(p, Bundle, offers, d.ask.effort, d.open)

LEMMA AnyDraws ==
    ASSUME NEW q \in RequestForms, NEW v
    PROVE  Drawn_(Request(q, v, Bundle), q, v, ExperimentEffort(q, v, Named(q, Bundle)))
<1> DEFINE p == Canonical(q.name)
           x == ExperimentEffort(q, v, Named(q, Bundle))
           a == Asked(q, v, Bundle, x, Named(q, Bundle))
           o == Opened(a)
           d == Drawn(o)
<1>1. Request(q, v, Bundle) = d BY DEF Request
<1> HIDE DEF x
<1>2. /\ a.q = q /\ a.p = p /\ a.view = v /\ a.bundle = Bundle /\ a.experiment = x
      /\ a.effort = IF x # None THEN x ELSE Named(q, Bundle)
    BY DEF Asked
<1> HIDE DEF a, p
<1>3. /\ o.ask = a /\ o.open = E6Open(a.q, a.effort)
      /\ o.candidates = Candidates(a.p, a.view, a.experiment)
    BY DEF Opened
<1> HIDE DEF o
<1>4. LET offers == Offers(a.p, a.bundle, o.candidates, o.open)
      IN /\ d.ask = a /\ d.open = o.open /\ d.candidates = o.candidates
         /\ d.fromBundle = (offers = {})
         /\ d.rows = Rows(a.p, a.bundle, offers, a.effort, o.open)
    BY <1>3 DEF Drawn
<1> HIDE DEF d
<1>5. Drawn_(d, q, v, x) BY <1>2, <1>3, <1>4 DEF Drawn_, p
<1>6. QED BY <1>1, <1>5 DEF x

\* A plain request runs a retired rung again: the one experiment.
Reruns(q, v) ==
    /\ q.effort # None /\ IsRetired(v, Canonical(q.name), q.effort)
    /\ q.ref = "experiment" /\ Matches(q.marker, Canonical(q.name), q.effort)
Rerun(q, v) == IF Reruns(q, v) THEN q.effort ELSE None

LEMMA RerunIs ==
    ASSUME NEW q \in RequestForms, NEW v, Plain(q)
    PROVE  /\ Named(q, Bundle) = q.effort
           /\ ExperimentEffort(q, v, q.effort) = Rerun(q, v)
           /\ Experiment(q, Situation(q, World(v, Bundle))) <=> Reruns(q, v)
<1> DEFINE p == Canonical(q.name)
           s == Situation(q, World(v, Bundle))
<1>1. Named(q, Bundle) = q.effort BY DEF Named, Plain
<1>2. q.effort = None => \A e : ~Matches(q.marker, p, e) BY DEF Plain, Matches, Names_, Marker
<1>3. ExperimentEffort(q, v, q.effort) = Rerun(q, v)
    BY <1>2 DEF ExperimentEffort, Rerun, Reruns, Plain
<1>4. s.view = v BY DEF Situation, World
<1>5. Rung(q) = q.effort BY DEF Rung, Plain
<1> HIDE DEF s
<1>6. ASSUME q.effort = None PROVE Experiment(q, s) <=> Reruns(q, v)
    BY <1>2, <1>6 DEF Experiment, Reruns
<1>7. ASSUME q.effort # None PROVE Experiment(q, s) <=> Reruns(q, v)
    <2>1. RetiredEffort(q, s) = q.effort BY <1>5, <1>7 DEF RetiredEffort
    <2>2. RetiredRung(q, s) <=> IsRetired(v, p, q.effort)
        BY <1>4, <2>1 DEF RetiredRung, RetiredRungs, IsRetired
    <2>3. QED BY <1>7, <2>1, <2>2 DEF Experiment, Reruns
<1>8. QED BY <1>1, <1>3, <1>6, <1>7 DEF s

\* A plain request and what is drawn for it.
Faces(d, q, v) ==
    /\ Sighted(v) /\ q \in RequestForms /\ q.effort # NoEffort /\ Plain(q)
    /\ Drawn_(d, q, v, Rerun(q, v))

LEMMA FacesIs ==
    ASSUME NEW d, NEW q, NEW v, Faces(d, q, v)
    PROVE  LET p == Canonical(q.name)
               own == RowsOf(v.rows, p)
               offers == Offers(p, Bundle, d.candidates, d.open)
           IN /\ d.ask.q = q /\ d.ask.p = p /\ d.ask.view = v /\ d.ask.bundle = Bundle
              /\ d.ask.effort = q.effort /\ d.open = E6Open(q, q.effort)
              /\ d.fromBundle = (offers = {}) /\ d.rows = Rows(p, Bundle, offers, q.effort, d.open)
              /\ Rung(q) = q.effort
              /\ \A r \in d.candidates :
                    \/ r \in own /\ ~r.retired
                    \/ Reruns(q, v) /\ r.gate = "consult_only"
              /\ \A r \in own : ~r.retired => r \in d.candidates
              /\ Reruns(q, v) => own # {} /\ \E r \in d.candidates :
                                    r.gate = "consult_only" /\ r.profile = p /\ r.effort = q.effort
              /\ ~NoRows(d) => IF own # {} THEN offers # {} /\ d.rows = offers
                               ELSE offers = {} /\ d.rows # {}
<1> DEFINE p == Canonical(q.name)
           own == RowsOf(v.rows, p)
           offers == Offers(p, Bundle, d.candidates, d.open)
           x == Rerun(q, v)
<1>1. Sighted(v) /\ q \in RequestForms /\ Plain(q) BY DEF Faces
<1>2. Named(q, Bundle) = q.effort BY <1>1, RerunIs
<1>3. (IF x # None THEN x ELSE q.effort) = q.effort BY DEF Rerun
<1>4. /\ d.ask.q = q /\ d.ask.p = p /\ d.ask.view = v /\ d.ask.bundle = Bundle
      /\ d.ask.effort = q.effort /\ d.open = E6Open(q, q.effort)
      /\ d.candidates = Candidates(p, v, x)
      /\ d.fromBundle = (offers = {}) /\ d.rows = Rows(p, Bundle, offers, q.effort, d.open)
    BY <1>2, <1>3 DEF Faces, Drawn_
<1>5. Rung(q) = q.effort BY <1>1 DEF Rung, Plain
<1>6. x # None => Reruns(q, v) BY DEF Rerun
<1>7. Reruns(q, v) => x = q.effort /\ x # None BY DEF Rerun, Reruns
<1> HIDE DEF x
<1>8. \A r \in d.candidates : (r \in own /\ ~r.retired) \/ (Reruns(q, v) /\ r.gate = "consult_only")
    BY <1>1, <1>4, <1>6, CandidatesAre DEF RowsOf
<1>9. \A r \in own : ~r.retired => r \in d.candidates BY <1>4 DEF Candidates, RowsOf, Live
<1>10. ASSUME Reruns(q, v)
       PROVE  own # {} /\ \E r \in d.candidates :
                 r.gate = "consult_only" /\ r.profile = p /\ r.effort = q.effort
    <2>1. PICK t \in v.rows : t.retired /\ Key(t) = <<p, q.effort>> BY <1>10 DEF Reruns, IsRetired
    <2>2. t \in RowForms BY <1>1 DEF Sighted, Catalog
    <2>3. t.profile = p /\ t.effort = q.effort BY <2>1 DEF Key
    <2> DEFINE r == [t EXCEPT !.gate = "consult_only", !.retired = FALSE]
    <2>4. r.gate = "consult_only" /\ r.profile = p /\ r.effort = q.effort
        BY <2>2, <2>3 DEF RowForms
    <2>5. r \in d.candidates BY <1>4, <1>7, <1>10, <2>1 DEF Candidates
    <2>6. t \in own BY <2>1, <2>3 DEF RowsOf
    <2> HIDE DEF r
    <2>7. QED BY <2>4, <2>5, <2>6
<1>11. ASSUME ~NoRows(d)
       PROVE  IF own # {} THEN offers # {} /\ d.rows = offers ELSE offers = {} /\ d.rows # {}
    <2>1. offers \subseteq d.candidates BY DEF Offers
    <2> HIDE DEF offers
    <2>2. CASE own # {} BY <1>4, <1>11, <2>2 DEF NoRows, Rows
    <2>3. CASE own = {}
        <3>1. d.candidates = {} BY <1>8, <1>10, <2>3
        <3>2. offers = {} BY <2>1, <3>1
        <3>3. QED BY <1>4, <1>11, <2>3, <3>2 DEF NoRows
    <2>4. QED BY <2>2, <2>3
<1>12. QED BY <1>4, <1>5, <1>8, <1>9, <1>10, <1>11

\* A named effort is none of the default row, and an arm's profile neither an
\* astra nor kept for consultation by its name.
LEMMA ArmKinds ==
    ASSUME NEW q \in RequestForms, NEW a \in Arms, a[1] = Canonical(q.name)
    PROVE  LET p == Canonical(q.name) IN
           /\ p \notin BundledConsult \cup Trials \cup Astra \cup Fable
           /\ q.name \notin Astra \cup Fable
<1> DEFINE p == Canonical(q.name)
<1>1. p \notin BundledConsult \cup Trials \cup Astra \cup Fable BY TablesAssumption
<1>2. q.name \in Names BY DEF RequestForms
<1>3. /\ q.name \in Astra <=> p \in Astra
      /\ q.name \in Fable <=> p \in Fable
    BY <1>2, TablesAssumption
<1>4. QED BY <1>1, <1>3

\* A live, unmeasured row of a placed profile is refused without its marker.
LEMMA ArmRefused ==
    ASSUME NEW v, Sighted(v), NEW q \in RequestForms, q.effort # None,
           NEW r \in v.rows, Key(r) = <<Canonical(q.name), q.effort>>,
           ~r.retired, r.gate # "consult_only", UnmeasuredRow(r, Bundle),
           ~E6Only(Canonical(q.name), CodeTable(Bundle)),
           ~Matches(q.marker, Canonical(q.name), q.effort)
    PROVE  E6Unmarked(q, Situation(q, World(v, Bundle)))
<1> DEFINE p == Canonical(q.name)
           table == World(v, Bundle).table
           s == Situation(q, World(v, Bundle))
<1>1. Rung(q) = q.effort BY DEF Rung
<1>2. r.profile = p /\ r.effort = q.effort BY DEF Key
<1>3. <<p, q.effort>> \in Arms BY <1>2 DEF UnmeasuredRow, UnmeasuredKey
<1>4. p \notin Astra \cup Fable /\ q.name \notin Fable
    <2>1. <<p, q.effort>>[1] = p OBVIOUS
    <2>2. QED BY <1>3, <2>1, ArmKinds
<1>5. s.row = {t \in RowsOf(table, p) : t.effort = q.effort} /\ s.view = v
    BY <1>1 DEF Situation, RungRow, World
<1> HIDE DEF s
<1>6. s.row = {}
    <2> SUFFICES ASSUME NEW t \in table, t.profile = p, t.effort = q.effort PROVE FALSE
        BY <1>5 DEF RowsOf
    <2>1. r \in RowsOf(v.rows, t.profile) BY <1>2 DEF RowsOf
    <2>2. t \in v.rows /\ ~UnmeasuredRow(t, Bundle) BY <2>1, TableRows
    <2>3. Key(t) = Key(r) BY <1>2 DEF Key
    <2>4. t = r BY <2>2, <2>3 DEF Sighted, Catalog
    <2>5. QED BY <2>2, <2>4
<1>7. ~ConsultByCatalog(q, s)
    <2>1. ConsultEffort(q, s) = q.effort /\ RetiredEffort(q, s) = q.effort
        BY <1>1 DEF ConsultEffort, RetiredEffort
    <2>2. <<p, q.effort>> \notin ConsultRungs(v)
        <3> SUFFICES ASSUME NEW t \in v.rows, Key(t) = <<p, q.effort>>, t.gate = "consult_only"
                     PROVE  FALSE
            BY DEF ConsultRungs, Live
        <3>1. t = r BY DEF Sighted, Catalog
        <3>2. QED BY <3>1
    <2>3. <<p, q.effort>> \notin RetiredRungs(v)
        <3> SUFFICES ASSUME NEW t \in v.rows, Key(t) = <<p, q.effort>>, t.retired PROVE FALSE
            BY DEF RetiredRungs
        <3>1. t = r BY DEF Sighted, Catalog
        <3>2. QED BY <3>1
    <2>4. QED BY <1>4, <1>5, <2>1, <2>2, <2>3 DEF ConsultByCatalog, Experiment, RetiredRung
<1>8. E6Row(q, s) BY <1>1, <1>3, <1>6, <1>7 DEF E6Row
<1>9. ~E6Admitted(q, s) BY <1>1 DEF E6Admitted
<1>10. QED BY <1>8, <1>9 DEF E6Unmarked, s

\* What is admitted is no barred model, but on a row the gate's table leaves out.
LEMMA BarredAdmitted ==
    ASSUME NEW v, Sighted(v), NEW q, NEW x, NEW d, Drawn_(d, q, v, x),
           Admission(q, World(v, Bundle)) = "admitted", LaunchBarred(d) \/ RowBarred(d)
    PROVE  \E r \in RowsOf(v.rows \cup Bundle, Canonical(q.name)) :
              r.barred /\ r \notin World(v, Bundle).table
<1> DEFINE p == Canonical(q.name)
           table == World(v, Bundle).table
<1>1. /\ d.ask.q = q /\ d.ask.p = p /\ d.ask.bundle = Bundle
      /\ d.candidates = Candidates(p, v, x)
    BY DEF Drawn_
<1>2. q.name \notin BarredNames /\ \A r \in RowsOf(table, p) : ~r.barred
    <2>1. Situation(q, World(v, Bundle)).table = table BY DEF Situation
    <2>2. ~Barred(q, Situation(q, World(v, Bundle))) BY AdmittedBy
    <2>3. QED BY <2>1, <2>2 DEF Barred
<1>3. CASE LaunchBarred(d)
    <2>1. PICK r \in RowsOf(CodeTable(Bundle), p) : r.barred BY <1>1, <1>2, <1>3 DEF LaunchBarred
    <2>2. r \in RowsOf(v.rows \cup Bundle, p) BY <2>1 DEF RowsOf, CodeTable
    <2>3. r \in table => r \in RowsOf(table, p) BY <2>1 DEF RowsOf
    <2>4. QED BY <1>2, <2>1, <2>2, <2>3
<1>4. CASE RowBarred(d)
    <2>1. PICK r \in Candidates(p, v, x) : r.barred BY <1>1, <1>4 DEF RowBarred
    <2>2. CASE r \in RowsOf(Live(v.rows), p)
        <3>1. r \in RowsOf(v.rows \cup Bundle, p) BY <2>2 DEF RowsOf, Live
        <3>2. r \in table => r \in RowsOf(table, p) BY <2>2 DEF RowsOf
        <3>3. QED BY <1>2, <2>1, <3>1, <3>2
    <2>3. CASE r \notin RowsOf(Live(v.rows), p)
        <3>1. PICK t \in v.rows : /\ Key(t) = <<p, x>> /\ t.retired
                                  /\ r = [t EXCEPT !.gate = "consult_only", !.retired = FALSE]
            BY <2>1, <2>3 DEF Candidates
        <3>2. t \in RowForms BY DEF Sighted, Catalog
        <3>3. t.barred BY <2>1, <3>1, <3>2 DEF RowForms
        <3>4. t.profile = p BY <3>1 DEF Key
        <3>5. t \in RowsOf(v.rows, t.profile) BY DEF RowsOf
        <3>6. t \notin table BY <3>1, <3>5, TableRows
        <3>7. t \in RowsOf(v.rows \cup Bundle, p) BY <3>4 DEF RowsOf
        <3>8. QED BY <3>3, <3>6, <3>7
    <2>4. QED BY <2>2, <2>3
<1>5. QED BY <1>3, <1>4

\* Nor is it a rung that wants a marker, of a profile the code has placed.
LEMMA ArmAdmitted ==
    ASSUME NEW v, Sighted(v), NEW q \in RequestForms, NEW d,
           Drawn_(d, q, v, ExperimentEffort(q, v, Named(q, Bundle))),
           Admission(q, World(v, Bundle)) = "admitted",
           ~E6Only(Canonical(q.name), CodeTable(Bundle))
    PROVE  ~ArmUnmarked(d)
<1> DEFINE p == Canonical(q.name)
           x == ExperimentEffort(q, v, Named(q, Bundle))
<1> SUFFICES ASSUME ArmUnmarked(d) PROVE FALSE OBVIOUS
<1>1. Named(q, Bundle) = q.effort BY DEF Named
<1>2. x # None => IsRetired(v, p, x) BY DEF ExperimentEffort
<1> HIDE DEF x
<1>3. /\ d.ask.q = q /\ d.ask.p = p /\ d.ask.view = v /\ d.ask.bundle = Bundle
      /\ d.ask.effort = IF x # None THEN x ELSE q.effort
      /\ d.open = E6Open(q, d.ask.effort) /\ d.candidates = Candidates(p, v, x)
    BY <1>1 DEF Drawn_, x
<1>4. /\ ~d.open
      /\ \E r \in d.candidates : /\ r.effort = d.ask.effort /\ r.gate # "consult_only"
                                 /\ UnmeasuredRow(r, Bundle)
    BY <1>3 DEF ArmUnmarked
<1>5. PICK r \in d.candidates : /\ r.effort = d.ask.effort /\ r.gate # "consult_only"
                                /\ UnmeasuredRow(r, Bundle)
    BY <1>4
<1>6. r \in v.rows /\ ~r.retired /\ r.profile = p BY <1>3, <1>5, CandidatesAre
<1>7. x = None
    <2> SUFFICES ASSUME x # None PROVE FALSE OBVIOUS
    <2>1. PICK t \in v.rows : t.retired /\ Key(t) = <<p, x>> BY <1>2 DEF IsRetired
    <2>2. Key(r) = Key(t) BY <1>3, <1>5, <1>6, <2>1 DEF Key
    <2>3. r = t BY <1>6, <2>1, <2>2 DEF Sighted, Catalog
    <2>4. QED BY <1>6, <2>1, <2>3
<1>8. r.effort = q.effort /\ ~E6Open(q, q.effort) BY <1>3, <1>4, <1>5, <1>7
<1>9. q.effort # None
    <2>1. r.effort \in Efforts BY <1>6 DEF Sighted, Catalog, RowForms
    <2>2. QED BY <1>8, <2>1, RequestAssumption
<1>10. Key(r) = <<p, q.effort>> BY <1>6, <1>8 DEF Key
<1>11. <<p, q.effort>> \in Arms BY <1>5, <1>6, <1>8 DEF UnmeasuredRow, UnmeasuredKey
<1>12. ~Matches(q.marker, p, q.effort) BY <1>8, <1>11 DEF E6Open
<1>13. E6Unmarked(q, Situation(q, World(v, Bundle)))
    BY <1>5, <1>6, <1>9, <1>10, <1>12, ArmRefused
<1>14. QED BY <1>13, AdmittedBy

\* What is settled on.
LEMMA SettledIs ==
    ASSUME NEW d, NEW q, NEW v, Faces(d, q, v)
    PROVE  LET f == Settled(d)
               named == {r \in d.rows : r.effort = q.effort}
           IN /\ f.ask = d.ask /\ f.drawn = d /\ f.resolved = Resolved(d)
              /\ f.own = OwnRow(d, Resolved(d)) /\ f.row = LaunchRow(d, f.own)
              /\ q.effort # None => f.resolved = q.effort
              /\ (q.effort # None /\ named # {}) => f.own = named /\ f.row = named
              /\ (/\ q.effort # None /\ named = {}
                  /\ ~d.open \/ IsRetired(v, Canonical(q.name), q.effort)) => f.own = {}
<1> DEFINE f == Settled(d)
           own == OwnRow(d, Resolved(d))
           named == {r \in d.rows : r.effort = q.effort}
<1>1. d.ask.effort = q.effort /\ d.ask.view = v /\ d.ask.p = Canonical(q.name) BY FacesIs
<1>2. f = Found(d, Resolved(d), own) BY DEF Settled
<1> HIDE DEF own, f
<1>3. /\ f.ask = d.ask /\ f.drawn = d /\ f.resolved = Resolved(d)
      /\ f.own = own /\ f.row = LaunchRow(d, f.own)
    BY <1>2 DEF Found
<1>4. q.effort # None => Resolved(d) = q.effort BY <1>1 DEF Resolved
<1>5. q.effort # None => own = OwnRow(d, q.effort) BY <1>4 DEF own
<1>6. (q.effort # None /\ named # {}) => own = named BY <1>5 DEF OwnRow
<1>7. (q.effort # None /\ named # {}) => LaunchRow(d, own) = named BY <1>6 DEF LaunchRow
<1>8. (/\ q.effort # None /\ named = {}
       /\ ~d.open \/ IsRetired(v, Canonical(q.name), q.effort)) => own = {}
    BY <1>1, <1>5 DEF OwnRow
<1>9. QED BY <1>3, <1>4, <1>6, <1>7, <1>8 DEF own, f

\* A profile the gate has no place for, and no row for consultation, is not
\* judged as one kept for consultation.
LEMMA Unplaced ==
    ASSUME NEW d, NEW q, NEW v, Faces(d, q, v),
           E6Only(Canonical(q.name), World(v, Bundle).table),
           \A r \in d.candidates : r.gate # "consult_only"
    PROVE  ~Consult(q, Situation(q, World(v, Bundle)))
<1> DEFINE p == Canonical(q.name)
           s == Situation(q, World(v, Bundle))
<1>1. Sighted(v) /\ q \in RequestForms /\ Plain(q) BY DEF Faces
<1>2. p \notin Astra \cup Fable /\ q.name \notin Fable
    <2>1. PICK a \in Arms : a[1] = p BY DEF E6Only
    <2>2. QED BY <1>1, <2>1, ArmKinds
<1>3. RowsOf(World(v, Bundle).table, p) = {} BY DEF E6Only, InTable
<1>4. s.row = {} /\ s.found = {} /\ s.view = v
    BY <1>3 DEF Situation, RungRow, FoundRow, World
<1>5. ~Experiment(q, s)
    <2>1. Experiment(q, s) <=> Reruns(q, v) BY <1>1, RerunIs
    <2>2. QED BY <2>1, FacesIs
<1> HIDE DEF s
<1>6. \A e : <<p, e>> \notin ConsultRungs(v)
    <2> SUFFICES ASSUME NEW t \in v.rows, ~t.retired, t.gate = "consult_only", t.profile = p
                 PROVE  FALSE
        BY DEF ConsultRungs, Live, Key
    <2>1. t \in RowsOf(v.rows, p) BY DEF RowsOf
    <2>2. t \in d.candidates BY <2>1, FacesIs
    <2>3. QED BY <2>2
<1>7. ~ConsultByCatalog(q, s) BY <1>2, <1>4, <1>5, <1>6 DEF ConsultByCatalog
<1>8. QED BY <1>4, <1>7 DEF Consult, s

\* If it passes the gate, an arm of it is open.
LEMMA UnplacedOpen ==
    ASSUME NEW d, NEW q, NEW v, Faces(d, q, v),
           E6Only(Canonical(q.name), World(v, Bundle).table),
           \A r \in d.candidates : r.gate # "consult_only",
           ~E6OnlyUnmarked(q, Situation(q, World(v, Bundle)))
    PROVE  d.open
<1> DEFINE p == Canonical(q.name)
           s == Situation(q, World(v, Bundle))
<1>1. ~Consult(q, s) BY Unplaced
<1>2. s.table = World(v, Bundle).table BY DEF Situation
<1> HIDE DEF s
<1>3. E6Admitted(q, s) BY <1>1, <1>2 DEF E6OnlyUnmarked, s
<1>4. Rung(q) = q.effort /\ d.open = E6Open(q, q.effort) BY FacesIs
<1>5. QED BY <1>3, <1>4 DEF E6Admitted, E6Row, E6Open

\* What the gate admits has a row, unless nobody has one of its profile.
LEMMA RowsAdmitted ==
    ASSUME NEW d, NEW q, NEW v, Faces(d, q, v), Admission(q, World(v, Bundle)) = "admitted",
           NoRows(d), ~ArmUnmarked(d)
    PROVE  RowsOf(v.rows \cup Bundle, Canonical(q.name)) = {}
<1> DEFINE p == Canonical(q.name)
           own == RowsOf(v.rows, p)
           offers == Offers(p, Bundle, d.candidates, d.open)
           bundled == BundleRows(Bundle, p)
           table == World(v, Bundle).table
           s == Situation(q, World(v, Bundle))
<1>1. Sighted(v) /\ q \in RequestForms /\ Plain(q) BY DEF Faces
<1>2. ~Retired(q, s) /\ ~E6OnlyUnmarked(q, s) BY AdmittedBy
<1>3. Experiment(q, s) <=> Reruns(q, v) BY <1>1, RerunIs
<1>4. s.context.retired <=> own # {} /\ Live(own) = {}
    <2>1. s.context = PolicyContext(q, World(v, Bundle)) BY DEF Situation
    <2>2. QED BY <2>1, ContextIs
<1> HIDE DEF s
<1>5. /\ d.ask.p = p /\ d.ask.view = v /\ d.ask.bundle = Bundle
      /\ d.open = E6Open(q, q.effort)
      /\ d.fromBundle = (offers = {}) /\ d.rows = Rows(p, Bundle, offers, q.effort, d.open)
      /\ \A r \in d.candidates : (r \in own /\ ~r.retired) \/ (Reruns(q, v) /\ r.gate = "consult_only")
      /\ \A r \in own : ~r.retired => r \in d.candidates
      /\ Reruns(q, v) => own # {} /\ d.candidates # {}
    BY FacesIs
<1>6. offers = {} BY <1>5 DEF NoRows
<1>7. \A t \in RowsOf(table, p) :
         \/ t \in own /\ ~t.retired /\ ~UnmeasuredRow(t, Bundle)
         \/ t \in CodeTable(Bundle) /\ own = {} /\ t.profile = p
    BY <1>1, TableRows DEF RowsOf
<1>8. CASE own = {}
    <2>1. d.candidates = {} BY <1>5, <1>8
    <2>2. CASE v.source = "snapshot"
        <3>1. v.rows = Bundle BY <1>1, <2>2 DEF Sighted
        <3>2. QED BY <1>8, <3>1 DEF RowsOf
    <2>3. CASE v.source # "snapshot"
        <3>1. d.rows = {} BY <1>5, <1>8, <2>3 DEF NoRows
        <3>2. d.open => ArmRows(p, q.effort) # {} BY <1>5 DEF ArmRows, E6Open
        <3>3. bundled = {} /\ ~d.open BY <1>5, <1>6, <3>1, <3>2 DEF Rows
        <3> SUFFICES ASSUME NEW r \in RowsOf(v.rows \cup Bundle, p) PROVE FALSE OBVIOUS
        <3>4. r \in Bundle /\ r.profile = p BY <1>8 DEF RowsOf
        <3>5. Key(r) \in Arms BY <3>3, <3>4 DEF BundleRows, RowsOf
        <3>6. \E a \in Arms : a[1] = p BY <3>4, <3>5 DEF Key
        <3>7. RowsOf(table, p) = {}
            BY <1>7, <1>8, <3>3 DEF BundleRows, RowsOf, CodeTable
        <3>8. E6Only(p, table) BY <3>6, <3>7 DEF E6Only, InTable
        <3>9. QED BY <1>2, <2>1, <3>3, <3>8, UnplacedOpen DEF s
    <2>4. QED BY <2>2, <2>3
<1>9. CASE own # {}
    <2>1. CASE d.candidates = {}
        <3>1. Live(own) = {} BY <1>5, <2>1 DEF Live
        <3>2. ~Reruns(q, v) BY <1>5, <2>1
        <3>3. QED BY <1>2, <1>3, <1>4, <1>9, <3>1, <3>2 DEF Retired
    <2>2. CASE d.candidates # {}
        <3>1. /\ ~d.open
              /\ \A r \in d.candidates : UnmeasuredRow(r, Bundle)
              /\ \A r \in d.candidates : r.gate # "consult_only" \/ E6Only(p, CodeTable(Bundle))
            BY <1>6, <2>2 DEF Offers
        <3>2. ~E6Only(p, CodeTable(Bundle)) BY <1>5, <1>6, <1>9, <3>1 DEF ArmUnmarked
        <3>3. \A r \in d.candidates : r.gate # "consult_only" BY <3>1, <3>2
        <3>4. PICK r \in d.candidates : r \in own BY <1>5, <2>2, <3>3
        <3>5. Key(r) \in Arms /\ r.profile = p
            BY <3>1, <3>2, <3>4 DEF UnmeasuredRow, UnmeasuredKey, RowsOf, Key
        <3>6. \E a \in Arms : a[1] = p BY <3>5 DEF Key
        <3>7. RowsOf(table, p) = {} BY <1>5, <1>7, <1>9, <3>1
        <3>8. E6Only(p, table) BY <3>6, <3>7 DEF E6Only, InTable
        <3>9. QED BY <1>2, <3>1, <3>3, <3>8, UnplacedOpen DEF s
    <2>3. QED BY <2>1, <2>2
<1>10. QED BY <1>8, <1>9

\* What the launcher starts on without an effort is what the gate judges.
LEMMA SameStart ==
    ASSUME NEW d, NEW q, NEW v, Faces(d, q, v), q.effort = None, ~NoRows(d),
           RowsOf(v.rows, Canonical(q.name)) # {},
           ~E6Only(Canonical(q.name), CodeTable(Bundle))
    PROVE  LET s == Situation(q, World(v, Bundle)) IN
           ~s.context.retired /\ RetiredEffort(q, s) = Resolved(d)
<1> DEFINE p == Canonical(q.name)
           own == RowsOf(v.rows, p)
           offers == Offers(p, Bundle, d.candidates, d.open)
           s == Situation(q, World(v, Bundle))
           c == PolicyContext(q, World(v, Bundle))
           rows == {r \in Live(own) : r.gate = "consult_only" \/ ~UnmeasuredRow(r, Bundle)}
<1>1. s.context = c BY DEF Situation
<1>2. /\ d.ask.p = p /\ d.ask.effort = None /\ d.open = E6Open(q, q.effort)
      /\ Rung(q) = None /\ ~Reruns(q, v)
      /\ \A r \in d.candidates : (r \in own /\ ~r.retired) \/ Reruns(q, v)
      /\ \A r \in own : ~r.retired => r \in d.candidates
      /\ offers # {} /\ d.rows = offers
    <2>1. ~Reruns(q, v) BY DEF Reruns
    <2>2. QED BY <2>1, FacesIs
<1>3. d.candidates = Live(own) BY <1>2 DEF Live
<1>4. ~d.open BY <1>2 DEF E6Open, Matches
<1>5. offers = rows BY <1>3, <1>4 DEF Offers
<1>6. ~c.retired
    <2>1. Live(own) # {} BY <1>2, <1>3 DEF Offers
    <2>2. c.retired <=> own # {} /\ Live(own) = {} BY ONLY ContextIs
    <2>3. QED BY <2>1, <2>2
<1>7. c.resolved = IF rows = {} THEN None ELSE DefaultEffort(p, rows).shown
    <2>1. (q.effort = None /\ Plain(q) /\ ~c.retired) =>
             c.resolved = IF rows = {} THEN None ELSE DefaultEffort(p, rows).shown
        BY ONLY ContextIs
    <2>2. Plain(q) BY DEF Faces
    <2> HIDE DEF c, rows
    <2>3. QED BY <1>6, <2>1, <2>2
<1>8. Resolved(d) = DefaultEffort(p, d.rows).shown BY <1>2 DEF Resolved
<1>9. RetiredEffort(q, s) = s.context.resolved BY <1>2 DEF RetiredEffort
<1> HIDE DEF c, rows, s, offers
<1>10. QED BY <1>1, <1>2, <1>5, <1>6, <1>7, <1>8, <1>9 DEF s

\* What the gate admits is retired only where the code has nothing but arms.
LEMMA RetiredAdmitted ==
    ASSUME NEW d, NEW q, NEW v, Faces(d, q, v), Admission(q, World(v, Bundle)) = "admitted",
           ~NoRows(d), RungRetired(Settled(d))
    PROVE  E6Only(Canonical(q.name), CodeTable(Bundle))
<1> DEFINE p == Canonical(q.name)
           own == RowsOf(v.rows, p)
           offers == Offers(p, Bundle, d.candidates, d.open)
           s == Situation(q, World(v, Bundle))
           f == Settled(d)
<1> SUFFICES ASSUME ~E6Only(p, CodeTable(Bundle)) PROVE FALSE OBVIOUS
<1>1. Sighted(v) /\ q \in RequestForms /\ Plain(q) BY DEF Faces
<1>2. ~Retired(q, s) BY AdmittedBy
<1>3. Experiment(q, s) <=> Reruns(q, v) BY <1>1, RerunIs
<1>4. s.view = v BY DEF Situation, World
<1>5. /\ d.ask.p = p /\ d.ask.view = v /\ Rung(q) = q.effort
      /\ Reruns(q, v) => \E r \in d.candidates :
                            r.gate = "consult_only" /\ r.profile = p /\ r.effort = q.effort
      /\ own # {} => offers # {} /\ d.rows = offers
    BY FacesIs
<1>6. f.ask = d.ask /\ f.resolved = Resolved(d) BY SettledIs
<1>7. f.own = {} /\ IsRetired(v, p, Resolved(d)) BY <1>5, <1>6 DEF RungRetired
<1>8. own # {} BY <1>7 DEF IsRetired, RowsOf, Key
<1>9. <<p, Resolved(d)>> \in RetiredRungs(v) BY <1>7 DEF IsRetired, RetiredRungs
<1>10. CASE q.effort # None
    <2>1. Resolved(d) = q.effort BY <1>6, <1>10, SettledIs
    <2>2. RetiredEffort(q, s) = q.effort BY <1>5, <1>10 DEF RetiredEffort
    <2> HIDE DEF s, f
    <2>3. RetiredRung(q, s) BY <1>4, <1>9, <2>1, <2>2 DEF RetiredRung
    <2>4. Reruns(q, v) BY <1>2, <1>3, <2>3 DEF Retired, s
    <2>5. PICK r \in d.candidates : r.gate = "consult_only" /\ r.effort = q.effort BY <1>5, <2>4
    <2>6. r \in offers BY <2>5 DEF Offers
    <2>7. r \in {t \in d.rows : t.effort = q.effort} BY <1>5, <1>8, <2>5, <2>6
    <2>8. f.own # {} BY <1>10, <2>7, SettledIs DEF f
    <2>9. QED BY <1>7, <2>8
<1>11. CASE q.effort = None
    <2>1. RetiredEffort(q, s) = Resolved(d) BY <1>8, <1>11, SameStart
    <2> HIDE DEF s
    <2>2. RetiredRung(q, s) BY <1>4, <1>9, <2>1 DEF RetiredRung
    <2>3. ~Reruns(q, v) BY <1>11 DEF Reruns
    <2>4. QED BY <1>2, <1>3, <2>2, <2>3 DEF Retired, s
<1>12. QED BY <1>10, <1>11

\* The seat the gate allows is allowed at the launcher.
LEMMA SeatAdmitted ==
    ASSUME NEW d, NEW q, NEW v, Faces(d, q, v), Admission(q, World(v, Bundle)) = "admitted",
           ~NoRows(d)
    PROVE  ~LaunchSeat(Settled(d))
<1> DEFINE p == Canonical(q.name)
           own == RowsOf(v.rows, p)
           offers == Offers(p, Bundle, d.candidates, d.open)
           table == World(v, Bundle).table
           s == Situation(q, World(v, Bundle))
           f == Settled(d)
<1> SUFFICES ASSUME LaunchSeat(f) PROVE FALSE OBVIOUS
<1>1. Sighted(v) BY DEF Faces
<1>2. ~CreditUnnamed(q, s) /\ ~CreditUnplaced(q, s) /\ ~CreditSeat(q, s) BY AdmittedBy
<1>3. s.bundle = Bundle /\ s.row = {r \in RowsOf(table, p) : r.effort = Rung(q)}
    BY DEF Situation, RungRow, World
<1> HIDE DEF s
<1>4. /\ d.ask.q = q /\ d.ask.p = p /\ d.open = E6Open(q, q.effort) /\ Rung(q) = q.effort
      /\ d.rows = Rows(p, Bundle, offers, q.effort, d.open)
      /\ \A r \in own : ~r.retired => r \in d.candidates
      /\ own # {} => offers # {} /\ d.rows = offers
      /\ own = {} => offers = {}
    BY FacesIs
<1>5. f.ask = d.ask /\ f.drawn = d BY SettledIs
<1>6. p \in CreditProfiles
    BY <1>4, <1>5 DEF LaunchSeat, WorkerTesterDenied, PlacedSeatDenied, BuilderSeatDenied
<1>7. q.effort # None /\ q.effort \in CreditRungs(p, Bundle)
    BY <1>2, <1>3, <1>4, <1>6 DEF CreditUnnamed, CreditUnplaced, s
<1>8. ~d.open
    <2>1. <<p, q.effort>> \notin Arms BY <1>7, CreditRungIs
    <2>2. QED BY <1>4, <2>1 DEF E6Open
<1>9. PlacedSeatDenied(p, q.role) \/ BuilderSeatDenied(p, q.role, f.own)
    BY <1>4, <1>5, <1>8 DEF LaunchSeat, OpenedArm
<1>10. ~PlacedSeatDenied(p, q.role) /\ ~BuilderSeatDenied(p, q.role, s.row)
    BY <1>2 DEF CreditSeat, s
<1>11. q.role = "builder" /\ ~\E r \in f.own : r.gate = "default"
    BY <1>9, <1>10 DEF BuilderSeatDenied
<1>12. PICK t \in RowsOf(table, p) : t.effort = q.effort /\ t.gate = "default"
    BY <1>3, <1>4, <1>6, <1>10, <1>11 DEF BuilderSeatDenied
<1>13. t.profile = p /\ t \in table BY <1>12 DEF RowsOf
<1>14. t \in d.rows
    <2>1. CASE t \in v.rows /\ ~t.retired /\ ~UnmeasuredRow(t, Bundle)
        <3>1. t \in own BY <1>13, <2>1 DEF RowsOf
        <3>2. t \in offers BY <1>4, <2>1, <3>1 DEF Offers
        <3>3. QED BY <1>4, <3>1, <3>2
    <2>2. CASE t \in CodeTable(Bundle) /\ RowsOf(v.rows, t.profile) = {}
        <3>1. t \in BundleRows(Bundle, p) BY <1>13, <2>2 DEF BundleRows, CodeTable, RowsOf
        <3>2. own = {} BY <1>13, <2>2
        <3>3. d.rows = BundleRows(Bundle, p) BY <1>4, <1>8, <3>2 DEF Rows
        <3>4. QED BY <3>1, <3>3
    <2>3. QED BY <1>1, <1>13, <2>1, <2>2, TableRows
<1>15. t \in {r \in d.rows : r.effort = q.effort} BY <1>12, <1>14
<1>16. t \in f.own BY <1>7, <1>15, SettledIs
<1>17. QED BY <1>11, <1>12, <1>16

\* A rung that is in view is kept for consultation by both or by neither.
LEMMA ConsultAdmitted ==
    ASSUME NEW d, NEW q, NEW v, Faces(d, q, v), Admission(q, World(v, Bundle)) = "admitted",
           ~NoRows(d), LaunchConsult(Settled(d)), ~RungRetired(Settled(d)), ~ArmFallback(Settled(d))
    PROVE  <<Canonical(q.name), Rung(q)>> \notin {Key(r) : r \in v.rows}
<1> DEFINE p == Canonical(q.name)
           own == RowsOf(v.rows, p)
           offers == Offers(p, Bundle, d.candidates, d.open)
           s == Situation(q, World(v, Bundle))
           f == Settled(d)
           named == {r \in d.rows : r.effort = q.effort}
<1> SUFFICES ASSUME NEW k \in v.rows, Key(k) = <<p, Rung(q)>> PROVE FALSE OBVIOUS
<1>1. Sighted(v) /\ q \in RequestForms BY DEF Faces
<1>2. ~RoleRestricted(q, s) /\ ~ConsultUnasked(q, s) /\ ~E6Unmarked(q, s) BY AdmittedBy
<1>3. s.view = v BY DEF Situation, World
<1> HIDE DEF s
<1>4. /\ d.ask.q = q /\ d.ask.p = p /\ d.ask.view = v /\ d.ask.bundle = Bundle
      /\ d.open = E6Open(q, q.effort) /\ Rung(q) = q.effort
      /\ \A r \in d.candidates : (r \in own /\ ~r.retired) \/ (Reruns(q, v) /\ r.gate = "consult_only")
      /\ \A r \in own : ~r.retired => r \in d.candidates
      /\ own # {} => d.rows = offers
    BY FacesIs
<1>5. k.profile = p /\ k.effort = q.effort /\ Key(k) = <<p, q.effort>> BY <1>4 DEF Key
<1>6. q.effort # None
    <2>1. k.effort \in Efforts BY <1>1 DEF Sighted, Catalog, RowForms
    <2>2. QED BY <1>5, <2>1, RequestAssumption
<1>7. k \in own /\ d.rows = offers BY <1>4, <1>5 DEF RowsOf
<1>8. f.ask = d.ask BY SettledIs
<1>9. PICK r \in f.row : r.gate = "consult_only" /\ ~ConsultSatisfied(p, q.ref, q.purpose)
    BY <1>4, <1>8 DEF LaunchConsult
<1>10. p \notin Astra
    <2> SUFFICES ASSUME p \in Astra PROVE FALSE OBVIOUS
    <2>1. q.name \in Names BY <1>1 DEF RequestForms
    <2>2. q.name \in Astra /\ (q.name \in AstraSeats <=> p \in AstraSeats)
        BY <2>1, TablesAssumption
    <2>3. AstraPurposeAllowed(p, q.purpose, q.ref)
        BY <1>2, <2>2 DEF RoleRestricted, AstraPurposeAllowed, s
    <2>4. ~RoundExtension(q.purpose) => AstraPurposeAllowed(p, q.purpose, None)
        BY <2>3 DEF AstraPurposeAllowed
    <2>5. QED BY <1>9, <2>3, <2>4 DEF ConsultSatisfied
<1>11. q.ref = None BY <1>9, <1>10 DEF ConsultSatisfied
<1>12. ~Consult(q, s) BY <1>2, <1>11 DEF ConsultUnasked, s
<1>13. <<p, q.effort>> \notin ConsultRungs(v)
    <2>1. ConsultEffort(q, s) = q.effort BY <1>4, <1>6 DEF ConsultEffort
    <2>2. QED BY <1>3, <1>10, <1>12, <2>1 DEF Consult, ConsultByCatalog
<1>14. CASE named # {}
    <2>1. f.row = named BY <1>6, <1>14, SettledIs
    <2>2. r \in offers /\ r.effort = q.effort BY <1>7, <1>9, <2>1
    <2>3. r \in own /\ ~r.retired
        <3>1. "experiment" # None BY RequestAssumption
        <3>2. ~Reruns(q, v) BY <1>11, <3>1 DEF Reruns
        <3>3. QED BY <1>4, <2>2, <3>2 DEF Offers
    <2>4. r \in v.rows /\ Key(r) = <<p, q.effort>> BY <2>2, <2>3 DEF RowsOf, Key
    <2>5. <<p, q.effort>> \in ConsultRungs(v) BY <1>9, <2>3, <2>4 DEF ConsultRungs, Live
    <2>6. QED BY <1>13, <2>5
<1>15. CASE named = {}
    <2>1. ~k.retired
        <3> SUFFICES ASSUME k.retired PROVE FALSE OBVIOUS
        <3>1. IsRetired(v, p, q.effort) BY <1>5 DEF IsRetired
        <3>2. f.own = {} /\ f.resolved = q.effort BY <1>6, <1>15, <3>1, SettledIs
        <3>3. QED BY <1>4, <1>8, <3>1, <3>2 DEF RungRetired
    <2>2. k \in d.candidates /\ k \notin offers BY <1>4, <1>5, <1>7, <1>15, <2>1
    <2>3. ~d.open BY <2>2 DEF Offers
    <2>4. f.own = {} BY <1>6, <1>15, <2>3, SettledIs
    <2>5. ~E6Only(p, CodeTable(Bundle)) BY <1>4, <1>8, <2>4 DEF ArmFallback
    <2>6. k.gate # "consult_only" /\ UnmeasuredRow(k, Bundle) BY <2>2, <2>5 DEF Offers
    <2>7. <<p, q.effort>> \in Arms BY <1>5, <2>5, <2>6 DEF UnmeasuredRow, UnmeasuredKey
    <2>8. ~Matches(q.marker, p, q.effort) BY <1>4, <2>3, <2>7 DEF E6Open
    <2>9. E6Unmarked(q, s) BY <1>1, <1>5, <1>6, <2>1, <2>5, <2>6, <2>8, ArmRefused DEF s
    <2>10. QED BY <1>2, <2>9
<1>16. QED BY <1>14, <1>15

\* Some rows have a best grade.
LEMMA BestExists ==
    ASSUME NEW rows \in SUBSET RowForms, rows # {}
    PROVE  BestOf(rows) \subseteq rows /\ BestOf(rows) # {}
<1> DEFINE grades == {r.grade : r \in rows}
<1>1. \A r \in RowForms : r.grade \in Nat BY TablesAssumption DEF RowForms
<1>2. grades \in SUBSET Nat /\ grades # {} BY <1>1
<1>3. PICK g \in grades : \A h \in grades : g <= h BY <1>2, LeastExists
<1>4. PICK r \in rows : r.grade = g BY <1>3
<1>5. r \in BestOf(rows) BY <1>3, <1>4 DEF BestOf
<1>6. QED BY <1>5 DEF BestOf

\* A rung to start on by default is one of the rows it is chosen from, one with
\* the default gate where there is any; it may be reported as the preferred one.
LEMMA StartExists ==
    ASSUME NEW p, NEW rows \in SUBSET RowForms, rows # {}
    PROVE  LET start == DefaultEffort(p, rows)
           IN \E r \in rows : /\ r.effort = start.row
                              /\ (\E t \in rows : t.gate = "default") => r.gate = "default"
                              /\ start.shown \in {r.effort, PreferredOf(p)}
<1> DEFINE ordinary == {r \in rows : r.gate = "default"}
           pool == IF ordinary # {} THEN ordinary ELSE rows
           best == BestOf(pool)
           preferred == PreferredOf(p)
           start == DefaultEffort(p, rows)
<1>1. start =
         IF preferred # NoEffort /\ \E r \in ordinary : r.effort = preferred
         THEN [row |-> preferred, shown |-> preferred]
         ELSE IF \E r \in best : r.effort = NoEffort
         THEN [row |-> NoEffort, shown |-> preferred]
         ELSE [row |-> Cheapest(best).effort, shown |-> Cheapest(best).effort]
    BY DEF DefaultEffort
<1>2. /\ pool \subseteq rows /\ pool # {}
      /\ \A r \in pool : (\E t \in rows : t.gate = "default") => r.gate = "default"
    OBVIOUS
<1>3. \A r \in RowForms : r.effort \in Efforts BY DEF RowForms
<1>4. best \subseteq pool /\ best # {}
    <2> HIDE DEF pool
    <2>1. pool \in SUBSET RowForms BY <1>2
    <2>2. QED BY <1>2, <2>1, BestExists
<1>5. \A r \in ordinary : r \in rows /\ r.gate = "default" OBVIOUS
<1> HIDE DEF best, pool, ordinary, start, preferred
<1>6. Cheapest(best) \in best
    <2> DEFINE ranks == {Rank(r.effort) : r \in best}
    <2>1. \A e \in Efforts : Rank(e) \in Nat
        <3> SUFFICES ASSUME NEW e \in Efforts, e # NoEffort PROVE Rank(e) \in Nat BY DEF Rank
        <3>1. \E i \in DOMAIN Ladder : Ladder[i] = e BY DEF Efforts
        <3>2. DOMAIN Ladder \subseteq Nat BY TablesAssumption
        <3>3. QED BY <3>1, <3>2 DEF Rank
    <2>2. ranks \in SUBSET Nat /\ ranks # {} BY <1>2, <1>3, <1>4, <2>1
    <2>3. PICK n \in ranks : \A m \in ranks : n <= m BY <2>2, LeastExists
    <2>4. \E r \in best : \A t \in best : Rank(r.effort) <= Rank(t.effort) BY <2>3
    <2>5. QED BY <2>4 DEF Cheapest
<1>7. \E r \in rows : /\ r.effort = start.row
                      /\ (\E t \in rows : t.gate = "default") => r.gate = "default"
                      /\ start.shown \in {r.effort, preferred}
    <2>1. CASE preferred # NoEffort /\ \E r \in ordinary : r.effort = preferred
        <3>1. PICK r \in ordinary : r.effort = preferred BY <2>1
        <3>2. start.row = preferred /\ start.shown = preferred BY <1>1, <2>1
        <3>3. QED BY <1>5, <3>1, <3>2
    <2>2. CASE /\ ~(preferred # NoEffort /\ \E r \in ordinary : r.effort = preferred)
               /\ \E r \in best : r.effort = NoEffort
        <3>1. PICK r \in best : r.effort = NoEffort BY <2>2
        <3>2. start.row = NoEffort /\ start.shown = preferred BY <1>1, <2>2
        <3>3. QED BY <1>2, <1>4, <3>1, <3>2
    <2>3. CASE /\ ~(preferred # NoEffort /\ \E r \in ordinary : r.effort = preferred)
               /\ ~\E r \in best : r.effort = NoEffort
        <3>1. start.row = Cheapest(best).effort /\ start.shown = Cheapest(best).effort
            BY <1>1, <2>3
        <3>2. QED BY <1>2, <1>4, <1>6, <3>1
    <2>4. QED BY <2>1, <2>2, <2>3
<1>8. QED BY <1>7 DEF start, preferred

\* A profile the gate finds nothing but arms of is not launched without one.
LEMMA E6OnlyAtLaunch ==
    ASSUME NEW d, NEW q, NEW v, Faces(d, q, v),
           E6OnlyUnmarked(q, Situation(q, World(v, Bundle))),
           ~NotApplicable(q, Situation(q, World(v, Bundle))), ~NoRows(d)
    PROVE  LaunchConsult(Settled(d))
<1> DEFINE p == Canonical(q.name)
           own == RowsOf(v.rows, p)
           offers == Offers(p, Bundle, d.candidates, d.open)
           table == World(v, Bundle).table
           s == Situation(q, World(v, Bundle))
           f == Settled(d)
<1>1. Sighted(v) /\ q \in RequestForms /\ Plain(q) BY DEF Faces
<1>2. s.table = table /\ s.row = RungRow(q, World(v, Bundle)) /\ s.found = FoundRow(q, World(v, Bundle))
    BY DEF Situation
<1>3. Experiment(q, s) <=> Reruns(q, v) BY <1>1, RerunIs
<1> HIDE DEF s
<1>4. E6Only(p, table) /\ ~E6Admitted(q, s) /\ ~Consult(q, s) BY <1>2 DEF E6OnlyUnmarked, s
<1>5. p \notin BundledConsult \cup Trials \cup Astra \cup Fable /\ q.name \notin Astra
    <2>1. PICK a \in Arms : a[1] = p BY <1>4 DEF E6Only
    <2>2. QED BY <1>1, <2>1, ArmKinds
<1>6. RowsOf(table, p) = {} BY <1>4 DEF E6Only, InTable
<1>7. s.row = {} /\ s.found = {} BY <1>2, <1>6 DEF RungRow, FoundRow, World
<1>8. /\ d.ask.q = q /\ d.ask.p = p /\ d.open = E6Open(q, q.effort) /\ Rung(q) = q.effort
      /\ d.rows = Rows(p, Bundle, offers, q.effort, d.open)
      /\ \A r \in d.candidates : (r \in own /\ ~r.retired) \/ Reruns(q, v)
      /\ IF own # {} THEN offers # {} /\ d.rows = offers ELSE offers = {} /\ d.rows # {}
    BY FacesIs
<1>9. ~d.open
    <2> SUFFICES ASSUME d.open PROVE FALSE OBVIOUS
    <2>1. <<p, q.effort>> \in Arms /\ Matches(q.marker, p, q.effort) BY <1>8 DEF E6Open
    <2>2. E6Row(q, s) BY <1>2, <1>4, <1>7, <1>8, <2>1 DEF E6Row
    <2>3. QED BY <1>4, <1>8, <2>1, <2>2 DEF E6Admitted
<1>10. q.ref = None
    <2>1. Judged(q, s) = {} BY <1>4, <1>7 DEF Judged
    <2>2. QED BY <1>4, <1>5, <2>1 DEF NotApplicable, s
<1>11. own # {}
    <2> SUFFICES ASSUME own = {} PROVE FALSE OBVIOUS
    <2>1. BundleRows(Bundle, p) # {} BY <1>8, <1>9 DEF Rows
    <2>2. PICK r \in CodeTable(Bundle) : r.profile = p
        BY <1>5, <2>1 DEF BundleRows, RowsOf, CodeTable
    <2>3. r \in table BY <1>1, <2>2, TableOf
    <2>4. QED BY <1>6, <2>2, <2>3 DEF RowsOf
<1>12. \A r \in offers : r \in v.rows /\ r.gate = "consult_only"
    <2>1. ~Reruns(q, v) BY <1>3, <1>4 DEF Consult, ConsultByCatalog
    <2> SUFFICES ASSUME NEW r \in offers PROVE r \in v.rows /\ r.gate = "consult_only" OBVIOUS
    <2>2. r \in v.rows /\ r.profile = p /\ ~r.retired
        BY <1>8, <2>1 DEF Offers, RowsOf
    <2>3. r.gate = "consult_only" \/ ~UnmeasuredRow(r, Bundle) BY <1>9 DEF Offers
    <2>4. QED BY <1>1, <1>5, <1>6, <2>2, <2>3, TableCovers
<1>13. f.ask = d.ask /\ f.own = OwnRow(d, Resolved(d)) /\ f.row = LaunchRow(d, f.own)
    BY SettledIs
<1> HIDE DEF f, offers
<1>14. d.rows = offers /\ offers # {} BY <1>8, <1>11
<1>15. \E r \in offers : r \in f.row
    <2>1. offers \in SUBSET RowForms BY <1>1, <1>12 DEF Sighted, Catalog
    <2>2. \E r \in offers : r.effort = DefaultEffort(p, offers).row BY <1>14, <2>1, StartExists
    <2>3. f.own \subseteq offers BY <1>9, <1>13, <1>14 DEF OwnRow
    <2>4. CASE f.own # {} BY <1>13, <2>3, <2>4 DEF LaunchRow
    <2>5. CASE f.own = {} BY <1>8, <1>13, <1>14, <2>2, <2>5 DEF LaunchRow
    <2>6. QED BY <2>4, <2>5
<1>16. ~ConsultSatisfied(p, q.ref, q.purpose) BY <1>5, <1>10 DEF ConsultSatisfied
<1>17. QED BY <1>8, <1>12, <1>13, <1>15, <1>16 DEF LaunchConsult, f

\* A profile nobody has a row of and nobody has a pool for is not launched.
LEMMA UnknownAtLaunch ==
    ASSUME NEW d, NEW q, NEW v, Faces(d, q, v),
           UnknownProfile(q, Situation(q, World(v, Bundle))),
           RowsOf(v.rows \cup Bundle, Canonical(q.name)) = {}
    PROVE  NoRows(d)
<1> DEFINE p == Canonical(q.name)
           own == RowsOf(v.rows, p)
           offers == Offers(p, Bundle, d.candidates, d.open)
           table == World(v, Bundle).table
           s == Situation(q, World(v, Bundle))
<1> SUFFICES ASSUME ~NoRows(d) PROVE FALSE OBVIOUS
<1>1. Sighted(v) /\ q \in RequestForms BY DEF Faces
<1>2. s.table = table /\ s.row = RungRow(q, World(v, Bundle)) BY DEF Situation
<1>3. own = {} /\ RowsOf(Bundle, p) = {} BY DEF RowsOf
<1>4. /\ d.open = E6Open(q, q.effort) /\ Rung(q) = q.effort
      /\ d.rows = Rows(p, Bundle, offers, q.effort, d.open)
      /\ \A r \in d.candidates : r \in own \/ Reruns(q, v)
      /\ Reruns(q, v) => own # {}
      /\ offers = {} /\ d.rows # {}
    BY <1>3, FacesIs
<1>5. d.open BY <1>3, <1>4 DEF Rows, BundleRows
<1>6. <<p, q.effort>> \in Arms /\ Matches(q.marker, p, q.effort) BY <1>4, <1>5 DEF E6Open
<1>7. RowsOf(table, p) = {} BY <1>1, <1>3, TableRows DEF RowsOf, CodeTable
<1>8. E6Only(p, table)
    <2>1. <<p, q.effort>>[1] = p OBVIOUS
    <2>2. QED BY <1>6, <1>7, <2>1 DEF E6Only, InTable
<1>9. ~Consult(q, s)
    <2>1. d.candidates = {} BY <1>3, <1>4
    <2>2. QED BY <1>8, <2>1, Unplaced
<1>10. s.row = {} BY <1>2, <1>7 DEF RungRow, World
<1> HIDE DEF s
<1>11. E6Admitted(q, s) BY <1>2, <1>4, <1>6, <1>8, <1>10 DEF E6Admitted, E6Row
<1>12. Judged(q, s) # {} BY <1>9, <1>11 DEF Judged
<1>13. QED BY <1>12 DEF UnknownProfile, s

\* Unmeasured rows for consultation are the worst placed: they change nothing
\* in what a profile that has nothing but arms in the code starts on.
LEMMA StartIsMeasured ==
    ASSUME NEW p, E6Only(p, CodeTable(Bundle)), NEW rows \in SUBSET RowForms,
           \A r \in rows : r.profile = p,
           \A r \in rows : r.gate = "consult_only" \/ ~UnmeasuredRow(r, Bundle),
           {r \in rows : ~UnmeasuredRow(r, Bundle)} # {}
    PROVE  DefaultEffort(p, rows) = DefaultEffort(p, {r \in rows : ~UnmeasuredRow(r, Bundle)})
<1> DEFINE measured == {r \in rows : ~UnmeasuredRow(r, Bundle)}
           ordinary == {r \in rows : r.gate = "default"}
           pool == IF ordinary # {} THEN ordinary ELSE rows
           pool2 == IF ordinary # {} THEN ordinary ELSE measured
           start(best) ==
              IF PreferredOf(p) # NoEffort /\ \E r \in ordinary : r.effort = PreferredOf(p)
              THEN [row |-> PreferredOf(p), shown |-> PreferredOf(p)]
              ELSE IF \E r \in best : r.effort = NoEffort
              THEN [row |-> NoEffort, shown |-> PreferredOf(p)]
              ELSE [row |-> Cheapest(best).effort, shown |-> Cheapest(best).effort]
<1>1. {r \in measured : r.gate = "default"} = ordinary OBVIOUS
<1>2. DefaultEffort(p, rows) = start(BestOf(pool)) BY DEF DefaultEffort
<1>3. DefaultEffort(p, measured) = start(BestOf(pool2)) BY <1>1 DEF DefaultEffort
<1>4. \A r \in rows : r.grade \in 0 .. Lowest BY DEF RowForms
<1>5. \A r \in rows : UnmeasuredRow(r, Bundle) <=> r.grade = Lowest
    <2> SUFFICES ASSUME NEW r \in rows PROVE UnmeasuredRow(r, Bundle) <=> r.grade = Lowest OBVIOUS
    <2>1. CarrierGrade(p, r.effort) = Lowest
        <3>1. CASE <<p, r.effort>> \in Arms
            <4>1. <<p, r.effort>>[1] = p OBVIOUS
            <4>2. Carrier[<<p, r.effort>>] = Lowest BY <3>1, <4>1, TablesAssumption
            <4>3. QED BY <3>1, <4>2 DEF CarrierGrade
        <3>2. QED BY <3>1 DEF CarrierGrade
    <2>2. QED BY <2>1 DEF UnmeasuredRow, UnmeasuredKey
<1>6. BestOf(pool) = BestOf(pool2)
    <2>1. CASE ordinary # {} BY <2>1
    <2>2. CASE ordinary = {}
        <3>1. PICK m \in measured : TRUE OBVIOUS
        <3>2. Lowest \in Nat BY TablesAssumption
        <3>3. \A r \in measured : r.grade < Lowest BY <1>4, <1>5, <3>2
        <3>4. \A r \in rows \ measured : r.grade = Lowest BY <1>5
        <3>5. BestOf(rows) \subseteq BestOf(measured)
            <4> SUFFICES ASSUME NEW r \in BestOf(rows) PROVE r \in BestOf(measured) OBVIOUS
            <4>1. r \in rows /\ \A t \in rows : r.grade <= t.grade BY DEF BestOf
            <4>2. r.grade <= m.grade /\ m.grade < Lowest BY <3>1, <3>3, <4>1
            <4>3. r \in measured BY <1>4, <3>2, <3>4, <4>1, <4>2
            <4>4. QED BY <4>1, <4>3 DEF BestOf
        <3>6. BestOf(measured) \subseteq BestOf(rows)
            <4> SUFFICES ASSUME NEW r \in BestOf(measured), NEW t \in rows PROVE r.grade <= t.grade
                BY DEF BestOf
            <4>1. r \in measured /\ \A u \in measured : r.grade <= u.grade BY DEF BestOf
            <4>2. CASE t \in measured BY <4>1, <4>2
            <4>3. CASE t \notin measured
                <5>1. t.grade = Lowest /\ r.grade < Lowest BY <3>3, <3>4, <4>1, <4>3
                <5>2. QED BY <1>4, <3>2, <4>1, <5>1
            <4>4. QED BY <4>2, <4>3
        <3>7. BestOf(rows) = BestOf(measured) BY <3>5, <3>6
        <3>8. pool = rows /\ pool2 = measured BY <2>2
        <3> HIDE DEF pool, pool2, measured
        <3>9. QED BY <3>7, <3>8
    <2>3. QED BY <2>1, <2>2
<1> HIDE DEF start, pool, pool2, measured
<1>7. QED BY <1>2, <1>3, <1>6 DEF measured

\* Nor is a bare spelling launched that would start on a retired rung.
LEMMA BareRetiredAtLaunch ==
    ASSUME NEW d, NEW q, NEW v, Faces(d, q, v), q.effort = None,
           Retired(q, Situation(q, World(v, Bundle))),
           E6Only(Canonical(q.name), CodeTable(Bundle)), ~NoRows(d)
    PROVE  ArmFallback(Settled(d))
<1> DEFINE p == Canonical(q.name)
           own == RowsOf(v.rows, p)
           offers == Offers(p, Bundle, d.candidates, d.open)
           s == Situation(q, World(v, Bundle))
           c == PolicyContext(q, World(v, Bundle))
           f == Settled(d)
           rows == {r \in Live(own) : r.gate = "consult_only" \/ ~UnmeasuredRow(r, Bundle)}
<1>1. Sighted(v) /\ Plain(q) BY DEF Faces
<1>2. s.context = c /\ s.view = v BY DEF Situation, World
<1>3. c.retired <=> own # {} /\ Live(own) = {} BY ONLY ContextIs
<1>4. (q.effort = None /\ Plain(q) /\ ~c.retired) =>
         c.resolved = IF rows = {} THEN None ELSE DefaultEffort(p, rows).shown
    BY ONLY ContextIs
<1>5. /\ d.ask.p = p /\ d.ask.bundle = Bundle /\ d.ask.effort = None
      /\ d.open = E6Open(q, q.effort) /\ Rung(q) = None /\ ~Reruns(q, v)
      /\ \A r \in d.candidates : (r \in own /\ ~r.retired) \/ Reruns(q, v)
      /\ \A r \in own : ~r.retired => r \in d.candidates
      /\ own # {} => offers # {} /\ d.rows = offers
    <2>1. ~Reruns(q, v) BY DEF Reruns
    <2>2. QED BY <2>1, FacesIs
<1>6. d.candidates = Live(own) BY <1>5 DEF Live
<1>7. ~d.open BY <1>5 DEF E6Open, Matches
<1>8. offers = {r \in Live(own) : ~UnmeasuredRow(r, Bundle)} BY <1>6, <1>7 DEF Offers
<1> HIDE DEF c, s, f
<1>9. ~c.retired BY <1>3, <1>5, <1>8
<1>10. PICK t \in v.rows : t.retired /\ Key(t) = <<p, c.resolved>>
    <2>1. RetiredEffort(q, s) = c.resolved BY <1>2, <1>5 DEF RetiredEffort
    <2>2. <<p, c.resolved>> \in RetiredRungs(v)
        BY <1>2, <1>9, <2>1 DEF Retired, RetiredRung, s
    <2>3. QED BY <2>2 DEF RetiredRungs
<1>11. t.profile = p /\ t.effort = c.resolved BY <1>10 DEF Key
<1>12. rows # {} /\ c.resolved = DefaultEffort(p, rows).shown
    <2>1. t.effort \in Efforts BY <1>1, <1>10 DEF Sighted, Catalog, RowForms
    <2>2. c.resolved # None BY <1>11, <2>1, RequestAssumption
    <2>3. QED BY <1>1, <1>4, <1>9, <2>2
<1>13. own # {} BY <1>10, <1>11 DEF RowsOf
<1>14. d.rows = offers /\ offers # {} BY <1>5, <1>13
<1>15. DefaultEffort(p, rows) = DefaultEffort(p, offers)
    <2>1. rows \in SUBSET RowForms BY <1>1 DEF Live, RowsOf, Sighted, Catalog
    <2>2. \A r \in rows : r.profile = p BY DEF Live, RowsOf
    <2>3. offers = {r \in rows : ~UnmeasuredRow(r, Bundle)} BY <1>8
    <2>4. \A r \in rows : r.gate = "consult_only" \/ ~UnmeasuredRow(r, Bundle) OBVIOUS
    <2> HIDE DEF rows, offers
    <2>5. QED BY <1>14, <2>1, <2>2, <2>3, <2>4, StartIsMeasured
<1> HIDE DEF rows
<1>16. Resolved(d) = c.resolved BY <1>5, <1>12, <1>14, <1>15 DEF Resolved
<1>17. {r \in d.rows : r.effort = c.resolved} = {}
    <2> SUFFICES ASSUME NEW r \in d.rows, r.effort = c.resolved PROVE FALSE OBVIOUS
    <2>1. r \in v.rows /\ ~r.retired /\ r.profile = p BY <1>8, <1>14 DEF Live, RowsOf
    <2>2. Key(r) = Key(t) BY <1>11, <2>1 DEF Key
    <2>3. r = t BY <1>1, <2>1, <2>2 DEF Sighted, Catalog
    <2>4. QED BY <1>10, <2>1, <2>3
<1>18. f.ask = d.ask /\ f.own = OwnRow(d, Resolved(d)) BY SettledIs DEF f
<1>19. f.own = {} BY <1>7, <1>16, <1>17, <1>18 DEF OwnRow
<1>20. QED BY <1>5, <1>18, <1>19 DEF ArmFallback, f

------------------------------------------------------------------------------
\* What a host knows is the canon, one before it or the bundle, and stays it.
LEMMA ViewsAreSighted ==
    ASSUME NEW v \in Views(canon, cached), Catalog(canon), Catalog(cached)
    PROVE  Sighted(v)
<1>1. Catalog(Bundle) BY CatalogAssumption DEF Catalog
<1>2. \/ v.rows = canon /\ v.source = "server"
      \/ v.rows = cached /\ v.source \in {"cache", "cache-stale"}
      \/ v.rows = Bundle
    BY DEF Views, View
<1>3. QED BY <1>1, <1>2 DEF Sighted

THEOREM SightedInductive == LaunchSpec => []SightedInv
<1>1. LaunchInit => SightedInv
    <2> SUFFICES ASSUME LaunchInit PROVE SightedInv OBVIOUS
    <2>1. AskedInv BY DEF LaunchInit, AskedInv
    <2>2. Catalog(Bundle) /\ Catalog(Bundle \ RowsOf(Bundle, subject))
        BY CatalogAssumption DEF Catalog
    <2>3. Catalog(canon) /\ Catalog(cached) BY <2>2 DEF LaunchInit
    <2>4. QED BY <2>1, <2>3 DEF LaunchInit, SightedInv
<1>2. SightedInv /\ AskedInv' /\ [LaunchNext]_launchVars => SightedInv'
    <2> SUFFICES ASSUME SightedInv, AskedInv', [LaunchNext]_launchVars PROVE SightedInv' OBVIOUS
    <2> USE DEF SightedInv
    <2>1. CASE Push
        <3>1. PICK row \in Pushable[subject] : canon' = Upsert(canon, row) BY <2>1 DEF Push
        <3>2. row \in RowForms BY <3>1, CatalogAssumption DEF AskedInv
        <3>3. Catalog(canon)'
            <4>1. canon' \subseteq RowForms BY <3>1, <3>2 DEF Upsert, Catalog
            <4>2. \A r, t \in canon' : Key(r) = Key(t) => r = t BY <3>1 DEF Upsert, Catalog
            <4>3. QED BY <4>1, <4>2 DEF Catalog
        <3>4. Catalog(cached)' BY <2>1 DEF Push, Catalog
        <3>5. view' = None /\ asked' = None BY <2>1 DEF Push, AskedInv
        <3>6. QED BY <3>3, <3>4, <3>5
    <2>2. CASE Serve
        <3>1. Catalog(canon)' /\ Catalog(cached)' BY <2>2 DEF Serve, Catalog
        <3>2. Sighted(view)' BY <2>2, ViewsAreSighted DEF Serve, Sighted, Catalog
        <3>3. asked' = asked BY <2>2 DEF Serve
        <3>4. QED BY <3>1, <3>2, <3>3
    <2>3. CASE Ask
        <3>1. Catalog(canon)' /\ Catalog(cached)' BY <2>3 DEF Ask, Catalog
        <3>2. view' = view BY <2>3 DEF Ask
        <3>3. view' # None => Sighted(view)' BY <3>2 DEF Sighted, Catalog
        <3>4. PICK q \in Requests[subject] :
                 asked' = Answers(q, Admission(q, World(view, Bundle)), Launch(q, view, Bundle))
            BY <2>3 DEF Ask
        <3>5. asked'.q = q BY <3>4 DEF Answers
        <3>6. q.effort # NoEffort BY RequestAssumption DEF AskedInv
        <3>7. QED BY <3>1, <3>3, <3>5, <3>6
    <2>4. CASE UNCHANGED launchVars
        BY <2>4 DEF launchVars, Sighted, Catalog
    <2>5. QED BY <2>1, <2>2, <2>3, <2>4 DEF LaunchNext
<1>3. QED BY <1>1, <1>2, AskedInductive, PTL DEF LaunchSpec

\* A plain request faces the launcher with its own effort.
LEMMA PlainFaces ==
    ASSUME NEW q \in RequestForms, NEW v, Sighted(v), Plain(q), q.effort # NoEffort
    PROVE  Faces(Request(q, v, Bundle), q, v)
<1>1. Named(q, Bundle) = q.effort /\ ExperimentEffort(q, v, q.effort) = Rerun(q, v) BY RerunIs
<1>2. Drawn_(Request(q, v, Bundle), q, v, ExperimentEffort(q, v, Named(q, Bundle))) BY AnyDraws
<1>3. QED BY <1>1, <1>2 DEF Faces

\* What the gate admits is launched, or is one of the exceptions.
LEMMA AdmittedAtLaunch == SightedInv => AdmittedLaunches
<1> SUFFICES ASSUME SightedInv, asked # None, asked.gate = "admitted", asked.launch # "resolved"
             PROVE  AdmittedLaunches
    BY DEF AdmittedLaunches
<1> DEFINE q == asked.q
           v == view
           p == Canonical(q.name)
           w == World(v, Bundle)
           s == Situation(q, w)
           x == ExperimentEffort(q, v, Named(q, Bundle))
           d == Request(q, v, Bundle)
           f == Settled(d)
           why == Verdict(d)
<1>1. /\ q \in RequestForms /\ Sighted(v) /\ q.effort # NoEffort
      /\ Admission(q, w) = "admitted" /\ asked.launch = why
    BY DEF SightedInv, AskedInv, Launch
<1>2. Drawn_(d, q, v, x) BY <1>1, AnyDraws
<1>3. Plain(q) => Faces(d, q, v) BY <1>1, PlainFaces
<1>4. /\ \/ why \in {"resolved", "stale"}
         \/ why = "barred" /\ LaunchBarred(d)
         \/ why = "role" /\ LaunchRole(d.ask.q)
         \/ why = "ref" /\ ~RefValid(d.ask.q.ref)
         \/ why = "credit_rung" /\ CreditRung(d.ask)
         \/ why = "row_barred" /\ RowBarred(d)
         \/ why = "e6_required" /\ ArmUnmarked(d)
         \/ why = "no_rows" /\ NoRows(d) /\ ~ArmUnmarked(d)
         \/ /\ ~NoRows(d)
            /\ \/ why = "retired" /\ RungRetired(f)
               \/ why = "e6_fallback" /\ ArmFallback(f)
               \/ why = "seat" /\ LaunchSeat(f)
               \/ why = "unsubscribed" /\ LaunchUnsubscribed(f.ask.q)
               \/ /\ why = "consult_only" /\ LaunchConsult(f)
                  /\ ~RungRetired(f) /\ ~ArmFallback(f)
      /\ f.ask = d.ask
    <2> HIDE DEF d
    <2>1. f.ask = d.ask BY DEF Settled, Found
    <2>2. QED BY <2>1, FirstAtLaunch
<1>5. d.ask.q = q /\ d.ask.p = p /\ d.ask.bundle = Bundle BY <1>2 DEF Drawn_
<1>6. /\ ~RoleRestricted(q, s) /\ ~Unsubscribed(q, s) /\ ~BadAudit(q, s)
      /\ ~CreditUnnamed(q, s) /\ ~CreditUnplaced(q, s)
    BY <1>1, AdmittedBy
<1>7. s.bundle = Bundle BY DEF Situation, World
<1> HIDE DEF d, f, s, why
<1>8. CASE why \in {"barred", "row_barred"}
    <2>1. LaunchBarred(d) \/ RowBarred(d) BY <1>4, <1>8
    <2>2. \E r \in RowsOf(v.rows \cup Bundle, p) : r.barred /\ r \notin World(v, Bundle).table
        BY <1>1, <1>2, <2>1, BarredAdmitted
    <2>3. BarUnseen(p) BY <2>2 DEF BarUnseen
    <2>4. QED BY <1>1, <1>8, <2>3 DEF AdmittedLaunches
<1>9. why # "role" BY <1>4, <1>5, <1>6 DEF LaunchRole, RoleRestricted
<1>10. why # "ref" BY <1>4, <1>5, <1>6 DEF BadAudit
<1>11. p \in CreditProfiles => q.effort # None /\ q.effort \in CreditRungs(p, Bundle)
    BY <1>6, <1>7 DEF CreditUnnamed, CreditUnplaced, Rung
<1>12. why # "credit_rung" BY <1>4, <1>5, <1>11 DEF CreditRung
<1>13. CASE why = "e6_required"
    <2>1. E6Only(p, CodeTable(Bundle)) BY <1>1, <1>2, <1>4, <1>13, ArmAdmitted
    <2>2. QED BY <1>1, <1>13, <2>1 DEF AdmittedLaunches
<1>14. CASE why = "e6_fallback"
    <2>1. E6Only(p, CodeTable(Bundle)) BY <1>4, <1>5, <1>14 DEF ArmFallback
    <2>2. QED BY <1>1, <1>14, <2>1 DEF AdmittedLaunches
<1>15. CASE why = "no_rows"
    <2>1. Plain(q) => RowsOf(v.rows \cup Bundle, p) = {}
        BY <1>1, <1>3, <1>4, <1>15, RowsAdmitted
    <2>2. Plain(q) => ~Catalogued(p) BY <2>1 DEF Catalogued
    <2>3. QED BY <1>1, <1>15, <2>2 DEF AdmittedLaunches
<1>16. CASE why = "retired"
    <2>1. Plain(q) => E6Only(p, CodeTable(Bundle))
        BY <1>1, <1>3, <1>4, <1>16, RetiredAdmitted DEF f
    <2>2. QED BY <1>1, <1>16, <2>1 DEF AdmittedLaunches
<1>17. why # "seat"
    <2> SUFFICES ASSUME why = "seat" PROVE FALSE OBVIOUS
    <2>1. ~NoRows(d) /\ LaunchSeat(f) BY <1>4
    <2>2. p \in CreditProfiles
        BY <1>4, <1>5, <2>1 DEF LaunchSeat, WorkerTesterDenied, PlacedSeatDenied, BuilderSeatDenied
    <2>3. Plain(q) BY <1>11, <2>2 DEF Plain
    <2>4. QED BY <1>1, <1>3, <2>1, <2>3, SeatAdmitted DEF f
<1>18. why # "unsubscribed" BY <1>4, <1>5, <1>6 DEF LaunchUnsubscribed, Unsubscribed
<1>19. CASE why = "consult_only"
    <2>1. ~NoRows(d) /\ LaunchConsult(f) /\ ~RungRetired(f) /\ ~ArmFallback(f) BY <1>4, <1>19
    <2>2. Plain(q) => <<p, Rung(q)>> \notin {Key(r) : r \in v.rows}
        BY <1>1, <1>3, <2>1, ConsultAdmitted DEF f
    <2>3. QED BY <1>1, <1>19, <2>2 DEF AdmittedLaunches
<1>20. CASE why = "stale" BY <1>1, <1>20 DEF AdmittedLaunches
<1>21. why # "resolved" BY <1>1 DEF why
<1>22. QED
    BY <1>4, <1>8, <1>9, <1>10, <1>12, <1>13, <1>14, <1>15, <1>16, <1>17, <1>18, <1>19, <1>20, <1>21

\* What the gate calls closed is not launched.
LEMMA ClosedAtLaunch == SightedInv => ClosedStaysClosed
<1> SUFFICES ASSUME SightedInv, asked # None, Plain(asked.q), asked.gate \in Closed,
                    asked.gate = "unknown" => ~Catalogued(Canonical(asked.q.name)),
                    asked.launch = "resolved"
             PROVE  FALSE
    BY DEF ClosedStaysClosed
<1> DEFINE q == asked.q
           v == view
           p == Canonical(q.name)
           w == World(v, Bundle)
           s == Situation(q, w)
           d == Request(q, v, Bundle)
<1>1. /\ q \in RequestForms /\ Sighted(v) /\ q.effort # NoEffort
      /\ asked.gate = Admission(q, w) /\ asked.launch = Launch(q, v, Bundle)
    BY DEF SightedInv, AskedInv
<1>2. Verdict(d) = "resolved" BY <1>1 DEF Launch
<1>3. Faces(d, q, v) BY <1>1, PlainFaces
<1>4. PICK x : /\ Draws(d, q, v, x)
               /\ x # None => /\ x = q.effort /\ IsRetired(v, p, x)
                              /\ q.ref = "experiment" /\ Matches(q.marker, p, x)
    BY <1>1, PlainDraws
<1> HIDE DEF d
<1>5. /\ ~LaunchBarred(d) /\ ~CreditRung(d.ask) /\ ~RowBarred(d) /\ ~NoRows(d)
      /\ ~RungRetired(Settled(d)) /\ ~ArmFallback(Settled(d)) /\ ~LaunchSeat(Settled(d))
      /\ ~LaunchUnsubscribed(Settled(d).ask.q) /\ ~LaunchConsult(Settled(d))
    BY <1>2, NoneRefused
<1>6. d.ask.q = q /\ d.ask.p = p /\ d.ask.bundle = Bundle BY <1>4 DEF Draws
<1>7. Rung(q) = q.effort BY DEF Rung, Plain
<1>8. ~Barred(q, s) BY <1>1, <1>4, <1>5, BarredAtLaunch
<1>9. ~Unsubscribed(q, s)
    <2>1. Settled(d).ask = d.ask BY DEF Settled, Found
    <2>2. QED BY <1>5, <1>6, <2>1 DEF LaunchUnsubscribed, Unsubscribed
<1>10. ~CreditUnnamed(q, s) /\ ~CreditUnplaced(q, s)
    <2>1. p \in CreditProfiles => q.effort \in CreditRungs(p, Bundle) BY <1>5, <1>6 DEF CreditRung
    <2>2. p \in CreditProfiles => q.effort # None BY <2>1, CreditRungIs, RequestAssumption
    <2>3. s.bundle = Bundle BY DEF Situation, World
    <2>4. QED BY <1>7, <2>1, <2>2, <2>3 DEF CreditUnnamed, CreditUnplaced
<1>11. ~CreditSeat(q, s) BY <1>1, <1>4, <1>5, SeatAtLaunch
<1>12. ~Retired(q, s)
    <2>1. CASE q.effort # None \/ ~E6Only(p, CodeTable(Bundle))
        BY <1>1, <1>4, <1>5, <2>1, RetiredAtLaunch
    <2>2. CASE q.effort = None /\ E6Only(p, CodeTable(Bundle))
        BY <1>3, <1>5, <2>2, BareRetiredAtLaunch
    <2>3. QED BY <2>1, <2>2
<1>13. ~E6Seat(q, s)
    <2> SUFFICES ASSUME E6Seat(q, s) PROVE FALSE OBVIOUS
    <2>1. <<p, q.effort>> \in Arms /\ p \in CreditProfiles
        BY <1>7 DEF E6Seat, E6Admitted, E6Row, WorkerTesterDenied
    <2>2. QED BY <1>5, <1>6, <2>1, CreditRungIs DEF CreditRung
<1>14. ~(~NotApplicable(q, s) /\ E6OnlyUnmarked(q, s)) BY <1>3, <1>5, E6OnlyAtLaunch
<1>15. asked.gate = "unknown" => ~UnknownProfile(q, s)
    BY <1>3, <1>5, UnknownAtLaunch DEF Catalogued
<1> HIDE DEF s, w, q
<1>16. QED
    BY <1>1, <1>8, <1>9, <1>10, <1>11, <1>12, <1>13, <1>14, <1>15, SaidByGate DEF Closed, s

\* A host's view is one its server or its build can give it, the catalog has
\* one row for a rung throughout, and what is asked is one of the requests.
THEOREM LaunchTyped == LaunchSpec => []LaunchTypeOK
<1>1. LaunchInit => LaunchTypeOK
    <2> SUFFICES ASSUME LaunchInit PROVE LaunchTypeOK OBVIOUS
    <2>1. pushes \in 0 .. MaxPushes BY CatalogAssumption DEF LaunchInit
    <2>2. QED BY <2>1, CatalogAssumption DEF LaunchInit, LaunchTypeOK
<1>2. SightedInv /\ SightedInv' /\ LaunchTypeOK /\ [LaunchNext]_launchVars => LaunchTypeOK'
    <2> SUFFICES ASSUME SightedInv, SightedInv', LaunchTypeOK, [LaunchNext]_launchVars
                 PROVE  LaunchTypeOK'
        OBVIOUS
    <2>1. (\A rows \in {canon, cached} : \A r, s \in rows : Key(r) = Key(s) => r = s)'
        BY DEF SightedInv, Catalog
    <2>2. subject' = subject /\ subject \in Subjects /\ pushes \in 0 .. MaxPushes
        BY DEF LaunchNext, Push, Serve, Ask, launchVars, LaunchTypeOK
    <2>3. CASE Push
        <3>1. pushes' \in 0 .. MaxPushes BY <2>2, <2>3, CatalogAssumption DEF Push
        <3>2. view' = None /\ asked' = None BY <2>3 DEF Push, SightedInv, AskedInv
        <3>3. QED BY <2>1, <2>2, <3>1, <3>2 DEF LaunchTypeOK
    <2>4. CASE Serve
        <3>1. view' \in Views(canon, cached)' /\ pushes' = pushes /\ asked' = asked
            BY <2>4 DEF Serve, Views
        <3>2. QED BY <2>1, <2>2, <3>1 DEF LaunchTypeOK
    <2>5. CASE Ask
        <3>1. PICK q \in Requests[subject] :
                 asked' = Answers(q, Admission(q, World(view, Bundle)), Launch(q, view, Bundle))
            BY <2>5 DEF Ask
        <3>2. asked'.q \in Requests[subject] BY <3>1 DEF Answers
        <3>3. pushes' = pushes /\ view' = view /\ canon' = canon /\ cached' = cached
            BY <2>5 DEF Ask
        <3>4. QED BY <2>1, <2>2, <3>2, <3>3 DEF LaunchTypeOK, Views
    <2>6. CASE UNCHANGED launchVars
        BY <2>1, <2>2, <2>6 DEF launchVars, LaunchTypeOK, Views
    <2>7. QED BY <2>3, <2>4, <2>5, <2>6 DEF LaunchNext
<1>3. QED BY <1>1, <1>2, SightedInductive, PTL DEF LaunchSpec

\* The launcher starts what the gate admits and nothing the gate calls closed,
\* over any catalog, with the exceptions AdmittedLaunches names, in which the
\* launcher refuses (gate_check, resolve_launch).
THEOREM LauncherAgreesThm == LaunchSpec => []LauncherAgrees
<1>1. SightedInv /\ LaunchTypeOK => LauncherAgrees
    BY AdmittedAtLaunch, ClosedAtLaunch DEF LauncherAgrees
<1>2. QED BY <1>1, SightedInductive, LaunchTyped, PTL

------------------------------------------------------------------------------
(* What the list offers, at the gate and at the launcher (GateLaunch).     *)
\* A row the list may offer: placed, of no barred model, for no consultation;
\* a default row behind the default gate.
Listed(r) ==
    /\ Sighted(view) /\ r \in World(view, Bundle).table
    /\ ~r.barred /\ r.gate # "consult_only" /\ (r.effort = NoEffort => r.gate = "default")
    /\ ~NotObtainable(r)

\* The seat it has: of a credit profile a worker's, of an astra the director's.
Seat(r) ==
    [name |-> r.profile, effort |-> IF r.effort = NoEffort THEN None ELSE r.effort,
     marker |-> None, role |-> IF r.profile \in CreditProfiles THEN "worker" ELSE None,
     purpose |-> IF r.profile \in Astra THEN "director" ELSE None,
     ref |-> None, by |-> None, pace |-> None, subscribed |-> TRUE]

\* It is a row its host has been told of, and the only one of its rung.
LEMMA ListedIs ==
    ASSUME NEW r, Listed(r)
    PROVE  LET p == r.profile
               own == RowsOf(view.rows, p)
           IN /\ r \in RowForms /\ r.effort \in Efforts /\ p \in Names /\ ~r.retired
              /\ r \in Told(p)
              /\ IF own # {} THEN r \in view.rows /\ r \in own /\ Told(p) = own
                                  /\ ~UnmeasuredRow(r, Bundle)
                 ELSE r \in CodeTable(Bundle) /\ Told(p) = RowsOf(CodeTable(Bundle), p)
              /\ \A t \in Told(p) : /\ t \in RowForms /\ t.profile = p
                                    /\ t.effort = r.effort => t = r
              /\ \A t \in RowsOf(World(view, Bundle).table, p) : t \in Told(p) /\ ~t.retired /\ ~t.barred
              /\ <<p, r.effort>> \in Arms => r.grade # CarrierGrade(p, r.effort)
<1> DEFINE p == r.profile
           own == RowsOf(view.rows, p)
           table == World(view, Bundle).table
<1>1. Sighted(view) /\ r \in table /\ ~NotObtainable(r) BY DEF Listed
<1>2. \A t \in table :
         \/ t \in view.rows /\ ~t.retired /\ ~UnmeasuredRow(t, Bundle)
         \/ t \in CodeTable(Bundle) /\ RowsOf(view.rows, t.profile) = {}
    BY <1>1, TableRows
<1>3. CodeTable(Bundle) \subseteq Bundle BY DEF CodeTable
<1>4. view.rows \subseteq RowForms /\ Bundle \subseteq RowForms
    BY <1>1, CatalogAssumption DEF Sighted, Catalog
<1>5. \A t \in table : t \in RowForms /\ ~t.retired
    BY <1>2, <1>3, <1>4, TablesAssumption
<1>6. r \in RowForms /\ r.effort \in Efforts /\ p \in Names /\ ~r.retired
    BY <1>1, <1>5 DEF RowForms
<1>7. IF own # {} THEN r \in view.rows /\ r \in own /\ Told(p) = own /\ ~UnmeasuredRow(r, Bundle)
      ELSE r \in CodeTable(Bundle) /\ Told(p) = RowsOf(CodeTable(Bundle), p)
    <2>1. own # {} => r \in view.rows /\ ~UnmeasuredRow(r, Bundle) BY <1>1, <1>2
    <2>2. r \in view.rows => r \in own BY DEF RowsOf
    <2>3. own = {} => r \in CodeTable(Bundle) BY <1>1, <1>2, <2>2
    <2>4. Told(p) = IF own # {} THEN own ELSE RowsOf(CodeTable(Bundle), p) BY DEF Told
    <2>5. QED BY <2>1, <2>2, <2>3, <2>4
<1>8. r \in Told(p)
    <2>1. own = {} => r \in RowsOf(CodeTable(Bundle), p) BY <1>7 DEF RowsOf
    <2>2. QED BY <1>7, <2>1
<1>9. ASSUME NEW t \in Told(p)
      PROVE  t \in RowForms /\ t.profile = p /\ (t.effort = r.effort => t = r)
    <2>1. t.profile = p BY <1>7, <1>9 DEF RowsOf
    <2>2. t.effort = r.effort => Key(t) = Key(r) BY <2>1 DEF Key
    <2>3. CASE own # {}
        <3>1. t \in view.rows /\ r \in view.rows BY <1>7, <1>9, <2>3 DEF RowsOf
        <3>2. QED BY <1>1, <1>4, <2>1, <2>2, <3>1 DEF Sighted, Catalog
    <2>4. CASE own = {}
        <3>1. t \in Bundle /\ r \in Bundle BY <1>3, <1>7, <1>9, <2>4 DEF RowsOf
        <3>2. QED BY <1>4, <2>1, <2>2, <3>1, CatalogAssumption
    <2>5. QED BY <2>3, <2>4
<1>10. ASSUME NEW t \in RowsOf(table, p) PROVE t \in Told(p) /\ ~t.retired /\ ~t.barred
    <2>1. t \in table /\ t.profile = p BY DEF RowsOf
    <2>2. ~t.retired BY <1>5, <2>1
    <2>3. ~BarredSomewhere(p) BY <1>1 DEF NotObtainable
    <2>4. CASE t \in view.rows
        <3>1. t \in own BY <2>1, <2>4 DEF RowsOf
        <3>2. t \in RowsOf(Live(view.rows) \cup CodeTable(Bundle), p)
            BY <2>1, <2>2, <2>4 DEF RowsOf, Live
        <3>3. QED BY <1>7, <2>2, <2>3, <3>1, <3>2 DEF BarredSomewhere
    <2>5. CASE t \in CodeTable(Bundle) /\ own = {}
        <3>1. t \in RowsOf(CodeTable(Bundle), p) BY <2>1, <2>5 DEF RowsOf
        <3>2. t \in RowsOf(Live(view.rows) \cup CodeTable(Bundle), p)
            BY <2>1, <2>5 DEF RowsOf
        <3>3. QED BY <1>7, <2>2, <2>3, <2>5, <3>1, <3>2 DEF BarredSomewhere
    <2>6. QED BY <1>2, <2>1, <2>4, <2>5
<1>11. <<p, r.effort>> \in Arms => r.grade # CarrierGrade(p, r.effort)
    <2>1. CASE own # {} BY <1>7, <2>1 DEF UnmeasuredRow, UnmeasuredKey
    <2>2. CASE own = {} BY <1>7, <2>2 DEF CodeTable, Key
    <2>3. QED BY <2>1, <2>2
<1>12. QED BY <1>6, <1>7, <1>8, <1>9, <1>10, <1>11

\* The request for its seat.
LEMMA SeatIs ==
    ASSUME NEW r, Listed(r)
    PROVE  LET q == Seat(r)
               p == r.profile
           IN /\ q \in RequestForms /\ q \in Seats(r) /\ q.effort # NoEffort /\ Plain(q)
              /\ q.name = p /\ Canonical(q.name) = p /\ Canonical(p) = p
              /\ q.effort = IF r.effort = NoEffort THEN None ELSE r.effort
              /\ q.marker = None /\ q.ref = None /\ q.by = None /\ q.pace = None /\ q.subscribed
              /\ q.role = IF p \in CreditProfiles THEN "worker" ELSE None
              /\ q.purpose = IF p \in Astra THEN "director" ELSE None
              /\ Rung(q) = q.effort /\ None \notin Efforts
              /\ \A e : ~Matches(q.marker, p, e)
              /\ Faces(Request(q, view, Bundle), q, view) /\ ~Reruns(q, view)
<1> DEFINE q == Seat(r)
           p == r.profile
<1>1. r \in RowForms /\ r.effort \in Efforts /\ p \in Names BY ListedIs
<1>2. Sighted(view) /\ ~NotObtainable(r) BY DEF Listed
<1>3. Canonical(p) = p BY <1>2 DEF NotObtainable, Canonical
<1>4. /\ q.name = p /\ q.effort = IF r.effort = NoEffort THEN None ELSE r.effort
      /\ q.marker = None /\ q.ref = None /\ q.by = None /\ q.pace = None /\ q.subscribed
      /\ q.role = IF p \in CreditProfiles THEN "worker" ELSE None
      /\ q.purpose = IF p \in Astra THEN "director" ELSE None
    BY DEF Seat
<1>5. q \in RequestForms BY <1>1 DEF Seat, RequestForms, Roles, Purposes, Refs
<1>6. q \in Seats(r) BY DEF Seat, Seats, Roles, Purposes
<1>7. NoEffort \in Efforts /\ None \notin Efforts BY RequestAssumption DEF Efforts
<1> HIDE DEF q
<1>8. q.effort # NoEffort BY <1>4, <1>7
<1>9. Plain(q) /\ Rung(q) = q.effort /\ \A e : ~Matches(q.marker, p, e)
    BY <1>3, <1>4 DEF Plain, Names_, Rung, Matches
<1>10. Faces(Request(q, view, Bundle), q, view) BY <1>2, <1>5, <1>8, <1>9, PlainFaces
<1>11. ~Reruns(q, view) BY <1>3, <1>4, <1>9 DEF Reruns
<1>12. QED BY <1>3, <1>4, <1>5, <1>6, <1>7, <1>8, <1>9, <1>10, <1>11 DEF q

\* A default row and the rungs its profile may start on: all behind the default
\* gate, none of them retired.
LEMMA StartIsOpen ==
    ASSUME NEW r, Listed(r), r.effort = NoEffort,
           NEW rows \in SUBSET Told(r.profile), r \in rows, \A t \in rows : ~t.retired
    PROVE  LET start == DefaultEffort(r.profile, rows)
           IN /\ start.shown \in {start.row, PreferredOf(r.profile)}
              /\ \A t \in Told(r.profile) :
                    t.effort \in {start.row, start.shown} => t.gate = "default" /\ ~t.retired
<1> DEFINE p == r.profile
           start == DefaultEffort(p, rows)
<1>1. r.gate = "default" /\ ~NotObtainable(r) BY DEF Listed
<1>2. \A t \in Told(p) : t \in RowForms /\ t.profile = p BY ListedIs
<1>3. \A t, u \in Told(p) : t.effort = u.effort => t = u
    <2> SUFFICES ASSUME NEW t \in Told(p), NEW u \in Told(p), t.effort = u.effort PROVE t = u
        OBVIOUS
    <2>1. Key(t) = Key(u) BY <1>2 DEF Key
    <2>2. \/ t \in view.rows /\ u \in view.rows
          \/ t \in Bundle /\ u \in Bundle
        BY DEF Told, RowsOf, CodeTable
    <2>3. QED BY <2>1, <2>2, CatalogAssumption DEF Listed, Sighted, Catalog
<1>4. PICK t \in rows : /\ t.effort = start.row
                        /\ (\E u \in rows : u.gate = "default") => t.gate = "default"
                        /\ start.shown \in {t.effort, PreferredOf(p)}
    <2>1. rows \in SUBSET RowForms /\ rows # {} BY <1>2
    <2>2. QED BY ONLY <2>1, StartExists
<1> HIDE DEF start
<1>5. t.gate = "default" /\ ~t.retired /\ t \in Told(p) BY <1>1, <1>4
<1>6. \A u \in Told(p) : u.effort = PreferredOf(p) => u.gate = "default" /\ ~u.retired
    BY <1>1 DEF NotObtainable
<1>7. QED BY <1>3, <1>4, <1>5, <1>6 DEF start

\* The context of its bare name: what it starts on is open.
LEMMA BareIsOpen ==
    ASSUME NEW r, Listed(r), r.effort = NoEffort
    PROVE  LET c == PolicyContext(Seat(r), World(view, Bundle))
           IN /\ <<r.profile, c.row>> \notin ConsultRungs(view)
              /\ <<r.profile, c.resolved>> \notin RetiredRungs(view)
<1> DEFINE q == Seat(r)
           p == r.profile
           own == RowsOf(view.rows, p)
           rows == {t \in Live(own) : t.gate = "consult_only" \/ ~UnmeasuredRow(t, Bundle)}
           none == [resolved |-> None, row |-> None, retired |-> FALSE]
           start == DefaultEffort(p, rows)
           c == PolicyContext(q, World(view, Bundle))
<1>1. /\ Canonical(q.name) = p /\ q.effort = None /\ ~Names_(q.marker, p) /\ None \notin Efforts
    BY SeatIs DEF Names_
<1>2. World(view, Bundle).view = view /\ World(view, Bundle).bundle = Bundle BY DEF World
<1>3. c = IF own # {} /\ Live(own) = {} THEN [none EXCEPT !.retired = TRUE]
          ELSE IF rows = {} THEN none
          ELSE [resolved |-> start.shown, retired |-> FALSE,
                row |-> IF \E t \in rows : t.effort = start.shown THEN start.shown ELSE start.row]
    BY <1>1, <1>2 DEF PolicyContext
<1>4. Sighted(view) BY DEF Listed
<1>5. \A t \in view.rows : Key(t) # <<p, None>>
    BY <1>1, <1>4 DEF Sighted, Catalog, RowForms, Key
<1> HIDE DEF c, start, q
<1>6. CASE rows = {}
    <2>1. c.row = None /\ c.resolved = None BY <1>3, <1>6
    <2>2. QED BY <1>5, <2>1 DEF ConsultRungs, RetiredRungs, Live, c, q
<1>7. CASE rows # {}
    <2>1. own # {} BY <1>7 DEF Live
    <2>2. r \in own /\ Told(p) = own /\ ~UnmeasuredRow(r, Bundle) /\ ~r.retired BY <2>1, ListedIs
    <2>3. r \in rows BY <2>2 DEF Live
    <2>4. rows \in SUBSET Told(p) /\ \A t \in rows : ~t.retired BY <2>2 DEF Live
    <2>5. c.row \in {start.row, start.shown} /\ c.resolved = start.shown
        <3>1. Live(own) # {} BY <1>7
        <3>2. c = [resolved |-> start.shown, retired |-> FALSE,
                   row |-> IF \E t \in rows : t.effort = start.shown THEN start.shown ELSE start.row]
            BY <1>3, <1>7, <3>1
        <3>3. QED BY <3>2
    <2> HIDE DEF rows
    <2>6. \A t \in Told(p) : t.effort \in {start.row, start.shown} => t.gate = "default" /\ ~t.retired
        BY <2>3, <2>4, StartIsOpen DEF start
    <2>7. \A t \in view.rows : \A e : Key(t) = <<p, e>> => t \in Told(p) /\ t.effort = e
        BY <2>2 DEF RowsOf, Key
    <2>8. \A t \in view.rows : Key(t) = <<p, c.row>> => t.gate = "default" BY <2>5, <2>6, <2>7
    <2>9. \A t \in view.rows : Key(t) = <<p, c.resolved>> => ~t.retired BY <2>5, <2>6, <2>7
    <2>10. QED BY <2>8, <2>9 DEF ConsultRungs, RetiredRungs, Live, c, q
<1>8. QED BY <1>6, <1>7

\* The gate lets it through.
LEMMA ListedAdmitted ==
    ASSUME NEW r, Listed(r)
    PROVE  Admission(Seat(r), World(view, Bundle)) = "admitted"
<1> DEFINE q == Seat(r)
           p == r.profile
           w == World(view, Bundle)
           s == Situation(q, w)
           own == RowsOf(w.table, p)
<1>1. /\ q.name = p /\ Canonical(q.name) = p /\ Canonical(p) = p
      /\ q.effort = IF r.effort = NoEffort THEN None ELSE r.effort
      /\ q.marker = None /\ q.ref = None /\ q.by = None /\ q.pace = None /\ q.subscribed
      /\ q.role = IF p \in CreditProfiles THEN "worker" ELSE None
      /\ q.purpose = IF p \in Astra THEN "director" ELSE None
      /\ Rung(q) = q.effort /\ None \notin Efforts /\ \A e : ~Matches(q.marker, p, e)
    BY SeatIs
<1>2. /\ r \in RowForms /\ r.effort \in Efforts /\ r \in Told(p) /\ ~r.retired
      /\ \A t \in Told(p) : t \in RowForms /\ (t.effort = r.effort => t = r)
      /\ \A t \in own : t \in Told(p) /\ ~t.retired /\ ~t.barred
      /\ <<p, r.effort>> \in Arms => r.grade # CarrierGrade(p, r.effort)
    BY ListedIs
<1>3. Sighted(view) /\ r \in own /\ r.gate # "consult_only" /\ ~NotObtainable(r)
      /\ (r.effort = NoEffort => r.gate = "default")
    BY DEF Listed, RowsOf
<1>4. /\ s.table = w.table /\ s.bundle = Bundle /\ s.view = view
      /\ s.context = PolicyContext(q, w)
      /\ s.row = {t \in own : t.effort = q.effort}
      /\ s.found = FoundRow(q, w)
    BY <1>1 DEF Situation, RungRow, World
<1>5. /\ p \notin Fable \cup AstraSeats \cup BarredNames
      /\ p \in CreditProfiles => r.effort # NoEffort /\ r.effort \in CreditRungs(p, Bundle)
    BY <1>3 DEF NotObtainable
<1>6. None \notin {"invalid", "experiment"} BY RequestAssumption
<1>7. r.effort # NoEffort => s.row = {r} BY <1>1, <1>2, <1>3, <1>4
<1>8. r.effort = NoEffort => s.row = {}
    <2>1. \A t \in own : t.effort \in Efforts BY <1>2 DEF RowForms
    <2>2. QED BY <1>1, <1>4, <2>1
<1>9. /\ s.found # {}
      /\ r.effort = NoEffort => \A t \in s.found : t.gate = "default"
    <2> DEFINE ordinary == {t \in own : t.gate = "default"}
               pool == IF ordinary # {} THEN ordinary ELSE own
               best == CHOOSE t \in BestOf(pool) : TRUE
    <2>1. s.found = {best : x \in own} BY <1>1, <1>4 DEF FoundRow
    <2>2. pool \in SUBSET RowForms /\ pool # {} BY <1>2, <1>3
    <2>3. r.effort = NoEffort => \A t \in pool : t.gate = "default" BY <1>3
    <2> HIDE DEF pool
    <2>4. best \in pool BY <2>2, BestExists
    <2> HIDE DEF best
    <2>5. QED BY <1>3, <2>1, <2>3, <2>4
<1>10. ASSUME r.effort # NoEffort PROVE <<p, r.effort>> \notin ConsultRungs(view) \cup RetiredRungs(view)
    <2>1. \A t \in view.rows : Key(t) = <<p, r.effort>> => t = r
        <3> SUFFICES ASSUME NEW t \in view.rows, Key(t) = <<p, r.effort>> PROVE t = r OBVIOUS
        <3>1. t \in RowsOf(view.rows, p) /\ t.effort = r.effort BY DEF Key, RowsOf
        <3>2. t \in Told(p) BY <3>1 DEF Told
        <3>3. QED BY <1>2, <3>1, <3>2
    <2>2. QED BY <1>2, <1>3, <2>1 DEF ConsultRungs, RetiredRungs, Live
<1>11. /\ <<p, ConsultEffort(q, s)>> \notin ConsultRungs(view)
       /\ <<p, RetiredEffort(q, s)>> \notin RetiredRungs(view)
    <2>1. CASE r.effort # NoEffort
        <3>1. ConsultEffort(q, s) = r.effort /\ RetiredEffort(q, s) = r.effort
            BY <1>1, <1>2, <2>1 DEF ConsultEffort, RetiredEffort
        <3>2. QED BY <1>10, <2>1, <3>1
    <2>2. CASE r.effort = NoEffort
        <3>1. ConsultEffort(q, s) = s.context.row /\ RetiredEffort(q, s) = s.context.resolved
            BY <1>1, <2>2 DEF ConsultEffort, RetiredEffort
        <3>2. QED BY <1>4, <2>2, <3>1, BareIsOpen
    <2>3. QED BY <2>1, <2>2
<1>12. ~s.context.retired
    <2>1. RowsOf(view.rows, p) # {} => Live(RowsOf(view.rows, p)) # {}
        <3>1. RowsOf(view.rows, p) # {} => r \in RowsOf(view.rows, p) BY ListedIs
        <3>2. QED BY <1>2, <3>1 DEF Live
    <2>2. q \in RequestForms BY SeatIs
    <2> HIDE DEF q, w
    <2>3. PolicyContext(q, World(view, Bundle)).retired <=>
             RowsOf(view.rows, Canonical(q.name)) # {} /\ Live(RowsOf(view.rows, Canonical(q.name))) = {}
        BY ONLY ContextIs
    <2>4. QED BY <1>1, <1>4, <2>1, <2>3 DEF w
<1> HIDE DEF s, q, w, own
<1>13. ~RetiredRung(q, s) /\ ~Experiment(q, s) /\ ~ConsultByCatalog(q, s)
    BY <1>1, <1>4, <1>5, <1>11 DEF RetiredRung, Experiment, ConsultByCatalog
<1>14. ~Consult(q, s)
    <2>1. \A t \in (IF s.row # {} THEN s.row ELSE s.found) : t.gate # "consult_only"
        BY <1>3, <1>7, <1>8, <1>9
    <2>2. QED BY <1>13, <2>1 DEF Consult
<1>15. ~E6Row(q, s)
    <2>1. CASE r.effort # NoEffort BY <1>1, <1>2, <1>7, <2>1 DEF E6Row
    <2>2. CASE r.effort = NoEffort
        <3>1. <<p, None>> \notin Arms BY <1>1, TablesAssumption
        <3>2. QED BY <1>1, <2>2, <3>1 DEF E6Row
    <2>3. QED BY <2>1, <2>2
<1>16. ~E6Admitted(q, s) BY <1>15 DEF E6Admitted
<1>17. ~Barred(q, s) BY <1>1, <1>2, <1>4, <1>5 DEF Barred, own
<1>18. ~RoleRestricted(q, s)
    <2>1. CASE p \in Astra
        <3>1. q.purpose = "director" BY <1>1, <2>1
        <3>2. q.role = None BY <1>1, <2>1, TablesAssumption
        <3>3. None \notin {"worker", "captain", "builder", "tester", "reviewer"}
            BY RequestAssumption
        <3>4. QED BY <1>1, <1>5, <2>1, <3>1, <3>2, <3>3
              DEF RoleRestricted, RoundExtRoleAllowed, AstraPurposeAllowed
    <2>2. CASE p \notin Astra
        BY <1>1, <1>5, <2>2 DEF RoleRestricted, RoundExtRoleAllowed
    <2>3. QED BY <2>1, <2>2
<1>19. ~Unsubscribed(q, s) /\ ~BadAudit(q, s)
    BY <1>1, <1>6 DEF Unsubscribed, BadAudit, RefValid
<1>20. ~CreditUnnamed(q, s) /\ ~CreditUnplaced(q, s)
    BY <1>1, <1>2, <1>4, <1>5 DEF CreditUnnamed, CreditUnplaced
<1>21. ~CreditSeat(q, s)
    <2>1. p \in CreditProfiles => q.role = "worker" BY <1>1
    <2>2. QED BY <1>1, <2>1 DEF CreditSeat, PlacedSeatDenied, BuilderSeatDenied
<1>22. ~Retired(q, s) BY <1>12, <1>13 DEF Retired
<1>23. ~E6Unmarked(q, s) /\ ~E6Seat(q, s) BY <1>15, <1>16 DEF E6Unmarked, E6Seat
<1>24. ~NotApplicable(q, s) /\ ~ConsultUnasked(q, s)
    BY <1>1, <1>14 DEF NotApplicable, ConsultUnasked
<1>25. ~E6OnlyUnmarked(q, s)
    BY <1>1, <1>3, <1>4 DEF E6OnlyUnmarked, E6Only, InTable, own
<1>26. ~UnknownProfile(q, s)
    <2>1. Judged(q, s) = IF s.row # {} THEN s.row ELSE s.found
        BY <1>14, <1>16 DEF Judged
    <2>2. QED BY <1>9, <2>1 DEF UnknownProfile
<1>27. Holding(q, s) = {}
    <2>1. Holding(q, s) \subseteq 1 .. 14 BY RefusalsInOrder
    <2>2. \A i \in {1, 2, 3, 4, 5, 6, 7, 8, 9, 10, 11, 12, 13, 14} : i \notin Holding(q, s)
        BY <1>17, <1>18, <1>19, <1>20, <1>21, <1>22, <1>23, <1>24, <1>25, <1>26, RefusalsInOrder
    <2>3. \A i \in 1 .. 14 : i \in {1, 2, 3, 4, 5, 6, 7, 8, 9, 10, 11, 12, 13, 14} OBVIOUS
    <2>4. QED BY <2>1, <2>2, <2>3
<1>28. Admission(q, w) = "admitted" BY <1>27, FirstHolds DEF s
<1>29. QED BY <1>28 DEF q, w

\* What is drawn for it: what its host has been told of, and itself among it.
LEMMA ListedDrawn ==
    ASSUME NEW r, Listed(r)
    PROVE  LET d == Request(Seat(r), view, Bundle)
               p == r.profile
           IN /\ d.ask.q = Seat(r) /\ d.ask.p = p /\ d.ask.view = view /\ d.ask.bundle = Bundle
              /\ d.ask.effort = Seat(r).effort /\ ~d.open
              /\ r \in d.rows /\ d.rows \subseteq Told(p) /\ \A t \in d.rows : ~t.retired
              /\ \A t \in d.candidates : t \in RowsOf(Live(view.rows), p)
              /\ d.fromBundle => RowsOf(view.rows, p) = {} /\ view.source # "snapshot"
<1> DEFINE q == Seat(r)
           p == r.profile
           own == RowsOf(view.rows, p)
           d == Request(q, view, Bundle)
           offers == Offers(p, Bundle, d.candidates, d.open)
<1>1. /\ Faces(d, q, view) /\ Canonical(q.name) = p /\ ~Reruns(q, view)
      /\ \A e : ~Matches(q.marker, p, e)
    BY SeatIs
<1>2. /\ r \in RowForms /\ ~r.retired /\ r \in Told(p)
      /\ IF own # {} THEN r \in view.rows /\ r \in own /\ Told(p) = own /\ ~UnmeasuredRow(r, Bundle)
         ELSE r \in CodeTable(Bundle) /\ Told(p) = RowsOf(CodeTable(Bundle), p)
    BY ListedIs
<1>3. Sighted(view) BY DEF Listed
<1> HIDE DEF q, d
<1>4. /\ d.ask.q = q /\ d.ask.p = p /\ d.ask.view = view /\ d.ask.bundle = Bundle
      /\ d.ask.effort = q.effort /\ d.open = E6Open(q, q.effort)
      /\ d.fromBundle = (offers = {}) /\ d.rows = Rows(p, Bundle, offers, q.effort, d.open)
      /\ \A t \in d.candidates : t \in own /\ ~t.retired
      /\ \A t \in own : ~t.retired => t \in d.candidates
    <2>1. LET n == Canonical(q.name)
              rows == RowsOf(view.rows, n)
              offered == Offers(n, Bundle, d.candidates, d.open)
          IN /\ d.ask.q = q /\ d.ask.p = n /\ d.ask.view = view /\ d.ask.bundle = Bundle
             /\ d.ask.effort = q.effort /\ d.open = E6Open(q, q.effort)
             /\ d.fromBundle = (offered = {}) /\ d.rows = Rows(n, Bundle, offered, q.effort, d.open)
             /\ \A t \in d.candidates : (t \in rows /\ ~t.retired) \/ Reruns(q, view)
             /\ \A t \in rows : ~t.retired => t \in d.candidates
        BY <1>1, FacesIs
    <2>2. QED BY <1>1, <2>1
<1>5. ~d.open BY <1>1, <1>4 DEF E6Open
<1>6. \A t \in d.candidates : t \in RowsOf(Live(view.rows), p)
    BY <1>4 DEF RowsOf, Live
<1>7. offers \subseteq d.candidates BY DEF Offers
<1>8. own # {} => r \in offers BY <1>2, <1>4 DEF Offers
<1> HIDE DEF offers
<1>9. /\ r \in d.rows /\ d.rows \subseteq Told(p) /\ \A t \in d.rows : ~t.retired
      /\ d.fromBundle => own = {}
    <2>1. CASE own # {}
        <3>1. d.rows = offers /\ ~d.fromBundle BY <1>4, <1>8, <2>1 DEF Rows
        <3>2. QED BY <1>2, <1>4, <1>7, <1>8, <2>1, <3>1
    <2>2. CASE own = {}
        <3>1. offers = {} BY <1>4, <1>7, <2>2
        <3>2. d.rows = BundleRows(Bundle, p) BY <1>4, <1>5, <3>1 DEF Rows
        <3>3. r \in CodeTable(Bundle) /\ Told(p) = RowsOf(CodeTable(Bundle), p) BY <1>2, <2>2
        <3>4. BundleRows(Bundle, p) = RowsOf(CodeTable(Bundle), p)
            <4>1. p \notin BundledConsult \cup Trials BY <3>3 DEF CodeTable
            <4>2. QED BY <4>1 DEF BundleRows, RowsOf, CodeTable
        <3>5. \A t \in d.rows : ~t.retired BY <3>2, TablesAssumption DEF BundleRows, RowsOf
        <3>6. QED BY <1>2, <2>2, <3>2, <3>3, <3>4, <3>5
    <2>3. QED BY <2>1, <2>2
<1>10. own = {} => view.source # "snapshot"
    <2> SUFFICES ASSUME own = {}, view.source = "snapshot" PROVE FALSE OBVIOUS
    <2>1. view.rows = Bundle BY <1>3 DEF Sighted
    <2>2. r \in Bundle BY <1>2 DEF CodeTable
    <2>3. r \in own BY <2>1, <2>2 DEF RowsOf
    <2>4. QED BY <2>3
<1>11. QED BY <1>4, <1>5, <1>6, <1>9, <1>10 DEF q, d

\* The launcher starts it.
LEMMA ListedLaunched ==
    ASSUME NEW r, Listed(r)
    PROVE  Launch(Seat(r), view, Bundle) = "resolved"
<1> DEFINE q == Seat(r)
           p == r.profile
           d == Request(q, view, Bundle)
           f == Settled(d)
           start == DefaultEffort(p, d.rows)
           named == {t \in d.rows : t.effort = q.effort}
<1>1. /\ q.name = p /\ Canonical(q.name) = p
      /\ q.effort = IF r.effort = NoEffort THEN None ELSE r.effort
      /\ q.ref = None /\ q.subscribed /\ Faces(d, q, view)
      /\ q.purpose = IF p \in Astra THEN "director" ELSE None
      /\ None \notin Efforts
    BY SeatIs
<1>2. /\ d.ask.q = q /\ d.ask.p = p /\ d.ask.view = view /\ d.ask.bundle = Bundle
      /\ d.ask.effort = q.effort /\ ~d.open
      /\ r \in d.rows /\ d.rows \subseteq Told(p) /\ \A t \in d.rows : ~t.retired
      /\ \A t \in d.candidates : t \in RowsOf(Live(view.rows), p)
      /\ d.fromBundle => RowsOf(view.rows, p) = {} /\ view.source # "snapshot"
    BY ListedDrawn
<1>3. ~NotObtainable(r) /\ r.gate # "consult_only" BY DEF Listed
<1>4. r.effort \in Efforts /\ \A t \in Told(p) : t.profile = p /\ (t.effort = r.effort => t = r)
    BY ListedIs
<1>5. Admission(q, World(view, Bundle)) = "admitted" BY ListedAdmitted
<1>6. p \notin Fable \cup AstraSeats \cup BarredNames /\ ~BarredSomewhere(p)
    BY <1>3 DEF NotObtainable
<1> HIDE DEF q, d
<1>7. ~RoleRestricted(q, Situation(q, World(view, Bundle))) BY <1>5, AdmittedBy
<1>8. ~LaunchBarred(d)
    <2>1. \A t \in RowsOf(CodeTable(Bundle), p) : ~t.barred
        BY <1>6 DEF BarredSomewhere, RowsOf
    <2>2. QED BY <1>1, <1>2, <1>6, <2>1 DEF LaunchBarred
<1>9. ~LaunchRole(d.ask.q) BY <1>2, <1>7 DEF LaunchRole, RoleRestricted
<1>10. RefValid(d.ask.q.ref) BY <1>1, <1>2, RequestAssumption DEF RefValid
<1>11. ~CreditRung(d.ask)
    <2>1. p \in CreditProfiles => r.effort # NoEffort /\ r.effort \in CreditRungs(p, Bundle)
        BY <1>3 DEF NotObtainable
    <2>2. QED BY <1>1, <1>2, <2>1 DEF CreditRung
<1>12. ~RowBarred(d)
    <2>1. \A t \in RowsOf(Live(view.rows), p) : ~t.barred
        BY <1>6 DEF BarredSomewhere, RowsOf
    <2>2. QED BY <1>2, <2>1 DEF RowBarred
<1>13. ~ArmUnmarked(d) BY <1>1, <1>2 DEF ArmUnmarked
<1>14. ~NoRows(d) BY <1>2 DEF NoRows
<1>15. /\ f.ask = d.ask /\ f.drawn = d /\ f.resolved = Resolved(d)
       /\ f.own = OwnRow(d, Resolved(d)) /\ f.row = LaunchRow(d, f.own)
       /\ (q.effort # None /\ named # {}) => f.own = named /\ f.row = named
    <2>1. Faces(d, q, view) BY <1>1
    <2>2. QED BY ONLY <2>1, SettledIs
<1> HIDE DEF f
<1>16. \A t \in view.rows : \A e : (t.retired /\ Key(t) = <<p, e>>) => t \in Told(p) /\ t.effort = e
    <2> SUFFICES ASSUME NEW t \in view.rows, NEW e, Key(t) = <<p, e>>
                 PROVE  t \in Told(p) /\ t.effort = e
        OBVIOUS
    <2>1. t \in RowsOf(view.rows, p) /\ t.effort = e BY DEF Key, RowsOf
    <2>2. QED BY <2>1 DEF Told
<1>17. /\ ~RungRetired(f) /\ ~ArmFallback(f)
       /\ \A t \in f.row : t.gate # "consult_only"
       /\ \A t \in f.row : t.gate = "escalation" => t = r
    <2>1. CASE r.effort # NoEffort
        <3>1. named = {r} BY <1>1, <1>2, <1>4, <2>1
        <3>2. f.own = {r} /\ f.row = {r} BY <1>1, <1>4, <1>15, <2>1, <3>1
        <3>3. QED BY <1>3, <3>2 DEF RungRetired, ArmFallback
    <2>2. CASE r.effort = NoEffort
        <3>1. f.resolved = start.shown BY <1>1, <1>2, <1>15, <2>2 DEF Resolved
        <3>2. \A t \in Told(p) : t.effort \in {start.row, start.shown} => t.gate = "default" /\ ~t.retired
            BY <1>2, <2>2, StartIsOpen
        <3>3. f.own = {t \in d.rows : t.effort = start.shown}
            BY <1>2, <1>15, <3>1 DEF OwnRow
        <3>4. f.row \subseteq {t \in d.rows : t.effort \in {start.row, start.shown}}
            BY <1>2, <1>15, <3>3 DEF LaunchRow
        <3>5. ~IsRetired(view, p, start.shown) BY <1>16, <3>2 DEF IsRetired
        <3>6. ~E6Only(p, CodeTable(Bundle)) BY <1>3, <2>2 DEF NotObtainable
        <3>7. ~RungRetired(f) BY <1>2, <1>15, <3>1, <3>5 DEF RungRetired
        <3>8. ~ArmFallback(f) BY <1>2, <1>15, <3>6 DEF ArmFallback
        <3> HIDE DEF start
        <3>9. \A t \in f.row : t.gate = "default" BY <1>2, <3>2, <3>4
        <3>10. QED BY <3>7, <3>8, <3>9
    <2>3. QED BY <2>1, <2>2
<1>18. ~LaunchSeat(f) BY <1>1, <1>5, <1>14, SeatAdmitted DEF f
<1>19. ~LaunchUnsubscribed(f.ask.q) BY <1>1, <1>2, <1>15 DEF LaunchUnsubscribed
<1>20. ~LaunchConsult(f) BY <1>17 DEF LaunchConsult
<1>21. ~StaleGate(f)
    <2> SUFFICES ASSUME StaleGate(f) PROVE FALSE OBVIOUS
    <2>1. r.gate = "escalation" /\ (view.stale \/ d.fromBundle)
        BY <1>2, <1>15, <1>17 DEF StaleGate
    <2>2. view.stale \/ RowsOf(view.rows, p) = {} BY <1>2, <2>1
    <2>3. QED BY <1>3, <2>1, <2>2 DEF NotObtainable
<1>22. Verdict(d) = "resolved"
    BY <1>8, <1>9, <1>10, <1>11, <1>12, <1>13, <1>14, <1>17, <1>18, <1>19, <1>20, <1>21,
       FirstAtLaunch DEF f
<1>23. QED BY <1>22 DEF Launch, d, q

\* A candidate stands for such a row, or for an arm offered on credit, which the
\* code has not placed.
LEMMA CandidateIs ==
    ASSUME Sighted(view), NEW g, NEW offered \in {{}, CreditProfiles},
           NEW e \in Entries(g, World(view, Bundle), offered),
           Destination(e, g, offered, TRUE) = "candidate", ~NotObtainable(e.row)
    PROVE  Listed(e.row)
<1> DEFINE w == World(view, Bundle)
           r == e.row
<1>1. r.gate # "consult_only" /\ e.gate # "escalation" BY DEF Destination
<1>2. w.bundle = Bundle /\ w.view = view BY DEF World
<1>3. \A t : t \in Unbarred(w) => t \in w.table /\ ~t.barred BY DEF Unbarred
<1>4. OneUpRows(g, w) \subseteq OwnRows(g - 1, w) /\ \A t \in OneUpRows(g, w) : t.gate = "default"
    BY DEF OneUpRows
<1>5. \A h : OwnRows(h, w) \subseteq Unbarred(w) BY DEF OwnRows
<1>6. ASSUME NEW t \in OfferedArms(g, w, offered) PROVE NotObtainable(t)
    <2>1. PICK a \in Arms : a[1] \in offered /\ t.profile = a[1] /\ t.effort = a[2]
        BY DEF OfferedArms
    <2>2. a = <<a[1], a[2]>> BY <2>1, TablesAssumption
    <2>3. a[2] \notin CreditRungs(a[1], Bundle) BY <2>2, CreditRungIs
    <2>4. t.profile \in CreditProfiles BY <2>1
    <2>5. QED BY <2>1, <2>3, <2>4 DEF NotObtainable
<1>7. \/ e \in {Entry(t, "own", t.gate) : t \in OwnRows(g, w) \cup OfferedArms(g, w, offered)}
      \/ e \in {Entry(t, "one_up", t.gate) :
                   t \in OneUpRows(g, w) \ {x.row : x \in BorrowedEntries(g, w)}}
      \/ e \in BorrowedEntries(g, w)
    BY DEF Entries
<1> HIDE DEF w
<1>8. r \in Unbarred(w) /\ (r.effort = NoEffort => r.gate \in {e.gate, "default"})
    <2>1. CASE e \in {Entry(t, "own", t.gate) : t \in OwnRows(g, w) \cup OfferedArms(g, w, offered)}
        <3>1. PICK t \in OwnRows(g, w) \cup OfferedArms(g, w, offered) : e = Entry(t, "own", t.gate)
            BY <2>1
        <3>2. r = t /\ e.gate = t.gate BY <3>1 DEF Entry
        <3>3. QED BY <1>5, <1>6, <3>1, <3>2
    <2>2. CASE e \in {Entry(t, "one_up", t.gate) :
                         t \in OneUpRows(g, w) \ {x.row : x \in BorrowedEntries(g, w)}}
        <3>1. PICK t \in OneUpRows(g, w) : e = Entry(t, "one_up", t.gate) BY <2>2
        <3>2. r = t /\ e.gate = t.gate BY <3>1 DEF Entry
        <3>3. QED BY <1>4, <1>5, <3>2
    <2>3. CASE e \in BorrowedEntries(g, w)
        <3>1. PICK b \in Borrowed, t \in OwnRows(g - 1, w) :
                 Key(t) = b.key /\ e = Entry(t, "borrowed", b.gate)
            BY <2>3 DEF BorrowedEntries
        <3>2. r = t BY <3>1 DEF Entry
        <3>3. r.effort # NoEffort
            <4>1. b.key[2] # NoEffort BY TablesAssumption
            <4>2. Key(t)[2] = t.effort BY DEF Key
            <4>3. QED BY <3>1, <3>2, <4>1, <4>2
        <3>4. QED BY <1>5, <3>2, <3>3
    <2>4. QED BY <1>7, <2>1, <2>2, <2>3
<1>9. r \in w.table /\ ~r.barred BY <1>3, <1>8
<1>10. r.effort = NoEffort => r.gate = "default"
    <2>1. r.gate \in Gates
        <3>1. view.rows \subseteq RowForms /\ CodeTable(Bundle) \subseteq RowForms
            BY CatalogAssumption DEF Sighted, Catalog, CodeTable
        <3>2. r \in RowForms BY <1>9, <3>1, TableRows DEF w
        <3>3. QED BY <3>2 DEF RowForms
    <2>2. QED BY <1>1, <1>8, <2>1 DEF Gates
<1>11. QED BY <1>1, <1>9, <1>10 DEF Listed, w

\* What is offered can be had, at the gate and at the launcher.
LEMMA OffersAtLaunch == SightedInv => OffersAreLaunchable
<1> SUFFICES ASSUME SightedInv, view # None,
                    NEW g \in 0 .. Lowest, NEW offered \in {{}, CreditProfiles},
                    NEW e \in Entries(g, World(view, Bundle), offered),
                    Destination(e, g, offered, TRUE) = "candidate", ~NotObtainable(e.row)
             PROVE  Launchable(e.row, World(view, Bundle))
    BY DEF OffersAreLaunchable
<1>1. Sighted(view) BY DEF SightedInv
<1>2. Listed(e.row) BY <1>1, CandidateIs
<1>3. Seat(e.row) \in Seats(e.row) BY <1>2, SeatIs
<1>4. QED BY <1>2, <1>3, ListedAdmitted, ListedLaunched DEF Launchable

\* What the list offers has a seat the gate admits and the launcher starts, with
\* the exceptions NotObtainable names (_evaluate, gate_check, resolve_launch).
THEOREM OffersAreLaunchableThm == LaunchSpec => []OffersAreLaunchable
<1>1. QED BY OffersAtLaunch, SightedInductive, PTL

\* And on what is measured of its pool the recommendation says what the gate
\* says: the offers stand.
THEOREM OffersStandThm == GateSide => []OffersStand
<1>1. OffersAreLaunchable /\ OffersAgree => OffersStand BY DEF OffersStand
<1>2. QED BY <1>1, OffersAreLaunchableThm, OffersAgreeThm, PTL DEF GateSide
=============================================================================
