----------------------------- MODULE RepsProofs -----------------------------
(***************************************************************************)
(* What is proved of measured repetitions.  On their way to the server,    *)
(* for any adds, readers and drops at once and any keys: none is lost,     *)
(* taken for another's, or counted twice for a reason the code could have  *)
(* avoided but one.  As evidence for grades, for any repetitions, ladders  *)
(* and thresholds: none counts for more than it measured, and what is      *)
(* stamped is what the operator was shown.                                 *)
(***************************************************************************)
EXTENDS PendingReps, Grading, TLAPS, FiniteSetTheorems, WellFoundedInduction

------------------------------------------------------------------------------
(* The reps on their way to the server (PendingReps).                      *)
\* The rows of the queue, of the server's pages, and of the cache.
QueueRows ==
    [origin : Origins, rep : Reps, state : {"pending", "refused"},
     reason : {"awaiting", "conflict", "ambiguous", "absent", "window"}]
PageRows == [id : Ids, origin : Origins, rep : Reps \cup {Foreign}]
CacheRows == [id : Ids \cup {None}, origin : Origins, rep : Reps \cup {Foreign}]
Adds ==
    [pc : {"idle", "queue", "put", "refuse", "fetch", "commit", "rewrite"}, rep : Reps \cup {None},
     origin : Origins \cup {None}, id : Ids \cup {None}, page : SUBSET PageRows,
     complete : BOOLEAN, seen : SUBSET (Origins \X Reps)]
PendingTyped ==
    /\ server \in [Ids -> Reps \cup {Foreign, None}] /\ client \in [Clients -> Adds]
    /\ pending \subseteq QueueRows /\ cache \subseteq CacheRows /\ reported \subseteq PageRows
    /\ drawn \subseteq Origins \X Reps /\ stored \subseteq Ids \X (Reps \cup {Foreign})
    /\ dropped \subseteq Origins /\ cleared \subseteq Origins

\* A key is drawn for one rep, and queued once for it.
DrawnOnce ==
    /\ \A d, e \in drawn : d[1] = e[1] => d = e
    /\ \A x \in pending : <<x.origin, x.rep>> \in drawn
    /\ \A x, y \in pending : x.origin = y.origin => x = y

\* What the server has, it was given; it never loses a row; and it has no rep
\* in this host's name that was not drawn.
ServerHeld ==
    /\ \A i \in Ids : server[i] # None => <<i, server[i]>> \in stored
    /\ \A w \in stored : server[w[1]] # None
    /\ \A w \in stored : w[1][1] = Own /\ w[2] \in Reps => <<w[1][2], w[2]>> \in drawn

\* The rows of a page or of the cache were on the server, and are one per id.
WereStored(rows) ==
    /\ \A row \in rows : row.id # None => row.origin = row.id[2] /\ <<row.id, row.rep>> \in stored
    /\ \A x, y \in rows : x.id # None /\ x.id = y.id => x = y

\* The rows in this host's name that a complete page has: the rep of the key,
\* or what another client overwrote it with.
ShowsOwn(rows, origin, rep) ==
    \E row \in rows : /\ row.id = <<Own, origin>> /\ row.origin = origin
                      /\ row.rep = rep \/ <<<<Own, origin>>, Foreign>> \in stored

\* What an add has in hand.
InAdding(c) ==
    /\ c.pc \in {"queue", "put", "refuse", "fetch", "commit"} => c.rep \in Reps
    /\ c.pc \in {"put", "refuse", "fetch", "commit"} => <<c.origin, c.rep>> \in drawn
    /\ c.pc \in {"fetch", "commit"} =>
          <<<<Own, c.origin>>, c.rep>> \in stored /\ c.id \in {None, <<Own, c.origin>>}
    /\ c.pc \in {"commit", "rewrite"} => WereStored(c.page) /\ IsFiniteSet(c.page)
    /\ c.pc = "commit" /\ c.complete => ShowsOwn(c.page, c.origin, c.rep)

\* What users were told.
ToldHeld ==
    \A t \in reported : /\ t.origin = t.id[2] /\ <<t.id, t.rep>> \in stored
                        /\ Mistaken(t) => <<<<Own, t.origin>>, Foreign>> \in stored

\* A key that was neither dropped nor cleared is queued, or its rep was
\* reported; a rep has one such key, and an add that found none queued has seen
\* every one that is gone.
Gone == dropped \cup cleared
Answered(d) ==
    d[1] \in Gone \/ (\E x \in pending : x.origin = d[1]) \/ (\E t \in reported : t.rep = d[2])
OneKeyLives ==
    /\ \A d \in drawn : Answered(d)
    /\ \A d, e \in drawn : d[2] = e[2] /\ d[2] \notin doubled /\ d[1] \notin Gone /\ e[1] \notin Gone
          => d = e
FoundNone(c) ==
    c.pc = "queue" => c.seen \subseteq drawn /\ \A d \in c.seen : d[2] = c.rep => d[1] \in Gone

PendingInv ==
    /\ PendingTyped /\ DrawnOnce /\ ServerHeld /\ WereStored(cache) /\ ToldHeld
    /\ \A p \in Clients : InAdding(client[p]) /\ FoundNone(client[p])
    /\ NothingIsLost /\ OneKeyLives

LEMMA IdsFinite == IsFiniteSet(Ids)
<1>1. Creators = {Own} \cup {Other}
  BY DEF Creators
<1>2. IsFiniteSet(Creators)
  BY <1>1, FS_Singleton, FS_Union, Zenon
<1>3. QED
  BY <1>2, FS_Product, RepAssumption, Zenon DEF Ids

\* The rows of the server under some ids are few and are its own.
LEMMA ContentsHeld ==
  ASSUME server \in [Ids -> Reps \cup {Foreign, None}], ServerHeld, NEW S \in SUBSET Ids
  PROVE  /\ Contents(S) \subseteq PageRows /\ IsFiniteSet(Contents(S))
         /\ WereStored(Contents(S))
         /\ \A i \in S : server[i] # None => Kept(i, i[2], server[i]) \in Contents(S)
<1> DEFINE Given == {i \in S : server[i] # None}
           Row(i) == Kept(i, i[2], server[i])
<1>1. Contents(S) = {Row(i) : i \in Given}
  BY DEF Contents
<1>2. IsFiniteSet(Given)
  BY IdsFinite, FS_Subset
<1>3. IsFiniteSet(Contents(S))
  <2> DEFINE RowOf == [i \in Given |-> Row(i)]
  <2>1. RowOf \in Surjection(Given, Contents(S))
    BY <1>1, Zenon DEF Surjection
  <2>2. QED
    BY <1>2, <2>1, FS_Surjection
<1>4. \A i \in Given : /\ Row(i).id = i /\ Row(i).origin = i[2] /\ Row(i).rep = server[i]
                       /\ Row(i) \in PageRows /\ i[2] \in Origins
  BY DEF Kept, PageRows, Ids
<1>5. WereStored(Contents(S))
  <2> HIDE DEF Row
  <2>1. \A i \in Given : <<i, server[i]>> \in stored
    BY DEF ServerHeld
  <2>2. QED
    BY <1>1, <1>4, <2>1 DEF WereStored
<1>6. QED
  BY <1>1, <1>3, <1>4, <1>5

Reasons == {"conflict", "ambiguous", "absent", "window"}

\* What the server has under this host's name of a key is the rep it was drawn
\* for, or what another client wrote over it.
LEMMA AllShowOwn ==
  ASSUME PendingTyped, DrawnOnce, ServerHeld, NEW o \in Origins, NEW r \in Reps,
         <<<<Own, o>>, r>> \in stored
  PROVE  ShowsOwn(Contents(Ids), o, r)
<1> DEFINE own == <<Own, o>>
           row == Kept(own, o, server[own])
<1>1. own \in Ids /\ own[1] = Own /\ own[2] = o
  BY DEF Ids, Creators
<1>2. server[own] # None
  <2>1. \A w \in stored : server[w[1]] # None
    BY DEF ServerHeld
  <2>2. QED
    BY <2>1
<1>3. <<own, server[own]>> \in stored /\ server[own] \in Reps \cup {Foreign}
  BY <1>1, <1>2 DEF ServerHeld, PendingTyped
<1>4. <<o, r>> \in drawn /\ (server[own] \in Reps => <<o, server[own]>> \in drawn)
  <2>1. \A w \in stored : w[1][1] = Own /\ w[2] \in Reps => <<w[1][2], w[2]>> \in drawn
    BY DEF ServerHeld
  <2>2. QED
    BY <1>3, <2>1
<1>5. server[own] \in Reps => server[own] = r
  BY <1>4 DEF DrawnOnce
<1>6. row \in Contents(Ids)
  BY <1>1, <1>2, ContentsHeld DEF PendingTyped
<1>7. row.id = own /\ row.origin = o /\ row.rep = server[own]
  BY DEF Kept
<1>8. row.rep = r \/ <<own, Foreign>> \in stored
  BY <1>3, <1>5, <1>7
<1> HIDE DEF row, own
<1>9. QED
  BY <1>6, <1>7, <1>8 DEF ShowsOwn, own

\* Two rows cannot be among at most one.
LEMMA OneOrNone ==
  ASSUME NEW S, IsFiniteSet(S), ~(Cardinality(S) > 1), NEW x \in S, NEW y \in S
  PROVE  x = y
<1> SUFFICES ASSUME x # y PROVE FALSE
  OBVIOUS
<1>1. IsFiniteSet({x}) /\ Cardinality({x}) = 1
  BY FS_Singleton
<1>2. Cardinality({x} \cup {y}) = 2
  BY <1>1, FS_AddElement
<1>3. Cardinality({x} \cup {y}) <= Cardinality(S) /\ Cardinality(S) \in Nat
  BY FS_Subset, FS_CardinalityType
<1>4. QED
  BY <1>2, <1>3

LEMMA PairParts == \A b, x, y : b = <<x, y>> => b[1] = x /\ b[2] = y
  OBVIOUS

\* The id proven for a rep is one it was stored under; if in another name, this
\* host's row of the key had been overwritten.
Rightful(id, o, r) ==
    /\ id \in Ids /\ id[2] = o /\ <<id, r>> \in stored
    /\ id[1] # Own => <<<<Own, o>>, Foreign>> \in stored
LEMMA ProvenHeld ==
  ASSUME NEW rows \in SUBSET PageRows, IsFiniteSet(rows), WereStored(rows), NEW o, NEW r,
         ShowsOwn(rows, o, r), RepAssumption
  PROVE  LET b == Proven(o, r, rows)
         IN \/ b[1] # None /\ Rightful(b[1], o, r)
            \/ b[1] = None /\ b[2] \in Reasons
<1> DEFINE twins == SameRows(o, r, rows)
           row == CHOOSE row \in twins : TRUE
<1>1. IsFiniteSet(twins) /\ twins \subseteq rows
  BY FS_Subset DEF SameRows, Holders
<1>2. CASE twins = {} \/ Cardinality(twins) > 1
  BY <1>1, <1>2, FS_EmptySet DEF Proven, Reasons
<1>3. CASE twins # {} /\ ~(Cardinality(twins) > 1)
  <2>1. row \in twins
    BY <1>3
  <2>2. row \in rows /\ row.origin = o /\ row.rep = r
    BY <2>1 DEF SameRows, Holders
  <2>3. row.id \in Ids /\ row.id # None
    BY <2>2, RepAssumption DEF PageRows, Ids, Creators
  <2>4. row.id[2] = o /\ <<row.id, r>> \in stored
    BY <2>2, <2>3 DEF WereStored
  <2>5. ASSUME row.id[1] # Own PROVE <<<<Own, o>>, Foreign>> \in stored
    <3>1. PICK own \in rows : /\ own.id = <<Own, o>> /\ own.origin = o
                              /\ own.rep = r \/ <<<<Own, o>>, Foreign>> \in stored
      BY DEF ShowsOwn
    <3>2. CASE own.rep = r
      <4>1. own \in twins
        BY <3>1, <3>2 DEF SameRows, Holders
      <4>2. own = row
        <5> HIDE DEF twins, row
        <5>1. QED
          BY <1>1, <1>3, <2>1, <4>1, OneOrNone
      <4>3. own.id[1] = Own
        BY <3>1
      <4>4. QED
        BY <2>5, <4>2, <4>3
    <3>3. QED
      BY <3>1, <3>2
  <2>6. Rightful(row.id, o, r)
    BY <2>3, <2>4, <2>5 DEF Rightful
  <2>7. Proven(o, r, rows) = <<row.id, "">>
    BY <1>3 DEF Proven
  <2> HIDE DEF row, twins
  <2>8. Proven(o, r, rows)[1] = row.id
    BY <2>7, PairParts, Zenon
  <2>9. QED
    BY <2>3, <2>6, <2>8
<1> HIDE DEF row, twins
<1>4. QED
  BY <1>2, <1>3

\* And so is the id a write is bound to.
LEMMA BoundHeld ==
  ASSUME PendingTyped, DrawnOnce, ServerHeld, NEW p \in Clients, client[p].pc = "commit",
         InAdding(client[p]), RepAssumption, NEW b \in Bound(client[p])
  PROVE  \/ b[1] # None /\ Rightful(b[1], client[p].origin, client[p].rep)
         \/ b[1] = None /\ b[2] \in Reasons
<1> DEFINE c == client[p]
<1>1. /\ c.origin \in Origins /\ c.rep \in Reps /\ <<<<Own, c.origin>>, c.rep>> \in stored
      /\ c.id \in {None, <<Own, c.origin>>} /\ WereStored(c.page) /\ IsFiniteSet(c.page)
      /\ c.complete => ShowsOwn(c.page, c.origin, c.rep)
      /\ c.page \in SUBSET PageRows
  BY DEF InAdding, PendingTyped, Adds
<1>2. CASE c.id # None
  <2>1. c.id = <<Own, c.origin>> /\ c.id \in Ids /\ c.id[1] = Own /\ c.id[2] = c.origin
    BY <1>1, <1>2 DEF Ids, Creators
  <2>2. Rightful(c.id, c.origin, c.rep)
    BY <1>1, <2>1 DEF Rightful
  <2>3. b = <<None, "conflict">> \/ b = <<c.id, "">>
    BY <1>2 DEF Bound
  <2>4. b[1] = c.id \/ (b[1] = None /\ b[2] \in Reasons)
    BY <2>3, PairParts, Zenon DEF Reasons
  <2> HIDE DEF c
  <2>5. QED
    BY <1>2, <2>2, <2>4 DEF c
<1>3. CASE c.id = None
  <2>1. CASE b = <<None, "ambiguous">> \/ b = <<None, "window">>
    BY <2>1 DEF Reasons
  <2>2. CASE c.complete /\ b = Proven(c.origin, c.rep, c.page)
    <3> HIDE DEF c
    <3>1. QED
      BY <1>1, <2>2, ProvenHeld DEF c
  <2>3. CASE b = Proven(c.origin, c.rep, Contents(Ids))
    <3>1. ShowsOwn(Contents(Ids), c.origin, c.rep)
      BY <1>1, AllShowOwn
    <3>2. /\ Contents(Ids) \in SUBSET PageRows /\ IsFiniteSet(Contents(Ids))
          /\ WereStored(Contents(Ids))
      BY ContentsHeld DEF PendingTyped
    <3> HIDE DEF c
    <3>3. QED
      BY <2>3, <3>1, <3>2, ProvenHeld DEF c
  <2>4. QED
    BY <1>3, <2>1, <2>2, <2>3 DEF Bound, Complete
<1>4. QED
  BY <1>2, <1>3

\* What held of an add that goes on, or of rows, still holds when the server and
\* the keys have only grown.
Grown ==
    /\ drawn \subseteq drawn' /\ stored \subseteq stored'
    /\ dropped \subseteq dropped' /\ cleared \subseteq cleared'
LEMMA RowsKeep ==
  ASSUME NEW rows, WereStored(rows), stored \subseteq stored'
  PROVE  WereStored(rows)'
  BY DEF WereStored
LEMMA OthersKeep ==
  ASSUME PendingInv, Grown, NEW q \in Clients, client'[q] = client[q]
  PROVE  InAdding(client[q])' /\ FoundNone(client[q])'
<1>1. InAdding(client[q]) /\ FoundNone(client[q])
  BY DEF PendingInv
<1>2. FoundNone(client[q])'
  BY <1>1 DEF FoundNone, Gone, Grown
<1>3. WereStored(client[q].page) => WereStored(client[q].page)'
  BY DEF WereStored, Grown
<1>4. ShowsOwn(client[q].page, client[q].origin, client[q].rep)
        => ShowsOwn(client[q].page, client[q].origin, client[q].rep)'
  BY DEF ShowsOwn, Grown
<1>5. InAdding(client[q])'
  BY <1>1, <1>3, <1>4 DEF InAdding, Grown
<1>6. QED
  BY <1>2, <1>5

\* And what held of one add and is so of its next state.
LEMMA ClientsKeep ==
  ASSUME PendingInv, Grown, NEW p \in Clients, NEW c \in Adds,
         client' = [client EXCEPT ![p] = c], InAdding(client[p])', FoundNone(client[p])'
  PROVE  /\ client' \in [Clients -> Adds]
         /\ \A q \in Clients : (InAdding(client[q]) /\ FoundNone(client[q]))'
<1>1. client \in [Clients -> Adds]
  BY DEF PendingInv, PendingTyped
<1>2. ASSUME NEW q \in Clients, q # p PROVE (InAdding(client[q]) /\ FoundNone(client[q]))'
  <2>1. client'[q] = client[q]
    BY <1>1, <1>2
  <2>2. QED
    BY <2>1, OthersKeep
<1>3. QED
  BY <1>1, <1>2

\* A process at rest holds nothing.
LEMMA RestHolds ==
  ASSUME NEW p \in Clients, client'[p] = Resting
  PROVE  InAdding(client[p])' /\ FoundNone(client[p])'
  BY DEF InAdding, FoundNone, Resting
LEMMA RestTyped == Resting \in Adds
  BY DEF Resting, Adds

LEMMA InitPending == ASSUME PendingInit, RepAssumption PROVE PendingInv
<1>1. PendingTyped
  BY RestTyped DEF PendingInit, PendingTyped
<1>2. DrawnOnce /\ ServerHeld /\ WereStored(cache) /\ ToldHeld /\ NothingIsLost /\ OneKeyLives
  BY DEF PendingInit, DrawnOnce, ServerHeld, WereStored, ToldHeld, NothingIsLost, OneKeyLives
<1>3. \A p \in Clients : InAdding(client[p]) /\ FoundNone(client[p])
  BY DEF PendingInit, InAdding, FoundNone, Resting
<1>4. QED
  BY <1>1, <1>2, <1>3 DEF PendingInv

\* What the queue and the server are to each other does not depend on what the
\* adds have in hand.
LEMMA QuietStep ==
  ASSUME PendingInv, NEW p \in Clients, NEW c \in Adds, client' = [client EXCEPT ![p] = c],
         UNCHANGED <<server, pending, cache, drawn, stored, reported, dropped, doubled, cleared>>,
         InAdding(client[p])', FoundNone(client[p])'
  PROVE  PendingInv'
<1>1. Grown
  BY DEF Grown
<1>2. /\ client' \in [Clients -> Adds]
      /\ \A q \in Clients : (InAdding(client[q]) /\ FoundNone(client[q]))'
  BY <1>1, ClientsKeep
<1>3. PendingTyped' /\ DrawnOnce'
  BY <1>2 DEF PendingInv, PendingTyped, DrawnOnce
<1>4. ServerHeld' /\ WereStored(cache)' /\ ToldHeld'
  BY DEF PendingInv, ServerHeld, WereStored, ToldHeld
<1>5. NothingIsLost' /\ OneKeyLives'
  BY DEF PendingInv, NothingIsLost, OneKeyLives, Answered, Gone
<1>6. QED
  BY <1>2, <1>3, <1>4, <1>5 DEF PendingInv

LEMMA OpenStep ==
  ASSUME PendingInv, NEW p \in Clients, NEW rep \in Reps, Open(p, rep), RepAssumption
  PROVE  PendingInv'
<1>1. /\ PendingTyped /\ DrawnOnce /\ \A d \in drawn : Answered(d)
  BY DEF PendingInv, OneKeyLives
<1>2. Grown /\ UNCHANGED <<server, pending, cache, drawn, stored, reported, dropped, doubled, cleared>>
  BY DEF Open, Grown
<1>3. CASE Matching(rep) = {}
  <2> DEFINE c == [Resting EXCEPT !.pc = "queue", !.rep = rep, !.seen = drawn]
  <2>1. client' = [client EXCEPT ![p] = c]
    BY <1>3 DEF Open
  <2>2. c.pc = "queue" /\ c.rep = rep /\ c.seen = drawn
    BY DEF Resting
  <2>3. c \in Adds
    BY <1>1 DEF Resting, Adds, PendingTyped
  <2>4. client'[p] = c
    BY <1>1, <2>1 DEF PendingTyped
  <2>5. ASSUME NEW d \in drawn, d[2] = rep PROVE d[1] \in Gone
    <3>1. d = <<d[1], d[2]>>
      BY <1>1 DEF PendingTyped
    <3>2. ASSUME NEW x \in pending, x.origin = d[1] PROVE FALSE
      <4>1. <<x.origin, x.rep>> \in drawn /\ <<x.origin, x.rep>>[1] = d[1]
        BY <1>1, <3>2 DEF DrawnOnce
      <4>2. <<x.origin, x.rep>> = d
        BY <1>1, <4>1 DEF DrawnOnce
      <4>3. x.rep = rep
        BY <2>5, <4>2
      <4>4. QED
        BY <1>3, <4>3 DEF Matching
    <3>3. \A t \in reported : t.rep # d[2]
      BY <2>5 DEF Open
    <3>4. QED
      BY <1>1, <3>2, <3>3 DEF Answered
  <2>6. InAdding(client[p])' /\ FoundNone(client[p])'
    <3> HIDE DEF c
    <3>1. Gone' = Gone
      BY <1>2 DEF Gone
    <3>2. QED
      BY <1>2, <2>2, <2>4, <2>5, <3>1 DEF InAdding, FoundNone
  <2> HIDE DEF c
  <2>7. QED
    BY <1>2, <2>1, <2>3, <2>6, QuietStep
<1>4. CASE Matching(rep) # {}
  <2>1. PICK x \in Matching(rep) : client' = [client EXCEPT ![p] =
           [Resting EXCEPT !.pc = "put", !.rep = rep, !.origin = x.origin]]
    BY <1>4 DEF Open
  <2> DEFINE c == [Resting EXCEPT !.pc = "put", !.rep = rep, !.origin = x.origin]
  <2>2. c.pc = "put" /\ c.rep = rep /\ c.origin = x.origin
    BY DEF Resting
  <2>3. x \in pending /\ x.rep = rep /\ x.origin \in Origins /\ <<x.origin, rep>> \in drawn
    BY <1>1 DEF Matching, PendingTyped, QueueRows, DrawnOnce
  <2>4. c \in Adds
    BY <2>3 DEF Resting, Adds
  <2>5. client'[p] = c
    BY <1>1, <2>1 DEF PendingTyped
  <2>6. InAdding(client[p])' /\ FoundNone(client[p])'
    <3> HIDE DEF c
    <3>1. QED
      BY <1>2, <2>2, <2>3, <2>5 DEF InAdding, FoundNone
  <2> HIDE DEF c
  <2>7. QED
    BY <1>2, <2>1, <2>4, <2>6, QuietStep DEF c
<1>5. QED
  BY <1>3, <1>4

LEMMA AbortStep ==
  ASSUME PendingInv, NEW p \in Clients, Abort(p)
  PROVE  PendingInv'
<1>1. client' = [client EXCEPT ![p] = Resting] /\ client'[p] = Resting
  BY DEF Abort, PendingInv, PendingTyped
<1>2. QED
  BY <1>1, RestHolds, RestTyped, QuietStep DEF Abort

\* A page is what the server has of some ids; a complete one shows the rep the
\* process has put.
LEMMA FetchStep ==
  ASSUME PendingInv, RepAssumption, NEW p \in Clients, FetchReps(p)
  PROVE  PendingInv'
<1>1. PendingTyped /\ DrawnOnce /\ ServerHeld /\ InAdding(client[p]) /\ client[p] \in Adds
  BY DEF PendingInv, PendingTyped
<1>2. PICK S \in SUBSET Ids :
        client' = [client EXCEPT ![p] =
                     [client[p] EXCEPT !.pc = IF @ = "fetch" THEN "commit" ELSE "rewrite",
                               !.page = Contents(S), !.complete = (Contents(S) = Contents(Ids))]]
  BY DEF FetchReps
<1>3. PICK c : c = client'[p]
  OBVIOUS
<1>4. /\ client' = [client EXCEPT ![p] = c] /\ c \in Adds
      /\ c.pc = IF client[p].pc = "fetch" THEN "commit" ELSE "rewrite"
      /\ c.page = Contents(S) /\ c.complete = (Contents(S) = Contents(Ids))
      /\ c.rep = client[p].rep /\ c.origin = client[p].origin /\ c.id = client[p].id
  <2>1. Contents(S) \in SUBSET PageRows
    BY <1>1, ContentsHeld DEF PendingTyped
  <2>2. client' = [client EXCEPT ![p] = c]
    BY <1>1, <1>2, <1>3 DEF PendingTyped
  <2>3. c = [client[p] EXCEPT !.pc = IF client[p].pc = "fetch" THEN "commit" ELSE "rewrite",
                              !.page = Contents(S),
                              !.complete = (Contents(S) = Contents(Ids))]
    BY <1>1, <1>2, <1>3 DEF PendingTyped
  <2>4. QED
    BY <1>1, <2>1, <2>2, <2>3 DEF Adds
<1>5. Contents(S) \in SUBSET PageRows /\ IsFiniteSet(Contents(S)) /\ WereStored(Contents(S))
  BY <1>1, ContentsHeld DEF PendingTyped
<1>7. UNCHANGED <<server, pending, cache, drawn, stored, reported, dropped, doubled, cleared>>
  BY DEF FetchReps
<1>8. WereStored(c.page)'
  BY <1>4, <1>5, <1>7 DEF WereStored
<1>9. ASSUME c.pc = "commit" PROVE InAdding(c)
  <2>1. client[p].pc = "fetch"
    BY <1>4, <1>9
  <2>2. /\ c.origin \in Origins /\ c.rep \in Reps /\ <<c.origin, c.rep>> \in drawn
        /\ <<<<Own, c.origin>>, c.rep>> \in stored /\ c.id \in {None, <<Own, c.origin>>}
    BY <1>1, <1>4, <2>1 DEF InAdding, PendingTyped
  <2>3. ShowsOwn(Contents(Ids), c.origin, c.rep)
    BY <1>1, <2>2, AllShowOwn
  <2>4. c.complete => ShowsOwn(c.page, c.origin, c.rep)
    BY <1>4, <2>3
  <2>5. QED
    BY <1>4, <1>5, <1>9, <2>2, <2>4 DEF InAdding
<1>10. c.pc = "rewrite" => InAdding(c)
  <2>1. QED
    BY <1>4, <1>5 DEF InAdding
<1>11. FoundNone(c) /\ c.pc \in {"commit", "rewrite"}
  BY <1>4 DEF FoundNone
<1>12. InAdding(client[p])' /\ FoundNone(client[p])'
  <2>1. WereStored(c.page)' /\ (ShowsOwn(c.page, c.origin, c.rep) => ShowsOwn(c.page, c.origin, c.rep)')
    BY <1>7, <1>8 DEF ShowsOwn
  <2>2. QED
    BY <1>3, <1>7, <1>9, <1>10, <1>11, <2>1 DEF InAdding, FoundNone
<1>13. QED
  BY <1>4, <1>7, <1>12, QuietStep

\* A write to the server.
LEMMA ServerStep ==
  ASSUME PendingInv, RepAssumption, NEW i \in Ids, NEW v \in Reps \cup {Foreign},
         i[1] = Own /\ v \in Reps => <<i[2], v>> \in drawn,
         server' = [server EXCEPT ![i] = v], stored' = stored \cup {<<i, v>>},
         UNCHANGED <<pending, cache, drawn, reported, dropped, doubled, cleared>>
  PROVE  /\ Grown /\ ServerHeld' /\ DrawnOnce' /\ WereStored(cache)' /\ ToldHeld'
         /\ NothingIsLost' /\ OneKeyLives'
         /\ client' \in [Clients -> Adds] => PendingTyped'
<1>1. Grown /\ PendingTyped
  BY DEF Grown, PendingInv
<1>2. ServerHeld'
  <2>1. \A j \in Ids : server'[j] = IF j = i THEN v ELSE server[j]
    BY <1>1 DEF PendingTyped
  <2>2. v # None
    BY RepAssumption
  <2>3. \A j \in Ids : server'[j] # None => <<j, server'[j]>> \in stored'
    BY <2>1 DEF PendingInv, ServerHeld
  <2>4. \A w \in stored : w[1] \in Ids /\ server[w[1]] # None
    BY <1>1 DEF PendingInv, PendingTyped, ServerHeld
  <2>5. \A w \in stored' : server'[w[1]] # None
    BY <2>1, <2>2, <2>4
  <2>6. \A w \in stored' : w[1][1] = Own /\ w[2] \in Reps => <<w[1][2], w[2]>> \in drawn'
    BY DEF PendingInv, ServerHeld
  <2>7. QED
    BY <2>3, <2>5, <2>6 DEF ServerHeld
<1>3. DrawnOnce' /\ WereStored(cache)' /\ ToldHeld'
  BY DEF PendingInv, DrawnOnce, WereStored, ToldHeld
<1>4. NothingIsLost' /\ OneKeyLives'
  BY DEF PendingInv, NothingIsLost, OneKeyLives, Answered, Gone
<1>5. client' \in [Clients -> Adds] => PendingTyped'
  BY <1>1 DEF PendingTyped
<1>6. QED
  BY <1>1, <1>2, <1>3, <1>4, <1>5

LEMMA PutStep ==
  ASSUME PendingInv, RepAssumption, NEW p \in Clients, PutRep(p)
  PROVE  PendingInv'
<1>1. PendingTyped /\ InAdding(client[p]) /\ client[p] \in Adds /\ client[p].pc = "put"
  BY DEF PendingInv, PendingTyped, PutRep
<1>2. /\ client[p].origin \in Origins /\ client[p].rep \in Reps
      /\ <<client[p].origin, client[p].rep>> \in drawn
  BY <1>1 DEF PendingTyped, InAdding
<1> DEFINE id == <<Own, client[p].origin>>
           refused == dialect = "ids" /\ server[id] \notin {None, client[p].rep}
<1>3. id \in Ids /\ id[1] = Own /\ id[2] = client[p].origin
  BY <1>2 DEF Ids, Creators
<1>4. CASE refused
  <2> DEFINE c == [client[p] EXCEPT !.pc = "refuse"]
  <2>1. client' = [client EXCEPT ![p] = c] /\ client'[p] = c
    BY <1>1, <1>4 DEF PutRep, PendingTyped
  <2>2. c.pc = "refuse" /\ c.rep = client[p].rep /\ c.origin = client[p].origin /\ c \in Adds
    BY <1>1 DEF Adds
  <2>3. UNCHANGED <<server, pending, cache, drawn, stored, reported, dropped, doubled, cleared>>
    BY <1>4 DEF PutRep
  <2> HIDE DEF c
  <2>4. InAdding(client[p])' /\ FoundNone(client[p])'
    BY <1>2, <2>1, <2>2, <2>3 DEF InAdding, FoundNone
  <2>5. QED
    BY <2>1, <2>2, <2>3, <2>4, QuietStep
<1>5. CASE ~refused
  <2> DEFINE c == [client[p] EXCEPT !.pc = "fetch", !.id = IF dialect = "ids" THEN id ELSE None]
  <2>1. client' = [client EXCEPT ![p] = c] /\ client'[p] = c
    BY <1>1, <1>5 DEF PutRep, PendingTyped
  <2>2. /\ c.pc = "fetch" /\ c.rep = client[p].rep /\ c.origin = client[p].origin
        /\ c.id \in {None, id} /\ c \in Adds
    BY <1>1, <1>3 DEF Adds
  <2>3. /\ server' = [server EXCEPT ![id] = client[p].rep]
        /\ stored' = stored \cup {<<id, client[p].rep>>}
        /\ UNCHANGED <<pending, cache, drawn, reported, dropped, doubled, cleared>>
    BY <1>5 DEF PutRep
  <2>4. /\ Grown /\ ServerHeld' /\ DrawnOnce' /\ WereStored(cache)' /\ ToldHeld'
        /\ NothingIsLost' /\ OneKeyLives'
        /\ client' \in [Clients -> Adds] => PendingTyped'
    <3> HIDE DEF id
    <3>1. QED
      BY <1>2, <1>3, <2>3, ServerStep
  <2> HIDE DEF c
  <2>5. InAdding(client[p])' /\ FoundNone(client[p])'
    BY <1>2, <2>1, <2>2, <2>3 DEF InAdding, FoundNone
  <2>6. QED
    BY <2>1, <2>2, <2>4, <2>5, ClientsKeep DEF PendingInv
<1>6. QED
  BY <1>4, <1>5

LEMMA ElsewhereStep ==
  ASSUME PendingInv, RepAssumption, Elsewhere
  PROVE  PendingInv'
<1>1. PICK id \in Ids, rep \in Reps \cup {Foreign} :
        /\ id[1] = Own => rep = Foreign
        /\ server' = [server EXCEPT ![id] = rep] /\ stored' = stored \cup {<<id, rep>>}
  BY DEF Elsewhere
<1>2. id[1] = Own => rep \notin Reps
  BY <1>1, RepAssumption
<1>3. UNCHANGED <<pending, cache, drawn, reported, dropped, doubled, cleared, client>>
  BY DEF Elsewhere
<1>4. /\ Grown /\ ServerHeld' /\ DrawnOnce' /\ WereStored(cache)' /\ ToldHeld'
      /\ NothingIsLost' /\ OneKeyLives'
      /\ client' \in [Clients -> Adds] => PendingTyped'
  BY <1>1, <1>2, <1>3, ServerStep
<1>5. \A q \in Clients : (InAdding(client[q]) /\ FoundNone(client[q]))'
  BY <1>3, <1>4, OthersKeep
<1>6. QED
  BY <1>3, <1>4, <1>5 DEF PendingInv, PendingTyped

\* A fresh key: the rep has no other that lives, or two adds drew one.
LEMMA QueueStep ==
  ASSUME PendingInv, NEW p \in Clients, Queue(p)
  PROVE  PendingInv'
<1>1. /\ PendingTyped /\ DrawnOnce /\ InAdding(client[p]) /\ FoundNone(client[p])
      /\ client[p] \in Adds /\ client[p].pc = "queue"
  BY DEF PendingInv, PendingTyped, Queue
<1>2. PICK o \in Origins \ {d[1] : d \in drawn} :
          /\ pending' = pending \cup {Queued(o, client[p].rep)}
          /\ drawn' = drawn \cup {<<o, client[p].rep>>}
          /\ client' = [client EXCEPT ![p].pc = "put", ![p].origin = o, ![p].seen = {}]
  BY DEF Queue
<1>3. PICK rep : rep = client[p].rep
  OBVIOUS
<1>4. rep \in Reps /\ <<o, rep>> \in drawn' /\ \A d \in drawn : d[1] # o
  BY <1>1, <1>2, <1>3 DEF InAdding
<1>5. UNCHANGED <<server, cache, stored, reported, dropped, cleared>>
  BY DEF Queue
<1>6. Grown
  BY <1>2, <1>5 DEF Grown
<1>7. PICK x : x = Queued(o, rep)
  OBVIOUS
<1>8. x \in QueueRows /\ x.origin = o /\ x.rep = rep /\ pending' = pending \cup {x}
  BY <1>2, <1>3, <1>4, <1>7 DEF Queued, QueueRows
<1>9. drawn' = drawn \cup {<<o, rep>>}
  BY <1>2, <1>3
<1>10. PICK c : c = client'[p]
  OBVIOUS
<1>11. /\ client' = [client EXCEPT ![p] = c] /\ c \in Adds
       /\ c.pc = "put" /\ c.origin = o /\ c.rep = rep
  <2>1. client' = [client EXCEPT ![p] = [client[p] EXCEPT !.pc = "put", !.origin = o, !.seen = {}]]
    BY <1>1, <1>2 DEF PendingTyped
  <2>2. c = [client[p] EXCEPT !.pc = "put", !.origin = o, !.seen = {}]
    BY <1>1, <2>1, <1>10 DEF PendingTyped
  <2>3. QED
    BY <1>1, <1>3, <2>1, <2>2 DEF Adds
<1>12. /\ client' \in [Clients -> Adds]
       /\ \A q \in Clients : (InAdding(client[q]) /\ FoundNone(client[q]))'
  <2>1. InAdding(client[p])' /\ FoundNone(client[p])'
    BY <1>4, <1>10, <1>11 DEF InAdding, FoundNone
  <2>2. QED
    BY <1>6, <1>11, <2>1, ClientsKeep
<1>13. PendingTyped'
  BY <1>1, <1>4, <1>5, <1>8, <1>9, <1>12 DEF PendingTyped
<1>14. DrawnOnce'
  <2>1. \A d, e \in drawn' : d[1] = e[1] => d = e
    BY <1>1, <1>4, <1>9 DEF DrawnOnce
  <2>2. \A y \in pending' : <<y.origin, y.rep>> \in drawn'
    BY <1>1, <1>8, <1>9 DEF DrawnOnce
  <2>3. \A y \in pending : y.origin # o
    <3> SUFFICES ASSUME NEW y \in pending, y.origin = o PROVE FALSE
      OBVIOUS
    <3>1. <<y.origin, y.rep>> \in drawn /\ <<y.origin, y.rep>>[1] = y.origin
      BY <1>1 DEF DrawnOnce
    <3>2. QED
      BY <1>4, <3>1
  <2>4. \A y, z \in pending' : y.origin = z.origin => y = z
    BY <1>1, <1>8, <2>3 DEF DrawnOnce
  <2>5. QED
    BY <2>1, <2>2, <2>4 DEF DrawnOnce
<1>15. ServerHeld' /\ WereStored(cache)' /\ ToldHeld'
  BY <1>5, <1>9 DEF PendingInv, ServerHeld, WereStored, ToldHeld
<1>16. NothingIsLost'
  <2>1. \A d \in drawn' : d \in drawn \/ (x \in pending' /\ x.origin = d[1])
    BY <1>8, <1>9
  <2>2. \A y \in pending : y \in pending'
    BY <1>8
  <2>3. QED
    BY <1>5, <2>1, <2>2 DEF PendingInv, NothingIsLost
<1>17. \A d \in drawn' : Answered(d)'
  BY <1>5, <1>8, <1>9 DEF PendingInv, OneKeyLives, Answered, Gone
<1>18. ASSUME NEW d \in drawn', NEW e \in drawn', d[2] = e[2], d[2] \notin doubled',
              d[1] \notin Gone', e[1] \notin Gone'
       PROVE  d = e
  <2>1. doubled \subseteq doubled'
    BY DEF Queue
  <2>2. Gone' = Gone
    BY <1>5 DEF Gone
  <2>3. CASE d \in drawn /\ e \in drawn
    BY <1>18, <2>1, <2>2, <2>3 DEF PendingInv, OneKeyLives
  <2>4. ASSUME NEW f \in drawn, f[2] = rep, f[1] \notin Gone PROVE rep \in doubled'
    <3>1. f \notin client[p].seen
      BY <1>1, <1>3, <2>4 DEF FoundNone
    <3>2. QED
      BY <1>3, <2>4, <3>1 DEF Queue
  <2>5. \A f \in drawn' : f \in drawn \/ (f = <<o, rep>> /\ f[2] = rep)
    BY <1>9
  <2>6. QED
    BY <1>18, <2>2, <2>3, <2>4, <2>5
<1>19. QED
  BY <1>12, <1>13, <1>14, <1>15, <1>16, <1>17, <1>18 DEF PendingInv, OneKeyLives

\* The queued rows are the same, but for what became of them.
SameKeys(rows, others) ==
    /\ \A y \in others : \E x \in rows : y.origin = x.origin /\ y.rep = x.rep
    /\ \A x \in rows : \E y \in others : y.origin = x.origin /\ y.rep = x.rep
    /\ \A y, z \in others : y.origin = z.origin => y = z
LEMMA SameKeysStep ==
  ASSUME DrawnOnce, NothingIsLost, OneKeyLives, SameKeys(pending, pending'),
         stored \subseteq stored', UNCHANGED <<drawn, reported, dropped, doubled, cleared>>
  PROVE  DrawnOnce' /\ NothingIsLost' /\ OneKeyLives'
<1>1. DrawnOnce'
  <2>1. \A y \in pending' : <<y.origin, y.rep>> \in drawn
    BY DEF DrawnOnce, SameKeys
  <2>2. QED
    BY <2>1 DEF DrawnOnce, SameKeys
<1>2. \A d \in drawn : (\E x \in pending : x.origin = d[1]) => \E x \in pending' : x.origin = d[1]
  BY DEF SameKeys
<1>3. NothingIsLost'
  BY <1>2 DEF NothingIsLost
<1>4. OneKeyLives'
  BY <1>2 DEF OneKeyLives, Answered, Gone
<1>5. QED
  BY <1>1, <1>3, <1>4

\* A row is marked in its place.
LEMMA RefuseStep ==
  ASSUME PendingInv, NEW p \in Clients, Refuse(p)
  PROVE  PendingInv'
<1>1. PendingTyped /\ DrawnOnce /\ NothingIsLost /\ OneKeyLives
  BY DEF PendingInv
<1> DEFINE Told(x) == IF x.origin = client[p].origin /\ x.state = "pending"
                      THEN [x EXCEPT !.state = "refused", !.reason = "conflict"] ELSE x
<1>2. pending' = {Told(x) : x \in pending}
  BY DEF Refuse
<1>3. \A x \in pending : Told(x) \in QueueRows /\ Told(x).origin = x.origin /\ Told(x).rep = x.rep
  BY <1>1 DEF PendingTyped, QueueRows
<1>4. UNCHANGED <<server, cache, drawn, stored, reported, dropped, doubled, cleared>>
  BY DEF Refuse
<1>5. SameKeys(pending, pending') /\ pending' \subseteq QueueRows
  <2> HIDE DEF Told
  <2>1. QED
    BY <1>1, <1>2, <1>3 DEF SameKeys, DrawnOnce
<1>6. DrawnOnce' /\ NothingIsLost' /\ OneKeyLives'
  BY <1>1, <1>4, <1>5, SameKeysStep
<1>7. client' = [client EXCEPT ![p] = Resting] /\ client'[p] = Resting
  BY <1>1 DEF Refuse, PendingTyped
<1>8. /\ client' \in [Clients -> Adds]
      /\ \A q \in Clients : (InAdding(client[q]) /\ FoundNone(client[q]))'
  BY <1>4, <1>7, RestHolds, RestTyped, ClientsKeep DEF Grown
<1>9. ServerHeld' /\ WereStored(cache)' /\ ToldHeld'
  BY <1>4 DEF PendingInv, ServerHeld, WereStored, ToldHeld
<1>10. PendingTyped'
  BY <1>1, <1>4, <1>5, <1>8 DEF PendingTyped
<1>11. QED
  BY <1>6, <1>8, <1>9, <1>10 DEF PendingInv

LEMMA DropStep ==
  ASSUME PendingInv, Drop
  PROVE  PendingInv'
<1>1. PendingTyped /\ DrawnOnce /\ NothingIsLost /\ OneKeyLives /\ WereStored(cache)
  BY DEF PendingInv
<1>2. PICK x \in pending :
          /\ pending' = pending \ {x} /\ dropped' = dropped \cup {x.origin}
          /\ cache' = cache \ {Kept(None, x.origin, x.rep)}
  BY DEF Drop
<1>3. UNCHANGED <<server, client, drawn, stored, reported, doubled, cleared>>
  BY DEF Drop
<1>4. x.origin \in Origins
  BY <1>1 DEF PendingTyped, QueueRows
<1>5. PendingTyped' /\ DrawnOnce'
  BY <1>1, <1>2, <1>3, <1>4 DEF PendingTyped, DrawnOnce
<1>6. ServerHeld' /\ WereStored(cache)' /\ ToldHeld'
  BY <1>2, <1>3 DEF PendingInv, ServerHeld, WereStored, ToldHeld
<1>7. \A d \in drawn :
        (\E y \in pending : y.origin = d[1])
          => (\E y \in pending' : y.origin = d[1]) \/ d[1] \in dropped'
  BY <1>2
<1>8. NothingIsLost'
  BY <1>1, <1>2, <1>3, <1>7 DEF NothingIsLost
<1>9. OneKeyLives'
  <2>1. Gone \subseteq Gone' /\ dropped' \subseteq Gone'
    BY <1>2, <1>3 DEF Gone
  <2>2. \A d \in drawn : Answered(d)'
    BY <1>1, <1>3, <1>7, <2>1 DEF OneKeyLives, Answered
  <2>3. QED
    BY <1>1, <1>3, <2>1, <2>2 DEF OneKeyLives
<1>10. \A q \in Clients : (InAdding(client[q]) /\ FoundNone(client[q]))'
  BY <1>2, <1>3, OthersKeep DEF Grown
<1>11. QED
  BY <1>5, <1>6, <1>8, <1>9, <1>10 DEF PendingInv

\* A reader's page replaces the cache and takes nothing from the queue.
LEMMA RewriteStep ==
  ASSUME PendingInv, NEW p \in Clients, Rewrite(p)
  PROVE  PendingInv'
<1>1. /\ PendingTyped /\ InAdding(client[p]) /\ client[p] \in Adds /\ client[p].pc = "rewrite"
  BY DEF PendingInv, PendingTyped, Rewrite
<1>2. pending' = pending /\ cache' = client[p].page
  BY DEF Rewrite, Reconciled
<1>3. UNCHANGED <<server, drawn, stored, reported, dropped, doubled, cleared>>
  BY DEF Rewrite
<1>4. client' = [client EXCEPT ![p] = Resting] /\ client'[p] = Resting
  BY <1>1 DEF Rewrite, PendingTyped
<1>5. /\ client' \in [Clients -> Adds]
      /\ \A q \in Clients : (InAdding(client[q]) /\ FoundNone(client[q]))'
  BY <1>3, <1>4, RestHolds, RestTyped, ClientsKeep DEF Grown
<1>6. WereStored(cache)' /\ cache' \subseteq CacheRows
  BY <1>1, <1>2, <1>3 DEF InAdding, WereStored, Adds, PageRows, CacheRows
<1>7. PendingTyped' /\ DrawnOnce'
  BY <1>1, <1>2, <1>3, <1>5, <1>6 DEF PendingInv, PendingTyped, DrawnOnce
<1>8. ServerHeld' /\ ToldHeld' /\ NothingIsLost' /\ OneKeyLives'
  BY <1>2, <1>3 DEF PendingInv, ServerHeld, ToldHeld, NothingIsLost, OneKeyLives, Answered, Gone
<1>9. QED
  BY <1>5, <1>6, <1>7, <1>8 DEF PendingInv

\* The write that was put is reported under the id that is its own, and what is
\* taken from the queue beside it is on the server.
LEMMA CommitStep ==
  ASSUME PendingInv, RepAssumption, NEW p \in Clients, CommitReps(p)
  PROVE  PendingInv'
<1>1. /\ PendingTyped /\ DrawnOnce /\ ServerHeld /\ NothingIsLost /\ OneKeyLives /\ ToldHeld
      /\ InAdding(client[p]) /\ client[p] \in Adds /\ client[p].pc = "commit"
  BY DEF PendingInv, PendingTyped, CommitReps
<1>2. PICK c : c = client[p]
  OBVIOUS
<1>3. /\ c.origin \in Origins /\ c.rep \in Reps /\ <<c.origin, c.rep>> \in drawn
      /\ <<<<Own, c.origin>>, c.rep>> \in stored /\ c.id \in {None, <<Own, c.origin>>}
      /\ WereStored(c.page) /\ c.page \subseteq PageRows
  BY <1>1, <1>2 DEF InAdding, PendingTyped, Adds
<1>4. PICK b \in Bound(c) :
        LET id == b[1]
            seen == IF id # None /\ \E row \in c.page : row.id = id THEN id
                    ELSE IF c.id = None THEN id ELSE None
            kept == {x \in pending : ~(id # None /\ x.origin = c.origin /\ x.state = "pending")}
        IN /\ cache' = Rewritten(c.page, Kept(id, c.origin, c.rep))
           /\ pending' = IF id = None THEN Reasoned(kept, c.origin, b[2])
                         ELSE kept \ Reconciled(c.page, seen)
           /\ cleared' = IF id = None THEN cleared
                         ELSE cleared \cup {x.origin : x \in kept \cap Reconciled(c.page, seen)}
           /\ reported' = IF id = None THEN reported ELSE reported \cup {Kept(id, c.origin, c.rep)}
  BY <1>2, ZenonT(60) DEF CommitReps
<1>5. PICK id : id = b[1]
  OBVIOUS
<1>6. UNCHANGED <<server, drawn, stored, dropped, doubled>>
  BY DEF CommitReps
<1>7. client' = [client EXCEPT ![p] = Resting] /\ client'[p] = Resting
  BY <1>1 DEF CommitReps, PendingTyped
<1>8. \/ id # None /\ Rightful(id, c.origin, c.rep)
      \/ id = None /\ b[2] \in Reasons
  BY <1>1, <1>2, <1>4, <1>5, BoundHeld
<1>9. PICK row : row = Kept(id, c.origin, c.rep)
  OBVIOUS
<1>10. row.id = id /\ row.origin = c.origin /\ row.rep = c.rep /\ row \in CacheRows
  BY <1>3, <1>8, <1>9 DEF Kept, CacheRows, Rightful
<1>11. cache' = {r \in c.page : r.id # id} \cup {row}
  BY <1>4, <1>5, <1>9, <1>10 DEF Rewritten
<1>12. cache' \subseteq CacheRows /\ WereStored(cache)'
  <2>1. cache' \subseteq CacheRows
    BY <1>3, <1>10, <1>11 DEF PageRows, CacheRows
  <2>2. \A r \in cache' : r.id # None => r.origin = r.id[2] /\ <<r.id, r.rep>> \in stored
    BY <1>3, <1>8, <1>10, <1>11 DEF WereStored, Rightful
  <2>3. \A x, y \in cache' : x.id # None /\ x.id = y.id => x = y
    BY <1>3, <1>10, <1>11 DEF WereStored
  <2>4. QED
    BY <1>6, <2>1, <2>2, <2>3 DEF WereStored
<1>13. ServerHeld'
  BY <1>1, <1>6 DEF ServerHeld
<1>14. CASE id = None
  <2> DEFINE Told(x) == IF x.origin = c.origin /\ x.state = "pending"
                        THEN [x EXCEPT !.reason = b[2]] ELSE x
  <2>1. pending' = {Told(x) : x \in pending} /\ UNCHANGED <<cleared, reported>>
    BY <1>4, <1>5, <1>14 DEF Reasoned
  <2>2. \A x \in pending : /\ Told(x) \in QueueRows
                           /\ Told(x).origin = x.origin /\ Told(x).rep = x.rep
    BY <1>1, <1>8, <1>14 DEF PendingTyped, QueueRows, Reasons
  <2>3. SameKeys(pending, pending') /\ pending' \subseteq QueueRows
    <3> HIDE DEF Told
    <3>1. QED
      BY <1>1, <2>1, <2>2 DEF SameKeys, DrawnOnce
  <2>4. DrawnOnce' /\ NothingIsLost' /\ OneKeyLives'
    BY <1>1, <1>6, <2>1, <2>3, SameKeysStep
  <2>5. /\ client' \in [Clients -> Adds]
        /\ \A q \in Clients : (InAdding(client[q]) /\ FoundNone(client[q]))'
    BY <1>6, <1>7, <2>1, RestHolds, RestTyped, ClientsKeep DEF Grown
  <2>6. PendingTyped' /\ ToldHeld'
    BY <1>1, <1>6, <1>12, <2>1, <2>3, <2>5 DEF PendingTyped, ToldHeld
  <2>7. QED
    BY <1>12, <1>13, <2>4, <2>5, <2>6 DEF PendingInv
<1>15. CASE id # None
  <2>1. PICK seen : seen = IF \E r \in c.page : r.id = id THEN id
                           ELSE IF c.id = None THEN id ELSE None
    OBVIOUS
  <2>2. PICK kept : kept = {x \in pending : ~(x.origin = c.origin /\ x.state = "pending")}
    OBVIOUS
  <2>3. /\ pending' = kept \ Reconciled(c.page, seen)
        /\ cleared' = cleared \cup {x.origin : x \in kept \cap Reconciled(c.page, seen)}
        /\ reported' = reported \cup {row}
    BY <1>4, <1>5, <1>9, <1>15, <2>1, <2>2
  <2>4. Rightful(id, c.origin, c.rep) /\ row \in PageRows
    BY <1>3, <1>8, <1>9, <1>15 DEF Kept, PageRows, Rightful
  <2>5. pending' \subseteq pending /\ cleared' \subseteq Origins /\ Grown
    BY <1>1, <1>6, <2>2, <2>3 DEF PendingTyped, QueueRows, Grown
  <2>6. /\ client' \in [Clients -> Adds]
        /\ \A q \in Clients : (InAdding(client[q]) /\ FoundNone(client[q]))'
    BY <1>7, <2>5, RestHolds, RestTyped, ClientsKeep
  <2>7. PendingTyped' /\ DrawnOnce'
    BY <1>1, <1>6, <1>12, <2>3, <2>4, <2>5, <2>6 DEF PendingTyped, DrawnOnce
  <2>8. ToldHeld'
    BY <1>1, <1>6, <1>10, <2>3, <2>4 DEF ToldHeld, Rightful, Mistaken
  \* What is taken from the queue.
  <2>9. ASSUME NEW x \in pending, x \notin pending'
        PROVE  \/ x.origin = c.origin
               \/ /\ x.origin \in cleared'
                  /\ seen = id /\ <<<<id[1], x.origin>>, x.rep>> \in stored
    <3>1. x \notin kept \/ x \in Reconciled(c.page, seen)
      BY <2>3, <2>9
    <3>2. CASE x \notin kept
      BY <2>2, <3>2
    <3>3. CASE x \in kept /\ x \in Reconciled(c.page, seen)
      <4>1. seen # None /\ Kept(<<seen[1], x.origin>>, x.origin, x.rep) \in c.page
        BY <3>3 DEF Reconciled
      <4>2. seen = id
        BY <2>1, <4>1
      <4>3. PICK r \in c.page : r.id = <<id[1], x.origin>> /\ r.rep = x.rep
        BY <4>1, <4>2 DEF Kept
      <4>4. r.id \in Ids /\ r.id # None
        BY <1>3, <4>3, RepAssumption DEF PageRows, Ids, Creators
      <4>5. <<r.id, r.rep>> \in stored
        BY <1>3, <4>4 DEF WereStored
      <4>6. x.origin \in cleared'
        BY <2>3, <3>3
      <4>7. QED
        BY <4>2, <4>3, <4>5, <4>6
    <3>4. QED
      BY <3>1, <3>2, <3>3
  <2>10. ASSUME NEW d \in drawn, d[1] = c.origin PROVE d[2] = c.rep
    <3>1. d = <<c.origin, c.rep>>
      BY <1>1, <1>3, <2>10 DEF DrawnOnce
    <3>2. QED
      BY <3>1
  <2>11. NothingIsLost'
    <3> SUFFICES ASSUME NEW d \in drawn, ~(\E x \in pending' : x.origin = d[1]),
                        d[1] \notin dropped, <<<<Own, d[1]>>, d[2]>> \notin stored
                 PROVE  (\E t \in reported' : Mistaken(t)) /\ <<<<Other, d[1]>>, d[2]>> \in stored
      BY <1>6 DEF NothingIsLost, Mistaken
    <3>1. CASE \E x \in pending : x.origin = d[1]
      <4>1. PICK x \in pending : x.origin = d[1]
        BY <3>1
      <4>2. d = <<x.origin, x.rep>>
        BY <1>1, <4>1 DEF DrawnOnce
      <4>3. x.rep = d[2]
        BY <4>2
      <4>4. d[1] # c.origin
        BY <1>3, <2>10
      <4>5. seen = id /\ <<<<id[1], d[1]>>, d[2]>> \in stored
        BY <2>9, <4>1, <4>3, <4>4
      <4>6. id[1] = Other
        BY <2>4, <4>5 DEF Rightful, Ids, Creators
      <4>7. Mistaken(row) /\ row \in reported'
        BY <1>10, <2>3, <4>6, CreatorAssumption DEF Mistaken
      <4>8. QED
        BY <4>5, <4>6, <4>7
    <3>2. CASE ~\E x \in pending : x.origin = d[1]
      BY <1>1, <2>3, <3>2 DEF NothingIsLost
    <3>3. QED
      BY <3>1, <3>2
  <2>12. \A d \in drawn : Answered(d)'
    <3> SUFFICES ASSUME NEW d \in drawn, d[1] \notin Gone', ~(\E x \in pending' : x.origin = d[1])
                 PROVE  \E t \in reported' : t.rep = d[2]
      BY DEF Answered
    <3>1. d[1] \notin Gone /\ Gone' = dropped \cup cleared'
      BY <1>6, <2>3 DEF Gone
    <3>2. CASE \E x \in pending : x.origin = d[1]
      <4>1. d[1] = c.origin
        BY <2>9, <3>1, <3>2
      <4>2. d[2] = row.rep /\ row \in reported'
        BY <1>10, <2>3, <2>10, <4>1
      <4>3. QED
        BY <4>2
    <3>3. CASE ~\E x \in pending : x.origin = d[1]
      BY <1>1, <2>3, <3>1, <3>3 DEF OneKeyLives, Answered
    <3>4. QED
      BY <3>2, <3>3
  <2>13. Gone \subseteq Gone'
    BY <1>6, <2>3 DEF Gone
  <2>14. OneKeyLives'
    BY <1>1, <1>6, <2>12, <2>13 DEF OneKeyLives
  <2>15. QED
    BY <1>12, <1>13, <2>6, <2>7, <2>8, <2>11, <2>14 DEF PendingInv
<1>16. QED
  BY <1>14, <1>15

\* Every state satisfies the types and the strengthened invariant.
THEOREM PendingInductive == PendingSpec => []PendingInv
<1>1. PendingInit => PendingInv
  BY InitPending, RepAssumption
<1>2. PendingInv /\ [PendingNext]_pendingVars => PendingInv'
  <2> SUFFICES ASSUME PendingInv, [PendingNext]_pendingVars PROVE PendingInv'
    OBVIOUS
  <2>1. ASSUME NEW p \in Clients, NEW rep \in Reps, Open(p, rep) PROVE PendingInv'
    BY <2>1, OpenStep, RepAssumption
  <2>2. ASSUME NEW p \in Clients, Queue(p) PROVE PendingInv'
    BY <2>2, QueueStep
  <2>3. ASSUME NEW p \in Clients, PutRep(p) PROVE PendingInv'
    BY <2>3, PutStep, RepAssumption
  <2>4. ASSUME NEW p \in Clients, Refuse(p) PROVE PendingInv'
    BY <2>4, RefuseStep
  <2>5. ASSUME NEW p \in Clients, FetchReps(p) PROVE PendingInv'
    BY <2>5, FetchStep, RepAssumption
  <2>6. ASSUME NEW p \in Clients, CommitReps(p) PROVE PendingInv'
    BY <2>6, CommitStep, RepAssumption
  <2>7. ASSUME NEW p \in Clients, Rewrite(p) PROVE PendingInv'
    BY <2>7, RewriteStep
  <2>8. ASSUME NEW p \in Clients, Abort(p) PROVE PendingInv'
    BY <2>8, AbortStep
  <2>9. CASE Drop
    BY <2>9, DropStep
  <2>10. CASE Elsewhere
    BY <2>10, ElsewhereStep, RepAssumption
  <2>11. CASE UNCHANGED pendingVars
    <3>1. UNCHANGED <<server, pending, cache, client, drawn, stored, reported, dropped, doubled, cleared>>
      BY <2>11 DEF pendingVars
    <3>2. \A q \in Clients : (InAdding(client[q]) /\ FoundNone(client[q]))'
      BY <3>1, OthersKeep DEF Grown
    <3>3. PendingTyped' /\ DrawnOnce' /\ ServerHeld' /\ WereStored(cache)' /\ ToldHeld'
      BY <3>1 DEF PendingInv, PendingTyped, DrawnOnce, ServerHeld, WereStored, ToldHeld
    <3>4. NothingIsLost' /\ OneKeyLives'
      BY <3>1 DEF PendingInv, NothingIsLost, OneKeyLives, Answered, Gone
    <3>5. QED
      BY <3>2, <3>3, <3>4 DEF PendingInv
  <2>12. QED
    BY <2>1, <2>2, <2>3, <2>4, <2>5, <2>6, <2>7, <2>8, <2>9, <2>10, <2>11 DEF PendingNext
<1>3. QED
  BY <1>1, <1>2, PTL DEF PendingSpec

LEMMA KeptFromInv == PendingInv => RepsAreKept
<1> SUFFICES ASSUME PendingInv PROVE RepsAreKept
  OBVIOUS
<1>1. \A p \in Clients : client[p] \in Adds
  BY DEF PendingInv, PendingTyped
<1>2. PendingTypeOK
  BY <1>1 DEF PendingInv, PendingTyped, PendingTypeOK, DrawnOnce, WereStored, QueueRows, Adds
<1>3. NeverForeign
  BY DEF PendingInv, ToldHeld, WereStored, NeverForeign
<1>4. QED
  BY <1>2, <1>3 DEF PendingInv, RepsAreKept

\* A rep leaves the queue only dropped or stored, no id of someone else's is told
\* or cached unless this host's row was overwritten, and a key is one rep's
\* (_bind_server_ids, _reconcile_pending_reps, _commit_rep_cache).
THEOREM RepsAreKeptThm == PendingSpec => []RepsAreKept
  BY PendingInductive, KeptFromInv, PTL

\* The keys the server counts a rep under were drawn for it: one that lives, and
\* those that are gone.
LEMMA CountedFromInv == PendingInv => CountedOnce
<1> SUFFICES ASSUME PendingInv, NEW rep \in Reps \ doubled
             PROVE  Cardinality({o \in Origins : server[<<Own, o>>] = rep})
                      <= 1 + Cardinality({o \in dropped \cup cleared : <<o, rep>> \in drawn})
  BY DEF CountedOnce
<1> DEFINE counted == {o \in Origins : server[<<Own, o>>] = rep}
           gone == {o \in dropped \cup cleared : <<o, rep>> \in drawn}
           live == counted \ gone
<1>1. PendingTyped /\ ServerHeld /\ OneKeyLives
  BY DEF PendingInv
<1>2. IsFiniteSet(counted) /\ IsFiniteSet(gone)
  <2>1. counted \in SUBSET Origins /\ gone \in SUBSET Origins
    BY <1>1 DEF PendingTyped
  <2> HIDE DEF counted, gone
  <2>2. QED
    BY <2>1, FS_Subset, RepAssumption
<1>3. \A o \in counted : <<o, rep>> \in drawn
  <2> SUFFICES ASSUME NEW o \in counted PROVE <<o, rep>> \in drawn
    OBVIOUS
  <2>1. <<Own, o>> \in Ids /\ server[<<Own, o>>] = rep /\ rep # None
    BY RepAssumption DEF Ids, Creators
  <2>2. <<<<Own, o>>, rep>> \in stored
    BY <1>1, <2>1 DEF ServerHeld
  <2>3. \A w \in stored : w[1][1] = Own /\ w[2] \in Reps => <<w[1][2], w[2]>> \in drawn
    BY <1>1 DEF ServerHeld
  <2>4. QED
    BY <2>2, <2>3
<1>4. \A o, q \in live : o = q
  <2> SUFFICES ASSUME NEW o \in live, NEW q \in live PROVE o = q
    OBVIOUS
  <2>1. <<o, rep>> \in drawn /\ <<q, rep>> \in drawn /\ o \notin Gone /\ q \notin Gone
    BY <1>3 DEF Gone
  <2>2. <<o, rep>> = <<q, rep>>
    BY <1>1, <2>1 DEF OneKeyLives
  <2>3. QED
    BY <2>2
<1>5. IsFiniteSet(live) /\ Cardinality(live) <= 1 /\ Cardinality(live) \in Nat
  <2> HIDE DEF counted, gone
  <2>1. IsFiniteSet(live)
    BY <1>2, FS_Subset
  <2> HIDE DEF live
  <2>2. CASE live = {}
    BY <2>1, <2>2, FS_EmptySet
  <2>3. CASE live # {}
    <3>1. PICK o : o \in live
      BY <2>3
    <3>2. live = {o}
      BY <1>4, <3>1
    <3>3. QED
      BY <2>1, <3>2, FS_Singleton
  <2>4. QED
    BY <2>2, <2>3
<1>6. /\ IsFiniteSet(live \cup gone)
      /\ Cardinality(live \cup gone) <= Cardinality(live) + Cardinality(gone)
  <2> HIDE DEF live, gone
  <2>1. IsFiniteSet(live \cap gone)
    BY <1>5, FS_Subset
  <2>2. /\ Cardinality(live) \in Nat /\ Cardinality(gone) \in Nat
        /\ Cardinality(live \cap gone) \in Nat
    BY <1>2, <1>5, <2>1, FS_CardinalityType
  <2>3. /\ IsFiniteSet(live \cup gone)
        /\ Cardinality(live \cup gone)
             = Cardinality(live) + Cardinality(gone) - Cardinality(live \cap gone)
    BY <1>2, <1>5, FS_Union
  <2>4. QED
    BY <2>2, <2>3
<1>7. Cardinality(counted) <= Cardinality(live \cup gone)
  <2>1. counted \subseteq live \cup gone
    OBVIOUS
  <2> HIDE DEF counted, live, gone
  <2>2. QED
    BY <1>6, <2>1, FS_Subset
<1>8. /\ Cardinality(counted) \in Nat /\ Cardinality(gone) \in Nat
      /\ Cardinality(live \cup gone) \in Nat
  BY <1>2, <1>6, FS_CardinalityType
<1> HIDE DEF counted, live, gone
<1>9. Cardinality(counted) <= 1 + Cardinality(gone)
  BY <1>5, <1>6, <1>7, <1>8
<1>10. QED
  BY <1>9 DEF counted, gone

\* A rep is counted once, and once more at most for each of its keys that was
\* dropped or taken from the queue by another add (_open_pending_rep).
THEOREM CountedOnceThm == PendingSpec => []CountedOnce
  BY PendingInductive, CountedFromInv, PTL

------------------------------------------------------------------------------
(* The grades that follow from them (Grading).                             *)
\* What an operator has in hand is a proposal as it is computed of what its
\* digest names, and what it stamps are targets the proposal has open.
AsComputed(shown) == shown = Proposal(shown.digest[1], shown.digest[2], shown.digest[3])
InputsTyped(d) == d[1] \in Seq(Repetitions) /\ d[2] \in Placements
Deciding(c) ==
    /\ c = [pc |-> c.pc, shown |-> c.shown, rows |-> c.rows]
    /\ c.pc \in {"idle", "shown", "stamped"}
    /\ c.pc = "idle" => c = GradingIdle
    /\ c.pc = "shown" => c.rows = None
    /\ c.pc # "idle" => AsComputed(c.shown) /\ InputsTyped(c.shown.digest)
    /\ c.pc = "stamped" => \A e \in DOMAIN c.rows :
          e \in c.shown.open /\ c.rows[e] = c.shown.targets[e]
\* A run is a run of one task.
OneTaskPerRun ==
    /\ \A i \in DOMAIN reps : reps[i].run \in 1 .. Len(reps)
    /\ \A i, j \in DOMAIN reps : reps[i].run = reps[j].run => reps[i].task = reps[j].task
GradingInv ==
    /\ reps \in Seq(Repetitions) /\ Len(reps) <= MaxReps /\ OneTaskPerRun
    /\ placed \in Placements
    /\ op = [o \in Operators |-> op[o]] /\ \A o \in Operators : Deciding(op[o])

\* A grade among some is their best.
LEMMA BestExists ==
    ASSUME NEW S \in SUBSET Grades, S # {}, Top \in Nat
    PROVE  Max(S) \in S /\ \A y \in S : y <= Max(S)
<1> DEFINE T == {Top - x : x \in S}
<1>1. T \subseteq Nat /\ T # {}
    <2>1. ASSUME NEW x \in S PROVE Top - x \in Nat
        <3>1. x \in Int /\ x <= Top BY DEF Grades
        <3>2. QED BY <3>1
    <2>2. QED BY <2>1
<1> DEFINE R == OpToRel(<, Nat)
<1>2. PICK m \in T : \A y \in T : ~(<<y, m>> \in R)
    <2> HIDE DEF R, T
    <2>1. IsWellFoundedOn(R, Nat) BY NatLessThanWellFounded DEF R
    <2>2. QED BY <1>1, <2>1, WFMin
<1>3. \A y \in T : ~(y < m) BY <1>1, <1>2 DEF OpToRel
<1>4. PICK x \in S : m = Top - x OBVIOUS
<1>5. \A y \in S : x >= y
    <2> SUFFICES ASSUME NEW y \in S PROVE x >= y OBVIOUS
    <2>1. Top - y \in T /\ ~(Top - y < m) BY <1>3
    <2>2. x \in Int /\ y \in Int BY DEF Grades
    <2>3. QED BY <1>4, <2>1, <2>2
<1>6. QED BY <1>5 DEF Max

\* Two repetitions of one run that both count have one effort.
LEMMA OneEffortPerRun ==
    ASSUME NEW seq, NEW among, NEW i \in OncePerRun(seq, among), NEW j \in OncePerRun(seq, among),
           seq[i].run = seq[j].run
    PROVE  i = j \/ seq[i].effort = seq[j].effort
<1> DEFINE Group(k) == {l \in among : seq[l].run = seq[k].run}
           Named(k) == {l \in Group(k) : seq[l].effort # Unspelled}
           Same(k) == \A l \in Group(k) : seq[l].effort = seq[k].effort
<1>1. /\ i \in among /\ j \in among
      /\ Same(i) \/ i = Min(IF Named(i) # {} THEN Named(i) ELSE Group(i))
      /\ Same(j) \/ j = Min(IF Named(j) # {} THEN Named(j) ELSE Group(j))
    BY DEF OncePerRun
<1>2. Group(i) = Group(j) /\ Named(i) = Named(j) OBVIOUS
<1>3. i \in Group(j) /\ j \in Group(i) BY <1>1
<1>4. CASE Same(i) \/ Same(j) BY <1>3, <1>4
<1>5. CASE ~Same(i) /\ ~Same(j)
    <2> HIDE DEF Group, Named, Same
    <2>1. QED BY <1>1, <1>2, <1>5
<1>6. QED BY <1>4, <1>5

\* Two repetitions of one task that both count are of two rungs.
LEMMA OneRungPerTask ==
    ASSUME NEW seq, NEW among \in SUBSET Nat, NEW rows,
           NEW i \in OncePerTask(seq, among, rows), NEW j \in OncePerTask(seq, among, rows),
           seq[i].task = seq[j].task, RungOf(seq[i], rows) = RungOf(seq[j], rows)
    PROVE  i = j
<1>1. i \in among /\ j \in among /\ i <= j /\ j <= i BY DEF OncePerTask
<1>2. QED BY <1>1

\* What counts is sound evidence.
LEMMA CountedAreSound ==
    ASSUME NEW seq, NEW rows
    PROVE  /\ OncePerRun(seq, Sound(seq, rows)) \subseteq Sound(seq, rows)
           /\ Counted(seq, rows) \subseteq OncePerRun(seq, Sound(seq, rows))
           /\ Sound(seq, rows) \subseteq DOMAIN seq
BY DEF Counted, OncePerTask, OncePerRun, Sound

LEMMA RunCounts == ASSUME GradingInv PROVE RunCountsOnce
<1> DEFINE A == OncePerRun(reps, Sound(reps, placed))
<1> SUFFICES ASSUME NEW i \in Counted(reps, placed), NEW j \in Counted(reps, placed),
                    reps[i].run = reps[j].run
             PROVE  i = j
    BY DEF RunCountsOnce
<1>1. /\ i \in A /\ j \in A /\ A \in SUBSET Nat /\ i \in DOMAIN reps /\ j \in DOMAIN reps
    <2>1. DOMAIN reps \subseteq Nat BY DEF GradingInv
    <2>2. QED BY <2>1, CountedAreSound
<1>2. reps[i].task = reps[j].task BY <1>1 DEF GradingInv, OneTaskPerRun
<1>3. CASE reps[i].effort = reps[j].effort
    <2>1. RungOf(reps[i], placed) = RungOf(reps[j], placed) BY <1>3 DEF RungOf
    <2>2. i \in OncePerTask(reps, A, placed) /\ j \in OncePerTask(reps, A, placed) BY DEF Counted
    <2> HIDE DEF A
    <2>3. QED BY <1>1, <1>2, <2>1, <2>2, OneRungPerTask
<1>4. QED BY <1>1, <1>3, OneEffortPerRun

\* The failures among some repetitions, and the passes at a grade.
FailuresOf(seq, own) == {i \in own : seq[i].kind \in Failures}
PassesOf(seq, own, g) == {i \in own : seq[i].kind = "pass" /\ seq[i].grade = g}

\* What a rung's verdict rests on when it promotes.
LEMMA PromotionRests ==
    ASSUME NEW seq, NEW own, NEW current, NEW least, NEW v, Top \in Nat,
           v = RungVerdict(seq, own, current, least), v.action = "promote"
    PROVE  /\ v.target > current /\ FailuresOf(seq, own) = {}
           /\ Cardinality(PassesOf(seq, own, v.target)) >= least
<1> DEFINE qualifying == {g \in Grades : Cardinality(PassesOf(seq, own, g)) >= least}
<1>1. /\ FailuresOf(seq, own) = {} /\ qualifying # {}
      /\ Max(qualifying) > current /\ v.target = Max(qualifying)
    BY DEF RungVerdict, Result, FailuresOf, PassesOf
<1>2. Max(qualifying) \in qualifying BY <1>1, BestExists
<1>3. QED BY <1>1, <1>2

\* Finitely many repetitions are of finitely many tasks.
LEMMA TasksAreFinite ==
    ASSUME NEW S, IsFiniteSet(S)
    PROVE  LET T == {reps[i].task : i \in S}
           IN IsFiniteSet(T) /\ [i \in S |-> reps[i].task] \in Surjection(S, T)
<1> DEFINE T == {reps[i].task : i \in S}
           f == [i \in S |-> reps[i].task]
<1>1. f \in Surjection(S, T) BY DEF Surjection
<1> HIDE DEF f, T
<1>2. IsFiniteSet(T) BY <1>1, FS_Surjection
<1>3. QED BY <1>1, <1>2 DEF f, T

\* Distinct repetitions that count on one rung are of distinct tasks, so that
\* as many tasks stand behind a grade as repetitions.
LEMMA TasksAreCounted ==
    ASSUME GradingInv, NEW e, NEW S \in SUBSET {i \in Counted(reps, placed) : RungOf(reps[i], placed) = e}
    PROVE  LET T == {reps[i].task : i \in S}
           IN IsFiniteSet(S) /\ IsFiniteSet(T) /\ Cardinality(T) = Cardinality(S)
<1> DEFINE A == OncePerRun(reps, Sound(reps, placed))
           T == {reps[i].task : i \in S}
           f == [i \in S |-> reps[i].task]
<1>1. S \subseteq DOMAIN reps /\ A \in SUBSET Nat /\ DOMAIN reps = 1 .. Len(reps) /\ Len(reps) \in Nat
    <2>1. DOMAIN reps = 1 .. Len(reps) /\ Len(reps) \in Nat BY DEF GradingInv
    <2>2. QED BY <2>1, CountedAreSound
<1>2. IsFiniteSet(S)
    <2>1. IsFiniteSet(1 .. Len(reps)) BY <1>1, FS_Interval
    <2>2. QED BY ONLY <2>1, <1>1, FS_Subset
<1>3. ASSUME NEW i \in S, NEW j \in S, reps[i].task = reps[j].task PROVE i = j
    <2>1. /\ i \in OncePerTask(reps, A, placed) /\ j \in OncePerTask(reps, A, placed)
          /\ RungOf(reps[i], placed) = RungOf(reps[j], placed)
        BY DEF Counted
    <2> HIDE DEF A
    <2>2. QED BY <1>1, <1>3, <2>1, OneRungPerTask
<1>4. f \in Surjection(S, T) /\ IsFiniteSet(T) BY <1>2, TasksAreFinite
<1>5. f \in Injection(S, T) BY <1>3 DEF Injection, IsInjective
<1> HIDE DEF f, T
<1>6. QED BY <1>2, <1>4, <1>5, FS_Surjection DEF T

LEMMA PromotionsAreEarned == ASSUME GradingInv, GradingAssumption PROVE EarnedPromotion
<1> DEFINE A == OncePerRun(reps, Sound(reps, placed))
           counted == Counted(reps, placed)
<1>d. DOMAIN reps = 1 .. Len(reps) /\ Len(reps) \in Nat /\ Top \in Nat /\ Thresholds \subseteq Nat
    BY DEF GradingInv, GradingAssumption
<1> SUFFICES ASSUME NEW least \in Thresholds, NEW e \in {f \in Efforts : placed[f].live},
                    Results(reps, placed, least)[e].action = "promote"
             PROVE  LET target == Results(reps, placed, least)[e].target IN
                    /\ target > placed[e].grade
                    /\ Cardinality({reps[i].task : i \in {j \in On(e) : reps[j].kind = "pass"
                                              /\ reps[j].grade = target}}) >= least
                    /\ \A i \in On(e) : (reps[i].kind \in Failures /\ Twins(i) = {}) =>
                          \E j \in On(e) : j > i /\ reps[j].task = reps[i].task
    BY DEF EarnedPromotion, Results
<1> DEFINE own == {i \in counted : RungOf(reps[i], placed) = e}
           target == Results(reps, placed, least)[e].target
           passed == PassesOf(reps, own, target)
           clean == {i \in On(e) : reps[i].kind = "pass" /\ reps[i].grade = target}
<1>1. /\ target > placed[e].grade /\ FailuresOf(reps, own) = {}
      /\ Cardinality(passed) >= least
    <2>1. Results(reps, placed, least)[e] = RungVerdict(reps, own, placed[e].grade, least)
        BY DEF Results
    <2> DEFINE v == Results(reps, placed, least)[e]
    <2>2. v.action = "promote" OBVIOUS
    <2> HIDE DEF own, v
    <2>3. /\ v.target > placed[e].grade /\ FailuresOf(reps, own) = {}
          /\ Cardinality(PassesOf(reps, own, v.target)) >= least
        <3>1. v = RungVerdict(reps, own, placed[e].grade, least) BY <2>1 DEF v
        <3>2. QED BY <1>d, <2>2, <3>1, PromotionRests
    <2>4. QED BY <2>3 DEF v
<1>2. own \subseteq On(e) /\ On(e) \subseteq DOMAIN reps
    <2>1. counted \subseteq Sound(reps, placed) /\ Sound(reps, placed) \subseteq DOMAIN reps
        BY CountedAreSound
    <2>2. QED BY <2>1 DEF On
<1>3. Cardinality({reps[i].task : i \in clean}) >= least
    <2> DEFINE P == {reps[i].task : i \in passed}
               C == {reps[i].task : i \in clean}
    <2>1. IsFiniteSet(P) /\ Cardinality(P) = Cardinality(passed)
        <3>1. passed \in SUBSET own BY DEF PassesOf
        <3> HIDE DEF passed
        <3>2. QED BY <3>1, TasksAreCounted
    <2>2. P \subseteq C BY <1>2 DEF PassesOf
    <2>3. IsFiniteSet(C)
        <3>1. IsFiniteSet(1 .. Len(reps)) /\ clean \subseteq 1 .. Len(reps) BY <1>2, <1>d, FS_Interval
        <3> HIDE DEF clean
        <3>2. IsFiniteSet(clean) BY ONLY <3>1, FS_Subset
        <3>3. QED BY <3>2, TasksAreFinite
    <2> HIDE DEF P, C
    <2>4. Cardinality(P) <= Cardinality(C) /\ Cardinality(P) \in Nat /\ Cardinality(C) \in Nat
        BY <2>1, <2>2, <2>3, FS_Subset, FS_CardinalityType
    <2>5. least \in Nat BY <1>d
    <2>6. Cardinality(C) >= least BY <1>1, <2>1, <2>4, <2>5
    <2>7. QED BY <2>6 DEF C
<1>4. ASSUME NEW i \in On(e), reps[i].kind \in Failures, Twins(i) = {}
      PROVE  \E j \in On(e) : j > i /\ reps[j].task = reps[i].task
    <2>1. i \in Sound(reps, placed) /\ RungOf(reps[i], placed) = e BY DEF On
    <2>2. i \in A
        <3>1. \A j \in Sound(reps, placed) : reps[j].run = reps[i].run => j = i BY <1>4 DEF Twins
        <3>2. QED BY <2>1, <3>1 DEF OncePerRun
    <2>3. i \notin counted BY <1>1, <1>4, <2>1 DEF FailuresOf
    <2>4. i \notin OncePerTask(reps, A, placed) BY <2>3 DEF Counted
    <2>5. PICK j \in A : /\ reps[j].task = reps[i].task
                         /\ RungOf(reps[j], placed) = RungOf(reps[i], placed) /\ ~(j <= i)
        <3> HIDE DEF A
        <3>1. QED BY <2>2, <2>4 DEF OncePerTask
    <2>6. j \in Sound(reps, placed) BY <2>5, CountedAreSound
    <2>7. j \in On(e) BY <2>1, <2>5, <2>6 DEF On
    <2>8. j > i
        <3>1. i \in Nat /\ j \in Nat BY <1>2, <1>d, <2>7
        <3>2. QED BY <2>5, <3>1
    <2>9. QED BY <2>5, <2>7, <2>8
<1>5. QED BY <1>1, <1>3, <1>4

------------------------------------------------------------------------------
(* The ladder of a profile, and what is withdrawn to keep it.              *)
\* Some numbers have a least.
LEMMA LeastOf ==
    ASSUME NEW T \in SUBSET Nat, T # {}
    PROVE  \E m \in T : \A y \in T : m <= y
<1> DEFINE R == OpToRel(<, Nat)
<1>1. PICK m \in T : \A y \in T : ~(<<y, m>> \in R)
    <2> HIDE DEF R
    <2>1. IsWellFoundedOn(R, Nat) BY NatLessThanWellFounded DEF R
    <2>2. QED BY <2>1, WFMin
<1>2. \A y \in T : ~(y < m) BY <1>1 DEF OpToRel
<1>3. QED BY <1>2

\* A rank is a place on the ladder, and nobody else's.
LEMMA Ranks ==
    ASSUME GradingAssumption, NEW e \in Efforts
    PROVE  Rank(e) \in Nat /\ Rank(e) <= Len(Ladder) /\ Ladder[Rank(e)] = e
<1>1. \E i \in DOMAIN Ladder : Ladder[i] = e BY DEF Efforts
<1>2. Rank(e) \in DOMAIN Ladder /\ Ladder[Rank(e)] = e BY <1>1 DEF Rank
<1>3. Ladder \in Seq(Efforts) BY DEF GradingAssumption
<1>4. QED BY <1>2, <1>3

LEMMA LowestOf ==
    ASSUME GradingAssumption, NEW S \in SUBSET Efforts, S # {}
    PROVE  \E e \in S : \A f \in S : Rank(e) <= Rank(f)
<1> DEFINE T == {Rank(e) : e \in S}
<1>1. T \in SUBSET Nat /\ T # {} BY Ranks
<1> HIDE DEF T
<1>2. PICK m \in T : \A y \in T : m <= y BY <1>1, LeastOf
<1>3. PICK e \in S : m = Rank(e) BY DEF T
<1>4. QED BY <1>2, <1>3 DEF T

LEMMA HighestOf ==
    ASSUME GradingAssumption, NEW S \in SUBSET Efforts, S # {}
    PROVE  \E e \in S : \A f \in S : Rank(f) <= Rank(e)
<1> DEFINE T == {Len(Ladder) - Rank(e) : e \in S}
<1>0. Len(Ladder) \in Nat BY DEF GradingAssumption
<1>1. T \in SUBSET Nat /\ T # {}
    <2>1. ASSUME NEW e \in S PROVE Len(Ladder) - Rank(e) \in Nat BY <1>0, Ranks
    <2>2. QED BY <2>1
<1> HIDE DEF T
<1>2. PICK m \in T : \A y \in T : m <= y BY <1>1, LeastOf
<1>3. PICK e \in S : m = Len(Ladder) - Rank(e) BY DEF T
<1>4. ASSUME NEW f \in S PROVE Rank(f) <= Rank(e)
    <2>1. m <= Len(Ladder) - Rank(f) BY <1>2 DEF T
    <2>2. QED BY <1>0, <1>3, <2>1, Ranks
<1>5. QED BY <1>4

\* The next rung below, and the first rung that breaks a ladder.
LEMMA NextUnder ==
    ASSUME GradingAssumption, NEW ladder, DOMAIN ladder \subseteq Efforts, NEW e,
           Lower(ladder, e) # {}
    PROVE  /\ Under(ladder, e) \in Lower(ladder, e)
           /\ \A g \in Lower(ladder, e) : Rank(g) <= Rank(Under(ladder, e))
<1>1. Lower(ladder, e) \in SUBSET Efforts BY DEF Lower
<1>2. \E f \in Lower(ladder, e) : \A g \in Lower(ladder, e) : Rank(g) <= Rank(f)
    BY <1>1, HighestOf
<1>3. QED BY <1>2 DEF Under

LEMMA FirstBreaks ==
    ASSUME GradingAssumption, NEW S \in SUBSET Efforts, S # {} PROVE First(S) \in S
<1>1. \E e \in S : \A f \in S : Rank(e) <= Rank(f) BY LowestOf
<1>2. QED BY <1>1 DEF First

\* A rung above a better one breaks a ladder, however far apart they are.
LEMMA CrossedBreaks ==
    ASSUME GradingAssumption, NEW ladder, DOMAIN ladder \subseteq Efforts,
           \A e \in DOMAIN ladder : ladder[e] \in Int,
           NEW f \in DOMAIN ladder, NEW g \in DOMAIN ladder,
           Rank(f) < Rank(g), ladder[g] < ladder[f]
    PROVE  Inversions(ladder) # {}
<1> DEFINE Worse == {e \in DOMAIN ladder : \E d \in Lower(ladder, e) : ladder[e] < ladder[d]}
<1>1. Worse \in SUBSET Efforts /\ g \in Worse BY DEF Lower
<1>2. PICK e \in Worse : \A d \in Worse : Rank(e) <= Rank(d) BY <1>1, LowestOf
<1>3. PICK d \in Lower(ladder, e) : ladder[e] < ladder[d] OBVIOUS
<1> DEFINE u == Under(ladder, e)
<1>4. u \in DOMAIN ladder /\ Rank(u) < Rank(e) /\ Rank(d) <= Rank(u)
    BY <1>3, NextUnder DEF Lower
<1>5. CASE ladder[e] < ladder[u] BY <1>3, <1>5 DEF Inversions
<1>6. CASE ~(ladder[e] < ladder[u])
    <2>1. d \in DOMAIN ladder /\ e \in DOMAIN ladder BY DEF Lower
    <2> HIDE DEF u
    <2>2. ladder[u] < ladder[d] BY <1>3, <1>4, <1>6, <2>1
    <2>3. d # u BY <2>2, <1>4
    <2>4. Rank(d) # Rank(u)
        <3>1. d \in Efforts /\ u \in Efforts BY <2>1, <1>4
        <3>2. Ladder[Rank(d)] = d /\ Ladder[Rank(u)] = u BY <3>1, Ranks
        <3>3. QED BY <2>3, <3>2
    <2>5. Rank(d) \in Nat /\ Rank(u) \in Nat /\ Rank(e) \in Nat BY <2>1, <1>4, Ranks
    <2>6. d \in Lower(ladder, u) BY <2>1, <2>4, <2>5, <1>4 DEF Lower
    <2>7. u \in Worse BY <1>4, <2>2, <2>6
    <2>8. QED BY <1>2, <1>4, <2>5, <2>7
<1>7. QED BY <1>5, <1>6

------------------------------------------------------------------------------
\* Placements and the targets of changes on live rungs.
Changing(rows, targets, changes) ==
    /\ rows \in Placements
    /\ \A e \in changes : e \in Efforts /\ rows[e].live /\ targets[e] \in Grades

LadderOf(m, rows, targets, offered) ==
    /\ DOMAIN m = {e \in Efforts : rows[e].live} /\ DOMAIN m \subseteq Efforts
    /\ \A e \in DOMAIN m : m[e] \in Int
    /\ \A e \in offered : e \in DOMAIN m /\ m[e] = targets[e]
    /\ \A e \in DOMAIN m \ offered : m[e] = rows[e].grade
LEMMA MergedIs ==
    ASSUME NEW rows, NEW targets, NEW changes, Changing(rows, targets, changes), Top \in Nat,
           NEW offered \in SUBSET changes
    PROVE  LadderOf(Merged(rows, targets, offered), rows, targets, offered)
<1> DEFINE m == Merged(rows, targets, offered)
<1>1. {f \in Efforts : rows[f].live \/ f \in offered} = {f \in Efforts : rows[f].live}
    BY DEF Changing
<1>2. m = [e \in {f \in Efforts : rows[f].live} |->
             IF e \in offered THEN targets[e] ELSE rows[e].grade]
    BY <1>1 DEF Merged
<1>3. \A e \in Efforts : rows[e].grade \in Int BY DEF Changing, Placements, Grades
<1>4. \A e \in offered : e \in Efforts /\ rows[e].live /\ targets[e] \in Int BY DEF Changing, Grades
<1> HIDE DEF m
<1>5. LadderOf(m, rows, targets, offered) BY ONLY <1>2, <1>3, <1>4 DEF LadderOf
<1>6. QED BY <1>5 DEF m

\* Something is withdrawn, and it was on offer.
LEMMA WithdrawsSome ==
    ASSUME NEW rows, NEW targets, NEW offered, offered # {},
           Inversions(Merged(rows, targets, offered)) # {}
    PROVE  Withdrawn(rows, targets, offered) # {} /\ Withdrawn(rows, targets, offered) \subseteq offered
BY DEF Withdrawn

\* What is withdrawn has a cause, whatever is kept of the rest.
LEMMA CauseStays ==
    ASSUME GradingAssumption, NEW rows, NEW targets, NEW changes, Changing(rows, targets, changes),
           NEW offered \in SUBSET changes, offered # {},
           Inversions(Merged(rows, targets, offered)) # {},
           NEW x \in Withdrawn(rows, targets, offered),
           NEW kept \in SUBSET (offered \ Withdrawn(rows, targets, offered))
    PROVE  HasCause(x, rows, targets, kept, changes \ kept)
<1> DEFINE ladder == Merged(rows, targets, offered)
           e == First(Inversions(ladder))
           u == Under(ladder, e)
           after == Merged(rows, targets, kept \cup {x})
           raisers == {f \in offered : Rank(f) < Rank(e) /\ targets[f] > ladder[e]}
<1>0. x \in offered /\ x \in changes /\ x \notin kept /\ Top \in Nat
    BY WithdrawsSome DEF GradingAssumption
<1>1. /\ DOMAIN ladder = {d \in Efforts : rows[d].live} /\ DOMAIN ladder \subseteq Efforts
      /\ \A d \in DOMAIN ladder : ladder[d] \in Int
      /\ \A d \in offered : d \in DOMAIN ladder /\ ladder[d] = targets[d]
      /\ \A d \in DOMAIN ladder \ offered : ladder[d] = rows[d].grade
    <2>1. LadderOf(ladder, rows, targets, offered) BY <1>0, MergedIs
    <2> HIDE DEF ladder
    <2>2. QED BY ONLY <2>1 DEF LadderOf
<1>2. /\ DOMAIN after = DOMAIN ladder
      /\ \A d \in DOMAIN after : after[d] \in Int
      /\ \A d \in kept \cup {x} : after[d] = targets[d]
      /\ \A d \in DOMAIN after \ (kept \cup {x}) : after[d] = rows[d].grade
    <2>1. kept \cup {x} \in SUBSET changes BY <1>0
    <2>2. LadderOf(after, rows, targets, kept \cup {x}) BY <1>0, <2>1, MergedIs
    <2> HIDE DEF after, ladder
    <2>3. QED BY ONLY <1>1, <2>2 DEF LadderOf
<1>3. e \in Inversions(ladder)
    <2>1. Inversions(ladder) \in SUBSET Efforts BY <1>1 DEF Inversions
    <2>2. QED BY <2>1, FirstBreaks
<1>4. e \in DOMAIN ladder /\ Lower(ladder, e) # {} /\ ladder[e] < ladder[u] BY <1>3 DEF Inversions
<1>5. u \in DOMAIN ladder /\ Rank(u) < Rank(e) BY <1>1, <1>4, NextUnder DEF Lower
<1>6. Withdrawn(rows, targets, offered) =
        IF e \in offered /\ rows[e].grade >= ladder[u] THEN {e}
        ELSE IF raisers # {} THEN raisers ELSE offered
    BY DEF Withdrawn
<1> HIDE DEF ladder, e, u, after, raisers
\* A lower rung that is better than a higher one, with only x changed.
<1>7. ASSUME NEW f \in DOMAIN ladder, NEW g \in DOMAIN ladder, Rank(f) < Rank(g),
             after[g] < after[f]
      PROVE  Inversions(after) # {}
    <2>1. DOMAIN after \subseteq Efforts /\ f \in DOMAIN after /\ g \in DOMAIN after BY <1>1, <1>2
    <2>2. QED BY ONLY GradingAssumption, <1>2, <1>7, <2>1, CrossedBreaks
<1>8. CASE e \in offered /\ rows[e].grade >= ladder[u]
    <2>1. x = e BY <1>6, <1>8
    <2>2. after[e] = targets[e] /\ ladder[e] = targets[e] BY <1>1, <1>2, <1>8, <2>1
    <2>3. CASE u \in offered /\ u \notin kept
        <3>1. u \in changes \ kept /\ Crosses(u, x, targets)
            BY <1>1, <1>4, <1>5, <2>1, <2>2, <2>3 DEF Crosses
        <3>2. QED BY <3>1 DEF HasCause
    <2>4. CASE u \in kept \/ u \notin offered
        <3>1. u # e
            <4>1. ladder[e] \in Int BY <1>1, <1>4
            <4>2. QED BY <1>4, <4>1
        <3>2. after[u] = ladder[u] BY <1>1, <1>2, <1>5, <2>1, <2>4, <3>1
        <3>3. after[e] < after[u] BY <1>4, <2>2, <3>2
        <3>4. QED BY <1>4, <1>5, <1>7, <3>3 DEF HasCause, after
    <2>5. QED BY <2>3, <2>4
<1>9. CASE ~(e \in offered /\ rows[e].grade >= ladder[u]) /\ raisers # {}
    <2>1. x \in raisers BY <1>6, <1>9
    <2>2. Rank(x) < Rank(e) /\ targets[x] > ladder[e] BY <2>1 DEF raisers
    <2>3. CASE e \in offered /\ e \notin kept
        <3>1. e \in changes \ kept /\ Crosses(x, e, targets) BY <1>1, <2>2, <2>3 DEF Crosses
        <3>2. QED BY <3>1 DEF HasCause
    <2>4. CASE e \in kept \/ e \notin offered
        <3>1. x # e BY <2>4, <1>0
        <3>2. after[e] = ladder[e] BY <1>1, <1>2, <1>4, <2>4, <3>1
        <3>3. after[x] = targets[x] /\ after[x] \in Int /\ after[e] \in Int BY <1>0, <1>1, <1>2, <1>4
        <3>4. after[e] < after[x] BY <2>2, <3>2, <3>3
        <3>5. QED BY <1>0, <1>1, <1>4, <1>7, <2>2, <3>4 DEF HasCause, after
    <2>5. QED BY <2>3, <2>4
<1>10. CASE ~(e \in offered /\ rows[e].grade >= ladder[u]) /\ raisers = {}
    <2>1. kept = {} BY <1>6, <1>10
    <2>2. u \notin offered
        <3>1. u \in offered => targets[u] = ladder[u] BY <1>1
        <3>2. QED BY <3>1, <1>1, <1>4, <1>5, <1>10 DEF raisers
    <2>3. after[u] = rows[u].grade /\ ladder[u] = rows[u].grade BY <1>0, <1>1, <1>2, <1>5, <2>1, <2>2
    <2>4. after[e] < after[u]
        <3>1. CASE e = x BY <1>0, <1>1, <1>2, <1>4, <2>3, <3>1
        <3>2. CASE e # x /\ e \notin offered
            <4>1. after[e] = ladder[e] BY <1>1, <1>2, <1>4, <2>1, <3>2
            <4>2. QED BY <4>1, <1>4, <2>3
        <3>3. CASE e # x /\ e \in offered
            <4>1. after[e] = rows[e].grade /\ after[e] \in Int BY <1>1, <1>2, <1>4, <2>1, <3>3
            <4>2. ladder[u] \in Int BY <1>1, <1>5
            <4>3. QED BY <4>1, <4>2, <1>10, <2>3, <3>3
        <3>4. QED BY <3>1, <3>2, <3>3
    <2>5. QED BY <1>4, <1>5, <1>7, <2>4 DEF HasCause, after
<1>11. QED BY <1>8, <1>9, <1>10

------------------------------------------------------------------------------
(* The withdrawing comes to an end: the function of Applyable exists.      *)
Stops(rows, targets, o) == o = {} \/ Inversions(Merged(rows, targets, o)) = {}
Sifts(K, rows, targets, changes) ==
    K = [o \in SUBSET changes |->
           IF Stops(rows, targets, o) THEN o ELSE K[o \ Withdrawn(rows, targets, o)]]

LEMMA FewerLeft ==
    ASSUME NEW rows, NEW targets, NEW changes, IsFiniteSet(changes),
           NEW o \in SUBSET changes, ~Stops(rows, targets, o)
    PROVE  LET rest == o \ Withdrawn(rows, targets, o)
           IN rest \in SUBSET changes /\ Cardinality(rest) \in Nat /\ Cardinality(o) \in Nat
              /\ Cardinality(rest) < Cardinality(o)
<1> DEFINE rest == o \ Withdrawn(rows, targets, o)
<1>1. rest \in SUBSET o /\ rest # o BY WithdrawsSome DEF Stops
<1>2. IsFiniteSet(o) BY FS_Subset
<1> HIDE DEF rest
<1>3. IsFiniteSet(rest) /\ Cardinality(rest) <= Cardinality(o) /\ Cardinality(rest) # Cardinality(o)
    BY <1>1, <1>2, FS_Subset
<1>4. Cardinality(rest) \in Nat /\ Cardinality(o) \in Nat BY <1>2, <1>3, FS_CardinalityType
<1>5. rest \in SUBSET changes /\ Cardinality(rest) < Cardinality(o) BY <1>1, <1>3, <1>4
<1>6. QED BY <1>4, <1>5 DEF rest

LEMMA SiftExists ==
    ASSUME NEW rows, NEW targets, NEW changes, IsFiniteSet(changes)
    PROVE  \E K : Sifts(K, rows, targets, changes)
<1> DEFINE Upto(n) == {o \in SUBSET changes : Cardinality(o) <= n}
           Rest(o) == o \ Withdrawn(rows, targets, o)
           Partly(K, n) == K = [o \in Upto(n) |-> IF Stops(rows, targets, o) THEN o ELSE K[Rest(o)]]
           Lacking == {n \in Nat : ~\E K : Partly(K, n)}
<1>1. \A o \in SUBSET changes : Cardinality(o) \in Nat /\ Cardinality(o) <= Cardinality(changes)
    BY FS_Subset, FS_CardinalityType
<1>2. \A o \in SUBSET changes : ~Stops(rows, targets, o) =>
         Rest(o) \in SUBSET changes /\ Cardinality(Rest(o)) < Cardinality(o)
    BY FewerLeft
<1>3. ASSUME NEW n \in Lacking, \A k \in Lacking : n <= k PROVE FALSE
    <2>1. n # 0
        <3>1. \A o \in Upto(0) : Stops(rows, targets, o)
            <4>1. \A o \in Upto(0) : o = {}
                <5> SUFFICES ASSUME NEW o \in Upto(0) PROVE o = {} OBVIOUS
                <5>1. Cardinality(o) = 0 /\ IsFiniteSet(o) BY <1>1, FS_Subset
                <5>2. QED BY <5>1, FS_EmptySet
            <4>2. QED BY <4>1 DEF Stops
        <3>2. Partly([o \in Upto(0) |-> o], 0) BY <3>1
        <3> HIDE DEF Partly
        <3>3. 0 \notin Lacking BY <3>2
        <3>4. QED BY <1>3, <3>3
    <2>2. n - 1 \in Nat /\ n - 1 \notin Lacking
        <3>1. n \in Nat OBVIOUS
        <3> HIDE DEF Lacking
        <3>2. QED BY <1>3, <2>1, <3>1
    <2>3. PICK K : Partly(K, n - 1) BY <2>2
    <2> DEFINE L == [o \in Upto(n) |-> IF o \in Upto(n - 1) THEN K[o]
                                       ELSE IF Stops(rows, targets, o) THEN o ELSE K[Rest(o)]]
    <2>4. ASSUME NEW o \in Upto(n)
          PROVE  L[o] = IF Stops(rows, targets, o) THEN o ELSE L[Rest(o)]
        <3>1. o \in Upto(n - 1) => K[o] = IF Stops(rows, targets, o) THEN o ELSE K[Rest(o)] BY <2>3
        <3>2. L[o] = IF Stops(rows, targets, o) THEN o ELSE K[Rest(o)] BY <3>1
        <3>3. CASE Stops(rows, targets, o) BY <3>2, <3>3
        <3>4. CASE ~Stops(rows, targets, o)
            <4>1. Rest(o) \in SUBSET changes /\ Cardinality(Rest(o)) < Cardinality(o) BY <1>2, <3>4
            <4>2. Cardinality(Rest(o)) \in Nat /\ Cardinality(o) \in Nat /\ Cardinality(o) <= n
                BY <1>1, <4>1
            <4>3. Cardinality(Rest(o)) <= n - 1 /\ Cardinality(Rest(o)) <= n BY <4>1, <4>2
            <4> HIDE DEF Rest
            <4>4. Rest(o) \in Upto(n - 1) /\ Rest(o) \in Upto(n) BY <4>1, <4>3
            <4>5. L[Rest(o)] = K[Rest(o)] BY <4>4
            <4>6. QED BY <3>2, <3>4, <4>5
        <3>5. QED BY <3>3, <3>4
    <2>5. Partly(L, n)
        <3>1. L = [o \in Upto(n) |-> L[o]] OBVIOUS
        <3> HIDE DEF L, Rest, Upto
        <3>2. QED BY <2>4, <3>1
    <2>6. QED BY <2>5
<1>4. Lacking = {}
    <2> HIDE DEF Lacking
    <2>1. Lacking \in SUBSET Nat BY DEF Lacking
    <2>2. QED BY <1>3, <2>1, LeastOf
<1>5. PICK K : Partly(K, Cardinality(changes))
    <2>1. Cardinality(changes) \in Nat BY <1>1
    <2>2. QED BY <1>4, <2>1
<1>6. Upto(Cardinality(changes)) = SUBSET changes BY <1>1
<1>7. Sifts(K, rows, targets, changes) BY <1>5, <1>6 DEF Sifts
<1>8. QED BY <1>7

\* What is open can be written as it is, and what is not has a cause.
LEMMA OpenHolds ==
    ASSUME GradingAssumption, NEW rows, NEW targets, NEW changes, Changing(rows, targets, changes)
    PROVE  LET open == Applyable(rows, targets, changes)
           IN /\ open \subseteq changes
              /\ open = {} \/ Inversions(Merged(rows, targets, open)) = {}
              /\ \A x \in changes \ open : HasCause(x, rows, targets, open, changes \ open)
<1>1. IsFiniteSet(changes)
    <2>1. Len(Ladder) \in Nat /\ DOMAIN Ladder = 1 .. Len(Ladder) BY DEF GradingAssumption
    <2>2. IsFiniteSet(1 .. Len(Ladder)) BY <2>1, FS_Interval
    <2>3. Ladder \in Surjection(1 .. Len(Ladder), Efforts)
        <3>1. Ladder \in [1 .. Len(Ladder) -> Efforts] BY <2>1 DEF GradingAssumption
        <3>2. \A e \in Efforts : \E i \in 1 .. Len(Ladder) : Ladder[i] = e BY <2>1 DEF Efforts
        <3>3. QED BY <3>1, <3>2 DEF Surjection
    <2>4. IsFiniteSet(Efforts) BY <2>2, <2>3, FS_Surjection
    <2>5. QED BY <2>4, FS_Subset DEF Changing
<1> DEFINE K == CHOOSE F : Sifts(F, rows, targets, changes)
<1>2. Sifts(K, rows, targets, changes) BY <1>1, SiftExists
<1>3. Applyable(rows, targets, changes) = K[changes] BY DEF Applyable, Sifts, Stops
<1> HIDE DEF K
<1> DEFINE Fine(o) == /\ K[o] \subseteq o
                      /\ Stops(rows, targets, K[o])
                      /\ \A x \in o \ K[o] : HasCause(x, rows, targets, K[o], changes \ K[o])
           Poor == {Cardinality(o) : o \in {s \in SUBSET changes : ~Fine(s)}}
<1>4. Poor \in SUBSET Nat BY <1>1, FS_Subset, FS_CardinalityType
<1>5. ASSUME NEW n \in Poor, \A k \in Poor : n <= k PROVE FALSE
    <2>1. PICK o \in SUBSET changes : ~Fine(o) /\ n = Cardinality(o) OBVIOUS
    <2>2. CASE Stops(rows, targets, o)
        <3>1. K[o] = o BY <1>2, <2>2 DEF Sifts
        <3>2. QED BY <2>1, <2>2, <3>1
    <2>3. CASE ~Stops(rows, targets, o)
        <3> DEFINE rest == o \ Withdrawn(rows, targets, o)
        <3>1. K[o] = K[rest] BY <1>2, <2>3 DEF Sifts
        <3>2. rest \in SUBSET changes /\ Cardinality(rest) < Cardinality(o)
              /\ Cardinality(rest) \in Nat /\ Cardinality(o) \in Nat
            BY <1>1, <2>3, FewerLeft
        <3>3. Fine(rest)
            <4> HIDE DEF Fine, rest
            <4>1. ~Fine(rest) => Cardinality(rest) \in Poor BY <3>2
            <4> HIDE DEF Poor
            <4>2. QED BY <4>1, <1>5, <2>1, <3>2
        <3>4. ASSUME NEW x \in Withdrawn(rows, targets, o)
              PROVE  HasCause(x, rows, targets, K[o], changes \ K[o])
            <4>1. K[o] \in SUBSET rest BY <3>1, <3>3
            <4>2. o # {} /\ Inversions(Merged(rows, targets, o)) # {} BY <2>3 DEF Stops
            <4>3. QED BY <4>1, <4>2, CauseStays
        <3>5. \A x \in o \ K[o] : HasCause(x, rows, targets, K[o], changes \ K[o])
            BY <3>1, <3>3, <3>4
        <3>6. Fine(o) BY <3>1, <3>3, <3>5
        <3>7. QED BY <2>1, <3>6
    <2>4. QED BY <2>2, <2>3
<1>6. Fine(changes)
    <2> HIDE DEF Fine
    <2>1. Poor = {}
        <3> HIDE DEF Poor
        <3>1. QED BY <1>4, <1>5, LeastOf
    <2>2. QED BY <2>1
<1>7. QED BY <1>3, <1>6 DEF Stops

------------------------------------------------------------------------------
\* What a failed repetition was of, as Below reads it.
Failed(seq, i, current) == IF seq[i].grade = None THEN current ELSE seq[i].grade

\* A demotion goes below every failure it is for, or to the last grade.
LEMMA BelowIs ==
    ASSUME NEW seq, NEW current \in Grades, Top \in Nat, NEW against, against # {},
           \A i \in against : Failed(seq, i, current) \in 0 .. current
    PROVE  LET b == Below(seq, against, current)
           IN /\ b \in Grades /\ b <= current
              /\ \A i \in against : b = 0 \/ b < Failed(seq, i, current)
<1> DEFINE T == {Failed(seq, i, current) : i \in against}
           S == {Failed(seq, i, current) - 1 : i \in against}
<1>1. current \in Nat /\ current <= Top BY DEF Grades
<1>2. T \in SUBSET Nat /\ T # {} BY <1>1
<1>3. PICK m \in T : \A t \in T : m <= t
    <2> HIDE DEF T
    <2>1. QED BY <1>2, LeastOf
<1>4. m \in Nat /\ m <= current BY <1>1
<1>5. Min(S) \in S /\ \A s \in S : Min(S) <= s
    <2>1. m - 1 \in S OBVIOUS
    <2>2. \A s \in S : m - 1 <= s
        <3> SUFFICES ASSUME NEW i \in against PROVE m - 1 <= Failed(seq, i, current) - 1 OBVIOUS
        <3>1. m <= Failed(seq, i, current) /\ Failed(seq, i, current) \in Int BY <1>1, <1>3
        <3>2. QED BY <1>4, <3>1
    <2> HIDE DEF S
    <2>3. QED BY <2>1, <2>2 DEF Min
<1>6. Below(seq, against, current) = Max({0, Min(S)}) BY DEF Below, Failed
<1>7. Min(S) \in Int /\ Min(S) < current
    <2>1. PICK i \in against : Min(S) = Failed(seq, i, current) - 1 BY <1>5
    <2> HIDE DEF S
    <2>2. QED BY <1>1, <2>1
<1>8. \A i \in against : Min(S) < Failed(seq, i, current)
    <2> SUFFICES ASSUME NEW i \in against PROVE Min(S) < Failed(seq, i, current) OBVIOUS
    <2>1. Min(S) <= Failed(seq, i, current) - 1 BY <1>5
    <2> HIDE DEF S
    <2>2. QED BY <1>1, <1>7, <2>1
<1> HIDE DEF S
<1>9. Max({0, Min(S)}) = IF Min(S) > 0 THEN Min(S) ELSE 0
    <2>1. CASE Min(S) > 0
        <3>1. \A x \in {0, Min(S)} : (\A y \in {0, Min(S)} : x >= y) <=> x = Min(S) BY <1>7, <2>1
        <3>2. QED BY <2>1, <3>1 DEF Max
    <2>2. CASE ~(Min(S) > 0)
        <3>1. \A x \in {0, Min(S)} : (\A y \in {0, Min(S)} : x >= y) <=> x = 0 BY <1>7, <2>2
        <3>2. QED BY <2>2, <3>1 DEF Max
    <2>3. QED BY <2>1, <2>2
<1>10. Below(seq, against, current) \in 0 .. Top /\ Below(seq, against, current) <= current
    BY <1>1, <1>6, <1>7, <1>9
<1>11. QED BY <1>6, <1>8, <1>9, <1>10 DEF Grades

\* The failures a demotion is for.
Against(seq, own, current) ==
    {i \in FailuresOf(seq, own) \cap Latest(own, DemoteWindow) :
        seq[i].grade = None \/ seq[i].grade \in 0 .. current}
Qualifying(seq, own, least) == {g \in Grades : Cardinality(PassesOf(seq, own, g)) >= least}

\* What a verdict says, case by case.
LEMMA VerdictIs ==
    ASSUME NEW seq, NEW own, NEW current, NEW least, NEW v,
           v = RungVerdict(seq, own, current, least)
    PROVE  /\ v.action = "demote" =>
                 Against(seq, own, current) # {} /\ v.target = Below(seq, Against(seq, own, current), current)
           /\ v.action = "promote" =>
                 /\ FailuresOf(seq, own) = {} /\ Qualifying(seq, own, least) # {}
                 /\ v.target = Max(Qualifying(seq, own, least)) /\ v.target > current
           /\ (Against(seq, own, current) = {} /\ FailuresOf(seq, own) # {}) => v.action = "blocked"
<1>1. Cardinality({}) = 0 BY FS_EmptySet
<1> DEFINE against == Against(seq, own, current)
           rated == Cardinality(against) >= 2
                      /\ 5 * Cardinality(against) >= RateOf * Cardinality(Latest(own, DemoteWindow))
           falls == rated \/ \E i \in against : seq[i].kind = "postmerge"
           qualifying == Qualifying(seq, own, least)
           fails == FailuresOf(seq, own)
<1>2. v = IF falls
          THEN IF current \in qualifying THEN Result("conflicted", current)
               ELSE Result("demote", Below(seq, against, current))
          ELSE IF fails # {} THEN Result("blocked", current)
          ELSE IF qualifying = {} THEN Result("insufficient", current)
          ELSE IF Max(qualifying) > current THEN Result("promote", Max(qualifying))
          ELSE Result("hold", current)
    BY DEF RungVerdict, Against, Qualifying, FailuresOf, PassesOf
<1>3. falls => against # {}
    <2> HIDE DEF against
    <2>1. QED BY <1>1
<1> HIDE DEF falls, against, qualifying, fails
<1>4. QED BY <1>2, <1>3 DEF Result, against, qualifying, fails

Graded(seq, own) == \A i \in own : seq[i].grade \in Grades \cup {None}
Moves(v) == v.action \in {"promote", "demote"}

LEMMA AgainstIs ==
    ASSUME NEW seq, NEW own, Graded(seq, own), NEW current \in Grades
    PROVE  \A i \in Against(seq, own, current) : Failed(seq, i, current) \in 0 .. current
BY DEF Graded, Against, FailuresOf, Failed, Grades

\* A verdict moves a rung to a grade.
LEMMA VerdictTyped ==
    ASSUME NEW seq, NEW own, Graded(seq, own), NEW current \in Grades, Top \in Nat, NEW least,
           Moves(RungVerdict(seq, own, current, least))
    PROVE  RungVerdict(seq, own, current, least).target \in Grades
<1> DEFINE v == RungVerdict(seq, own, current, least)
<1>1. CASE v.action = "demote"
    <2>1. Against(seq, own, current) # {} /\ v.target = Below(seq, Against(seq, own, current), current)
        BY <1>1, VerdictIs
    <2>2. QED BY <2>1, AgainstIs, BelowIs
<1>2. CASE v.action = "promote"
    <2>1. v.target = Max(Qualifying(seq, own, least)) /\ Qualifying(seq, own, least) # {}
        BY <1>2, VerdictIs
    <2>2. Qualifying(seq, own, least) \in SUBSET Grades BY DEF Qualifying
    <2>3. QED BY <2>1, <2>2, BestExists
<1>3. QED BY <1>1, <1>2 DEF Moves

\* With the change made, the same repetitions ask for no other.
LEMMA VerdictSettles ==
    ASSUME NEW seq, NEW own, Graded(seq, own), NEW current \in Grades, Top \in Nat, NEW least,
           \A i \in own : seq[i].kind \in Failures => seq[i].grade # None,
           NEW v, v = RungVerdict(seq, own, current, least), Moves(v),
           NEW w, w = RungVerdict(seq, own, v.target, least), Moves(w)
    PROVE  w.target = v.target
<1>1. v.target \in Grades BY VerdictTyped
<1>2. CASE v.action = "promote"
    <2>1. FailuresOf(seq, own) = {} /\ v.target = Max(Qualifying(seq, own, least))
        BY <1>2, VerdictIs
    <2>2. Against(seq, own, v.target) = {} BY <2>1 DEF Against
    <2>3. w.action # "demote" BY <2>2, VerdictIs
    <2>4. w.action # "promote"
        <3>1. w.action = "promote" => w.target = Max(Qualifying(seq, own, least)) /\ w.target > v.target
            BY VerdictIs
        <3>2. v.target \in Int BY <1>1 DEF Grades
        <3>3. QED BY <2>1, <3>1, <3>2
    <2>5. QED BY <2>3, <2>4 DEF Moves
<1>3. CASE v.action = "demote"
    <2> DEFINE against == Against(seq, own, current)
    <2>1. against # {} /\ v.target = Below(seq, against, current) BY <1>3, VerdictIs
    <2>2. /\ v.target <= current
          /\ \A i \in against : v.target = 0 \/ v.target < Failed(seq, i, current)
        BY <2>1, AgainstIs, BelowIs
    <2>3. FailuresOf(seq, own) # {} BY <2>1 DEF Against
    <2>4. w.action # "promote" BY <2>3, VerdictIs
    <2>5. w.action = "demote" BY <2>4 DEF Moves
    <2>6. PICK i \in Against(seq, own, v.target) : TRUE BY <2>5, VerdictIs
    <2>7. w.target = Below(seq, Against(seq, own, v.target), v.target) BY <2>5, VerdictIs
    <2>8. w.target \in Grades /\ w.target <= v.target BY <1>1, <2>6, <2>7, AgainstIs, BelowIs
    <2>9. CASE v.target = 0 BY <2>8, <2>9 DEF Grades
    <2>10. CASE v.target # 0
        <3>1. i \in own /\ seq[i].kind \in Failures /\ seq[i].grade \in 0 .. v.target
            BY <2>6 DEF Against, FailuresOf
        <3>2. seq[i].grade \in 0 .. current BY <1>1, <2>2, <3>1 DEF Grades
        <3>3. i \in against BY <2>6, <3>2 DEF Against
        <3>4. Failed(seq, i, current) = seq[i].grade BY <3>1 DEF Failed
        <3>5. QED BY <1>1, <2>2, <2>10, <3>1, <3>3, <3>4 DEF Grades
    <2>11. QED BY <2>9, <2>10
<1>4. QED BY <1>2, <1>3 DEF Moves

\* The repetitions that count on a rung.
CountedOn(seq, rows, e) == {i \in Counted(seq, rows) : RungOf(seq[i], rows) = e}
Verdict(seq, rows, least, e) == RungVerdict(seq, CountedOn(seq, rows, e), rows[e].grade, least)

LEMMA ResultsAre ==
    ASSUME NEW seq, NEW rows, NEW least
    PROVE  Results(seq, rows, least) =
             [e \in {f \in Efforts : rows[f].live} |-> Verdict(seq, rows, least, e)]
BY DEF Results, Verdict, CountedOn

LEMMA CountedAreGraded ==
    ASSUME NEW seq \in Seq(Repetitions), NEW rows, NEW e
    PROVE  /\ Graded(seq, CountedOn(seq, rows, e))
           /\ CountedOn(seq, rows, e) \subseteq {i \in Sound(seq, rows) : RungOf(seq[i], rows) = e}
<1>1. CountedOn(seq, rows, e) \subseteq {i \in Sound(seq, rows) : RungOf(seq[i], rows) = e}
    <2>1. Counted(seq, rows) \subseteq Sound(seq, rows) BY CountedAreSound
    <2>2. QED BY <2>1 DEF CountedOn
<1>2. CountedOn(seq, rows, e) \subseteq DOMAIN seq
    <2>1. Sound(seq, rows) \subseteq DOMAIN seq BY CountedAreSound
    <2>2. QED BY <1>1, <2>1
<1>3. \A i \in DOMAIN seq : seq[i].grade \in Grades \cup {None}
    <2>1. \A i \in DOMAIN seq : seq[i] \in Repetitions OBVIOUS
    <2>2. QED BY <2>1 DEF Repetitions
<1>4. QED BY <1>1, <1>2, <1>3 DEF Graded

\* The parts of a proposal.
LEMMA ProposalIs ==
    ASSUME GradingAssumption, NEW seq \in Seq(Repetitions), NEW rows \in Placements, NEW least,
           NEW p, p = Proposal(seq, rows, least),
           NEW changes, changes = Changes(Results(seq, rows, least), rows)
    PROVE  /\ Changing(rows, p.targets, changes)
           /\ p.open = Applyable(rows, p.targets, changes)
           /\ \A e \in changes : /\ p.targets[e] = Verdict(seq, rows, least, e).target
                                 /\ Moves(Verdict(seq, rows, least, e))
<1> DEFINE results == Results(seq, rows, least)
           V(e) == Verdict(seq, rows, least, e)
<1>1. results = [e \in {f \in Efforts : rows[f].live} |-> V(e)] BY ResultsAre
<1>2. p.targets = [e \in DOMAIN results |-> results[e].target] BY DEF Proposal
<1>3. p.open = Applyable(rows, p.targets, changes) BY <1>2 DEF Proposal
<1>4. ASSUME NEW e \in changes
      PROVE  e \in Efforts /\ rows[e].live /\ p.targets[e] = V(e).target /\ Moves(V(e))
    <2>1. e \in DOMAIN results /\ results[e].action \in {"promote", "demote"} BY DEF Changes
    <2> HIDE DEF V
    <2>2. e \in Efforts /\ rows[e].live /\ results[e] = V(e) BY <1>1, <2>1
    <2>3. QED BY <1>2, <2>1, <2>2 DEF Moves
<1>5. ASSUME NEW e \in changes PROVE p.targets[e] \in Grades
    <2>1. rows[e].grade \in Grades BY <1>4 DEF Placements
    <2>2. V(e).target \in Grades
        BY <1>4, <2>1, CountedAreGraded, VerdictTyped DEF Verdict, GradingAssumption
    <2>3. QED BY <1>4, <2>2
<1>6. QED BY <1>3, <1>4, <1>5 DEF Changing

\* What counts on a rung depends on which rungs are live and on which of them
\* a repetition stands that names none.
LEMMA SameCounted ==
    ASSUME NEW seq, NEW rows, NEW other, \A e \in Efforts : rows[e].live = other[e].live,
           DefaultEffort(rows) = DefaultEffort(other),
           \A i \in DOMAIN seq : seq[i].effort \in Efforts \cup {Unspelled},
           DefaultEffort(rows) \in Efforts \cup {None}
    PROVE  \A e : CountedOn(seq, rows, e) = CountedOn(seq, other, e)
<1>1. \A i \in DOMAIN seq : RungOf(seq[i], rows) = RungOf(seq[i], other) BY DEF RungOf
<1>2. Sound(seq, rows) = Sound(seq, other) BY <1>1 DEF Sound
<1> DEFINE once == OncePerRun(seq, Sound(seq, rows))
<1>3. once \subseteq DOMAIN seq BY CountedAreSound
<1>4. Counted(seq, rows) = Counted(seq, other)
    <2>1. Counted(seq, rows) = OncePerTask(seq, once, rows)
          /\ Counted(seq, other) = OncePerTask(seq, once, other)
        BY <1>2 DEF Counted
    <2> HIDE DEF once
    <2>2. OncePerTask(seq, once, rows) = OncePerTask(seq, once, other)
        BY <1>1, <1>3 DEF OncePerTask
    <2>3. QED BY <2>1, <2>2
<1>5. Counted(seq, rows) \subseteq DOMAIN seq BY CountedAreSound
<1>6. QED BY <1>1, <1>4, <1>5 DEF CountedOn

LEMMA DefaultIs == ASSUME GradingAssumption, NEW rows \in Placements
                   PROVE DefaultEffort(rows) \in Efforts \cup {None}
<1> DEFINE live == {e \in Efforts : rows[e].live}
           best == {e \in live : \A f \in live : rows[f].grade <= rows[e].grade}
<1>1. best # {} => \E e \in best : \A f \in best : Rank(e) <= Rank(f)
    <2>1. best \in SUBSET Efforts OBVIOUS
    <2> HIDE DEF best
    <2>2. QED BY <2>1, LowestOf
<1>2. live # {} => best # {}
    <2> SUFFICES ASSUME live # {} PROVE best # {} OBVIOUS
    <2> DEFINE shown == {rows[e].grade : e \in live}
    <2>1. shown \in SUBSET Grades /\ shown # {}
        <3>1. \A e \in Efforts : rows[e].grade \in Grades BY DEF Placements
        <3>2. QED BY <3>1
    <2> HIDE DEF shown
    <2>2. Max(shown) \in shown /\ \A g \in shown : g <= Max(shown)
        BY <2>1, BestExists DEF GradingAssumption
    <2>3. PICK e \in live : Max(shown) = rows[e].grade BY <2>2 DEF shown
    <2>4. \A f \in live : rows[f].grade <= rows[e].grade BY <2>2, <2>3 DEF shown
    <2>5. QED BY <2>4
<1>3. QED BY <1>1, <1>2 DEF DefaultEffort

LEMMA OpenIs ==
    ASSUME GradingAssumption, NEW seq \in Seq(Repetitions), NEW rows \in Placements, NEW least,
           NEW p, p = Proposal(seq, rows, least),
           NEW changes, changes = Changes(Results(seq, rows, least), rows)
    PROVE  /\ p.open \subseteq changes
           /\ p.open = {} \/ Inversions(Merged(rows, p.targets, p.open)) = {}
           /\ \A e \in changes \ p.open : HasCause(e, rows, p.targets, p.open, changes \ p.open)
           /\ \A e \in p.open : e \in Efforts /\ p.targets[e] \in Grades
<1>1. Changing(rows, p.targets, changes) /\ p.open = Applyable(rows, p.targets, changes)
    BY ProposalIs
<1> DEFINE targets == p.targets
<1> HIDE DEF targets
<1>2. Changing(rows, targets, changes) /\ p.open = Applyable(rows, targets, changes) BY <1>1 DEF targets
<1>3. /\ p.open \subseteq changes
      /\ p.open = {} \/ Inversions(Merged(rows, targets, p.open)) = {}
      /\ \A e \in changes \ p.open : HasCause(e, rows, targets, p.open, changes \ p.open)
    <2> DEFINE open == Applyable(rows, targets, changes)
    <2>1. p.open = open BY <1>2
    <2>2. /\ open \subseteq changes
          /\ open = {} \/ Inversions(Merged(rows, targets, open)) = {}
          /\ \A e \in changes \ open : HasCause(e, rows, targets, open, changes \ open)
        BY ONLY <1>2, GradingAssumption, OpenHolds
    <2> HIDE DEF open
    <2>3. QED BY ONLY <2>1, <2>2
<1>4. \A e \in p.open : e \in Efforts /\ p.targets[e] \in Grades BY <1>1, <1>3 DEF Changing
<1>5. QED BY <1>3, <1>4 DEF targets

LEMMA SettlesFromInv ==
    ASSUME GradingAssumption, reps \in Seq(Repetitions), placed \in Placements
    PROVE  ChangesSettle
<1> SUFFICES ASSUME NEW least \in Thresholds
             PROVE  LET p == Proposal(reps, placed, least)
                        after == [e \in Efforts |-> IF e \in p.open
                                                   THEN [placed[e] EXCEPT !.grade = p.targets[e]]
                                                   ELSE placed[e]]
                        again == Changes(Results(reps, after, least), after)
                    IN \A e \in p.open \cap again :
                          \/ \E i \in On(e) : reps[i].kind \in Failures /\ reps[i].grade = None
                          \/ DefaultEffort(placed) # DefaultEffort(after)
    BY DEF ChangesSettle
<1> DEFINE p == Proposal(reps, placed, least)
           changes == Changes(Results(reps, placed, least), placed)
           after == [e \in Efforts |-> IF e \in p.open THEN [placed[e] EXCEPT !.grade = p.targets[e]]
                                      ELSE placed[e]]
           again == Changes(Results(reps, after, least), after)
<1>1. /\ p.open \subseteq changes
      /\ \A e \in p.open : e \in Efforts /\ p.targets[e] \in Grades
    <2> HIDE DEF p, changes
    <2>1. p = Proposal(reps, placed, least)
          /\ changes = Changes(Results(reps, placed, least), placed) BY DEF p, changes
    <2>2. QED BY <2>1, OpenIs
<1>2. \A e \in changes : /\ p.targets[e] = Verdict(reps, placed, least, e).target
                         /\ Moves(Verdict(reps, placed, least, e))
    <2> HIDE DEF p, changes
    <2>1. p = Proposal(reps, placed, least)
          /\ changes = Changes(Results(reps, placed, least), placed) BY DEF p, changes
    <2>2. QED BY <2>1, ProposalIs
<1>3. /\ \A e \in Efforts : placed[e].live = after[e].live
      /\ \A e \in p.open : after[e].grade = p.targets[e]
    <2> HIDE DEF p
    <2>1. \A e \in Efforts : placed[e] = [grade |-> placed[e].grade, live |-> placed[e].live]
        BY DEF Placements
    <2>2. QED BY <1>1, <2>1
<1> SUFFICES ASSUME NEW e \in p.open, e \in again, DefaultEffort(placed) = DefaultEffort(after),
                    \A i \in On(e) : reps[i].kind \in Failures => reps[i].grade # None
             PROVE  FALSE
    OBVIOUS
<1> DEFINE own == CountedOn(reps, placed, e)
<1>4. CountedOn(reps, after, e) = own
    <2>1. \A i \in DOMAIN reps : reps[i].effort \in Efforts \cup {Unspelled}
        <3>1. \A i \in DOMAIN reps : reps[i] \in Repetitions OBVIOUS
        <3>2. QED BY <3>1 DEF Repetitions
    <2>2. DefaultEffort(placed) \in Efforts \cup {None} BY DefaultIs
    <2> HIDE DEF after
    <2>3. QED BY <1>3, <2>1, <2>2, SameCounted
<1> HIDE DEF p, changes, after
<1> DEFINE v == Verdict(reps, placed, least, e)
           w == Verdict(reps, after, least, e)
<1>5. p.targets[e] = v.target /\ Moves(v) /\ e \in Efforts /\ after[e].grade = v.target
    BY <1>1, <1>2, <1>3
<1>6. Moves(w) /\ w.target # after[e].grade
    <2>1. Results(reps, after, least) =
            [f \in {d \in Efforts : after[d].live} |-> Verdict(reps, after, least, f)]
        BY ResultsAre
    <2> DEFINE results == Results(reps, after, least)
    <2>2. e \in DOMAIN results /\ results[e].action \in {"promote", "demote"}
          /\ results[e].target # after[e].grade
        BY DEF Changes
    <2> HIDE DEF results
    <2>3. results[e] = Verdict(reps, after, least, e) BY <2>1, <2>2 DEF results
    <2>4. QED BY <2>2, <2>3 DEF Moves
<1>7. v = RungVerdict(reps, own, placed[e].grade, least)
      /\ w = RungVerdict(reps, own, v.target, least)
    BY <1>4, <1>5 DEF Verdict
<1>8. Graded(reps, own) BY CountedAreGraded
<1>9. \A i \in own : reps[i].kind \in Failures => reps[i].grade # None
    <2>1. own \subseteq On(e) BY CountedAreGraded DEF On
    <2>2. QED BY <2>1
<1>10. placed[e].grade \in Grades /\ Top \in Nat BY <1>5 DEF Placements, GradingAssumption
<1> HIDE DEF own, v, w
<1>11. w.target = v.target
    BY ONLY <1>5, <1>6, <1>7, <1>8, <1>9, <1>10, VerdictSettles
<1>12. QED BY <1>5, <1>6, <1>11

LEMMA CauseFromInv ==
    ASSUME GradingAssumption, reps \in Seq(Repetitions), placed \in Placements
    PROVE  WithheldForCause
<1> SUFFICES ASSUME NEW least \in Thresholds,
                    NEW p, p = Proposal(reps, placed, least),
                    NEW changes, changes = Changes(Results(reps, placed, least), placed)
             PROVE  /\ p.open = {} \/ Inversions(Merged(placed, p.targets, p.open)) = {}
                    /\ \A e \in changes \ p.open :
                          HasCause(e, placed, p.targets, p.open, changes \ p.open)
    BY DEF WithheldForCause
<1>1. QED BY OpenIs

------------------------------------------------------------------------------
\* A repetition of a run of its own, or of the run of the last one.
LEMMA RecordKeeps ==
    ASSUME GradingInv, NEW rep \in Repetitions, reps' = Append(reps, rep),
           \/ rep.run = Len(reps) + 1
           \/ Len(reps) > 0 /\ rep.run = reps[Len(reps)].run /\ rep.task = reps[Len(reps)].task
    PROVE  reps' \in Seq(Repetitions) /\ OneTaskPerRun'
<1> DEFINE n == Len(reps)
<1>1. /\ n \in Nat /\ DOMAIN reps = 1 .. n /\ reps' \in Seq(Repetitions) /\ Len(reps') = n + 1
      /\ DOMAIN reps' = 1 .. n + 1 /\ reps'[n + 1] = rep /\ \A i \in 1 .. n : reps'[i] = reps[i]
    BY DEF GradingInv
<1>2. /\ \A i \in 1 .. n : reps[i].run \in 1 .. n
      /\ \A i, j \in 1 .. n : reps[i].run = reps[j].run => reps[i].task = reps[j].task
    BY <1>1 DEF GradingInv, OneTaskPerRun
<1>3. \/ rep.run = n + 1
      \/ n \in 1 .. n /\ rep.run = reps[n].run /\ rep.task = reps[n].task
    BY <1>1
<1>4. \A i \in 1 .. n : reps[i].run = rep.run => reps[i].task = rep.task
    BY <1>1, <1>2, <1>3
<1>5. rep.run \in 1 .. n + 1 BY <1>1, <1>2, <1>3
<1> HIDE DEF n
<1>6. ASSUME NEW i \in DOMAIN reps' PROVE reps'[i].run \in 1 .. Len(reps')
    <2>1. CASE i = n + 1 BY <2>1, <1>1, <1>5
    <2>2. CASE i \in 1 .. n
        <3>1. reps'[i].run \in 1 .. n BY <2>2, <1>1, <1>2
        <3>2. QED BY <3>1, <1>1
    <2>3. QED BY <2>1, <2>2, <1>1
<1>7. ASSUME NEW i \in DOMAIN reps', NEW j \in DOMAIN reps', reps'[i].run = reps'[j].run
      PROVE  reps'[i].task = reps'[j].task
    <2>1. CASE i = n + 1 /\ j = n + 1 BY <2>1
    <2>2. CASE i \in 1 .. n /\ j = n + 1 BY <2>2, <1>1, <1>4, <1>7
    <2>3. CASE i = n + 1 /\ j \in 1 .. n BY <2>3, <1>1, <1>4, <1>7
    <2>4. CASE i \in 1 .. n /\ j \in 1 .. n BY <2>4, <1>1, <1>2, <1>7
    <2>5. QED BY <2>1, <2>2, <2>3, <2>4, <1>1
<1>8. QED BY <1>1, <1>6, <1>7 DEF OneTaskPerRun

\* A digest names what it was made of.
LEMMA ProposalsAreComputed ==
    ASSUME NEW seq, NEW rows, NEW least
    PROVE  AsComputed(Proposal(seq, rows, least))
           /\ Proposal(seq, rows, least).digest = <<seq, rows, least>>
<1>1. Proposal(seq, rows, least).digest = <<seq, rows, least>> BY DEF Proposal
<1>2. QED BY <1>1 DEF AsComputed

\* One operator goes on.
LEMMA OperatorKeeps ==
    ASSUME GradingInv, NEW o \in Operators, NEW c, Deciding(c),
           op' = [op EXCEPT ![o] = c], UNCHANGED reps, placed' \in Placements
    PROVE  GradingInv'
<1>1. op' = [q \in Operators |-> op'[q]] BY DEF GradingInv
<1>2. \A q \in Operators : Deciding(op'[q]) BY DEF GradingInv
<1>3. \A q \in Operators : Deciding(op[q])' BY ONLY <1>2 DEF Deciding
<1>4. reps' \in Seq(Repetitions) /\ Len(reps') <= MaxReps /\ OneTaskPerRun'
    BY DEF GradingInv, OneTaskPerRun
<1>5. QED BY <1>1, <1>3, <1>4 DEF GradingInv

LEMMA IdleDecides == Deciding(GradingIdle)
BY DEF Deciding, GradingIdle

LEMMA ProposeKeeps ==
    ASSUME GradingInv, NEW o \in Operators, Propose(o) PROVE GradingInv'
<1>1. PICK least \in Thresholds : op' = [op EXCEPT ![o] = [pc |-> "shown", rows |-> None,
                                                     shown |-> Proposal(reps, placed, least)]]
    BY DEF Propose
<1> DEFINE c == [pc |-> "shown", rows |-> None, shown |-> Proposal(reps, placed, least)]
<1>2. Deciding(c)
    <2>1. AsComputed(c.shown) /\ c.shown.digest = <<reps, placed, least>> BY ProposalsAreComputed
    <2>2. InputsTyped(c.shown.digest) BY <2>1 DEF InputsTyped, GradingInv
    <2>3. QED BY <2>1, <2>2 DEF Deciding
<1> HIDE DEF c
<1>3. op' = [op EXCEPT ![o] = c] BY <1>1 DEF c
<1>4. UNCHANGED reps /\ placed' \in Placements BY DEF Propose, GradingInv
<1>5. QED BY <1>2, <1>3, <1>4, OperatorKeeps

LEMMA ApplyKeeps ==
    ASSUME GradingInv, NEW o \in Operators, Apply(o) PROVE GradingInv'
<1> DEFINE shown == op[o].shown
           live == Proposal(reps, placed, shown.least)
<1>1. op[o].pc = "shown" /\ Deciding(op[o]) /\ AsComputed(shown) /\ InputsTyped(shown.digest)
    BY DEF GradingInv, Apply, Deciding
<1>k. UNCHANGED reps /\ placed' \in Placements BY DEF Apply, GradingInv
<1>2. CASE op' = [op EXCEPT ![o] = GradingIdle] BY <1>2, <1>k, IdleDecides, OperatorKeeps
<1>3. CASE ~(op' = [op EXCEPT ![o] = GradingIdle])
    <2>1. SameDigest(shown, live) BY <1>3 DEF Apply
    <2>2. shown = live
        <3>1. shown.digest = <<reps, placed, shown.least>>
            BY <2>1, ProposalsAreComputed DEF SameDigest
        <3> HIDE DEF shown
        <3>2. shown = Proposal(reps, placed, shown.least) BY <1>1, <3>1 DEF AsComputed
        <3>3. QED BY <3>2
    <2> HIDE DEF live
    <2>3. PICK approved \in {live.open} \cup ((SUBSET live.open) \ {{}}) :
             op' = [op EXCEPT ![o] = [pc |-> "stamped", shown |-> shown,
                                      rows |-> [e \in approved |-> live.targets[e]]]]
        BY <1>3, <2>1 DEF Apply, live
    <2> DEFINE rows == [e \in approved |-> live.targets[e]]
               c == [pc |-> "stamped", shown |-> shown, rows |-> rows]
    <2>5. op' = [op EXCEPT ![o] = c] BY <2>3
    <2>6. Deciding(c)
        <3>1. \A e \in DOMAIN rows : e \in shown.open /\ rows[e] = shown.targets[e] BY <2>2
        <3> HIDE DEF rows, shown
        <3>2. QED BY <1>1, <3>1 DEF Deciding
    <2> HIDE DEF c
    <2>7. QED BY <2>5, <2>6, <1>k, OperatorKeeps
<1>4. QED BY <1>2, <1>3

\* What is stamped are grades of efforts.
LEMMA StampsAreTyped ==
    ASSUME GradingAssumption, NEW c, Deciding(c)
    PROVE  /\ c.pc # "idle" => \A e \in c.shown.open : e \in Efforts /\ c.shown.targets[e] \in Grades
           /\ c.pc = "stamped" => \A e \in DOMAIN c.rows : e \in Efforts /\ c.rows[e] \in Grades
<1>1. CASE c.pc # "idle"
    <2> DEFINE p == c.shown
               d == c.shown.digest
    <2>1. p = Proposal(d[1], d[2], d[3]) /\ d[1] \in Seq(Repetitions) /\ d[2] \in Placements
        BY <1>1 DEF Deciding, AsComputed, InputsTyped
    <2> HIDE DEF p, d
    <2>2. ASSUME NEW seq \in Seq(Repetitions), NEW rows \in Placements, NEW least,
                 p = Proposal(seq, rows, least)
          PROVE  \A e \in p.open : e \in Efforts /\ p.targets[e] \in Grades
        <3> DEFINE changes == Changes(Results(seq, rows, least), rows)
        <3> HIDE DEF changes
        <3>1. changes = Changes(Results(seq, rows, least), rows) BY DEF changes
        <3>2. QED BY ONLY GradingAssumption, <2>2, <3>1, OpenIs
    <2>3. \A e \in p.open : e \in Efforts /\ p.targets[e] \in Grades BY ONLY <2>1, <2>2
    <2>4. QED BY <1>1, <2>3 DEF p, Deciding
<1>2. QED BY <1>1

LEMMA PushKeeps ==
    ASSUME GradingInv, GradingAssumption, NEW o \in Operators, PushRows(o) PROVE GradingInv'
<1> DEFINE rows == op[o].rows
<1>1. op[o].pc = "stamped" /\ op' = [op EXCEPT ![o] = GradingIdle] /\ UNCHANGED reps
      /\ \/ placed' = placed
         \/ placed' = [e \in Efforts |-> IF e \in DOMAIN rows THEN [grade |-> rows[e], live |-> TRUE]
                                         ELSE placed[e]]
    BY DEF PushRows
<1>2. \A e \in DOMAIN rows : rows[e] \in Grades BY <1>1, StampsAreTyped DEF GradingInv
<1>3. /\ placed \in Placements
      /\ \A e \in Efforts : placed[e] \in [grade : Grades, live : BOOLEAN]
    BY DEF GradingInv, Placements
<1> HIDE DEF rows
<1> DEFINE Pushed(e) == IF e \in DOMAIN rows THEN [grade |-> rows[e], live |-> TRUE] ELSE placed[e]
<1>4. \A e \in Efforts : Pushed(e) \in [grade : Grades, live : BOOLEAN] BY <1>2, <1>3
<1>5. placed' \in Placements
    <2> DEFINE all == [e \in Efforts |-> Pushed(e)]
    <2>1. placed' = placed \/ placed' = all
        <3> HIDE DEF all
        <3>1. all = [e \in Efforts |-> IF e \in DOMAIN rows THEN [grade |-> rows[e], live |-> TRUE]
                                      ELSE placed[e]]
            BY DEF all
        <3>2. QED BY <1>1, <3>1
    <2> HIDE DEF Pushed
    <2>2. all \in [Efforts -> [grade : Grades, live : BOOLEAN]] BY <1>4
    <2> HIDE DEF all
    <2>3. QED BY <1>3, <2>1, <2>2 DEF Placements
<1>6. QED BY <1>1, <1>5, IdleDecides, OperatorKeeps

\* The rungs' own invariant: placements stay placements.
LEMMA RetireKeeps == ASSUME GradingInv, Retire PROVE GradingInv'
<1>1. PICK e \in Efforts : placed' = [placed EXCEPT ![e].live = FALSE] BY DEF Retire
<1>2. placed' \in Placements
    <2>1. placed \in Placements BY DEF GradingInv
    <2>2. [placed[e] EXCEPT !.live = FALSE] \in [grade : Grades, live : BOOLEAN] BY <2>1 DEF Placements
    <2>3. placed' = [placed EXCEPT ![e] = [placed[e] EXCEPT !.live = FALSE]] BY <1>1
    <2>4. QED BY <2>1, <2>2, <2>3 DEF Placements
<1>3. UNCHANGED <<reps, op>> BY DEF Retire
<1>4. (\A o \in Operators : Deciding(op[o])') BY <1>3 DEF GradingInv, Deciding
<1>5. QED BY <1>2, <1>3, <1>4 DEF GradingInv, OneTaskPerRun

\* The evidence has one task for each run, and what is stamped is what was shown.
THEOREM GradingInductive == GradingSpec => []GradingInv
<1>1. GradingInit => GradingInv
    <2> SUFFICES ASSUME GradingInit PROVE GradingInv OBVIOUS
    <2>1. reps = <<>> /\ op = [o \in Operators |-> GradingIdle] /\ placed \in Placements
        BY GradingAssumption DEF GradingInit, GradingAssumption
    <2>2. reps \in Seq(Repetitions) /\ DOMAIN reps = {} /\ Len(reps) <= MaxReps
        BY <2>1, GradingAssumption DEF GradingAssumption
    <2>3. QED BY <2>1, <2>2, IdleDecides DEF GradingInv, OneTaskPerRun
<1>2. GradingInv /\ [GradingNext]_gradingVars => GradingInv'
    <2> SUFFICES ASSUME GradingInv, [GradingNext]_gradingVars PROVE GradingInv' OBVIOUS
    <2>s. UNCHANGED op => (\A o \in Operators : Deciding(op[o])') /\ op' = [o \in Operators |-> op'[o]]
        BY DEF GradingInv, Deciding
    <2>1. CASE Record
        <3>1. PICK shape \in Shapes : reps' = Append(reps, [shape EXCEPT !.run = Len(reps) + 1])
            BY <2>1 DEF Record
        <3> DEFINE rep == [shape EXCEPT !.run = Len(reps) + 1]
        <3>2. rep \in Repetitions /\ rep.run = Len(reps) + 1
            <4>1. shape \in Repetitions BY GradingAssumption DEF GradingAssumption
            <4>2. Len(reps) + 1 \in Nat BY DEF GradingInv
            <4>3. QED BY <4>1, <4>2 DEF Repetitions
        <3> HIDE DEF rep
        <3>3. reps' \in Seq(Repetitions) /\ OneTaskPerRun' BY <3>1, <3>2, RecordKeeps DEF rep
        <3>4. Len(reps') <= MaxReps
            <4>1. Len(reps') = Len(reps) + 1 /\ Len(reps) < MaxReps /\ Len(reps) \in Nat
                BY <2>1, <3>1 DEF Record, GradingInv
            <4>2. QED BY <4>1, GradingAssumption DEF GradingAssumption
        <3>5. QED BY <2>1, <3>3, <3>4, <2>s DEF GradingInv, Record
    <2>2. CASE RecordTwin
        <3> DEFINE last == reps[Len(reps)]
        <3>1. PICK e \in Efforts \cup {Unspelled} :
                 reps' = Append(reps, [last EXCEPT !.effort = e, !.supersedes = FALSE])
            BY <2>2 DEF RecordTwin
        <3> DEFINE rep == [last EXCEPT !.effort = e, !.supersedes = FALSE]
        <3>2. Len(reps) > 0 /\ last \in Repetitions BY <2>2 DEF RecordTwin, GradingInv
        <3> HIDE DEF last
        <3>3. rep \in Repetitions /\ rep.run = last.run /\ rep.task = last.task
            BY <3>2 DEF Repetitions
        <3> HIDE DEF rep
        <3>4. reps' = Append(reps, rep) BY <3>1 DEF rep
        <3>5. reps' \in Seq(Repetitions) /\ OneTaskPerRun' BY <3>2, <3>3, <3>4, RecordKeeps DEF last
        <3>6. Len(reps') <= MaxReps
            <4>1. Len(reps') = Len(reps) + 1 /\ Len(reps) <= MaxReps - 1 /\ Len(reps) \in Nat
                BY <2>2, <3>1 DEF RecordTwin, GradingInv
            <4>2. QED BY <4>1, GradingAssumption DEF GradingAssumption
        <3>7. QED BY <2>2, <3>5, <3>6, <2>s DEF GradingInv, RecordTwin
    <2>3. CASE Retire BY <2>3, RetireKeeps
    <2>4. CASE \E o \in Operators : Propose(o) \/ Apply(o) BY <2>4, ProposeKeeps, ApplyKeeps
    <2>5. CASE \E o \in Operators : PushRows(o) BY <2>5, PushKeeps, GradingAssumption
    <2>6. CASE UNCHANGED gradingVars BY <2>6, <2>s DEF GradingInv, gradingVars, OneTaskPerRun
    <2>7. QED BY <2>1, <2>2, <2>3, <2>4, <2>5, <2>6 DEF GradingNext
<1>3. QED BY <1>1, <1>2, PTL DEF GradingSpec

\* No repetition counts for more than it measured: a promotion was earned on as
\* many tasks as it takes, with no failure that stands, and a run recorded
\* twice speaks for one rung (_evaluate_row, _collapse_alias_duplicates).
THEOREM EvidenceCountsThm == GradingSpec => []EvidenceCounts
<1>1. GradingInv => EvidenceCounts
    BY RunCounts, PromotionsAreEarned, GradingAssumption DEF EvidenceCounts
<1>2. QED BY <1>1, GradingInductive, PTL

\* What a proposal asks for can be made, is what was shown, and settles: its open
\* changes keep the ladder, each of the others has a cause to be withheld, the
\* same evidence asks for nothing more once they are made, and what an operator
\* stamps is part of what it was shown, whatever others recorded or published
\* in between (_apply_monotonicity_blocks, _evaluate_row, apply_proposals).
THEOREM ProposalsHoldThm == GradingSpec => []ProposalsHold
<1>1. ASSUME GradingInv PROVE GradingTypeOK
    <2> SUFFICES ASSUME NEW o \in Operators, NEW c, c = op[o]
                 PROVE  /\ c.pc \in {"idle", "shown", "stamped"}
                        /\ c.pc = "idle" => c = GradingIdle
                        /\ c.pc # "idle" => c.shown.open \subseteq Efforts
                        /\ c.pc = "shown" => c.rows = None
                        /\ c.pc = "stamped" => /\ DOMAIN c.rows \subseteq Efforts
                                               /\ \A e \in DOMAIN c.rows : c.rows[e] \in Grades
        BY <1>1 DEF GradingInv, GradingTypeOK
    <2>1. Deciding(c) BY <1>1 DEF GradingInv
    <2>2. QED BY <2>1, StampsAreTyped, GradingAssumption DEF Deciding
<1>2. GradingInv => StampedAsShown BY DEF GradingInv, Deciding, StampedAsShown
<1>3. GradingInv => ChangesSettle BY SettlesFromInv, GradingAssumption DEF GradingInv
<1>4. GradingInv => WithheldForCause BY CauseFromInv, GradingAssumption DEF GradingInv
<1>5. GradingInv => ProposalsHold BY <1>1, <1>2, <1>3, <1>4 DEF ProposalsHold
<1>6. QED BY <1>5, GradingInductive, PTL

\* A ladder in order keeps every lower rung at no better a grade; without a
\* rung it is still in order.
LEMMA InOrderIs ==
    ASSUME GradingAssumption, placed \in Placements, NEW e \in Efforts, NEW f \in Efforts,
           InOrder, placed[e].live, placed[f].live, Rank(e) < Rank(f)
    PROVE  placed[e].grade <= placed[f].grade
<1> DEFINE m == Merged(placed, placed, {})
<1>1. m = [g \in {h \in Efforts : placed[h].live} |-> placed[g].grade] BY DEF Merged
<1>2. \A g \in Efforts : placed[g].grade \in Int BY DEF Placements, Grades
<1>3. Inversions(m) = {} BY DEF InOrder
<1> HIDE DEF m
<1>4. DOMAIN m \subseteq Efforts /\ \A g \in DOMAIN m : m[g] \in Int BY <1>1, <1>2
<1>5. e \in DOMAIN m /\ f \in DOMAIN m /\ m[e] = placed[e].grade /\ m[f] = placed[f].grade BY <1>1
<1>6. ~(m[f] < m[e]) BY <1>3, <1>4, <1>5, CrossedBreaks
<1>7. QED BY <1>2, <1>5, <1>6

\* A canon whose ladder was in order stays so: a push is refused that would
\* break it, and what is left after a rung is retired keeps its order, since
\* any two rungs were in order and not only neighbours (bench.py
\* catalog_monotonicity_violations).
THEOREM LadderKeptThm == GradingSpec => LadderKept
<1>1. ASSUME GradingInv, [GradingNext]_gradingVars, InOrder PROVE InOrder'
    <2>0. placed \in Placements BY <1>1 DEF GradingInv
    <2>1. CASE placed' = placed BY <1>1, <2>1 DEF InOrder, Merged
    <2>2. CASE Retire
        <3>1. PICK r \in Efforts : placed' = [placed EXCEPT ![r].live = FALSE] BY <2>2 DEF Retire
        <3> DEFINE m == Merged(placed', placed', {})
        <3>2. m = [g \in {h \in Efforts : placed'[h].live} |-> placed'[g].grade] BY DEF Merged
        <3>3. \A g \in Efforts : placed'[g].grade = placed[g].grade /\ (placed'[g].live => placed[g].live)
            BY <2>0, <3>1 DEF Placements
        <3>4. ASSUME NEW e \in Inversions(m) PROVE FALSE
            <4> DEFINE u == Under(m, e)
            <4> HIDE DEF m
            <4>1. DOMAIN m \subseteq Efforts /\ e \in DOMAIN m /\ Lower(m, e) # {} /\ m[e] < m[u]
                BY <3>2, <3>4 DEF Inversions
            <4>2. u \in DOMAIN m /\ Rank(u) < Rank(e)
                BY <4>1, NextUnder, GradingAssumption DEF Lower
            <4> HIDE DEF u
            <4>3. placed[e].live /\ placed[u].live /\ e \in Efforts /\ u \in Efforts
                  /\ m[e] = placed[e].grade /\ m[u] = placed[u].grade
                BY <3>2, <3>3, <4>1, <4>2
            <4>4. placed[u].grade <= placed[e].grade
                BY <1>1, <2>0, <4>2, <4>3, InOrderIs, GradingAssumption
            <4>5. placed[u].grade \in Int /\ placed[e].grade \in Int
                BY <2>0, <4>3 DEF Placements, Grades
            <4>6. QED BY <4>1, <4>3, <4>4, <4>5
        <3> HIDE DEF m
        <3>5. Inversions(m) = {} BY <3>4
        <3>6. QED BY <3>5 DEF m, InOrder
    <2>3. ASSUME NEW o \in Operators, PushRows(o), placed' # placed PROVE InOrder'
        <3> DEFINE rows == op[o].rows
        <3>1. /\ op[o].pc = "stamped"
              /\ Inversions(Merged(placed, rows, DOMAIN rows)) = {}
              /\ placed' = [e \in Efforts |->
                   IF e \in DOMAIN rows THEN [grade |-> rows[e], live |-> TRUE] ELSE placed[e]]
            BY <2>3 DEF PushRows
        <3>2. DOMAIN rows \subseteq Efforts
            BY <1>1, <3>1, StampsAreTyped, GradingAssumption DEF GradingInv
        <3> HIDE DEF rows
        <3>3. Merged(placed', placed', {}) = Merged(placed, rows, DOMAIN rows)
            <4>1. \A e \in Efforts : placed'[e].live <=> (placed[e].live \/ e \in DOMAIN rows) BY <3>1
            <4>2. \A e \in Efforts : placed'[e].grade =
                     IF e \in DOMAIN rows THEN rows[e] ELSE placed[e].grade BY <3>1
            <4>3. {h \in Efforts : placed'[h].live} = {f \in Efforts : placed[f].live \/ f \in DOMAIN rows}
                BY <4>1
            <4>4. QED BY <4>2, <4>3 DEF Merged
        <3>4. QED BY <3>1, <3>3 DEF InOrder
    <2>4. QED BY <1>1, <2>1, <2>2, <2>3
          DEF GradingNext, Record, RecordTwin, Propose, Apply, gradingVars
<1>2. QED BY <1>1, GradingInductive, PTL DEF LadderKept, GradingSpec
=============================================================================
