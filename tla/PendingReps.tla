----------------------------- MODULE PendingReps -----------------------------
(***************************************************************************)
(* Adding a repetition to the server (bench.py).  The rep is queued in the *)
(* local database under a key drawn for it, put on the server under that   *)
(* key, read back to learn the server's id of it, and taken from the queue *)
(* when the cache of the server's reps is rewritten.  Whatever fails on    *)
(* the way leaves it queued, and the same add tried again sends the same   *)
(* key.  A reader rewrites the cache too.                                  *)
(*                                                                         *)
(* The server keeps one rep per creator and key, and its id stands for the *)
(* pair.  Newer servers answer a put with the ids and refuse one that      *)
(* would overwrite a different rep; older ones overwrite and only count.   *)
(***************************************************************************)
EXTENDS Absent, Integers, FiniteSets

CONSTANTS Clients,     \* processes of one host
          Own, Other,  \* the host's name on the server, and someone else's
          Origins,     \* keys to draw from (random; never drawn twice)
          Reps,        \* the reps users of this host add
          Foreign,     \* what others write
          MaxForeign, MaxMissed  \* bounds: writes of others, rows a page lacks

ASSUME CreatorAssumption == Own # Other
ASSUME RepAssumption ==
    /\ Foreign \notin Reps /\ None \notin Reps \cup {Foreign} /\ None \notin {Own, Other} \X Origins
    /\ IsFiniteSet(Origins)

VARIABLES dialect,  \* "ids" or "count", what the server answers a put with
          server,   \* [Creators \X Origins -> the rep kept there, or None]
          pending,  \* bench_pending_reps
          cache,    \* bench_cache_reps
          lost,     \* bench_lost_reps: ids and the reps once cached for them
          client,   \* [Clients -> what the process is doing]
          drawn,    \* the keys drawn so far, each with its rep
          strangers,\* writes of others so far
          stored,   \* history: every id and rep the server ever kept
          reported, \* history: the reps users were told are on the server,
                    \* each with its key and the id they were told
          dropped,  \* history: the keys of the reps users dropped
          doubled,  \* history: the reps two adds queued at the same time
          cleared   \* history: the keys of queued reps that the commit of another
                    \* add found on the server, without a word to their user
pendingVars == <<dialect, server, pending, cache, lost, client, drawn, strangers, stored,
                 reported, dropped, doubled, cleared>>

Creators == {Own, Other}
Ids == Creators \X Origins
Resting == [pc |-> "idle", rep |-> None, origin |-> None, id |-> None, page |-> {},
            complete |-> FALSE, seen |-> {}]
Queued(origin, rep) == [origin |-> origin, rep |-> rep, state |-> "pending", reason |-> "awaiting"]
Kept(id, origin, rep) == [id |-> id, origin |-> origin, rep |-> rep]
Contents(S) == {Kept(id, id[2], server[id]) : id \in {i \in S : server[i] # None}}

PendingInit ==
    /\ dialect \in {"ids", "count"} /\ server = [id \in Ids |-> None]
    /\ pending = {} /\ cache = {} /\ lost = {} /\ client = [p \in Clients |-> Resting]
    /\ drawn = {} /\ strangers = 0 /\ stored = {} /\ reported = {} /\ dropped = {}
    /\ doubled = {} /\ cleared = {}

------------------------------------------------------------------------------
(* An add without a time of its own takes up the queued rep with the same  *)
(* fields; nothing is sent while one of them was refused or found to       *)
(* conflict.  Users add a rep until they are told that it is stored.       *)
(* Slip: the time of the add has to match too.                             *)
NeverMatches(rep) == {x \in pending : FALSE}
Matching(rep) == {x \in pending : x.rep = rep}
Open(p, rep) ==
    /\ client[p] = Resting /\ \A t \in reported : t.rep # rep
    /\ \A x \in Matching(rep) : x.state = "pending" /\ x.reason # "conflict"
    /\ IF Matching(rep) = {}
       THEN client' = [client EXCEPT ![p] =
                [Resting EXCEPT !.pc = "queue", !.rep = rep, !.seen = drawn]]
       ELSE \E x \in Matching(rep) :
                client' = [client EXCEPT ![p] =
                    [Resting EXCEPT !.pc = "put", !.rep = rep, !.origin = x.origin]]
    /\ UNCHANGED <<dialect, server, pending, cache, lost, drawn, strangers, stored, reported,
                   dropped, doubled, cleared>>

(* The lookup and the insertion are two transactions.                      *)
Queue(p) ==
    /\ client[p].pc = "queue"
    /\ \E o \in Origins \ {d[1] : d \in drawn} :
          /\ pending' = pending \cup {Queued(o, client[p].rep)}
          /\ drawn' = drawn \cup {<<o, client[p].rep>>}
          /\ client' = [client EXCEPT ![p].pc = "put", ![p].origin = o, ![p].seen = {}]
    /\ doubled' = IF \E d \in drawn \ client[p].seen : d[2] = client[p].rep
                  THEN doubled \cup {client[p].rep} ELSE doubled
    /\ UNCHANGED <<dialect, server, cache, lost, strangers, stored, reported, dropped, cleared>>

(* The server's answer; Abort before or after it is the one that is lost.  *)
PutRep(p) ==
    /\ client[p].pc = "put"
    /\ LET id == <<Own, client[p].origin>>
           refused == dialect = "ids" /\ server[id] \notin {None, client[p].rep}
           answered == IF refused THEN [client[p] EXCEPT !.pc = "refuse"]
                       ELSE [client[p] EXCEPT !.pc = "fetch",
                                              !.id = IF dialect = "ids" THEN id ELSE None]
       IN /\ IF refused THEN UNCHANGED <<server, stored>>
             ELSE /\ server' = [server EXCEPT ![id] = client[p].rep]
                  /\ stored' = stored \cup {<<id, client[p].rep>>}
          /\ client' = [client EXCEPT ![p] = answered]
    /\ UNCHANGED <<dialect, pending, cache, lost, drawn, strangers, reported, dropped, doubled,
                   cleared>>
Refuse(p) ==
    /\ client[p].pc = "refuse"
    /\ pending' = {IF x.origin = client[p].origin /\ x.state = "pending"
                   THEN [x EXCEPT !.state = "refused", !.reason = "conflict"] ELSE x : x \in pending}
    /\ client' = [client EXCEPT ![p] = Resting]
    /\ UNCHANGED <<dialect, server, cache, lost, drawn, strangers, stored, reported, dropped,
                   doubled, cleared>>

(* A page of the server's reps: all, or as many as its window holds; for   *)
(* an add, or for a reader that finds the cache too old (read_reps).  One  *)
(* reader at a time, and MaxMissed rows, are bounds of the model.          *)
FetchReps(p) ==
    /\ \/ client[p].pc = "fetch"
       \/ client[p] = Resting /\ \A q \in Clients : client[q].pc # "rewrite"
    /\ \E S \in SUBSET {id \in Ids : server[id] # None} :
          /\ Cardinality({id \in Ids \ S : server[id] # None}) <= MaxMissed
          /\ client' = [client EXCEPT ![p] =
                 [client[p] EXCEPT !.pc = IF @ = "fetch" THEN "commit" ELSE "rewrite",
                                   !.page = Contents(S),
                                   !.complete = (Contents(S) = Contents(Ids))]]
    /\ UNCHANGED <<dialect, server, pending, cache, lost, drawn, strangers, stored, reported,
                   dropped, doubled, cleared>>

------------------------------------------------------------------------------
(* _bind_server_ids.  With an id, unless the page contradicts it; without  *)
(* one, the only row of the key with the content, in a complete page or    *)
(* else in the page of the profile.                                        *)
Holders(origin, page) == {row \in page : row.origin = origin}
SameRows(origin, rep, page) == {row \in Holders(origin, page) : row.rep = rep}
Proven(origin, rep, page) ==
    LET twins == SameRows(origin, rep, page)
    IN IF Cardinality(twins) > 1 THEN <<None, "ambiguous">>
       ELSE IF twins # {} THEN <<(CHOOSE row \in twins : TRUE).id, "">>
       ELSE <<None, IF Holders(origin, page) # {} THEN "conflict" ELSE "absent">>
Complete(c) == c.complete
Bound(c) ==
    IF c.id # None
    THEN {IF \E row \in c.page : row.id = c.id /\ row.rep # c.rep
          THEN <<None, "conflict">> ELSE <<c.id, "">>}
    ELSE IF Cardinality(SameRows(c.origin, c.rep, c.page)) > 1 THEN {<<None, "ambiguous">>}
    ELSE IF Complete(c) THEN {Proven(c.origin, c.rep, c.page)}
    ELSE {Proven(c.origin, c.rep, Contents(Ids)), <<None, "window">>}

(* _retire_shadowed_reps: what the page contradicts is kept as lost.       *)
Contradicted(page) ==
    {row \in cache : row.id # None /\ \E new \in page : new.id = row.id /\ new.rep # row.rep}
(* The reps cached: the page, and the written one, under its id or none.   *)
Rewritten(page, written) == {row \in page : row.id # written.id} \cup {written}

(* _reconcile_pending_reps: the page proves a queued rep stored when it    *)
(* is there in the name the written one got its id in.                     *)
(* Slip: in whatever name.                                                 *)
ReconciledAny(page, id) ==
    {x \in pending : x.state = "pending" /\ \E row \in page : row.origin = x.origin /\ row.rep = x.rep}
Reconciled(page, id) ==
    IF id = None THEN {}
    ELSE {x \in pending : x.state = "pending" /\ Kept(<<id[1], x.origin>>, x.origin, x.rep) \in page}

Reasoned(rows, origin, reason) ==
    {IF x.origin = origin /\ x.state = "pending" THEN [x EXCEPT !.reason = reason] ELSE x : x \in rows}

(* One transaction: the cache rewritten, the reason kept with what stays   *)
(* queued, the confirmed taken from the queue.                             *)
CommitReps(p) ==
    /\ client[p].pc = "commit"
    /\ LET c == client[p] IN
       \E b \in Bound(c) :
          LET id == b[1]
              \* the creator is only known if the page shows the row
              seen == IF id # None /\ \E row \in c.page : row.id = id THEN id
                      ELSE IF c.id = None THEN id ELSE None
              kept == {x \in pending : ~(id # None /\ x.origin = c.origin /\ x.state = "pending")}
          IN /\ lost' = lost \cup Contradicted(c.page)
             /\ cache' = Rewritten(c.page, Kept(id, c.origin, c.rep))
             /\ pending' = IF id = None THEN Reasoned(kept, c.origin, b[2])
                            ELSE kept \ Reconciled(c.page, seen)
             /\ cleared' = IF id = None THEN cleared
                            ELSE cleared \cup {x.origin : x \in kept \cap Reconciled(c.page, seen)}
             /\ reported' = IF id = None THEN reported ELSE reported \cup {Kept(id, c.origin, c.rep)}
    /\ client' = [client EXCEPT ![p] = Resting]
    /\ UNCHANGED <<dialect, server, drawn, strangers, stored, dropped, doubled>>
Rewrite(p) ==
    /\ client[p].pc = "rewrite"
    /\ lost' = lost \cup Contradicted(client[p].page)
    /\ cache' = client[p].page
    /\ pending' = pending \ Reconciled(client[p].page, None)
    /\ client' = [client EXCEPT ![p] = Resting]
    /\ UNCHANGED <<dialect, server, drawn, strangers, stored, reported, dropped, doubled, cleared>>

(* reps pending drop: the queued rep and its echo go, nothing is sent.     *)
Drop ==
    /\ \E x \in pending :
          /\ pending' = pending \ {x} /\ dropped' = dropped \cup {x.origin}
          /\ cache' = cache \ {Kept(None, x.origin, x.rep)}
    /\ UNCHANGED <<dialect, server, lost, client, drawn, strangers, stored, reported, doubled,
                   cleared>>

(* A request or its answer is lost, or the command is killed: before the   *)
(* put, after it, or with a page fetched.                                  *)
Abort(p) == /\ client[p].pc \in {"put", "fetch", "refuse", "commit"} /\ client' = [client EXCEPT ![p] = Resting]
            /\ UNCHANGED <<dialect, server, pending, cache, lost, drawn, strangers, stored,
                           reported, dropped, doubled, cleared>>

(* Others write under the same keys, once drawn: in another name, the same *)
(* rep even, or another client in this host's name.                        *)
Elsewhere ==
    /\ strangers < MaxForeign /\ strangers' = strangers + 1
    /\ \E id \in Ids, rep \in Reps \cup {Foreign} :
          /\ \E d \in drawn : id[2] = d[1]
          /\ id[1] = Own => rep = Foreign
          /\ dialect = "ids" => server[id] = None
          /\ server' = [server EXCEPT ![id] = rep]
          /\ stored' = stored \cup {<<id, rep>>}
    /\ UNCHANGED <<dialect, pending, cache, lost, client, drawn, reported, dropped, doubled, cleared>>

PendingNext ==
    \/ \E p \in Clients : \/ \E rep \in Reps : Open(p, rep)
                          \/ Queue(p) \/ PutRep(p) \/ Refuse(p) \/ FetchReps(p) \/ CommitReps(p)
                          \/ Rewrite(p) \/ Abort(p)
    \/ Drop \/ Elsewhere
PendingSpec == PendingInit /\ [][PendingNext]_pendingVars

------------------------------------------------------------------------------
PendingTypeOK ==
    /\ server \in [Ids -> Reps \cup {Foreign, None}]
    /\ pending \subseteq [origin : Origins, rep : Reps, state : {"pending", "refused"},
                          reason : {"awaiting", "conflict", "ambiguous", "absent", "window"}]
    /\ \A x, y \in pending : x.origin = y.origin => x = y
    /\ \A x, y \in cache : x.id # None /\ x.id = y.id => x = y
    /\ \A p \in Clients : client[p].pc \in {"idle", "queue", "put", "refuse", "fetch", "commit",
                                           "rewrite"}

(* Whatever was lost, timed out or killed, and however often the add was   *)
(* tried again, the server counts a rep once -- and once more for each of  *)
(* its keys that was dropped from the queue, or taken from it by the       *)
(* commit of another rep's add, which does not tell the user of this one:  *)
(* the retry finds nothing queued and draws a fresh key.  Two adds of one  *)
(* rep at the same time are apart (_open_pending_rep).                     *)
CountedOnce ==
    \A rep \in Reps \ doubled :
       Cardinality({o \in Origins : server[<<Own, o>>] = rep})
          <= 1 + Cardinality({o \in dropped \cup cleared : <<o, rep>> \in drawn})

(* A user is told an id only if the server kept the rep under it, and one  *)
(* of someone else's rep never (_bind_server_ids) -- an older server that  *)
(* let another client overwrite the rep apart.  What the cache has under   *)
(* an id was kept there once.                                              *)
Mistaken(t) == t.id[1] # Own
NeverForeign ==
    /\ \A t \in reported : /\ <<t.id, t.rep>> \in stored
                            /\ Mistaken(t) => <<<<Own, t.origin>>, Foreign>> \in stored
    /\ \A row \in cache : row.id # None => <<row.id, row.rep>> \in stored

(* A rep leaves the queue only when the user drops it or the server has    *)
(* stored it in this host's name; in another name proves nothing           *)
(* (_reconcile_pending_reps, _commit_rep_cache), unless another rep that   *)
(* was overwritten was already taken for someone else's.                   *)
NothingIsLost ==
    \A d \in drawn :
       \/ \E x \in pending : x.origin = d[1]
       \/ d[1] \in dropped
       \/ <<<<Own, d[1]>>, d[2]>> \in stored
       \/ (\E t \in reported : Mistaken(t)) /\ <<<<Other, d[1]>>, d[2]>> \in stored

(* Neither lost nor taken for another's, and kept once under its key.      *)
RepsAreKept == PendingTypeOK /\ NothingIsLost /\ NeverForeign
=============================================================================
