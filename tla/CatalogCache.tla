---------------------------- MODULE CatalogCache ----------------------------
(***************************************************************************)
(* The canonical catalog on the server and the copy a host keeps of it     *)
(* (bench.py).  Processes of the host read the catalog: from the copy      *)
(* while it is fresh, else from the server, whose answer must pass a floor *)
(* before it is committed as the copy; what is served when it does not     *)
(* depends on the copy's age.  Operators push rows to the server, which    *)
(* refreshes the copy too.                                                 *)
(*                                                                         *)
(* A catalog is the profiles it mentions and the revision of its rows.     *)
(***************************************************************************)
EXTENDS Absent, Integers, Sequences

CONSTANTS Procs,      \* processes of one host
          Profiles,   \* the profiles a canon may mention
          Bundled,    \* those the build's own snapshot mentions
          Ttl, StaleMax, \* catalog_ttl_s, catalog_stale_max_s
          MaxTime, MaxRevision \* bounds of the model

ASSUME BundledAssumption == Bundled \subseteq Profiles
ASSUME AgeAssumption == Ttl \in Nat \ {0} /\ StaleMax \in Nat \ {0}
ASSUME BoundAssumption == MaxTime \in Nat /\ MaxRevision \in Nat \ {0}
ASSUME NoneAssumption ==
    /\ None \notin Int
    /\ None \notin [profiles : SUBSET Profiles, revision : Nat]
    /\ None \notin [profiles : SUBSET Profiles, revision : Nat, at : Nat]

VARIABLES canon,   \* the server's catalog
          hostCopy,   \* the host's copy, stamped, or None
          now,
          proc,    \* [Procs -> what the process is doing]
          view,    \* [Procs -> the view it serves, its memo, or None]
          since,   \* history: when each revision became the canon
          trusted, \* history: the profiles of every copy committed
          passed  \* history: a copy was committed over one its process had not seen
catalogVars == <<canon, hostCopy, now, proc, view, since, trusted, passed>>

Rows(profiles, revision) == [profiles |-> profiles, revision |-> revision]
(* raced: another copy was committed since this process read its rows.     *)
CatalogIdle ==
    [pc |-> "idle", base |-> None, age |-> None, rows |-> None, read |-> 0, push |-> FALSE,
     raced |-> FALSE, torn |-> FALSE]
RowsOfCopy(copy) == IF copy = None THEN None ELSE Rows(copy.profiles, copy.revision)
Mentioned(rows) == IF rows = None THEN {} ELSE rows.profiles
Snapshot == Rows(Bundled, 0)

CatalogInit ==
    /\ canon = Rows(Bundled, 1) /\ now = 0
    /\ hostCopy \in {None, [profiles |-> Bundled, revision |-> 1, at |-> 0]}
    /\ proc = [p \in Procs |-> CatalogIdle] /\ view = [p \in Procs |-> None]
    /\ since = <<0>> /\ trusted = Mentioned(hostCopy) /\ passed = FALSE

------------------------------------------------------------------------------
(* torn: the rows and the stamp were read of two copies.                   *)
View(rows, source, read, torn) ==
    [rows |-> rows, source |-> source, read |-> read, torn |-> torn,
     stale |-> source \in {"snapshot", "cache-stale"}]

(* The floor: not empty, no two live rows for one rung, and no profile     *)
(* lost that the last good copy, or without one the bundle, mentions.      *)
Acceptable(answer, base) ==
    /\ answer.profiles # {} /\ ~answer.doubled
    /\ (IF base = None THEN Bundled ELSE base.profiles) \subseteq answer.profiles

(* Answers of the server: its canon, or one spoilt on the way.             *)
Answer(profiles, doubled) ==
    [profiles |-> profiles, revision |-> canon.revision, doubled |-> doubled]
Answers == {Answer(canon.profiles, d) : d \in BOOLEAN}
             \cup {Answer(canon.profiles \ {p}, FALSE) : p \in canon.profiles}
             \cup {Answer({}, FALSE)}

(* What the copy, as it was read, still serves without the server.         *)
(* Slip: a copy is as good as the server whatever its age.                 *)
Ageless(c) ==
    View(IF c.age = None THEN Snapshot ELSE c.base, IF c.age = None THEN "snapshot" ELSE "cache",
         c.read, c.torn)
Fallback(c) ==
    IF c.age = None THEN View(Snapshot, "snapshot", c.read, FALSE)
    ELSE View(c.base, IF c.age < StaleMax THEN "cache" ELSE "cache-stale", c.read, c.torn)

(* What is committed bears the moment.                                     *)
Stamped(rows) == [profiles |-> rows.profiles, revision |-> rows.revision, at |-> now]

(* A process starts and reads the copy, first its rows, then its stamp:    *)
(* two statements with no transaction around them.  It serves a fresh one. *)
ReadRows(p) ==
    /\ proc[p].pc = "idle" /\ view[p] = None
    /\ proc' = [proc EXCEPT ![p] = [CatalogIdle EXCEPT !.pc = "stamp", !.base = RowsOfCopy(hostCopy),
                                                       !.read = now]]
    /\ UNCHANGED <<canon, hostCopy, now, view, since, trusted, passed>>
ReadStamp(p) ==
    /\ proc[p].pc = "stamp"
    /\ LET c == proc[p]
           age == IF hostCopy = None \/ c.base = None THEN None ELSE now - hostCopy.at
           fresh == IF age = None THEN FALSE ELSE age < Ttl /\ age < StaleMax
       IN IF fresh
          THEN /\ view' = [view EXCEPT ![p] = View(c.base, "cache", now, c.raced)]
               /\ proc' = [proc EXCEPT ![p] = CatalogIdle]
          ELSE /\ proc' = [proc EXCEPT ![p] =
                      [c EXCEPT !.pc = "fetch", !.age = age, !.torn = age # None /\ c.raced,
                                !.base = IF age = None THEN None ELSE c.base]]
               /\ UNCHANGED view
    /\ UNCHANGED <<canon, hostCopy, now, since, trusted, passed>>

(* Without the server, or with an answer below the floor: the copy or the  *)
(* bundle, aged as they were read.  A server without the route: the bundle *)
(* in its own name.                                                        *)
FallBack(p) ==
    /\ proc[p].pc = "fetch"
    /\ view' = [view EXCEPT ![p] = Fallback(proc[p])]
    /\ proc' = [proc EXCEPT ![p] = CatalogIdle]
    /\ UNCHANGED <<canon, hostCopy, now, since, trusted, passed>>
NoRoute(p) ==
    /\ proc[p].pc = "fetch"
    /\ view' = [view EXCEPT ![p] = View(Snapshot, "unsupported", now, FALSE)]
    /\ proc' = [proc EXCEPT ![p] = CatalogIdle]
    /\ UNCHANGED <<canon, hostCopy, now, since, trusted, passed>>
FetchCatalog(p) ==
    /\ proc[p].pc = "fetch"
    /\ \E answer \in Answers :
          /\ Acceptable(answer, proc[p].base)
          /\ proc' = [proc EXCEPT ![p] =
                 [proc[p] EXCEPT !.pc = "commit", !.rows = Rows(answer.profiles, answer.revision)]]
    /\ UNCHANGED <<canon, hostCopy, now, view, since, trusted, passed>>

Overtaken(c) == [c EXCEPT !.raced = c.raced \/ c.pc \in {"stamp", "fetch", "commit"}]
(* The copy is replaced as a whole and stamped with this moment; a push    *)
(* serves no view.                                                         *)
CommitCatalog(p) ==
    /\ proc[p].pc = "commit"
    /\ hostCopy' = Stamped(proc[p].rows)
    /\ view' = [view EXCEPT ![p] = IF proc[p].push THEN None
                                   ELSE View(proc[p].rows, "server", now, FALSE)]
    /\ trusted' = trusted \cup proc[p].rows.profiles
    /\ passed' = (passed \/ proc[p].raced)
    /\ proc' = [q \in Procs |-> IF q = p THEN CatalogIdle ELSE Overtaken(proc[q])]
    /\ UNCHANGED <<canon, now, since>>

(* push_catalog: the rows go to the server, the memo is dropped, the       *)
(* catalog is fetched again and held against the copy of that moment.      *)
PushCatalog(p) ==
    /\ proc[p].pc = "idle" /\ canon.revision < MaxRevision
    /\ \E new \in SUBSET (Profiles \ canon.profiles) :
          canon' = Rows(canon.profiles \cup new, canon.revision + 1)
    /\ view' = [view EXCEPT ![p] = None]
    /\ proc' = [proc EXCEPT ![p] = [CatalogIdle EXCEPT !.pc = "refetch"]]
    /\ since' = Append(since, now)
    /\ UNCHANGED <<hostCopy, now, trusted, passed>>
RefetchCatalog(p) ==
    /\ proc[p].pc = "refetch"
    /\ \/ \E answer \in Answers :
             /\ Acceptable(answer, RowsOfCopy(hostCopy))
             /\ proc' = [proc EXCEPT ![p] = [CatalogIdle EXCEPT !.pc = "commit", !.push = TRUE,
                                            !.rows = Rows(answer.profiles, answer.revision)]]
       \/ proc' = [proc EXCEPT ![p] = CatalogIdle]
    /\ UNCHANGED <<canon, hostCopy, now, view, since, trusted, passed>>

(* A process ends, or is killed; its commit is one transaction.            *)
CatalogExit(p) == /\ proc[p] # CatalogIdle \/ view[p] # None
           /\ proc' = [proc EXCEPT ![p] = CatalogIdle] /\ view' = [view EXCEPT ![p] = None]
           /\ UNCHANGED <<canon, hostCopy, now, since, trusted, passed>>

(* A commit follows its fetch at once, measured in time, and the stamp the *)
(* rows.                                                                   *)
CatalogTick == /\ now < MaxTime /\ \A p \in Procs : proc[p].pc \notin {"stamp", "commit"}
        /\ now' = now + 1
        /\ UNCHANGED <<canon, hostCopy, proc, view, since, trusted, passed>>

CatalogNext == \/ \E p \in Procs : \/ ReadRows(p) \/ ReadStamp(p) \/ FallBack(p) \/ NoRoute(p) \/ FetchCatalog(p) \/ CommitCatalog(p)
                            \/ PushCatalog(p) \/ RefetchCatalog(p) \/ CatalogExit(p)
        \/ CatalogTick
CatalogSpec == CatalogInit /\ [][CatalogNext]_catalogVars

------------------------------------------------------------------------------
CatalogTypeOK ==
    /\ canon.profiles \subseteq Profiles /\ canon.revision \in 1 .. MaxRevision
    /\ hostCopy = None \/ (hostCopy.at \in 0 .. now /\ hostCopy.revision \in 1 .. canon.revision)
    /\ \A p \in Procs : /\ proc[p].pc \in {"idle", "stamp", "fetch", "commit", "refetch"}
                        /\ proc[p].pc = "commit" <=> proc[p].rows # None

(* A catalog that lost a profile of the bundle is never served as good,    *)
(* whatever the server answered and whichever process committed it: the    *)
(* floor of _server_catalog_rejection, over all commits.                   *)
GoodViewsAreWhole ==
    \A p \in Procs : view[p] # None => Bundled \subseteq view[p].rows.profiles

(* A view that does not call itself stale was the canon at a moment no     *)
(* longer ago than catalog_stale_max_s (_read_catalog_uncached; README.md, *)
(* the row of the source `cache`); only the bundle that stands in for a    *)
(* server without the route is exempt.                                     *)
LastOf(revision, moments, today) ==
    IF revision < Len(moments) THEN moments[revision + 1] ELSE today
LastMoment(revision) == LastOf(revision, since, now)
Timely(v) == v.stale \/ v.source = "unsupported" \/ LastMoment(v.rows.revision) > v.read - StaleMax
FreshIsRecent == \A p \in Procs : IF view[p] = None THEN TRUE ELSE Timely(view[p])

(* The same of the views whose rows and stamp are of one copy.             *)
WholeIsRecent == \A p \in Procs : IF view[p] = None THEN TRUE ELSE view[p].torn \/ Timely(view[p])

(* The ratchet: the copy mentions every profile a copy of this host ever   *)
(* mentioned (_server_catalog_rejection), as long as no process committed  *)
(* one over a copy it had not seen.                                        *)
RatchetHolds == hostCopy # None /\ ~passed => trusted \subseteq hostCopy.profiles

(* What a view promises to its reader, over well-formed copies.            *)
ViewsAreSound == CatalogTypeOK /\ GoodViewsAreWhole /\ WholeIsRecent /\ RatchetHolds
=============================================================================
