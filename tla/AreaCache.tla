----------------------------- MODULE AreaCache -----------------------------
(***************************************************************************)
(* The task areas and the area exceptions of the server, and the copy a    *)
(* host keeps of each (bench.py).  Both lists live as the catalog's copy   *)
(* does, without its floor: any well-formed answer is taken, an empty one  *)
(* too, and what is older than the copy may bear is still served, but      *)
(* called stale.  A copy belongs to the server it was fetched from, and    *)
(* the operator may turn a host to another server.                         *)
(***************************************************************************)
EXTENDS Absent, Integers, Sequences

CONSTANTS Readers,        \* processes of one host
          Servers, First, \* those a host may be turned to, and where it starts
          ListTtl, ListStaleMax, \* catalog_ttl_s, catalog_stale_max_s
          EmptyRevisions, \* the revisions of a list without a row
          MaxHour, MaxLists \* bounds of the model

ASSUME AreaAssumption ==
    /\ First \in Servers
    /\ ListTtl \in Nat \ {0} /\ ListStaleMax \in Nat \ {0}
    /\ MaxHour \in Nat /\ MaxLists \in Nat \ {0}
    /\ None \notin [server : Servers, revision : Nat, at : Nat, sound : BOOLEAN]

VARIABLES list,    \* "task-areas" or "area-exceptions"
          saying,  \* [Servers -> when each revision became its list]
          turned,  \* the server the configuration names
          areaCopy,\* the host's copy, stamped, or None
          hour,
          reader,  \* [Readers -> what the process is doing]
          shown    \* [Readers -> the view it serves, its memo, or None]
areaVars == <<list, saying, turned, areaCopy, hour, reader, shown>>

(* raced: another copy was committed since this process read its rows.     *)
AtRest == [pc |-> "idle", server |-> None, base |-> None, age |-> None, answer |-> None,
           read |-> 0, raced |-> FALSE, torn |-> FALSE]
AreaView(rows, source, read, server, torn) ==
    [rows |-> rows, source |-> source, read |-> read, server |-> server, torn |-> torn]
Latest(s) == Len(saying[s])
Says(s) == <<s, Latest(s)>>

AreaInit ==
    /\ list \in {"task-areas", "area-exceptions"}
    /\ saying = [s \in Servers |-> <<0>>] /\ turned = First
    /\ areaCopy = None /\ hour = 0
    /\ reader = [r \in Readers |-> AtRest] /\ shown = [r \in Readers |-> None]

------------------------------------------------------------------------------
(* The rows of the copy, if they can be used: not spoilt, and for the task *)
(* areas at least one.                                                     *)
RowsRead ==
    IF areaCopy = None THEN None
    ELSE IF ~areaCopy.sound \/ (list = "task-areas" /\ areaCopy.revision \in EmptyRevisions) THEN None
    ELSE <<areaCopy.server, areaCopy.revision>>
(* The age of the copy, if the server it is of is the process' own.        *)
(* Slip: a copy of whatever server.                                        *)
AgeOfAny(s) == IF areaCopy = None THEN None ELSE hour - areaCopy.at
AgeRead(s) ==
    IF areaCopy = None THEN None
    ELSE IF areaCopy.server # s THEN None ELSE hour - areaCopy.at

(* The rows and the stamp are read one after the other, with no            *)
(* transaction around them.                                                *)
ReadAreaRows(r) ==
    /\ reader[r].pc = "idle" /\ shown[r] = None
    /\ reader' = [reader EXCEPT ![r] = [AtRest EXCEPT !.pc = "stamp", !.server = turned,
                                                      !.base = RowsRead, !.read = hour]]
    /\ UNCHANGED <<list, saying, turned, areaCopy, hour, shown>>
ReadAreaStamp(r) ==
    /\ reader[r].pc = "stamp"
    /\ LET c == reader[r]
           age == IF c.base = None THEN None ELSE AgeRead(c.server)
       IN IF (IF age = None THEN FALSE ELSE age < ListTtl /\ age < ListStaleMax)
          THEN /\ shown' = [shown EXCEPT ![r] = AreaView(c.base, "cache", c.read, c.server, c.raced)]
               /\ reader' = [reader EXCEPT ![r] = AtRest]
          ELSE /\ reader' = [reader EXCEPT ![r].pc = "fetch", ![r].age = age,
                                             ![r].torn = age # None /\ c.raced]
               /\ UNCHANGED shown
    /\ UNCHANGED <<list, saying, turned, areaCopy, hour>>

(* Without an answer the copy, called stale when it is too old, or nothing. *)
WithoutServer(c) ==
    IF c.age = None THEN AreaView(None, "unavailable", c.read, c.server, FALSE)
    ELSE AreaView(c.base, IF c.age < ListStaleMax THEN "cache" ELSE "cache-stale", c.read, c.server, c.torn)
Show(r, view) ==
    /\ shown' = [shown EXCEPT ![r] = view]
    /\ reader' = [reader EXCEPT ![r] = AtRest]
    /\ UNCHANGED <<list, saying, turned, areaCopy, hour>>
NoAnswer(r) == reader[r].pc = "fetch" /\ Show(r, WithoutServer(reader[r]))
NoSuchRoute(r) ==
    /\ reader[r].pc = "fetch"
    /\ Show(r, AreaView(None, "unsupported", reader[r].read, reader[r].server, FALSE))
(* The answer: a process that keeps no copy (commit_cache) serves it.      *)
ListAnswered(r) ==
    /\ reader[r].pc = "fetch"
    /\ \/ /\ reader' = [reader EXCEPT ![r].pc = "commit", ![r].answer = Says(reader[r].server)]
          /\ UNCHANGED <<list, saying, turned, areaCopy, hour, shown>>
       \/ Show(r, AreaView(Says(reader[r].server), "server", hour, reader[r].server, FALSE))

(* The copy is replaced as a whole.  If that fails the answer is not used  *)
(* either: the process serves what it would have without the server.       *)
CommitAreas(r) ==
    /\ reader[r].pc = "commit"
    /\ areaCopy' = [server |-> reader[r].server, revision |-> reader[r].answer[2], at |-> hour, sound |-> TRUE]
    /\ shown' = [shown EXCEPT ![r] = AreaView(reader[r].answer, "server", hour, reader[r].server, FALSE)]
    /\ reader' = [q \in Readers |->
                    CASE q = r -> AtRest
                      [] reader[q].pc \in {"stamp", "fetch", "commit"} -> [reader[q] EXCEPT !.raced = TRUE]
                      [] OTHER -> reader[q]]
    /\ UNCHANGED <<list, saying, turned, hour>>
CommitFails(r) == reader[r].pc = "commit" /\ Show(r, WithoutServer(reader[r]))

ReaderEnds(r) == /\ reader[r] # AtRest \/ shown[r] # None
                 /\ reader' = [reader EXCEPT ![r] = AtRest] /\ shown' = [shown EXCEPT ![r] = None]
                 /\ UNCHANGED <<list, saying, turned, areaCopy, hour>>

(* A server's list changes; the operator turns the host (once, a bound);   *)
(* a row is spoilt; time passes, but not within a process' statements on   *)
(* the copy.                                                               *)
Revise(s) == /\ Latest(s) < MaxLists /\ saying' = [saying EXCEPT ![s] = Append(@, hour)]
             /\ UNCHANGED <<list, turned, areaCopy, hour, reader, shown>>
Turn == /\ turned = First /\ turned' \in Servers \ {First}
        /\ UNCHANGED <<list, saying, areaCopy, hour, reader, shown>>
Spoil == /\ list = "area-exceptions" /\ areaCopy # None /\ areaCopy' = [areaCopy EXCEPT !.sound = FALSE]
         /\ UNCHANGED <<list, saying, turned, hour, reader, shown>>
HourPasses == /\ hour < MaxHour /\ \A r \in Readers : reader[r].pc \notin {"stamp", "commit"}
              /\ hour' = hour + 1
              /\ UNCHANGED <<list, saying, turned, areaCopy, reader, shown>>

AreaNext ==
    \/ \E r \in Readers : \/ ReadAreaRows(r) \/ ReadAreaStamp(r) \/ NoAnswer(r) \/ NoSuchRoute(r)
                          \/ ListAnswered(r) \/ CommitAreas(r) \/ CommitFails(r) \/ ReaderEnds(r)
    \/ \E s \in Servers : Revise(s)
    \/ Turn \/ Spoil \/ HourPasses
AreaSpec == AreaInit /\ [][AreaNext]_areaVars

------------------------------------------------------------------------------
AreaTypeOK ==
    /\ \A s \in Servers : Latest(s) \in 1 .. MaxLists
    /\ areaCopy # None => areaCopy.revision \in 1 .. Latest(areaCopy.server) /\ areaCopy.at \in 0 .. hour
    /\ \A r \in Readers : reader[r].pc \in {"idle", "stamp", "fetch", "commit"}

(* A list that is served is one the process' own server had, and had no    *)
(* longer ago than catalog_stale_max_s unless it is called stale, whichever*)
(* process fetched it, whatever failed, and whichever server the host was  *)
(* turned to meanwhile (_read_task_areas_uncached,                         *)
(* _read_area_exceptions_uncached) -- if its rows and its stamp are of one *)
(* copy.                                                                   *)
LastHour(s, revision) == IF revision < Latest(s) THEN saying[s][revision + 1] ELSE hour
AreasHold ==
    /\ AreaTypeOK
    /\ \A r \in Readers : LET v == shown[r] IN
          (IF v = None THEN FALSE ELSE v.rows # None /\ ~v.torn) =>
             /\ v.rows[1] = v.server /\ v.rows[2] \in 1 .. Latest(v.server)
             /\ v.source = "cache-stale" \/ LastHour(v.server, v.rows[2]) > v.read - ListStaleMax
=============================================================================
