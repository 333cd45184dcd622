------------------------------ MODULE Inflight ------------------------------
(***************************************************************************)
(* Counting the jobs that draw on one account from several hosts           *)
(* (inflight.py, recommend.py).  Each host's arbiter lists the jobs        *)
(* running there.  A gate run reads that list, publishes it as the host's  *)
(* document, lists the other hosts' documents, and admits a job if what is *)
(* used and what all counted jobs may still take stays below the cutoff.   *)
(* Every request may fail, each in its own way.                            *)
(***************************************************************************)
EXTENDS Absent, Integers, FiniteSets

CONSTANTS Machines,
          Gates,       \* gate runs, each on one host
          HostOf,      \* [Gates -> Machines]
          Jobs,        \* job ids, which the arbiters never use twice
          JobMaxAge,   \* INFLIGHT_MAX_AGE_S
          Cutoff, Reserve, Used, \* a window's cutoff, a job's reserve, its use
          MaxClock    \* bound of the model

ASSUME InflightAssumption ==
    /\ JobMaxAge \in Nat /\ Reserve \in Nat /\ MaxClock \in Nat
    /\ Used \in Int /\ Cutoff \in Int
    /\ HostOf \in [Gates -> Machines]
    /\ None \notin Nat
    /\ \A list \in SUBSET [job : Jobs, at : 0 .. MaxClock] : list # None

VARIABLES clock,
          rows,     \* [Machines -> the arbiter's records: job and start]
          listed,   \* [Machines -> the published document, or None]
          gate,     \* [Gates -> how far the run is]
          begun,    \* history: the jobs started so far
          told,     \* history: those a stored publication named
          cleared,  \* history: those over before a stored publication's reading
          crossed   \* history: hosts of which two runs published at a time
inflightVars == <<clock, rows, listed, gate, begun, told, cleared, crossed>>

Row(job, at) == [job |-> job, at |-> at]
JobsOf(records) == {r.job : r \in records}
Waiting == [pc |-> "idle", local |-> {}, over |-> {}, owed |-> {}]

InflightInit ==
    /\ clock = 0 /\ rows = [h \in Machines |-> {}]
    /\ listed = [h \in Machines |-> None]
    /\ gate = [g \in Gates |-> Waiting]
    /\ begun = {} /\ told = {} /\ cleared = {} /\ crossed = {}

------------------------------------------------------------------------------
(* A record counts while it is young enough, its document never ages.      *)
Young(records) == {r \in records : clock - r.at <= JobMaxAge}

(* What is used and what the counted jobs may take must stay below the     *)
(* cutoff; without a count what is used decides.                           *)
Fits(n) == IF n = None THEN Used < Cutoff ELSE Used < Cutoff /\ Used + Reserve * n < Cutoff
Verdict(n, owed) ==
    IF Fits(n) THEN [Waiting EXCEPT !.pc = "admitted", !.owed = owed] ELSE Waiting

(* local_jobs: the arbiter's records, or none if it cannot be asked; then  *)
(* the run judges by what is used alone.                                   *)
ReadLocal(g) ==
    /\ gate[g].pc = "idle"
    /\ LET own == Young(rows[HostOf[g]])
           over == (IF listed[HostOf[g]] = None THEN {} ELSE JobsOf(listed[HostOf[g]]))
                      \ JobsOf(rows[HostOf[g]])
       IN gate' \in {[gate EXCEPT ![g] = [pc |-> "publish", local |-> own, over |-> over,
                                          owed |-> {}]],
                     [gate EXCEPT ![g] = Verdict(None, {})]}
    /\ UNCHANGED <<clock, rows, listed, begun, told, cleared, crossed>>

(* publish_jobs: the list replaces the host's document, an empty one too.  *)
(* Slip: an empty list is not published.                                   *)
UnlessEmpty(stored, list) == IF list = {} THEN stored ELSE list
Replaced(stored, list) == list
Publish(g) ==
    /\ gate[g].pc = "publish"
    /\ LET h == HostOf[g] IN
       \E arrives \in BOOLEAN :
          IF arrives
          THEN /\ listed' = [listed EXCEPT ![h] = Replaced(@, gate[g].local)]
               /\ told' = told \cup JobsOf(gate[g].local)
               /\ cleared' = cleared \cup gate[g].over
               /\ crossed' = IF \E o \in Gates \ {g} : HostOf[o] = h /\ gate[o].pc = "publish"
                             THEN crossed \cup {h} ELSE crossed
          ELSE UNCHANGED <<listed, told, cleared, crossed>>
    /\ gate' = [gate EXCEPT ![g].pc = "list", ![g].over = {}]
    /\ UNCHANGED <<clock, rows, begun>>

(* remote_jobs: the young records of every document but the host's own,    *)
(* each job once; without an answer the local count alone is used.         *)
Total(local, remote) == local + remote
Others(h) == UNION {IF listed[i] = None THEN {} ELSE Young(listed[i]) : i \in Machines \ {h}}
List(g) ==
    /\ gate[g].pc = "list"
    /\ LET remote == JobsOf(Others(HostOf[g]))
           own == JobsOf(gate[g].local)
           running(h) == {r.job : r \in {q \in Young(rows[h]) : q.job \in told}}
           owed == own \cup UNION {running(h) : h \in Machines \ ({HostOf[g]} \cup crossed)}
       IN gate' \in {[gate EXCEPT ![g] = Verdict(Total(Cardinality(own), Cardinality(remote)), owed)],
                     [gate EXCEPT ![g] = Verdict(Cardinality(own), own)]}
    /\ UNCHANGED <<clock, rows, listed, begun, told, cleared, crossed>>

(* The caller starts the job it was let in for, or does not; jobs end, or  *)
(* are never released by the arbiter; the run is over.                     *)
Start(g) ==
    /\ gate[g].pc = "admitted"
    /\ \E j \in Jobs \ begun :
          /\ rows' = [rows EXCEPT ![HostOf[g]] = @ \cup {Row(j, clock)}]
          /\ begun' = begun \cup {j}
    /\ gate' = [gate EXCEPT ![g] = Waiting]
    /\ UNCHANGED <<clock, listed, told, cleared, crossed>>
Release(h) ==
    /\ \E r \in rows[h] : rows' = [rows EXCEPT ![h] = @ \ {r}]
    /\ UNCHANGED <<clock, listed, gate, begun, told, cleared, crossed>>
Leave(g) == /\ gate[g].pc # "idle" /\ gate' = [gate EXCEPT ![g] = Waiting]
            /\ UNCHANGED <<clock, rows, listed, begun, told, cleared, crossed>>
Elapse == /\ clock < MaxClock /\ clock' = clock + 1
          /\ UNCHANGED <<rows, listed, gate, begun, told, cleared, crossed>>

InflightNext ==
    \/ \E g \in Gates : ReadLocal(g) \/ Publish(g) \/ List(g) \/ Start(g) \/ Leave(g)
    \/ \E h \in Machines : Release(h)
    \/ Elapse
InflightSpec == InflightInit /\ [][InflightNext]_inflightVars

------------------------------------------------------------------------------
InflightTypeOK ==
    /\ clock \in 0 .. MaxClock /\ begun \subseteq Jobs
    /\ told \subseteq begun /\ cleared \subseteq begun
    /\ \A h, i \in Machines : h # i => JobsOf(rows[h]) \cap JobsOf(rows[i]) = {}
    /\ \A g \in Gates : /\ gate[g].pc \in {"idle", "publish", "list", "admitted"}
                        /\ gate[g].pc = "idle" => gate[g] = Waiting

(* A job that a stored publication named stays in its host's document      *)
(* while it runs and counts, and one that was over before a stored         *)
(* publication's reading is in no document (publish_jobs), unless two runs *)
(* of the host published at the same time.                                 *)
ListedIsCurrent ==
    \A h \in Machines \ crossed :
       LET doc == IF listed[h] = None THEN {} ELSE listed[h]
       IN /\ \A r \in Young(rows[h]) : r.job \in told => r \in doc
          /\ JobsOf(doc) \cap cleared = {}

(* Nothing is admitted unless every job it has to reckon with fits under   *)
(* the cutoff: those of the own host, if its arbiter answered, and, if the *)
(* server did, those the others have told of.  Counting goes wrong only on *)
(* the safe side (_inflight_gate, _inflight_headroom).                     *)
AdmittedFits ==
    \A g \in Gates : gate[g].pc = "admitted" =>
       Used + Reserve * Cardinality(gate[g].owed) < Cutoff

(* What is listed is current, and the gates that reckon with it stay under *)
(* the cutoff.                                                             *)
JobsAreCounted == InflightTypeOK /\ ListedIsCurrent /\ AdmittedFits
=============================================================================
