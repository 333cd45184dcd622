---------------------------- MODULE ServerProofs ----------------------------
(***************************************************************************)
(* What is proved of what hosts share through the server, for any hosts    *)
(* and processes, with any request or answer lost.                         *)
(*                                                                         *)
(* Of the measurements: whose a host judges by and how old it is, and when *)
(* an older one may take a newer one's place, with clocks as far apart as  *)
(* the code tolerates.  Of the jobs: that a host's list is current and     *)
(* every job is counted.  Of the catalog's copy: no view that is called    *)
(* good lacks a profile of the bundle, a view of one copy is as recent as  *)
(* it says, and the copy loses no profile but to a commit over a copy its  *)
(* process had not seen.  Of the copies of task areas and exceptions: what *)
(* is shown is a list of the server it is shown for, and as recent.        *)
(* Of the ranking: that each step of it keeps the rows, and where the      *)
(* promoted, free, preferred and credit rows end, for any rows, readings,  *)
(* evidence and exceptions.  Of the edits of config.toml: that each lands  *)
(* on the file as it is, with the values it was asked for and no others    *)
(* changed, for any editors, files and requests.                           *)
(***************************************************************************)
EXTENDS QuotaShare, Inflight, CatalogCache, AreaCache, Ranking, ConfigEdit,
        TLAPS, FiniteSetTheorems, WellFoundedInduction

------------------------------------------------------------------------------
(* The shared measurements (QuotaShare).                                   *)
Commands == [pc : {"idle", "get", "put", "ask"}, account : Accounts \cup {None},
             doc : Documents \cup {None}]
Judged == [doc : Documents, moment : Int, asked : Accounts \cup {None}]
ShareTyped ==
    /\ moment \in 0 .. MaxMoment /\ raced \subseteq Accounts
    /\ latest \in [Accounts -> Documents \cup {None}]
    /\ newest \in [Accounts -> Documents \cup {None}]
    /\ command \in [Hosts -> Commands]
    /\ served \in [Hosts -> Judged \cup {None}]

\* A document on its way has a measurement of the account it is put under.
Carried ==
    \A h \in Hosts :
        /\ command[h].pc \in {"get", "put", "ask"} => command[h].account \in Accounts
        /\ command[h].pc \in {"get", "put"} => command[h].doc # None
        /\ command[h].doc # None => command[h].doc.account = command[h].account

\* No document, stored or on its way, was measured later than now, and what
\* is stored under an account is of that account.
Past(doc) == doc # None => MeasuredAt(doc) <= moment
InThePast ==
    /\ \A a \in Accounts : /\ Past(latest[a])
                           /\ latest[a] # None => latest[a].account = a
    /\ \A h \in Hosts : Past(command[h].doc)

AsMeasured ==
    \A h \in Hosts : served[h] # None =>
        /\ served[h].doc.account = served[h].asked
        /\ MeasuredAt(served[h].doc) <= served[h].moment
        /\ served[h].moment - MeasuredAt(served[h].doc) <= RemoteMaxAge + MaxSkew

\* Of an account without a race, the document is the newest there was, at most
\* one host is about to replace it, and by a newer one.
Kept(a) ==
    \/ latest[a] = None /\ newest[a] = None
    \/ latest[a] # None /\ newest[a] # None /\ latest[a].at = newest[a].at
Putting(h, a) == command[h].pc = "put" /\ command[h].account = a
Unraced ==
    \A a \in Accounts \ raced :
        /\ Kept(a)
        /\ \A h \in Hosts : Putting(h, a) => latest[a] = None \/ latest[a].at < command[h].doc.at
        /\ \A h, i \in Hosts : Putting(h, a) /\ Putting(i, a) => h = i

ShareInv == ShareTyped /\ Carried /\ InThePast /\ AsMeasured /\ Unraced

LEMMA DocumentTypes ==
    ASSUME NEW d \in Documents
    PROVE  /\ d # None /\ d.account \in Accounts /\ d.by \in Hosts /\ d.at \in Int
           /\ ClockOf[d.by] \in Int /\ MeasuredAt(d) \in Int
    BY SkewAssumption DEF Documents, MeasuredAt

\* A new measurement says the moment it was taken at, whatever its host's clock.
LEMMA MeasuredNow ==
    ASSUME NEW h \in Hosts, NEW a \in Accounts, moment \in Int
    PROVE  Document(a, h) \in Documents /\ Document(a, h).account = a
           /\ MeasuredAt(Document(a, h)) = moment
    BY SkewAssumption DEF Document, Documents, Clock, MeasuredAt

LEMMA InitShareInv == ShareInit => ShareInv
    BY SkewAssumption DEF ShareInit, ShareInv, ShareTyped, Carried, InThePast, AsMeasured, Unraced, Kept,
                          Putting, Past, Still, Commands

\* What a step does to the command of one host.
Sends(h, c) == command' = [command EXCEPT ![h] = c]

LEMMA StepMeasure ==
    ASSUME ShareInv, NEW h \in Hosts, Measure(h) PROVE ShareInv'
<1> USE DEF ShareInv
<1>1. PICK a \in Accounts :
          Sends(h, [pc |-> "get", account |-> a, doc |-> Document(a, h)])
    BY DEF Measure, Sends
<1>u. UNCHANGED <<moment, latest, served, newest, raced>> BY DEF Measure
<1>d. moment \in Int BY SkewAssumption DEF ShareTyped
<1>2. Document(a, h) \in Documents /\ Document(a, h).account = a
      /\ MeasuredAt(Document(a, h)) = moment
    BY <1>d, MeasuredNow
<1>3. command'[h] = [pc |-> "get", account |-> a, doc |-> Document(a, h)]
      /\ \A i \in Hosts \ {h} : command'[i] = command[i]
    BY <1>1 DEF Sends, ShareTyped
<1>4. ShareTyped'
    BY <1>1, <1>2, <1>u DEF ShareTyped, Sends, Commands
<1>5. Carried' BY <1>3, <1>2, DocumentTypes DEF Carried
<1>6. InThePast' BY <1>3, <1>2, <1>u, <1>d DEF InThePast, Past, MeasuredAt
<1>7. AsMeasured' BY <1>u DEF AsMeasured, MeasuredAt
<1>8. Unraced' BY <1>3, <1>u DEF Unraced, Kept, Putting
<1>9. QED BY <1>4, <1>5, <1>6, <1>7, <1>8

LEMMA StepLook ==
    ASSUME ShareInv, NEW h \in Hosts, Look(h) PROVE ShareInv'
<1> USE DEF ShareInv
<1> DEFINE a == command[h].account
           put == [pc |-> "put", account |-> a, doc |-> command[h].doc]
<1>u. UNCHANGED <<moment, latest, served, newest>> /\ command[h].pc = "get" BY DEF Look
<1>1. PICK answer \in {latest[a], None} :
          /\ Sends(h, IF Newer(answer, put.doc) THEN put ELSE Still)
          /\ raced' = IF answer # latest[a] \/ (Newer(answer, command[h].doc) /\ OthersWrite(h, a))
                      THEN raced \cup {a} ELSE raced
    BY DEF Look, Sends
<1>a. a \in Accounts /\ command[h].doc \in Documents /\ command[h].doc.account = a
    BY <1>u DEF Carried, ShareTyped, Commands
<1>2. /\ command'[h] = put \/ command'[h] = Still
      /\ command'[h] = put => Newer(answer, command[h].doc)
      /\ \A i \in Hosts \ {h} : command'[i] = command[i]
    <2>1. command'[h] = IF Newer(answer, put.doc) THEN put ELSE Still
        BY <1>1 DEF Sends, ShareTyped
    <2>2. put # Still BY <1>a, SkewAssumption DEF Still
    <2>3. QED BY <2>1, <2>2, <1>1 DEF Sends, ShareTyped
<1>3. ShareTyped'
    <2>1. put \in Commands /\ Still \in Commands BY <1>a DEF Commands, Still
    <2>2. raced' \subseteq Accounts BY <1>1, <1>a DEF ShareTyped
    <2>3. QED BY <2>1, <2>2, <1>1, <1>u DEF ShareTyped, Sends
<1>4. Carried' BY <1>2, <1>a, DocumentTypes DEF Carried, Still
<1>5. InThePast' BY <1>2, <1>u DEF InThePast, Past, MeasuredAt, Still
<1>6. AsMeasured' BY <1>u DEF AsMeasured, MeasuredAt
<1>7. Unraced'
    <2> SUFFICES ASSUME NEW b \in Accounts, b \notin raced'
                 PROVE  /\ Kept(b)'
                        /\ \A i \in Hosts : Putting(i, b)' =>
                               latest'[b] = None \/ latest'[b].at < command'[i].doc.at
                        /\ \A i, j \in Hosts : Putting(i, b)' /\ Putting(j, b)' => i = j
        BY DEF Unraced
    <2>1. b \notin raced BY <1>1
    <2>2. Kept(b)' BY <2>1, <1>u DEF Unraced, Kept
    <2>3. CASE command'[h] = put /\ b = a
        <3>1. answer = latest[a] /\ ~OthersWrite(h, a) /\ Newer(latest[a], command[h].doc)
            BY <1>1, <1>2, <2>3
        <3>2. \A i \in Hosts \ {h} : ~Putting(i, b)' BY <3>1, <1>2, <2>3 DEF OthersWrite, Putting
        <3>3. latest[b] = None \/ latest[b].at < command'[h].doc.at
            BY <3>1, <2>3 DEF Newer
        <3>4. QED BY <2>2, <3>2, <3>3, <1>u
    <2>4. CASE ~(command'[h] = put /\ b = a)
        <3>1. ~Putting(h, b)' BY <2>4, <1>2 DEF Putting, Still
        <3>2. QED BY <2>1, <2>2, <3>1, <1>2, <1>u DEF Unraced, Putting
    <2>5. QED BY <2>3, <2>4
<1>8. QED BY <1>3, <1>4, <1>5, <1>6, <1>7

LEMMA StepPut ==
    ASSUME ShareInv, NEW h \in Hosts, Put(h) PROVE ShareInv'
<1> USE DEF ShareInv
<1> DEFINE doc == command[h].doc
           a == command[h].account
<1>u. UNCHANGED <<moment, served, raced>> /\ command[h].pc = "put" /\ Sends(h, Still)
    BY DEF Put, Sends
<1>a. a \in Accounts /\ doc \in Documents /\ doc.account = a /\ doc # None
    BY <1>u DEF Carried, ShareTyped, Commands
<1>1. command'[h] = Still /\ \A i \in Hosts \ {h} : command'[i] = command[i]
    BY <1>u DEF Sends, ShareTyped
<1>2. \/ UNCHANGED <<latest, newest>>
      \/ /\ latest' = [latest EXCEPT ![a] = doc]
         /\ newest' = [newest EXCEPT ![a] =
                IF newest[a] = None THEN doc ELSE IF newest[a].at < doc.at THEN doc ELSE newest[a]]
    BY <1>a DEF Put
<1>3. ShareTyped'
    <2>1. Still \in Commands BY DEF Commands, Still
    <2>2. command' \in [Hosts -> Commands] BY <1>u, <2>1 DEF Sends, ShareTyped
    <2>3. latest' \in [Accounts -> Documents \cup {None}] BY <1>2, <1>a DEF ShareTyped
    <2>4. newest' \in [Accounts -> Documents \cup {None}] BY <1>2, <1>a DEF ShareTyped
    <2>5. QED BY <2>2, <2>3, <2>4, <1>u DEF ShareTyped
<1>4. Carried' BY <1>1 DEF Carried, Still
<1>5. InThePast'
    <2>1. \A b \in Accounts : latest'[b] = latest[b] \/ (b = a /\ latest'[b] = doc)
        BY <1>2, <1>a DEF ShareTyped
    <2>2. QED BY <2>1, <1>1, <1>a, <1>u DEF InThePast, Past, MeasuredAt, Still
<1>6. AsMeasured' BY <1>u DEF AsMeasured, MeasuredAt
<1>7. Unraced'
    <2> SUFFICES ASSUME NEW b \in Accounts, b \notin raced
                 PROVE  /\ Kept(b)'
                        /\ \A i \in Hosts : Putting(i, b)' =>
                               latest'[b] = None \/ latest'[b].at < command'[i].doc.at
                        /\ \A i, j \in Hosts : Putting(i, b)' /\ Putting(j, b)' => i = j
        BY <1>u DEF Unraced
    <2>1. ~Putting(h, b)' BY <1>1 DEF Putting, Still
    <2>2. \A i \in Hosts \ {h} : Putting(i, b)' => Putting(i, b) /\ command'[i] = command[i]
        BY <1>1 DEF Putting
    <2>3. CASE b = a
        <3>1. \A i \in Hosts : ~Putting(i, b)' BY <2>1, <2>2, <2>3, <1>u DEF Unraced, Putting
        <3>2. latest[b] = None \/ latest[b].at < doc.at
            BY <2>3, <1>u DEF Unraced, Putting
        <3>3. CASE UNCHANGED <<latest, newest>> BY <3>1, <3>3 DEF Unraced, Kept
        <3>4. CASE ~UNCHANGED <<latest, newest>>
            <4>1. latest'[b] = doc BY <3>4, <1>2, <2>3 DEF ShareTyped
            <4>2. newest'[b] = doc
                <5>1. newest[b] = None \/ newest[b].at < doc.at BY <3>2 DEF Unraced, Kept
                <5>2. QED BY <5>1, <3>4, <1>2, <2>3 DEF ShareTyped
            <4>3. QED BY <3>1, <4>1, <4>2, <1>a DEF Kept
        <3>5. QED BY <3>3, <3>4
    <2>4. CASE b # a
        <3>1. latest'[b] = latest[b] /\ newest'[b] = newest[b] BY <2>4, <1>2 DEF ShareTyped
        <3>2. QED BY <3>1, <2>1, <2>2 DEF Unraced, Kept
    <2>5. QED BY <2>3, <2>4
<1>8. QED BY <1>3, <1>4, <1>5, <1>6, <1>7

\* A host whose command asks, ends or waits puts nothing.
LEMMA Unput ==
    ASSUME ShareInv, NEW h \in Hosts, NEW c \in Commands, Sends(h, c), c.pc \in {"idle", "ask"},
           c.doc = None, c.pc = "ask" => c.account \in Accounts,
           UNCHANGED <<moment, latest, newest, raced>>
    PROVE  (Carried /\ InThePast /\ Unraced)' /\ command' \in [Hosts -> Commands]
<1>1. command'[h] = c /\ \A i \in Hosts \ {h} : command'[i] = command[i]
    BY DEF ShareInv, Sends, ShareTyped
<1>2. Carried' BY <1>1 DEF ShareInv, Carried
<1>3. InThePast' BY <1>1 DEF ShareInv, InThePast, Past, MeasuredAt
<1>4. Unraced' BY <1>1 DEF ShareInv, Unraced, Kept, Putting
<1>5. command' \in [Hosts -> Commands] BY DEF ShareInv, Sends, ShareTyped
<1>6. QED BY <1>2, <1>3, <1>4, <1>5

LEMMA StepAsk ==
    ASSUME ShareInv, NEW h \in Hosts, Ask(h) PROVE ShareInv'
<1>1. PICK a \in Accounts : Sends(h, [pc |-> "ask", account |-> a, doc |-> None])
    BY DEF Ask, Sends
<1>u. UNCHANGED <<moment, latest, served, newest, raced>> BY DEF Ask
<1>2. (Carried /\ InThePast /\ Unraced)' /\ command' \in [Hosts -> Commands]
    <2> DEFINE c == [pc |-> "ask", account |-> a, doc |-> None]
    <2>1. c \in Commands /\ c.pc = "ask" /\ c.doc = None /\ c.account = a BY DEF Commands
    <2> HIDE DEF c
    <2>2. Sends(h, c) BY <1>1 DEF c
    <2>3. QED BY <2>1, <2>2, <1>u, Unput
<1>3. QED BY <1>2, <1>u DEF ShareInv, ShareTyped, AsMeasured, MeasuredAt

LEMMA IdleUnput ==
    ASSUME ShareInv, NEW h \in Hosts, Sends(h, Still), UNCHANGED <<moment, latest, newest, raced>>
    PROVE  (Carried /\ InThePast /\ Unraced)' /\ command' \in [Hosts -> Commands]
<1>1. Still \in Commands /\ Still.pc = "idle" /\ Still.doc = None BY DEF Commands, Still
<1>2. QED BY <1>1, Unput

LEMMA StepAnswered ==
    ASSUME ShareInv, NEW h \in Hosts, Answered(h) PROVE ShareInv'
<1> DEFINE a == command[h].account
<1>u. UNCHANGED <<moment, latest, newest, raced>> /\ command[h].pc = "ask" /\ Sends(h, Still)
    BY DEF Answered, Sends
<1>a. a \in Accounts BY <1>u DEF ShareInv, Carried
<1>1. PICK answer \in {latest[a], None} : served' = [served EXCEPT ![h] = Served(h, answer)]
    BY DEF Answered
<1>2. \/ Served(h, answer) = None
      \/ /\ answer \in Documents /\ answer = latest[a] /\ Recent(answer, Clock(h))
         /\ Served(h, answer) = [doc |-> answer, moment |-> moment, asked |-> a]
    BY <1>a DEF Served, ShareInv, ShareTyped
<1>3. Served(h, answer) \in Judged \cup {None}
    BY <1>2, <1>a, SkewAssumption DEF Judged, ShareInv, ShareTyped
<1>4. ShareTyped'
    <2>1. served' \in [Hosts -> Judged \cup {None}] BY <1>1, <1>3 DEF ShareInv, ShareTyped
    <2>2. QED BY <2>1, <1>u, IdleUnput DEF ShareInv, ShareTyped
<1>5. AsMeasured'
    <2>1. ASSUME NEW i \in Hosts, i # h, served'[i] # None
          PROVE  served'[i] = served[i]
        BY <1>1, <2>1 DEF ShareInv, ShareTyped
    <2>2. CASE Served(h, answer) = None
        BY <2>1, <2>2, <1>1, <1>3 DEF ShareInv, ShareTyped, AsMeasured, MeasuredAt
    <2>3. CASE Served(h, answer) # None
        <3>1. /\ served'[h].doc = answer /\ served'[h].moment = moment /\ served'[h].asked = a
            BY <1>1, <1>2, <2>3 DEF ShareInv, ShareTyped
        <3>2. answer.account = a /\ MeasuredAt(answer) <= moment
            BY <1>2, <2>3, <1>a, DocumentTypes DEF ShareInv, InThePast, Past
        <3>3. moment - MeasuredAt(answer) <= RemoteMaxAge + MaxSkew
            <4>1. /\ ClockOf[h] \in Int /\ ClockOf[answer.by] \in Int /\ answer.at \in Int
                  /\ ClockOf[answer.by] - ClockOf[h] <= MaxSkew /\ moment \in Int
                BY <1>2, <2>3, DocumentTypes, SkewAssumption DEF ShareInv, ShareTyped
            <4>2. (moment + ClockOf[h]) - answer.at <= RemoteMaxAge
                BY <1>2, <2>3 DEF Recent, Clock
            <4>3. QED BY <4>1, <4>2, SkewAssumption DEF MeasuredAt
        <3>4. QED BY <2>1, <3>1, <3>2, <3>3 DEF ShareInv, AsMeasured, MeasuredAt
    <2>4. QED BY <2>2, <2>3
<1>6. QED BY <1>4, <1>5, <1>u, IdleUnput DEF ShareInv

LEMMA StepEnd ==
    ASSUME ShareInv, NEW h \in Hosts, End(h) PROVE ShareInv'
<1>u. /\ UNCHANGED <<moment, latest, newest, raced>> /\ Sends(h, Still)
      /\ served' = [served EXCEPT ![h] = None]
    BY DEF End, Sends
<1>1. ShareTyped' BY <1>u, IdleUnput DEF ShareInv, ShareTyped
<1>2. AsMeasured' BY <1>u DEF ShareInv, ShareTyped, AsMeasured, MeasuredAt
<1>3. QED BY <1>1, <1>2, <1>u, IdleUnput DEF ShareInv

LEMMA StepPass ==
    ASSUME ShareInv, Pass PROVE ShareInv'
<1> USE DEF ShareInv, Pass
<1>1. ShareTyped' BY SkewAssumption DEF ShareTyped
<1>2. Carried' BY DEF Carried
<1>3. InThePast'
    <2>1. \A a \in Accounts : Past(latest[a])'
        BY DocumentTypes DEF ShareTyped, InThePast, Past, MeasuredAt
    <2>2. \A h \in Hosts : Past(command[h].doc)'
        BY DocumentTypes DEF ShareTyped, Commands, InThePast, Past, MeasuredAt
    <2>3. QED BY <2>1, <2>2 DEF InThePast
<1>4. AsMeasured' BY DEF AsMeasured, MeasuredAt
<1>5. Unraced' BY DEF Unraced, Kept, Putting
<1>6. QED BY <1>1, <1>2, <1>3, <1>4, <1>5

\* Every state satisfies the types and the strengthened invariant.
THEOREM ShareInductive == ShareSpec => []ShareInv
<1>1. ShareInv /\ [ShareNext]_shareVars => ShareInv'
    <2> SUFFICES ASSUME ShareInv, [ShareNext]_shareVars PROVE ShareInv' OBVIOUS
    <2>1. CASE UNCHANGED shareVars
        BY <2>1 DEF shareVars, ShareInv, ShareTyped, Carried, InThePast, AsMeasured, Unraced, Kept,
                    Putting, Past, MeasuredAt
    <2>2. QED
        BY <2>1, StepMeasure, StepLook, StepPut, StepAsk, StepAnswered, StepEnd, StepPass
        DEF ShareNext
<1>2. QED BY <1>1, InitShareInv, PTL DEF ShareSpec

\* What a host judges by in place of its own measurement is of the account it
\* asked about and no older than the limit, give or take the clocks
\* (remote_result, declared_result), whatever answers were lost.
THEOREM ServedWasMeasuredThm == ShareSpec => []ServedWasMeasured
<1>1. ShareInv => ServedWasMeasured
    BY DEF ShareInv, ShareTyped, Carried, AsMeasured, ServedWasMeasured, ShareTypeOK, Commands
<1>2. QED BY <1>1, ShareInductive, PTL

\* Without a lost answer and without two hosts publishing at once, the
\* document of an account is the newest there ever was (publish_result).
THEOREM OlderOnlyWhenRacedThm == ShareSpec => []OlderOnlyWhenRaced
<1>1. ShareInv => OlderOnlyWhenRaced
    BY DEF ShareInv, Unraced, Kept, OlderOnlyWhenRaced
<1>2. QED BY <1>1, ShareInductive, PTL

------------------------------------------------------------------------------
(* The jobs in flight (Inflight).                                          *)
JobRows == [job : Jobs, at : 0 .. MaxClock]
GateStates == [pc : {"idle", "publish", "list", "admitted"}, local : SUBSET JobRows,
           over : SUBSET Jobs, owed : SUBSET Jobs]
InflightTyped ==
    /\ clock \in 0 .. MaxClock /\ begun \subseteq Jobs /\ IsFiniteSet(begun)
    /\ told \subseteq begun /\ cleared \subseteq begun /\ crossed \subseteq Machines
    /\ rows \in [Machines -> SUBSET JobRows]
    /\ listed \in [Machines -> (SUBSET JobRows) \cup {None}]
    /\ gate \in [Gates -> GateStates]
    /\ \A g \in Gates : gate[g].pc = "idle" => gate[g] = Waiting

\* The jobs a host knows of, and no other host ever does: those it runs, those
\* it published and those its gate runs have in hand.
Doc(h) == IF listed[h] = None THEN {} ELSE listed[h]
Heard(h, j) ==
    \/ j \in JobsOf(rows[h]) \cup JobsOf(Doc(h))
    \/ \E g \in Gates : HostOf[g] = h /\ j \in JobsOf(gate[g].local) \cup gate[g].over
OneHome ==
    \A j \in Jobs : \A h \in Machines : Heard(h, j) =>
        j \in begun /\ \A i \in Machines \ {h} : ~Heard(i, j)
\* A job has one record, wherever it was read.
OneRow ==
    \A h \in Machines : \A q \in rows[h] :
        /\ \A r \in rows[h] : r.job = q.job => r = q
        /\ \A g \in Gates : \A r \in gate[g].local : HostOf[g] = h /\ r.job = q.job => r = q
\* What a run found to be over is not running any more, nor ever again.
Gone ==
    /\ \A h \in Machines : JobsOf(rows[h]) \cap cleared = {}
    /\ \A g \in Gates : /\ gate[g].over \cap JobsOf(rows[HostOf[g]]) = {}
                        /\ gate[g].over \cap JobsOf(gate[g].local) = {}
\* The list about to be published has all that ListedIsCurrent asks of the
\* document it replaces, unless another run of the host published since.
ReadingIsCurrent ==
    \A g \in Gates : gate[g].pc = "publish" /\ HostOf[g] \notin crossed =>
        /\ \A r \in Young(rows[HostOf[g]]) : r.job \in told => r \in gate[g].local
        /\ JobsOf(gate[g].local) \cap cleared = {}
InflightInv == InflightTyped /\ OneHome /\ OneRow /\ Gone /\ ReadingIsCurrent /\ ListedIsCurrent /\ AdmittedFits

\* A verdict reads nothing any more, and admits only what it reckons with.
Fit(v) == v.pc = "admitted" => Used + Reserve * Cardinality(v.owed) < Cutoff
Decided(v) == /\ v \in GateStates /\ v.local = {} /\ v.over = {} /\ Fit(v)
             /\ v.pc \in {"idle", "admitted"} /\ (v.pc = "idle" => v = Waiting)
Ends(g) == /\ \E v : Decided(v) /\ gate' = [gate EXCEPT ![g] = v]
           /\ UNCHANGED <<clock, rows, listed, begun, told, cleared, crossed>>

LEMMA WaitingDecided == Decided(Waiting)
BY DEF Decided, Waiting, GateStates, Fit

LEMMA InitInflightInv == InflightInit => InflightInv
<1> SUFFICES ASSUME InflightInit PROVE InflightInv OBVIOUS
<1> USE InflightAssumption DEF InflightInit
<1>1. InflightTyped
    <2>1. IsFiniteSet({}) BY FS_EmptySet
    <2>2. Waiting \in GateStates BY DEF Waiting, GateStates
    <2>3. QED BY <2>1, <2>2 DEF InflightTyped
<1>2. OneHome BY DEF OneHome, Heard, JobsOf, Doc, Waiting
<1>3. OneRow BY DEF OneRow
<1>4. Gone BY DEF Gone, JobsOf, Waiting
<1>5. ReadingIsCurrent /\ AdmittedFits BY DEF ReadingIsCurrent, AdmittedFits, Waiting
<1>6. ListedIsCurrent BY DEF ListedIsCurrent, JobsOf, Young
<1>7. QED BY <1>1, <1>2, <1>3, <1>4, <1>5, <1>6 DEF InflightInv

\* Of what a verdict reckons with, nothing is read or listed any more.
LEMMA EndKeeps ==
    ASSUME InflightInv, NEW g \in Gates, Ends(g) PROVE InflightInv'
<1> USE DEF InflightInv
<1>u. UNCHANGED <<clock, rows, listed, begun, told, cleared, crossed>> BY DEF Ends
<1>1. PICK v : Decided(v) /\ gate' = [gate EXCEPT ![g] = v] BY DEF Ends
<1>2. gate'[g] = v /\ \A o \in Gates \ {g} : gate'[o] = gate[o] BY <1>1 DEF InflightTyped
<1>3. InflightTyped' BY <1>1, <1>2, <1>u DEF InflightTyped, Decided
<1>4. OneHome'
    <2>1. \A o \in Gates : /\ JobsOf(gate'[o].local) \subseteq JobsOf(gate[o].local)
                           /\ gate'[o].over \subseteq gate[o].over
        BY <1>1, <1>2 DEF Decided, JobsOf
    <2>2. \A h, j : Heard(h, j)' => Heard(h, j) BY <2>1, <1>u DEF Heard, Doc, JobsOf
    <2>3. QED BY <2>2, <1>u DEF OneHome
<1>5. OneRow' BY <1>1, <1>2, <1>u DEF OneRow, Decided
<1>6. Gone' BY <1>1, <1>2, <1>u DEF Gone, Decided, JobsOf
<1>7. ReadingIsCurrent' BY <1>1, <1>2, <1>u DEF ReadingIsCurrent, Decided, JobsOf, Young
<1>8. ListedIsCurrent' BY <1>u DEF ListedIsCurrent, Young, JobsOf
<1>9. AdmittedFits' BY <1>1, <1>2 DEF AdmittedFits, Decided, Fit
<1>10. QED BY <1>3, <1>4, <1>5, <1>6, <1>7, <1>8, <1>9

\* More jobs than a verdict has to reckon with never make it admit more.
LEMMA CountCovers ==
    ASSUME NEW n \in Nat, NEW owed \in SUBSET Jobs, IsFiniteSet(owed), Cardinality(owed) <= n
    PROVE  Decided(Verdict(n, owed))
<1>1. Cardinality(owed) \in Nat BY FS_CardinalityType
<1>2. Reserve * Cardinality(owed) <= Reserve * n
    BY <1>1, InflightAssumption
<1>3. /\ Reserve * Cardinality(owed) \in Int /\ Reserve * n \in Int
      /\ Used \in Int /\ Cutoff \in Int /\ n # None
    BY <1>1, InflightAssumption
<1>4. Fits(n) => Used + Reserve * Cardinality(owed) < Cutoff BY <1>2, <1>3 DEF Fits
<1>5. QED BY <1>4 DEF Verdict, Decided, Fit, Waiting, GateStates

LEMMA ReadLocalKeeps ==
    ASSUME InflightInv, NEW g \in Gates, ReadLocal(g) PROVE InflightInv'
<1> USE DEF InflightInv
<1> DEFINE h == HostOf[g]
           own == Young(rows[h])
           over == JobsOf(Doc(h)) \ JobsOf(rows[h])
           v == [pc |-> "publish", local |-> own, over |-> over, owed |-> {}]
<1>u. UNCHANGED <<clock, rows, listed, begun, told, cleared, crossed>> BY DEF ReadLocal
<1>h. h \in Machines BY InflightAssumption
<1>1. \/ gate' = [gate EXCEPT ![g] = v]
      \/ gate' = [gate EXCEPT ![g] = Verdict(None, {})]
    <2>1. over = (IF listed[h] = None THEN {} ELSE JobsOf(listed[h])) \ JobsOf(rows[h])
        BY DEF Doc, JobsOf
    <2>2. QED BY <2>1 DEF ReadLocal
<1>2. CASE gate' = [gate EXCEPT ![g] = Verdict(None, {})]
    <2>1. Decided(Verdict(None, {}))
        <3>1. Cardinality({}) = 0 BY FS_EmptySet
        <3>2. Used < Cutoff => Used + Reserve * 0 < Cutoff BY InflightAssumption
        <3>3. QED BY <3>1, <3>2 DEF Verdict, Fits, Decided, Fit, Waiting, GateStates
    <2>2. QED BY <1>2, <2>1, <1>u, EndKeeps DEF Ends
<1>3. CASE gate' = [gate EXCEPT ![g] = v]
    <2>1. /\ own \subseteq rows[h] /\ own \in SUBSET JobRows /\ rows[h] \in SUBSET JobRows
          /\ Doc(h) \in SUBSET JobRows
        BY <1>h DEF Young, InflightTyped, Doc
    <2>2. over \in SUBSET Jobs /\ JobsOf(own) \subseteq JobsOf(rows[h])
        BY <2>1 DEF JobsOf, JobRows
    <2>3. v \in GateStates /\ v.pc = "publish" /\ v.local = own /\ v.over = over
        BY <2>1, <2>2 DEF GateStates
    <2> HIDE DEF v
    <2>4. gate'[g] = v /\ \A o \in Gates \ {g} : gate'[o] = gate[o] BY <1>3 DEF InflightTyped
    <2>5. InflightTyped' BY <1>3, <2>3, <2>4, <1>u DEF InflightTyped
    <2>6. OneHome'
        <3>1. \A i, j : Heard(i, j)' => Heard(i, j)
            <4> SUFFICES ASSUME NEW i, NEW j, Heard(i, j)' PROVE Heard(i, j) OBVIOUS
            <4>1. CASE j \in JobsOf(rows'[i]) \cup JobsOf(Doc(i)') BY <4>1, <1>u DEF Heard, Doc, JobsOf
            <4>2. ASSUME NEW o \in Gates, HostOf[o] = i,
                         j \in JobsOf(gate'[o].local) \cup gate'[o].over
                  PROVE  Heard(i, j)
                BY <4>2, <2>2, <2>3, <2>4 DEF Heard
            <4>3. QED BY <4>1, <4>2 DEF Heard, JobsOf, Doc
        <3>2. QED BY <3>1, <1>u DEF OneHome
    <2>7. OneRow' BY <2>1, <2>3, <2>4, <1>u, <1>h DEF OneRow
    <2>8. Gone' BY <2>2, <2>3, <2>4, <1>u DEF Gone
    <2>9. ReadingIsCurrent'
        <3>1. Young(rows[h])' = own BY <1>u DEF Young
        <3>2. JobsOf(own) \cap cleared = {} BY <2>2, <1>h DEF Gone
        <3>3. QED BY <3>1, <3>2, <2>3, <2>4, <1>u DEF ReadingIsCurrent, Young
    <2>10. ListedIsCurrent' BY <1>u DEF ListedIsCurrent, Young, JobsOf
    <2>11. AdmittedFits' BY <2>3, <2>4 DEF AdmittedFits
    <2>12. QED BY <2>5, <2>6, <2>7, <2>8, <2>9, <2>10, <2>11
<1>4. QED BY <1>1, <1>2, <1>3

\* The jobs of one host are not those of another, listed or read.
LEMMA Apart ==
    ASSUME OneHome, InflightTyped, NEW h \in Machines, NEW i \in Machines \ {h}, NEW j,
           Heard(h, j), Heard(i, j)
    PROVE  FALSE
<1>1. j \in Jobs
    BY InflightAssumption DEF Heard, Doc, JobsOf, InflightTyped, JobRows, GateStates
<1>2. QED BY <1>1 DEF OneHome

LEMMA PublishKeeps ==
    ASSUME InflightInv, NEW g \in Gates, Publish(g) PROVE InflightInv'
<1> USE DEF InflightInv
<1> DEFINE h == HostOf[g]
           local == gate[g].local
           over == gate[g].over
<1>h. h \in Machines BY InflightAssumption
<1>t. gate[g] \in GateStates /\ local \in SUBSET JobRows /\ over \in SUBSET Jobs /\ gate[g].pc = "publish"
    BY DEF InflightTyped, GateStates, Publish
<1>u. UNCHANGED <<clock, rows, begun>>
      /\ gate' = [gate EXCEPT ![g].pc = "list", ![g].over = {}]
    BY DEF Publish
<1>1. /\ gate'[g] \in GateStates /\ gate'[g].pc = "list" /\ gate'[g].local = local
      /\ gate'[g].over = {} /\ gate' \in [Gates -> GateStates]
      /\ \A o \in Gates \ {g} : gate'[o] = gate[o]
    BY <1>t, <1>u DEF InflightTyped, GateStates
<1>2. \/ UNCHANGED <<listed, told, cleared, crossed>>
      \/ /\ listed' = [listed EXCEPT ![h] = local] /\ told' = told \cup JobsOf(local)
         /\ cleared' = cleared \cup over
         /\ crossed' = IF \E o \in Gates \ {g} : HostOf[o] = h /\ gate[o].pc = "publish"
                       THEN crossed \cup {h} ELSE crossed
    BY DEF Publish, Replaced
<1>w. \A i \in Machines : \A j : Heard(i, j)' => Heard(i, j)
    <2>1. \A i \in Machines : Doc(i)' \subseteq Doc(i) \cup (IF i = h THEN local ELSE {})
        BY <1>2 DEF Doc, InflightTyped
    <2>2. \A o \in Gates : gate'[o].local = gate[o].local /\ gate'[o].over \subseteq gate[o].over
        BY <1>1
    <2>3. ASSUME NEW i \in Machines, NEW j, j \in JobsOf(Doc(i))' PROVE Heard(i, j)
        BY <2>1, <2>3 DEF Heard, JobsOf
    <2>4. QED BY <2>2, <2>3, <1>u DEF Heard, JobsOf
<1>x. /\ \A j \in JobsOf(local) : j \in begun /\ Heard(h, j)
      /\ \A j \in over : j \in begun /\ Heard(h, j)
    BY <1>t, <1>h DEF OneHome, Heard, JobsOf, JobRows
<1>3. InflightTyped'
    <2>1. told' \subseteq begun /\ cleared' \subseteq begun /\ crossed' \subseteq Machines
        BY <1>2, <1>x, <1>h DEF InflightTyped
    <2>2. listed' \in [Machines -> (SUBSET JobRows) \cup {None}] BY <1>2, <1>t DEF InflightTyped
    <2>3. QED BY <2>1, <2>2, <1>1, <1>u DEF InflightTyped
<1>4. OneHome' BY <1>w, <1>u DEF OneHome
<1>5. OneRow' BY <1>1, <1>u DEF OneRow
<1>6. Gone'
    <2>1. \A i \in Machines : JobsOf(rows[i]) \cap cleared' = {}
        <3> SUFFICES ASSUME NEW i \in Machines, NEW j \in JobsOf(rows[i]), j \in over
                     PROVE  FALSE
            BY <1>2 DEF Gone
        <3>1. i # h BY DEF Gone
        <3>2. Heard(i, j) /\ Heard(h, j) BY <1>x DEF Heard
        <3>3. QED BY <3>1, <3>2, <1>h, Apart
    <2>2. QED BY <2>1, <1>1, <1>u DEF Gone
<1>7. ReadingIsCurrent'
    <2> SUFFICES ASSUME NEW o \in Gates, gate'[o].pc = "publish", HostOf[o] \notin crossed'
                 PROVE  /\ \A r \in Young(rows[HostOf[o]]) : r.job \in told' => r \in gate[o].local
                        /\ JobsOf(gate[o].local) \cap cleared' = {}
        BY <1>1, <1>u DEF ReadingIsCurrent, Young
    <2> DEFINE i == HostOf[o]
    <2>1. o # g /\ gate'[o] = gate[o] /\ i \in Machines BY <1>1, InflightAssumption
    <2>2. i \notin crossed BY <1>2
    <2>3. CASE UNCHANGED <<told, cleared>> BY <2>1, <2>2, <2>3 DEF ReadingIsCurrent
    <2>4. CASE told' = told \cup JobsOf(local) /\ cleared' = cleared \cup over /\ i # h
        <3>1. \A r \in Young(rows[i]) : r.job \notin JobsOf(local)
            <4> SUFFICES ASSUME NEW r \in Young(rows[i]), r.job \in JobsOf(local) PROVE FALSE
                OBVIOUS
            <4>1. Heard(i, r.job) /\ Heard(h, r.job) BY <1>x DEF Heard, JobsOf, Young
            <4>2. QED BY <4>1, <2>1, <2>4, <1>h, Apart
        <3>2. \A j \in JobsOf(gate[o].local) : j \notin over
            <4> SUFFICES ASSUME NEW j \in JobsOf(gate[o].local), j \in over PROVE FALSE
                OBVIOUS
            <4>1. Heard(i, j) /\ Heard(h, j) BY <1>x DEF Heard
            <4>2. QED BY <4>1, <2>1, <2>4, <1>h, Apart
        <3>3. QED BY <3>1, <3>2, <2>1, <2>2, <2>4 DEF ReadingIsCurrent
    <2>5. QED BY <2>1, <2>2, <2>3, <2>4, <1>2
<1>8. ListedIsCurrent'
    <2> SUFFICES ASSUME NEW i \in Machines \ crossed'
                 PROVE  /\ \A r \in Young(rows[i]) : r.job \in told' => r \in Doc(i)'
                        /\ JobsOf(Doc(i)') \cap cleared' = {}
        BY <1>u DEF ListedIsCurrent, Doc, Young
    <2>0. i \in Machines /\ i \notin crossed BY <1>2
    <2>1. /\ \A r \in Young(rows[i]) : r.job \in told => r \in Doc(i)
          /\ JobsOf(Doc(i)) \cap cleared = {}
        BY <2>0 DEF ListedIsCurrent, Doc
    <2>2. CASE UNCHANGED <<listed, told, cleared>> BY <2>1, <2>2 DEF Doc
    <2>3. CASE /\ listed' = [listed EXCEPT ![h] = local] /\ told' = told \cup JobsOf(local)
               /\ cleared' = cleared \cup over
        <3>1. CASE i = h
            <4>1. Doc(i)' = local
                <5>1. local # None BY <1>t, InflightAssumption DEF JobRows
                <5>2. QED BY <5>1, <2>3, <3>1, <1>h DEF Doc, InflightTyped
            <4>2. /\ \A r \in Young(rows[h]) : r.job \in told => r \in local
                  /\ JobsOf(local) \cap cleared = {}
                BY <1>t, <2>0, <3>1 DEF ReadingIsCurrent
            <4>3. \A r \in Young(rows[h]) : r.job \in JobsOf(local) => r \in local
                BY <1>h DEF Young, JobsOf, OneRow
            <4>4. over \cap JobsOf(local) = {} BY DEF Gone
            <4>5. QED BY <4>1, <4>2, <4>3, <4>4, <2>3, <3>1
        <3>2. CASE i # h
            <4>1. Doc(i)' = Doc(i) BY <2>3, <3>2 DEF Doc, InflightTyped
            <4>2. \A r \in Young(rows[i]) : r.job \notin JobsOf(local)
                <5> SUFFICES ASSUME NEW r \in Young(rows[i]), r.job \in JobsOf(local) PROVE FALSE
                    OBVIOUS
                <5>1. Heard(i, r.job) /\ Heard(h, r.job) BY <1>x DEF Heard, JobsOf, Young
                <5>2. QED BY <5>1, <3>2, <2>0, <1>h, Apart
            <4>3. \A j \in JobsOf(Doc(i)) : j \notin over
                <5> SUFFICES ASSUME NEW j \in JobsOf(Doc(i)), j \in over PROVE FALSE
                    OBVIOUS
                <5>1. Heard(i, j) /\ Heard(h, j) BY <1>x DEF Heard
                <5>2. QED BY <5>1, <3>2, <2>0, <1>h, Apart
            <4>4. QED BY <4>1, <4>2, <4>3, <2>1, <2>3
        <3>3. QED BY <3>1, <3>2
    <2>4. QED BY <2>2, <2>3, <1>2
<1>9. AdmittedFits' BY <1>1 DEF AdmittedFits
<1>10. QED BY <1>3, <1>4, <1>5, <1>6, <1>7, <1>8, <1>9

LEMMA ListKeeps ==
    ASSUME InflightInv, NEW g \in Gates, List(g) PROVE InflightInv'
<1> USE DEF InflightInv
<1> DEFINE h == HostOf[g]
           own == JobsOf(gate[g].local)
           remote == JobsOf(Others(h))
           running(i) == {r.job : r \in {q \in Young(rows[i]) : q.job \in told}}
           owed == own \cup UNION {running(i) : i \in Machines \ ({h} \cup crossed)}
<1>h. h \in Machines BY InflightAssumption
<1>u. UNCHANGED <<clock, rows, listed, begun, told, cleared, crossed>> BY DEF List
<1>1. \/ gate' = [gate EXCEPT ![g] = Verdict(Total(Cardinality(own), Cardinality(remote)), owed)]
      \/ gate' = [gate EXCEPT ![g] = Verdict(Cardinality(own), own)]
    BY DEF List
<1>2. own \subseteq begun
    BY <1>h DEF JobsOf, InflightTyped, GateStates, JobRows, OneHome, Heard
<1>3. remote \subseteq begun
    <2> SUFFICES ASSUME NEW r \in Others(h) PROVE r.job \in begun BY DEF JobsOf
    <2>1. PICK i \in Machines : listed[i] # None /\ r \in listed[i] BY DEF Others, Young
    <2>2. listed[i] \in SUBSET JobRows BY <2>1 DEF InflightTyped
    <2>3. r.job \in Jobs /\ Heard(i, r.job) BY <2>1, <2>2 DEF Heard, Doc, JobsOf, JobRows
    <2>4. QED BY <2>3 DEF OneHome
<1>4. owed \subseteq own \cup remote
    <2> SUFFICES ASSUME NEW i \in Machines \ ({h} \cup crossed), NEW r \in Young(rows[i]),
                        r.job \in told
                 PROVE  r.job \in remote
        OBVIOUS
    <2>1. r \in Doc(i) BY DEF ListedIsCurrent, Doc
    <2>2. listed[i] # None /\ r \in Young(listed[i]) BY <2>1 DEF Doc, Young
    <2>3. r \in Others(h) BY <2>2 DEF Others
    <2>4. QED BY <2>3 DEF JobsOf
<1> HIDE DEF own, remote, owed
<1>5. /\ IsFiniteSet(own) /\ IsFiniteSet(remote) /\ IsFiniteSet(owed)
      /\ Cardinality(own) \in Nat /\ Cardinality(remote) \in Nat
      /\ Cardinality(owed) <= Cardinality(own) + Cardinality(remote)
      /\ own \subseteq Jobs /\ owed \subseteq Jobs
    <2>1. IsFiniteSet(begun) /\ begun \subseteq Jobs BY DEF InflightTyped
    <2>2. IsFiniteSet(own) /\ IsFiniteSet(remote) BY <2>1, <1>2, <1>3, FS_Subset
    <2>3. /\ IsFiniteSet(own \cup remote)
          /\ Cardinality(own \cup remote)
                = Cardinality(own) + Cardinality(remote) - Cardinality(own \cap remote)
        BY <2>2, FS_Union
    <2>4. IsFiniteSet(owed) /\ Cardinality(owed) <= Cardinality(own \cup remote)
        BY <2>3, <1>4, FS_Subset
    <2>5. IsFiniteSet(own \cap remote) BY <2>2, FS_Subset
    <2>6. /\ Cardinality(own) \in Nat /\ Cardinality(remote) \in Nat
          /\ Cardinality(own \cap remote) \in Nat /\ Cardinality(owed) \in Nat
        BY <2>2, <2>4, <2>5, FS_CardinalityType
    <2>7. QED BY <2>1, <2>2, <2>3, <2>4, <2>6, <1>2, <1>3, <1>4
<1>6. Decided(Verdict(Total(Cardinality(own), Cardinality(remote)), owed))
    BY <1>5, CountCovers DEF Total
<1>7. Decided(Verdict(Cardinality(own), own)) BY <1>5, CountCovers
<1>8. QED BY <1>1, <1>6, <1>7, <1>u, EndKeeps DEF Ends

LEMMA LeaveKeeps ==
    ASSUME InflightInv, NEW g \in Gates, Leave(g) PROVE InflightInv'
BY WaitingDecided, EndKeeps DEF Leave, Ends

LEMMA StartKeeps ==
    ASSUME InflightInv, NEW g \in Gates, Start(g) PROVE InflightInv'
<1> USE DEF InflightInv
<1> DEFINE h == HostOf[g]
<1>h. h \in Machines BY InflightAssumption
<1>u. /\ UNCHANGED <<clock, listed, told, cleared, crossed>>
      /\ gate' = [gate EXCEPT ![g] = Waiting]
    BY DEF Start
<1>1. PICK job \in Jobs \ begun : /\ rows' = [rows EXCEPT ![h] = @ \cup {Row(job, clock)}]
                                  /\ begun' = begun \cup {job}
    BY DEF Start
<1> DEFINE new == Row(job, clock)
<1>2. new \in JobRows /\ new.job = job BY DEF Row, JobRows, InflightTyped
<1> HIDE DEF new
<1>3. /\ rows'[h] = rows[h] \cup {new} /\ rows' \in [Machines -> SUBSET JobRows]
      /\ \A i \in Machines \ {h} : rows'[i] = rows[i]
    BY <1>1, <1>2, <1>h DEF InflightTyped, new
<1>4. gate'[g] = Waiting /\ gate' \in [Gates -> GateStates] /\ \A o \in Gates \ {g} : gate'[o] = gate[o]
    <2>1. Waiting \in GateStates BY DEF Waiting, GateStates
    <2>2. QED BY <2>1, <1>u DEF InflightTyped
<1>f. \A i \in Machines : ~Heard(i, job) BY DEF OneHome
<1>g. \A o \in Gates : HostOf[o] \in Machines /\ job \notin JobsOf(gate[o].local) /\ job \notin gate[o].over
    BY <1>f, InflightAssumption DEF Heard
<1>w. \A i \in Machines : \A j : Heard(i, j)' => Heard(i, j) \/ (i = h /\ j = job)
    <2>1. \A i \in Machines : JobsOf(rows'[i]) \subseteq JobsOf(rows[i]) \cup (IF i = h THEN {job} ELSE {})
        BY <1>2, <1>3 DEF JobsOf
    <2>2. \A o \in Gates : /\ JobsOf(gate'[o].local) \subseteq JobsOf(gate[o].local)
                           /\ gate'[o].over \subseteq gate[o].over
        BY <1>4 DEF JobsOf, Waiting
    <2>3. QED BY <2>1, <2>2, <1>u DEF Heard, Doc, JobsOf
<1>5. InflightTyped'
    <2>1. IsFiniteSet(begun') BY <1>1, FS_AddElement DEF InflightTyped
    <2>2. QED BY <2>1, <1>1, <1>3, <1>4, <1>u DEF InflightTyped
<1>6. OneHome' BY <1>w, <1>f, <1>1 DEF OneHome
<1>7. OneRow'
    <2> SUFFICES ASSUME NEW i \in Machines, NEW q \in rows'[i]
                 PROVE  /\ \A r \in rows'[i] : r.job = q.job => r = q
                        /\ \A o \in Gates : \A r \in gate'[o].local :
                               HostOf[o] = i /\ r.job = q.job => r = q
        BY DEF OneRow
    <2>1. \A r \in rows[i] : r.job # job BY <1>f DEF Heard, JobsOf
    <2>2. \A o \in Gates : \A r \in gate'[o].local : r.job # job /\ r \in gate[o].local
        BY <1>4, <1>g DEF JobsOf, Waiting
    <2>3. QED BY <2>1, <2>2, <1>2, <1>3 DEF OneRow
<1>8. Gone'
    <2>1. \A i \in Machines : JobsOf(rows'[i]) \subseteq JobsOf(rows[i]) \cup {job}
        BY <1>2, <1>3 DEF JobsOf
    <2>2. job \notin cleared BY DEF InflightTyped
    <2>3. \A o \in Gates : /\ gate'[o].over \subseteq gate[o].over
                           /\ gate'[o].over \cap JobsOf(gate'[o].local) = {}
        BY <1>4 DEF Gone, Waiting
    <2>4. QED BY <2>1, <2>2, <2>3, <1>g, <1>u DEF Gone
<1>t. job \notin told BY DEF InflightTyped
<1>y. \A i \in Machines : \A r \in Young(rows'[i]) : r.job \in told => r \in Young(rows[i])
    BY <1>t, <1>2, <1>3 DEF Young
<1>9. ReadingIsCurrent'
    BY <1>y, <1>4, <1>g, <1>u DEF ReadingIsCurrent, Young, Waiting
<1>10. ListedIsCurrent' BY <1>y, <1>u DEF ListedIsCurrent, Young, JobsOf
<1>11. AdmittedFits' BY <1>4 DEF AdmittedFits, Waiting
<1>12. QED BY <1>5, <1>6, <1>7, <1>8, <1>9, <1>10, <1>11

\* Jobs that end or grow old only leave what has to be reckoned with.
LEMMA FewerKeeps ==
    ASSUME InflightInv, UNCHANGED <<listed, gate, begun, told, cleared, crossed>>,
           clock' \in 0 .. MaxClock, clock <= clock',
           rows' \in [Machines -> SUBSET JobRows],
           \A h \in Machines : rows'[h] \subseteq rows[h]
    PROVE  InflightInv'
<1> USE DEF InflightInv
<1>1. \A h \in Machines : JobsOf(rows'[h]) \subseteq JobsOf(rows[h]) BY DEF JobsOf
<1>2. \A h \in Machines : Young(rows[h])' \subseteq Young(rows[h])
    <2> SUFFICES ASSUME NEW h \in Machines, NEW r \in rows[h], clock' - r.at <= JobMaxAge
                 PROVE  clock - r.at <= JobMaxAge
        BY DEF Young
    <2>1. r.at \in Int BY DEF InflightTyped, JobRows
    <2>2. QED BY <2>1, InflightAssumption DEF InflightTyped
<1>3. \A h \in Machines : \A j : Heard(h, j)' => Heard(h, j) BY <1>1 DEF Heard, Doc, JobsOf
<1>4. InflightTyped' BY DEF InflightTyped
<1>5. OneHome' BY <1>3 DEF OneHome
<1>6. OneRow' BY DEF OneRow
<1>7. Gone' BY <1>1, InflightAssumption DEF Gone
<1>8. ReadingIsCurrent' BY <1>2, InflightAssumption DEF ReadingIsCurrent, JobsOf
<1>9. ListedIsCurrent' BY <1>2 DEF ListedIsCurrent, JobsOf
<1>10. AdmittedFits' BY DEF AdmittedFits
<1>11. QED BY <1>4, <1>5, <1>6, <1>7, <1>8, <1>9, <1>10

\* Every state satisfies the types and the strengthened invariant.
THEOREM InflightInductive == InflightSpec => []InflightInv
<1>1. InflightInv /\ [InflightNext]_inflightVars => InflightInv'
    <2> SUFFICES ASSUME InflightInv, [InflightNext]_inflightVars PROVE InflightInv' OBVIOUS
    <2>1. ASSUME NEW g \in Gates, ReadLocal(g) \/ Publish(g) \/ List(g) \/ Start(g) \/ Leave(g)
          PROVE  InflightInv'
        BY <2>1, ReadLocalKeeps, PublishKeeps, ListKeeps, StartKeeps, LeaveKeeps
    <2>2. ASSUME NEW h \in Machines, Release(h) PROVE InflightInv'
        <3>1. PICK r : rows' = [rows EXCEPT ![h] = @ \ {r}] BY <2>2 DEF Release
        <3>2. rows' \in [Machines -> SUBSET JobRows] /\ \A i \in Machines : rows'[i] \subseteq rows[i]
            BY <3>1 DEF InflightInv, InflightTyped
        <3>3. clock' \in 0 .. MaxClock /\ clock <= clock' BY <2>2 DEF Release, InflightInv, InflightTyped
        <3>4. QED BY <3>2, <3>3, <2>2, FewerKeeps DEF Release
    <2>3. CASE Elapse \/ UNCHANGED inflightVars
        <3>1. clock' \in 0 .. MaxClock /\ clock <= clock'
            BY <2>3, InflightAssumption DEF Elapse, inflightVars, InflightInv, InflightTyped
        <3>2. rows' = rows /\ UNCHANGED <<listed, gate, begun, told, cleared, crossed>>
            BY <2>3 DEF Elapse, inflightVars
        <3>3. rows \in [Machines -> SUBSET JobRows] BY DEF InflightInv, InflightTyped
        <3>4. QED BY <3>1, <3>2, <3>3, FewerKeeps
    <2>4. QED BY <2>1, <2>2, <2>3 DEF InflightNext
<1>2. QED BY <1>1, InitInflightInv, PTL DEF InflightSpec

\* What a host published is current, and nothing is admitted unless every job
\* it has to reckon with fits under the cutoff (publish_jobs, remote_jobs,
\* _inflight_headroom), whatever requests fail in whatever order.
THEOREM JobsAreCountedThm == InflightSpec => []JobsAreCounted
<1>1. InflightInv => JobsAreCounted
    <2> SUFFICES ASSUME InflightInv PROVE JobsAreCounted OBVIOUS
    <2>1. InflightTypeOK
        <3>1. \A h, i \in Machines : h # i => JobsOf(rows[h]) \cap JobsOf(rows[i]) = {}
            BY Apart DEF InflightInv, Heard
        <3>2. \A g \in Gates : gate[g].pc \in {"idle", "publish", "list", "admitted"}
            BY DEF InflightInv, InflightTyped, GateStates
        <3>3. QED BY <3>1, <3>2 DEF InflightInv, InflightTyped, InflightTypeOK
    <2>2. QED BY <2>1 DEF InflightInv, JobsAreCounted
<1>2. QED BY <1>1, InflightInductive, PTL

------------------------------------------------------------------------------
(* The catalog's copy (CatalogCache).                                      *)
\* The rows, the copy, what a process has in hand and what it showed.
RowSets == [profiles : SUBSET Profiles, revision : Nat]
Copies == [profiles : SUBSET Profiles, revision : Nat, at : Nat]
Doings == [pc : {"idle", "stamp", "fetch", "commit", "refetch"}, base : RowSets \cup {None},
           age : Int \cup {None}, rows : RowSets \cup {None}, read : Nat, push : BOOLEAN,
           raced : BOOLEAN, torn : BOOLEAN]
Views == [rows : RowSets, source : {"server", "cache", "cache-stale", "snapshot", "unsupported"},
          read : Nat, torn : BOOLEAN, stale : BOOLEAN]
CatalogTyped ==
    /\ canon \in RowSets /\ hostCopy \in Copies \cup {None} /\ now \in Nat
    /\ proc \in [Procs -> Doings] /\ view \in [Procs -> Views \cup {None}]
    /\ since \in Seq(Nat) /\ trusted \subseteq Profiles /\ passed \in BOOLEAN

\* Each revision of the canon is remembered with its moment.
Remembered ==
    /\ canon.revision \in 1 .. MaxRevision /\ Len(since) = canon.revision
    /\ Bundled \subseteq canon.profiles

\* The rows of a copy, or on their way to one.
Sound(table) ==
    /\ table.revision \in 1 .. canon.revision
    /\ Bundled \subseteq table.profiles

\* The copy was the canon when it was stamped.
CopySound ==
    /\ hostCopy # None => /\ Sound(hostCopy) /\ hostCopy.at \in 0 .. now
                          /\ LastMoment(hostCopy.revision) >= hostCopy.at
    /\ hostCopy = None => trusted = {}

\* What a process has in hand: rows read of the copy, which is still the one
\* it read unless it was raced, or an answer that is the canon to this moment.
Hand(c) ==
    /\ c.base # None => Sound(c.base)
    /\ c.pc \in {"stamp", "fetch"} /\ ~c.raced => c.base = RowsOfCopy(hostCopy)
    /\ c.pc = "stamp" => c.read = now
    /\ c.pc = "fetch" => /\ c.age = None <=> c.base = None
                         /\ c.age # None /\ ~c.torn => LastMoment(c.base.revision) >= c.read - c.age
    /\ c.pc = "commit" <=> c.rows # None
    /\ c.pc = "commit" => /\ Sound(c.rows) /\ LastMoment(c.rows.revision) >= now
                          /\ ~c.raced /\ hostCopy # None => hostCopy.profiles \subseteq c.rows.profiles
InHand == \A p \in Procs : Hand(proc[p])

SoundView(v) ==
    v # None => /\ Bundled \subseteq v.rows.profiles
                /\ v.rows.revision \in 0 .. canon.revision
                /\ v.torn \/ Timely(v)
Shown == \A p \in Procs : SoundView(view[p])

CatalogInv == CatalogTyped /\ Remembered /\ CopySound /\ InHand /\ Shown /\ RatchetHolds

------------------------------------------------------------------------------
LEMMA IdleTypes ==
    /\ CatalogIdle \in Doings /\ CatalogIdle.pc = "idle" /\ CatalogIdle.base = None
    /\ CatalogIdle.rows = None
    BY DEF CatalogIdle, Doings

LEMMA SnapshotTypes ==
    Snapshot \in RowSets /\ Snapshot.profiles = Bundled /\ Snapshot.revision = 0
    BY BundledAssumption DEF Snapshot, Rows, RowSets

LEMMA ViewTypes ==
    ASSUME NEW table \in RowSets, NEW read \in Nat, NEW torn \in BOOLEAN,
           NEW source \in {"server", "cache", "cache-stale", "snapshot", "unsupported"}
    PROVE  LET v == View(table, source, read, torn)
           IN /\ v \in Views /\ v.rows = table /\ v.source = source /\ v.read = read
              /\ v.torn = torn /\ v.stale = (source \in {"snapshot", "cache-stale"})
    BY DEF View, Views

\* The rows of the copy are none without one.
LEMMA CopyRows ==
    ASSUME hostCopy \in Copies \cup {None}
    PROVE  /\ RowsOfCopy(hostCopy) \in RowSets \cup {None}
           /\ hostCopy = None <=> RowsOfCopy(hostCopy) = None
           /\ hostCopy # None => /\ RowsOfCopy(hostCopy).profiles = hostCopy.profiles
                                 /\ RowsOfCopy(hostCopy).revision = hostCopy.revision
    BY NoneAssumption DEF Copies, RowsOfCopy, Rows, RowSets

\* The bundle is a sound view where it is called stale or unsupported.
LEMMA SnapshotView ==
    ASSUME CatalogTyped, Remembered, NEW read \in Nat, NEW source \in {"snapshot", "unsupported"}
    PROVE  View(Snapshot, source, read, FALSE) \in Views
           /\ SoundView(View(Snapshot, source, read, FALSE))
<1>1. canon.revision \in Nat BY BoundAssumption DEF Remembered
<1> DEFINE v == View(Snapshot, source, read, FALSE)
<1>2. /\ v \in Views /\ v.rows = Snapshot /\ v.source = source
      /\ v.stale = (source \in {"snapshot", "cache-stale"})
    BY SnapshotTypes DEF View, Views
<1> HIDE DEF v
<1>3. Timely(v) BY <1>2 DEF Timely
<1>4. SoundView(v) BY <1>1, <1>2, <1>3, SnapshotTypes DEF SoundView
<1>5. QED BY <1>2, <1>4 DEF v

LEMMA InitCatalogInv == CatalogInit => CatalogInv
<1> SUFFICES ASSUME CatalogInit PROVE CatalogInv OBVIOUS
<1> USE DEF CatalogInit
<1>1. canon \in RowSets /\ canon.revision = 1 /\ canon.profiles = Bundled
    BY BundledAssumption DEF Rows, RowSets
<1>2. hostCopy \in Copies \cup {None} /\ (hostCopy # None => /\ hostCopy.profiles = Bundled
          /\ hostCopy.revision = 1 /\ hostCopy.at = 0)
    BY BundledAssumption DEF Copies
<1>3. CatalogTyped
    <2>1. since \in Seq(Nat) BY DEF CatalogTyped
    <2>2. trusted \subseteq Profiles BY <1>2, BundledAssumption DEF Mentioned
    <2>3. proc \in [Procs -> Doings] BY IdleTypes
    <2>4. QED BY <1>1, <1>2, <2>1, <2>2, <2>3 DEF CatalogTyped
<1>4. Remembered BY <1>1, BoundAssumption DEF Remembered
<1>5. CopySound BY <1>1, <1>2, <1>4 DEF CopySound, Sound, LastMoment, LastOf, Mentioned
<1>6. InHand BY IdleTypes DEF InHand, Hand
<1>7. Shown BY DEF Shown, SoundView
<1>8. RatchetHolds BY <1>2 DEF RatchetHolds, Mentioned
<1>9. QED BY <1>3, <1>4, <1>5, <1>6, <1>7, <1>8 DEF CatalogInv

------------------------------------------------------------------------------
(* Most steps change what one process does and shows, and nothing else.    *)
Alone(p, c, v) ==
    /\ proc' = [proc EXCEPT ![p] = c] /\ view' = [view EXCEPT ![p] = v]
    /\ UNCHANGED <<canon, hostCopy, now, since, trusted, passed>>

LEMMA StepAlone ==
    ASSUME CatalogInv, NEW p \in Procs, NEW c \in Doings, NEW v \in Views \cup {None},
           Alone(p, c, v), Hand(c), SoundView(v)
    PROVE  CatalogInv'
<1> USE DEF CatalogInv, Alone
<1>1. CatalogTyped' BY DEF CatalogTyped
<1>2. Remembered' BY DEF Remembered
<1>3. CopySound' BY DEF CopySound, Sound, LastMoment
<1>4. InHand'
    <2> SUFFICES ASSUME NEW q \in Procs PROVE Hand(proc[q])' BY DEF InHand
    <2>1. Hand(proc'[q]) BY DEF InHand, CatalogTyped
    <2>2. QED BY <2>1 DEF Hand, Sound, LastMoment
<1>5. Shown'
    <2> SUFFICES ASSUME NEW q \in Procs PROVE SoundView(view[q])' BY DEF Shown
    <2>1. SoundView(view'[q]) BY DEF Shown, CatalogTyped
    <2>2. QED BY <2>1 DEF SoundView, Timely, LastMoment
<1>6. RatchetHolds' BY DEF RatchetHolds
<1>7. QED BY <1>1, <1>2, <1>3, <1>4, <1>5, <1>6

\* A process that stops, with a sound view or none.
LEMMA StepToIdle ==
    ASSUME CatalogInv, NEW p \in Procs, NEW v \in Views \cup {None}, Alone(p, CatalogIdle, v), SoundView(v)
    PROVE  CatalogInv'
<1>1. CatalogIdle \in Doings /\ Hand(CatalogIdle) BY IdleTypes DEF Hand
<1>2. QED BY <1>1, StepAlone

LEMMA KeepsView ==
    ASSUME CatalogInv, NEW p \in Procs
    PROVE  /\ view[p] \in Views \cup {None} /\ SoundView(view[p]) /\ view = [view EXCEPT ![p] = view[p]]
           /\ proc[p] \in Doings /\ Hand(proc[p])
    BY DEF CatalogInv, CatalogTyped, Shown, InHand

LEMMA StepReadRows ==
    ASSUME CatalogInv, NEW p \in Procs, ReadRows(p) PROVE CatalogInv'
<1> DEFINE c == [CatalogIdle EXCEPT !.pc = "stamp", !.base = RowsOfCopy(hostCopy), !.read = now]
<1>1. /\ c \in Doings /\ c.pc = "stamp" /\ c.base = RowsOfCopy(hostCopy) /\ c.read = now
      /\ c.rows = None
    BY CopyRows DEF CatalogIdle, Doings, CatalogInv, CatalogTyped
<1>2. Alone(p, c, view[p]) BY KeepsView DEF ReadRows, Alone
<1> HIDE DEF c
<1>3. Hand(c)
    <2>1. c.base # None => Sound(c.base)
        BY <1>1, CopyRows DEF CatalogInv, CatalogTyped, CopySound, Sound
    <2>2. QED BY <1>1, <2>1 DEF Hand
<1>4. QED BY <1>1, <1>2, <1>3, KeepsView, StepAlone

LEMMA StepReadStamp ==
    ASSUME CatalogInv, NEW p \in Procs, ReadStamp(p) PROVE CatalogInv'
<1> DEFINE c == proc[p]
           age == IF hostCopy = None \/ c.base = None THEN None ELSE now - hostCopy.at
           fresh == IF age = None THEN FALSE ELSE age < Ttl /\ age < StaleMax
           d == [c EXCEPT !.pc = "fetch", !.age = age, !.torn = age # None /\ c.raced,
                          !.base = IF age = None THEN None ELSE c.base]
           v == View(c.base, "cache", now, c.raced)
<1>1. c \in Doings /\ Hand(c) /\ c.pc = "stamp" BY KeepsView DEF ReadStamp
<1>2. /\ age # None => /\ hostCopy # None /\ c.base # None /\ age = now - hostCopy.at /\ age \in Int
                       /\ c.base \in RowSets /\ Sound(c.base)
      /\ age = None => hostCopy = None \/ c.base = None
      /\ age \in Int \cup {None}
    <2>1. hostCopy # None => now - hostCopy.at \in Int BY DEF CatalogInv, CatalogTyped, Copies
    <2>2. QED BY <2>1, <1>1, NoneAssumption DEF Hand, Doings
<1>3. age # None /\ ~c.raced => LastMoment(c.base.revision) >= now - age
    <2> SUFFICES ASSUME age # None, ~c.raced PROVE LastMoment(c.base.revision) >= now - age OBVIOUS
    <2>1. c.base.revision = hostCopy.revision BY <1>1, <1>2, CopyRows DEF Hand, CatalogInv, CatalogTyped
    <2>2. LastMoment(hostCopy.revision) >= hostCopy.at BY <1>2 DEF CatalogInv, CopySound
    <2>3. now - age = hostCopy.at BY <1>2 DEF CatalogInv, CatalogTyped, Copies
    <2>4. QED BY <2>1, <2>2, <2>3
<1>4. IF fresh THEN Alone(p, CatalogIdle, v) ELSE Alone(p, d, view[p])
    BY KeepsView DEF ReadStamp, Alone
<1>5. CASE fresh
    <2>1. v \in Views /\ SoundView(v)
        <3>1. c.base \in RowSets /\ Sound(c.base) /\ now \in Nat /\ c.raced \in BOOLEAN
            BY <1>1, <1>2, <1>5 DEF CatalogInv, CatalogTyped, Doings
        <3>2. /\ v \in Views /\ v.rows = c.base /\ v.source = "cache" /\ v.read = now
              /\ v.torn = c.raced
            BY <3>1, ViewTypes
        <3>3. ~c.raced => LastMoment(v.rows.revision) > v.read - StaleMax
            <4> SUFFICES ASSUME ~c.raced PROVE LastMoment(c.base.revision) > now - StaleMax
                BY <3>2
            <4>1. LastMoment(c.base.revision) >= now - age /\ age < StaleMax /\ age \in Int
                BY <1>2, <1>3, <1>5
            <4>2. LastMoment(c.base.revision) \in Nat
                BY <3>1, SMTT(30) DEF LastMoment, LastOf, Sound, CatalogInv, CatalogTyped, Remembered
            <4>3. QED BY <4>1, <4>2, <3>1, AgeAssumption
        <3>4. QED BY <3>1, <3>2, <3>3 DEF SoundView, Timely, Sound, CatalogInv, CatalogTyped, RowSets
    <2>2. Alone(p, CatalogIdle, v) BY <1>4, <1>5
    <2> HIDE DEF v
    <2>3. QED BY <2>1, <2>2, StepToIdle
<1>6. CASE ~fresh
    <2>1. /\ d \in Doings /\ d.pc = "fetch" /\ d.age = age /\ d.torn = (age # None /\ c.raced)
          /\ d.base = (IF age = None THEN None ELSE c.base) /\ d.rows = c.rows /\ d.read = c.read
          /\ d.raced = c.raced
        BY <1>1, <1>2 DEF Doings
    <2>2. Alone(p, d, view[p]) BY <1>4, <1>6
    <2> HIDE DEF d
    <2>3. Hand(d)
        <3>1. d.base # None => Sound(d.base) BY <2>1, <1>2
        <3>2. ~d.raced => d.base = RowsOfCopy(hostCopy)
            BY <2>1, <1>1, <1>2, CopyRows DEF Hand, CatalogInv, CatalogTyped
        <3>3. d.age = None <=> d.base = None BY <2>1, <1>2
        <3>4. d.age # None /\ ~d.torn => LastMoment(d.base.revision) >= d.read - d.age
            BY <2>1, <1>1, <1>3 DEF Hand
        <3>5. d.rows = None BY <2>1, <1>1 DEF Hand
        <3>6. QED BY <2>1, <3>1, <3>2, <3>3, <3>4, <3>5 DEF Hand
    <2>4. QED BY <2>1, <2>2, <2>3, KeepsView, StepAlone
<1>7. QED BY <1>5, <1>6

LEMMA StepFallBack ==
    ASSUME CatalogInv, NEW p \in Procs, FallBack(p) PROVE CatalogInv'
<1> DEFINE c == proc[p]
<1>1. c \in Doings /\ Hand(c) /\ c.pc = "fetch" BY KeepsView DEF FallBack
<1>2. Alone(p, CatalogIdle, Fallback(c)) BY DEF FallBack, Alone
<1>3. Fallback(c) \in Views /\ SoundView(Fallback(c))
    <2>1. CASE c.age = None
        BY <2>1, <1>1, SnapshotView DEF Fallback, CatalogInv, Doings
    <2>2. CASE c.age # None
        <3> DEFINE source == IF c.age < StaleMax THEN "cache" ELSE "cache-stale"
                   v == View(c.base, source, c.read, c.torn)
        <3>1. /\ c.base \in RowSets /\ Sound(c.base) /\ c.read \in Nat /\ c.torn \in BOOLEAN
              /\ c.age \in Int
              /\ ~c.torn => LastMoment(c.base.revision) >= c.read - c.age
            BY <2>2, <1>1 DEF Hand, Doings
        <3>2. /\ v \in Views /\ v.rows = c.base /\ v.source = source /\ v.read = c.read
              /\ v.torn = c.torn /\ v.stale = (source \in {"snapshot", "cache-stale"})
            BY <3>1, ViewTypes
        <3>3. LastMoment(c.base.revision) \in Nat
            BY <3>1, SMTT(30) DEF LastMoment, LastOf, Sound, CatalogInv, CatalogTyped, Remembered
        <3>4. v.torn \/ Timely(v)
            <4>1. CASE c.age < StaleMax
                BY <4>1, <3>1, <3>2, <3>3, AgeAssumption DEF Timely
            <4>2. CASE ~(c.age < StaleMax) BY <4>2, <3>2 DEF Timely
            <4>3. QED BY <4>1, <4>2
        <3>5. SoundView(v)
            <4>1. /\ Bundled \subseteq c.base.profiles
                  /\ c.base.revision \in 0 .. canon.revision
                BY <3>1 DEF Sound, CatalogInv, CatalogTyped, RowSets
            <4> HIDE DEF v
            <4>2. QED BY <3>2, <3>4, <4>1 DEF SoundView
        <3>6. QED BY <2>2, <3>2, <3>5 DEF Fallback
    <2>3. QED BY <2>1, <2>2
<1>4. QED BY <1>2, <1>3, StepToIdle

LEMMA StepNoRoute ==
    ASSUME CatalogInv, NEW p \in Procs, NoRoute(p) PROVE CatalogInv'
<1> DEFINE v == View(Snapshot, "unsupported", now, FALSE)
<1>1. Alone(p, CatalogIdle, v) BY DEF NoRoute, Alone
<1>2. v \in Views /\ SoundView(v) BY SnapshotView DEF CatalogInv, CatalogTyped
<1>3. QED BY <1>1, <1>2, StepToIdle

\* An answer above the floor mentions the bundle, and all the base does.
LEMMA AnswerSound ==
    ASSUME CatalogInv, NEW answer \in Answers, NEW base \in RowSets \cup {None},
           base # None => Sound(base), Acceptable(answer, base)
    PROVE  LET table == Rows(answer.profiles, answer.revision)
           IN /\ table \in RowSets /\ Sound(table) /\ LastMoment(table.revision) >= now
              /\ base # None => base.profiles \subseteq table.profiles
<1>1. answer.profiles \subseteq canon.profiles /\ answer.revision = canon.revision
    BY DEF Answers, Answer
<1>2. answer.profiles \subseteq Profiles /\ canon.revision \in Nat
    BY <1>1 DEF CatalogInv, CatalogTyped, RowSets
<1>3. Bundled \subseteq answer.profiles /\ (base # None => base.profiles \subseteq answer.profiles)
    BY DEF Acceptable, Sound
<1>4. LastMoment(canon.revision) >= now
    BY DEF LastMoment, LastOf, CatalogInv, CatalogTyped, Remembered
<1>5. QED BY <1>1, <1>2, <1>3, <1>4 DEF Rows, RowSets, Sound, CatalogInv, Remembered

LEMMA StepFetchCatalog ==
    ASSUME CatalogInv, NEW p \in Procs, FetchCatalog(p) PROVE CatalogInv'
<1> DEFINE c == proc[p]
<1>1. c \in Doings /\ Hand(c) /\ c.pc = "fetch" /\ c.base \in RowSets \cup {None}
    BY KeepsView DEF FetchCatalog, Doings
<1>2. PICK answer \in Answers :
          /\ Acceptable(answer, c.base)
          /\ Alone(p, [c EXCEPT !.pc = "commit", !.rows = Rows(answer.profiles, answer.revision)],
                   view[p])
    BY KeepsView DEF FetchCatalog, Alone
<1> DEFINE table == Rows(answer.profiles, answer.revision)
           d == [c EXCEPT !.pc = "commit", !.rows = table]
<1>3. /\ table \in RowSets /\ Sound(table) /\ LastMoment(table.revision) >= now
      /\ c.base # None => c.base.profiles \subseteq table.profiles
    BY <1>1, <1>2, AnswerSound DEF Hand
<1> HIDE DEF table
<1>4. /\ d \in Doings /\ d.pc = "commit" /\ d.rows = table /\ d.base = c.base /\ d.raced = c.raced
    BY <1>1, <1>3 DEF Doings
<1>5. Alone(p, d, view[p]) BY <1>2 DEF table
<1> HIDE DEF d
<1>6. Hand(d)
    <2>1. ~d.raced /\ hostCopy # None => hostCopy.profiles \subseteq table.profiles
        BY <1>1, <1>3, <1>4, CopyRows DEF Hand, CatalogInv, CatalogTyped
    <2>2. table # None BY <1>3, NoneAssumption DEF RowSets
    <2>3. QED BY <1>1, <1>3, <1>4, <2>1, <2>2 DEF Hand
<1>7. QED BY <1>4, <1>5, <1>6, KeepsView, StepAlone

LEMMA StepRefetchCatalog ==
    ASSUME CatalogInv, NEW p \in Procs, RefetchCatalog(p) PROVE CatalogInv'
<1>1. CASE Alone(p, CatalogIdle, view[p]) BY <1>1, KeepsView, StepToIdle
<1>2. ASSUME NEW answer \in Answers, Acceptable(answer, RowsOfCopy(hostCopy)),
             Alone(p, [CatalogIdle EXCEPT !.pc = "commit", !.push = TRUE,
                                          !.rows = Rows(answer.profiles, answer.revision)], view[p])
      PROVE  CatalogInv'
    <2> DEFINE table == Rows(answer.profiles, answer.revision)
               d == [CatalogIdle EXCEPT !.pc = "commit", !.push = TRUE, !.rows = table]
    <2>1. /\ table \in RowSets /\ Sound(table) /\ LastMoment(table.revision) >= now
          /\ hostCopy # None => hostCopy.profiles \subseteq table.profiles
        <3>1. RowsOfCopy(hostCopy) # None => Sound(RowsOfCopy(hostCopy))
            BY CopyRows DEF CatalogInv, CatalogTyped, CopySound, Sound
        <3>2. RowsOfCopy(hostCopy) \in RowSets \cup {None} BY CopyRows DEF CatalogInv, CatalogTyped
        <3>3. QED BY <1>2, <3>1, <3>2, AnswerSound, CopyRows DEF CatalogInv, CatalogTyped
    <2> HIDE DEF table
    <2>2. d \in Doings /\ d.pc = "commit" /\ d.rows = table /\ d.base = None
        BY <2>1 DEF CatalogIdle, Doings
    <2>3. Alone(p, d, view[p]) BY <1>2 DEF table
    <2> HIDE DEF d
    <2>4. Hand(d)
        <3>1. table # None BY <2>1, NoneAssumption DEF RowSets
        <3>2. QED BY <2>1, <2>2, <3>1 DEF Hand
    <2>5. QED BY <2>2, <2>3, <2>4, KeepsView, StepAlone
<1>3. QED BY <1>1, <1>2, KeepsView DEF RefetchCatalog, Alone

LEMMA StepCatalogExit ==
    ASSUME CatalogInv, NEW p \in Procs, CatalogExit(p) PROVE CatalogInv'
<1>1. Alone(p, CatalogIdle, None) BY DEF CatalogExit, Alone
<1>2. SoundView(None) BY DEF SoundView
<1>3. QED BY <1>1, <1>2, StepToIdle

------------------------------------------------------------------------------
LEMMA StepCommitCatalog ==
    ASSUME CatalogInv, NEW p \in Procs, CommitCatalog(p) PROVE CatalogInv'
<1> USE DEF CatalogInv
<1> DEFINE c == proc[p]
           table == proc[p].rows
           v == IF c.push THEN None ELSE View(table, "server", now, FALSE)
<1>u. UNCHANGED <<canon, now, since>> BY DEF CommitCatalog
<1>1. /\ c \in Doings /\ Hand(c) /\ c.pc = "commit" /\ table \in RowSets /\ Sound(table)
      /\ LastMoment(table.revision) >= now
    <2>1. c \in Doings /\ Hand(c) /\ c.pc = "commit" BY KeepsView DEF CommitCatalog
    <2>2. QED BY <2>1 DEF Hand, Doings
<1>2. /\ hostCopy' \in Copies /\ hostCopy' # None /\ hostCopy'.profiles = table.profiles
      /\ hostCopy'.revision = table.revision /\ hostCopy'.at = now
    <2>1. hostCopy' = [profiles |-> table.profiles, revision |-> table.revision, at |-> now]
        BY DEF CommitCatalog, Stamped
    <2>2. hostCopy' \in Copies BY <2>1, <1>1 DEF Copies, RowSets, CatalogTyped
    <2>3. QED BY <2>1, <2>2, NoneAssumption DEF Copies
<1>3. /\ proc'[p] = CatalogIdle
      /\ \A q \in Procs \ {p} : proc'[q] = Overtaken(proc[q])
    BY DEF CommitCatalog
<1>4. \A q \in Procs \ {p} : /\ proc'[q] \in Doings /\ proc'[q].pc = proc[q].pc
                             /\ proc'[q].base = proc[q].base /\ proc'[q].age = proc[q].age
                             /\ proc'[q].rows = proc[q].rows /\ proc'[q].read = proc[q].read
                             /\ proc'[q].torn = proc[q].torn
                             /\ proc'[q].pc \in {"stamp", "fetch", "commit"} => proc'[q].raced
    <2> SUFFICES ASSUME NEW q \in Procs \ {p}
                 PROVE  LET c1 == Overtaken(proc[q])
                        IN /\ c1 \in Doings /\ c1.pc = proc[q].pc /\ c1.base = proc[q].base
                           /\ c1.age = proc[q].age /\ c1.rows = proc[q].rows
                           /\ c1.read = proc[q].read /\ c1.torn = proc[q].torn
                           /\ c1.pc \in {"stamp", "fetch", "commit"} => c1.raced
        BY <1>3
    <2>1. proc[q] \in Doings BY DEF CatalogTyped
    <2>2. QED BY <2>1 DEF Overtaken, Doings
<1>5. v \in Views \cup {None} /\ SoundView(v)
    <2>1. CASE c.push BY <2>1 DEF SoundView
    <2>2. CASE ~c.push
        <3> DEFINE w == View(table, "server", now, FALSE)
        <3>1. w \in Views /\ w.rows = table /\ w.source = "server" /\ w.read = now
            BY <1>1 DEF View, Views, CatalogTyped
        <3> HIDE DEF w
        <3>2. LastMoment(table.revision) \in Nat BY <1>1 DEF LastMoment, LastOf, Sound, CatalogTyped, Remembered
        <3>3. LastMoment(table.revision) > now - StaleMax
            BY <3>2, <1>1, AgeAssumption DEF CatalogTyped
        <3>4. Timely(w) BY <3>1, <3>3 DEF Timely
        <3>5. SoundView(w) BY <3>1, <3>4, <1>1 DEF SoundView, Sound, CatalogTyped, RowSets
        <3>6. v = w BY <2>2 DEF w
        <3>7. QED BY <3>1, <3>5, <3>6
    <2>3. QED BY <2>1, <2>2
<1>6. CatalogTyped'
    <2>1. proc' \in [Procs -> Doings]
        <3>1. \A q \in Procs : proc'[q] \in Doings BY <1>3, <1>4, IdleTypes
        <3>2. proc' = [q \in Procs |-> proc'[q]] BY DEF CommitCatalog
        <3>3. QED BY <3>1, <3>2
    <2>2. view' \in [Procs -> Views \cup {None}] BY <1>5 DEF CommitCatalog, CatalogTyped
    <2>3. trusted' \subseteq Profiles /\ passed' \in BOOLEAN
        BY <1>1 DEF CommitCatalog, CatalogTyped, RowSets, Doings
    <2>4. QED BY <1>u, <1>2, <2>1, <2>2, <2>3 DEF CatalogTyped
<1>7. Remembered' BY <1>u DEF Remembered
<1>8. CopySound' BY <1>u, <1>1, <1>2 DEF CopySound, Sound, LastMoment, LastOf, CatalogTyped
<1>9. InHand'
    <2>1. Hand(proc[p])' BY <1>3, IdleTypes DEF Hand
    <2>2. ASSUME NEW q \in Procs \ {p} PROVE Hand(proc[q])'
        BY <1>4, <1>u DEF InHand, Hand, Sound, LastMoment
    <2>3. QED BY <2>1, <2>2 DEF InHand
<1>10. Shown'
    <2>1. \A q \in Procs : SoundView(view'[q])
        BY <1>5 DEF CommitCatalog, Shown, CatalogTyped
    <2>2. QED BY <2>1, <1>u DEF Shown, SoundView, Timely, LastMoment
<1>11. RatchetHolds'
    <2> SUFFICES ASSUME ~passed' PROVE trusted' \subseteq hostCopy'.profiles BY DEF RatchetHolds
    <2>1. ~passed /\ ~c.raced BY <1>1 DEF CommitCatalog, Doings, CatalogTyped
    <2>2. trusted \subseteq table.profiles
        BY <2>1, <1>1 DEF RatchetHolds, CopySound, Hand
    <2>3. QED BY <2>2, <1>2 DEF CommitCatalog
<1>12. QED BY <1>6, <1>7, <1>8, <1>9, <1>10, <1>11

\* Time and a new revision only put off the last moment of a revision.
LEMMA LastMomentGrows ==
    ASSUME CatalogTyped, Remembered, now' \in Nat, now' >= now, canon'.revision \in Nat,
           \/ since' = since
           \/ since' = Append(since, now) /\ now' = now,
           NEW r \in 0 .. canon.revision
    PROVE  /\ LastOf(r, since, now) \in Nat /\ LastOf(r, since', now') \in Nat
           /\ LastOf(r, since', now') >= LastOf(r, since, now)
<1>1. Len(since) \in Nat /\ \A i \in 1 .. Len(since) : since[i] \in Nat BY DEF CatalogTyped
<1>2. CASE since' = since BY <1>1, <1>2 DEF LastOf, CatalogTyped, Remembered
<1>3. CASE since' = Append(since, now) /\ now' = now
    <2>1. Len(since') = Len(since) + 1 /\ since'[Len(since) + 1] = now
          /\ \A i \in 1 .. Len(since) : since'[i] = since[i]
        BY <1>3 DEF CatalogTyped
    <2>2. CASE r < Len(since)
        <3>1. r + 1 \in 1 .. Len(since) /\ r < Len(since')
            BY <2>1, <2>2, <1>1 DEF Remembered
        <3>2. LastOf(r, since, now) = since[r + 1] /\ LastOf(r, since', now') = since'[r + 1]
            BY <2>2, <3>1 DEF LastOf
        <3>3. since'[r + 1] = since[r + 1] /\ since[r + 1] \in Nat BY <2>1, <3>1, <1>1
        <3>4. QED BY <3>2, <3>3
    <2>3. CASE r = Len(since) BY <2>1, <2>3, <1>1, <1>3 DEF LastOf, CatalogTyped, Remembered
    <2>4. QED BY <2>2, <2>3, <1>1 DEF Remembered
<1>4. QED BY <1>2, <1>3

LEMMA StepPushCatalog ==
    ASSUME CatalogInv, NEW p \in Procs, PushCatalog(p) PROVE CatalogInv'
<1> USE DEF CatalogInv
<1>u. UNCHANGED <<hostCopy, now, trusted, passed>> BY DEF PushCatalog
<1>1. PICK new \in SUBSET (Profiles \ canon.profiles) :
          canon' = Rows(canon.profiles \cup new, canon.revision + 1)
    BY DEF PushCatalog
<1>2. /\ canon' \in RowSets /\ canon'.revision = canon.revision + 1
      /\ canon.profiles \subseteq canon'.profiles
      /\ canon.revision \in Nat
    BY <1>1 DEF CatalogTyped, Rows, RowSets
<1>3. since' = Append(since, now) /\ canon.revision < MaxRevision BY DEF PushCatalog
<1>4. \A r \in 0 .. canon.revision :
          /\ LastOf(r, since, now) \in Nat /\ LastOf(r, since', now') \in Nat
          /\ LastOf(r, since', now') >= LastOf(r, since, now)
    BY <1>u, <1>2, <1>3, LastMomentGrows DEF CatalogTyped
<1> DEFINE c == [CatalogIdle EXCEPT !.pc = "refetch"]
<1>5. c \in Doings /\ c.pc = "refetch" /\ c.base = None /\ c.rows = None
    BY DEF CatalogIdle, Doings
<1>6. proc' = [proc EXCEPT ![p] = c] BY DEF PushCatalog
<1> HIDE DEF c
<1>7. CatalogTyped'
    <2>1. since' \in Seq(Nat) BY <1>3 DEF CatalogTyped
    <2>2. proc' \in [Procs -> Doings] BY <1>5, <1>6 DEF CatalogTyped
    <2>3. view' \in [Procs -> Views \cup {None}] BY DEF PushCatalog, CatalogTyped
    <2>4. QED BY <1>u, <1>2, <2>1, <2>2, <2>3 DEF CatalogTyped
<1>8. Remembered' BY <1>2, <1>3, BoundAssumption DEF Remembered, CatalogTyped
<1>9. \A table : Sound(table) => Sound(table)' BY <1>2 DEF Sound
<1>10. CopySound'
    <2> SUFFICES ASSUME hostCopy # None
                 PROVE  /\ Sound(hostCopy) /\ hostCopy.at \in 0 .. now
                        /\ LastOf(hostCopy.revision, since', now') >= hostCopy.at
        BY <1>u, <1>9, <1>2 DEF CopySound, Sound, LastMoment
    <2>1. hostCopy.at \in Nat /\ hostCopy.revision \in 0 .. canon.revision
        BY DEF CopySound, Sound, CatalogTyped, Copies, LastMoment
    <2>2. QED BY <2>1, <1>4 DEF CopySound, LastMoment, CatalogTyped, Copies
<1>11. InHand'
    <2>1. Hand(proc[p])' BY <1>5, <1>6 DEF Hand, CatalogTyped
    <2>2. ASSUME NEW q \in Procs \ {p} PROVE Hand(proc[q])'
        <3> DEFINE d == proc[q]
        <3>1. proc'[q] = d /\ d \in Doings /\ Hand(d) BY <1>6 DEF CatalogTyped, InHand
        <3>2. \A table \in RowSets : Sound(table) => table.revision \in 0 .. canon.revision
            BY <1>2 DEF Sound, RowSets
        <3>3. d.pc = "fetch" /\ d.age # None /\ ~d.torn
                  => LastOf(d.base.revision, since', now') >= d.read - d.age
            <4> SUFFICES ASSUME d.pc = "fetch", d.age # None, ~d.torn
                         PROVE  LastOf(d.base.revision, since', now') >= d.read - d.age OBVIOUS
            <4>1. /\ d.base \in RowSets /\ Sound(d.base) /\ d.read \in Nat /\ d.age \in Int
                  /\ LastOf(d.base.revision, since, now) >= d.read - d.age
                BY <3>1 DEF Hand, Doings, LastMoment
            <4>2. QED BY <4>1, <3>2, <1>4
        <3>4. d.pc = "commit" => LastOf(d.rows.revision, since', now') >= now'
            <4> SUFFICES ASSUME d.pc = "commit" PROVE LastOf(d.rows.revision, since', now') >= now BY <1>u
            <4>1. d.rows \in RowSets /\ Sound(d.rows) /\ LastOf(d.rows.revision, since, now) >= now
                BY <3>1 DEF Hand, Doings, LastMoment
            <4>2. QED BY <4>1, <3>2, <1>4 DEF CatalogTyped
        <3>5. Hand(d)' <=> Hand(proc[q])' BY <3>1
        <3>6. QED BY <3>1, <3>3, <3>4, <1>9, <1>u DEF Hand, LastMoment
    <2>3. QED BY <2>1, <2>2 DEF InHand
<1>12. Shown'
    <2> SUFFICES ASSUME NEW q \in Procs, view[q]' # None PROVE SoundView(view[q])'
        BY DEF Shown, SoundView
    <2>1. view'[q] = view[q] /\ view[q] \in Views /\ SoundView(view[q])
        BY DEF PushCatalog, CatalogTyped, Shown
    <2>2. /\ Bundled \subseteq view[q].rows.profiles /\ view[q].rows.revision \in 0 .. canon.revision
          /\ view[q].torn \/ Timely(view[q])
        BY <2>1 DEF SoundView
    <2>3. Timely(view[q]) => Timely(view[q])'
        BY <2>1, <2>2, <1>4, AgeAssumption DEF Timely, Views, LastMoment
    <2>4. QED BY <2>1, <2>2, <2>3, <1>2 DEF SoundView, Timely
<1>13. RatchetHolds' BY <1>u DEF RatchetHolds
<1>14. QED BY <1>7, <1>8, <1>10, <1>11, <1>12, <1>13

LEMMA StepCatalogTick ==
    ASSUME CatalogInv, CatalogTick PROVE CatalogInv'
<1> USE DEF CatalogInv
<1>u. /\ UNCHANGED <<canon, hostCopy, proc, view, since, trusted, passed>> /\ now' = now + 1
      /\ \A p \in Procs : proc[p].pc \notin {"stamp", "commit"}
    BY DEF CatalogTick
<1>1. now \in Nat /\ canon.revision \in Nat BY DEF CatalogTyped, RowSets
<1>2. \A r \in 0 .. canon.revision :
          /\ LastOf(r, since, now) \in Nat /\ LastOf(r, since', now') \in Nat
          /\ LastOf(r, since', now') >= LastOf(r, since, now)
    BY <1>u, <1>1, LastMomentGrows
<1>3. CatalogTyped' BY <1>u, <1>1 DEF CatalogTyped
<1>4. Remembered' BY <1>u DEF Remembered
<1>5. CopySound'
    <2> SUFFICES ASSUME hostCopy # None
                 PROVE  hostCopy.at \in 0 .. now' /\ LastOf(hostCopy.revision, since', now') >= hostCopy.at
        BY <1>u DEF CopySound, Sound, LastMoment
    <2>1. hostCopy.at \in 0 .. now /\ hostCopy.revision \in 0 .. canon.revision
          /\ LastOf(hostCopy.revision, since, now) >= hostCopy.at
        BY <1>1 DEF CopySound, Sound, CatalogTyped, Copies, LastMoment
    <2>2. QED BY <2>1, <1>1, <1>2, <1>u
<1>6. InHand'
    <2> SUFFICES ASSUME NEW q \in Procs PROVE Hand(proc[q])' BY DEF InHand
    <2> DEFINE d == proc[q]
    <2>1. proc'[q] = d /\ d \in Doings /\ Hand(d) /\ d.pc \notin {"stamp", "commit"}
        BY <1>u DEF CatalogTyped, InHand
    <2>2. d.pc = "fetch" /\ d.age # None /\ ~d.torn
              => LastOf(d.base.revision, since', now') >= d.read - d.age
        <3> SUFFICES ASSUME d.pc = "fetch", d.age # None, ~d.torn
                     PROVE  LastOf(d.base.revision, since', now') >= d.read - d.age OBVIOUS
        <3>1. /\ d.base \in RowSets /\ Sound(d.base) /\ d.read \in Nat /\ d.age \in Int
              /\ LastOf(d.base.revision, since, now) >= d.read - d.age
            BY <2>1 DEF Hand, Doings, LastMoment
        <3>2. d.base.revision \in 0 .. canon.revision BY <3>1, <1>1 DEF Sound, RowSets
        <3>3. QED BY <3>1, <3>2, <1>2
    <2>3. QED BY <2>1, <2>2, <1>u DEF Hand, Sound, LastMoment
<1>7. Shown'
    <2> SUFFICES ASSUME NEW q \in Procs, view[q] # None PROVE SoundView(view[q])'
        BY <1>u DEF Shown, SoundView
    <2>1. view'[q] = view[q] /\ view[q] \in Views /\ SoundView(view[q])
        BY <1>u DEF CatalogTyped, Shown
    <2>2. Timely(view[q]) => Timely(view[q])'
        BY <2>1, <1>2, <1>u, AgeAssumption DEF SoundView, Timely, Views, LastMoment
    <2>3. QED BY <2>1, <2>2, <1>u DEF SoundView, Timely
<1>8. RatchetHolds' BY <1>u DEF RatchetHolds
<1>9. QED BY <1>3, <1>4, <1>5, <1>6, <1>7, <1>8

------------------------------------------------------------------------------
\* Every state satisfies the types and the strengthened invariant.
THEOREM CatalogInductive == CatalogSpec => []CatalogInv
<1>1. CatalogInv /\ [CatalogNext]_catalogVars => CatalogInv'
    <2> SUFFICES ASSUME CatalogInv, [CatalogNext]_catalogVars PROVE CatalogInv' OBVIOUS
    <2>1. CASE UNCHANGED catalogVars
        BY <2>1 DEF catalogVars, CatalogInv, CatalogTyped, Remembered, CopySound, InHand, Hand, Shown, SoundView,
                    Timely, LastMoment, Sound, RatchetHolds
    <2>2. QED
        BY <2>1, StepReadRows, StepReadStamp, StepFallBack, StepNoRoute, StepFetchCatalog,
           StepCommitCatalog, StepPushCatalog, StepRefetchCatalog, StepCatalogExit, StepCatalogTick
        DEF CatalogNext
<1>2. QED BY <1>1, InitCatalogInv, PTL DEF CatalogSpec

\* No view called good lacks a profile of the bundle, a view whose rows and
\* stamp are of one copy is as recent as it says, and the copy loses a profile
\* only to a commit that had not seen it (read_catalog, push_catalog,
\* _server_catalog_rejection), for any number of processes and any ages.
THEOREM ViewsAreSoundThm == CatalogSpec => []ViewsAreSound
<1>1. CatalogInv => CatalogTypeOK
    <2> SUFFICES ASSUME CatalogInv PROVE CatalogTypeOK OBVIOUS
    <2>1. canon.profiles \subseteq Profiles BY DEF CatalogInv, CatalogTyped, RowSets
    <2>2. \A p \in Procs : proc[p].pc \in {"idle", "stamp", "fetch", "commit", "refetch"}
        BY DEF CatalogInv, CatalogTyped, Doings
    <2>3. QED BY <2>1, <2>2 DEF CatalogInv, Remembered, CopySound, Sound, InHand, Hand, CatalogTypeOK
<1>2. CatalogInv => GoodViewsAreWhole /\ WholeIsRecent
    BY DEF CatalogInv, Shown, SoundView, GoodViewsAreWhole, WholeIsRecent
<1>3. CatalogInv => RatchetHolds BY DEF CatalogInv
<1>4. QED BY <1>1, <1>2, <1>3, CatalogInductive, PTL DEF ViewsAreSound

------------------------------------------------------------------------------
(* The copy of the task areas and of their exceptions (AreaCache).         *)
\* The rows of a list are those of a server and of one of its revisions.
RowsOf == Servers \X Nat
Readings ==
    [pc : {"idle", "stamp", "fetch", "commit"}, server : Servers \cup {None},
     base : RowsOf \cup {None}, age : Int \cup {None}, answer : RowsOf \cup {None},
     read : Nat, raced : BOOLEAN, torn : BOOLEAN]
AreaViews ==
    [rows : RowsOf \cup {None}, source : {"server", "cache", "cache-stale", "unavailable", "unsupported"},
     read : Nat, server : Servers, torn : BOOLEAN]
AreaCopies == [server : Servers, revision : Nat, at : Nat, sound : BOOLEAN]
AreaTyped ==
    /\ hour \in 0 .. MaxHour /\ turned \in Servers
    /\ saying \in [Servers -> Seq(Nat)]
    /\ \A s \in Servers : Latest(s) \in 1 .. MaxLists
    /\ areaCopy \in AreaCopies \cup {None}
    /\ reader \in [Readers -> Readings]
    /\ shown \in [Readers -> AreaViews \cup {None}]

\* A server had that revision, and had it at a moment and later.
Had(s, revision, t) == revision \in 1 .. Latest(s) /\ LastHour(s, revision) >= t

\* The list of the copy was its server's when it was stamped.
CopyHeld ==
    areaCopy # None => areaCopy.at <= hour /\ Had(areaCopy.server, areaCopy.revision, areaCopy.at)

\* What a process has in hand: the rows of the copy, which is still the one it
\* read unless it was raced, or an answer that is its server's to this moment.
InReading(c) ==
    /\ c.pc # "idle" => c.server \in Servers
    /\ c.pc = "stamp" => c.read = hour
    /\ c.pc = "stamp" /\ ~c.raced /\ c.base # None =>
          areaCopy # None /\ c.base = <<areaCopy.server, areaCopy.revision>>
    /\ c.pc \in {"fetch", "commit"} /\ c.age # None => c.base # None
    /\ c.pc \in {"fetch", "commit"} /\ c.age # None /\ ~c.torn =>
          c.base[1] = c.server /\ Had(c.server, c.base[2], c.read - c.age)
    /\ c.pc = "commit" => c.answer[1] = c.server /\ Had(c.server, c.answer[2], hour)

ServedHeld(v) ==
    v # None /\ v.rows # None /\ ~v.torn =>
        /\ v.rows[1] = v.server /\ v.rows[2] \in 1 .. Latest(v.server)
        /\ v.source = "cache-stale" \/ LastHour(v.server, v.rows[2]) > v.read - ListStaleMax

AreaInvariant ==
    /\ AreaTyped /\ CopyHeld
    /\ \A r \in Readers : InReading(reader[r])
    /\ \A r \in Readers : IF shown[r] = None THEN TRUE ELSE ServedHeld(shown[r])

LEMMA AtRestTypes ==
    /\ AtRest \in Readings /\ AtRest.pc = "idle" /\ InReading(AtRest)
BY DEF AtRest, Readings, InReading

LEMMA AreaViewTypes ==
    ASSUME NEW table \in RowsOf \cup {None}, NEW read \in Nat, NEW s \in Servers, NEW torn \in BOOLEAN,
           NEW source \in {"server", "cache", "cache-stale", "unavailable", "unsupported"}
    PROVE  LET v == AreaView(table, source, read, s, torn)
           IN /\ v \in AreaViews /\ v.rows = table /\ v.source = source /\ v.read = read
              /\ v.server = s /\ v.torn = torn
BY DEF AreaView, AreaViews

LEMMA LatestTypes ==
    ASSUME AreaTyped, NEW s \in Servers
    PROVE  /\ Latest(s) \in Nat /\ Latest(s) >= 1 /\ Says(s) \in RowsOf
           /\ Says(s)[1] = s /\ Says(s)[2] = Latest(s) /\ hour \in Nat
           /\ \A n \in 1 .. Latest(s) : LastHour(s, n) \in Nat
<1>1. Latest(s) \in 1 .. MaxLists /\ saying[s] \in Seq(Nat) /\ hour \in Nat BY AreaAssumption DEF AreaTyped
<1>2. Latest(s) \in Nat /\ Latest(s) >= 1 BY <1>1
<1>3. \A n \in 1 .. Latest(s) : LastHour(s, n) \in Nat BY <1>1, <1>2 DEF LastHour, Latest
<1>4. QED BY <1>1, <1>2, <1>3 DEF Says, RowsOf

LEMMA InitAreaInvariant == AreaInit => AreaInvariant
<1> SUFFICES ASSUME AreaInit PROVE AreaInvariant OBVIOUS
<1> USE AreaAssumption DEF AreaInit
<1>1. AreaTyped
    <2>1. saying \in [Servers -> Seq(Nat)] /\ \A s \in Servers : Latest(s) = 1 BY DEF Latest
    <2>2. reader \in [Readers -> Readings] BY AtRestTypes
    <2>3. QED BY <2>1, <2>2 DEF AreaTyped
<1>2. QED BY <1>1, AtRestTypes DEF AreaInvariant, CopyHeld

\* A server keeps every revision it had, and the last moment of it only moves on.
LEMMA KeptHeld ==
    ASSUME AreaTyped, NEW s \in Servers, NEW n \in 1 .. Latest(s),
           \/ saying' = saying /\ hour' \in Nat /\ hour <= hour'
           \/ hour' = hour /\ \E o \in Servers : saying' = [saying EXCEPT ![o] = Append(@, hour)]
    PROVE  n \in 1 .. Latest(s)' /\ LastHour(s, n)' \in Nat /\ LastHour(s, n) <= LastHour(s, n)'
<1>1. /\ Latest(s) \in Nat /\ hour \in Nat /\ LastHour(s, n) \in Nat /\ saying[s] \in Seq(Nat)
      /\ Len(saying[s]) = Latest(s) /\ n \in Nat
    BY LatestTypes DEF AreaTyped, Latest
<1>2. CASE saying' = saying /\ hour' \in Nat /\ hour <= hour'
    <2>1. Latest(s)' = Latest(s) BY <1>2 DEF Latest
    <2>2. QED BY <1>1, <1>2, <2>1 DEF LastHour
<1>3. ASSUME hour' = hour, NEW o \in Servers, saying' = [saying EXCEPT ![o] = Append(@, hour)]
      PROVE  n \in 1 .. Latest(s)' /\ LastHour(s, n)' \in Nat /\ LastHour(s, n) <= LastHour(s, n)'
    <2>1. CASE o # s
        <3>1. saying'[s] = saying[s] BY <1>3, <2>1 DEF AreaTyped
        <3>2. Latest(s)' = Latest(s) BY <3>1 DEF Latest
        <3>3. QED BY <1>1, <1>3, <3>1, <3>2 DEF LastHour
    <2>2. CASE o = s
        <3>1. saying'[s] = Append(saying[s], hour) BY <1>3, <2>2 DEF AreaTyped
        <3>2. Latest(s)' = Latest(s) + 1 BY <3>1, <1>1 DEF Latest
        <3>3. \A i \in 1 .. Latest(s) : saying'[s][i] = saying[s][i] BY <3>1, <1>1, SMTT(30)
        <3>4. saying'[s][Latest(s) + 1] = hour BY <3>1, <1>1, SMTT(30)
        <3>5. CASE n < Latest(s)
            <4>1. LastHour(s, n) = saying[s][n + 1] BY <3>5 DEF LastHour
            <4>2. LastHour(s, n)' = saying'[s][n + 1] BY <3>2, <3>5, <1>1 DEF LastHour
            <4>3. n + 1 \in 1 .. Latest(s) BY <3>5, <1>1
            <4>4. QED BY <4>1, <4>2, <4>3, <3>2, <3>3, <1>1
        <3>6. CASE n = Latest(s)
            <4>1. LastHour(s, n) = hour BY <3>6, <1>1 DEF LastHour
            <4>2. LastHour(s, n)' = saying'[s][n + 1] BY <3>2, <3>6, <1>1 DEF LastHour
            <4>3. QED BY <4>1, <4>2, <3>4, <3>6, <3>2, <1>1
        <3>7. QED BY <3>5, <3>6, <1>1
    <2>3. QED BY <2>1, <2>2
<1>4. QED BY <1>2, <1>3

\* Most steps change what one process does and shows, and nothing else.
AreaAlone(r, c, v) ==
    /\ reader' = [reader EXCEPT ![r] = c] /\ shown' = [shown EXCEPT ![r] = v]
    /\ UNCHANGED <<list, saying, turned, areaCopy, hour>>

LEMMA AreaAloneKeeps ==
    ASSUME AreaInvariant, NEW r \in Readers, NEW c \in Readings, NEW v \in AreaViews \cup {None},
           AreaAlone(r, c, v), InReading(c), v # None => ServedHeld(v)
    PROVE  AreaInvariant'
<1> USE DEF AreaInvariant, AreaAlone
<1>1. AreaTyped' BY DEF AreaTyped, Latest
<1>2. CopyHeld' BY DEF CopyHeld, Had, LastHour, Latest
<1>3. \A q \in Readers : InReading(reader[q])'
    <2> SUFFICES ASSUME NEW q \in Readers PROVE InReading(reader[q])' OBVIOUS
    <2>1. InReading(reader'[q]) BY DEF AreaTyped
    <2>2. /\ reader'[q].pc = "stamp" => reader'[q].read = hour'
          /\ UNCHANGED <<areaCopy, hour>>
        BY <2>1 DEF InReading
    <2>3. \A s, n, m : Had(s, n, m)' = Had(s, n, m) BY DEF Had, LastHour, Latest
    <2>4. QED BY ONLY <2>1, <2>2, <2>3 DEF InReading
<1>4. \A q \in Readers : IF shown'[q] = None THEN TRUE ELSE ServedHeld(shown[q])'
    <2> SUFFICES ASSUME NEW q \in Readers, shown'[q] # None PROVE ServedHeld(shown[q])' OBVIOUS
    <2>1. ServedHeld(shown'[q]) BY DEF AreaTyped
    <2>2. UNCHANGED <<list, saying, turned, areaCopy, hour>> OBVIOUS
    <2>3. QED BY ONLY <2>1, <2>2 DEF ServedHeld, LastHour, Latest
<1>5. QED BY <1>1, <1>2, <1>3, <1>4

LEMMA ReadAreaRowsKeeps ==
    ASSUME AreaInvariant, NEW r \in Readers, ReadAreaRows(r) PROVE AreaInvariant'
<1> USE DEF AreaInvariant
<1> DEFINE c == [AtRest EXCEPT !.pc = "stamp", !.server = turned, !.base = RowsRead, !.read = hour]
<1>1. RowsRead \in RowsOf \cup {None} /\ (RowsRead # None => areaCopy # None /\ RowsRead = <<areaCopy.server, areaCopy.revision>>)
    BY DEF RowsRead, RowsOf, AreaTyped, AreaCopies
<1>2. turned \in Servers /\ hour \in Nat BY AreaAssumption DEF AreaTyped
<1>3. /\ c \in Readings /\ c.pc = "stamp" /\ c.server = turned /\ c.base = RowsRead /\ c.read = hour
    BY <1>1, <1>2 DEF AtRest, Readings
<1>4. reader' = [reader EXCEPT ![r] = c] BY DEF ReadAreaRows
<1> HIDE DEF c
<1>5. InReading(c) BY <1>1, <1>2, <1>3 DEF InReading
<1>6. shown' = [shown EXCEPT ![r] = shown[r]] /\ shown[r] \in AreaViews \cup {None}
    BY DEF ReadAreaRows, AreaTyped
<1>7. AreaAlone(r, c, shown[r]) BY <1>4, <1>6 DEF ReadAreaRows, AreaAlone
<1>8. QED BY <1>3, <1>5, <1>6, <1>7, AreaAloneKeeps

LEMMA ReadAreaStampKeeps ==
    ASSUME AreaInvariant, NEW r \in Readers, ReadAreaStamp(r) PROVE AreaInvariant'
<1> USE DEF AreaInvariant
<1> DEFINE c == reader[r]
           age == IF c.base = None THEN None ELSE AgeRead(c.server)
           serves == IF age = None THEN FALSE ELSE age < ListTtl /\ age < ListStaleMax
           v == AreaView(c.base, "cache", c.read, c.server, c.raced)
           next == [c EXCEPT !.pc = "fetch", !.age = age, !.torn = age # None /\ c.raced]
<1>0. c \in Readings /\ c.pc = "stamp" /\ InReading(c) BY DEF ReadAreaStamp, AreaTyped
<1>s. c.server \in Servers /\ c.read = hour /\ hour \in Nat /\ c.base \in RowsOf \cup {None} /\ c.raced \in BOOLEAN
    BY <1>0, AreaAssumption DEF InReading, AreaTyped, Readings
<1>1. /\ age \in Int \cup {None} /\ (age # None => c.base # None)
      /\ age # None => areaCopy # None /\ areaCopy.server = c.server /\ age = hour - areaCopy.at /\ age \in Int
    BY <1>s DEF AgeRead, AreaTyped, AreaCopies
<1>2. age # None /\ ~c.raced =>
          c.base[1] = c.server /\ Had(c.server, c.base[2], c.read - age)
    <2> SUFFICES ASSUME age # None, ~c.raced
                 PROVE  c.base[1] = c.server /\ Had(c.server, c.base[2], c.read - age)
        OBVIOUS
    <2>1. areaCopy # None /\ c.base = <<areaCopy.server, areaCopy.revision>> BY <1>0, <1>1 DEF InReading
    <2>2. areaCopy.at = hour - age /\ areaCopy.server = c.server
        <3>1. areaCopy.at \in Int BY <2>1 DEF AreaTyped, AreaCopies
        <3>2. QED BY <3>1, <1>1, <1>s
    <2>3. Had(areaCopy.server, areaCopy.revision, areaCopy.at) BY <2>1 DEF CopyHeld
    <2>4. QED BY <2>1, <2>2, <2>3, <1>s
<1>3. \/ /\ serves /\ shown' = [shown EXCEPT ![r] = v] /\ reader' = [reader EXCEPT ![r] = AtRest]
      \/ /\ ~serves /\ reader' = [reader EXCEPT ![r] = next] /\ UNCHANGED shown
    BY DEF ReadAreaStamp, AreaTyped
<1>u. UNCHANGED <<list, saying, turned, areaCopy, hour>> BY DEF ReadAreaStamp
<1>4. CASE serves /\ shown' = [shown EXCEPT ![r] = v] /\ reader' = [reader EXCEPT ![r] = AtRest]
    <2>0. age # None /\ age < ListStaleMax BY <1>4
    <2>1. v \in AreaViews /\ v.rows = c.base /\ v.source = "cache" /\ v.read = c.read
          /\ v.server = c.server /\ v.torn = c.raced
        BY <1>s, AreaViewTypes
    <2> HIDE DEF v
    <2>2. ServedHeld(v)
        <3> SUFFICES ASSUME ~c.raced
                     PROVE  /\ c.base[1] = c.server /\ c.base[2] \in 1 .. Latest(c.server)
                            /\ LastHour(c.server, c.base[2]) > c.read - ListStaleMax
            BY <2>1 DEF ServedHeld
        <3>1. c.base[1] = c.server /\ Had(c.server, c.base[2], c.read - age) BY <1>2, <2>0
        <3>2. c.base[2] \in 1 .. Latest(c.server) /\ LastHour(c.server, c.base[2]) >= c.read - age
            BY <3>1 DEF Had
        <3>3. LastHour(c.server, c.base[2]) \in Nat BY <3>2, <1>s, LatestTypes
        <3>4. age \in Int /\ ListStaleMax \in Int BY <1>1, <2>0, AreaAssumption
        <3> HIDE DEF age
        <3>5. QED BY <3>1, <3>2, <3>3, <3>4, <2>0, <1>s
    <2>3. AreaAlone(r, AtRest, v) BY <1>4, <1>u DEF AreaAlone
    <2>4. QED BY <2>1, <2>2, <2>3, AtRestTypes, AreaAloneKeeps
<1>5. CASE ~serves /\ reader' = [reader EXCEPT ![r] = next] /\ UNCHANGED shown
    <2>1. /\ next \in Readings /\ next.pc = "fetch" /\ next.age = age /\ next.torn = (age # None /\ c.raced)
          /\ next.server = c.server /\ next.base = c.base /\ next.read = c.read
        <3> HIDE DEF age, c
        <3>1. QED BY <1>0, <1>1 DEF Readings
    <2> HIDE DEF next
    <2>2. InReading(next)
        <3> HIDE DEF age
        <3>1. QED BY <2>1, <1>1, <1>2, <1>s DEF InReading
    <2>3. shown' = [shown EXCEPT ![r] = shown[r]] /\ shown[r] \in AreaViews \cup {None} BY <1>5 DEF AreaTyped
    <2>4. AreaAlone(r, next, shown[r]) BY <1>5, <1>u, <2>3 DEF AreaAlone
    <2>5. QED BY <2>1, <2>2, <2>3, <2>4, AreaAloneKeeps
<1>6. QED BY <1>3, <1>4, <1>5

\* What a process serves without an answer is the copy it read, called stale
\* when it is.
LEMMA WithoutServerHeld ==
    ASSUME AreaInvariant, NEW r \in Readers, reader[r].pc \in {"fetch", "commit"}
    PROVE  WithoutServer(reader[r]) \in AreaViews /\ ServedHeld(WithoutServer(reader[r]))
<1> DEFINE c == reader[r]
           source == IF c.age < ListStaleMax THEN "cache" ELSE "cache-stale"
           none == AreaView(None, "unavailable", c.read, c.server, FALSE)
           held == AreaView(c.base, source, c.read, c.server, c.torn)
<1>1. c \in Readings /\ InReading(c) /\ c.pc \in {"fetch", "commit"}
    BY DEF AreaInvariant, AreaTyped
<1>2. /\ c.server \in Servers /\ c.read \in Nat /\ c.torn \in BOOLEAN
      /\ c.base \in RowsOf \cup {None} /\ c.age \in Int \cup {None}
    BY <1>1 DEF InReading, Readings
<1> HIDE DEF c
<1>3. CASE c.age = None
    <2>1. none \in AreaViews /\ none.rows = None BY <1>2 DEF AreaView, AreaViews
    <2>2. WithoutServer(c) = none BY <1>3 DEF WithoutServer
    <2> HIDE DEF none
    <2>3. ServedHeld(none) BY <2>1 DEF ServedHeld
    <2>4. QED BY <2>1, <2>2, <2>3 DEF c
<1>4. CASE c.age # None
    <2>1. held \in AreaViews /\ held.rows = c.base /\ held.source = source /\ held.read = c.read
          /\ held.server = c.server /\ held.torn = c.torn
        BY <1>2, AreaViewTypes
    <2>2. WithoutServer(c) = held BY <1>4 DEF WithoutServer
    <2> HIDE DEF held
    <2>3. ServedHeld(held)
        <3> SUFFICES ASSUME ~c.torn
                     PROVE  /\ c.base[1] = c.server /\ c.base[2] \in 1 .. Latest(c.server)
                            /\ source = "cache-stale"
                               \/ LastHour(c.server, c.base[2]) > c.read - ListStaleMax
            BY <2>1 DEF ServedHeld
        <3>1. c.base[1] = c.server /\ c.base[2] \in 1 .. Latest(c.server)
              /\ LastHour(c.server, c.base[2]) >= c.read - c.age
            BY <1>1, <1>4 DEF InReading, Had
        <3>2. LastHour(c.server, c.base[2]) \in Nat
            BY <3>1, <1>2, LatestTypes DEF AreaInvariant
        <3>3. source # "cache-stale" => c.age < ListStaleMax OBVIOUS
        <3>4. QED BY <3>1, <3>2, <3>3, <1>2, <1>4, AreaAssumption
    <2>4. QED BY <2>1, <2>2, <2>3 DEF c
<1>5. QED BY <1>3, <1>4

\* An answer serves as the list of the server at this moment.
LEMMA AnswerHeld ==
    ASSUME AreaTyped, NEW s \in Servers, NEW table \in RowsOf, table[1] = s, Had(s, table[2], hour)
    PROVE  AreaView(table, "server", hour, s, FALSE) \in AreaViews
           /\ ServedHeld(AreaView(table, "server", hour, s, FALSE))
<1> DEFINE v == AreaView(table, "server", hour, s, FALSE)
<1>1. hour \in Nat BY LatestTypes
<1>2. v \in AreaViews /\ v.rows = table /\ v.source = "server" /\ v.read = hour /\ v.server = s
    BY <1>1 DEF AreaView, AreaViews
<1> HIDE DEF v
<1>3. table[2] \in 1 .. Latest(s) /\ LastHour(s, table[2]) >= hour BY DEF Had
<1>4. LastHour(s, table[2]) \in Nat BY <1>3, LatestTypes
<1>5. LastHour(s, table[2]) > hour - ListStaleMax BY <1>1, <1>3, <1>4, AreaAssumption
<1>6. QED BY <1>2, <1>3, <1>5 DEF ServedHeld, v

LEMMA ShowKeeps ==
    ASSUME AreaInvariant, NEW r \in Readers, NEW v \in AreaViews, ServedHeld(v), Show(r, v)
    PROVE  AreaInvariant'
BY AtRestTypes, AreaAloneKeeps DEF Show, AreaAlone

LEMMA ListAnsweredKeeps ==
    ASSUME AreaInvariant, NEW r \in Readers, ListAnswered(r) PROVE AreaInvariant'
<1> USE DEF AreaInvariant
<1> DEFINE c == reader[r]
           s == c.server
           next == [c EXCEPT !.pc = "commit", !.answer = Says(s)]
<1>1. c \in Readings /\ c.pc = "fetch" /\ InReading(c) /\ s \in Servers
    BY DEF ListAnswered, AreaTyped, InReading
<1>2. /\ Says(s) \in RowsOf /\ Says(s)[1] = s /\ Says(s)[2] = Latest(s) /\ hour \in Nat
      /\ Latest(s) \in 1 .. Latest(s)
    BY <1>1, LatestTypes
<1>3. Had(s, Says(s)[2], hour) BY <1>2 DEF Had, LastHour
<1>4. ASSUME Show(r, AreaView(Says(s), "server", hour, s, FALSE)) PROVE AreaInvariant'
    BY <1>1, <1>2, <1>3, <1>4, AnswerHeld, ShowKeeps
<1>5. ASSUME reader' = [reader EXCEPT ![r] = next], UNCHANGED <<list, saying, turned, areaCopy, hour, shown>>
      PROVE  AreaInvariant'
    <2>1. /\ next \in Readings /\ next.pc = "commit" /\ next.answer = Says(s) /\ next.server = s
          /\ next.age = c.age /\ next.base = c.base /\ next.torn = c.torn /\ next.read = c.read
        <3> HIDE DEF c
        <3>1. QED BY <1>1, <1>2 DEF Readings
    <2> HIDE DEF next
    <2>2. InReading(next) BY <2>1, <1>1, <1>2, <1>3 DEF InReading
    <2>3. shown' = [shown EXCEPT ![r] = shown[r]] /\ shown[r] \in AreaViews \cup {None}
        BY <1>5 DEF AreaTyped
    <2>4. AreaAlone(r, next, shown[r]) BY <1>5, <2>3 DEF AreaAlone
    <2>5. QED BY <2>1, <2>2, <2>3, <2>4, AreaAloneKeeps
<1>6. QED BY <1>4, <1>5 DEF ListAnswered

LEMMA CommitAreasKeeps ==
    ASSUME AreaInvariant, NEW r \in Readers, CommitAreas(r) PROVE AreaInvariant'
<1> USE DEF AreaInvariant
<1> DEFINE c == reader[r]
           v == AreaView(c.answer, "server", hour, c.server, FALSE)
           copy == [server |-> c.server, revision |-> c.answer[2], at |-> hour, sound |-> TRUE]
<1>1. /\ c \in Readings /\ c.pc = "commit" /\ InReading(c) /\ c.server \in Servers
      /\ c.answer[1] = c.server /\ Had(c.server, c.answer[2], hour)
    BY DEF CommitAreas, AreaTyped, InReading
<1>2. hour \in Nat /\ c.answer[2] \in Nat
    BY <1>1, AreaAssumption DEF AreaTyped, Had
<1>3. copy \in AreaCopies /\ copy.at = hour /\ copy.server = c.server /\ copy.revision = c.answer[2]
    BY <1>1, <1>2 DEF AreaCopies
<1>u. /\ areaCopy' = copy /\ shown' = [shown EXCEPT ![r] = v] /\ UNCHANGED <<list, saying, turned, hour>>
    BY DEF CommitAreas
<1>4. c.answer \in RowsOf \cup {None} BY <1>1 DEF Readings
<1>5. v \in AreaViews /\ ServedHeld(v)
    <2>1. CASE c.answer \in RowsOf BY <2>1, <1>1, AnswerHeld
    <2>2. CASE c.answer = None
        <3>1. v \in AreaViews /\ v.rows = None BY <2>2, <1>1, <1>2 DEF AreaView, AreaViews
        <3> HIDE DEF v
        <3>2. QED BY <3>1 DEF ServedHeld
    <2>3. QED BY <1>4, <2>1, <2>2
<1>6. \A q \in Readers : LET d == reader'[q] IN
          \/ d = AtRest
          \/ d = reader[q] /\ reader[q].pc = "idle"
          \/ /\ d \in Readings /\ d.raced /\ d.pc = reader[q].pc /\ d.server = reader[q].server
             /\ d.base = reader[q].base /\ d.age = reader[q].age /\ d.answer = reader[q].answer
             /\ d.read = reader[q].read /\ d.torn = reader[q].torn
    <2> SUFFICES ASSUME NEW q \in Readers
                 PROVE  LET d == reader'[q] IN
                        \/ d = AtRest
                        \/ d = reader[q] /\ reader[q].pc = "idle"
                        \/ /\ d \in Readings /\ d.raced /\ d.pc = reader[q].pc /\ d.server = reader[q].server
                           /\ d.base = reader[q].base /\ d.age = reader[q].age /\ d.answer = reader[q].answer
                           /\ d.read = reader[q].read /\ d.torn = reader[q].torn
        OBVIOUS
    <2>1. reader[q] \in Readings BY DEF AreaTyped
    <2>2. \/ reader'[q] = AtRest
          \/ reader'[q] = [reader[q] EXCEPT !.raced = TRUE]
          \/ reader'[q] = reader[q] /\ reader[q].pc = "idle"
        BY <2>1 DEF CommitAreas, Readings
    <2>3. QED BY <2>1, <2>2 DEF Readings
<1> HIDE DEF c, v, copy
<1>7. AreaTyped'
    <2>1. reader' \in [Readers -> Readings]
        <3>1. \A q \in Readers : reader'[q] \in Readings BY <1>6, AtRestTypes DEF AreaTyped
        <3>2. DOMAIN reader' = Readers /\ reader' = [q \in Readers |-> reader'[q]] BY DEF CommitAreas
        <3>3. QED BY <3>1, <3>2
    <2>2. shown' \in [Readers -> AreaViews \cup {None}] BY <1>5, <1>u DEF AreaTyped
    <2>3. areaCopy' \in AreaCopies \cup {None} BY <1>3, <1>u
    <2>4. /\ hour' \in 0 .. MaxHour /\ turned' \in Servers
          /\ saying' \in [Servers -> Seq(Nat)]
        BY <1>u DEF AreaTyped
    <2>5. \A s \in Servers : Latest(s)' \in 1 .. MaxLists BY <1>u DEF AreaTyped, Latest
    <2>6. QED BY ONLY <2>1, <2>2, <2>3, <2>4, <2>5 DEF AreaTyped
<1>8. CopyHeld' BY <1>1, <1>2, <1>3, <1>u DEF CopyHeld, Had, LastHour, Latest
<1>9. ASSUME NEW q \in Readers PROVE InReading(reader[q])'
    <2>1. CASE reader'[q] = AtRest BY <2>1, AtRestTypes DEF InReading
    <2>2. CASE reader'[q] = reader[q] /\ reader[q].pc = "idle" BY <2>2 DEF InReading
    <2>3. CASE ~(reader'[q] = AtRest) /\ ~(reader'[q] = reader[q] /\ reader[q].pc = "idle")
        <3>1. InReading(reader[q]) OBVIOUS
        <3>2. QED BY <2>3, <3>1, <1>6, <1>u DEF InReading, Had, LastHour, Latest
    <2>4. QED BY <2>1, <2>2, <2>3
<1>10. ASSUME NEW q \in Readers, shown'[q] # None PROVE ServedHeld(shown[q])'
    <2>1. ServedHeld(shown'[q]) BY <1>5, <1>u, <1>10 DEF AreaTyped
    <2>2. QED BY ONLY <2>1, <1>u DEF ServedHeld, LastHour, Latest
<1>11. QED BY <1>7, <1>8, <1>9, <1>10

\* The servers' lists and time move on, or a row of the copy is spoilt: what
\* was held stays so.
LEMMA WorldKeeps ==
    ASSUME AreaInvariant, AreaTyped', UNCHANGED <<reader, shown>>,
           \/ saying' = saying /\ hour' \in Nat /\ hour <= hour'
           \/ hour' = hour /\ \E o \in Servers : saying' = [saying EXCEPT ![o] = Append(@, hour)],
           hour' = hour \/ \A r \in Readers : reader[r].pc \notin {"stamp", "commit"},
           areaCopy' # None => /\ areaCopy # None /\ areaCopy'.server = areaCopy.server
                               /\ areaCopy'.revision = areaCopy.revision /\ areaCopy'.at = areaCopy.at,
           areaCopy # None => areaCopy' # None
    PROVE  AreaInvariant'
<1> USE DEF AreaInvariant
<1>1. ASSUME NEW s \in Servers, NEW n \in 1 .. Latest(s)
      PROVE  n \in 1 .. Latest(s)' /\ LastHour(s, n)' \in Nat /\ LastHour(s, n) \in Nat /\ LastHour(s, n) <= LastHour(s, n)'
    BY KeptHeld, LatestTypes
<1>2. ASSUME NEW s \in Servers, NEW n, NEW m \in Int, Had(s, n, m) PROVE Had(s, n, m)'
    <2>1. n \in 1 .. Latest(s) /\ LastHour(s, n) >= m BY <1>2 DEF Had
    <2>2. QED BY <2>1, <1>1 DEF Had
<1>3. hour \in Int /\ hour' \in Int /\ hour <= hour' BY DEF AreaTyped
<1>4. CopyHeld'
    <2> SUFFICES ASSUME areaCopy' # None
                 PROVE  areaCopy'.at <= hour' /\ Had(areaCopy.server, areaCopy.revision, areaCopy.at)'
        BY DEF CopyHeld
    <2>1. areaCopy # None /\ areaCopy.server \in Servers /\ areaCopy.at \in Int
        BY DEF AreaTyped, AreaCopies
    <2>2. Had(areaCopy.server, areaCopy.revision, areaCopy.at)' BY <2>1, <1>2 DEF CopyHeld, Had
    <2>3. areaCopy'.at <= hour' BY <2>1, <1>3 DEF CopyHeld
    <2>4. QED BY <2>2, <2>3
<1>5. ASSUME NEW r \in Readers PROVE InReading(reader[r])'
    <2> DEFINE c == reader[r]
    <2>0. c' = c /\ InReading(c) /\ c \in Readings BY DEF AreaTyped
    <2>1. c.pc = "stamp" => c.read = hour' BY <2>0 DEF InReading
    <2>2. c.pc = "stamp" /\ ~c.raced /\ c.base # None =>
              areaCopy' # None /\ c.base = <<areaCopy'.server, areaCopy'.revision>>
        BY <2>0 DEF InReading
    <2>3. c.pc \in {"fetch", "commit"} /\ c.age # None /\ ~c.torn =>
              c.base[1] = c.server /\ Had(c.server, c.base[2], c.read - c.age)'
        <3> SUFFICES ASSUME c.pc \in {"fetch", "commit"}, c.age # None, ~c.torn
                     PROVE  c.base[1] = c.server /\ Had(c.server, c.base[2], c.read - c.age)'
            OBVIOUS
        <3>1. c.server \in Servers /\ c.read - c.age \in Int BY <2>0 DEF InReading, Readings
        <3>2. c.base[1] = c.server /\ Had(c.server, c.base[2], c.read - c.age) BY <2>0 DEF InReading
        <3>3. Had(c.server, c.base[2], c.read - c.age)' BY ONLY <3>1, <3>2, <1>2, <2>0
        <3>4. QED BY <3>2, <3>3
    <2>4. c.pc = "commit" => c.answer[1] = c.server /\ Had(c.server, c.answer[2], hour)'
        <3> SUFFICES ASSUME c.pc = "commit"
                     PROVE  c.answer[1] = c.server /\ Had(c.server, c.answer[2], hour)'
            OBVIOUS
        <3>1. hour' = hour OBVIOUS
        <3>2. c.server \in Servers /\ c.answer[1] = c.server /\ Had(c.server, c.answer[2], hour)
            BY <2>0 DEF InReading
        <3>3. c.answer[2] \in 1 .. Latest(c.server) /\ LastHour(c.server, c.answer[2]) >= hour
            BY <3>2 DEF Had
        <3>4. QED BY <3>1, <3>2, <3>3, <1>1, <1>3 DEF Had
    <2>5. QED BY <2>0, <2>1, <2>2, <2>3, <2>4 DEF InReading
<1>6. ASSUME NEW r \in Readers, shown'[r] # None PROVE ServedHeld(shown[r])'
    <2> DEFINE v == shown[r]
    <2>1. v # None /\ ServedHeld(v) /\ v \in AreaViews /\ v' = v BY <1>6 DEF AreaTyped
    <2>2. v.server \in Servers /\ v.read \in Int BY <2>1 DEF AreaViews
    <2> HIDE DEF v
    <2>3. v.rows # None /\ ~v.torn =>
              /\ v.rows[1] = v.server /\ v.rows[2] \in 1 .. Latest(v.server)'
              /\ v.source = "cache-stale" \/ LastHour(v.server, v.rows[2])' > v.read - ListStaleMax
        <3> SUFFICES ASSUME v.rows # None, ~v.torn
                     PROVE  /\ v.rows[1] = v.server /\ v.rows[2] \in 1 .. Latest(v.server)'
                            /\ v.source = "cache-stale"
                               \/ LastHour(v.server, v.rows[2])' > v.read - ListStaleMax
            OBVIOUS
        <3>1. v.rows[1] = v.server /\ v.rows[2] \in 1 .. Latest(v.server)
              /\ (v.source = "cache-stale" \/ LastHour(v.server, v.rows[2]) > v.read - ListStaleMax)
            BY <2>1 DEF ServedHeld
        <3>2. /\ v.rows[2] \in 1 .. Latest(v.server)'
              /\ LastHour(v.server, v.rows[2])' \in Nat /\ LastHour(v.server, v.rows[2]) \in Nat
              /\ LastHour(v.server, v.rows[2]) <= LastHour(v.server, v.rows[2])'
            BY <3>1, <2>1, <2>2, <1>1
        <3>3. QED BY <3>1, <3>2, <2>2, AreaAssumption
    <2>4. QED BY <2>1, <2>3 DEF ServedHeld, v
<1>7. QED BY <1>4, <1>5, <1>6

THEOREM AreaInductive == AreaSpec => []AreaInvariant
<1>1. AreaInvariant /\ [AreaNext]_areaVars => AreaInvariant'
    <2> SUFFICES ASSUME AreaInvariant, [AreaNext]_areaVars PROVE AreaInvariant' OBVIOUS
    <2> USE DEF AreaInvariant
    <2>1. ASSUME NEW r \in Readers,
                 ReadAreaRows(r) \/ ReadAreaStamp(r) \/ ListAnswered(r) \/ CommitAreas(r)
          PROVE  AreaInvariant'
        BY <2>1, ReadAreaRowsKeeps, ReadAreaStampKeeps, ListAnsweredKeeps, CommitAreasKeeps
    <2>2. ASSUME NEW r \in Readers, NoAnswer(r) \/ CommitFails(r) PROVE AreaInvariant'
        BY <2>2, WithoutServerHeld, ShowKeeps DEF NoAnswer, CommitFails
    <2>3. ASSUME NEW r \in Readers, NoSuchRoute(r) PROVE AreaInvariant'
        <3> DEFINE v == AreaView(None, "unsupported", reader[r].read, reader[r].server, FALSE)
        <3>1. reader[r].server \in Servers /\ reader[r].read \in Nat
            BY <2>3 DEF NoSuchRoute, AreaTyped, Readings, InReading
        <3>2. v \in AreaViews /\ v.rows = None BY <3>1 DEF AreaView, AreaViews
        <3>3. Show(r, v) BY <2>3 DEF NoSuchRoute
        <3> HIDE DEF v
        <3>4. ServedHeld(v) BY <3>2 DEF ServedHeld
        <3>5. QED BY <3>2, <3>3, <3>4, ShowKeeps
    <2>4. ASSUME NEW r \in Readers, ReaderEnds(r) PROVE AreaInvariant'
        <3>1. AreaAlone(r, AtRest, None) BY <2>4 DEF ReaderEnds, AreaAlone
        <3>2. QED BY <3>1, AtRestTypes, AreaAloneKeeps
    <2>5. ASSUME NEW s \in Servers, Revise(s) PROVE AreaInvariant'
        <3>1. saying' = [saying EXCEPT ![s] = Append(@, hour)] BY <2>5 DEF Revise
        <3>2. AreaTyped'
            <4>1. hour \in Nat /\ saying[s] \in Seq(Nat) BY AreaAssumption DEF AreaTyped
            <4>2. saying' \in [Servers -> Seq(Nat)] BY <3>1, <4>1 DEF AreaTyped
            <4>3. \A o \in Servers : Latest(o)' \in 1 .. MaxLists
                <5> SUFFICES ASSUME NEW o \in Servers PROVE Latest(o)' \in 1 .. MaxLists OBVIOUS
                <5>1. Latest(o) \in 1 .. MaxLists /\ Latest(s) < MaxLists BY <2>5 DEF AreaTyped, Revise
                <5>2. Latest(o)' = IF o = s THEN Latest(s) + 1 ELSE Latest(o)
                    BY <3>1, <4>1 DEF Latest, AreaTyped
                <5>3. QED BY <5>1, <5>2, AreaAssumption
            <4>4. QED BY <4>2, <4>3, <2>5 DEF AreaTyped, Revise
        <3>3. QED BY <3>1, <3>2, <2>5, WorldKeeps DEF Revise
    <2>6. CASE Turn
        <3>1. AreaTyped' BY <2>6 DEF Turn, AreaTyped, Latest
        <3>2. hour \in Nat /\ hour <= hour BY AreaAssumption DEF AreaTyped
        <3>3. QED BY <3>1, <3>2, <2>6, WorldKeeps DEF Turn
    <2>7. CASE Spoil
        <3>1. /\ areaCopy # None /\ areaCopy \in AreaCopies
              /\ areaCopy' = [areaCopy EXCEPT !.sound = FALSE]
            BY <2>7 DEF Spoil, AreaTyped
        <3>2. areaCopy' \in AreaCopies /\ areaCopy' # None
            BY <3>1, AreaAssumption DEF AreaCopies
        <3>3. /\ areaCopy'.server = areaCopy.server /\ areaCopy'.revision = areaCopy.revision
              /\ areaCopy'.at = areaCopy.at
            BY <3>1 DEF AreaCopies
        <3>4. AreaTyped' BY <2>7, <3>2 DEF Spoil, AreaTyped, Latest
        <3>5. hour \in Nat /\ hour <= hour BY AreaAssumption DEF AreaTyped
        <3>6. QED BY <3>1, <3>2, <3>3, <3>4, <3>5, <2>7, WorldKeeps DEF Spoil
    <2>8. CASE HourPasses
        <3>1. hour' \in 0 .. MaxHour /\ hour' \in Nat /\ hour <= hour'
            BY <2>8, AreaAssumption DEF HourPasses, AreaTyped
        <3>2. AreaTyped' BY <2>8, <3>1 DEF HourPasses, AreaTyped, Latest
        <3>3. QED BY <3>1, <3>2, <2>8, WorldKeeps DEF HourPasses
    <2>9. CASE UNCHANGED areaVars
        BY <2>9 DEF areaVars, AreaTyped, CopyHeld, InReading, ServedHeld, Had, LastHour, Latest
    <2>10. QED BY <2>1, <2>2, <2>3, <2>4, <2>5, <2>6, <2>7, <2>8, <2>9 DEF AreaNext
<1>2. QED BY <1>1, InitAreaInvariant, PTL DEF AreaSpec

THEOREM AreasHoldThm == AreaSpec => []AreasHold
<1>1. AreaInvariant => AreasHold
    <2> SUFFICES ASSUME AreaInvariant PROVE AreasHold OBVIOUS
    <2>1. AreaTypeOK
        BY AreaAssumption DEF AreaTypeOK, AreaInvariant, AreaTyped, CopyHeld, Had, AreaCopies, Readings
    <2>2. QED BY <2>1 DEF AreasHold, AreaInvariant, ServedHeld
<1>2. QED BY <1>1, AreaInductive, PTL

------------------------------------------------------------------------------
(* The order of the rows (Ranking).                                        *)

\* A sequence that has every member of a set once.
Lists(s, S) ==
    /\ s \in Seq(S)
    /\ \A c \in S : \E i \in DOMAIN s : s[i] = c
    /\ \A i, j \in DOMAIN s : s[i] = s[j] => i = j
StrictOn(S, rel) ==
    /\ \A c \in S : <<c, c>> \notin rel
    /\ \A c, d \in S : c # d => <<c, d>> \in rel \/ <<d, c>> \in rel
    /\ \A b, c, d \in S : <<b, c>> \in rel /\ <<c, d>> \in rel => <<b, d>> \in rel
Under(S, rel, c) == {d \in S : <<d, c>> \in rel}

\* Under a strict order on a finite set, each number below its size counts what
\* is before one of its members.
LEMMA EachCounts ==
    ASSUME NEW S, IsFiniteSet(S), NEW rel, StrictOn(S, rel)
    PROVE  /\ \A c, d \in S : <<c, d>> \in rel <=>
                 Cardinality(Under(S, rel, c)) < Cardinality(Under(S, rel, d))
           /\ \A c \in S : Cardinality(Under(S, rel, c)) \in 0 .. Cardinality(S) - 1
           /\ \A n \in 0 .. Cardinality(S) - 1 : \E c \in S : Cardinality(Under(S, rel, c)) = n
<1> DEFINE count(c) == Cardinality(Under(S, rel, c))
<1>1. \A c \in S : count(c) \in Nat /\ IsFiniteSet(Under(S, rel, c))
    BY FS_Subset, FS_CardinalityType DEF Under
<1>2. ASSUME NEW c \in S, NEW d \in S, <<c, d>> \in rel PROVE count(c) < count(d)
    <2>1. Under(S, rel, c) \in SUBSET Under(S, rel, d) BY <1>2 DEF StrictOn, Under
    <2>2. c \in Under(S, rel, d) /\ c \notin Under(S, rel, c) BY <1>2 DEF StrictOn, Under
    <2>3. IsFiniteSet(Under(S, rel, d)) BY <1>1
    <2>4. QED BY <1>1, <2>1, <2>2, <2>3, FS_Subset
<1>3. \A c, d \in S : <<c, d>> \in rel <=> count(c) < count(d)
    <2> SUFFICES ASSUME NEW c \in S, NEW d \in S, count(c) < count(d) PROVE <<c, d>> \in rel
        BY <1>2
    <2>1. CASE <<d, c>> \in rel BY <1>1, <1>2, <2>1
    <2>2. CASE c = d BY <1>1, <2>2
    <2>3. QED BY <2>1, <2>2 DEF StrictOn
<1>4. Cardinality(S) \in Nat BY FS_CardinalityType
<1>5. ASSUME NEW c \in S PROVE count(c) \in 0 .. Cardinality(S) - 1
    <2>1. Under(S, rel, c) \in SUBSET S /\ c \notin Under(S, rel, c) BY DEF Under, StrictOn
    <2>2. Under(S, rel, c) # S BY <2>1
    <2>3. count(c) <= Cardinality(S) /\ count(c) # Cardinality(S)
        <3> DEFINE U == Under(S, rel, c)
        <3>1. U \in SUBSET S /\ U # S BY <2>1, <2>2
        <3> HIDE DEF U
        <3>2. Cardinality(U) <= Cardinality(S) /\ Cardinality(U) # Cardinality(S) BY ONLY <3>1, FS_Subset, IsFiniteSet(S)
        <3>3. QED BY <3>2 DEF U
    <2>4. QED BY <1>1, <1>4, <2>3
<1>6. \A n \in 0 .. Cardinality(S) - 1 : \E c \in S : count(c) = n
    <2> DEFINE N == 0 .. Cardinality(S) - 1
               f == [c \in S |-> count(c)]
    <2>1. IsFiniteSet(N) /\ Cardinality(N) = Cardinality(S)
        BY <1>4, FS_Interval
    <2>2. f \in Injection(S, N)
        <3>1. f \in [S -> N] BY <1>5
        <3>2. \A c, d \in S : f[c] = f[d] => c = d
            <4> SUFFICES ASSUME NEW c \in S, NEW d \in S, count(c) = count(d) PROVE c = d OBVIOUS
            <4>1. <<c, d>> \notin rel /\ <<d, c>> \notin rel BY <1>1, <1>2
            <4>2. QED BY <4>1 DEF StrictOn
        <3>3. QED BY <3>1, <3>2 DEF Injection, IsInjective
    <2> DEFINE I == {f[c] : c \in S}
    <2>3. f \in Bijection(S, I)
        BY <2>2 DEF Injection, IsInjective, Bijection, Surjection
    <2>4. IsFiniteSet(I) /\ Cardinality(I) = Cardinality(S)
        BY <2>3, FS_Bijection DEF ExistsBijection
    <2>5. I \in SUBSET N BY <2>2 DEF Injection
    <2>6. I = N BY <2>1, <2>4, <2>5, FS_Subset
    <2>7. QED BY <2>6
<1> HIDE DEF count
<1>7. QED BY <1>3, <1>5, <1>6 DEF count

\* So that a set is listed by what each of its members has before it.
LEMMA CountedOut ==
    ASSUME NEW S, IsFiniteSet(S), NEW rel, StrictOn(S, rel), NEW s,
           s = [n \in 1 .. Cardinality(S) |->
                  CHOOSE c \in S : Cardinality(Under(S, rel, c)) = n - 1]
    PROVE  Lists(s, S) /\ \A c, d \in S : Ahead(s, c, d) <=> <<c, d>> \in rel
<1> DEFINE count(c) == Cardinality(Under(S, rel, c))
<1>0. Cardinality(S) \in Nat BY FS_CardinalityType
<1>1. /\ \A c, d \in S : <<c, d>> \in rel <=> count(c) < count(d)
      /\ \A c \in S : count(c) \in 0 .. Cardinality(S) - 1
      /\ \A n \in 0 .. Cardinality(S) - 1 : \E c \in S : count(c) = n
    BY EachCounts
<1>2. s = [n \in 1 .. Cardinality(S) |-> CHOOSE c \in S : count(c) = n - 1] OBVIOUS
<1> HIDE DEF count
<1>3. ASSUME NEW n \in 1 .. Cardinality(S) PROVE s[n] \in S /\ count(s[n]) = n - 1
    <2>1. \E c \in S : count(c) = n - 1 BY <1>0, <1>1
    <2>2. QED BY <1>2, <2>1
<1>4. DOMAIN s = 1 .. Cardinality(S) /\ s \in Seq(S)
    <2>1. DOMAIN s = 1 .. Cardinality(S) BY <1>2
    <2>2. s = [n \in 1 .. Cardinality(S) |-> s[n]] BY <1>2
    <2>3. QED BY ONLY <1>0, <1>3, <2>1, <2>2
<1>5. ASSUME NEW c \in S, NEW d \in S, c # d PROVE count(c) # count(d)
    BY <1>1, <1>5 DEF StrictOn
<1>6. ASSUME NEW c \in S
      PROVE  count(c) + 1 \in DOMAIN s /\ s[count(c) + 1] = c
    <2>1. count(c) + 1 \in 1 .. Cardinality(S) BY <1>0, <1>1
    <2>2. count(s[count(c) + 1]) = count(c) /\ s[count(c) + 1] \in S BY <1>1, <1>3, <2>1
    <2>3. QED BY <1>4, <1>5, <2>1, <2>2
<1>7. ASSUME NEW i \in DOMAIN s, NEW j \in DOMAIN s, s[i] = s[j] PROVE i = j
    <2>1. i \in 1 .. Cardinality(S) /\ j \in 1 .. Cardinality(S) BY <1>4
    <2>2. i - 1 = j - 1 BY <1>3, <1>7, <2>1
    <2>3. QED BY <1>0, <2>1, <2>2
<1>8. ASSUME NEW c \in S, NEW d \in S PROVE Ahead(s, c, d) <=> <<c, d>> \in rel
    <2> DEFINE i == count(c) + 1
               j == count(d) + 1
    <2>1. i \in DOMAIN s /\ s[i] = c /\ j \in DOMAIN s /\ s[j] = d BY <1>6
    <2>2. i < j <=> count(c) < count(d) BY <1>0, <1>1
    <2> HIDE DEF i, j
    <2>3. Ahead(s, c, d) <=> i < j BY <1>7, <2>1 DEF Ahead
    <2>4. QED BY <1>1, <2>2, <2>3
<1>9. QED BY <1>4, <1>6, <1>7, <1>8 DEF Lists

\* A list orders its members.
LEMMA ListOrders ==
    ASSUME NEW s, NEW S, Lists(s, S)
    PROVE  /\ \A c \in S : ~Ahead(s, c, c)
           /\ \A c, d \in S : c # d => (Ahead(s, c, d) <=> ~Ahead(s, d, c))
           /\ \A b, c, d \in S : Ahead(s, b, c) /\ Ahead(s, c, d) => Ahead(s, b, d)
<1>1. DOMAIN s \subseteq Nat BY DEF Lists
<1>2. \A i, j \in DOMAIN s : s[i] = s[j] => i = j BY DEF Lists
<1>3. \A c \in S : \E i \in DOMAIN s : s[i] = c BY DEF Lists
<1>4. ASSUME NEW c \in S, NEW d \in S, c # d PROVE Ahead(s, c, d) <=> ~Ahead(s, d, c)
    <2>1. PICK i \in DOMAIN s, j \in DOMAIN s : s[i] = c /\ s[j] = d BY <1>3
    <2>2. Ahead(s, c, d) <=> i < j BY <1>2, <2>1 DEF Ahead
    <2>3. Ahead(s, d, c) <=> j < i BY <1>2, <2>1 DEF Ahead
    <2>4. i # j BY <1>4, <2>1
    <2>5. QED BY <1>1, <2>2, <2>3, <2>4
<1>5. \A c \in S : ~Ahead(s, c, c) BY <1>1, <1>2 DEF Ahead
<1>6. ASSUME NEW b \in S, NEW c \in S, NEW d \in S, Ahead(s, b, c), Ahead(s, c, d)
      PROVE  Ahead(s, b, d)
    <2>1. PICK i \in DOMAIN s, j \in DOMAIN s : i < j /\ s[i] = b /\ s[j] = c BY <1>6 DEF Ahead
    <2>2. PICK k \in DOMAIN s, l \in DOMAIN s : k < l /\ s[k] = c /\ s[l] = d BY <1>6 DEF Ahead
    <2>3. i < l BY <1>1, <1>2, <2>1, <2>2
    <2>4. QED BY <2>1, <2>2, <2>3 DEF Ahead
<1>7. QED BY <1>4, <1>5, <1>6

\* What is taken from a list keeps its order.
LEMMA OnlyIs ==
    ASSUME NEW S, IsFiniteSet(S), NEW s, Lists(s, S), NEW T
    PROVE  /\ Lists(Only(s, T), S \cap T)
           /\ \A c, d \in S \cap T : Ahead(Only(s, T), c, d) <=> Ahead(s, c, d)
<1> DEFINE P == Places(s, T)
           rel == {p \in P \X P : p[1] < p[2]}
           q == [n \in 1 .. Cardinality(P) |->
                   CHOOSE i \in P : Cardinality(Under(P, rel, i)) = n - 1]
           t == Only(s, T)
<1>1. Len(s) \in Nat /\ DOMAIN s = 1 .. Len(s) BY DEF Lists
<1>2. P \in SUBSET (1 .. Len(s)) BY <1>1 DEF Places
<1>3. IsFiniteSet(P)
    <2>1. IsFiniteSet(1 .. Len(s)) BY <1>1, FS_Interval
    <2> HIDE DEF P
    <2>2. QED BY <1>2, <2>1, FS_Subset
<1>4. \A i, j \in P : <<i, j>> \in rel <=> i < j OBVIOUS
<1>5. StrictOn(P, rel)
    <2>1. P \subseteq Int BY <1>1, <1>2
    <2> HIDE DEF P, rel
    <2>2. QED BY <1>4, <2>1 DEF StrictOn
<1>6. \A i \in P : Under(P, rel, i) = {j \in P : j < i} BY <1>4 DEF Under
<1>7. t = [n \in 1 .. Cardinality(P) |-> s[q[n]]]
    <2> DEFINE X(n) == CHOOSE i \in P : Cardinality({j \in P : j < i}) = n - 1
    <2>1. \A n \in 1 .. Cardinality(P) : q[n] = X(n)
        <3>1. \A n : (CHOOSE i \in P : Cardinality(Under(P, rel, i)) = n - 1) = X(n)
            <4> HIDE DEF P, rel
            <4>1. QED BY <1>6
        <3>2. QED BY <3>1
    <2>2. t = [n \in 1 .. Cardinality(P) |-> s[X(n)]] BY DEF Only
    <2> HIDE DEF q, P, t, X
    <2>3. QED BY ONLY <2>1, <2>2
<1> HIDE DEF q
<1>8. Lists(q, P) /\ \A i, j \in P : Ahead(q, i, j) <=> <<i, j>> \in rel
    <2>1. q = [n \in 1 .. Cardinality(P) |->
                 CHOOSE i \in P : Cardinality(Under(P, rel, i)) = n - 1] BY DEF q
    <2> HIDE DEF P, rel
    <2>2. QED BY ONLY <1>3, <1>5, <2>1, CountedOut
<1>9. DOMAIN q = 1 .. Cardinality(P) BY DEF q
<1>10. Cardinality(P) \in Nat BY <1>3, FS_CardinalityType
<1>11. \A i \in DOMAIN s : i \in P <=> s[i] \in T BY DEF Places
<1>12. P \subseteq DOMAIN s BY DEF Places
<1> HIDE DEF P, rel, t
<1>13. \A n \in DOMAIN q : q[n] \in P BY <1>8 DEF Lists
<1>14. DOMAIN t = DOMAIN q /\ \A n \in DOMAIN t : t[n] = s[q[n]] BY <1>7, <1>9
<1>15. \A i \in DOMAIN s : s[i] \in S BY DEF Lists
<1>16. \A n \in DOMAIN t : t[n] \in S \cap T BY <1>11, <1>12, <1>13, <1>14, <1>15
<1>17. t \in Seq(S \cap T)
    <2>1. t = [n \in 1 .. Cardinality(P) |-> t[n]] BY <1>7
    <2>2. QED BY <1>9, <1>10, <1>14, <1>16, <2>1
<1>18. ASSUME NEW c \in S \cap T
       PROVE  \E n \in DOMAIN t : t[n] = c /\ s[q[n]] = c /\ q[n] \in P
    <2>1. PICK i \in DOMAIN s : s[i] = c BY DEF Lists
    <2>2. i \in P BY <1>11, <2>1
    <2>3. PICK n \in DOMAIN q : q[n] = i BY <1>8, <2>2 DEF Lists
    <2>4. QED BY <1>14, <2>1, <2>2, <2>3
<1>19. \A i, j \in DOMAIN t : t[i] = t[j] => i = j
    BY <1>8, <1>12, <1>13, <1>14 DEF Lists
<1>20. ASSUME NEW c \in S \cap T, NEW d \in S \cap T PROVE Ahead(t, c, d) <=> Ahead(s, c, d)
    <2>1. PICK m \in DOMAIN t : t[m] = c /\ s[q[m]] = c /\ q[m] \in P BY <1>18
    <2>2. PICK n \in DOMAIN t : t[n] = d /\ s[q[n]] = d /\ q[n] \in P BY <1>18
    <2>3. Ahead(t, c, d) <=> m < n BY <1>19, <2>1, <2>2 DEF Ahead
    <2>4. Ahead(q, q[m], q[n]) <=> m < n BY <1>8, <1>14, <2>1, <2>2 DEF Ahead, Lists
    <2>5. Ahead(s, c, d) <=> q[m] < q[n] BY <1>12, <2>1, <2>2 DEF Ahead, Lists
    <2>6. QED BY <1>4, <1>8, <2>1, <2>2, <2>3, <2>4, <2>5
<1>21. QED BY <1>17, <1>18, <1>19, <1>20 DEF Lists, t

\* One list after another.
LEMMA JoinedIs ==
    ASSUME NEW S, NEW T, S \cap T = {}, NEW s, Lists(s, S), NEW t, Lists(t, T)
    PROVE  /\ Lists(s \o t, S \cup T)
           /\ \A c, d \in S : Ahead(s \o t, c, d) <=> Ahead(s, c, d)
           /\ \A c, d \in T : Ahead(s \o t, c, d) <=> Ahead(t, c, d)
           /\ \A c \in S, d \in T : Ahead(s \o t, c, d) /\ ~Ahead(s \o t, d, c)
<1> DEFINE u == s \o t
           k == Len(s)
<1>1. /\ k \in Nat /\ Len(t) \in Nat /\ DOMAIN s = 1 .. k /\ DOMAIN t = 1 .. Len(t)
      /\ DOMAIN u = 1 .. k + Len(t)
      /\ \A i \in DOMAIN s : i \in DOMAIN u /\ u[i] = s[i] /\ s[i] \in S
      /\ \A i \in DOMAIN t : i + k \in DOMAIN u /\ u[i + k] = t[i] /\ t[i] \in T
      /\ u \in Seq(S \cup T)
    BY DEF Lists
<1> HIDE DEF u, k
<1>2. \A i \in DOMAIN u : i \in DOMAIN s \/ (i - k \in DOMAIN t /\ u[i] = t[i - k]) BY <1>1
<1>3. \A i \in DOMAIN u : u[i] \in S => i \in DOMAIN s /\ u[i] = s[i] BY <1>1, <1>2
<1>4. \A i \in DOMAIN u : u[i] \in T => i - k \in DOMAIN t /\ u[i] = t[i - k] /\ i > k BY <1>1, <1>2
<1>5. ASSUME NEW i \in DOMAIN u, NEW j \in DOMAIN u, u[i] = u[j] PROVE i = j
    <2>1. CASE u[i] \in S BY <1>3, <1>5, <2>1 DEF Lists
    <2>2. CASE u[i] \in T
        <3>1. i - k = j - k BY <1>4, <1>5, <2>2 DEF Lists
        <3>2. QED BY <1>1, <3>1
    <2>3. QED BY <1>1, <2>1, <2>2
<1>6. ASSUME NEW c \in S \cup T PROVE \E i \in DOMAIN u : u[i] = c
    <2>1. CASE c \in S BY <1>1, <2>1 DEF Lists
    <2>2. CASE c \in T
        <3>1. PICK i \in DOMAIN t : t[i] = c BY <2>2 DEF Lists
        <3>2. QED BY <1>1, <3>1
    <2>3. QED BY <2>1, <2>2
<1>7. ASSUME NEW c \in S, NEW d \in S PROVE Ahead(u, c, d) <=> Ahead(s, c, d)
    BY <1>1, <1>3, <1>7 DEF Ahead
<1>8. ASSUME NEW c \in T, NEW d \in T PROVE Ahead(u, c, d) <=> Ahead(t, c, d)
    <2>1. ASSUME Ahead(u, c, d) PROVE Ahead(t, c, d)
        <3>1. PICK i \in DOMAIN u, j \in DOMAIN u : i < j /\ u[i] = c /\ u[j] = d BY <2>1 DEF Ahead
        <3>2. i - k \in DOMAIN t /\ j - k \in DOMAIN t /\ t[i - k] = c /\ t[j - k] = d /\ i - k < j - k
            BY <1>1, <1>4, <3>1
        <3>3. QED BY <3>2 DEF Ahead
    <2>2. ASSUME Ahead(t, c, d) PROVE Ahead(u, c, d)
        <3>1. PICK i \in DOMAIN t, j \in DOMAIN t : i < j /\ t[i] = c /\ t[j] = d BY <2>2 DEF Ahead
        <3>2. i + k \in DOMAIN u /\ j + k \in DOMAIN u /\ u[i + k] = c /\ u[j + k] = d /\ i + k < j + k
            BY <1>1, <3>1
        <3>3. QED BY <3>2 DEF Ahead
    <2>3. QED BY <2>1, <2>2
<1>9. ASSUME NEW c \in S, NEW d \in T PROVE Ahead(u, c, d) /\ ~Ahead(u, d, c)
    <2>1. PICK i \in DOMAIN u, j \in DOMAIN u : u[i] = c /\ u[j] = d BY <1>6
    <2>2. i <= k /\ k < j /\ i < j BY <1>1, <1>3, <1>4, <2>1
    <2>3. Ahead(u, c, d) BY <2>1, <2>2 DEF Ahead
    <2>4. ~Ahead(u, d, c)
        <3>1. \A m, n \in DOMAIN u : u[m] = d /\ u[n] = c => m = j /\ n = i BY <1>5, <2>1
        <3>2. ~(j < i) BY <1>1, <2>2
        <3>3. QED BY <3>1, <3>2 DEF Ahead
    <2>5. QED BY <2>3, <2>4
<1>10. Lists(u, S \cup T) BY <1>1, <1>5, <1>6 DEF Lists
<1>11. QED BY <1>7, <1>8, <1>9, <1>10 DEF u

\* Some rows first: the rest of the order stays.
LEMMA ForemostIs ==
    ASSUME NEW S, IsFiniteSet(S), NEW s, Lists(s, S), NEW T
    PROVE  /\ Lists(Foremost(s, T), S)
           /\ \A c, d \in S : Ahead(Foremost(s, T), c, d) <=>
                 IF c \in T <=> d \in T THEN Ahead(s, c, d) ELSE c \in T
<1> DEFINE A == S \cap T
           B == S \ T
<1>1. Range(s) = S BY DEF Lists, Range
<1>2. Lists(Only(s, T), A) /\ \A c, d \in A : Ahead(Only(s, T), c, d) <=> Ahead(s, c, d) BY OnlyIs
<1>3. S \cap (Range(s) \ T) = B BY <1>1
<1>4. Lists(Without(s, T), B) /\ \A c, d \in B : Ahead(Without(s, T), c, d) <=> Ahead(s, c, d)
    <2> DEFINE X == Range(s) \ T
    <2>1. Without(s, T) = Only(s, X) /\ S \cap X = B BY <1>3 DEF Without
    <2> HIDE DEF X, B
    <2>2. QED BY <2>1, OnlyIs
<1>5. A \cap B = {} /\ A \cup B = S OBVIOUS
<1>6. /\ Lists(Foremost(s, T), A \cup B)
      /\ \A c, d \in A : Ahead(Foremost(s, T), c, d) <=> Ahead(Only(s, T), c, d)
      /\ \A c, d \in B : Ahead(Foremost(s, T), c, d) <=> Ahead(Without(s, T), c, d)
      /\ \A c \in A, d \in B : Ahead(Foremost(s, T), c, d) /\ ~Ahead(Foremost(s, T), d, c)
    <2> HIDE DEF A, B
    <2>1. QED BY <1>2, <1>4, <1>5, JoinedIs DEF Foremost
<1>7. \A c \in S : (c \in T <=> c \in A) /\ (c \in A \/ c \in B) /\ ~(c \in A /\ c \in B) OBVIOUS
<1> HIDE DEF A, B
<1>8. QED BY <1>2, <1>4, <1>5, <1>6, <1>7

\* A list has as many rows as its set.
LEMMA ListSize ==
    ASSUME NEW S, IsFiniteSet(S), NEW s, Lists(s, S)
    PROVE  Range(s) = S /\ Len(s) = Cardinality(S)
<1>1. Len(s) \in Nat /\ DOMAIN s = 1 .. Len(s) BY DEF Lists
<1>2. Range(s) = S BY DEF Lists, Range
<1>3. s \in Bijection(1 .. Len(s), S)
    <2>1. s \in [1 .. Len(s) -> S] BY <1>1 DEF Lists
    <2>2. \A i, j \in 1 .. Len(s) : s[i] = s[j] => i = j BY <1>1 DEF Lists
    <2>3. \A c \in S : \E i \in 1 .. Len(s) : s[i] = c BY <1>1 DEF Lists
    <2>4. QED BY <2>1, <2>2, <2>3 DEF Bijection, Injection, IsInjective, Surjection
<1>4. IsFiniteSet(1 .. Len(s)) /\ Cardinality(1 .. Len(s)) = Len(s)
    <2> DEFINE n == Len(s)
    <2>1. n \in Nat BY <1>1
    <2> HIDE DEF n
    <2>2. IsFiniteSet(1 .. n) /\ Cardinality(1 .. n) = IF 1 > n THEN 0 ELSE n - 1 + 1
        BY <2>1, FS_Interval
    <2>3. Cardinality(1 .. n) = n BY <2>1, <2>2
    <2>4. QED BY <2>2, <2>3 DEF n
<1>5. QED BY <1>2, <1>3, <1>4, FS_Bijection DEF ExistsBijection

LEMMA LeastIs ==
    ASSUME NEW P \in SUBSET Nat, P # {}
    PROVE  Least(P) \in P /\ \A j \in P : Least(P) <= j
<1> DEFINE R == OpToRel(<, Nat)
<1>1. PICK i \in P : \A j \in P : ~(<<j, i>> \in R)
    <2> HIDE DEF R
    <2>1. IsWellFoundedOn(R, Nat) BY NatLessThanWellFounded DEF R
    <2>2. QED BY <2>1, WFMin
<1>2. \A j \in P : ~(j < i) BY <1>1 DEF OpToRel
<1>3. \A j \in P : i <= j BY <1>2
<1>4. QED BY <1>3 DEF Least

\* The rank keys are in a strict order.
IsKey(k) == DOMAIN k = 1 .. 7 /\ \A i \in 1 .. 7 : k[i] \in Int
LEMMA KeysOrdered ==
    /\ \A k : IsKey(k) => ~Before(k, k)
    /\ \A k, l : IsKey(k) /\ IsKey(l) /\ k[7] # l[7] => Before(k, l) \/ Before(l, k)
    /\ \A k, l, m : IsKey(k) /\ IsKey(l) /\ IsKey(m) /\ Before(k, l) /\ Before(l, m) => Before(k, m)
<1>1. \A k : IsKey(k) => DOMAIN k = 1 .. 7 /\ \A i \in 1 .. 7 : k[i] \in Int BY DEF IsKey
<1>2. \A k : IsKey(k) => ~Before(k, k) BY <1>1 DEF Before
<1>3. ASSUME NEW k, NEW l, IsKey(k), IsKey(l), k[7] # l[7] PROVE Before(k, l) \/ Before(l, k)
    <2> DEFINE D == {i \in 1 .. 7 : k[i] # l[i]}
    <2>1. 7 \in D BY <1>3
    <2>2. D \in SUBSET Nat OBVIOUS
    <2> DEFINE i == Least(D)
    <2>3. i \in D /\ \A j \in D : i <= j BY <2>1, <2>2, LeastIs
    <2>4. i \in 1 .. 7 /\ k[i] # l[i] BY <2>3
    <2>5. \A j \in 1 .. i - 1 : k[j] = l[j]
        <3> SUFFICES ASSUME NEW j \in 1 .. i - 1, k[j] # l[j] PROVE FALSE OBVIOUS
        <3>1. j \in D BY <2>4
        <3>2. QED BY <2>3, <2>4, <3>1
    <2> HIDE DEF i
    <2>6. k[i] < l[i] \/ l[i] < k[i] BY <1>1, <1>3, <2>4
    <2>7. QED BY <1>1, <1>3, <2>4, <2>5, <2>6 DEF Before
<1>4. ASSUME NEW k, NEW l, NEW m, IsKey(k), IsKey(l), IsKey(m), Before(k, l), Before(l, m)
      PROVE  Before(k, m)
    <2>1. PICK i \in 1 .. 7 : k[i] < l[i] /\ \A j \in 1 .. i - 1 : k[j] = l[j] BY <1>1, <1>4 DEF Before
    <2>2. PICK h \in 1 .. 7 : l[h] < m[h] /\ \A j \in 1 .. h - 1 : l[j] = m[j] BY <1>1, <1>4 DEF Before
    <2>3. CASE i <= h
        <3>1. k[i] < m[i]
            <4>1. l[i] = m[i] \/ l[i] < m[i] BY <2>2, <2>3
            <4>2. QED BY <1>1, <1>4, <2>1, <4>1
        <3>2. \A j \in 1 .. i - 1 : k[j] = m[j] BY <2>1, <2>2, <2>3
        <3>3. QED BY <1>1, <1>4, <3>1, <3>2 DEF Before
    <2>4. CASE h < i
        <3>1. k[h] < m[h]
            <4>1. k[h] = l[h] BY <2>1, <2>4
            <4>2. QED BY <1>1, <1>4, <2>2, <4>1
        <3>2. \A j \in 1 .. h - 1 : k[j] = m[j] BY <2>1, <2>2, <2>4
        <3>3. QED BY <1>1, <1>4, <3>1, <3>2 DEF Before
    <2>5. QED BY <2>3, <2>4
<1>5. QED BY <1>2, <1>3, <1>4

LEMMA SeptupleIs ==
    ASSUME NEW x1 \in Int, NEW x2 \in Int, NEW x3 \in Int, NEW x4 \in Int, NEW x5 \in Int,
           NEW x6 \in Int, NEW x7 \in Int, NEW k, k = <<x1, x2, x3, x4, x5, x6, x7>>
    PROVE  k[1] = x1 /\ k[2] = x2 /\ k[3] = x3 /\ k[4] = x4 /\ k[5] = x5 /\ k[6] = x6 /\ k[7] = x7
OBVIOUS

\* The key of a row; to be lifted only takes a credit row from the last place.
Key(c, lifted) == RankKey(c, c \in lifted)
LEMMA KeyIs ==
    ASSUME RankingAssumption, NEW c \in Listable, NEW lifted
    PROVE  /\ IsKey(Key(c, lifted))
           /\ Key(c, lifted)[7] = c.slot
           /\ Key(c, lifted)[1] = IF c.credit /\ c \notin lifted THEN 1 ELSE 0
           /\ \A i \in 2 .. 7 : Key(c, lifted)[i] = Key(c, {})[i]
<1> DEFINE h == IF c.headroom = None THEN 0 ELSE -c.headroom
           k1 == IF c.credit /\ c \notin lifted THEN 1 ELSE 0
           k2 == IF c.headroom = None THEN 0 ELSE 1
           k4 == IF c.scored THEN 0 ELSE 1
           k6 == IF c.as = "own" THEN 0 ELSE 1
           l1 == IF c.credit /\ c \notin {} THEN 1 ELSE 0
<1>1. h \in Int /\ k1 \in Int /\ k2 \in Int /\ k4 \in Int /\ c.merit \in Int /\ k6 \in Int
      /\ c.slot \in Int /\ l1 \in Int
    BY DEF RankingAssumption
<1>2. Key(c, lifted) = <<k1, k2, h, k4, c.merit, k6, c.slot>>
      /\ Key(c, {}) = <<l1, k2, h, k4, c.merit, k6, c.slot>> BY DEF RankKey, Key
<1>3. k1 = IF c.credit /\ c \notin lifted THEN 1 ELSE 0 OBVIOUS
<1> HIDE DEF h, k1, k2, k4, k6, l1
<1> DEFINE k == Key(c, lifted)
           l == Key(c, {})
<1>4. k = <<k1, k2, h, k4, c.merit, k6, c.slot>> /\ l = <<l1, k2, h, k4, c.merit, k6, c.slot>> BY <1>2
<1> HIDE DEF k, l
<1>5. IsKey(k) /\ k[1] = k1 /\ k[2] = k2 /\ k[3] = h /\ k[4] = k4 /\ k[5] = c.merit
      /\ k[6] = k6 /\ k[7] = c.slot
    <2>1. k = <<k1, k2, h, k4, c.merit, k6, c.slot>> BY <1>4
    <2>2. k[1] = k1 /\ k[2] = k2 /\ k[3] = h /\ k[4] = k4 /\ k[5] = c.merit /\ k[6] = k6 /\ k[7] = c.slot
        BY ONLY <1>1, <2>1, SeptupleIs
    <2>3. DOMAIN k = 1 .. 7 BY ONLY <2>1
    <2>4. \A i \in 1 .. 7 : i \in {1, 2, 3, 4, 5, 6, 7} OBVIOUS
    <2>5. QED BY ONLY <1>1, <2>2, <2>3, <2>4 DEF IsKey
<1>6. l[2] = k2 /\ l[3] = h /\ l[4] = k4 /\ l[5] = c.merit /\ l[6] = k6 /\ l[7] = c.slot
    <2>1. l = <<l1, k2, h, k4, c.merit, k6, c.slot>> BY <1>4
    <2>2. QED BY ONLY <1>1, <2>1, SeptupleIs
<1>7. \A i \in 2 .. 7 : k[i] = l[i]
    <2>1. \A i \in 2 .. 7 : i \in {2, 3, 4, 5, 6, 7} OBVIOUS
    <2>2. QED BY <1>5, <1>6, <2>1
<1>8. QED BY <1>3, <1>5, <1>7 DEF k, l

LEMMA SortedIs ==
    ASSUME RankingAssumption, NEW cands \in SUBSET Listable, NEW lifted
    PROVE  /\ Lists(Sorted(cands, lifted), cands)
           /\ \A c, d \in cands : Ahead(Sorted(cands, lifted), c, d) <=> Before(Key(c, lifted), Key(d, lifted))
<1> DEFINE rel == {p \in cands \X cands : Before(Key(p[1], lifted), Key(p[2], lifted))}
           t == Sorted(cands, lifted)
<1>1. IsFiniteSet(cands) BY FS_Subset DEF RankingAssumption
<1>2. \A c \in cands : IsKey(Key(c, lifted)) /\ Key(c, lifted)[7] = c.slot BY KeyIs
<1>3. \A c, d \in cands : <<c, d>> \in rel <=> Before(Key(c, lifted), Key(d, lifted)) OBVIOUS
<1>4. \A c \in cands : Under(cands, rel, c) = {d \in cands : Before(Key(d, lifted), Key(c, lifted))}
    BY <1>3 DEF Under
<1> HIDE DEF rel
<1>5. StrictOn(cands, rel)
    <2>1. \A c, d \in cands : c # d => Key(c, lifted)[7] # Key(d, lifted)[7]
        BY <1>2 DEF RankingAssumption
    <2>2. QED BY <1>2, <1>3, <2>1, KeysOrdered DEF StrictOn
<1>6. t = [n \in 1 .. Cardinality(cands) |->
              CHOOSE c \in cands : Cardinality(Under(cands, rel, c)) = n - 1]
    <2> DEFINE X(n) == CHOOSE c \in cands : Cardinality({d \in cands : Before(Key(d, lifted), Key(c, lifted))}) = n - 1
    <2>1. \A n : (CHOOSE c \in cands : Cardinality(Under(cands, rel, c)) = n - 1) = X(n) BY <1>4
    <2>2. t = [n \in 1 .. Cardinality(cands) |-> X(n)] BY DEF Sorted, Key
    <2> HIDE DEF X, t
    <2>3. QED BY ONLY <2>1, <2>2
<1> HIDE DEF t
<1>7. Lists(t, cands) /\ \A c, d \in cands : Ahead(t, c, d) <=> <<c, d>> \in rel
    BY ONLY <1>1, <1>5, <1>6, CountedOut
<1>8. QED BY <1>3, <1>7 DEF t

\* What stands above a place of a list.
LEMMA AboveIs ==
    ASSUME NEW S, NEW s, Lists(s, S), NEW seat \in DOMAIN s, NEW i \in DOMAIN s
    PROVE  s[i] \in Above(s, seat) <=> i < seat
<1>1. Len(s) \in Nat /\ DOMAIN s = 1 .. Len(s) /\ \A k, j \in DOMAIN s : s[k] = s[j] => k = j BY DEF Lists
<1>2. QED BY <1>1 DEF Above

\* The promoted rows' block.
LEMMA SeatedIs ==
    ASSUME NEW S, IsFiniteSet(S), NEW t, Lists(t, S), NEW L \in SUBSET S, NEW r, NEW v, v = Seated(t, L, r)
    PROVE  /\ Lists(v, S)
           /\ \A c, d \in S : (c \in L <=> d \in L) => (Ahead(v, c, d) <=> Ahead(t, c, d))
           /\ \A c \in L, d \in S \ L :
                 Ahead(t, c, d) \/ (~d.scope /\ d.pool \in Yielding(r)) => Ahead(v, c, d)
<1> DEFINE Y == Yields(t, L, r)
           P == Places(t, L)
           seat == Least(Y \cup P)
           X == Above(t, seat) \ L
           u == Foremost(t, L)
<1>1. /\ DOMAIN t \subseteq Nat /\ \A c \in S : \E i \in DOMAIN t : t[i] = c
      /\ \A i, j \in DOMAIN t : t[i] = t[j] => i = j
      /\ \A i \in DOMAIN t : t[i] \in S BY DEF Lists
<1>2. \A d \in S \ L : ~d.scope /\ d.pool \in Yielding(r) => \E i \in Y : t[i] = d
    BY <1>1 DEF Yields
<1>3. CASE L = {} \/ Y = {}
    <2>1. v = t BY <1>3 DEF Seated
    <2>2. QED BY <1>2, <1>3, <2>1
<1>4. CASE ~(L = {} \/ Y = {})
    <2>1. v = Foremost(u, X) BY <1>4 DEF Seated, Block
    <2>2. Y \cup P \in SUBSET (DOMAIN t) /\ Y \cup P # {} BY <1>4 DEF Yields, Places
    <2>3. seat \in DOMAIN t /\ \A j \in Y \cup P : seat <= j BY <1>1, <2>2, LeastIs
    <2>4. \A i \in DOMAIN t : t[i] \in X <=> i < seat /\ t[i] \notin L
        <3> HIDE DEF seat
        <3>1. QED BY <2>3, AboveIs
    <2>5. \A i \in DOMAIN t : t[i] \in L => seat <= i BY <2>3 DEF Places
    <2>6. \A i \in Y : seat <= i BY <2>3
    <2> HIDE DEF seat, X, Y
    <2>7. Lists(u, S) /\ \A c, d \in S : Ahead(u, c, d) <=>
                             IF c \in L <=> d \in L THEN Ahead(t, c, d) ELSE c \in L
        BY ForemostIs
    <2> HIDE DEF u
    <2>8. Lists(v, S) /\ \A c, d \in S : Ahead(v, c, d) <=>
                             IF c \in X <=> d \in X THEN Ahead(u, c, d) ELSE c \in X
        BY <2>1, <2>7, ForemostIs
    <2>9. \A c \in L : c \notin X
        BY <1>1, <2>4
    <2>10. ASSUME NEW c \in S, NEW d \in S, c \in L <=> d \in L PROVE Ahead(v, c, d) <=> Ahead(t, c, d)
        <3>1. CASE c \in X <=> d \in X BY <2>7, <2>8, <2>10, <3>1
        <3>2. CASE ~(c \in X <=> d \in X)
            <4>1. PICK i \in DOMAIN t, j \in DOMAIN t : t[i] = c /\ t[j] = d BY <1>1
            <4>2. c \notin L /\ d \notin L BY <2>9, <2>10, <3>2
            <4>3. (i < seat /\ ~(j < seat)) \/ (~(i < seat) /\ j < seat) BY <2>4, <3>2, <4>1, <4>2
            <4>4. c \in X <=> i < j BY <1>1, <2>3, <2>4, <4>1, <4>2, <4>3
            <4>5. Ahead(t, c, d) <=> i < j BY <1>1, <4>1 DEF Ahead
            <4>6. QED BY <2>8, <3>2, <4>4, <4>5
        <3>3. QED BY <3>1, <3>2
    <2>11. ASSUME NEW c \in L, NEW d \in S \ L,
                  Ahead(t, c, d) \/ (~d.scope /\ d.pool \in Yielding(r))
           PROVE  Ahead(v, c, d)
        <3>1. PICK j \in DOMAIN t : t[j] = d BY <1>1
        <3>2. seat <= j
            <4>1. CASE Ahead(t, c, d)
                <5>1. PICK i \in DOMAIN t : i < j /\ t[i] = c BY <1>1, <3>1, <4>1 DEF Ahead
                <5>2. QED BY <1>1, <2>3, <2>5, <5>1
            <4>2. CASE ~d.scope /\ d.pool \in Yielding(r)
                <5>1. j \in Y BY <1>1, <1>2, <3>1, <4>2 DEF Yields, Y
                <5>2. QED BY <2>6, <5>1
            <4>3. QED BY <2>11, <4>1, <4>2
        <3>3. d \notin X BY <1>1, <2>3, <2>4, <3>1, <3>2
        <3>4. QED BY <2>7, <2>8, <2>9, <3>3
    <2>12. QED BY <2>8, <2>10, <2>11
<1>5. QED BY <1>3, <1>4

\* The free rows ahead of the block.
LEMMA FreeAheadIs ==
    ASSUME NEW S, IsFiniteSet(S), NEW s, Lists(s, S), NEW L \in SUBSET S, NEW v, v = FreeAhead(s, L)
    PROVE  /\ Lists(v, S)
           /\ \A c, d \in S : ~d.scope /\ Ahead(s, c, d) => Ahead(v, c, d)
           /\ \A c \in L, d \in S : ~c.scope /\ d.scope => Ahead(v, d, c)
<1> DEFINE first == Least(Places(s, L))
           above == Above(s, first)
           X == {c \in Range(s) : c.scope} \ above
           u == Foremost(s, X)
<1>1. /\ DOMAIN s \subseteq Nat /\ \A c \in S : \E i \in DOMAIN s : s[i] = c
      /\ \A i, j \in DOMAIN s : s[i] = s[j] => i = j
      /\ \A i \in DOMAIN s : s[i] \in S BY DEF Lists
<1>2. CASE L = {} BY <1>2 DEF FreeAhead
<1>3. CASE L # {}
    <2>1. v = Foremost(u, above) BY <1>3 DEF FreeAhead
    <2>2. Places(s, L) \in SUBSET (DOMAIN s) /\ Places(s, L) # {} BY <1>1, <1>3 DEF Places
    <2>3. first \in DOMAIN s /\ \A i \in Places(s, L) : first <= i BY <1>1, <2>2, LeastIs
    <2>4. \A i \in DOMAIN s : s[i] \in L => first <= i BY <2>3 DEF Places
    <2> HIDE DEF first
    <2>5. \A i \in DOMAIN s : s[i] \in above <=> i < first BY <2>3, AboveIs
    <2>6. Range(s) = S BY ListSize
    <2>7. \A c \in S : c \in X <=> c.scope /\ c \notin above BY <2>6
    <2> HIDE DEF above, X
    <2>8. Lists(u, S) /\ \A c, d \in S : Ahead(u, c, d) <=>
                             IF c \in X <=> d \in X THEN Ahead(s, c, d) ELSE c \in X
        BY ForemostIs
    <2> HIDE DEF u
    <2>9. Lists(v, S) /\ \A c, d \in S : Ahead(v, c, d) <=>
                             IF c \in above <=> d \in above THEN Ahead(u, c, d) ELSE c \in above
        BY <2>1, <2>8, ForemostIs
    <2>10. ASSUME NEW c \in S, NEW d \in S, ~d.scope, Ahead(s, c, d) PROVE Ahead(v, c, d)
        <3>1. d \notin X BY <2>7, <2>10
        <3>2. Ahead(u, c, d) BY <2>8, <2>10, <3>1
        <3>3. d \in above => c \in above
            <4>1. PICK i \in DOMAIN s, j \in DOMAIN s : i < j /\ s[i] = c /\ s[j] = d BY <2>10 DEF Ahead
            <4>2. QED BY <1>1, <2>3, <2>5, <4>1
        <3>4. QED BY <2>9, <3>2, <3>3
    <2>11. ASSUME NEW c \in L, NEW d \in S, ~c.scope, d.scope PROVE Ahead(v, d, c)
        <3>1. c \in S /\ c \notin above BY <1>1, <2>3, <2>4, <2>5
        <3>2. d \notin above => d \in X BY <2>7, <2>11
        <3>3. c \notin X BY <2>7, <2>11, <3>1
        <3>4. QED BY <2>8, <2>9, <3>1, <3>2, <3>3
    <2>12. QED BY <2>9, <2>10, <2>11
<1>4. QED BY <1>2, <1>3

\* The exceptions of an area: no row of the grade passes one of a better grade,
\* and credit that is not promoted passes nothing.
LEMMA LiftedIs ==
    ASSUME NEW S, IsFiniteSet(S), NEW s, Lists(s, S), NEW exceptions, NEW models, NEW raised,
           NEW v, v = Lifted(s, exceptions, models, raised)
    PROVE  /\ Lists(v, S)
           /\ \A c, d \in S : d.as # "own" /\ Ahead(s, d, c) => Ahead(v, d, c)
           /\ \A c, d \in S : c.credit /\ c \notin raised /\ ~d.credit /\ Ahead(s, d, c) => Ahead(v, d, c)
<1> DEFINE above == {c \in Range(s) : \E i, j \in DOMAIN s : i <= j /\ s[i] = c /\ s[j].as # "own"}
           moving == {c \in Range(s) \ above : c.as = "own" /\
                         \E e \in exceptions : e.action = "prefer" /\ Applies(e, c, models)}
           credit == {c \in Range(s) \ above : c.credit /\ c \notin raised}
           plain == Range(s) \ credit
           t == Foremost(s, moving)
           u == Foremost(t, plain)
<1>1. v = Foremost(u, above) BY DEF Lifted
<1>2. Range(s) = S BY ListSize
<1>3. DOMAIN s \subseteq Nat /\ \A i, j \in DOMAIN s : s[i] = s[j] => i = j BY DEF Lists
<1>4. \A c \in S : c.as # "own" => c \in above
    <2> SUFFICES ASSUME NEW c \in S, c.as # "own" PROVE c \in above OBVIOUS
    <2>1. PICK i \in DOMAIN s : s[i] = c BY DEF Lists
    <2>2. i <= i BY <1>3
    <2>3. QED BY <1>2, <2>1, <2>2
<1>5. ASSUME NEW c \in above, NEW d \in S, Ahead(s, d, c) PROVE d \in above
    <2>1. PICK i \in DOMAIN s, j \in DOMAIN s : i <= j /\ s[i] = c /\ s[j].as # "own" OBVIOUS
    <2>2. PICK k \in DOMAIN s, l \in DOMAIN s : k < l /\ s[k] = d /\ s[l] = c BY <1>5 DEF Ahead
    <2>3. k <= j BY <1>3, <2>1, <2>2
    <2>4. QED BY <1>2, <2>1, <2>2, <2>3
<1>6. \A c \in S : /\ c \in above => c \notin moving /\ c \in plain
                   /\ c \notin above => (c \in plain <=> ~(c.credit /\ c \notin raised))
    BY <1>2
<1> HIDE DEF above, moving, credit, plain
<1>7. Lists(t, S) /\ \A c, d \in S : Ahead(t, c, d) <=>
                         IF c \in moving <=> d \in moving THEN Ahead(s, c, d) ELSE c \in moving
    BY ForemostIs
<1> HIDE DEF t
<1>8. Lists(u, S) /\ \A c, d \in S : Ahead(u, c, d) <=>
                         IF c \in plain <=> d \in plain THEN Ahead(t, c, d) ELSE c \in plain
    BY <1>7, ForemostIs
<1> HIDE DEF u
<1>9. Lists(v, S) /\ \A c, d \in S : Ahead(v, c, d) <=>
                         IF c \in above <=> d \in above THEN Ahead(u, c, d) ELSE c \in above
    BY <1>1, <1>8, ForemostIs
<1>10. \A c, d \in S : c \in above /\ d \in above => (Ahead(v, c, d) <=> Ahead(s, c, d))
    BY <1>6, <1>7, <1>8, <1>9
<1>11. ASSUME NEW c \in S, NEW d \in S, d.as # "own", Ahead(s, d, c) PROVE Ahead(v, d, c)
    <2>1. d \in above BY <1>4, <1>11
    <2>2. QED BY <1>9, <1>10, <1>11, <2>1
<1>12. ASSUME NEW c \in S, NEW d \in S, c.credit, c \notin raised, ~d.credit, Ahead(s, d, c)
       PROVE  Ahead(v, d, c)
    <2>1. CASE c \in above BY <1>5, <1>10, <1>12, <2>1
    <2>2. CASE c \notin above /\ d \in above BY <1>9, <2>2
    <2>3. CASE c \notin above /\ d \notin above
        <3>1. c \notin plain /\ d \in plain BY <1>6, <1>12, <2>3
        <3>2. QED BY <1>8, <1>9, <2>3, <3>1
    <2>4. QED BY <2>1, <2>2, <2>3
<1>13. QED BY <1>9, <1>11, <1>12

\* The first two of a list.
LEMMA FirstTwo ==
    ASSUME NEW S, NEW s, Lists(s, S), NEW a \in S, \A c \in S \ {a} : Ahead(s, a, c)
    PROVE  /\ s[1] = a
           /\ \A b \in S \ {a} : (\A c \in S \ {a, b} : Ahead(s, b, c)) => s[2] = b
<1>1. /\ Len(s) \in Nat /\ DOMAIN s = 1 .. Len(s) /\ \A i, j \in DOMAIN s : s[i] = s[j] => i = j
      /\ \A i \in DOMAIN s : s[i] \in S
      /\ \A c \in S : \E i \in DOMAIN s : s[i] = c
    BY DEF Lists
<1>2. PICK i \in DOMAIN s : s[i] = a BY DEF Lists
<1>3. i = 1
    <2> SUFFICES ASSUME i # 1 PROVE FALSE OBVIOUS
    <2>1. 1 \in DOMAIN s /\ s[1] # a /\ s[1] \in S BY <1>1, <1>2 DEF Lists
    <2>2. PICK k \in DOMAIN s, l \in DOMAIN s : k < l /\ s[k] = a /\ s[l] = s[1] BY <2>1 DEF Ahead
    <2>3. QED BY <1>1, <2>1, <2>2
<1>4. ASSUME NEW b \in S \ {a}, \A c \in S \ {a, b} : Ahead(s, b, c) PROVE s[2] = b
    <2>1. PICK j \in DOMAIN s : s[j] = b BY DEF Lists
    <2>2. j # 1 BY <1>2, <1>3, <2>1
    <2> SUFFICES ASSUME j # 2 PROVE FALSE BY <2>1
    <2>3. 2 \in DOMAIN s /\ s[2] # b /\ s[2] # a /\ s[2] \in S
        BY <1>1, <1>2, <1>3, <2>1, <2>2 DEF Lists
    <2>4. PICK k \in DOMAIN s, l \in DOMAIN s : k < l /\ s[k] = b /\ s[l] = s[2] BY <1>4, <2>3 DEF Ahead
    <2>5. k = j /\ l = 2 BY <1>1, <2>1, <2>3, <2>4
    <2>6. QED BY <1>1, <2>2, <2>4, <2>5
<1>5. QED BY <1>2, <1>3, <1>4

\* While the free pool is limited, a free row and then the best of the others.
LEMMA FreeFirstIs ==
    ASSUME NEW S, IsFiniteSet(S), NEW s, Lists(s, S), NEW v, v = FreeFirst(s)
    PROVE  /\ Lists(v, S)
           /\ ((\E c \in S : ~c.free) /\ (\E c \in S : c.free)) => v[1].free /\ ~v[2].free
           /\ \A c, d \in S : ~c.free /\ Ahead(s, d, c) /\ ~Ahead(v, d, c) => c = v[2] /\ d.free
<1> DEFINE free == {i \in DOMAIN s : s[i].free}
           paid == DOMAIN s \ free
           Head1(places) == {s[Least(p)] : p \in {places} \ {{}}}
           a == s[Least(free)]
           b == s[Least(paid)]
           B == Head1(paid)
           t == Foremost(s, B)
<1>1. /\ DOMAIN s \subseteq Nat /\ \A i, j \in DOMAIN s : s[i] = s[j] => i = j
      /\ \A i \in DOMAIN s : s[i] \in S
      /\ \A c \in S : \E i \in DOMAIN s : s[i] = c
    BY DEF Lists
<1>2. CASE free = {}
    <2>1. v = s BY <1>2 DEF FreeFirst
    <2>2. \A c \in S : ~c.free BY <1>1, <1>2
    <2>3. QED BY <2>1, <2>2
<1>3. CASE free # {}
    <2>1. v = Foremost(t, Head1(free)) BY <1>3 DEF FreeFirst
    <2>2. Head1(free) = {a} BY <1>3
    <2>3. B = IF paid = {} THEN {} ELSE {b} OBVIOUS
    <2>4. Least(free) \in free BY <1>1, <1>3, LeastIs
    <2>5. paid # {} => Least(paid) \in paid /\ \A j \in paid : Least(paid) <= j BY <1>1, LeastIs
    <2>6. a \in S /\ a.free BY <1>1, <2>4
    <2>7. paid # {} => b \in S /\ ~b.free BY <1>1, <2>5
    <2>8. \A c \in S : ~c.free => \E j \in paid : s[j] = c BY <1>1
    <2>9. paid # {} <=> \E c \in S : ~c.free BY <1>1, <2>7, <2>8
    <2>10. \A d \in S : paid # {} /\ Ahead(s, d, b) => d.free
        <3> SUFFICES ASSUME NEW d \in S, paid # {}, Ahead(s, d, b), ~d.free PROVE FALSE OBVIOUS
        <3>1. PICK i \in DOMAIN s, j \in DOMAIN s : i < j /\ s[i] = d /\ s[j] = b BY DEF Ahead
        <3>2. i \in paid /\ j = Least(paid) BY <1>1, <2>5, <3>1
        <3>3. QED BY <1>1, <2>5, <3>1, <3>2
    <2> HIDE DEF free, paid, a, b, B
    <2>11. Lists(t, S) /\ \A c, d \in S : Ahead(t, c, d) <=>
                              IF c \in B <=> d \in B THEN Ahead(s, c, d) ELSE c \in B
        BY ForemostIs
    <2> HIDE DEF t
    <2>12. Lists(v, S) /\ \A c, d \in S : Ahead(v, c, d) <=>
                              IF c \in {a} <=> d \in {a} THEN Ahead(t, c, d) ELSE c \in {a}
        BY <2>1, <2>2, <2>11, ForemostIs
    <2>13. \A c \in S \ {a} : Ahead(v, a, c) BY <2>6, <2>12
    <2>14. v[1] = a BY <2>6, <2>12, <2>13, FirstTwo
    <2>15. ASSUME paid # {} PROVE v[2] = b
        <3>1. b \in S \ {a} BY <2>6, <2>7, <2>15
        <3>2. \A c \in S \ {a, b} : Ahead(v, b, c) BY <2>3, <2>11, <2>12, <2>15, <3>1
        <3>3. QED BY <2>6, <2>12, <2>13, <3>1, <3>2, FirstTwo
    <2>16. ASSUME NEW c \in S, NEW d \in S, ~c.free, Ahead(s, d, c), ~Ahead(v, d, c)
           PROVE  c = v[2] /\ d.free
        <3>1. c # a /\ paid # {} BY <2>6, <2>9, <2>16
        <3>2. d # a BY <2>12, <2>16, <3>1
        <3>3. ~Ahead(t, d, c) BY <2>12, <2>16, <3>1, <3>2
        <3>4. c \in B BY <2>11, <2>16, <3>3
        <3>5. c = b BY <2>3, <3>1, <3>4
        <3>6. QED BY <2>10, <2>15, <2>16, <3>1, <3>5
    <2>17. QED BY <2>6, <2>7, <2>9, <2>12, <2>14, <2>15, <2>16
<1>4. QED BY <1>2, <1>3

\* A promoted row is a row of the grade; what is listed is what was gathered
\* and is not excluded; and the three steps keep what the one before arranged.
RankInv ==
    /\ gathered \subseteq Listable /\ promoted \subseteq gathered /\ dropped \subseteq gathered
    /\ stage \in {"start", "ranked", "adjusted", "done"}
    /\ stage = "start" => order = <<>>
    /\ stage # "start" => Lists(order, gathered \ dropped)
    /\ stage \in {"start", "ranked"} => dropped = {}
    /\ stage = "ranked" => order = ranked
    /\ stage # "done" => ~limited
    /\ PromotionHolds /\ AreaHolds /\ CreditLast /\ FallbackFirst

LEMMA InitRanks == ASSUME RankingInit PROVE RankInv
<1>1. \A c, d : ~Ahead(order, c, d) BY DEF RankingInit, Ahead
<1>2. QED BY <1>1 DEF RankingInit, RankInv, PromotionHolds, AreaHolds, CreditLast, FallbackFirst

\* Two rows in the order of their keys: lifted rows are no lower than they would
\* be, others stay, and credit that is not lifted is last.
LEMMA KeysLifted ==
    ASSUME RankingAssumption, NEW c \in Listable, NEW d \in Listable, NEW lifted
    PROVE  /\ d \notin lifted /\ Before(Key(c, {}), Key(d, {})) => Before(Key(c, lifted), Key(d, lifted))
           /\ c \notin lifted /\ d \notin lifted => Key(c, lifted) = Key(c, {}) /\ Key(d, lifted) = Key(d, {})
           /\ c.credit /\ c \notin lifted /\ ~d.credit => Before(Key(d, lifted), Key(c, lifted))
<1> DEFINE k == Key(c, lifted)
           l == Key(d, lifted)
           m == Key(c, {})
           n == Key(d, {})
<1>1. /\ IsKey(k) /\ IsKey(l) /\ IsKey(m) /\ IsKey(n)
      /\ \A i \in 2 .. 7 : k[i] = m[i] /\ l[i] = n[i]
    <2>1. \A i \in 2 .. 7 : k[i] = m[i] BY KeyIs
    <2>2. \A i \in 2 .. 7 : l[i] = n[i] BY KeyIs
    <2>3. QED BY <2>1, <2>2, KeyIs
<1>2. /\ k[1] = IF c.credit /\ c \notin lifted THEN 1 ELSE 0
      /\ l[1] = IF d.credit /\ d \notin lifted THEN 1 ELSE 0
      /\ m[1] = IF c.credit THEN 1 ELSE 0
    BY KeyIs
<1>3. c \notin lifted => k = m
    BY DEF Key
<1>4. d \notin lifted => l = n BY DEF Key
<1> HIDE DEF k, l, m, n
<1>5. DOMAIN k = 1 .. 7 /\ DOMAIN l = 1 .. 7 /\ DOMAIN m = 1 .. 7 BY <1>1 DEF IsKey
<1>6. ASSUME d \notin lifted, Before(m, n) PROVE Before(k, l)
    <2>1. PICK i \in 1 .. 7 : m[i] < n[i] /\ \A j \in 1 .. i - 1 : m[j] = n[j] BY <1>5, <1>6 DEF Before
    <2>2. l = n BY <1>4, <1>6
    <2>3. CASE c \notin lifted BY <1>3, <1>6, <2>2, <2>3
    <2>4. CASE c \in lifted /\ l[1] = 1
        <3>1. k[1] < l[1] BY <1>2, <2>4
        <3>2. \A j \in 1 .. 1 - 1 : k[j] = l[j] OBVIOUS
        <3>3. QED BY <1>5, <3>1, <3>2 DEF Before
    <2>5. CASE c \in lifted /\ l[1] # 1
        <3>1. l[1] = 0 /\ k[1] = 0 BY <1>2, <2>5
        <3>2. i # 1 BY <1>2, <2>1, <2>2, <3>1
        <3>3. m[1] = n[1] BY <2>1, <3>2
        <3>4. \A j \in 1 .. 7 : k[j] = m[j]
            <4>1. k[1] = m[1] BY <2>2, <3>1, <3>3
            <4>2. QED BY <1>1, <4>1
        <3>5. k[i] < l[i] /\ \A j \in 1 .. i - 1 : k[j] = l[j] BY <2>1, <2>2, <3>4
        <3>6. QED BY <1>5, <3>5 DEF Before
    <2>6. QED BY <2>3, <2>4, <2>5
<1>7. ASSUME c.credit, c \notin lifted, ~d.credit PROVE Before(l, k)
    <2>1. l[1] < k[1] BY <1>2, <1>7
    <2>2. \A j \in 1 .. 1 - 1 : l[j] = k[j] OBVIOUS
    <2>3. QED BY <1>5, <2>1, <2>2 DEF Before
<1>8. QED BY <1>3, <1>4, <1>6, <1>7 DEF k, l, m, n

LEMMA EvaluateKeeps == ASSUME RankInv, RankingAssumption, Evaluate PROVE RankInv'
<1>1. PICK r \in Paces, reps \in Evidence :
         /\ readings' = r /\ promoted' = Promoted(gathered, r, reps)
         /\ ranked' = FreeAhead(Seated(Sorted(gathered, Promoted(gathered, r, reps)),
                                       Promoted(gathered, r, reps), r), Promoted(gathered, r, reps))
    BY DEF Evaluate
<1>2. /\ order' = ranked' /\ stage' = "ranked" /\ stage = "start"
      /\ gathered' = gathered /\ dropped' = dropped /\ limited' = limited
    BY DEF Evaluate
<1>3. gathered \subseteq Listable /\ ~limited BY <1>2 DEF RankInv
<1>4. IsFiniteSet(gathered) BY <1>3, FS_Subset, RankingAssumption DEF RankingAssumption
<1> DEFINE L == promoted'
           plain == Sorted(gathered, {})
           t == Sorted(gathered, L)
           u == Seated(t, L, r)
           v == FreeAhead(u, L)
<1>5. L \in SUBSET gathered BY <1>1 DEF Promoted
<1>6. order' = v BY <1>1, <1>2
<1>7. dropped' = {} BY <1>2 DEF RankInv
<1>8. /\ Lists(plain, gathered)
      /\ \A c, d \in gathered : Ahead(plain, c, d) <=> Before(Key(c, {}), Key(d, {}))
    BY <1>3, SortedIs, RankingAssumption
<1>9. /\ Lists(t, gathered)
      /\ \A c, d \in gathered : Ahead(t, c, d) <=> Before(Key(c, L), Key(d, L))
    BY <1>3, SortedIs, RankingAssumption
<1>10. /\ \A c, d \in gathered : d \notin L /\ Ahead(plain, c, d) => Ahead(t, c, d)
       /\ \A c, d \in gathered \ L : Ahead(plain, c, d) <=> Ahead(t, c, d)
       /\ \A c, d \in gathered : c.credit /\ c \notin L /\ ~d.credit => Ahead(t, d, c)
    <2>1. \A c, d \in gathered : d \notin L /\ Ahead(plain, c, d) => Ahead(t, c, d)
        BY <1>3, <1>8, <1>9, KeysLifted, RankingAssumption
    <2>2. \A c, d \in gathered \ L : Ahead(plain, c, d) <=> Ahead(t, c, d)
        BY <1>3, <1>8, <1>9, KeysLifted, RankingAssumption
    <2>3. \A c, d \in gathered : c.credit /\ c \notin L /\ ~d.credit => Ahead(t, d, c)
        BY <1>3, <1>9, KeysLifted, RankingAssumption
    <2>4. QED BY <2>1, <2>2, <2>3
<1> HIDE DEF L, plain, t
<1>11. /\ Lists(u, gathered)
       /\ \A c, d \in gathered : (c \in L <=> d \in L) => (Ahead(u, c, d) <=> Ahead(t, c, d))
       /\ \A c \in L, d \in gathered \ L :
             Ahead(t, c, d) \/ (~d.scope /\ d.pool \in Yielding(r)) => Ahead(u, c, d)
    BY <1>4, <1>5, <1>9, SeatedIs
<1> HIDE DEF u
<1>12. /\ Lists(v, gathered)
       /\ \A c, d \in gathered : ~d.scope /\ Ahead(u, c, d) => Ahead(v, c, d)
       /\ \A c \in L, d \in gathered : ~c.scope /\ d.scope => Ahead(v, d, c)
    BY <1>4, <1>5, <1>11, FreeAheadIs
<1> HIDE DEF v
<1>13. \A c, d \in gathered : c # d => ~(Ahead(v, c, d) /\ Ahead(v, d, c))
    BY <1>12, ListOrders
<1>14. \A c \in gathered : ~Ahead(v, c, c) /\ ~Ahead(plain, c, c) BY <1>8, <1>12, ListOrders
<1>15. PromotionHolds'
    <2>1. ASSUME NEW c \in L, NEW d \in gathered \ L, ~d.scope
          PROVE  /\ d.pool \in Yielding(r) => Ahead(v, c, d)
                 /\ Ahead(plain, c, d) => Ahead(v, c, d)
        BY <1>5, <1>10, <1>11, <1>12, <2>1
    <2>2. ASSUME NEW c \in gathered \ L, NEW d \in gathered \ L, ~c.scope, ~d.scope,
                 Ahead(plain, c, d), Ahead(v, d, c)
          PROVE  FALSE
        <3>1. Ahead(v, c, d) BY <1>10, <1>11, <1>12, <2>2
        <3>2. c # d BY <1>14, <2>2
        <3>3. QED BY <1>13, <2>2, <3>1, <3>2
    <2>3. gathered' = gathered /\ promoted' = L /\ readings' = r /\ order' = v
          /\ plain = Sorted(gathered, {})
        BY <1>1, <1>2, <1>6 DEF L, plain
    <2>4. ~Reorders(plain, v, {c \in gathered \ L : ~c.scope}) BY <2>2 DEF Reorders
    <2>5. QED BY <1>12, <2>1, <2>3, <2>4 DEF PromotionHolds
<1>16. CreditLast'
    <2>1. ASSUME NEW c \in gathered, NEW d \in gathered, c.credit, c \notin L, ~d.credit, Ahead(v, c, d)
          PROVE  FALSE
        <3>1. Ahead(t, d, c) BY <1>10, <2>1
        <3>2. ~c.scope BY <1>3, <2>1, RankingAssumption DEF RankingAssumption
        <3>3. Ahead(u, d, c) BY <1>11, <2>1, <3>1
        <3>4. Ahead(v, d, c) BY <1>12, <3>2, <3>3
        <3>5. c # d BY <2>1
        <3>6. QED BY <1>13, <2>1, <3>4, <3>5
    <2>2. gathered' = gathered /\ promoted' = L /\ order' = v BY <1>2, <1>6 DEF L
    <2>3. QED BY <2>1, <2>2 DEF CreditLast
<1>17. AreaHolds' /\ FallbackFirst' BY <1>2 DEF AreaHolds, FallbackFirst
<1>18. Lists(order', gathered' \ dropped') /\ promoted' \subseteq gathered'
    BY <1>2, <1>5, <1>6, <1>7, <1>12 DEF L
<1>19. QED BY <1>2, <1>3, <1>7, <1>15, <1>16, <1>17, <1>18 DEF RankInv

LEMMA AreaExceptionsKeep == ASSUME RankInv, RankingAssumption, ApplyAreaExceptions PROVE RankInv'
<1>1. PICK exceptions \in Exceptions, models \in Models :
         /\ dropped' = Excluded(order, exceptions, models)
         /\ order' = Lifted(Without(order, dropped'), exceptions, models, promoted)
    BY DEF ApplyAreaExceptions
<1>2. /\ stage = "ranked" /\ stage' = "adjusted"
      /\ UNCHANGED <<gathered, readings, promoted, ranked, limited>>
    BY DEF ApplyAreaExceptions
<1>3. gathered \subseteq Listable /\ ~limited /\ dropped = {} /\ order = ranked
      /\ Lists(order, gathered)
    BY <1>2 DEF RankInv
<1>4. IsFiniteSet(gathered) BY <1>3, FS_Subset, RankingAssumption DEF RankingAssumption
<1> DEFINE left == gathered \ dropped'
           s == Without(order, dropped')
           v == Lifted(s, exceptions, models, promoted)
<1>5. Range(order) = gathered BY <1>3, <1>4, ListSize
<1>6. dropped' \subseteq gathered BY <1>1, <1>5 DEF Excluded
<1>7. Lists(s, left) /\ \A c, d \in left : Ahead(s, c, d) <=> Ahead(order, c, d)
    <2> DEFINE X == Range(order) \ dropped'
    <2>1. s = Only(order, X) /\ gathered \cap X = left BY <1>5 DEF Without
    <2> HIDE DEF X, s, left
    <2>2. QED BY <1>3, <1>4, <2>1, OnlyIs
<1>8. IsFiniteSet(left) BY <1>4, FS_Subset
<1>9. left \subseteq gathered /\ order' = v BY <1>1
<1> HIDE DEF s, left
<1>10. /\ Lists(v, left)
       /\ \A c, d \in left : d.as # "own" /\ Ahead(s, d, c) => Ahead(v, d, c)
       /\ \A c, d \in left : c.credit /\ c \notin promoted /\ ~d.credit /\ Ahead(s, d, c) => Ahead(v, d, c)
    BY <1>7, <1>8, LiftedIs
<1> HIDE DEF v
<1>11. /\ \A c, d \in left : c # d => ~(Ahead(v, c, d) /\ Ahead(v, d, c))
       /\ \A c \in left : ~Ahead(v, c, c)
    BY <1>10, ListOrders
<1>12. \A c, d \in gathered : c # d => Ahead(order, c, d) \/ Ahead(order, d, c) BY <1>3, ListOrders
<1>13. AreaHolds'
    <2>1. ASSUME NEW c \in left, NEW d \in left, c.as = "own", d.as # "own",
                 Ahead(ranked, d, c), Ahead(v, c, d)
          PROVE  FALSE
        BY <1>3, <1>7, <1>10, <1>11, <2>1
    <2>2. gathered' \ dropped' = left /\ ranked' = ranked BY <1>2 DEF left
    <2>3. QED BY <1>9, <2>1, <2>2 DEF AreaHolds
<1>14. \A c, d : Ahead(v, c, d) => c \in left /\ d \in left BY <1>10 DEF Ahead, Lists
<1>15. CreditLast'
    <2>1. ASSUME NEW c \in gathered, NEW d \in gathered, c.credit, c \notin promoted, ~d.credit, Ahead(v, c, d)
          PROVE  FALSE
        <3>1. c \in left /\ d \in left /\ c # d BY <1>14, <2>1
        <3>2. ~Ahead(order, c, d) BY <1>3, <2>1 DEF RankInv, CreditLast
        <3>3. Ahead(s, d, c) BY <1>7, <1>12, <3>1, <3>2
        <3>4. QED BY <1>10, <1>11, <2>1, <3>1, <3>3
    <2>2. QED BY <1>2, <1>9, <2>1 DEF CreditLast
<1>16. PromotionHolds' /\ FallbackFirst' BY <1>2 DEF PromotionHolds, FallbackFirst
<1>17. Lists(order', gathered' \ dropped') BY <1>2, <1>9, <1>10 DEF left
<1>18. promoted \subseteq gathered BY DEF RankInv
<1>19. QED BY <1>2, <1>3, <1>6, <1>13, <1>15, <1>16, <1>17, <1>18 DEF RankInv

LEMMA FallbackKeeps == ASSUME RankInv, RankingAssumption, PrioritizeFreeFallback PROVE RankInv'
<1> DEFINE left == gathered \ dropped
           v == FreeFirst(order)
<1>1. /\ stage = "adjusted" /\ stage' = "done"
      /\ order' = IF limited' THEN v ELSE order
      /\ UNCHANGED <<gathered, readings, promoted, ranked, dropped>>
    BY DEF PrioritizeFreeFallback
<1>2. gathered \subseteq Listable /\ Lists(order, left) /\ ~limited BY <1>1 DEF RankInv
<1>3. IsFiniteSet(left)
    BY <1>2, FS_Subset, RankingAssumption DEF RankingAssumption
<1> HIDE DEF left
<1>4. /\ Lists(v, left)
      /\ ((\E c \in left : ~c.free) /\ (\E c \in left : c.free)) => v[1].free /\ ~v[2].free
      /\ \A c, d \in left : ~c.free /\ Ahead(order, d, c) /\ ~Ahead(v, d, c) => c = v[2] /\ d.free
    BY <1>2, <1>3, FreeFirstIs
<1> HIDE DEF v
<1>5. Lists(order', left) BY <1>1, <1>2, <1>4
<1>6. Range(order') = left BY <1>3, <1>5, ListSize
<1>7. FallbackFirst'
    <2> SUFFICES ASSUME limited', NEW others, others = {c \in Range(order') : ~c.free},
                        others # {}, others # Range(order')
                 PROVE  order'[1].free /\ ~order'[2].free
        BY <1>1 DEF FallbackFirst
    <2>1. (\E c \in left : ~c.free) /\ (\E c \in left : c.free) BY <1>6
    <2>2. QED BY <1>1, <1>4, <2>1
<1>8. \A c, d : Ahead(order', c, d) => c \in left /\ d \in left BY <1>5 DEF Ahead, Lists
<1>9. /\ \A c, d \in left : c # d => Ahead(order, c, d) \/ Ahead(order, d, c)
      /\ \A c, d \in left : c # d => ~(Ahead(order', c, d) /\ Ahead(order', d, c))
      /\ \A c \in left : ~Ahead(order', c, c)
    BY <1>2, <1>5, ListOrders
<1>10. CreditLast'
    <2> SUFFICES ASSUME NEW c \in gathered, NEW d \in gathered, c.credit, c \notin promoted, ~d.credit,
                        Ahead(order', c, d)
                 PROVE  limited' /\ c = order'[2] /\ d.free
        BY <1>1 DEF CreditLast
    <2>1. c \in left /\ d \in left /\ c # d BY <1>8, <1>9
    <2>2. ~Ahead(order, c, d) BY <1>2 DEF RankInv, CreditLast
    <2>3. Ahead(order, d, c) /\ ~Ahead(order', d, c) BY <1>9, <2>1, <2>2
    <2>4. limited' /\ order' = v BY <1>1, <2>3
    <2>5. ~c.free BY <1>2, RankingAssumption DEF RankingAssumption
    <2>6. QED BY <1>4, <2>1, <2>3, <2>4, <2>5
<1>11. PromotionHolds' /\ AreaHolds' BY <1>1 DEF PromotionHolds, AreaHolds
<1>12. promoted \subseteq gathered /\ dropped \subseteq gathered BY DEF RankInv
<1>13. QED BY <1>1, <1>2, <1>5, <1>7, <1>10, <1>11, <1>12 DEF RankInv, left

\* Each step has a list of what was gathered and keeps what the step before
\* arranged.
THEOREM RankingInductive == RankingSpec => []RankInv
<1>1. RankInv /\ [RankingNext]_rankingVars => RankInv'
    <2> SUFFICES ASSUME RankInv, [RankingNext]_rankingVars PROVE RankInv' OBVIOUS
    <2>1. CASE Evaluate BY <2>1, EvaluateKeeps, RankingAssumption
    <2>2. CASE ApplyAreaExceptions BY <2>2, AreaExceptionsKeep, RankingAssumption
    <2>3. CASE PrioritizeFreeFallback BY <2>3, FallbackKeeps, RankingAssumption
    <2>4. CASE UNCHANGED rankingVars
        BY <2>4 DEF rankingVars, RankInv, PromotionHolds, AreaHolds, CreditLast, FallbackFirst
    <2>5. QED BY <2>1, <2>2, <2>3, <2>4 DEF RankingNext
<1>2. QED BY <1>1, InitRanks, PTL DEF RankingSpec

\* Promoted rows are above the rows of a yielding pool, below the free rows and
\* no lower than before; an exception lifts no row over one of a better grade;
\* credit that is not promoted comes after what is not credit; every row that
\* is not excluded is listed once; and while the free pool is limited the first
\* two rows are a free one and the best of the others (_evaluate,
\* _apply_area_exceptions, _prioritize_free_fallback).
THEOREM RankingHoldsThm == RankingSpec => []RankingHolds
<1>1. ASSUME RankInv PROVE RowsConserved
    <2> SUFFICES ASSUME stage # "start"
                 PROVE  Range(order) = gathered \ dropped /\ Len(order) = Cardinality(Range(order))
        BY DEF RowsConserved
    <2>1. Lists(order, gathered \ dropped) /\ gathered \subseteq Listable BY <1>1 DEF RankInv
    <2>2. IsFiniteSet(gathered \ dropped) BY <2>1, FS_Subset, RankingAssumption DEF RankingAssumption
    <2>3. QED BY <2>1, <2>2, ListSize
<1>2. RankInv => RankingHolds BY <1>1 DEF RankInv, RankingHolds
<1>3. QED BY <1>2, RankingInductive, PTL

------------------------------------------------------------------------------
(* The edits of config.toml (ConfigEdit).                                  *)
LeafTypes == Seq(STRING) \X Nat

\* Whoever edits is alone and has the file as it is, whose values are numbers.
ConfigInv ==
    /\ DOMAIN editor = Editors /\ Leaves(config) \subseteq LeafTypes
    /\ \A p \in Editors : editor[p].phase = "editing" =>
          /\ editor[p].lines = config
          /\ editor[p].request \in Requests /\ Admissible(editor[p].request)
    /\ \A p, q \in Editors : editor[p].phase = "editing" /\ editor[q].phase = "editing" => p = q

LEMMA PrefixIs ==
    ASSUME NEW s \in Seq(STRING), NEW t \in Seq(STRING)
    PROVE  IsPrefix(s, t) <=> Len(s) <= Len(t) /\ \A i \in 1 .. Len(s) : s[i] = t[i]
<1>1. CASE Len(s) <= Len(t)
    <2>1. SubSeq(s, 1, Len(s)) = s BY Z3
    <2>2. /\ SubSeq(t, 1, Len(s)) \in Seq(STRING) /\ Len(SubSeq(t, 1, Len(s))) = Len(s)
          /\ \A i \in 1 .. Len(s) : SubSeq(t, 1, Len(s))[i] = t[i]
        BY <1>1
    <2> DEFINE v == SubSeq(t, 1, Len(s))
    <2>3. IsPrefix(s, t) <=> s = v BY <1>1, <2>1 DEF IsPrefix
    <2> HIDE DEF v
    <2>4. v \in Seq(STRING) /\ Len(v) = Len(s) /\ \A i \in 1 .. Len(s) : v[i] = t[i] BY <2>2 DEF v
    <2>5. s = v => \A i \in 1 .. Len(s) : s[i] = t[i] BY <2>4
    <2>6. ASSUME \A i \in 1 .. Len(s) : s[i] = t[i] PROVE s = v
        <3>1. \A i \in 1 .. Len(s) : s[i] = v[i] BY <2>4, <2>6
        <3>2. QED BY <2>4, <3>1
    <2>7. QED BY <1>1, <2>3, <2>5, <2>6
<1>2. CASE ~(Len(s) <= Len(t)) BY <1>2 DEF IsPrefix
<1>3. QED BY <1>1, <1>2

LEMMA ThenIs ==
    ASSUME NEW s \in Seq(STRING), NEW t \in Seq(STRING)
    PROVE  /\ s \o t \in Seq(STRING) /\ Len(s \o t) = Len(s) + Len(t)
           /\ \A i \in 1 .. Len(s) : (s \o t)[i] = s[i]
           /\ \A i \in 1 .. Len(t) : (s \o t)[Len(s) + i] = t[i]
OBVIOUS

LEMMA FirstIs ==
    ASSUME NEW s \in Seq(STRING), NEW n \in Int, n <= Len(s)
    PROVE  /\ SubSeq(s, 1, n) \in Seq(STRING)
           /\ Len(SubSeq(s, 1, n)) = IF n <= 0 THEN 0 ELSE n
           /\ \A i \in 1 .. n : SubSeq(s, 1, n)[i] = s[i]
OBVIOUS

\* The path an operation's leaf is put at, and how it is told from others.
At(request, k, leaf) == request.base \o <<request.ops[k].key>> \o leaf[1]
GivenLeaves(request) ==
    UNION {{<<At(request, k, leaf), leaf[2]>> : leaf \in request.ops[k].leaves} :
             k \in DOMAIN request.ops}

LEMMA PathIs ==
    ASSUME NEW r, Told(r), NEW k \in DOMAIN r.ops, NEW leaf \in r.ops[k].leaves
    PROVE  /\ leaf[1] \in Seq(STRING) /\ leaf[2] \in Nat /\ leaf = <<leaf[1], leaf[2]>>
           /\ r.base \in Seq(STRING) /\ r.ops[k].key \in STRING
           /\ r.base \o <<r.ops[k].key>> \in Seq(STRING)
           /\ At(r, k, leaf) \in Seq(STRING)
           /\ Len(At(r, k, leaf)) = Len(r.base) + 1 + Len(leaf[1])
           /\ \A i \in 1 .. Len(r.base) : At(r, k, leaf)[i] = r.base[i]
           /\ At(r, k, leaf)[Len(r.base) + 1] = r.ops[k].key
           /\ \A i \in 1 .. Len(leaf[1]) : At(r, k, leaf)[Len(r.base) + 1 + i] = leaf[1][i]
<1>1. leaf \in Seq(STRING) \X Nat BY DEF Told
<1>2. r.base \in Seq(STRING) /\ r.ops[k].key \in STRING BY DEF Told
<1> DEFINE b == r.base \o <<r.ops[k].key>>
<1>3. /\ b \in Seq(STRING) /\ Len(b) = Len(r.base) + 1 /\ b[Len(r.base) + 1] = r.ops[k].key
      /\ \A i \in 1 .. Len(r.base) : b[i] = r.base[i]
    BY <1>2
<1>4. /\ b \o leaf[1] \in Seq(STRING) /\ Len(b \o leaf[1]) = Len(b) + Len(leaf[1])
      /\ \A i \in 1 .. Len(b) : (b \o leaf[1])[i] = b[i]
      /\ \A i \in 1 .. Len(leaf[1]) : (b \o leaf[1])[Len(b) + i] = leaf[1][i]
    <2> DEFINE q == leaf[1]
    <2>1. q \in Seq(STRING) BY <1>1
    <2> HIDE DEF b, q
    <2>2. /\ b \o q \in Seq(STRING) /\ Len(b \o q) = Len(b) + Len(q)
          /\ \A i \in 1 .. Len(b) : (b \o q)[i] = b[i]
          /\ \A i \in 1 .. Len(q) : (b \o q)[Len(b) + i] = q[i]
        BY <2>1, <1>3, ThenIs
    <2>3. QED BY <2>2 DEF q
<1>5. At(r, k, leaf) = b \o leaf[1] BY DEF At
<1>6. \A i \in 1 .. Len(r.base) : i \in 1 .. Len(b) BY <1>2, <1>3
<1>7. Len(r.base) + 1 \in 1 .. Len(b) BY <1>2, <1>3
<1> DEFINE a == b \o leaf[1]
<1> HIDE DEF b, a
<1>8. leaf[1] \in Seq(STRING) /\ leaf[2] \in Nat /\ leaf = <<leaf[1], leaf[2]>> BY <1>1
<1>9. a \in Seq(STRING) /\ Len(a) = Len(b) + Len(leaf[1]) BY <1>4 DEF a
<1>10. \A i \in 1 .. Len(b) : a[i] = b[i] BY <1>4 DEF a
<1>11. \A i \in 1 .. Len(leaf[1]) : a[Len(b) + i] = leaf[1][i] BY <1>4 DEF a
<1>12. Len(a) = Len(r.base) + 1 + Len(leaf[1]) BY <1>3, <1>9
<1>13. \A i \in 1 .. Len(r.base) : a[i] = r.base[i] BY <1>3, <1>6, <1>10
<1>14. a[Len(r.base) + 1] = r.ops[k].key BY <1>3, <1>7, <1>10
<1>15. At(r, k, leaf) = a BY <1>5 DEF a
<1>16. QED BY <1>2, <1>3, <1>8, <1>9, <1>11, <1>12, <1>13, <1>14, <1>15 DEF b

\* What a table is asked to be: its own leaves that are not given anew, and the
\* given ones.
LEMMA AskedIs ==
    ASSUME NEW r, r.verb # "clear", NEW leaves
    PROVE  Asked(r, leaves) =
             {leaf \in Within(r.base, leaves) :
                ~\E k \in DOMAIN r.ops : IsPrefix(r.base \o <<r.ops[k].key>>, leaf[1])}
             \cup GivenLeaves(r)
<1> DEFINE own == Within(r.base, leaves)
           replaced == {leaf \in own : \E k \in DOMAIN r.ops : IsPrefix(r.base \o <<r.ops[k].key>>, leaf[1])}
           given == UNION {{<<r.base \o <<r.ops[k].key>> \o leaf[1], leaf[2]>> : leaf \in r.ops[k].leaves} :
                             k \in DOMAIN r.ops}
<1>1. Asked(r, leaves) = (own \ replaced) \cup given BY Zenon DEF Asked
<1>2. given = GivenLeaves(r) BY Zenon DEF GivenLeaves, At
<1>3. own \ replaced = {leaf \in own : ~\E k \in DOMAIN r.ops : IsPrefix(r.base \o <<r.ops[k].key>>, leaf[1])}
    OBVIOUS
<1>4. QED BY <1>1, <1>2, <1>3

LEMMA AskedTyped ==
    ASSUME NEW r, Told(r), NEW leaves \in SUBSET LeafTypes
    PROVE  Asked(r, leaves) \subseteq LeafTypes
<1>1. CASE r.verb = "clear" BY <1>1 DEF Asked
<1>2. CASE r.verb # "clear"
    <2>1. Within(r.base, leaves) \subseteq LeafTypes BY DEF Within
    <2>2. GivenLeaves(r) \subseteq LeafTypes
        <3> SUFFICES ASSUME NEW k \in DOMAIN r.ops, NEW leaf \in r.ops[k].leaves
                     PROVE  <<At(r, k, leaf), leaf[2]>> \in LeafTypes
            BY DEF GivenLeaves
        <3> QED BY PathIs DEF LeafTypes
    <2>3. QED BY <1>2, <2>1, <2>2, AskedIs
<1>3. QED BY <1>1, <1>2

\* Under the path of an operation there is what it gives.
LEMMA OnlyGiven ==
    ASSUME NEW r, Told(r), r.verb # "clear", NEW k \in DOMAIN r.ops,
           NEW leaves \in SUBSET LeafTypes, NEW leaf \in Asked(r, leaves),
           Len(leaf[1]) > Len(r.base), leaf[1][Len(r.base) + 1] = r.ops[k].key
    PROVE  \E g \in r.ops[k].leaves : leaf = <<At(r, k, g), g[2]>>
<1>1. r.base \in Seq(STRING) /\ r.ops[k].key \in STRING BY DEF Told
<1>2. ASSUME leaf \in Within(r.base, leaves), ~IsPrefix(r.base \o <<r.ops[k].key>>, leaf[1])
      PROVE  FALSE
    <2>1. leaf[1] \in Seq(STRING) /\ IsPrefix(r.base, leaf[1]) BY <1>2 DEF Within, LeafTypes
    <2> DEFINE b == r.base \o <<r.ops[k].key>>
    <2>2. /\ b \in Seq(STRING) /\ Len(b) = Len(r.base) + 1 /\ b[Len(r.base) + 1] = r.ops[k].key
          /\ \A i \in 1 .. Len(r.base) : b[i] = r.base[i]
        BY <1>1
    <2>3. \A i \in 1 .. Len(r.base) : r.base[i] = leaf[1][i] BY <2>1, <1>1, PrefixIs
    <2>4. \A i \in 1 .. Len(b) : b[i] = leaf[1][i] BY <1>1, <2>2, <2>3
    <2>5. Len(b) <= Len(leaf[1]) BY <1>1, <2>1, <2>2
    <2> HIDE DEF b
    <2>6. IsPrefix(b, leaf[1]) BY <2>1, <2>2, <2>4, <2>5, PrefixIs
    <2>7. QED BY <2>6, <1>2 DEF b
<1>3. leaf \in GivenLeaves(r) BY <1>2, AskedIs
<1>4. PICK j \in DOMAIN r.ops : \E g \in r.ops[j].leaves : leaf = <<At(r, j, g), g[2]>>
    BY <1>3 DEF GivenLeaves
<1>5. PICK g \in r.ops[j].leaves : leaf = <<At(r, j, g), g[2]>> BY <1>4
<1>6. leaf[1] = At(r, j, g) BY <1>5
<1>7. r.ops[j].key = r.ops[k].key
    <2>1. At(r, j, g)[Len(r.base) + 1] = r.ops[j].key BY PathIs
    <2>2. QED BY <2>1, <1>6
<1>8. j = k BY <1>7 DEF Told
<1>9. QED BY <1>5, <1>8

LEMMA AllGiven ==
    ASSUME NEW r, r.verb # "clear", NEW k \in DOMAIN r.ops, NEW g \in r.ops[k].leaves, NEW leaves
    PROVE  <<At(r, k, g), g[2]>> \in Asked(r, leaves)
BY AskedIs DEF GivenLeaves

\* What the readers find under a key that was given.
LEMMA EntryIs ==
    ASSUME NEW r, Told(r), r.verb # "clear", NEW k \in DOMAIN r.ops,
           r.ops[k].key # "inflight_reserve_pct",
           NEW before, Leaves(before) \subseteq LeafTypes, NEW after,
           Within(r.base, Leaves(after)) = Asked(r, Leaves(before)),
           Leaves(after) \subseteq LeafTypes
    PROVE  LET n == Entry(after, r.base \o <<r.ops[k].key>>)
           IN /\ r.ops[k].leaves = {} => n = NoValue
              /\ r.ops[k].leaves # {} => n \in Values(r.ops[k]) /\ n \in Nat
              /\ r.ops[k].leaves = Said(n)
<1> DEFINE op == r.ops[k]
           path == r.base \o <<op.key>>
           found == {leaf[2] : leaf \in {l \in Leaves(after) : l[1] = path}}
<1>1. r.base \in Seq(STRING) /\ op.key \in STRING /\ op.leaves \in SUBSET (Seq(STRING) \X Nat)
    BY DEF Told
<1>2. /\ path \in Seq(STRING) /\ Len(path) = Len(r.base) + 1 /\ path[Len(r.base) + 1] = op.key
      /\ \A i \in 1 .. Len(r.base) : path[i] = r.base[i]
    BY <1>1
<1>3. IsPrefix(r.base, path)
    <2> HIDE DEF path
    <2>1. Len(r.base) <= Len(path) /\ \A i \in 1 .. Len(r.base) : r.base[i] = path[i] BY <1>1, <1>2
    <2>2. QED BY <1>1, <1>2, <2>1, PrefixIs
<1>4. One(op) \/ op.leaves = {} BY DEF Told, HandedOver
<1>5. ASSUME NEW l \in Leaves(after), l[1] = path
      PROVE  \E g \in op.leaves : l[2] = g[2]
    <2>1. l \in Asked(r, Leaves(before)) BY <1>5, <1>3 DEF Within
    <2>2. Len(l[1]) > Len(r.base) /\ l[1][Len(r.base) + 1] = op.key BY <1>1, <1>2, <1>5
    <2>3. Leaves(before) \in SUBSET LeafTypes OBVIOUS
    <2> HIDE DEF path
    <2>4. PICK g \in r.ops[k].leaves : l = <<At(r, k, g), g[2]>>
        BY <2>1, <2>2, <2>3, OnlyGiven DEF op
    <2>5. QED BY <2>4
<1>6. ASSUME NEW g \in op.leaves, g[1] = <<>> PROVE <<path, g[2]>> \in Leaves(after)
    <2>1. At(r, k, g) = path
        <3> HIDE DEF path
        <3>1. path \o <<>> = path BY <1>2
        <3>2. QED BY <3>1, <1>6 DEF At, path
    <2>2. <<path, g[2]>> \in Asked(r, Leaves(before)) BY <2>1, AllGiven
    <2>3. QED BY <2>2 DEF Within
<1>7. Entry(after, path) = IF found = {} THEN NoValue ELSE CHOOSE n \in found : TRUE BY DEF Entry
<1>8. CASE op.leaves = {}
    <2>1. found = {} BY <1>5, <1>8
    <2>2. Entry(after, path) = NoValue BY <2>1, <1>7
    <2>3. QED BY <2>2, <1>8 DEF Said
<1>9. CASE op.leaves # {}
    <2>1. PICK g \in op.leaves : op.leaves = {g} /\ g[1] = <<>> BY <1>4, <1>9 DEF One
    <2>2. g = <<<<>>, g[2]>> /\ g[2] \in Nat BY <2>1, <1>1
    <2>3. <<path, g[2]>> \in Leaves(after) BY <1>6, <2>1
    <2>4. found = {g[2]}
        <3>1. g[2] \in found
            <4> DEFINE l == <<path, g[2]>>
            <4>1. l[1] = path /\ l[2] = g[2] OBVIOUS
            <4>2. l \in Leaves(after) BY <2>3
            <4> HIDE DEF l, path
            <4>3. QED BY <4>1, <4>2
        <3>2. \A n \in found : n = g[2] BY <1>5, <2>1
        <3>3. QED BY <3>1, <3>2
    <2>5. Entry(after, path) = g[2] BY <1>7, <2>4
    <2>6. g[2] # NoValue BY <2>2 DEF NoValue
    <2>7. Said(g[2]) = {g} BY <2>2, <2>6 DEF Said
    <2>8. QED BY <2>1, <2>2, <2>5, <2>7, <1>9 DEF Values
<1>10. QED BY <1>8, <1>9

LEMMA EndsIs ==
    ASSUME NEW S, NEW b \in Seq(S), NEW key \in S
    PROVE  /\ b \o <<key>> \in Seq(S) /\ Len(b \o <<key>>) = Len(b) + 1
           /\ (b \o <<key>>)[Len(b) + 1] = key
           /\ \A i \in 1 .. Len(b) : (b \o <<key>>)[i] = b[i]
OBVIOUS

\* A table of two names is named by the second.
LEMMA NamedIs ==
    ASSUME NEW S, NEW b \in Seq(S), Len(b) = 2, NEW key \in S
    PROVE  b = <<b[1], Last(b)>> /\ b \o <<key>> = <<b[1], Last(b), key>>
<1> DEFINE u == b \o <<key>>
<1>1. Last(b) = b[2] BY DEF Last
<1>2. b = <<b[1], b[2]>> OBVIOUS
<1>3. u \in Seq(S) /\ Len(u) = 3 /\ u[1] = b[1] /\ u[2] = b[2] /\ u[3] = key
    <2>1. u \in Seq(S) BY EndsIs
    <2>2. Len(u) = Len(b) + 1 BY EndsIs
    <2>3. u[Len(b) + 1] = key BY EndsIs
    <2>4. \A i \in 1 .. Len(b) : u[i] = b[i] BY EndsIs
    <2> HIDE DEF u
    <2>5. QED BY <2>1, <2>2, <2>3, <2>4
<1>4. u = <<u[1], u[2], u[3]>>
    <2> HIDE DEF u
    <2>1. QED BY <1>3
<1>5. u = <<b[1], Last(b), key>> BY <1>1, <1>3, <1>4
<1>6. QED BY <1>1, <1>2, <1>5

LEMMA ReservesSeen ==
    ASSUME NEW r, Told(r), r.verb # "clear", NEW k \in DOMAIN r.ops,
           r.ops[k].key = "inflight_reserve_pct", Len(r.base) = 2, r.base[1] = "pools",
           NEW before, Leaves(before) \subseteq LeafTypes, NEW after,
           Within(r.base, Leaves(after)) = Asked(r, Leaves(before)),
           Leaves(after) \subseteq LeafTypes
    PROVE  Reserves(after, Last(r.base)) =
             IF Values(r.ops[k]) \subseteq {0} THEN {}
             ELSE {<<leaf[1][1], leaf[2]>> : leaf \in r.ops[k].leaves}
<1> DEFINE op == r.ops[k]
           path == r.base \o <<op.key>>
           said == {<<leaf[1][Len(leaf[1])], leaf[2]>> :
                      leaf \in {l \in Leaves(after) : Front(l[1]) = path /\ l[2] \in 0..100}}
           given == {<<leaf[1][1], leaf[2]>> : leaf \in op.leaves}
<1>1. r.base \in Seq(STRING) /\ op.key \in STRING /\ op.leaves \in SUBSET (Seq(STRING) \X Nat)
    BY DEF Told
<1>2. /\ path \in Seq(STRING) /\ Len(path) = 3 /\ path[3] = op.key
      /\ path[1] = r.base[1] /\ path[2] = r.base[2]
    <2>1. path = <<r.base[1], Last(r.base), op.key>> BY <1>1, NamedIs
    <2>2. r.base[1] \in STRING /\ Last(r.base) = r.base[2] /\ r.base[2] \in STRING BY <1>1 DEF Last
    <2> HIDE DEF op, path
    <2>3. QED BY <1>1, <2>1, <2>2
<1>3. path = <<"pools", Last(r.base), "inflight_reserve_pct">> BY <1>1, NamedIs
<1>4. \A g \in op.leaves : /\ Len(g[1]) = 1 /\ g[2] \in 0..100
                           /\ g[1] \in Seq(STRING) /\ g = <<g[1], g[2]>>
    <2>1. Values(op) \subseteq 0..100 /\ \A g \in op.leaves : Len(g[1]) = 1
        BY DEF Told, HandedOver
    <2>2. \A g \in op.leaves : g[2] \in Values(op) BY DEF Values
    <2>3. \A g \in op.leaves : g \in Seq(STRING) \X Nat BY <1>1
    <2> HIDE DEF op
    <2>4. QED BY <2>1, <2>2, <2>3
<1>5. Leaves(before) \in SUBSET LeafTypes OBVIOUS
<1> HIDE DEF path
<1>6. ASSUME NEW g \in op.leaves
      PROVE  LET l == <<At(r, k, g), g[2]>>
             IN /\ l \in Leaves(after) /\ Front(l[1]) = path /\ Len(l[1]) = 4
                /\ l[1][4] = g[1][1]
    <2>1. <<At(r, k, g), g[2]>> \in Leaves(after) BY AllGiven DEF Within
    <2>2. At(r, k, g) = path \o g[1] BY DEF At, path
    <2> DEFINE a == At(r, k, g)
               q == g[1]
    <2>3. q \in Seq(STRING) /\ Len(q) = 1 BY <1>4
    <2> HIDE DEF q, a
    <2>4. /\ path \o q \in Seq(STRING) /\ Len(path \o q) = 4 /\ (path \o q)[4] = q[1]
          /\ \A i \in 1 .. 3 : (path \o q)[i] = path[i]
        <3>1. /\ path \o q \in Seq(STRING) /\ Len(path \o q) = Len(path) + Len(q)
              /\ \A i \in 1 .. Len(path) : (path \o q)[i] = path[i]
              /\ \A i \in 1 .. Len(q) : (path \o q)[Len(path) + i] = q[i]
            BY <1>2, <2>3, ThenIs
        <3>2. 1 \in 1 .. Len(q) /\ Len(path) = 3 /\ Len(q) = 1 BY <1>2, <2>3
        <3>3. QED BY <3>1, <3>2
    <2>5. a \in Seq(STRING) /\ Len(a) = 4 /\ a[4] = q[1] /\ \A i \in 1 .. 3 : a[i] = path[i]
        BY <2>2, <2>4 DEF a, q
    <2>6. SubSeq(a, 1, 3) = path
        <3>1. /\ SubSeq(a, 1, 3) \in Seq(STRING) /\ Len(SubSeq(a, 1, 3)) = 3
              /\ \A i \in 1 .. 3 : SubSeq(a, 1, 3)[i] = a[i]
            <4>1. 3 \in Int /\ 3 <= Len(a) /\ ~(3 <= 0) BY <2>5
            <4>2. QED BY <2>5, <4>1, FirstIs
        <3>2. QED BY <3>1, <2>5, <1>2
    <2>7. Front(a) = path BY <2>5, <2>6 DEF Front
    <2>8. QED BY <2>1, <2>5, <2>7 DEF a, q
<1>7. ASSUME NEW l \in Leaves(after), Front(l[1]) = path
      PROVE  \E g \in op.leaves : l = <<At(r, k, g), g[2]>>
    <2> DEFINE a == l[1]
    <2>1. a \in Seq(STRING) BY DEF LeafTypes
    <2> HIDE DEF a
    <2>2. SubSeq(a, 1, Len(a) - 1) = path BY <1>7 DEF Front, a
    <2>3. Len(a) = 4 /\ \A i \in 1 .. 3 : a[i] = path[i]
        <3> DEFINE n == Len(a) - 1
        <3>1. n \in Int /\ n <= Len(a) /\ Len(a) \in Nat BY <2>1
        <3>2. /\ Len(SubSeq(a, 1, n)) = IF n <= 0 THEN 0 ELSE n
              /\ \A i \in 1 .. n : SubSeq(a, 1, n)[i] = a[i]
            <4> HIDE DEF n
            <4> QED BY <2>1, <3>1, FirstIs
        <3>3. n = 3
            <4>1. SubSeq(a, 1, n) = path BY <2>2
            <4> DEFINE w == SubSeq(a, 1, n)
            <4>2. w = path /\ Len(w) = IF n <= 0 THEN 0 ELSE n BY <3>2, <4>1
            <4>3. 3 = IF n <= 0 THEN 0 ELSE n BY <1>2, <4>2
            <4>4. n \in Int BY <3>1
            <4> HIDE DEF n
            <4>5. QED BY <4>3, <4>4
        <3>4. \A i \in 1 .. 3 : a[i] = path[i] BY <2>2, <3>2, <3>3
        <3>5. QED BY <3>1, <3>3, <3>4
    <2>4. Len(a) > Len(r.base) /\ a[Len(r.base) + 1] = op.key BY <1>2, <2>3
    <2>5. \A i \in 1 .. Len(r.base) : r.base[i] = a[i] BY <1>2, <2>3
    <2>6. IsPrefix(r.base, a) BY <1>1, <2>1, <2>4, <2>5, PrefixIs
    <2>7. l \in Asked(r, Leaves(before)) BY <2>6 DEF Within, a
    <2>8. QED BY <1>5, <2>4, <2>7, OnlyGiven DEF a
<1>8. said = given
    <2>1. ASSUME NEW x \in said PROVE x \in given
        <3>1. PICK l \in Leaves(after) : Front(l[1]) = path /\ x = <<l[1][Len(l[1])], l[2]>> BY <2>1
        <3>2. PICK g \in op.leaves : l = <<At(r, k, g), g[2]>> BY <1>7, <3>1
        <3>3. x = <<g[1][1], g[2]>> BY <1>6, <3>1, <3>2
        <3>4. QED BY <3>3
    <2>2. ASSUME NEW x \in given PROVE x \in said
        <3>1. PICK g \in op.leaves : x = <<g[1][1], g[2]>> BY <2>2
        <3> DEFINE l == <<At(r, k, g), g[2]>>
        <3>2. l \in Leaves(after) /\ Front(l[1]) = path /\ l[1][Len(l[1])] = g[1][1] BY <1>6
        <3>3. l[2] = g[2] /\ l[2] \in 0..100 BY <1>4
        <3> HIDE DEF l
        <3>4. QED BY <3>1, <3>2, <3>3
    <2>3. QED BY <2>1, <2>2
<1>9. (\E x \in given : x[2] > 0) <=> ~(Values(op) \subseteq {0})
    <2>1. (\E x \in given : x[2] > 0) <=> \E g \in op.leaves : g[2] > 0
        <3>1. \A g \in op.leaves : \E x \in given : x[2] = g[2]
            <4> TAKE g \in op.leaves
            <4>1. <<g[1][1], g[2]>> \in given OBVIOUS
            <4> HIDE DEF given
            <4>2. QED BY <4>1
        <3>2. \A x \in given : \E g \in op.leaves : x[2] = g[2]
            <4> TAKE x \in given
            <4>1. PICK g \in op.leaves : x = <<g[1][1], g[2]>> OBVIOUS
            <4>2. x[2] = g[2] BY <4>1
            <4> HIDE DEF given
            <4>3. QED BY <4>2
        <3> HIDE DEF given, op
        <3>3. QED BY <3>1, <3>2
    <2>2. Values(op) \subseteq {0} <=> \A g \in op.leaves : g[2] = 0 BY DEF Values
    <2> HIDE DEF op, given
    <2>3. \A g \in op.leaves : g[2] > 0 <=> g[2] # 0
        <3> TAKE g \in op.leaves
        <3>1. g[2] \in 0..100 BY <1>4
        <3>2. QED BY <3>1
    <2>4. QED BY <2>1, <2>2, <2>3
<1>10. Reserves(after, Last(r.base)) = IF \E x \in said : x[2] > 0 THEN said ELSE {}
    BY <1>3 DEF Reserves
<1>11. QED BY <1>8, <1>9, <1>10

LEMMA GivenSeen ==
    ASSUME NEW r, Told(r), Admissible(r), r.verb # "clear", NEW k \in DOMAIN r.ops,
           NEW before, Leaves(before) \subseteq LeafTypes, NEW after,
           Within(r.base, Leaves(after)) = Asked(r, Leaves(before)),
           Leaves(after) \subseteq LeafTypes
    PROVE  Seen(r, r.ops[k], after)
<1> DEFINE op == r.ops[k]
           name == Last(r.base)
<1>1. r.base \in Seq(STRING) /\ op.key \in STRING BY DEF Told
<1>2. r.base = <<"settings">> => op.key \notin PoolKeys BY DEF Told
<1>3. r.base # <<"settings">> => Len(r.base) = 2 BY DEF Told
<1>4. r.verb = "plain" /\ r.base # <<"settings">> => op.key = "subscribed" BY DEF Told
<1>5. r.base # <<"settings">> /\ r.verb # "plain" => r.base[1] = "pools" BY DEF Told
<1>6. r.base # <<"settings">> => r.base \o <<op.key>> = <<r.base[1], name, op.key>>
    BY <1>1, <1>3, NamedIs
<1> DEFINE n == Entry(after, r.base \o <<op.key>>)
<1>7. op.key # "inflight_reserve_pct" =>
        /\ op.leaves = {} => n = NoValue
        /\ op.leaves # {} => n \in Values(op) /\ n \in Nat
        /\ op.leaves = Said(n)
    BY EntryIs
<1>8. ASSUME op.key = "class", Current(after, name)
      PROVE  Said(EffectiveClass(after, name)) = op.leaves
    <2>1. n = Entry(after, <<"pools", name, "class">>)
        BY <1>2, <1>4, <1>5, <1>6, <1>8 DEF PoolKeys
    <2>2. n \in Classes
        <3>1. op.leaves # {} /\ Values(op) \subseteq Classes BY <1>8 DEF Told, HandedOver, One
        <3>2. QED BY <3>1, <1>7, <1>8
    <2>3. EffectiveClass(after, name) = n BY <2>1, <2>2, <1>8 DEF EffectiveClass
    <2>4. QED BY <2>3, <1>7, <1>8
<1>9. ASSUME op.key = "boost", Current(after, name)
      PROVE  Said(EffectiveBoost(after, name)) = op.leaves
    <2>1. n = Entry(after, <<"pools", name, "boost">>)
        BY <1>2, <1>4, <1>5, <1>6, <1>9 DEF PoolKeys
    <2>2. EffectiveBoost(after, name) = n BY <2>1, <1>9 DEF EffectiveBoost
    <2>3. QED BY <2>2, <1>7, <1>9
<1>10. ASSUME op.key = "subscribed"
       PROVE  Said(Subscription(after, r.base[1], name)) = op.leaves
    <2>1. n = Entry(after, <<r.base[1], name, "subscribed">>) BY <1>2, <1>6, <1>10 DEF PoolKeys
    <2>2. op.leaves # {} => n \in 0..1
        <3>1. Values(op) \subseteq 0..1 BY <1>10 DEF Told, HandedOver
        <3>2. QED BY <3>1, <1>7, <1>10
    <2>3. Subscription(after, r.base[1], name) = n
        <3>1. Subscription(after, r.base[1], name) = IF n \in 0..1 THEN n ELSE NoValue
            BY <2>1 DEF Subscription
        <3>2. QED BY <3>1, <2>2, <1>7, <1>10
    <2>4. QED BY <2>3, <1>7, <1>10
<1>11. ASSUME op.key = "inflight_reserve_pct"
       PROVE  Reserves(after, name) = IF Values(op) \subseteq {0} THEN {}
                                      ELSE {<<leaf[1][1], leaf[2]>> : leaf \in op.leaves}
    <2>1. Len(r.base) = 2 /\ r.base[1] = "pools" BY <1>2, <1>3, <1>4, <1>5, <1>11 DEF PoolKeys
    <2>2. QED BY <2>1, <1>11, ReservesSeen
<1>12. ASSUME r.base = <<"settings">> PROVE Said(Setting(after, op.key)) = op.leaves
    <2>1. op.key # "inflight_reserve_pct" BY <1>2, <1>12 DEF PoolKeys
    <2>2. r.base \o <<op.key>> = <<"settings", op.key>>
        <3> DEFINE b == r.base
                   u == b \o <<op.key>>
        <3>1. b \in Seq(STRING) /\ Len(b) = 1 /\ b[1] = "settings" BY <1>1, <1>12
        <3>2. u \in Seq(STRING) /\ Len(u) = Len(b) + 1 /\ u[Len(b) + 1] = op.key
            BY <1>1, EndsIs
        <3>3. \A i \in 1 .. Len(b) : u[i] = b[i] BY <1>1, EndsIs
        <3> DEFINE key == op.key
        <3> HIDE DEF u, key, b
        <3>4. u = <<u[1], u[2]>> BY <3>1, <3>2
        <3>5. u[1] = "settings" /\ u[2] = op.key BY <3>1, <3>2, <3>3
        <3>6. u = <<"settings", op.key>> BY <3>4, <3>5
        <3>7. QED BY <3>6 DEF u, b
    <2>3. op.leaves # {} => n > 0
        <3>1. \A leaf \in op.leaves : leaf[2] > 0 BY <1>12 DEF Admissible
        <3>2. QED BY <3>1, <2>1, <1>7 DEF Values
    <2>4. Setting(after, op.key) = IF n > 0 THEN n ELSE NoValue BY <2>2 DEF Setting
    <2>5. Setting(after, op.key) = n
        <3>1. n = NoValue => ~(n > 0) BY DEF NoValue
        <3>2. QED BY <2>1, <2>3, <2>4, <3>1, <1>7
    <2>6. QED BY <2>5, <2>1, <1>7
<1>13. QED BY <1>8, <1>9, <1>10, <1>11, <1>12 DEF Seen

LEMMA HasIs ==
    ASSUME NEW lines, Leaves(lines) \subseteq LeafTypes, NEW pool, NEW key
    PROVE  Has(lines, pool, key) <=> \E l \in Leaves(lines) : l[1] = <<"pools", pool, key>>
<1> DEFINE found == {leaf[2] : leaf \in {l \in Leaves(lines) : l[1] = <<"pools", pool, key>>}}
<1>1. Entry(lines, <<"pools", pool, key>>) = IF found = {} THEN NoValue ELSE CHOOSE n \in found : TRUE
    BY DEF Entry
<1>2. found \subseteq Nat BY DEF LeafTypes
<1>3. found # {} <=> \E l \in Leaves(lines) : l[1] = <<"pools", pool, key>> OBVIOUS
<1> HIDE DEF found
<1>4. found # {} => (CHOOSE n \in found : TRUE) \in Nat BY <1>2
<1>5. NoValue \notin Nat BY DEF NoValue
<1>6. QED BY <1>1, <1>3, <1>4, <1>5 DEF Has

\* Nothing begins that never expires.
LEMMA NoneEndless ==
    ASSUME NEW r, Told(r), Admissible(r),
           NEW before, Leaves(before) \subseteq LeafTypes, NEW after,
           Leaves(after) \subseteq LeafTypes,
           Within(r.base, Leaves(after)) = Asked(r, Leaves(before)),
           Leaves(after) \ Within(r.base, Leaves(after))
             = Leaves(before) \ Within(r.base, Leaves(before)),
           NEW pool, Endless(after, pool)
    PROVE  Has(before, pool, "class") \/ Has(before, pool, "boost")
<1>1. PICK key \in {"class", "boost"} : Has(after, pool, key) BY DEF Endless
<1>2. PICK l \in Leaves(after) : l[1] = <<"pools", pool, key>> BY <1>1, HasIs
<1>3. SUFFICES ASSUME l \notin Leaves(before) PROVE FALSE BY <1>1, <1>2, HasIs
<1>4. l \in Asked(r, Leaves(before)) BY <1>3
<1>5. r.verb # "clear" BY <1>4 DEF Asked
<1>6. l \in GivenLeaves(r) BY <1>3, <1>4, <1>5, AskedIs DEF Within
<1>0. PICK k \in DOMAIN r.ops : \E g \in r.ops[k].leaves : l = <<At(r, k, g), g[2]>>
    BY <1>6 DEF GivenLeaves
<1>7. PICK g \in r.ops[k].leaves : l = <<At(r, k, g), g[2]>> BY <1>0
<1> DEFINE a == At(r, k, g)
           b == r.base
<1>8. a = <<"pools", pool, key>> BY <1>2, <1>7
<1>9. /\ a \in Seq(STRING) /\ b \in Seq(STRING) /\ a[Len(b) + 1] = r.ops[k].key
      /\ \A i \in 1 .. Len(b) : a[i] = b[i]
    BY PathIs
<1>10. b # <<"settings">>
    <2>1. SUFFICES ASSUME b = <<"settings">> PROVE FALSE OBVIOUS
    <2>2. Len(b) = 1 /\ b[1] = "settings" BY <2>1
    <2>3. a[1] = b[1] BY <1>9, <2>2
    <2>4. QED BY <1>8, <2>2, <2>3
<1>11. Len(b) = 2 BY <1>10 DEF Told
<1>12. a[1] = b[1] /\ a[2] = b[2] /\ a[3] = r.ops[k].key BY <1>9, <1>11
<1>13. b[1] = "pools" /\ b[2] = pool /\ r.ops[k].key = key BY <1>8, <1>12
<1>14. r.verb = "policy" BY <1>1, <1>5, <1>10, <1>13 DEF Told
<1>15. Given(r, key) BY <1>7, <1>13 DEF Given
<1>16. Given(r, "until") BY <1>1, <1>14, <1>15 DEF Admissible
<1>17. PICK m \in DOMAIN r.ops : r.ops[m].key = "until" /\ r.ops[m].leaves # {} BY <1>16 DEF Given
<1>18. PICK h \in r.ops[m].leaves : h[1] = <<>> BY <1>17 DEF Told, HandedOver, One
<1>19. <<At(r, m, h), h[2]>> \in Leaves(after) BY <1>5, AllGiven DEF Within
<1>20. At(r, m, h) = <<"pools", pool, "until">>
    <2> DEFINE key2 == r.ops[m].key
               c == b \o <<key2>>
    <2>1. key2 \in STRING /\ key2 = "until" BY <1>17 DEF Told
    <2>2. c = <<b[1], Last(b), key2>> /\ Last(b) = b[2]
        <3> HIDE DEF key2
        <3>1. QED BY <1>9, <1>11, <2>1, NamedIs DEF Last
    <2>3. c \in Seq(STRING)
        <3> HIDE DEF key2
        <3>1. QED BY <1>9, <2>1, EndsIs
    <2>4. At(r, m, h) = c \o <<>> BY <1>18 DEF At
    <2>5. c = <<"pools", pool, "until">> BY <2>1, <2>2, <1>13
    <2> HIDE DEF c
    <2>6. c \o <<>> = c BY <2>3
    <2>7. QED BY <2>4, <2>5, <2>6
<1>21. Has(after, pool, "until") BY <1>19, <1>20, HasIs
<1>22. QED BY <1>21 DEF Endless

\* What passes the checks before the rename has the values that were asked for.
LEMMA AcceptedLands ==
    ASSUME NEW r, Told(r), Admissible(r), NEW before, Leaves(before) \subseteq LeafTypes,
           NEW copy, Accepts(r, before, copy)
    PROVE  Leaves(copy.lines) \subseteq LeafTypes /\ ValuesLand(r, before, copy.lines)
<1> DEFINE after == copy.lines
<1>1. /\ Within(r.base, Leaves(after)) = Asked(r, Leaves(before))
      /\ Leaves(after) \ Within(r.base, Leaves(after))
           = Leaves(before) \ Within(r.base, Leaves(before))
    BY DEF Accepts
<1>2. Asked(r, Leaves(before)) \subseteq LeafTypes BY AskedTyped
<1>3. Leaves(after) \subseteq LeafTypes BY <1>1, <1>2
<1> HIDE DEF after
<1>4. ASSUME NEW k \in DOMAIN r.ops PROVE Seen(r, r.ops[k], after)
    <2>1. CASE r.verb = "clear"
        <3>1. r.ops = <<>> BY <2>1 DEF Told
        <3>2. QED BY <3>1
    <2>2. CASE r.verb # "clear" BY <2>2, <1>1, <1>3, GivenSeen
    <2>3. QED BY <2>1, <2>2
<1>5. \A pool : Endless(after, pool) => Has(before, pool, "class") \/ Has(before, pool, "boost")
    BY <1>1, <1>3, NoneEndless
<1>6. ValuesLand(r, before, after) BY <1>1, <1>4, <1>5 DEF ValuesLand
<1>7. QED BY <1>3, <1>6 DEF after

LEMMA EditorMoves ==
    ASSUME ConfigInv, NEW p \in Editors, NEW e, editor' = [editor EXCEPT ![p] = e]
    PROVE  /\ DOMAIN editor' = Editors /\ editor'[p] = e
           /\ \A q \in Editors \ {p} : editor'[q] = editor[q]
BY DEF ConfigInv

LEMMA ConfigStep ==
    ASSUME ConfigInv, ConfigNext
    PROVE  ConfigInv' /\ \A q \in Editors :
             editor'[q].phase = "written" /\ editor[q].phase # "written" =>
                ValuesLand(editor[q].request, config, config')
<1>1. ASSUME NEW p \in Editors, Begin(p)
      PROVE  /\ ConfigInv'
             /\ \A q \in Editors : editor'[q].phase = "written" => editor[q].phase = "written"
    <2>1. PICK r \in Requests : /\ Admissible(r)
                                /\ editor' = [editor EXCEPT ![p] =
                                     [phase |-> "editing", request |-> r, lines |-> config]]
        BY <1>1 DEF Begin
    <2>2. LockFree /\ config' = config BY <1>1 DEF Begin
    <2>3. /\ DOMAIN editor' = Editors
          /\ editor'[p] = [phase |-> "editing", request |-> r, lines |-> config]
          /\ \A q \in Editors \ {p} : editor'[q] = editor[q]
        BY <2>1, EditorMoves
    <2>4. \A q \in Editors : editor'[q].phase = "editing" => q = p BY <2>2, <2>3 DEF LockFree
    <2>5. ConfigInv' BY <2>1, <2>2, <2>3, <2>4 DEF ConfigInv
    <2>6. \A q \in Editors : editor'[q].phase = "written" => editor[q].phase = "written" BY <2>3
    <2>7. QED BY <2>5, <2>6
<1>2. ASSUME NEW p \in Editors, editor[p].phase = "editing", NEW phase, phase # "editing",
             editor' = [editor EXCEPT ![p] = Ended(phase)], Leaves(config)' \subseteq LeafTypes
      PROVE  ConfigInv' /\ editor'[p].phase = phase /\ \A q \in Editors \ {p} : editor'[q] = editor[q]
    <2>1. /\ DOMAIN editor' = Editors /\ editor'[p] = Ended(phase)
          /\ \A q \in Editors \ {p} : editor'[q] = editor[q]
        BY <1>2, EditorMoves
    <2>2. editor'[p].phase = phase BY <2>1 DEF Ended
    <2>3. \A q \in Editors : editor'[q].phase # "editing"
        <3> TAKE q \in Editors
        <3>1. CASE q = p BY <3>1, <2>2, <1>2
        <3>2. CASE q # p BY <3>2, <2>1, <1>2 DEF ConfigInv
        <3>3. QED BY <3>1, <3>2
    <2>4. QED BY <2>1, <2>2, <2>3, <1>2 DEF ConfigInv
<1>3. ASSUME NEW p \in Editors, Land(p)
      PROVE  /\ ConfigInv'
             /\ \A q \in Editors : editor'[q].phase = "written" /\ editor[q].phase # "written" =>
                  ValuesLand(editor[q].request, config, config')
    <2> DEFINE r == editor[p].request
               copy == Edited(r, editor[p].lines)
    <2>1. /\ editor[p].phase = "editing" /\ Accepts(r, editor[p].lines, copy)
          /\ config' = copy.lines /\ editor' = [editor EXCEPT ![p] = Ended("written")]
        BY <1>3 DEF Land
    <2>2. editor[p].lines = config /\ r \in Requests /\ Admissible(r) /\ Leaves(config) \subseteq LeafTypes
        BY <2>1 DEF ConfigInv
    <2>3. Told(r) BY <2>2, ConfigAssumption
    <2>4. Accepts(r, config, copy) BY <2>1, <2>2
    <2> HIDE DEF copy, r
    <2>5. Leaves(copy.lines) \subseteq LeafTypes /\ ValuesLand(r, config, copy.lines)
        BY <2>2, <2>3, <2>4, AcceptedLands
    <2>6. Leaves(config)' \subseteq LeafTypes BY <2>1, <2>5
    <2>7. ConfigInv' /\ \A q \in Editors \ {p} : editor'[q] = editor[q] BY <2>1, <2>6, <1>2
    <2>8. QED BY <2>1, <2>5, <2>7 DEF r
<1>4. ASSUME NEW p \in Editors, Refuse(p) \/ Killed(p)
      PROVE  /\ ConfigInv'
             /\ \A q \in Editors : editor'[q].phase = "written" => editor[q].phase = "written"
    <2>1. PICK phase \in {"refused", "killed"} : editor' = [editor EXCEPT ![p] = Ended(phase)]
        BY <1>4 DEF Refuse, Killed
    <2>2. editor[p].phase = "editing" /\ config' = config BY <1>4 DEF Refuse, Killed
    <2>3. Leaves(config)' \subseteq LeafTypes BY <2>2 DEF ConfigInv
    <2>4. ConfigInv' /\ editor'[p].phase = phase /\ \A q \in Editors \ {p} : editor'[q] = editor[q]
        BY <2>1, <2>2, <2>3, <1>2
    <2>5. QED BY <2>4
<1>5. QED BY <1>1, <1>3, <1>4 DEF ConfigNext

\* The inductive invariant of the edits: whoever edits is alone, and has the
\* file as it is (_locked, _edit_config).
THEOREM ConfigInductive == ConfigSpec => []ConfigInv
<1>1. ConfigInit => ConfigInv
    BY ConfigAssumption DEF ConfigInit, ConfigInv, Ended, LeafTypes
<1>2. ConfigInv /\ [ConfigNext]_configVars => ConfigInv'
    <2>1. ASSUME ConfigInv, UNCHANGED configVars PROVE ConfigInv'
        BY <2>1 DEF ConfigInv, configVars
    <2>2. QED BY <2>1, ConfigStep
<1>3. QED BY <1>1, <1>2, PTL DEF ConfigSpec

\* An edit changes what it was asked for in the file as it is, whatever other
\* commands wrote since, and no other value; the readers see it, and nothing
\* begins that never expires (_edit_config, set_policy).
THEOREM EditsTakeEffectThm == ConfigSpec => EditsTakeEffect
<1> DEFINE Lands == \A p \in Editors :
               editor'[p].phase = "written" /\ editor[p].phase # "written" =>
                  ValuesLand(editor[p].request, config, config')
<1>1. ConfigInv /\ [ConfigNext]_configVars => [Lands]_configVars BY ConfigStep
<1>2. QED BY <1>1, ConfigInductive, PTL DEF ConfigSpec, EditsTakeEffect
=============================================================================
