----------------------------- MODULE QuotaShare -----------------------------
(***************************************************************************)
(* One shared document per account (quota_share.py).  A host that measured *)
(* its account puts the measurement there, unless what is there is newer;  *)
(* a host that could not measure takes it from there, for the account it   *)
(* is logged in to or for one it was told to bill (recommend.py).          *)
(*                                                                         *)
(* Every request may be lost on the way there or on the way back, which    *)
(* looks to the host as an answer without a document.                      *)
(***************************************************************************)
EXTENDS Absent, Integers

CONSTANTS Hosts, Accounts,
          ClockOf,      \* [Hosts -> Int] what a host's clock is ahead
          RemoteMaxAge, MaxSkew, \* REMOTE_MAX_AGE_S, MAX_FUTURE_SKEW_S
          MaxMoment    \* bound of the model

ASSUME SkewAssumption ==
    /\ RemoteMaxAge \in Nat /\ MaxSkew \in Nat /\ MaxMoment \in Nat
    /\ None \notin Accounts /\ None \notin [account : Accounts, by : Hosts, at : Int]
    /\ ClockOf \in [Hosts -> Int]
    /\ \A h, i \in Hosts : ClockOf[h] - ClockOf[i] <= MaxSkew

VARIABLES moment,  \* the true time
          latest,  \* [Accounts -> the document, or None]
          command, \* [Hosts -> the publication or the question under way]
          served,  \* [Hosts -> the remote measurement it judges by, or None]
          newest,  \* history: the newest document each account ever had
          raced    \* history: accounts with a lost answer or an overlap
shareVars == <<moment, latest, command, served, newest, raced>>

Clock(h) == moment + ClockOf[h]
\* A document says whose measurement it is, who took it and when, by the
\* clock of that host.
Document(account, h) == [account |-> account, by |-> h, at |-> Clock(h)]
Still == [pc |-> "idle", account |-> None, doc |-> None]

ShareInit ==
    /\ moment = 0 /\ latest = [a \in Accounts |-> None]
    /\ command = [h \in Hosts |-> Still] /\ served = [h \in Hosts |-> None]
    /\ newest = [a \in Accounts |-> None] /\ raced = {}

------------------------------------------------------------------------------
(* A measurement without error or warning, of the account logged in to     *)
(* now, which has a name.                                                  *)
Measure(h) ==
    /\ command[h] = Still /\ served[h] = None
    /\ \E a \in Accounts :
          command' = [command EXCEPT ![h] = [pc |-> "get", account |-> a, doc |-> Document(a, h)]]
    /\ UNCHANGED <<moment, latest, served, newest, raced>>

(* Publication: the document is read, and written unless it is as new.     *)
(* Slip: what is there does not matter.                                    *)
Whatever(stored, doc) == TRUE
Newer(stored, doc) == IF stored = None THEN TRUE ELSE stored.at < doc.at
OthersWrite(h, a) == \E i \in Hosts \ {h} : command[i].pc = "put" /\ command[i].account = a
Look(h) ==
    /\ command[h].pc = "get"
    /\ LET a == command[h].account
           put == [pc |-> "put", account |-> a, doc |-> command[h].doc]
       IN \E answer \in {latest[a], None} :
             /\ command' = [command EXCEPT ![h] = IF Newer(answer, put.doc) THEN put ELSE Still]
             /\ raced' = IF answer # latest[a] \/ (Newer(answer, command[h].doc) /\ OthersWrite(h, a))
                         THEN raced \cup {a} ELSE raced
    /\ UNCHANGED <<moment, latest, served, newest>>
Put(h) ==
    /\ command[h].pc = "put"
    /\ LET doc == command[h].doc
       IN \E arrives \in BOOLEAN :
             IF arrives
             THEN /\ latest' = [latest EXCEPT ![doc.account] = doc]
                  /\ newest' = [newest EXCEPT ![doc.account] =
                         IF @ = None THEN doc ELSE IF @.at < doc.at THEN doc ELSE @]
             ELSE UNCHANGED <<latest, newest>>
    /\ command' = [command EXCEPT ![h] = Still]
    /\ UNCHANGED <<moment, served, raced>>

------------------------------------------------------------------------------
(* A host whose own measurement failed, is stale or backing off asks for   *)
(* the account it is logged in to then; a billing gate for one declared.   *)
Ask(h) == /\ command[h] = Still /\ served[h] = None
          /\ \E a \in Accounts :
                command' = [command EXCEPT ![h] = [pc |-> "ask", account |-> a, doc |-> None]]
          /\ UNCHANGED <<moment, latest, served, newest, raced>>

(* Slip: only the future is refused.                                       *)
NotAhead(doc, clock) == doc.at - clock <= MaxSkew
Recent(doc, clock) == clock - doc.at <= RemoteMaxAge /\ doc.at - clock <= MaxSkew
Served(h, doc) ==
    IF doc # None /\ Recent(doc, Clock(h))
    THEN [doc |-> doc, moment |-> moment, asked |-> command[h].account] ELSE None
Answered(h) ==
    /\ command[h].pc = "ask"
    /\ \E answer \in {latest[command[h].account], None} :
          served' = [served EXCEPT ![h] = Served(h, answer)]
    /\ command' = [command EXCEPT ![h] = Still]
    /\ UNCHANGED <<moment, latest, newest, raced>>

(* The command ends, wherever it was: nothing of it is kept.               *)
End(h) == /\ command[h] # Still \/ served[h] # None
          /\ command' = [command EXCEPT ![h] = Still] /\ served' = [served EXCEPT ![h] = None]
          /\ UNCHANGED <<moment, latest, newest, raced>>
Pass == /\ moment < MaxMoment /\ moment' = moment + 1
        /\ UNCHANGED <<latest, command, served, newest, raced>>

ShareNext == \/ \E h \in Hosts : Measure(h) \/ Look(h) \/ Put(h) \/ Ask(h) \/ Answered(h) \/ End(h)
             \/ Pass
ShareSpec == ShareInit /\ [][ShareNext]_shareVars

------------------------------------------------------------------------------
Documents == [account : Accounts, by : Hosts, at : Int]
ShareTypeOK ==
    /\ moment \in 0 .. MaxMoment /\ raced \subseteq Accounts
    /\ \A a \in Accounts : latest[a] \in Documents \cup {None} /\ newest[a] \in Documents \cup {None}
    /\ \A h \in Hosts : /\ command[h].pc \in {"idle", "get", "put", "ask"}
                        /\ command[h].account \in Accounts \cup {None}
                        /\ command[h].doc # None => /\ command[h].doc \in Documents
                                                    /\ command[h].doc.account = command[h].account

(* What a host judges by in place of its own measurement was measured of   *)
(* the account it asked about, and no longer ago than the limit, give or   *)
(* take the clocks (remote_result, declared_result, _snapshot_result).     *)
MeasuredAt(doc) == doc.at - ClockOf[doc.by]
ServedWasMeasured ==
    /\ ShareTypeOK
    /\ \A h \in Hosts : served[h] # None =>
          /\ served[h].doc.account = served[h].asked
          /\ MeasuredAt(served[h].doc) <= served[h].moment
          /\ served[h].moment - MeasuredAt(served[h].doc) <= RemoteMaxAge + MaxSkew

(* A newer measurement gives way to an older one only where an answer was  *)
(* lost or two hosts published at once (publish_result).                   *)
OlderOnlyWhenRaced ==
    \A a \in Accounts : (newest[a] # None /\ a \notin raced) => latest[a].at = newest[a].at
=============================================================================
