--------------------------- MODULE ExhaustNotify ---------------------------
(***************************************************************************)
(* The notice that a pool ran out (exhaust.observe), for one key of        *)
(* exhaust-notify.json.  Processes observe the pool as exhausted or        *)
(* recovered; an episode is what lies between two recoveries.  A notice is *)
(* an event of panewire, which refuses an id it knows and whose answer may *)
(* be lost.  The state file may be unwritable: then the record is kept in  *)
(* the memory of the process (_EPHEMERAL) and dies with it.                *)
(***************************************************************************)
EXTENDS Integers, FiniteSets

CONSTANTS
  Procs,      \* processes that observe the pool
  Nobody,     \* exhaust-notify.lock is free
  Ids,        \* bound: event ids that are drawn
  NoRecord,   \* no record under the key
  Cooldown,   \* RETRY_COOLDOWN_S
  Horizon     \* bound: ticks of the clock

ASSUME ConstantsAssumption ==
  /\ Nobody \notin Procs
  /\ Cooldown \in Nat /\ Horizon \in Nat
  /\ NoRecord \notin [id : Ids, notified : BOOLEAN, at : Nat]

VARIABLES
  clock,
  file,      \* the key's record in exhaust-notify.json
  memory,    \* per process: its _EPHEMERAL record
  flock,     \* the holder of exhaust-notify.lock
  pc,        \* per process: the next step
  now,       \* per process: when its observation began
  id,        \* per process: the event id it is sending
  sent,      \* per process: the sink reported a delivery
  known,     \* ids panewire has accepted
  drawn,     \* ids drawn from secrets.token_hex so far
  notices,   \* history: ids accepted in this episode
  torn,      \* history: a record of this episode was not kept or not read
  leftover,  \* history: the last recovery could not clear every record
  behind     \* history: calls under way since before the last recovery

vars == <<clock, file, memory, flock, pc, now, id, sent, known, drawn,
          notices, torn, leftover, behind>>

Record == [id : Ids, notified : BOOLEAN, at : 0..Horizon]
Steps  == {"idle", "exhausted", "recovered", "send", "save"}

NoId == "none"

Init ==
  /\ clock = 0
  /\ file = NoRecord
  /\ memory = [p \in Procs |-> NoRecord]
  /\ flock = Nobody
  /\ pc = [p \in Procs |-> "idle"]
  /\ now = [p \in Procs |-> 0]
  /\ id = [p \in Procs |-> NoId]
  /\ sent = [p \in Procs |-> FALSE]
  /\ known = {} /\ drawn = {}
  /\ notices = {} /\ torn = FALSE /\ leftover = FALSE /\ behind = {}

\* The call is over.
Return(p) ==
  /\ pc' = [pc EXCEPT ![p] = "idle"]
  /\ now' = [now EXCEPT ![p] = 0]
  /\ id' = [id EXCEPT ![p] = NoId]
  /\ sent' = [sent EXCEPT ![p] = FALSE]

\* The episode ends here.  A notice that is out and not yet recorded belongs to
\* the next one: the call that sent it has not returned.
EndEpisode(saved) ==
  /\ notices' = {id[q] : q \in {q \in Procs : pc[q] = "save"}} \intersect notices
  /\ torn' = FALSE
  /\ behind' = {q \in Procs : pc[q] # "idle"}
  /\ leftover' = (~saved \/ \E q \in Procs : memory'[q] # NoRecord)

\* What a read of the file finds under the key: one that cannot be read or
\* decoded counts as an empty one.
Sights == {file, NoRecord}

----------------------------------------------------------------------------
\* The pool's on_exhaust is operator-switch: the call goes for the lock with
\* what it saw, and with a clock it read before.
Observe(p) ==
  /\ pc[p] = "idle"
  /\ \E saw \in {"exhausted", "recovered"} : pc' = [pc EXCEPT ![p] = saw]
  /\ behind' = behind \ {p}
  /\ now' = [now EXCEPT ![p] = clock]
  /\ UNCHANGED <<clock, file, memory, flock, id, sent, known, drawn, notices, torn, leftover>>

\* It is not: _clear_if_recorded forgets the process' own record, looks into the
\* file without a lock and goes for the lock only if there is one to clear.
ObserveUnswitched(p) ==
  /\ pc[p] = "idle"
  /\ memory' = [memory EXCEPT ![p] = NoRecord]
  /\ \/ /\ NoRecord \in Sights
        /\ EndEpisode(file = NoRecord)
        /\ UNCHANGED <<pc, now>>
     \/ /\ file # NoRecord
        /\ pc' = [pc EXCEPT ![p] = "recovered"]
        /\ now' = [now EXCEPT ![p] = clock]
        /\ UNCHANGED <<notices, torn, leftover, behind>>
  /\ UNCHANGED <<clock, file, flock, id, sent, known, drawn>>

\* Under the lock: both records are dropped, and whether the save worked is not
\* looked at.
Recover(p) ==
  /\ flock = Nobody /\ pc[p] = "recovered"
  /\ memory' = [memory EXCEPT ![p] = NoRecord]
  /\ file' \in {NoRecord, file}
  /\ EndEpisode(file' = NoRecord)
  /\ Return(p)
  /\ UNCHANGED <<clock, flock, known, drawn>>

\* The record read comes before the process' own.
Entry(p, r) == IF r # NoRecord THEN r ELSE memory[p]

Notified(e)   == e # NoRecord /\ e.notified
Cooling(p, e) == e # NoRecord /\ ~e.notified /\ now[p] - e.at < Cooldown

\* The episode was notified already, or its last attempt is too recent.
Suppress(p) ==
  /\ flock = Nobody /\ pc[p] = "exhausted"
  /\ \E r \in Sights : Notified(Entry(p, r)) \/ Cooling(p, Entry(p, r))
  /\ Return(p)
  /\ UNCHANGED <<clock, file, memory, flock, known, drawn, notices, torn, leftover, behind>>

\* Slip: every attempt draws an id of its own.
PrepareAfresh(p) ==
  /\ flock = Nobody /\ pc[p] = "exhausted"
  /\ \E r \in Sights, i \in Ids \ drawn :
       /\ ~Notified(Entry(p, r)) /\ ~Cooling(p, Entry(p, r))
       /\ id' = [id EXCEPT ![p] = i]
       /\ drawn' = drawn \union {i}
       /\ torn' = (torn \/ r # file)
  /\ flock' = p
  /\ pc' = [pc EXCEPT ![p] = "send"]
  /\ UNCHANGED <<clock, file, memory, now, sent, known, notices, leftover, behind>>

\* An episode in progress keeps its event id, a new one draws one.
Prepare(p) ==
  /\ flock = Nobody /\ pc[p] = "exhausted"
  /\ \E r \in Sights :
       LET e == Entry(p, r) IN
       /\ ~Notified(e) /\ ~Cooling(p, e)
       /\ \E i \in IF e = NoRecord THEN Ids \ drawn ELSE {e.id} :
            /\ id' = [id EXCEPT ![p] = i]
            /\ drawn' = drawn \union {i}
       /\ torn' = (torn \/ r # file)
  /\ flock' = p
  /\ pc' = [pc EXCEPT ![p] = "send"]
  /\ UNCHANGED <<clock, file, memory, now, sent, known, notices, leftover, behind>>

\* panewire takes an id it does not know; one it knows is refused as a duplicate.
Accept(i) ==
  /\ known' = known \union {i}
  /\ notices' = IF i \in known THEN notices ELSE notices \union {i}

\* emit_lane_event: taken and reported, "duplicate event_id" included; taken
\* with the answer lost (its time-out); or not taken.
Send(p) ==
  /\ pc[p] = "send"
  /\ pc' = [pc EXCEPT ![p] = "save"]
  /\ \/ Accept(id[p]) /\ sent' = [sent EXCEPT ![p] = TRUE]
     \/ Accept(id[p]) /\ UNCHANGED sent
     \/ UNCHANGED <<known, notices, sent>>
  /\ UNCHANGED <<clock, file, memory, flock, now, id, drawn, torn, leftover, behind>>

\* Slip: a send that failed counts as one that worked.
OutcomeAssumed(p) == [id |-> id[p], notified |-> TRUE, at |-> now[p]]

Outcome(p) == [id |-> id[p], notified |-> sent[p], at |-> now[p]]

Save(p) ==
  /\ pc[p] = "save"
  /\ file' = Outcome(p)
  /\ flock' = Nobody
  /\ Return(p)
  /\ UNCHANGED <<clock, memory, known, drawn, notices, torn, leftover, behind>>

\* The file cannot be written: this process alone remembers.
SaveFails(p) ==
  /\ pc[p] = "save"
  /\ memory' = [memory EXCEPT ![p] = Outcome(p)]
  /\ torn' = TRUE
  /\ flock' = Nobody
  /\ Return(p)
  /\ UNCHANGED <<clock, file, known, drawn, notices, leftover, behind>>

\* The lock file itself cannot be opened: nothing is sent or cleared.
Unavailable(p) ==
  /\ pc[p] \in {"exhausted", "recovered"}
  /\ Return(p)
  /\ UNCHANGED <<clock, file, memory, flock, known, drawn>>
  /\ IF pc[p] = "recovered"
       THEN EndEpisode(FALSE) ELSE UNCHANGED <<notices, torn, leftover, behind>>

\* The process ends or is killed, and with it what it alone remembered; a panewire it
\* started goes on without it.
Die(p) ==
  /\ pc[p] # "idle" \/ memory[p] # NoRecord
  /\ Return(p)
  /\ memory' = [memory EXCEPT ![p] = NoRecord]
  /\ flock' = IF flock = p THEN Nobody ELSE flock
  /\ torn' = (torn \/ pc[p] \in {"send", "save"})
  /\ \/ pc[p] = "send" /\ Accept(id[p])
     \/ UNCHANGED <<known, notices>>
  /\ UNCHANGED <<clock, file, drawn, leftover, behind>>

Tick ==
  /\ clock < Horizon
  /\ clock' = clock + 1
  /\ UNCHANGED <<file, memory, flock, pc, now, id, sent, known, drawn>>
  /\ UNCHANGED <<notices, torn, leftover, behind>>

Next ==
  \/ \E p \in Procs :
       \/ Observe(p) \/ ObserveUnswitched(p) \/ Recover(p) \/ Suppress(p) \/ Prepare(p)
       \/ Send(p) \/ Save(p) \/ SaveFails(p) \/ Unavailable(p) \/ Die(p)
  \/ Tick

Spec == Init /\ [][Next]_vars
----------------------------------------------------------------------------
TypeOK ==
  /\ clock \in 0..Horizon
  /\ file \in Record \union {NoRecord}
  /\ memory \in [Procs -> Record \union {NoRecord}]
  /\ flock \in Procs \union {Nobody}
  /\ pc \in [Procs -> Steps]
  /\ now \in [Procs -> 0..Horizon]
  /\ id \in [Procs -> Ids \union {NoId}]
  /\ sent \in [Procs -> BOOLEAN]
  /\ known \subseteq drawn /\ drawn \subseteq Ids
  /\ notices \subseteq known
  /\ torn \in BOOLEAN /\ leftover \in BOOLEAN
  /\ behind \subseteq Procs

\* One notice an episode (the dedup of observe together with that of panewire):
\* a second one only if a record was not kept, by a death or a failed save, or not
\* read, or if the last recovery left a record behind.
OneNotice ==
  torn \/ leftover \/ \A i, j \in notices : i = j

\* Who is told that the episode was notified already is told the truth, unless
\* the last recovery left a record behind.
SuppressedWasNotified ==
  [][\A p \in Procs : Suppress(p) /\ (\E r \in Sights : Notified(Entry(p, r)))
        => notices # {} \/ leftover]_vars

\* The strengthening the proofs need: who holds the lock; that an id being sent
\* is a record's, unknown to panewire or this episode's; that a record's id is
\* this episode's once panewire knows it; and which record stands for a notice.
LockHeld == \A p \in Procs : pc[p] \in {"send", "save"} <=> flock = p

FromRecord(p) == \E r \in {file, memory[p]} : r # NoRecord /\ r.id = id[p]

InFlight ==
  \A p \in Procs :
    /\ pc[p] \in {"send", "save"} => id[p] \in drawn
    /\ pc[p] = "send" => FromRecord(p) \/ id[p] \notin known
    /\ pc[p] = "save" => FromRecord(p) \/ id[p] \notin known \/ id[p] \in notices
    /\ sent[p] => pc[p] = "save" /\ id[p] \in known

Kept == {file} \union {memory[p] : p \in Procs}

Own ==
  \A r \in Kept \ {NoRecord} :
    /\ r.notified => r.id \in known
    /\ r.id \in known => r.id \in notices \/ leftover

Stands ==
  ~torn /\ ~leftover =>
    /\ \A p \in Procs : memory[p] = NoRecord
    /\ \A i \in notices :
         \/ \E p \in Procs : flock = p /\ id[p] = i
         \/ flock = Nobody /\ file # NoRecord /\ file.id = i

IInv == TypeOK /\ LockHeld /\ InFlight /\ Own /\ Stands

\* exhaust.py:8 "once the pool is observed below its line the flag is dropped:
\* a new exhaustion is notified again": no call that came after the recovery is
\* told that its episode was notified when it was not.
NewEpisodeNotified ==
  [][\A p \in Procs \ behind : Suppress(p) /\ (\E r \in Sights : Notified(Entry(p, r)))
        => notices # {}]_vars
============================================================================
