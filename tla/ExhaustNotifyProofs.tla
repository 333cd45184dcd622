------------------------ MODULE ExhaustNotifyProofs ------------------------
(***************************************************************************)
(* What is proved of the notice for any number of processes, event ids and *)
(* ticks: at most one an episode whose records are kept, and nobody is     *)
(* turned away by a notice that was never given.                           *)
(***************************************************************************)
EXTENDS ExhaustNotify, TLAPS

LEMMA InitIInv == Init => IInv
<1> SUFFICES ASSUME Init PROVE IInv OBVIOUS
<1> USE ConstantsAssumption DEF Init
<1>1. TypeOK
  <2>1. 0 \in 0..Horizon OBVIOUS
  <2>2. QED BY <2>1 DEF TypeOK, Steps
<1>2. LockHeld BY DEF LockHeld
<1>3. InFlight BY DEF InFlight
<1>4. Own BY DEF Own, Kept
<1>5. Stands BY DEF Stands
<1>6. QED BY <1>1, <1>2, <1>3, <1>4, <1>5 DEF IInv

\* What the end of an episode leaves of its histories.
EndTypes ==
  /\ notices' \subseteq notices /\ behind' \subseteq Procs
  /\ torn' \in BOOLEAN /\ leftover' \in BOOLEAN

LEMMA EpisodeEnded ==
  ASSUME EndEpisode(TRUE) \/ EndEpisode(FALSE)
  PROVE  EndTypes
  BY DEF EndEpisode, EndTypes

LEMMA StepTypeOK == IInv /\ [Next]_vars => TypeOK'
<1> SUFFICES ASSUME IInv, [Next]_vars PROVE TypeOK' OBVIOUS
<1> USE ConstantsAssumption DEF IInv, TypeOK, Record, Steps, Return, Accept, InFlight, Sights
<1>1. ASSUME NEW p \in Procs, Observe(p) PROVE TypeOK'
  BY <1>1 DEF Observe
<1>2. ASSUME NEW p \in Procs, ObserveUnswitched(p) PROVE TypeOK'
  <2>1. CASE UNCHANGED <<notices, torn, leftover, behind>>
    BY <1>2, <2>1 DEF ObserveUnswitched
  <2>2. CASE EndEpisode(TRUE) \/ EndEpisode(FALSE)
    <3>1. EndTypes BY ONLY <2>2, EpisodeEnded
    <3>2. QED BY <1>2, <3>1 DEF ObserveUnswitched, EndTypes
  <2>3. UNCHANGED <<notices, torn, leftover, behind>> \/ EndEpisode(TRUE) \/ EndEpisode(FALSE)
    BY <1>2 DEF ObserveUnswitched, EndEpisode
  <2>4. QED BY <2>1, <2>2, <2>3
<1>3. ASSUME NEW p \in Procs, Recover(p) PROVE TypeOK'
  <2>1. EndEpisode(TRUE) \/ EndEpisode(FALSE)
    <3>1. CASE file' = NoRecord BY <1>3, <3>1 DEF Recover, EndEpisode
    <3>2. CASE file' # NoRecord BY <1>3, <3>2 DEF Recover, EndEpisode
    <3>3. QED BY <3>1, <3>2
  <2>2. EndTypes BY ONLY <2>1, EpisodeEnded
  <2>3. QED BY <1>3, <2>2 DEF Recover, EndTypes
<1>4. ASSUME NEW p \in Procs, Suppress(p) PROVE TypeOK'
  BY <1>4 DEF Suppress
<1>5. ASSUME NEW p \in Procs, Prepare(p) PROVE TypeOK'
  BY <1>5 DEF Prepare, Entry, Sights
<1>6. ASSUME NEW p \in Procs, Send(p) PROVE TypeOK'
  BY <1>6 DEF Send
<1>7. ASSUME NEW p \in Procs, Save(p) PROVE TypeOK'
  BY <1>7 DEF Save, Outcome
<1>8. ASSUME NEW p \in Procs, SaveFails(p) PROVE TypeOK'
  BY <1>8 DEF SaveFails, Outcome
<1>9. ASSUME NEW p \in Procs, Unavailable(p) PROVE TypeOK'
  <2>1. CASE pc[p] = "recovered" BY <1>9, <2>1, EpisodeEnded DEF Unavailable, EndTypes
  <2>2. CASE pc[p] # "recovered" BY <1>9, <2>2 DEF Unavailable
  <2>3. QED BY <2>1, <2>2
<1>10. ASSUME NEW p \in Procs, Die(p) PROVE TypeOK'
  BY <1>10 DEF Die
<1>11. CASE Tick BY <1>11 DEF Tick
<1>12. CASE UNCHANGED vars BY <1>12 DEF vars
<1>13. QED
  BY <1>1, <1>2, <1>3, <1>4, <1>5, <1>6, <1>7, <1>8, <1>9, <1>10, <1>11, <1>12 DEF Next

LEMMA StepLockHeld == IInv /\ [Next]_vars => LockHeld'
<1> SUFFICES ASSUME IInv, [Next]_vars PROVE LockHeld' OBVIOUS
<1> USE ConstantsAssumption DEF IInv, TypeOK, LockHeld, Return, EndEpisode
<1>1. ASSUME NEW p \in Procs, Observe(p) PROVE LockHeld'
  BY <1>1 DEF Observe
<1>2. ASSUME NEW p \in Procs, ObserveUnswitched(p) PROVE LockHeld'
  BY <1>2 DEF ObserveUnswitched, Sights
<1>3. ASSUME NEW p \in Procs, Recover(p) PROVE LockHeld'
  BY <1>3 DEF Recover
<1>4. ASSUME NEW p \in Procs, Suppress(p) PROVE LockHeld'
  BY <1>4 DEF Suppress
<1>5. ASSUME NEW p \in Procs, Prepare(p) PROVE LockHeld'
  BY <1>5 DEF Prepare, Entry, Sights
<1>6. ASSUME NEW p \in Procs, Send(p) PROVE LockHeld'
  BY <1>6 DEF Send
<1>7. ASSUME NEW p \in Procs, Save(p) PROVE LockHeld'
  BY <1>7 DEF Save, Outcome
<1>8. ASSUME NEW p \in Procs, SaveFails(p) PROVE LockHeld'
  BY <1>8 DEF SaveFails, Outcome
<1>9. ASSUME NEW p \in Procs, Unavailable(p) PROVE LockHeld'
  BY <1>9 DEF Unavailable
<1>10. ASSUME NEW p \in Procs, Die(p) PROVE LockHeld'
  BY <1>10 DEF Die
<1>11. CASE Tick BY <1>11 DEF Tick
<1>12. CASE UNCHANGED vars BY <1>12 DEF vars
<1>13. QED
  BY <1>1, <1>2, <1>3, <1>4, <1>5, <1>6, <1>7, <1>8, <1>9, <1>10, <1>11, <1>12 DEF Next

LEMMA StepInFlight == IInv /\ [Next]_vars => InFlight'
<1> SUFFICES ASSUME IInv, [Next]_vars PROVE InFlight' OBVIOUS
<1> USE ConstantsAssumption DEF IInv, TypeOK, LockHeld, InFlight, FromRecord, Return, EndEpisode, Accept
<1>1. ASSUME NEW p \in Procs, Observe(p) PROVE InFlight'
  BY <1>1 DEF Observe
<1>2. ASSUME NEW p \in Procs, ObserveUnswitched(p) PROVE InFlight'
  BY <1>2 DEF ObserveUnswitched, Sights
<1>3. ASSUME NEW p \in Procs, Recover(p) PROVE InFlight'
  BY <1>3 DEF Recover
<1>4. ASSUME NEW p \in Procs, Suppress(p) PROVE InFlight'
  BY <1>4 DEF Suppress
<1>5. ASSUME NEW p \in Procs, Prepare(p) PROVE InFlight'
  BY <1>5 DEF Prepare, Entry, Sights
<1>6. ASSUME NEW p \in Procs, Send(p) PROVE InFlight'
  BY <1>6 DEF Send
<1>7. ASSUME NEW p \in Procs, Save(p) PROVE InFlight'
  BY <1>7 DEF Save, Outcome
<1>8. ASSUME NEW p \in Procs, SaveFails(p) PROVE InFlight'
  BY <1>8 DEF SaveFails, Outcome
<1>9. ASSUME NEW p \in Procs, Unavailable(p) PROVE InFlight'
  BY <1>9 DEF Unavailable
<1>10. ASSUME NEW p \in Procs, Die(p) PROVE InFlight'
  BY <1>10 DEF Die
<1>11. CASE Tick BY <1>11 DEF Tick
<1>12. CASE UNCHANGED vars BY <1>12 DEF vars
<1>13. QED
  BY <1>1, <1>2, <1>3, <1>4, <1>5, <1>6, <1>7, <1>8, <1>9, <1>10, <1>11, <1>12 DEF Next

LEMMA StepOwn == IInv /\ [Next]_vars => Own'
<1> SUFFICES ASSUME IInv, [Next]_vars PROVE Own' OBVIOUS
<1> USE ConstantsAssumption DEF IInv, TypeOK, Record, LockHeld, InFlight, FromRecord, Own, Kept, Return, EndEpisode, Accept
<1>1. ASSUME NEW p \in Procs, Observe(p) PROVE Own'
  BY <1>1 DEF Observe
<1>2. ASSUME NEW p \in Procs, ObserveUnswitched(p) PROVE Own'
  <2>1. CASE UNCHANGED <<notices, leftover>>
    BY <1>2, <2>1 DEF ObserveUnswitched
  <2>2. CASE EndEpisode(file = NoRecord)
    <3>1. leftover' \/ (file = NoRecord /\ \A q \in Procs : memory'[q] = NoRecord)
      BY <2>2
    <3>2. CASE leftover' BY <1>2, <3>2 DEF ObserveUnswitched
    <3>3. CASE file = NoRecord /\ \A q \in Procs : memory'[q] = NoRecord
      BY <1>2, <3>3 DEF ObserveUnswitched
    <3>4. QED BY <3>1, <3>2, <3>3
  <2>3. QED BY <1>2, <2>1, <2>2 DEF ObserveUnswitched
<1>3. ASSUME NEW p \in Procs, Recover(p) PROVE Own'
  BY <1>3 DEF Recover
<1>4. ASSUME NEW p \in Procs, Suppress(p) PROVE Own'
  BY <1>4 DEF Suppress
<1>5. ASSUME NEW p \in Procs, Prepare(p) PROVE Own'
  BY <1>5 DEF Prepare, Entry, Sights
<1>6. ASSUME NEW p \in Procs, Send(p) PROVE Own'
  BY <1>6 DEF Send
<1>7. ASSUME NEW p \in Procs, Save(p) PROVE Own'
  BY <1>7 DEF Save, Outcome
<1>8. ASSUME NEW p \in Procs, SaveFails(p) PROVE Own'
  BY <1>8 DEF SaveFails, Outcome
<1>9. ASSUME NEW p \in Procs, Unavailable(p) PROVE Own'
  <2>1. CASE pc[p] = "recovered" BY <1>9, <2>1 DEF Unavailable
  <2>2. CASE pc[p] # "recovered" BY <1>9, <2>2 DEF Unavailable
  <2>3. QED BY <2>1, <2>2
<1>10. ASSUME NEW p \in Procs, Die(p) PROVE Own'
  BY <1>10 DEF Die
<1>11. CASE Tick BY <1>11 DEF Tick
<1>12. CASE UNCHANGED vars BY <1>12 DEF vars
<1>13. QED
  BY <1>1, <1>2, <1>3, <1>4, <1>5, <1>6, <1>7, <1>8, <1>9, <1>10, <1>11, <1>12 DEF Next

LEMMA StepStands == IInv /\ [Next]_vars => Stands'
<1> SUFFICES ASSUME IInv, [Next]_vars PROVE Stands' OBVIOUS
<1> USE ConstantsAssumption DEF IInv, TypeOK, Record, LockHeld, InFlight, Stands, Return, EndEpisode, Accept
<1>1. ASSUME NEW p \in Procs, Observe(p) PROVE Stands'
  BY <1>1 DEF Observe
<1>2. ASSUME NEW p \in Procs, ObserveUnswitched(p) PROVE Stands'
  BY <1>2 DEF ObserveUnswitched, Sights
<1>3. ASSUME NEW p \in Procs, Recover(p) PROVE Stands'
  BY <1>3 DEF Recover
<1>4. ASSUME NEW p \in Procs, Suppress(p) PROVE Stands'
  BY <1>4 DEF Suppress
<1>5. ASSUME NEW p \in Procs, Prepare(p) PROVE Stands'
  <2>1. CASE torn' BY <2>1
  <2>2. CASE ~torn'
    <3>1. ~torn /\ flock = Nobody /\ flock' = p BY <1>5, <2>2 DEF Prepare
    <3>2. file # NoRecord => id'[p] = file.id
      BY <1>5, <2>2 DEF Prepare, Entry, Sights
    <3>3. UNCHANGED <<memory, notices, leftover>> BY <1>5 DEF Prepare
    <3>4. QED BY <3>1, <3>2, <3>3
  <2>3. QED BY <2>1, <2>2
<1>6. ASSUME NEW p \in Procs, Send(p) PROVE Stands'
  BY <1>6 DEF Send
<1>7. ASSUME NEW p \in Procs, Save(p) PROVE Stands'
  BY <1>7 DEF Save, Outcome
<1>8. ASSUME NEW p \in Procs, SaveFails(p) PROVE Stands'
  BY <1>8 DEF SaveFails, Outcome
<1>9. ASSUME NEW p \in Procs, Unavailable(p) PROVE Stands'
  BY <1>9 DEF Unavailable
<1>10. ASSUME NEW p \in Procs, Die(p) PROVE Stands'
  BY <1>10 DEF Die
<1>11. CASE Tick BY <1>11 DEF Tick
<1>12. CASE UNCHANGED vars BY <1>12 DEF vars
<1>13. QED
  BY <1>1, <1>2, <1>3, <1>4, <1>5, <1>6, <1>7, <1>8, <1>9, <1>10, <1>11, <1>12 DEF Next

\* Every state satisfies the types and the strengthened invariant.
THEOREM Inductive == Spec => []IInv
<1>1. IInv /\ [Next]_vars => IInv'
  BY StepTypeOK, StepLockHeld, StepInFlight, StepOwn, StepStands DEF IInv
<1>2. QED BY <1>1, InitIInv, PTL DEF Spec

\* The record of an episode, the ids and the mode of a call keep their types
\* (exhaust.observe).
THEOREM TypeOKThm == Spec => []TypeOK
<1>1. IInv => TypeOK BY DEF IInv
<1>2. QED BY <1>1, Inductive, PTL

\* At most one notice an episode, but for a record not kept or not read: a
\* notice is the id of who holds the lock or of the record in the file.
THEOREM OneNoticeThm == Spec => []OneNotice
<1>1. IInv => OneNotice
  BY ConstantsAssumption DEF IInv, LockHeld, Stands, OneNotice
<1>2. QED BY <1>1, Inductive, PTL

\* Who is told that the episode was notified is told the truth, unless the last
\* recovery left a record behind.
THEOREM SuppressedWasNotifiedThm == Spec => SuppressedWasNotified
<1> DEFINE A == \A p \in Procs : Suppress(p) /\ (\E r \in Sights : Notified(Entry(p, r)))
                  => notices # {} \/ leftover
<1>1. IInv => A
  BY DEF IInv, Own, Kept, Sights, Entry, Notified
<1>2. QED BY <1>1, Inductive, PTL DEF SuppressedWasNotified
============================================================================
