-------------------------- MODULE ProbeLockProofs --------------------------
(***************************************************************************)
(* What is proved of the probe lock for any number of callers and files.   *)
(***************************************************************************)
EXTENDS ProbeLock, TLAPS

LEMMA InitIInv == Init => IInv
<1> SUFFICES ASSUME Init PROVE IInv OBVIOUS
<1> USE DistinctNames DEF Init, Looking, Deciding, Taking, Admitted
<1>1. TypeOK BY DEF TypeOK
<1>2. FlockHeld BY DEF FlockHeld
<1>3. TmpUnopened BY DEF TmpUnopened
<1>4. Missed BY DEF Missed
<1>5. OpenFiles BY DEF OpenFiles
<1>6. QED BY <1>1, <1>2, <1>3, <1>4, <1>5 DEF IInv

LEMMA StepTypeOK == IInv /\ [Next]_vars => TypeOK'
<1> SUFFICES ASSUME IInv, [Next]_vars PROVE TypeOK' OBVIOUS
<1> USE DistinctNames DEF IInv, TypeOK, Goto, Refuse, names, Looking, Deciding, Taking, Admitted, FlockHeld, OpenFiles
<1>1. ASSUME NEW p \in Procs, Open(p) PROVE TypeOK'
  BY <1>1 DEF Open
<1>2. ASSUME NEW p \in Procs, LockFree(p) \/ LockTaken(p) PROVE TypeOK'
  BY <1>2 DEF LockFree, LockTaken
<1>3. ASSUME NEW p \in Procs, ReadOwner(p) \/ ReadNoOwner(p) PROVE TypeOK'
  BY <1>3 DEF ReadOwner, ReadNoOwner
<1>4. ASSUME NEW p \in Procs, OwnerDead(p) \/ OwnerAlive(p) PROVE TypeOK'
  BY <1>4 DEF OwnerDead, OwnerAlive
<1>5. ASSUME NEW p \in Procs, MakeTmp(p) PROVE TypeOK'
  BY <1>5 DEF MakeTmp
<1>6. ASSUME NEW p \in Procs, Replace(p) \/ ReplaceFails(p) PROVE TypeOK'
  BY <1>6 DEF Replace, ReplaceFails
<1>7. ASSUME NEW p \in Procs, Reopen(p) PROVE TypeOK'
  BY <1>7 DEF Reopen
<1>8. ASSUME NEW p \in Procs, Relock(p) \/ RelockFails(p) PROVE TypeOK'
  BY <1>8 DEF Relock, RelockFails
<1>9. ASSUME NEW p \in Procs, StillPublished(p) \/ NoLongerPublished(p) PROVE TypeOK'
  <2>1. CASE StillPublished(p) BY <2>1 DEF StillPublished
  <2>2. CASE NoLongerPublished(p) BY <2>2 DEF NoLongerPublished
  <2>3. QED BY <1>9, <2>1, <2>2
<1>10. ASSUME NEW p \in Procs, Truncate(p) PROVE TypeOK'
  BY <1>10 DEF Truncate
<1>11. ASSUME NEW p \in Procs, WriteLabel(p) \/ LabelFails(p) PROVE TypeOK'
  BY <1>11 DEF WriteLabel, LabelFails
<1>12. ASSUME NEW p \in Procs, Release(p) PROVE TypeOK'
  BY <1>12 DEF Release
<1>13. ASSUME NEW p \in Procs, Die(p) PROVE TypeOK'
  BY <1>13 DEF Die
<1>14. ASSUME NEW i \in Inodes, OrphanEnds(i) PROVE TypeOK'
  BY <1>14 DEF OrphanEnds
<1>15. CASE UNCHANGED vars
  BY <1>15 DEF vars
<1>16. QED
  BY <1>1, <1>2, <1>3, <1>4, <1>5, <1>6, <1>7, <1>8, <1>9, <1>10, <1>11, <1>12, <1>13, <1>14, <1>15
  DEF Next, Step

LEMMA StepFlockHeld == IInv /\ [Next]_vars => FlockHeld'
<1> SUFFICES ASSUME IInv, [Next]_vars PROVE FlockHeld' OBVIOUS
<1> USE DistinctNames DEF IInv, TypeOK, Goto, Refuse, names, Looking, Deciding, Taking, Admitted, FlockHeld, OpenFiles, TmpUnopened, Unused
<1>1. ASSUME NEW p \in Procs, Open(p) PROVE FlockHeld'
  BY <1>1 DEF Open
<1>2. ASSUME NEW p \in Procs, LockFree(p) \/ LockTaken(p) PROVE FlockHeld'
  BY <1>2 DEF LockFree, LockTaken
<1>3. ASSUME NEW p \in Procs, ReadOwner(p) \/ ReadNoOwner(p) PROVE FlockHeld'
  BY <1>3 DEF ReadOwner, ReadNoOwner
<1>4. ASSUME NEW p \in Procs, OwnerDead(p) \/ OwnerAlive(p) PROVE FlockHeld'
  BY <1>4 DEF OwnerDead, OwnerAlive
<1>5. ASSUME NEW p \in Procs, MakeTmp(p) PROVE FlockHeld'
  BY <1>5 DEF MakeTmp
<1>6. ASSUME NEW p \in Procs, Replace(p) \/ ReplaceFails(p) PROVE FlockHeld'
  BY <1>6 DEF Replace, ReplaceFails
<1>7. ASSUME NEW p \in Procs, Reopen(p) PROVE FlockHeld'
  BY <1>7 DEF Reopen
<1>8. ASSUME NEW p \in Procs, Relock(p) \/ RelockFails(p) PROVE FlockHeld'
  BY <1>8 DEF Relock, RelockFails
<1>9. ASSUME NEW p \in Procs, StillPublished(p) \/ NoLongerPublished(p) PROVE FlockHeld'
  BY <1>9 DEF StillPublished, NoLongerPublished
<1>10. ASSUME NEW p \in Procs, Truncate(p) PROVE FlockHeld'
  BY <1>10 DEF Truncate
<1>11. ASSUME NEW p \in Procs, WriteLabel(p) \/ LabelFails(p) PROVE FlockHeld'
  BY <1>11 DEF WriteLabel, LabelFails
<1>12. ASSUME NEW p \in Procs, Release(p) PROVE FlockHeld'
  BY <1>12 DEF Release
<1>13. ASSUME NEW p \in Procs, Die(p) PROVE FlockHeld'
  BY <1>13 DEF Die
<1>14. ASSUME NEW i \in Inodes, OrphanEnds(i) PROVE FlockHeld'
  BY <1>14 DEF OrphanEnds
<1>15. CASE UNCHANGED vars
  BY <1>15 DEF vars
<1>16. QED
  BY <1>1, <1>2, <1>3, <1>4, <1>5, <1>6, <1>7, <1>8, <1>9, <1>10, <1>11, <1>12, <1>13, <1>14, <1>15
  DEF Next, Step

LEMMA StepTmpUnopened == IInv /\ [Next]_vars => TmpUnopened'
<1> SUFFICES ASSUME IInv, [Next]_vars PROVE TmpUnopened' OBVIOUS
<1> USE DistinctNames DEF IInv, TypeOK, Goto, Refuse, names, Looking, Deciding, Taking, Admitted, FlockHeld, TmpUnopened, Unused
<1>1. ASSUME NEW p \in Procs, Open(p) PROVE TmpUnopened'
  BY <1>1 DEF Open
<1>2. ASSUME NEW p \in Procs, LockFree(p) \/ LockTaken(p) PROVE TmpUnopened'
  BY <1>2 DEF LockFree, LockTaken
<1>3. ASSUME NEW p \in Procs, ReadOwner(p) \/ ReadNoOwner(p) PROVE TmpUnopened'
  BY <1>3 DEF ReadOwner, ReadNoOwner
<1>4. ASSUME NEW p \in Procs, OwnerDead(p) \/ OwnerAlive(p) PROVE TmpUnopened'
  BY <1>4 DEF OwnerDead, OwnerAlive
<1>5. ASSUME NEW p \in Procs, MakeTmp(p) PROVE TmpUnopened'
  BY <1>5 DEF MakeTmp
<1>6. ASSUME NEW p \in Procs, Replace(p) \/ ReplaceFails(p) PROVE TmpUnopened'
  BY <1>6 DEF Replace, ReplaceFails
<1>7. ASSUME NEW p \in Procs, Reopen(p) PROVE TmpUnopened'
  BY <1>7 DEF Reopen
<1>8. ASSUME NEW p \in Procs, Relock(p) \/ RelockFails(p) PROVE TmpUnopened'
  BY <1>8 DEF Relock, RelockFails
<1>9. ASSUME NEW p \in Procs, StillPublished(p) \/ NoLongerPublished(p) PROVE TmpUnopened'
  BY <1>9 DEF StillPublished, NoLongerPublished
<1>10. ASSUME NEW p \in Procs, Truncate(p) PROVE TmpUnopened'
  BY <1>10 DEF Truncate
<1>11. ASSUME NEW p \in Procs, WriteLabel(p) \/ LabelFails(p) PROVE TmpUnopened'
  BY <1>11 DEF WriteLabel, LabelFails
<1>12. ASSUME NEW p \in Procs, Release(p) PROVE TmpUnopened'
  BY <1>12 DEF Release
<1>13. ASSUME NEW p \in Procs, Die(p) PROVE TmpUnopened'
  BY <1>13 DEF Die
<1>14. ASSUME NEW i \in Inodes, OrphanEnds(i) PROVE TmpUnopened'
  BY <1>14 DEF OrphanEnds
<1>15. CASE UNCHANGED vars
  BY <1>15 DEF vars
<1>16. QED
  BY <1>1, <1>2, <1>3, <1>4, <1>5, <1>6, <1>7, <1>8, <1>9, <1>10, <1>11, <1>12, <1>13, <1>14, <1>15
  DEF Next, Step

LEMMA StepMissed == IInv /\ [Next]_vars => Missed'
<1> SUFFICES ASSUME IInv, [Next]_vars PROVE Missed' OBVIOUS
<1> USE DistinctNames DEF IInv, TypeOK, Goto, Refuse, names, Looking, Deciding, Taking, Admitted, FlockHeld, TmpUnopened, Missed, Unused, Alive
<1>1. ASSUME NEW p \in Procs, Open(p) PROVE Missed'
  BY <1>1 DEF Open
<1>2. ASSUME NEW p \in Procs, LockFree(p) \/ LockTaken(p) PROVE Missed'
  BY <1>2 DEF LockFree, LockTaken
<1>3. ASSUME NEW p \in Procs, ReadOwner(p) \/ ReadNoOwner(p) PROVE Missed'
  BY <1>3 DEF ReadOwner, ReadNoOwner
<1>4. ASSUME NEW p \in Procs, OwnerDead(p) \/ OwnerAlive(p) PROVE Missed'
  BY <1>4 DEF OwnerDead, OwnerAlive
<1>5. ASSUME NEW p \in Procs, MakeTmp(p) PROVE Missed'
  BY <1>5 DEF MakeTmp
<1>6. ASSUME NEW p \in Procs, Replace(p) \/ ReplaceFails(p) PROVE Missed'
  BY <1>6 DEF Replace, ReplaceFails
<1>7. ASSUME NEW p \in Procs, Reopen(p) PROVE Missed'
  BY <1>7 DEF Reopen
<1>8. ASSUME NEW p \in Procs, Relock(p) \/ RelockFails(p) PROVE Missed'
  BY <1>8 DEF Relock, RelockFails
<1>9. ASSUME NEW p \in Procs, StillPublished(p) \/ NoLongerPublished(p) PROVE Missed'
  BY <1>9 DEF StillPublished, NoLongerPublished
<1>10. ASSUME NEW p \in Procs, Truncate(p) PROVE Missed'
  BY <1>10 DEF Truncate
<1>11. ASSUME NEW p \in Procs, WriteLabel(p) \/ LabelFails(p) PROVE Missed'
  BY <1>11 DEF WriteLabel, LabelFails
<1>12. ASSUME NEW p \in Procs, Release(p) PROVE Missed'
  BY <1>12 DEF Release
<1>13. ASSUME NEW p \in Procs, Die(p) PROVE Missed'
  BY <1>13 DEF Die
<1>14. ASSUME NEW i \in Inodes, OrphanEnds(i) PROVE Missed'
  BY <1>14 DEF OrphanEnds
<1>15. CASE UNCHANGED vars
  BY <1>15 DEF vars
<1>16. QED
  BY <1>1, <1>2, <1>3, <1>4, <1>5, <1>6, <1>7, <1>8, <1>9, <1>10, <1>11, <1>12, <1>13, <1>14, <1>15
  DEF Next, Step

LEMMA StepOpenFiles == IInv /\ [Next]_vars => OpenFiles'
<1> SUFFICES ASSUME IInv, [Next]_vars PROVE OpenFiles' OBVIOUS
<1> USE DistinctNames DEF IInv, TypeOK, Goto, Refuse, names, Looking, Deciding, Taking, Admitted, OpenFiles
<1>1. ASSUME NEW p \in Procs, Open(p) PROVE OpenFiles'
  BY <1>1 DEF Open
<1>2. ASSUME NEW p \in Procs, LockFree(p) \/ LockTaken(p) PROVE OpenFiles'
  BY <1>2 DEF LockFree, LockTaken
<1>3. ASSUME NEW p \in Procs, ReadOwner(p) \/ ReadNoOwner(p) PROVE OpenFiles'
  BY <1>3 DEF ReadOwner, ReadNoOwner
<1>4. ASSUME NEW p \in Procs, OwnerDead(p) \/ OwnerAlive(p) PROVE OpenFiles'
  BY <1>4 DEF OwnerDead, OwnerAlive
<1>5. ASSUME NEW p \in Procs, MakeTmp(p) PROVE OpenFiles'
  BY <1>5 DEF MakeTmp
<1>6. ASSUME NEW p \in Procs, Replace(p) \/ ReplaceFails(p) PROVE OpenFiles'
  BY <1>6 DEF Replace, ReplaceFails
<1>7. ASSUME NEW p \in Procs, Reopen(p) PROVE OpenFiles'
  BY <1>7 DEF Reopen
<1>8. ASSUME NEW p \in Procs, Relock(p) \/ RelockFails(p) PROVE OpenFiles'
  BY <1>8 DEF Relock, RelockFails
<1>9. ASSUME NEW p \in Procs, StillPublished(p) \/ NoLongerPublished(p) PROVE OpenFiles'
  BY <1>9 DEF StillPublished, NoLongerPublished
<1>10. ASSUME NEW p \in Procs, Truncate(p) PROVE OpenFiles'
  BY <1>10 DEF Truncate
<1>11. ASSUME NEW p \in Procs, WriteLabel(p) \/ LabelFails(p) PROVE OpenFiles'
  BY <1>11 DEF WriteLabel, LabelFails
<1>12. ASSUME NEW p \in Procs, Release(p) PROVE OpenFiles'
  BY <1>12 DEF Release
<1>13. ASSUME NEW p \in Procs, Die(p) PROVE OpenFiles'
  BY <1>13 DEF Die
<1>14. ASSUME NEW i \in Inodes, OrphanEnds(i) PROVE OpenFiles'
  BY <1>14 DEF OrphanEnds
<1>15. CASE UNCHANGED vars
  BY <1>15 DEF vars
<1>16. QED
  BY <1>1, <1>2, <1>3, <1>4, <1>5, <1>6, <1>7, <1>8, <1>9, <1>10, <1>11, <1>12, <1>13, <1>14, <1>15
  DEF Next, Step

\* Every state satisfies the types and the strengthened invariant.
THEOREM Inductive == Spec => []IInv
<1>1. IInv /\ [Next]_vars => IInv'
  BY StepTypeOK, StepFlockHeld, StepTmpUnopened, StepMissed, StepOpenFiles DEF IInv
<1>2. QED BY <1>1, InitIInv, PTL DEF Spec

\* Names, inodes and descriptors keep their types, whatever a reclaim replaces
\* (single_probe_lock, _reclaim_lock_fd).
THEOREM TypeOKThm == Spec => []TypeOK
<1>1. IInv => TypeOK BY DEF IInv
<1>2. QED BY <1>1, Inductive, PTL

\* Of the callers inside single_probe_lock at most one is inside the published
\* file: an excess probe is one a reclaim displaced.
THEOREM ExcessIsDisplacedThm == Spec => []ExcessIsDisplaced
<1>1. IInv => ExcessIsDisplaced
  BY DEF IInv, FlockHeld, ExcessIsDisplaced
<1>2. QED BY <1>1, Inductive, PTL

\* A live holder whose pid is in the published file is displaced only by a
\* caller that read the owner before that pid was written.
THEOREM OnlyAnEarlierReadDisplacesThm == Spec => OnlyAnEarlierReadDisplaces
<1>1. IInv => \A p, q \in Procs :
        /\ pc[p] = "replace" /\ pc'[p] = "reopen"
        /\ pc[q] = "held" /\ fd[q] = path /\ label[path] = q
        => q \in later[p]
  BY DEF IInv, Missed
<1>2. QED BY <1>1, Inductive, PTL DEF OnlyAnEarlierReadDisplaces
============================================================================
