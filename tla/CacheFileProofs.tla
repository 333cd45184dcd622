-------------------------- MODULE CacheFileProofs --------------------------
(***************************************************************************)
(* What is proved of the host cache for any number of processes and pools: *)
(* the inductive invariant, that no reader meets a torn document, that no  *)
(* update is lost (refinement of AtomicStore) and that the two documents   *)
(* agree.                                                                  *)
(***************************************************************************)
EXTENDS CacheFile, TLAPS

\* A transaction leaves both documents of the right shape.
LEMMA StoreTypes ==
  ASSUME NEW o \in Op, NEW d \in Snapshots, NEW b \in Backoffs
  PROVE  /\ SnapshotsAfter(d, o) \in Snapshots
         /\ BackoffsAfter(b, o) \in Backoffs
         /\ o.pool \in Pools
<1>1. o.pool \in Pools BY DEF Op
<1>2. EntryAfter(d[o.pool], o) \in Entry
  BY <1>1 DEF EntryAfter, Entry, Snapshots, Op, FailureKinds
<1>3. CountAfter(b[o.pool], o) \in Nat
  BY <1>1 DEF CountAfter, Backoffs
<1>4. QED BY <1>1, <1>2, <1>3 DEF SnapshotsAfter, BackoffsAfter, Snapshots, Backoffs

LEMMA EmptyTypes == NoSnapshots \in Snapshots /\ NoBackoffs \in Backoffs
BY DEF NoSnapshots, NoBackoffs, Snapshots, Backoffs, NoEntry, Entry, FailureKinds

\* Whatever is read is a document.
LEMMA ParseTypes ==
  ASSUME TypeOK
  PROVE  ParseSnapshots(snapFile) \in Snapshots /\ ParseBackoffs(boFile) \in Backoffs
BY EmptyTypes DEF TypeOK, ParseSnapshots, ParseBackoffs

LEMMA AfterFirstSaveType ==
  ASSUME NEW p \in Procs
  PROVE  AfterFirstSave(p) \in {"bwrite", "unlock", "loadbo"}
BY DEF AfterFirstSave

LEMMA InitIInv == Init => IInv
<1> SUFFICES ASSUME Init PROVE IInv OBVIOUS
<1>1. TypeOK
  BY EmptyTypes DEF Init, TypeOK, Steps
<1>2. NeverTorn
  BY EmptyTypes, DistinctAssumption DEF Init, NeverTorn
<1>3. Holder
  BY DistinctAssumption DEF Init, Holder
<1>4. InMemory
  BY DEF Init, InMemory, SnapSteps, BoSteps
<1>5. QED BY <1>1, <1>2, <1>3, <1>4 DEF IInv

LEMMA StepTypeOK == IInv /\ [Next]_vars => TypeOK'
<1> SUFFICES ASSUME IInv, [Next]_vars PROVE TypeOK' OBVIOUS
<1> USE DEF IInv, TypeOK, files, Steps, SnapSteps, BoSteps, Goto
<1>1. ASSUME NEW p \in Procs, NEW o \in Op, Acquire(p, o) PROVE TypeOK'
  BY <1>1 DEF Acquire
<1>2. ASSUME NEW p \in Procs, LoadSnapshots(p) PROVE TypeOK'
  <2>1. op[p] \in Op BY <1>2 DEF LoadSnapshots, InMemory
  <2>2. SnapshotsAfter(ParseSnapshots(snapFile), op[p]) \in Snapshots
    BY <2>1, StoreTypes, ParseTypes, EmptyTypes
  <2>3. QED BY <1>2, <2>2 DEF LoadSnapshots
<1>3. ASSUME NEW p \in Procs, LoadBackoffs(p) PROVE TypeOK'
  <2>1. op[p] \in Op BY <1>3 DEF LoadBackoffs, InMemory
  <2>2. BackoffsAfter(ParseBackoffs(boFile), op[p]) \in Backoffs
    BY <2>1, StoreTypes, ParseTypes, EmptyTypes
  <2>3. QED BY <1>3, <2>2 DEF LoadBackoffs
<1>4. ASSUME NEW p \in Procs, WriteSnapTmp(p) PROVE TypeOK'
  BY <1>4 DEF WriteSnapTmp
<1>5. ASSUME NEW p \in Procs, FlushSnapTmp(p) PROVE TypeOK'
  BY <1>5 DEF FlushSnapTmp
<1>6. ASSUME NEW p \in Procs, ReplaceSnapshots(p) PROVE TypeOK'
  <2>1. snapTmp \in Snapshots BY <1>6 DEF ReplaceSnapshots, InMemory
  <2>2. halfway' \in [Pools -> BOOLEAN]
    BY <1>6 DEF ReplaceSnapshots, MarkWhole, TwoSided
  <2>3. QED BY <1>6, <2>1, <2>2, AfterFirstSaveType DEF ReplaceSnapshots
<1>7. ASSUME NEW p \in Procs, SaveSnapshotsFails(p) PROVE TypeOK'
  BY <1>7, AfterFirstSaveType DEF SaveSnapshotsFails, MarkSplit, TwoSided
<1>8. ASSUME NEW p \in Procs, WriteBoTmp(p) PROVE TypeOK'
  BY <1>8 DEF WriteBoTmp
<1>9. ASSUME NEW p \in Procs, FlushBoTmp(p) PROVE TypeOK'
  BY <1>9 DEF FlushBoTmp
<1>10. ASSUME NEW p \in Procs, ReplaceBackoffs(p) PROVE TypeOK'
  <2>1. boTmp \in Backoffs BY <1>10 DEF ReplaceBackoffs, InMemory
  <2>2. halfway' \in [Pools -> BOOLEAN]
    BY <1>10 DEF ReplaceBackoffs, MarkWhole, TwoSided
  <2>3. QED BY <1>10, <2>1, <2>2 DEF ReplaceBackoffs
<1>11. ASSUME NEW p \in Procs, SaveBackoffsFails(p) PROVE TypeOK'
  BY <1>11 DEF SaveBackoffsFails, MarkSplit, TwoSided
<1>12. ASSUME NEW p \in Procs, Unlock(p) PROVE TypeOK'
  BY <1>12, EmptyTypes DEF Unlock, Forget
<1>13. ASSUME NEW p \in Procs, Crash(p) PROVE TypeOK'
  BY <1>13, EmptyTypes DEF Crash, Forget, MarkSplit, TwoSided
<1>14. CASE UNCHANGED vars
  BY <1>14 DEF vars
<1>15. QED
  BY <1>1, <1>2, <1>3, <1>4, <1>5, <1>6, <1>7, <1>8, <1>9, <1>10, <1>11, <1>12, <1>13, <1>14, WorkAssumption
  DEF Next, Step

LEMMA StepHolder == IInv /\ [Next]_vars => Holder'
<1> SUFFICES ASSUME IInv, [Next]_vars PROVE Holder' OBVIOUS
<1> USE DistinctAssumption DEF IInv, TypeOK, Holder, files, Steps, SnapSteps, BoSteps, Goto
<1>1. ASSUME NEW p \in Procs, NEW o \in Op, Acquire(p, o) PROVE Holder'
  BY <1>1 DEF Acquire
<1>2. ASSUME NEW p \in Procs, LoadSnapshots(p) PROVE Holder'
  BY <1>2 DEF LoadSnapshots
<1>3. ASSUME NEW p \in Procs, LoadBackoffs(p) PROVE Holder'
  BY <1>3 DEF LoadBackoffs
<1>4. ASSUME NEW p \in Procs, WriteSnapTmp(p) \/ FlushSnapTmp(p) PROVE Holder'
  BY <1>4 DEF WriteSnapTmp, FlushSnapTmp
<1>5. ASSUME NEW p \in Procs, ReplaceSnapshots(p) \/ SaveSnapshotsFails(p) PROVE Holder'
  BY <1>5, AfterFirstSaveType DEF ReplaceSnapshots, SaveSnapshotsFails
<1>6. ASSUME NEW p \in Procs, WriteBoTmp(p) \/ FlushBoTmp(p) PROVE Holder'
  BY <1>6 DEF WriteBoTmp, FlushBoTmp
<1>7. ASSUME NEW p \in Procs, ReplaceBackoffs(p) \/ SaveBackoffsFails(p) PROVE Holder'
  BY <1>7 DEF ReplaceBackoffs, SaveBackoffsFails
<1>8. ASSUME NEW p \in Procs, Unlock(p) \/ Crash(p) PROVE Holder'
  BY <1>8 DEF Unlock, Crash, Forget
<1>9. CASE UNCHANGED vars
  BY <1>9 DEF vars
<1>10. QED
  BY <1>1, <1>2, <1>3, <1>4, <1>5, <1>6, <1>7, <1>8, <1>9, WorkAssumption DEF Next, Step

\* Only the holder of snapshots.lock is past "idle".
LEMMA OthersIdle ==
  ASSUME Holder, NEW p \in Procs, pc[p] # "idle", NEW r \in Procs, r # p
  PROVE  pc[r] = "idle" /\ flock = p
BY DEF Holder

LEMMA StepNeverTorn == IInv /\ [Next]_vars => NeverTorn'
<1> SUFFICES ASSUME IInv, [Next]_vars PROVE NeverTorn' OBVIOUS
<1> USE DistinctAssumption DEF IInv, TypeOK, NeverTorn, files, Goto
<1>1. ASSUME NEW p \in Procs, ReplaceSnapshots(p) PROVE NeverTorn'
  BY <1>1 DEF ReplaceSnapshots, InMemory
<1>2. ASSUME NEW p \in Procs, ReplaceBackoffs(p) PROVE NeverTorn'
  BY <1>2 DEF ReplaceBackoffs, InMemory
<1>3. CASE UNCHANGED <<snapFile, boFile>>
  BY <1>3
<1>4. QED
  BY <1>1, <1>2, <1>3 DEF Next, Step, vars, Acquire, LoadSnapshots, LoadBackoffs,
     WriteSnapTmp, FlushSnapTmp, SaveSnapshotsFails, WriteBoTmp, FlushBoTmp,
     SaveBackoffsFails, Unlock, Crash

\* What InMemory says of one process.
Remembers(p) ==
  /\ pc[p] # "idle" => op[p] \in Op
  /\ pc[p] \in SnapSteps \/ (pc[p] = "loadbo" /\ LoadsBothFirst(op[p]))
       => data[p] = SnapshotsAfter(snapFile, op[p])
  /\ pc[p] = "replace" => snapTmp = data[p]
  /\ pc[p] \in BoSteps \/ (pc[p] \in SnapSteps /\ LoadsBothFirst(op[p]))
       => bo[p] = BackoffsAfter(boFile, op[p])
  /\ pc[p] \in BoSteps => BackoffDirty(boFile, op[p])
  /\ pc[p] = "breplace" => boTmp = bo[p]

\* A step of p keeps InMemory when p still remembers: the others are idle.
LEMMA OwnStep ==
  ASSUME IInv, NEW p \in Procs, pc[p] # "idle" \/ flock = NoProc,
         \A r \in Procs \ {p} : pc'[r] = pc[r],
         Remembers(p)'
  PROVE  InMemory'
<1>1. \A r \in Procs \ {p} : pc'[r] = "idle"
  BY DistinctAssumption DEF IInv, Holder
<1>2. QED
  BY <1>1 DEF InMemory, Remembers, SnapSteps, BoSteps

LEMMA StepInMemory == IInv /\ [Next]_vars => InMemory'
<1> SUFFICES ASSUME IInv, [Next]_vars PROVE InMemory' OBVIOUS
<1> USE DEF files, SnapSteps, BoSteps, Goto, Remembers
<1>t. TypeOK /\ NeverTorn /\ InMemory BY DEF IInv
<1>p. pc \in [Procs -> Steps] BY <1>t DEF TypeOK
<1>f. snapFile = ParseSnapshots(snapFile) /\ boFile = ParseBackoffs(boFile)
  BY <1>t DEF NeverTorn, ParseSnapshots, ParseBackoffs
<1>1. ASSUME NEW p \in Procs, NEW o \in Op, Acquire(p, o) PROVE InMemory'
  <2>1. Remembers(p)' BY <1>1, <1>t, <1>p DEF Acquire, TypeOK
  <2>2. QED BY <2>1, <1>1, <1>p, OwnStep DEF Acquire
<1>2. ASSUME NEW p \in Procs, LoadSnapshots(p) PROVE InMemory'
  <2>1. data'[p] = SnapshotsAfter(snapFile, op[p])
    BY <1>2, <1>t, <1>f DEF LoadSnapshots, TypeOK
  <2>2. pc'[p] \in {"unlock", "loadbo", "write"} /\ (pc'[p] = "write" => ~LoadsBothFirst(op[p]))
    BY <1>2, <1>p DEF LoadSnapshots
  <2>3. op[p] \in Op BY <1>2, <1>t DEF LoadSnapshots, InMemory
  <2>4. Remembers(p)' BY <1>2, <2>1, <2>2, <2>3 DEF LoadSnapshots, SnapshotsAfter, LoadsBothFirst
  <2>5. QED BY <2>4, <1>2, <1>p, OwnStep DEF LoadSnapshots
<1>3. ASSUME NEW p \in Procs, LoadBackoffs(p) PROVE InMemory'
  <2>1. bo'[p] = BackoffsAfter(boFile, op[p])
    BY <1>3, <1>t, <1>f DEF LoadBackoffs, TypeOK
  <2>2. pc'[p] \in {"unlock", "bwrite", "write"} /\ (pc'[p] = "write" => LoadsBothFirst(op[p]))
        /\ (pc'[p] = "bwrite" => BackoffDirty(boFile, op[p]))
    BY <1>3, <1>p, <1>f DEF LoadBackoffs
  <2>3. op[p] \in Op /\ (LoadsBothFirst(op[p]) => data[p] = SnapshotsAfter(snapFile, op[p]))
    BY <1>3, <1>t DEF LoadBackoffs, InMemory
  <2>4. Remembers(p)'
    BY <1>3, <2>1, <2>2, <2>3 DEF LoadBackoffs, SnapshotsAfter, BackoffsAfter, LoadsBothFirst, BackoffDirty
  <2>5. QED BY <2>4, <1>3, <1>p, OwnStep DEF LoadBackoffs
<1>4. ASSUME NEW p \in Procs, WriteSnapTmp(p) PROVE InMemory'
  <2>1. Remembers(p) BY <1>t DEF InMemory
  <2>2. Remembers(p)'
    BY <1>4, <2>1, <1>t, <1>p DEF WriteSnapTmp, TypeOK, SnapshotsAfter, BackoffsAfter, LoadsBothFirst, BackoffDirty
  <2>3. QED BY <2>2, <1>4, <1>p, OwnStep DEF WriteSnapTmp, Forget
<1>5. ASSUME NEW p \in Procs, FlushSnapTmp(p) PROVE InMemory'
  <2>1. Remembers(p) BY <1>t DEF InMemory
  <2>2. Remembers(p)'
    BY <1>5, <2>1, <1>t, <1>p DEF FlushSnapTmp, TypeOK, SnapshotsAfter, BackoffsAfter, LoadsBothFirst, BackoffDirty
  <2>3. QED BY <2>2, <1>5, <1>p, OwnStep DEF FlushSnapTmp, Forget
<1>6. ASSUME NEW p \in Procs, ReplaceSnapshots(p) PROVE InMemory'
  <2>1. Remembers(p) BY <1>t DEF InMemory
  <2>2. Remembers(p)'
    BY <1>6, <2>1, <1>t, <1>p, AfterFirstSaveType DEF ReplaceSnapshots, TypeOK, SnapshotsAfter, BackoffsAfter, LoadsBothFirst, BackoffDirty, AfterFirstSave
  <2>3. QED BY <2>2, <1>6, <1>p, OwnStep DEF ReplaceSnapshots, Forget
<1>7. ASSUME NEW p \in Procs, SaveSnapshotsFails(p) PROVE InMemory'
  <2>1. Remembers(p) BY <1>t DEF InMemory
  <2>2. Remembers(p)'
    BY <1>7, <2>1, <1>t, <1>p, AfterFirstSaveType DEF SaveSnapshotsFails, TypeOK, SnapshotsAfter, BackoffsAfter, LoadsBothFirst, BackoffDirty, AfterFirstSave
  <2>3. QED BY <2>2, <1>7, <1>p, OwnStep DEF SaveSnapshotsFails, Forget
<1>8. ASSUME NEW p \in Procs, WriteBoTmp(p) PROVE InMemory'
  <2>1. Remembers(p) BY <1>t DEF InMemory
  <2>2. Remembers(p)'
    BY <1>8, <2>1, <1>t, <1>p DEF WriteBoTmp, TypeOK, SnapshotsAfter, BackoffsAfter, LoadsBothFirst, BackoffDirty
  <2>3. QED BY <2>2, <1>8, <1>p, OwnStep DEF WriteBoTmp, Forget
<1>9. ASSUME NEW p \in Procs, FlushBoTmp(p) PROVE InMemory'
  <2>1. Remembers(p) BY <1>t DEF InMemory
  <2>2. Remembers(p)'
    BY <1>9, <2>1, <1>t, <1>p DEF FlushBoTmp, TypeOK, SnapshotsAfter, BackoffsAfter, LoadsBothFirst, BackoffDirty
  <2>3. QED BY <2>2, <1>9, <1>p, OwnStep DEF FlushBoTmp, Forget
<1>10. ASSUME NEW p \in Procs, ReplaceBackoffs(p) PROVE InMemory'
  <2>1. Remembers(p) BY <1>t DEF InMemory
  <2>2. Remembers(p)'
    BY <1>10, <2>1, <1>t, <1>p DEF ReplaceBackoffs, TypeOK, SnapshotsAfter, BackoffsAfter, LoadsBothFirst, BackoffDirty
  <2>3. QED BY <2>2, <1>10, <1>p, OwnStep DEF ReplaceBackoffs, Forget
<1>11. ASSUME NEW p \in Procs, SaveBackoffsFails(p) PROVE InMemory'
  <2>1. Remembers(p) BY <1>t DEF InMemory
  <2>2. Remembers(p)'
    BY <1>11, <2>1, <1>t, <1>p DEF SaveBackoffsFails, TypeOK, SnapshotsAfter, BackoffsAfter, LoadsBothFirst, BackoffDirty
  <2>3. QED BY <2>2, <1>11, <1>p, OwnStep DEF SaveBackoffsFails, Forget
<1>12. ASSUME NEW p \in Procs, Unlock(p) PROVE InMemory'
  <2>1. Remembers(p) BY <1>t DEF InMemory
  <2>2. Remembers(p)'
    BY <1>12, <2>1, <1>t, <1>p DEF Unlock, TypeOK, SnapshotsAfter, BackoffsAfter, LoadsBothFirst, BackoffDirty, Forget
  <2>3. QED BY <2>2, <1>12, <1>p, OwnStep DEF Unlock, Forget
<1>13. ASSUME NEW p \in Procs, Crash(p) PROVE InMemory'
  <2>1. Remembers(p) BY <1>t DEF InMemory
  <2>2. Remembers(p)'
    BY <1>13, <2>1, <1>t, <1>p DEF Crash, TypeOK, SnapshotsAfter, BackoffsAfter, LoadsBothFirst, BackoffDirty, Forget
  <2>3. QED BY <2>2, <1>13, <1>p, OwnStep DEF Crash, Forget
<1>14. CASE UNCHANGED vars
  BY <1>14, <1>t DEF vars, InMemory
<1>15. QED
  BY <1>1, <1>2, <1>3, <1>4, <1>5, <1>6, <1>7, <1>8, <1>9, <1>10, <1>11, <1>12, <1>13, <1>14, WorkAssumption
  DEF Next, Step

\* The invariant of snapshots.lock, of its holder's memory and of the files,
\* for any number of processes and pools (_exclusive_cache_lock, _save).
THEOREM Inductive == Spec => []IInv
<1>1. IInv /\ [Next]_vars => IInv'
  BY StepTypeOK, StepNeverTorn, StepHolder, StepInMemory DEF IInv
<1>2. QED BY InitIInv, <1>1, PTL DEF Spec

\* The lock, the loaded documents and the transactions keep their types (cache.py's
\* locked read-modify-write, for any processes and pools).
THEOREM TypeOKThm == Spec => []TypeOK
<1>1. IInv => TypeOK BY DEF IInv
<1>2. QED BY <1>1, Inductive, PTL

\* A reader without the lock never meets a document that does not parse
\* (_save renames a finished temporary file).
THEOREM NeverTornThm == Spec => []NeverTorn
<1>1. IInv => NeverTorn BY DEF IInv
<1>2. QED BY <1>1, Inductive, PTL

\* Only the two renames change a published document.
LEMMA OtherSteps ==
  ASSUME [Next]_vars,
         ~ \E p \in Procs : ReplaceSnapshots(p) \/ ReplaceBackoffs(p)
  PROVE  UNCHANGED <<snapFile, boFile>>
BY DEF Next, Step, vars, files, Acquire, LoadSnapshots, LoadBackoffs, WriteSnapTmp, FlushSnapTmp,
   SaveSnapshotsFails, WriteBoTmp, FlushBoTmp, SaveBackoffsFails, Unlock, Crash

\* What the renames publish: the transaction applied to the current documents.
LEMMA Publishes ==
  ASSUME IInv, NEW p \in Procs
  PROVE  /\ ReplaceSnapshots(p) => snapFile' = SnapshotsAfter(snapFile, op[p]) /\ boFile' = boFile
         /\ ReplaceBackoffs(p) => boFile' = BackoffsAfter(boFile, op[p]) /\ snapFile' = snapFile
         /\ pc[p] # "idle" => op[p] \in Op /\ op[p].pool \in Pools
<1>1. ReplaceSnapshots(p) => snapFile' = SnapshotsAfter(snapFile, op[p]) /\ boFile' = boFile
  BY DEF ReplaceSnapshots, IInv, InMemory, Goto, SnapSteps
<1>2. ReplaceBackoffs(p) => boFile' = BackoffsAfter(boFile, op[p]) /\ snapFile' = snapFile
  BY DEF ReplaceBackoffs, IInv, InMemory, Goto, BoSteps
<1>3. pc[p] # "idle" => op[p] \in Op /\ op[p].pool \in Pools
  BY DEF IInv, InMemory, Op
<1>4. QED BY <1>1, <1>2, <1>3

\* A stored measurement is only ever replaced by another one (_audit_failure).
THEOREM SnapshotKeptThm == Spec => SnapshotKept
<1>1. IInv /\ [Next]_vars =>
        [\A q \in Pools : snapFile[q].snap # NoValue => snapFile'[q].snap # NoValue]_vars
  <2> SUFFICES ASSUME IInv, [Next]_vars, NEW q \in Pools, snapFile[q].snap # NoValue
               PROVE  snapFile'[q].snap # NoValue
    OBVIOUS
  <2>1. ASSUME NEW p \in Procs, ReplaceSnapshots(p) PROVE snapFile'[q].snap # NoValue
    <3>1. snapFile \in Snapshots BY DEF IInv, TypeOK, NeverTorn
    <3>2. op[p] \in Op /\ snapFile' = SnapshotsAfter(snapFile, op[p])
      BY <2>1, Publishes DEF ReplaceSnapshots, Goto
    <3>3. EntryAfter(snapFile[q], op[p]).snap # NoValue
      BY <3>1, <3>2, NoValueAssumption DEF EntryAfter, Snapshots, Entry, Op
    <3>4. QED BY <3>1, <3>2, <3>3 DEF SnapshotsAfter, Snapshots
  <2>2. ASSUME NEW p \in Procs, ReplaceBackoffs(p) PROVE snapFile'[q].snap # NoValue
    BY <2>2, Publishes
  <2>3. QED BY <2>1, <2>2, OtherSteps
<1>2. QED BY <1>1, Inductive, PTL DEF Spec, SnapshotKept

LEMMA StoreSame ==
  ASSUME NEW d, NEW b, NEW o
  PROVE  /\ Store!SnapshotsAfter(d, o) = SnapshotsAfter(d, o)
         /\ Store!BackoffsAfter(b, o) = BackoffsAfter(b, o)
         /\ Store!BackoffDirty(b, o) = BackoffDirty(b, o)
         /\ Store!Op = Op
<1>1. \A e : Store!EntryAfter(e, o) = EntryAfter(e, o)
  BY DEF Store!EntryAfter, EntryAfter
<1>2. \A n : Store!CountAfter(n, o) = CountAfter(n, o)
  BY DEF Store!CountAfter, CountAfter
<1>3. Store!Op = Op
  BY DEF Store!Op, Op, Store!FailureKinds, FailureKinds
<1>4. QED
  BY <1>1, <1>2, <1>3 DEF Store!SnapshotsAfter, SnapshotsAfter, Store!BackoffsAfter,
     BackoffsAfter, Store!BackoffDirty, BackoffDirty

\* The abstract transaction in progress, seen from the process inside.
LEMMA HalfNow ==
  ASSUME NEW p \in Procs, flock = p
  PROVE  Half = IF HalfDone(p) THEN op[p] ELSE NoOp
BY DEF Half

LEMMA HalfNext ==
  ASSUME NEW p \in Procs, flock' = p
  PROVE  Half' = IF HalfDone(p)' THEN op'[p] ELSE NoOp
BY DEF Half

LEMMA HalfFree ==
  /\ flock = NoProc => Half = NoOp
  /\ flock' = NoProc => Half' = NoOp
BY DistinctAssumption DEF Half

\* Only the two saves and a death show in the abstract store.
Quiet == UNCHANGED <<snapFile, boFile, halfway>> /\ Half' = Half

Saves(p) ==
  \/ ReplaceSnapshots(p) \/ SaveSnapshotsFails(p)
  \/ ReplaceBackoffs(p) \/ SaveBackoffsFails(p)

LEMMA QuietSteps ==
  ASSUME IInv, [Next]_vars, ~ \E p \in Procs : Saves(p) \/ Crash(p)
  PROVE  Quiet
<1> USE DEF Goto, SnapSteps, BoSteps, files, Quiet
<1>p. pc \in [Procs -> Steps] /\ op \in [Procs -> Op \union {NoOp}] BY DEF IInv, TypeOK
<1>h. ASSUME NEW p \in Procs, pc[p] # "idle" PROVE flock = p
  BY <1>h DEF IInv, Holder
<1>1. ASSUME NEW p \in Procs, NEW o \in Op, Acquire(p, o) PROVE Quiet
  <2>1. flock = NoProc /\ flock' = p /\ ~HalfDone(p)'
    BY <1>1, <1>p DEF Acquire, HalfDone
  <2>2. QED BY <1>1, <2>1, HalfFree, HalfNext DEF Acquire
<1>2. ASSUME NEW p \in Procs, LoadSnapshots(p) PROVE Quiet
  <2>1. flock = p /\ flock' = p BY <1>2, <1>h DEF LoadSnapshots
  <2>2. ~HalfDone(p) BY <1>2 DEF LoadSnapshots, HalfDone
  <2>3. ~HalfDone(p)'
    <3>1. pc'[p] \in {"unlock", "write"} \/ (pc'[p] = "loadbo" /\ LoadsBothFirst(op[p]))
      BY <1>2, <1>p DEF LoadSnapshots
    <3>2. QED BY <1>2, <3>1 DEF LoadSnapshots, HalfDone, LoadsBothFirst
  <2>4. QED BY <1>2, <2>1, <2>2, <2>3, HalfNow, HalfNext DEF LoadSnapshots
<1>3. ASSUME NEW p \in Procs, LoadBackoffs(p) PROVE Quiet
  <2>1. flock = p /\ flock' = p BY <1>3, <1>h DEF LoadBackoffs
  <2>2. ParseBackoffs(boFile) = boFile BY DEF IInv, NeverTorn, ParseBackoffs
  <2>3. pc'[p] = IF LoadsBothFirst(op[p]) THEN "write"
                 ELSE IF BackoffDirty(boFile, op[p]) THEN "bwrite" ELSE "unlock"
    BY <1>3, <1>p, <2>2 DEF LoadBackoffs
  <2>4. HalfDone(p)' <=> HalfDone(p)
    <3>1. pc[p] = "loadbo" /\ op' = op /\ boFile' = boFile
      BY <1>3 DEF LoadBackoffs
    <3>2. /\ LoadsBothFirst(op[p])' <=> LoadsBothFirst(op[p])
          /\ BackoffDirty(boFile, op[p])' <=> BackoffDirty(boFile, op[p])
      BY <3>1 DEF LoadsBothFirst, BackoffDirty, CountAfter
    <3>3. CASE LoadsBothFirst(op[p])
      <4>1. pc'[p] = "write" BY <2>3, <3>3
      <4>2. ~HalfDone(p) BY <3>1, <3>3 DEF HalfDone
      <4>3. ~HalfDone(p)' BY <4>1, <3>2, <3>3 DEF HalfDone
      <4>4. QED BY <4>2, <4>3
    <3>4. CASE ~LoadsBothFirst(op[p]) /\ BackoffDirty(boFile, op[p])
      <4>1. pc'[p] = "bwrite" BY <2>3, <3>4
      <4>2. HalfDone(p) BY <3>1, <3>4 DEF HalfDone
      <4>3. HalfDone(p)' BY <4>1, <3>2, <3>4 DEF HalfDone
      <4>4. QED BY <4>2, <4>3
    <3>5. CASE ~LoadsBothFirst(op[p]) /\ ~BackoffDirty(boFile, op[p])
      BY <3>2, <3>5 DEF HalfDone
    <3>6. QED BY <3>3, <3>4, <3>5
  <2>5. QED BY <1>3, <2>1, <2>4, HalfNow, HalfNext DEF LoadBackoffs
<1>4. ASSUME NEW p \in Procs, WriteSnapTmp(p) \/ FlushSnapTmp(p) PROVE Quiet
  <2>1. flock = p /\ flock' = p BY <1>4, <1>h DEF WriteSnapTmp, FlushSnapTmp
  <2>2. ~HalfDone(p) /\ ~HalfDone(p)'
    BY <1>4, <1>p DEF WriteSnapTmp, FlushSnapTmp, HalfDone
  <2>3. QED BY <1>4, <2>1, <2>2, HalfNow, HalfNext DEF WriteSnapTmp, FlushSnapTmp
<1>5. ASSUME NEW p \in Procs, WriteBoTmp(p) \/ FlushBoTmp(p) PROVE Quiet
  <2>1. flock = p /\ flock' = p BY <1>5, <1>h DEF WriteBoTmp, FlushBoTmp
  <2>2. HalfDone(p)' <=> HalfDone(p)
    BY <1>5, <1>p DEF WriteBoTmp, FlushBoTmp, HalfDone, BackoffDirty
  <2>3. QED BY <1>5, <2>1, <2>2, HalfNow, HalfNext DEF WriteBoTmp, FlushBoTmp
<1>6. ASSUME NEW p \in Procs, Unlock(p) PROVE Quiet
  <2>1. flock = p /\ flock' = NoProc /\ ~HalfDone(p)
    BY <1>6, <1>h DEF Unlock, Forget, HalfDone
  <2>2. QED BY <1>6, <2>1, HalfNow, HalfFree DEF Unlock
<1>7. CASE UNCHANGED vars
  BY <1>7 DEF vars, Half, HalfDone, BackoffDirty
<1>8. QED
  BY <1>1, <1>2, <1>3, <1>4, <1>5, <1>6, <1>7, WorkAssumption DEF Next, Step, Saves

\* The end of the first save opens the second half when the backoff changes.
LEMMA FirstSide ==
  ASSUME IInv, NEW p \in Procs, ReplaceSnapshots(p) \/ SaveSnapshotsFails(p)
  PROVE  /\ op[p] \in Op /\ boFile' = boFile
         /\ snapFile' \in {SnapshotsAfter(snapFile, op[p]), snapFile}
         /\ Half = NoOp /\ Half' = IF BackoffDirty(boFile, op[p]) THEN op[p] ELSE NoOp
<1> USE DEF Goto, SnapSteps, BoSteps, files
<1>p. pc \in [Procs -> Steps] BY DEF IInv, TypeOK
<1>h. pc[p] # "idle" => flock = p BY DEF IInv, Holder
<1>1. flock = p /\ flock' = p BY <1>h DEF ReplaceSnapshots, SaveSnapshotsFails
<1>2. op[p] \in Op /\ pc[p] \in SnapSteps
  BY Publishes DEF ReplaceSnapshots, SaveSnapshotsFails
<1>3. ~HalfDone(p) BY <1>2 DEF HalfDone
<1>4. pc'[p] = AfterFirstSave(p) /\ boFile' = boFile /\ op' = op
  BY <1>p, Publishes DEF ReplaceSnapshots, SaveSnapshotsFails
<1>5. ~TwoSided(op[p]) => ~BackoffDirty(boFile, op[p])
  BY DEF TwoSided, BackoffDirty, CountAfter
<1>6. HalfDone(p)' <=> BackoffDirty(boFile, op[p])
  BY <1>4, <1>5 DEF AfterFirstSave, HalfDone, LoadsBothFirst, BackoffDirty
<1>7. Half = NoOp /\ Half' = IF BackoffDirty(boFile, op[p]) THEN op[p] ELSE NoOp
  BY <1>1, <1>3, <1>4, <1>6, HalfNow, HalfNext
<1>8. snapFile' \in {SnapshotsAfter(snapFile, op[p]), snapFile}
  BY Publishes DEF SaveSnapshotsFails
<1>9. QED BY <1>2, <1>4, <1>7, <1>8

\* The end of the second save closes it.
LEMMA SecondSide ==
  ASSUME IInv, NEW p \in Procs, ReplaceBackoffs(p) \/ SaveBackoffsFails(p)
  PROVE  /\ op[p] \in Op /\ BackoffDirty(boFile, op[p]) /\ snapFile' = snapFile
         /\ Half = op[p] /\ Half # NoOp /\ Half' = NoOp
<1> USE DEF Goto, SnapSteps, BoSteps, files
<1>p. pc \in [Procs -> Steps] BY DEF IInv, TypeOK
<1>h. pc[p] # "idle" => flock = p BY DEF IInv, Holder
<1>1. flock = p /\ flock' = p BY <1>h DEF ReplaceBackoffs, SaveBackoffsFails
<1>2. op[p] \in Op /\ pc[p] \in BoSteps /\ pc'[p] = "unlock"
  BY <1>p, Publishes DEF ReplaceBackoffs, SaveBackoffsFails
<1>3. HalfDone(p) /\ ~HalfDone(p)' /\ BackoffDirty(boFile, op[p])
  BY <1>2 DEF HalfDone, IInv, InMemory
<1>4. Half = op[p] /\ Half # NoOp /\ Half' = NoOp
  BY <1>1, <1>2, <1>3, HalfNow, HalfNext, DistinctAssumption
<1>5. QED BY <1>2, <1>3, <1>4, Publishes DEF SaveBackoffsFails

LEMMA CrashSide ==
  ASSUME IInv, NEW p \in Procs, Crash(p)
  PROVE  /\ UNCHANGED <<snapFile, boFile>> /\ Half' = NoOp
         /\ Half = IF HalfDone(p) THEN op[p] ELSE NoOp
<1>1. flock = p /\ flock' = NoProc /\ UNCHANGED <<snapFile, boFile>>
  BY DEF Crash, Forget, IInv, Holder, files
<1>2. QED BY <1>1, HalfNow, HalfFree

\* One concrete step is one abstract step or none.
LEMMA StepRefines == IInv /\ [Next]_vars => [Store!Next]_(Store!vars)
<1> SUFFICES ASSUME IInv, [Next]_vars PROVE [Store!Next]_(Store!vars) OBVIOUS
<1>1. ASSUME NEW p \in Procs, ReplaceSnapshots(p) \/ SaveSnapshotsFails(p) PROVE Store!Next
  <2>1. Store!StoreSnapshots(op[p])
    BY <1>1, FirstSide, StoreSame DEF Store!StoreSnapshots, Store!Remainder
  <2>2. QED BY <1>1, <2>1, FirstSide, StoreSame DEF Store!Next
<1>2. ASSUME NEW p \in Procs, ReplaceBackoffs(p) \/ SaveBackoffsFails(p) PROVE Store!Next
  <2>1. Store!StoreBackoffs \/ Store!Abandon
    BY <1>2, SecondSide, Publishes, StoreSame
    DEF Store!StoreBackoffs, Store!Abandon, SaveBackoffsFails, files
  <2>2. QED BY <2>1 DEF Store!Next
<1>3. ASSUME NEW p \in Procs, Crash(p) PROVE [Store!Next]_(Store!vars)
  BY <1>3, CrashSide DEF Store!Next, Store!Abandon, Store!vars
<1>4. CASE ~ \E p \in Procs : Saves(p) \/ Crash(p)
  BY <1>4, QuietSteps DEF Quiet, Store!vars
<1>5. QED BY <1>1, <1>2, <1>3, <1>4 DEF Saves

\* update_entry and _merge_results "merge ... atomically": the file protocol
\* implements the atomic store, with any number of writers.
THEOREM NoLostUpdateThm == Spec => NoLostUpdate
<1>1. Init => Store!Init
  <2> SUFFICES ASSUME Init PROVE Store!Init OBVIOUS
  <2>1. snapFile = Store!NoSnapshots /\ boFile = Store!NoBackoffs
    BY DEF Init, NoSnapshots, NoBackoffs, NoEntry, Store!NoSnapshots, Store!NoBackoffs, Store!NoEntry
  <2>2. Half = NoOp BY HalfFree DEF Init
  <2>3. QED BY <2>1, <2>2 DEF Store!Init
<1>2. QED BY <1>1, StepRefines, Inductive, PTL DEF Spec, Store!Spec, NoLostUpdate

\* The first side of a two-sided transaction on q is out, the second is not.
HalfOut(q) ==
  /\ Half # NoOp /\ Half.pool = q /\ TwoSided(Half)
  /\ snapFile[q].err = IF Half.kind = "success" THEN "none" ELSE "limited"

Settled(q) == PairAgrees(q) /\ (Half = NoOp \/ Half.pool # q)

PairInv == \A q \in Pools : halfway[q] \/ Settled(q) \/ HalfOut(q)

LEMMA EntryShows ==
  ASSUME NEW o \in Op, NEW e \in Entry, TwoSided(o)
  PROVE  EntryAfter(e, o).err = IF o.kind = "success" THEN "none" ELSE "limited"
BY DEF EntryAfter, Entry, TwoSided

LEMMA StepPairInv == IInv /\ PairInv /\ [Next]_vars => PairInv'
<1> SUFFICES ASSUME IInv, PairInv, [Next]_vars PROVE PairInv' OBVIOUS
<1>t. /\ snapFile \in Snapshots /\ boFile \in Backoffs
      /\ halfway \in [Pools -> BOOLEAN]
  BY DEF IInv, TypeOK, NeverTorn
<1>1. ASSUME NEW p \in Procs, ReplaceSnapshots(p) PROVE PairInv'
  <2>0. PICK o \in Op : o = op[p] BY <1>1, FirstSide
  <2>1. /\ o \in Op /\ o.pool \in Pools /\ boFile' = boFile
        /\ snapFile' = SnapshotsAfter(snapFile, o)
        /\ Half = NoOp /\ Half' = IF BackoffDirty(boFile, o) THEN o ELSE NoOp
    BY <1>1, <2>0, FirstSide, Publishes DEF Op
  <2>2. halfway' = IF BackoffDirty(boFile, o) THEN halfway
                   ELSE [halfway EXCEPT ![o.pool] = @ /\ ~TwoSided(o)]
    BY <1>1, <2>0 DEF ReplaceSnapshots, MarkWhole
  <2>3. ASSUME NEW q \in Pools, q # o.pool
        PROVE  halfway'[q] \/ Settled(q)'
    <3>1. snapFile'[q] = snapFile[q] /\ boFile'[q] = boFile[q] /\ halfway'[q] = halfway[q]
      BY <2>1, <2>2, <2>3, <1>t DEF SnapshotsAfter, Snapshots
    <3>2. ~HalfOut(q) BY <2>1 DEF HalfOut
    <3>3. Half' = NoOp \/ Half'.pool # q BY <2>1, <2>3
    <3>4. QED BY <3>1, <3>2, <3>3 DEF PairInv, Settled, PairAgrees
  <2>4. halfway'[o.pool] \/ Settled(o.pool)' \/ HalfOut(o.pool)'
    <3> DEFINE q == o.pool
    <3>1. snapFile'[q] = EntryAfter(snapFile[q], o) /\ snapFile[q] \in Entry /\ boFile[q] \in Nat
      BY <2>1, <1>t DEF SnapshotsAfter, Snapshots, Backoffs
    <3>2. CASE TwoSided(o) /\ BackoffDirty(boFile, o)
      BY <2>1, <3>1, <3>2, EntryShows, DistinctAssumption DEF HalfOut
    <3>3. CASE TwoSided(o) /\ ~BackoffDirty(boFile, o)
      <4>1. o.kind = "success" /\ boFile[q] = 0
        BY <3>1, <3>3 DEF TwoSided, BackoffDirty, CountAfter
      <4>2. snapFile'[q].err = "none" BY <4>1, <3>1, <3>3, <2>1, EntryShows
      <4>3. QED BY <3>3, <4>1, <4>2, <2>1 DEF Settled, PairAgrees
    <3>4. CASE ~TwoSided(o)
      <4>1. ~BackoffDirty(boFile, o) BY <3>4 DEF TwoSided, BackoffDirty, CountAfter
      <4>2. halfway'[q] = halfway[q] BY <4>1, <3>4, <2>1, <2>2, <1>t
      <4>3. ~HalfOut(q) BY <2>1 DEF HalfOut
      <4>4. CASE o.kind = "clear"
        <5>1. snapFile'[q].err = snapFile[q].err /\ snapFile'[q].snap = snapFile[q].snap
          BY <3>1, <4>4 DEF EntryAfter, Entry
        <5>2. QED BY <5>1, <4>1, <4>2, <4>3, <2>1 DEF PairInv, Settled, PairAgrees
      <4>5. CASE o.kind # "clear"
        <5>1. snapFile'[q].err = o.kind /\ o.kind \notin {"limited", "none"}
          BY <3>1, <3>4, <4>5, <2>1 DEF EntryAfter, Entry, TwoSided, Op, FailureKinds
        <5>2. QED BY <5>1, <4>1, <2>1 DEF Settled, PairAgrees
      <4>6. QED BY <4>4, <4>5
    <3>5. QED BY <3>2, <3>3, <3>4
  <2>5. QED BY <2>3, <2>4 DEF PairInv
<1>2. ASSUME NEW p \in Procs, SaveSnapshotsFails(p) PROVE PairInv'
  <2>0. PICK o \in Op : o = op[p] BY <1>2, FirstSide
  <2>1. /\ o.pool \in Pools /\ boFile' = boFile /\ snapFile' = snapFile
        /\ Half = NoOp /\ Half' = IF BackoffDirty(boFile, o) THEN o ELSE NoOp
    BY <1>2, <2>0, FirstSide DEF SaveSnapshotsFails, files, Op
  <2>2. halfway' = [halfway EXCEPT ![o.pool] = @ \/ TwoSided(o)]
    BY <1>2, <2>0 DEF SaveSnapshotsFails, MarkSplit
  <2>3. \A q \in Pools : halfway[q] \/ PairAgrees(q)
    BY <2>1 DEF PairInv, Settled, HalfOut
  <2>4. ~TwoSided(o) => Half' = NoOp
    BY <2>1 DEF TwoSided, BackoffDirty, CountAfter
  <2>5. \A q \in Pools : halfway'[q] \/ (PairAgrees(q)' /\ (Half' = NoOp \/ Half'.pool # q))
    BY <2>1, <2>2, <2>3, <2>4, <1>t DEF PairAgrees
  <2>6. QED BY <2>5 DEF PairInv, Settled
<1>3. ASSUME NEW p \in Procs, ReplaceBackoffs(p) PROVE PairInv'
  <2>0. PICK o \in Op : o = op[p] BY <1>3, SecondSide
  <2>1. /\ o \in Op /\ o.pool \in Pools /\ snapFile' = snapFile
        /\ boFile' = BackoffsAfter(boFile, o) /\ BackoffDirty(boFile, o)
        /\ Half = o /\ Half # NoOp /\ Half' = NoOp
    BY <1>3, <2>0, SecondSide, Publishes DEF Op
  <2>2. halfway' = IF snapFile[o.pool] = EntryAfter(snapFile[o.pool], o)
                     THEN [halfway EXCEPT ![o.pool] = @ /\ ~TwoSided(o)] ELSE halfway
    BY <1>3, <2>0 DEF ReplaceBackoffs, MarkWhole
  <2>3. ASSUME NEW q \in Pools, q # o.pool
        PROVE  halfway'[q] \/ Settled(q)'
    <3>1. snapFile'[q] = snapFile[q] /\ boFile'[q] = boFile[q] /\ halfway'[q] = halfway[q]
      BY <2>1, <2>2, <2>3, <1>t DEF BackoffsAfter, Backoffs
    <3>2. ~HalfOut(q) BY <2>1, <2>3 DEF HalfOut
    <3>3. Half' = NoOp \/ Half'.pool # q BY <2>1, <2>3
    <3>4. QED BY <3>1, <3>2, <3>3 DEF PairInv, Settled, PairAgrees
  <2>4. halfway'[o.pool] \/ Settled(o.pool)'
    <3> DEFINE q == o.pool
    <3>1. boFile'[q] = CountAfter(boFile[q], o) /\ snapFile[q] \in Entry /\ boFile[q] \in Nat
      BY <2>1, <1>t DEF BackoffsAfter, Backoffs, Snapshots
    <3>2. TwoSided(o) BY <2>1 DEF TwoSided, BackoffDirty, CountAfter
    <3>3. CASE HalfOut(q)
      <4>1. snapFile'[q].err = IF o.kind = "success" THEN "none" ELSE "limited"
        BY <3>3, <2>1 DEF HalfOut
      <4>2. CASE o.kind = "success"
        BY <2>1, <3>1, <4>1, <4>2 DEF CountAfter, Settled, PairAgrees
      <4>3. CASE o.kind = "limited"
        BY <2>1, <3>1, <4>1, <4>3 DEF CountAfter, Settled, PairAgrees
      <4>4. QED BY <3>2, <4>2, <4>3 DEF TwoSided
    <3>4. CASE ~HalfOut(q) /\ snapFile[q] = EntryAfter(snapFile[q], o)
      <4>1. snapFile'[q].err = IF o.kind = "success" THEN "none" ELSE "limited"
        BY <3>4, <3>1, <3>2, <2>1, EntryShows
      <4>2. CASE o.kind = "success"
        BY <2>1, <3>1, <4>1, <4>2 DEF CountAfter, Settled, PairAgrees
      <4>3. CASE o.kind = "limited"
        BY <2>1, <3>1, <4>1, <4>3 DEF CountAfter, Settled, PairAgrees
      <4>4. QED BY <3>2, <4>2, <4>3 DEF TwoSided
    <3>5. CASE ~HalfOut(q) /\ snapFile[q] # EntryAfter(snapFile[q], o)
      BY <3>5, <2>1, <2>2 DEF PairInv, Settled
    <3>6. QED BY <3>3, <3>4, <3>5
  <2>5. QED BY <2>3, <2>4 DEF PairInv
<1>4. ASSUME NEW p \in Procs, SaveBackoffsFails(p) PROVE PairInv'
  <2>1. /\ op[p] \in Op /\ op[p].pool \in Pools /\ boFile' = boFile /\ snapFile' = snapFile
        /\ Half = op[p] /\ Half' = NoOp
    BY <1>4, SecondSide DEF SaveBackoffsFails, files, Op
  <2>2. halfway' = [halfway EXCEPT ![op[p].pool] = @ \/ TwoSided(op[p])]
    BY <1>4 DEF SaveBackoffsFails, MarkSplit
  <2>3. \A q \in Pools : halfway'[q] \/ PairAgrees(q)
    BY <2>1, <2>2, <1>t DEF PairInv, Settled, HalfOut
  <2>4. QED BY <2>1, <2>3 DEF PairInv, Settled, PairAgrees
<1>5. ASSUME NEW p \in Procs, Crash(p) PROVE PairInv'
  <2>1. /\ UNCHANGED <<snapFile, boFile>> /\ Half' = NoOp
        /\ Half = IF HalfDone(p) THEN op[p] ELSE NoOp
    BY <1>5, CrashSide
  <2>2. CASE HalfDone(p)
    <3>1. halfway' = [halfway EXCEPT ![op[p].pool] = @ \/ TwoSided(op[p])]
      BY <1>5, <2>2 DEF Crash, MarkSplit
    <3>2. \A q \in Pools : halfway'[q] \/ PairAgrees(q)
      BY <2>1, <2>2, <3>1, <1>t DEF PairInv, Settled, HalfOut
    <3>3. QED BY <2>1, <3>2 DEF PairInv, Settled, PairAgrees
  <2>3. CASE ~HalfDone(p)
    BY <1>5, <2>1, <2>3 DEF Crash, PairInv, Settled, PairAgrees, HalfOut
  <2>4. QED BY <2>2, <2>3
<1>6. CASE ~ \E p \in Procs : Saves(p) \/ Crash(p)
  BY <1>6, QuietSteps DEF Quiet, PairInv, Settled, PairAgrees, HalfOut
<1>7. QED BY <1>1, <1>2, <1>3, <1>4, <1>5, <1>6 DEF Saves

\* The two documents agree about a pool whenever the lock is free and no death
\* or failed save split its last transaction (update_entry, record_failure,
\* _merge_results).
THEOREM PairConsistentThm == Spec => []PairConsistent
<1>1. Init => PairInv
  <2> SUFFICES ASSUME Init, NEW q \in Pools PROVE Settled(q) BY DEF PairInv
  <2>1. snapFile[q] = NoEntry BY DEF Init, NoSnapshots
  <2>2. Half = NoOp BY HalfFree DEF Init
  <2>3. QED BY <2>1, <2>2 DEF NoEntry, Settled, PairAgrees
<1>2. IInv /\ PairInv => PairConsistent
  BY HalfFree DEF PairInv, Settled, PairConsistent, HalfOut
<1>3. QED BY <1>1, <1>2, StepPairInv, Inductive, PTL DEF Spec
============================================================================
