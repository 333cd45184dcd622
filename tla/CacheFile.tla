----------------------------- MODULE CacheFile -----------------------------
(***************************************************************************)
(* The host cache at file level (cache.py): processes that merge one       *)
(* pool's result into snapshots.json and backoff.json.  Each transaction   *)
(* takes the flock of snapshots.lock, reads, writes a temporary file of a  *)
(* fixed name, renames it over the document, and does the same to the      *)
(* second document when that one changed.  A process may die between any   *)
(* two steps (the kernel then drops its flock, the temporary file stays)   *)
(* and a save may fail (the OSError is swallowed).                         *)
(***************************************************************************)
EXTENDS StoreOps

CONSTANTS
  Procs,      \* processes that write the cache
  NoProc,     \* nobody holds snapshots.lock
  NoOp,       \* an idle process
  Torn,       \* a document that does not parse: being written, or half written
  NoFile,     \* the temporary file does not exist
  MaxCount,   \* bound: consecutive failures a new transaction may still bump
  Work        \* bound: the transactions that are tried

ASSUME DistinctAssumption ==
  /\ NoProc \notin Procs
  /\ NoOp \notin Op
  /\ Torn \notin Snapshots \union Backoffs
  /\ NoFile \notin Snapshots \union Backoffs
  /\ MaxCount \in Nat

ASSUME WorkAssumption == Work \subseteq Op

VARIABLES
  snapFile, snapTmp,   \* snapshots.json and snapshots.tmp
  boFile, boTmp,       \* backoff.json and backoff.tmp
  flock,               \* the holder of snapshots.lock
  pc, op,              \* per process: next step and transaction
  data, bo,            \* per process: the documents in its memory
  halfway              \* history: pools a death or a failed save left half done

vars == <<snapFile, snapTmp, boFile, boTmp, flock, pc, op, data, bo, halfway>>
files == <<snapFile, snapTmp, boFile, boTmp>>

SnapSteps == {"write", "flush", "replace"}
BoSteps   == {"bwrite", "bflush", "breplace"}
Steps     == {"idle", "load", "loadbo", "unlock"} \union SnapSteps \union BoSteps

Init ==
  /\ snapFile = NoSnapshots /\ snapTmp = NoFile
  /\ boFile = NoBackoffs /\ boTmp = NoFile
  /\ flock = NoProc
  /\ pc = [p \in Procs |-> "idle"]
  /\ op = [p \in Procs |-> NoOp]
  /\ data = [p \in Procs |-> NoSnapshots]
  /\ bo = [p \in Procs |-> NoBackoffs]
  /\ halfway = [q \in Pools |-> FALSE]

Goto(p, from, to) == pc[p] = from /\ pc' = [pc EXCEPT ![p] = to]

\* _load and _load_backoff answer an empty document for one that does not parse.
ParseSnapshots(f) == IF f = Torn THEN NoSnapshots ELSE f
ParseBackoffs(f)  == IF f = Torn THEN NoBackoffs ELSE f

\* Slip: the lock file is opened and not locked.
AcquireUnlocked(p, o) ==
  /\ o.kind = "limited" => boFile[o.pool] < MaxCount
  /\ Goto(p, "idle", "load")
  /\ flock' = p
  /\ op' = [op EXCEPT ![p] = o]
  /\ UNCHANGED <<files, data, bo, halfway>>

\* _exclusive_cache_lock: a blocking LOCK_EX on the lock file.
Acquire(p, o) ==
  /\ flock = NoProc
  /\ o.kind = "limited" => boFile[o.pool] < MaxCount
  /\ Goto(p, "idle", "load")
  /\ flock' = p
  /\ op' = [op EXCEPT ![p] = o]
  /\ UNCHANGED <<files, data, bo, halfway>>

LoadSnapshots(p) ==
  LET read == ParseSnapshots(snapFile)
      next == IF ~SnapshotsDirty(read, op[p]) THEN "unlock"
              ELSE IF LoadsBothFirst(op[p]) THEN "loadbo" ELSE "write"
  IN /\ Goto(p, "load", next)
     /\ data' = [data EXCEPT ![p] = SnapshotsAfter(read, op[p])]
     /\ UNCHANGED <<files, flock, op, bo, halfway>>

\* Before the first save for a collector, after it for a worker.
LoadBackoffs(p) ==
  LET read == ParseBackoffs(boFile)
      next == IF LoadsBothFirst(op[p]) THEN "write"
              ELSE IF BackoffDirty(read, op[p]) THEN "bwrite" ELSE "unlock"
  IN /\ Goto(p, "loadbo", next)
     /\ bo' = [bo EXCEPT ![p] = BackoffsAfter(read, op[p])]
     /\ UNCHANGED <<files, flock, op, data, halfway>>

\* Only a success and a backoffable failure touch both documents.
TwoSided(o) == o.kind \in {"success", "limited"}

\* Where a transaction goes once its first save is over.
AfterFirstSave(p) ==
  IF LoadsBothFirst(op[p])
    THEN IF BackoffDirty(boFile, op[p]) THEN "bwrite" ELSE "unlock"
    ELSE IF TwoSided(op[p]) THEN "loadbo" ELSE "unlock"

\* The first save is over and the second document still has to change.
HalfDone(p) ==
  /\ pc[p] \in BoSteps \/ (pc[p] = "loadbo" /\ ~LoadsBothFirst(op[p]))
  /\ BackoffDirty(boFile, op[p])

MarkSplit(p) ==
  halfway' = [halfway EXCEPT ![op[p].pool] = @ \/ TwoSided(op[p])]

MarkWhole(p) ==
  halfway' = [halfway EXCEPT ![op[p].pool] = @ /\ ~TwoSided(op[p])]

\* Slip: renamed before it is written out.
WriteSnapTmpUnflushed(p) ==
  /\ Goto(p, "write", "replace")
  /\ snapTmp' = Torn
  /\ UNCHANGED <<snapFile, boFile, boTmp, flock, op, data, bo, halfway>>

WriteSnapTmp(p) ==
  /\ Goto(p, "write", "flush")
  /\ snapTmp' = Torn
  /\ UNCHANGED <<snapFile, boFile, boTmp, flock, op, data, bo, halfway>>

FlushSnapTmp(p) ==
  /\ Goto(p, "flush", "replace")
  /\ snapTmp' = data[p]
  /\ UNCHANGED <<snapFile, boFile, boTmp, flock, op, data, bo, halfway>>

ReplaceSnapshots(p) ==
  /\ Goto(p, "replace", AfterFirstSave(p))
  /\ snapFile' = snapTmp
  /\ snapTmp' = NoFile
  /\ IF BackoffDirty(boFile, op[p]) THEN UNCHANGED halfway ELSE MarkWhole(p)
  /\ UNCHANGED <<boFile, boTmp, flock, op, data, bo>>

\* Slip: the failed save is tried again until it works.
SaveSnapshotsRetried(p) ==
  /\ pc[p] \in SnapSteps
  /\ pc' = [pc EXCEPT ![p] = "write"]
  /\ MarkSplit(p)
  /\ UNCHANGED <<files, flock, op, data, bo>>

\* The OSError of a save is swallowed and the transaction goes on.
SaveSnapshotsFails(p) ==
  /\ pc[p] \in SnapSteps
  /\ pc' = [pc EXCEPT ![p] = AfterFirstSave(p)]
  /\ MarkSplit(p)
  /\ UNCHANGED <<files, flock, op, data, bo>>

WriteBoTmp(p) ==
  /\ Goto(p, "bwrite", "bflush")
  /\ boTmp' = Torn
  /\ UNCHANGED <<snapFile, snapTmp, boFile, flock, op, data, bo, halfway>>

FlushBoTmp(p) ==
  /\ Goto(p, "bflush", "breplace")
  /\ boTmp' = bo[p]
  /\ UNCHANGED <<snapFile, snapTmp, boFile, flock, op, data, bo, halfway>>

ReplaceBackoffs(p) ==
  /\ Goto(p, "breplace", "unlock")
  /\ boFile' = boTmp
  /\ boTmp' = NoFile
  /\ IF snapFile[op[p].pool] = EntryAfter(snapFile[op[p].pool], op[p])
       THEN MarkWhole(p) ELSE UNCHANGED halfway
  /\ UNCHANGED <<snapFile, snapTmp, flock, op, data, bo>>

SaveBackoffsFails(p) ==
  /\ pc[p] \in BoSteps
  /\ pc' = [pc EXCEPT ![p] = "unlock"]
  /\ MarkSplit(p)
  /\ UNCHANGED <<files, flock, op, data, bo>>

\* The memory of a process that left the transaction.
Forget(p) ==
  /\ pc' = [pc EXCEPT ![p] = "idle"]
  /\ op' = [op EXCEPT ![p] = NoOp]
  /\ data' = [data EXCEPT ![p] = NoSnapshots]
  /\ bo' = [bo EXCEPT ![p] = NoBackoffs]
  /\ flock' = NoProc

Unlock(p) ==
  /\ pc[p] = "unlock"
  /\ Forget(p)
  /\ UNCHANGED <<files, halfway>>

\* SIGKILL or the worker's own timeout; another process takes p's place.
Crash(p) ==
  /\ pc[p] \notin {"idle", "unlock"}
  /\ Forget(p)
  /\ IF HalfDone(p) THEN MarkSplit(p) ELSE UNCHANGED halfway
  /\ UNCHANGED files

Step(p) ==
  \/ LoadSnapshots(p) \/ LoadBackoffs(p)
  \/ WriteSnapTmp(p) \/ FlushSnapTmp(p) \/ ReplaceSnapshots(p) \/ SaveSnapshotsFails(p)
  \/ WriteBoTmp(p) \/ FlushBoTmp(p) \/ ReplaceBackoffs(p) \/ SaveBackoffsFails(p)
  \/ Unlock(p)

Next == \E p \in Procs : (\E o \in Work : Acquire(p, o)) \/ Step(p) \/ Crash(p)

Spec == Init /\ [][Next]_vars

\* A process inside the transaction is scheduled until it leaves it.
Fairness == \A p \in Procs : WF_vars(Step(p))

FairSpec == Spec /\ Fairness
----------------------------------------------------------------------------
TypeOK ==
  /\ snapFile \in Snapshots \union {Torn}
  /\ snapTmp \in Snapshots \union {Torn, NoFile}
  /\ boFile \in Backoffs \union {Torn}
  /\ boTmp \in Backoffs \union {Torn, NoFile}
  /\ flock \in Procs \union {NoProc}
  /\ pc \in [Procs -> Steps]
  /\ op \in [Procs -> Op \union {NoOp}]
  /\ data \in [Procs -> Snapshots]
  /\ bo \in [Procs -> Backoffs]
  /\ halfway \in [Pools -> BOOLEAN]

\* A reader never takes the lock before its scan (collect's first _load), and a
\* document that does not parse reads as empty: publishing one would drop every
\* pool.  The rename of the one shared temporary name is never caught half way.
NeverTorn == snapFile # Torn /\ boFile # Torn

\* While nobody is inside a transaction, a pool no death or failed save split
\* has an open backoff record if its last failure was a limit, and none if a
\* success was the last thing recorded.
PairAgrees(q) ==
  /\ snapFile[q].err = "limited" => boFile[q] > 0
  /\ snapFile[q].err = "none" /\ snapFile[q].snap # NoValue => boFile[q] = 0
PairConsistent ==
  flock = NoProc => \A q \in Pools : halfway[q] \/ PairAgrees(q)

\* A failure, however recorded, never replaces the last good measurement
\* (_audit_failure), and no save drops one: a stored measurement only ever
\* gives way to another one.
SnapshotKept ==
  [][\A q \in Pools : snapFile[q].snap # NoValue => snapFile'[q].snap # NoValue]_vars

\* The strengthening the proofs need: who holds the lock, and what its memory
\* and its temporary files hold at each step.
Holder == \A p \in Procs : pc[p] # "idle" <=> flock = p

InMemory ==
  \A p \in Procs :
    /\ pc[p] # "idle" => op[p] \in Op
    /\ pc[p] \in SnapSteps \/ (pc[p] = "loadbo" /\ LoadsBothFirst(op[p]))
         => data[p] = SnapshotsAfter(snapFile, op[p])
    /\ pc[p] = "replace" => snapTmp = data[p]
    /\ pc[p] \in BoSteps \/ (pc[p] \in SnapSteps /\ LoadsBothFirst(op[p]))
         => bo[p] = BackoffsAfter(boFile, op[p])
    /\ pc[p] \in BoSteps => BackoffDirty(boFile, op[p])
    /\ pc[p] = "breplace" => boTmp = bo[p]

IInv == TypeOK /\ NeverTorn /\ Holder /\ InMemory

\* snapshots.lock is handed on again and again: no death leaves it held.
LockAlwaysFreed == []<>(flock = NoProc)

\* The transaction in progress, between its two documents.
Half == IF flock \in Procs /\ HalfDone(flock) THEN op[flock] ELSE NoOp

\* No update is lost: every transaction changes its own pool of the current
\* documents, whatever the others were doing (update_entry, _merge_results:
\* "merge one freshly fetched pool into the cache atomically").
Store == INSTANCE AtomicStore
           WITH snapshots <- snapFile, backoffs <- boFile, half <- Half
NoLostUpdate == Store!Spec
============================================================================
