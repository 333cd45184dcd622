------------------------------ MODULE Collect ------------------------------
(***************************************************************************)
(* How one pool of the host cache is measured (cache.collect and           *)
(* refresh.run_worker).  Collectors freeze their clock when they start,    *)
(* scan the two documents without a lock, take the pool's collect lock     *)
(* without blocking, check again, fetch, merge and only then let go.       *)
(* Refresh workers hold another lock, so a worker's fetch and a            *)
(* collector's overlap.  Every locked transaction on the documents is one  *)
(* step here: module CacheFile shows the files behave so.                  *)
(***************************************************************************)
EXTENDS Integers, FiniteSets

CONSTANTS
  Collectors, Workers,   \* processes of each kind
  Nobody,                \* a free lock
  TTL,                   \* PROVIDER_TTL_S of the pool
  StaleMax,              \* STALE_MAX_S
  NegativeTTL,           \* NEGATIVE_TTL_S
  BackoffBase, BackoffMax,
  MaxConsecutive,        \* bound: failures counted before the delay is capped anyway
  WorkerTimeout,         \* the refresh worker's itimer
  RetryAfters,           \* what a 429 may ask for; 0 is no Retry-After
  Horizon                \* bound: ticks of the clock

ASSUME ConstantsAssumption ==
  /\ {TTL, StaleMax, NegativeTTL, BackoffBase, BackoffMax, WorkerTimeout, Horizon} \subseteq Nat
  /\ MaxConsecutive \in Nat \ {0}
  /\ BackoffBase * 2^(MaxConsecutive - 1) >= BackoffMax
  /\ \A n \in 1..MaxConsecutive : BackoffBase * 2^(n - 1) \in Nat
  /\ Collectors \intersect Workers = {}
  /\ RetryAfters \subseteq Nat
  /\ Nobody \notin Collectors \union Workers
  /\ TTL <= StaleMax

VARIABLES
  clock,      \* time.time()
  entry,      \* the pool's entry of snapshots.json
  backoff,    \* the pool's record of backoff.json
  collectLock, refreshLock,
  pc,         \* per process: the next step
  start,      \* per process: its frozen now
  useCache,   \* per collector: not --no-cache
  seen,       \* per collector: the entry its scan read
  got,        \* per process: what the fetch answered
  served,     \* per collector: the result it is about to return
  asked,      \* history, per process: when its request left
  crossed     \* history, per collector: a worker wrote since its recheck

vars == <<clock, entry, backoff, collectLock, refreshLock, pc, start, useCache,
          seen, got, served, asked, crossed>>

locks == <<collectLock, refreshLock>>
store == <<entry, backoff>>
local == <<start, useCache, seen, got, asked, crossed>>

Procs == Collectors \union Workers

\* The clock starts far enough from 0 for "fetched_at: 0" to be ancient.
Epoch == StaleMax + 1
Times == Epoch .. Epoch + Horizon

Kinds == {"limited", "broken", "warned"}

\* at is fetched_at, 0 when the entry holds no measurement; asked is when the
\* stored measurement's request left (not in the file); neg is negative_until.
NoEntry   == [at |-> 0, asked |-> 0, err |-> "none", errAt |-> 0, neg |-> 0]
NoBackoff == [n |-> 0, until |-> 0]

NoResult == [as |-> "none", by |-> "none", at |-> 0, asked |-> 0, err |-> "none"]
NoAnswer == [kind |-> "none", after |-> 0]

\* Answers of a provider (outside this code): a measurement, a warning, a 429 or
\* another backoffable failure, any other failure, or "my own probe is running".
Answers == [kind : {"ok", "warned", "broken", "busy"}, after : {0}]
           \union [kind : {"limited"}, after : RetryAfters]

\* "result.error or result.warning", the running probe set aside.
Failed(a) == a.kind \in Kinds

Init ==
  /\ clock = Epoch
  /\ entry = NoEntry /\ backoff = NoBackoff
  /\ collectLock = Nobody /\ refreshLock = Nobody
  /\ pc = [p \in Procs |-> "idle"]
  /\ start = [p \in Procs |-> 0]
  /\ useCache = [c \in Collectors |-> TRUE]
  /\ seen = [c \in Collectors |-> NoEntry]
  /\ got = [p \in Procs |-> NoAnswer]
  /\ served = [c \in Collectors |-> NoResult]
  /\ asked = [p \in Procs |-> 0]
  /\ crossed = [c \in Collectors |-> FALSE]

Goto(p, from, to) == pc[p] = from /\ pc' = [pc EXCEPT ![p] = to]
----------------------------------------------------------------------------
(* The store's transactions.                                               *)

Min0(a, b) == IF a < b THEN a ELSE b

\* _bump_backoff: a positive Retry-After as it is, else the capped exponential.
Delay(n, after) == IF after > 0 THEN after
                   ELSE Min0(BackoffBase * 2^(n - 1), BackoffMax)

Bumped(b, after, now) ==
  LET n == Min0(b.n + 1, MaxConsecutive)
  IN  [n |-> n, until |-> now + Delay(n, after)]

\* _to_entry: what a success leaves.
Measured(now, sent) == [NoEntry EXCEPT !.at = now, !.asked = sent]

\* Slip: a failure that opens no negative window leaves the old one.
AuditedKeepingStamp(e, kind, now) ==
  [e EXCEPT !.err = kind, !.errAt = now,
            !.neg = IF kind = "broken" THEN now + NegativeTTL ELSE @]

\* _audit_failure and the negative window; a failure never touches at.
Audited(e, kind, now) ==
  [e EXCEPT !.err = kind, !.errAt = now,
            !.neg = IF kind = "broken" THEN now + NegativeTTL ELSE 0]

\* update_entry and the success half of _merge_results: backoff is popped.
StoreSuccess(p, now) ==
  /\ entry' = Measured(now, asked[p])
  /\ backoff' = NoBackoff

\* record_failure and the failure half of _merge_results, stamped with the
\* moment the process started.
StoreFailure(p, now) ==
  /\ entry' = Audited(entry, got[p].kind, now)
  /\ backoff' = IF got[p].kind = "limited" THEN Bumped(backoff, got[p].after, now) ELSE backoff
----------------------------------------------------------------------------
(* What a collector returns.                                               *)

Age(e, now) == now - e.at

FromEntry(e, as, by, err) ==
  [as |-> as, by |-> by, at |-> e.at, asked |-> e.asked, err |-> err]

Failure(by, err) == [NoResult EXCEPT !.as = "error", !.by = by, !.err = err]

\* The last good measurement, marked stale, while it is not too old.
Fallback(e, now, by, err) ==
  IF e.at # 0 /\ Age(e, now) <= StaleMax
    THEN FromEntry(e, "stale", by, err) ELSE Failure(by, err)

\* _in_progress_result, on the entry as it is now.
InProgress(e, now) ==
  IF e = NoEntry THEN Failure("progress", "busy")
  ELSE IF e.err # "none" /\ e.errAt > e.at THEN FromEntry(e, "stale", "progress", e.err)
  ELSE IF Age(e, now) <= TTL      THEN FromEntry(e, "fresh", "progress", "none")
  ELSE IF Age(e, now) <= StaleMax THEN FromEntry(e, "stale", "progress", "busy")
  ELSE Failure("progress", "busy")

FreshFor(c, e)     == useCache[c] /\ e.at # 0 /\ Age(e, start[c]) <= TTL
WindowOpen(b, now) == b.until > now
NegativeOpen(e, now) == e.neg > now

\* What the call knew is gone once it has its result.
DropLocals(p) ==
  /\ got' = [got EXCEPT ![p] = NoAnswer]
  /\ asked' = [asked EXCEPT ![p] = 0]
  /\ IF p \in Collectors
       THEN /\ useCache' = [useCache EXCEPT ![p] = TRUE]
            /\ seen' = [seen EXCEPT ![p] = NoEntry]
            /\ crossed' = [crossed EXCEPT ![p] = FALSE]
       ELSE UNCHANGED <<useCache, seen, crossed>>

Finish(c, from, r) ==
  /\ Goto(c, from, "done")
  /\ served' = [served EXCEPT ![c] = r]
  /\ DropLocals(c)
  /\ UNCHANGED <<clock, start, refreshLock>>

\* The process is gone, or starts its next call from nothing.
Forget(p) ==
  /\ pc' = [pc EXCEPT ![p] = "idle"]
  /\ start' = [start EXCEPT ![p] = 0]
  /\ DropLocals(p)
  /\ served' = [c \in Collectors |-> IF c = p THEN NoResult ELSE served[c]]
----------------------------------------------------------------------------
(* Collectors.  Whether the policy lets the pool be probed is read from    *)
(* config.toml, which an operator may edit at any moment: both branches    *)
(* are open at the scan, and at a worker's start.                          *)

\* collect() starts: now is read once, snapshots.json is loaded without a lock.
Begin(c) ==
  /\ Goto(c, "idle", "scan")
  /\ start' = [start EXCEPT ![c] = clock]
  /\ \E u \in BOOLEAN : useCache' = [useCache EXCEPT ![c] = u]
  /\ seen' = [seen EXCEPT ![c] = entry]
  /\ UNCHANGED <<clock, store, locks, got, served, asked, crossed>>

\* The skip rule comes first and drops a stamp the scan saw (_clear_negative
\* pops it from the entry as it is by then).
ScanSkipped(c) ==
  /\ Finish(c, "scan", Failure("policy", "skipped"))
  /\ entry' = IF seen[c].neg # 0 THEN [entry EXCEPT !.neg = 0] ELSE entry
  /\ UNCHANGED <<backoff, collectLock>>

\* Then the TTL, the backoff window and the negative window, in this order.
ScanServes(c) ==
  /\ \/ /\ FreshFor(c, seen[c])
        /\ Finish(c, "scan", FromEntry(seen[c], "fresh", "cache", "none"))
     \/ /\ ~FreshFor(c, seen[c]) /\ WindowOpen(backoff, start[c])
        /\ Finish(c, "scan", Fallback(seen[c], start[c], "backoff", "limited"))
     \/ /\ ~FreshFor(c, seen[c]) /\ ~WindowOpen(backoff, start[c])
        /\ NegativeOpen(seen[c], start[c])
        /\ Finish(c, "scan", Fallback(seen[c], start[c], "negative", seen[c].err))
  /\ UNCHANGED <<store, collectLock>>

ScanMisses(c) ==
  /\ ~FreshFor(c, seen[c]) /\ ~WindowOpen(backoff, start[c]) /\ ~NegativeOpen(seen[c], start[c])
  /\ Goto(c, "scan", "lock")
  /\ UNCHANGED <<clock, store, locks, local, served>>

\* single_probe_lock without blocking.
TakeLock(c) ==
  /\ collectLock = Nobody
  /\ Goto(c, "lock", "recheck")
  /\ collectLock' = c
  /\ UNCHANGED <<clock, store, refreshLock, local, served>>

\* Slip: the collect lock is waited for.
WaitForLock(c) ==
  /\ collectLock # Nobody
  /\ FALSE

MissLock(c) ==
  /\ collectLock # Nobody
  /\ Goto(c, "lock", "progress")
  /\ UNCHANGED <<clock, store, locks, local, served>>

\* Both documents again, under the cache lock: a window opened meanwhile or a
\* snapshot dropped meanwhile is served without a request.
RecheckServes(c) ==
  /\ \/ /\ WindowOpen(backoff, start[c])
        /\ Finish(c, "recheck", Fallback(entry, start[c], "backoff", "limited"))
     \/ /\ ~WindowOpen(backoff, start[c]) /\ NegativeOpen(entry, start[c])
        /\ Finish(c, "recheck", Fallback(entry, start[c], "negative", entry.err))
     \/ /\ ~WindowOpen(backoff, start[c]) /\ ~NegativeOpen(entry, start[c])
        /\ FreshFor(c, entry)
        /\ Finish(c, "recheck", FromEntry(entry, "fresh", "cache", "none"))
  /\ collectLock' = Nobody
  /\ UNCHANGED store

\* Slip: the scan is believed and nothing is checked again under the lock.
FetchUnchecked(c) ==
  /\ Goto(c, "recheck", "fetch")
  /\ asked' = [asked EXCEPT ![c] = clock]
  /\ crossed' = [crossed EXCEPT ![c] = FALSE]
  /\ UNCHANGED <<clock, store, locks, start, useCache, seen, got, served>>

RecheckMisses(c) ==
  /\ ~WindowOpen(backoff, start[c]) /\ ~NegativeOpen(entry, start[c]) /\ ~FreshFor(c, entry)
  /\ Goto(c, "recheck", "fetch")
  /\ asked' = [asked EXCEPT ![c] = clock]
  /\ crossed' = [crossed EXCEPT ![c] = FALSE]
  /\ UNCHANGED <<clock, store, locks, start, useCache, seen, got, served>>

Answer(p) ==
  /\ Goto(p, "fetch", "merge")
  /\ \E a \in Answers : got' = [got EXCEPT ![p] = a]
  /\ UNCHANGED <<clock, store, locks, start, useCache, seen, asked, crossed, served>>

\* Slip: this early exit forgets the lock.
MergeBusyKeepingLock(c) ==
  /\ got[c].kind = "busy"
  /\ Goto(c, "merge", "progress")
  /\ UNCHANGED <<clock, store, locks, local, served>>

\* A probe of the provider's own is running: nothing is recorded.
MergeBusy(c) ==
  /\ got[c].kind = "busy"
  /\ Goto(c, "merge", "progress")
  /\ collectLock' = Nobody
  /\ UNCHANGED <<clock, store, refreshLock, local, served>>

MergeSuccess(c) ==
  /\ got[c].kind = "ok"
  /\ Finish(c, "merge", [as |-> "fresh", by |-> "live", at |-> start[c],
                         asked |-> asked[c], err |-> "none"])
  /\ StoreSuccess(c, start[c])
  /\ collectLock' = Nobody

\* A failed attempt falls back on the entry of the scan; a warned one is
\* returned as it came.
MergeFailure(c) ==
  /\ Failed(got[c])
  /\ Finish(c, "merge",
       IF got[c].kind = "warned"
         THEN [as |-> "warned", by |-> "live", at |-> 0, asked |-> asked[c], err |-> "warned"]
         ELSE Fallback(seen[c], start[c], "live", got[c].kind))
  /\ StoreFailure(c, start[c])
  /\ collectLock' = Nobody

ServeInProgress(c) ==
  /\ Finish(c, "progress", InProgress(entry, start[c]))
  /\ UNCHANGED <<store, collectLock>>

Return(c) ==
  /\ pc[c] = "done"
  /\ Forget(c)
  /\ UNCHANGED <<clock, store, locks>>
----------------------------------------------------------------------------
(* Refresh workers.                                                        *)

\* run_worker: the skip rule, then pool_lock without blocking, then the clock.
WorkerBegin(w) ==
  /\ refreshLock = Nobody
  /\ Goto(w, "idle", "check")
  /\ refreshLock' = w
  /\ start' = [start EXCEPT ![w] = clock]
  /\ UNCHANGED <<clock, store, collectLock, useCache, seen, got, asked, crossed, served>>

\* backoff_remaining; the negative window does not stop an explicit refresh.
WorkerRefrains(w) ==
  /\ WindowOpen(backoff, start[w])
  /\ pc[w] = "check"
  /\ Forget(w)
  /\ refreshLock' = Nobody
  /\ UNCHANGED <<clock, store, collectLock>>

WorkerAsks(w) ==
  /\ ~WindowOpen(backoff, start[w])
  /\ Goto(w, "check", "fetch")
  /\ asked' = [asked EXCEPT ![w] = clock]
  /\ UNCHANGED <<clock, store, locks, start, got, useCache, seen, served, crossed>>

\* A failure is stamped with the start, a success with its completion; whoever
\* is between recheck and merge has been crossed.
WorkerStores(w) ==
  /\ got[w].kind # "busy"
  /\ Goto(w, "merge", "release")
  /\ IF got[w].kind = "ok" THEN StoreSuccess(w, clock) ELSE StoreFailure(w, start[w])
  /\ crossed' = [c \in Collectors |-> crossed[c] \/ pc[c] \in {"fetch", "merge"}]
  /\ UNCHANGED <<clock, locks, start, useCache, seen, got, asked, served>>

WorkerLeaves(w) ==
  /\ pc[w] = "release" \/ (pc[w] = "merge" /\ got[w].kind = "busy")
  /\ Forget(w)
  /\ refreshLock' = Nobody
  /\ UNCHANGED <<clock, store, collectLock>>
----------------------------------------------------------------------------
(* The world.                                                              *)

\* Slip: the itimer is never armed.
NeverExpires(w) == FALSE

\* The alarm kills a worker at its deadline, whatever it is doing.
Expired(w) == pc[w] # "idle" /\ clock - start[w] >= WorkerTimeout

Tick ==
  /\ clock < Epoch + Horizon
  /\ \A w \in Workers : ~Expired(w)
  /\ clock' = clock + 1
  /\ UNCHANGED <<store, locks, pc, local, served>>

\* SIGKILL, or the worker's own timeout handler: the kernel frees the locks.
Crash(p) ==
  /\ pc[p] \notin {"idle", "done"}
  /\ Forget(p)
  /\ collectLock' = IF collectLock = p THEN Nobody ELSE collectLock
  /\ refreshLock' = IF refreshLock = p THEN Nobody ELSE refreshLock
  /\ UNCHANGED <<clock, store>>

CollectorStep(c) ==
  \/ ScanSkipped(c) \/ ScanServes(c) \/ ScanMisses(c) \/ TakeLock(c) \/ MissLock(c)
  \/ RecheckServes(c) \/ RecheckMisses(c) \/ Answer(c)
  \/ MergeBusy(c) \/ MergeSuccess(c) \/ MergeFailure(c) \/ ServeInProgress(c) \/ Return(c)

WorkerStep(w) ==
  WorkerRefrains(w) \/ WorkerAsks(w) \/ Answer(w) \/ WorkerStores(w) \/ WorkerLeaves(w)

Next ==
  \/ \E c \in Collectors : Begin(c) \/ CollectorStep(c)
  \/ \E w \in Workers : WorkerBegin(w) \/ WorkerStep(w)
  \/ \E p \in Procs : Crash(p)
  \/ Tick

Spec == Init /\ [][Next]_vars

\* A process in the middle of a call goes on; nobody has to start one.
Fairness ==
  /\ \A c \in Collectors : WF_vars(CollectorStep(c))
  /\ \A w \in Workers : WF_vars(WorkerStep(w))

FairSpec == Spec /\ Fairness
----------------------------------------------------------------------------
CollectorSteps == {"idle", "scan", "lock", "recheck", "fetch", "merge", "progress", "done"}
WorkerSteps    == {"idle", "check", "fetch", "merge", "release"}

EntryType  == [at : Nat, asked : Nat, err : Kinds \union {"none"}, errAt : Nat, neg : Nat]
ResultType == [as  : {"none", "fresh", "stale", "warned", "error"},
               by  : {"none", "cache", "live", "backoff", "negative", "progress", "policy"},
               at  : Nat, asked : Nat,
               err : Kinds \union {"none", "busy", "skipped"}]

TypeOK ==
  /\ clock \in Times
  /\ entry \in EntryType
  /\ backoff \in [n : 0..MaxConsecutive, until : Nat]
  /\ collectLock \in Collectors \union {Nobody}
  /\ refreshLock \in Workers \union {Nobody}
  /\ pc \in [Procs -> CollectorSteps \union WorkerSteps]
  /\ \A c \in Collectors : pc[c] \in CollectorSteps
  /\ \A w \in Workers : pc[w] \in WorkerSteps
  /\ start \in [Procs -> Nat]
  /\ useCache \in [Collectors -> BOOLEAN]
  /\ seen \in [Collectors -> EntryType]
  /\ got \in [Procs -> Answers \union {NoAnswer}]
  /\ served \in [Collectors -> ResultType]
  /\ asked \in [Procs -> Nat]
  /\ crossed \in [Collectors -> BOOLEAN]

\* While a collector's request is out, no window it should have respected is on
\* disk and, with the cache on, no snapshot that would have spared the request,
\* except for what a refresh worker wrote since the recheck: the collect lock
\* keeps every other collector away until the merge (probed, "per-pool single
\* flight").
FetchJustified ==
  \A c \in Collectors : pc[c] \in {"fetch", "merge"} =>
    \/ crossed[c]
    \/ /\ ~WindowOpen(backoff, start[c])
       /\ ~NegativeOpen(entry, start[c])
       /\ ~FreshFor(c, entry)

\* Although collectors stamp a measurement with the moment they started,
\* fetched_at only goes back when the merging call ignored the cache or a
\* worker's measurement landed under its request.
StampsForward ==
  [][entry'.at < entry.at =>
       \E c \in Collectors : /\ pc[c] = "merge" /\ pc'[c] = "done"
                             /\ (~useCache[c] \/ crossed[c])]_vars

\* What is returned as fresh was asked for at most TTL plus one worker's
\* lifetime before the call started: a worker stamps its completion, so its
\* alarm is what bounds the age its stamp hides.
FreshIsRecent ==
  \A c \in Collectors : served[c].as = "fresh" =>
    start[c] - served[c].asked <= TTL + WorkerTimeout

\* An open window always comes with the failure it is served as: a negative
\* stamp with the very failure that set it (_negative_result rebuilds that
\* failure from the audit), a backoff record with an audited entry.
WindowHasReason ==
  /\ entry.neg # 0 => entry.err = "broken" /\ entry.neg = entry.errAt + NegativeTTL
  /\ backoff.n > 0 => entry.err # "none"

\* What the proofs need besides: who holds the collect lock, what a merge has in
\* hand, and the order of the moments a call goes through.
LockHeld ==
  \A c \in Collectors : pc[c] \in {"recheck", "fetch", "merge"} <=> collectLock = c

InHand ==
  /\ \A p \in Procs : pc[p] = "merge" => got[p] \in Answers
  /\ \A c \in Collectors : pc[c] # "done" => served[c] = NoResult

Moments ==
  /\ entry.at <= clock /\ entry.at - entry.asked <= WorkerTimeout
  /\ \A p \in Procs : /\ start[p] <= clock /\ asked[p] <= clock
                      /\ pc[p] \in {"fetch", "merge"} => start[p] <= asked[p]
  /\ \A c \in Collectors : seen[c].at - seen[c].asked <= WorkerTimeout
  /\ \A w \in Workers : pc[w] # "idle" => clock <= start[w] + WorkerTimeout

IInv == /\ TypeOK /\ LockHeld /\ InHand /\ Moments
        /\ FetchJustified /\ WindowHasReason /\ FreshIsRecent

\* Every call returns: nothing a collector does waits for another process.
CallsReturn == \A c \in Collectors : pc[c] # "idle" ~> pc[c] = "idle"
============================================================================
