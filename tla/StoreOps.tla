----------------------------- MODULE StoreOps ------------------------------
(***************************************************************************)
(* What the writers of the host cache do to one pool, as pure operators    *)
(* (cache.py).  A snapshot entry keeps the last good measurement, the      *)
(* audit of the last failure and whether the negative-cache window is      *)
(* stamped; the backoff document counts consecutive backoffable failures   *)
(* (0: the pool has no record).  The payload of a measurement is an opaque *)
(* value and the deadlines are left to module Collect: here only what is   *)
(* kept, replaced or dropped matters.                                      *)
(***************************************************************************)
EXTENDS Naturals

CONSTANTS
  Pools,    \* provider pools, the keys of both documents
  Values,   \* payloads of successful measurements
  NoValue   \* the entry holds no successful measurement

ASSUME NoValueAssumption == NoValue \notin Values

\* limited: opens a backoff window; broken: opens the negative cache;
\* warned: a result with a warning only, which opens neither.
FailureKinds == {"limited", "broken", "warned"}

Entry == [snap : Values \union {NoValue},
          err  : FailureKinds \union {"none"},
          neg  : BOOLEAN]

Snapshots == [Pools -> Entry]
Backoffs  == [Pools -> Nat]

NoEntry     == [snap |-> NoValue, err |-> "none", neg |-> FALSE]
NoSnapshots == [q \in Pools |-> NoEntry]
NoBackoffs  == [q \in Pools |-> 0]

\* via: who runs the transaction, a refresh worker or a collect.
Op == [kind  : FailureKinds \union {"success", "clear"},
       pool  : Pools,
       value : Values,
       via   : {"worker", "collect"}]

\* The worker's update_entry and record_failure load backoff.json after saving
\* snapshots.json, collect's _merge_results loads both first.
LoadsBothFirst(o) == o.via = "collect" /\ o.kind # "clear"

\* Slips: a failure takes the snapshot along; a cleared stamp is audited as one.
EntryAfterDroppingSnap(e, o) ==
  CASE o.kind = "success" -> [snap |-> o.value, err |-> "none", neg |-> FALSE]
    [] o.kind = "clear"   -> [e EXCEPT !.neg = FALSE]
    [] OTHER              -> [snap |-> NoValue, err |-> o.kind, neg |-> (o.kind = "broken")]

EntryAfterAuditedClear(e, o) ==
  CASE o.kind = "success" -> [snap |-> o.value, err |-> "none", neg |-> FALSE]
    [] OTHER              -> [e EXCEPT !.err = o.kind, !.neg = (o.kind = "broken")]

\* _to_entry drops the audit and the stamp; _audit_failure keeps the
\* snapshot; _clear_negative pops the stamp and nothing else.
EntryAfter(e, o) ==
  CASE o.kind = "success" -> [snap |-> o.value, err |-> "none", neg |-> FALSE]
    [] o.kind = "clear"   -> [e EXCEPT !.neg = FALSE]
    [] OTHER              -> [e EXCEPT !.err = o.kind,
                                       !.neg = (o.kind = "broken")]

SnapshotsAfter(d, o) == [d EXCEPT ![o.pool] = EntryAfter(@, o)]

\* Slip: a success does not pop the record.
CountAfterKept(n, o) == IF o.kind = "limited" THEN n + 1 ELSE n

\* _bump_backoff increments consecutive; a success pops the record.
CountAfter(n, o) ==
  CASE o.kind = "success" -> 0
    [] o.kind = "limited" -> n + 1
    [] OTHER              -> n

BackoffsAfter(b, o) == [b EXCEPT ![o.pool] = CountAfter(@, o)]

\* backoff.json is rewritten only when the transaction changed it.
BackoffDirty(b, o) == CountAfter(b[o.pool], o) # b[o.pool]

\* _clear_negative saves only when the stamp was there.
SnapshotsDirty(d, o) == o.kind = "clear" => d[o.pool].neg
============================================================================
