---------------------------- MODULE AtomicStore ----------------------------
(***************************************************************************)
(* What the host cache promises its writers: a transaction changes one     *)
(* pool of the current snapshots document, then that pool of the current   *)
(* backoff document, and no other transaction comes between.  A crash or a *)
(* failed save may lose either half, never another writer's update.        *)
(***************************************************************************)
EXTENDS StoreOps

CONSTANT NoOp

VARIABLES
  snapshots,   \* the published snapshots document
  backoffs,    \* the published backoff document
  half         \* the transaction whose backoff half is still to come, or NoOp

vars == <<snapshots, backoffs, half>>

Init ==
  /\ snapshots = NoSnapshots
  /\ backoffs = NoBackoffs
  /\ half = NoOp

Remainder(o) == IF BackoffDirty(backoffs, o) THEN o ELSE NoOp

\* The snapshots half takes effect, or its save fails and is swallowed.
StoreSnapshots(o) ==
  /\ half = NoOp
  /\ snapshots' \in {SnapshotsAfter(snapshots, o), snapshots}
  /\ half' = Remainder(o)
  /\ UNCHANGED backoffs

StoreBackoffs ==
  /\ half # NoOp
  /\ backoffs' = BackoffsAfter(backoffs, half)
  /\ half' = NoOp
  /\ UNCHANGED snapshots

\* The writer died, or the second save failed.
Abandon ==
  /\ half # NoOp
  /\ half' = NoOp
  /\ UNCHANGED <<snapshots, backoffs>>

Next ==
  \/ \E o \in Op : StoreSnapshots(o)
  \/ StoreBackoffs
  \/ Abandon

Spec == Init /\ [][Next]_vars
============================================================================
