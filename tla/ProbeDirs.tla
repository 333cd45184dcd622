----------------------------- MODULE ProbeDirs -----------------------------
(***************************************************************************)
(* Where a probe's children live and who may kill them (proctrack.py and   *)
(* the providers' _probe_once).  Each probe makes a directory of its own,  *)
(* flocks it and starts its child there; a process is recognised by its    *)
(* working directory alone.  Before a probe, what dead probes left is      *)
(* swept: a directory whose flock is free.  Creation has a moment in which *)
(* a live probe's directory is not yet flocked; .sweep.lock keeps sweeps   *)
(* out of it.  A detached reaper outlives a killed probe.                  *)
(***************************************************************************)
EXTENDS Integers, FiniteSets

CONSTANTS
  Procs,    \* processes that probe, one call after another
  Dirs,     \* bound: the directories mkdtemp makes
  Kids,     \* pids of children and of what these start; a pid may be given again
  Free,     \* a lock nobody holds
  Nowhere,  \* no directory; the working directory of a pid not in use
  Passes,   \* _REAPER_SWEEP_PASSES
  MaxForks  \* bound: processes started by children

ASSUME ConstantsAssumption ==
  /\ Free \notin Procs /\ Nowhere \notin Dirs
  /\ Passes \in Nat \ {0} /\ MaxForks \in Nat

VARIABLES
  stage,      \* per process: the next statement
  dir,        \* per process: the directory it owns or sweeps
  todo,       \* per process: what its sweep has yet to look at
  listed,     \* per process: pids it has yet to kill
  sweepLock,  \* the holder of .sweep.lock
  holder,     \* per directory: who has its flock
  name,       \* per directory: unused, pending, probe or removed
  kid,        \* per pid: its working directory
  reaper,     \* per directory: the detached reaper that watches its owner
  forks

vars == <<stage, dir, todo, listed, sweepLock, holder, name, kid, reaper, forks>>

Creating == {"make", "flock", "rename"}
Sweeping == {"scan", "list", "kill", "remove"}
Visiting == {"list", "kill", "remove"}
Probing  == {"spawn", "arm", "run", "leave", "leaving", "close"}
Owning   == {"flock", "rename"} \union Probing
Stages   == {"idle", "sweep", "create", "delete"} \union Creating \union Sweeping \union Probing

Reaper   == [at : {"none", "watch", "list", "kill"}, pass : 0..(Passes - 1),
             hit : BOOLEAN, list : SUBSET Kids]
NoReaper == [at |-> "none", pass |-> 0, hit |-> FALSE, list |-> {}]

Init ==
  /\ stage = [p \in Procs |-> "idle"]
  /\ dir = [p \in Procs |-> Nowhere]
  /\ todo = [p \in Procs |-> {}]
  /\ listed = [p \in Procs |-> {}]
  /\ sweepLock = Free
  /\ holder = [d \in Dirs |-> Free]
  /\ name = [d \in Dirs |-> "unused"]
  /\ kid = [k \in Kids |-> Nowhere]
  /\ reaper = [d \in Dirs |-> NoReaper]
  /\ forks = 0

Goto(p, s)   == stage' = [stage EXCEPT ![p] = s]
Present      == {d \in Dirs : name[d] \in {"pending", "probe"}}
\* rmtree, whose errors are ignored.
Remove(d)    == name' \in {name, [name EXCEPT ![d] = "removed"]}

\* Who is found by working directory; in a removed one nobody is.
Inside(d) == {k \in Kids : kid[k] = d /\ d \in Present}

Owned(d)  == \E p \in Procs : stage[p] \in Owning /\ dir[p] = d

----------------------------------------------------------------------------
(* kill_stale_probe_leftovers                                              *)

Start(p) ==
  /\ stage[p] = "idle"
  /\ Goto(p, "sweep")
  /\ UNCHANGED <<dir, todo, listed, sweepLock, holder, name, kid, reaper, forks>>

\* Somebody creates or sweeps, or the lock file cannot be opened: no sweep now.
SweepSkipped(p) ==
  /\ stage[p] = "sweep"
  /\ Goto(p, "create")
  /\ UNCHANGED <<dir, todo, listed, sweepLock, holder, name, kid, reaper, forks>>

SweepBegins(p) ==
  /\ stage[p] = "sweep" /\ sweepLock = Free
  /\ sweepLock' = p
  /\ todo' = [todo EXCEPT ![p] = Present]
  /\ Goto(p, "scan")
  /\ UNCHANGED <<dir, listed, holder, name, kid, reaper, forks>>

\* A directory that is gone or whose flock is taken is left alone.
PassOver(p) ==
  /\ stage[p] = "scan"
  /\ \E d \in todo[p] :
       /\ holder[d] # Free \/ d \notin Present
       /\ todo' = [todo EXCEPT ![p] = @ \ {d}]
  /\ UNCHANGED <<stage, dir, listed, sweepLock, holder, name, kid, reaper, forks>>

\* Slip: the flock is taken to be free.
VisitLocked(p) ==
  /\ stage[p] = "scan"
  /\ \E d \in todo[p] \intersect Present :
       /\ todo' = [todo EXCEPT ![p] = @ \ {d}]
       /\ dir' = [dir EXCEPT ![p] = d]
       /\ holder' = [holder EXCEPT ![d] = p]
  /\ Goto(p, "list")
  /\ UNCHANGED <<listed, sweepLock, name, kid, reaper, forks>>

\* A flock that can be had is a dead owner's.
Visit(p) ==
  /\ stage[p] = "scan"
  /\ \E d \in todo[p] \intersect Present :
       /\ holder[d] = Free
       /\ todo' = [todo EXCEPT ![p] = @ \ {d}]
       /\ dir' = [dir EXCEPT ![p] = d]
       /\ holder' = [holder EXCEPT ![d] = p]
  /\ Goto(p, "list")
  /\ UNCHANGED <<listed, sweepLock, name, kid, reaper, forks>>

\* kill_leftovers_at_cwd: list who is inside, then look again at each before the
\* signal.
List(p) ==
  /\ stage[p] \in {"list", "leave"}
  /\ listed' = [listed EXCEPT ![p] = Inside(dir[p])]
  /\ Goto(p, IF stage[p] = "list" THEN "kill" ELSE "leaving")
  /\ UNCHANGED <<dir, todo, sweepLock, holder, name, kid, reaper, forks>>

\* Slip: the list is trusted.
KillUnseen(p) ==
  /\ stage[p] \in {"kill", "leaving"}
  /\ \E k \in listed[p] :
       /\ listed' = [listed EXCEPT ![p] = @ \ {k}]
       /\ kid' = [kid EXCEPT ![k] = Nowhere]
  /\ UNCHANGED <<stage, dir, todo, sweepLock, holder, name, reaper, forks>>

Kill(p) ==
  /\ stage[p] \in {"kill", "leaving"}
  /\ \E k \in listed[p] :
       /\ listed' = [listed EXCEPT ![p] = @ \ {k}]
       /\ kid' = [kid EXCEPT ![k] = IF k \in Inside(dir[p]) THEN Nowhere ELSE @]
  /\ UNCHANGED <<stage, dir, todo, sweepLock, holder, name, reaper, forks>>

Killed(p) ==
  /\ stage[p] \in {"kill", "leaving"} /\ listed[p] = {}
  /\ Goto(p, IF stage[p] = "kill" THEN "remove" ELSE "close")
  /\ UNCHANGED <<dir, todo, listed, sweepLock, holder, name, kid, reaper, forks>>

SweepRemoves(p) ==
  /\ stage[p] = "remove"
  /\ Remove(dir[p])
  /\ holder' = [holder EXCEPT ![dir[p]] = Free]
  /\ dir' = [dir EXCEPT ![p] = Nowhere]
  /\ Goto(p, "scan")
  /\ UNCHANGED <<todo, listed, sweepLock, kid, reaper, forks>>

\* Slip: the sweep lock is left to the end of the process.
SweepEndsLocked(p) ==
  /\ stage[p] = "scan" /\ todo[p] = {}
  /\ Goto(p, "create")
  /\ UNCHANGED <<dir, todo, listed, sweepLock, holder, name, kid, reaper, forks>>

SweepEnds(p) ==
  /\ stage[p] = "scan" /\ todo[p] = {}
  /\ sweepLock' = Free
  /\ Goto(p, "create")
  /\ UNCHANGED <<dir, todo, listed, holder, name, kid, reaper, forks>>

----------------------------------------------------------------------------
(* new_probe_dir                                                           *)

\* Slip: only sweeps take the sweep lock.
CreateUnserialized(p) ==
  /\ stage[p] = "create"
  /\ Goto(p, "make")
  /\ UNCHANGED <<dir, todo, listed, sweepLock, holder, name, kid, reaper, forks>>

Create(p) ==
  /\ stage[p] = "create" /\ sweepLock = Free
  /\ sweepLock' = p
  /\ Goto(p, "make")
  /\ UNCHANGED <<dir, todo, listed, holder, name, kid, reaper, forks>>

Make(p) ==
  /\ stage[p] = "make"
  /\ \E d \in Dirs :
       /\ name[d] = "unused"
       /\ name' = [name EXCEPT ![d] = "pending"]
       /\ dir' = [dir EXCEPT ![p] = d]
  /\ Goto(p, "flock")
  /\ UNCHANGED <<todo, listed, sweepLock, holder, kid, reaper, forks>>

Flock(p) ==
  /\ stage[p] = "flock" /\ holder[dir[p]] = Free
  /\ holder' = [holder EXCEPT ![dir[p]] = p]
  /\ Goto(p, "rename")
  /\ UNCHANGED <<dir, todo, listed, sweepLock, name, kid, reaper, forks>>

Rename(p) ==
  /\ stage[p] = "rename"
  /\ name' = [name EXCEPT ![dir[p]] = "probe"]
  /\ sweepLock' = Free
  /\ Goto(p, "spawn")
  /\ UNCHANGED <<dir, todo, listed, holder, kid, reaper, forks>>

\* An error on the way: the call ends and the directory goes, unless it could not
\* be opened or removed.
CreateFails(p) ==
  /\ stage[p] \in Creating
  /\ name' \in {name, [d \in Dirs |-> IF d = dir[p] THEN "removed" ELSE name[d]]}
  /\ holder' = [d \in Dirs |-> IF holder[d] = p THEN Free ELSE holder[d]]
  /\ sweepLock' = Free
  /\ dir' = [dir EXCEPT ![p] = Nowhere]
  /\ Goto(p, "idle")
  /\ UNCHANGED <<todo, listed, kid, reaper, forks>>

----------------------------------------------------------------------------
(* _probe_once                                                             *)

Spawn(p) ==
  /\ stage[p] = "spawn"
  /\ \E k \in Kids : kid[k] = Nowhere /\ kid' = [kid EXCEPT ![k] = dir[p]]
  /\ Goto(p, "arm")
  /\ UNCHANGED <<dir, todo, listed, sweepLock, holder, name, reaper, forks>>

SpawnFails(p) ==
  /\ stage[p] = "spawn"
  /\ Goto(p, "leave")
  /\ UNCHANGED <<dir, todo, listed, sweepLock, holder, name, kid, reaper, forks>>

\* spawn_reaper, which may fail.
Arm(p) ==
  /\ stage[p] = "arm"
  /\ \E at \in {"watch", "none"} : reaper' = [reaper EXCEPT ![dir[p]].at = at]
  /\ Goto(p, "run")
  /\ UNCHANGED <<dir, todo, listed, sweepLock, holder, name, kid, forks>>

\* An answer, a time-out, an error: the finally block.
Leave(p) ==
  /\ stage[p] = "run"
  /\ Goto(p, "leave")
  /\ UNCHANGED <<dir, todo, listed, sweepLock, holder, name, kid, reaper, forks>>

\* The reaper is killed, then the flock let go.
Close(p) ==
  /\ stage[p] = "close"
  /\ reaper' = [reaper EXCEPT ![dir[p]] = NoReaper]
  /\ holder' = [holder EXCEPT ![dir[p]] = Free]
  /\ Goto(p, "delete")
  /\ UNCHANGED <<dir, todo, listed, sweepLock, name, kid, forks>>

Delete(p) ==
  /\ stage[p] = "delete"
  /\ Remove(dir[p])
  /\ dir' = [dir EXCEPT ![p] = Nowhere]
  /\ Goto(p, "idle")
  /\ UNCHANGED <<todo, listed, sweepLock, holder, kid, reaper, forks>>

----------------------------------------------------------------------------
(* Deaths                                                                  *)

\* The kernel frees the locks.
Gone(p) ==
  /\ Goto(p, "idle")
  /\ dir' = [dir EXCEPT ![p] = Nowhere]
  /\ todo' = [todo EXCEPT ![p] = {}]
  /\ listed' = [listed EXCEPT ![p] = {}]
  /\ sweepLock' = IF sweepLock = p THEN Free ELSE sweepLock
  /\ holder' = [d \in Dirs |-> IF holder[d] = p THEN Free ELSE holder[d]]
  /\ UNCHANGED <<name, reaper, forks>>

Die(p) ==
  /\ stage[p] # "idle"
  /\ Gone(p)
  /\ UNCHANGED kid

\* A refresh worker's alarm: kill_registered reaches the members of the child's
\* group, not what started a session of its own.
TimeOut(p) ==
  /\ stage[p] \in {"arm", "run", "leave", "leaving"}
  /\ Gone(p)
  /\ \E group \in SUBSET Inside(dir[p]) :
       kid' = [k \in Kids |-> IF k \in group THEN Nowhere ELSE kid[k]]

----------------------------------------------------------------------------
(* reaper_main                                                             *)

ReaperExpires(d) ==
  /\ reaper[d].at = "watch" /\ Owned(d)
  /\ reaper' = [reaper EXCEPT ![d] = NoReaper]
  /\ UNCHANGED <<stage, dir, todo, listed, sweepLock, holder, name, kid, forks>>

ReaperWakes(d) ==
  /\ reaper[d].at = "watch" /\ ~Owned(d)
  /\ reaper' = [reaper EXCEPT ![d].at = "list"]
  /\ UNCHANGED <<stage, dir, todo, listed, sweepLock, holder, name, kid, forks>>

ReaperLists(d) ==
  /\ reaper[d].at = "list"
  /\ reaper' = [reaper EXCEPT ![d].at = "kill", ![d].list = Inside(d)]
  /\ UNCHANGED <<stage, dir, todo, listed, sweepLock, holder, name, kid, forks>>

ReaperKills(d) ==
  /\ reaper[d].at = "kill"
  /\ \E k \in reaper[d].list :
       /\ reaper' = [reaper EXCEPT ![d].list = @ \ {k}, ![d].hit = @ \/ k \in Inside(d)]
       /\ kid' = [kid EXCEPT ![k] = IF k \in Inside(d) THEN Nowhere ELSE @]
  /\ UNCHANGED <<stage, dir, todo, listed, sweepLock, holder, name, forks>>

\* Slip: the first pass may be the last.
LastPassAtOnce(d) == ~reaper[d].hit \/ reaper[d].pass + 1 = Passes

\* A pass that killed nobody is the last, but for the first one.
LastPass(d) == (~reaper[d].hit /\ reaper[d].pass > 0) \/ reaper[d].pass + 1 = Passes

ReaperPassEnds(d) ==
  /\ reaper[d].at = "kill" /\ reaper[d].list = {}
  /\ reaper' = [reaper EXCEPT ![d] =
                  IF LastPass(d) THEN NoReaper
                  ELSE [at |-> "list", pass |-> reaper[d].pass + 1, hit |-> FALSE, list |-> {}]]
  /\ UNCHANGED <<stage, dir, todo, listed, sweepLock, holder, name, kid, forks>>

----------------------------------------------------------------------------
(* The children                                                            *)

Fork(k) ==
  /\ kid[k] # Nowhere /\ forks < MaxForks
  /\ \E j \in Kids : kid[j] = Nowhere /\ kid' = [kid EXCEPT ![j] = kid[k]]
  /\ forks' = forks + 1
  /\ UNCHANGED <<stage, dir, todo, listed, sweepLock, holder, name, reaper>>

Exit(k) ==
  /\ kid[k] # Nowhere
  /\ kid' = [kid EXCEPT ![k] = Nowhere]
  /\ UNCHANGED <<stage, dir, todo, listed, sweepLock, holder, name, reaper, forks>>

Sweep(p) ==
  \/ SweepSkipped(p) \/ SweepBegins(p) \/ PassOver(p) \/ Visit(p)
  \/ List(p) \/ Kill(p) \/ Killed(p) \/ SweepRemoves(p) \/ SweepEnds(p)

Probe(p) ==
  \/ Create(p) \/ Make(p) \/ Flock(p) \/ Rename(p) \/ CreateFails(p)
  \/ Spawn(p) \/ SpawnFails(p) \/ Arm(p) \/ Leave(p) \/ Close(p) \/ Delete(p)

Reap(d) == ReaperWakes(d) \/ ReaperLists(d) \/ ReaperKills(d) \/ ReaperPassEnds(d)

Next ==
  \/ \E p \in Procs : Start(p) \/ Sweep(p) \/ Probe(p) \/ Die(p) \/ TimeOut(p)
  \/ \E d \in Dirs : Reap(d) \/ ReaperExpires(d)
  \/ \E k \in Kids : Fork(k) \/ Exit(k)

Spec == Init /\ [][Next]_vars

\* A process inside a call and a reaper are scheduled.
FairSpec ==
  /\ Spec
  /\ \A p \in Procs : WF_vars(Sweep(p) \/ Probe(p))
  /\ \A d \in Dirs : WF_vars(Reap(d))
----------------------------------------------------------------------------
TypeOK ==
  /\ stage \in [Procs -> Stages]
  /\ dir \in [Procs -> Dirs \union {Nowhere}]
  /\ todo \in [Procs -> SUBSET Dirs]
  /\ listed \in [Procs -> SUBSET Kids]
  /\ sweepLock \in Procs \union {Free}
  /\ holder \in [Dirs -> Procs \union {Free}]
  /\ name \in [Dirs -> {"unused", "pending", "probe", "removed"}]
  /\ kid \in [Kids -> Dirs \union {Nowhere}]
  /\ reaper \in [Dirs -> Reaper]
  /\ forks \in 0..MaxForks
  /\ \A p \in Procs : sweepLock = p <=> stage[p] \in Creating \union Sweeping

\* As long as a probe lives nobody sweeps or removes the directory it made, from
\* the mkdtemp on (new_probe_dir: "a creator stalled arbitrarily long inside the
\* window still cannot lose its dir").
LiveDirStays ==
  \A p \in Procs : stage[p] \in Owning =>
    /\ dir[p] \in Present
    /\ \A q \in Procs \ {p} : stage[q] \in Visiting => dir[q] # dir[p]

\* The strengthening the proofs need: who has a directory, who has its flock,
\* that an owner shares its directory with nobody and that a reaper at work
\* outlived its owner.
Placeless == {"idle", "sweep", "create", "scan", "make"}

Placed ==
  \A p \in Procs :
    /\ stage[p] \in Placeless => dir[p] = Nowhere
    /\ stage[p] \notin Placeless => dir[p] \in Dirs /\ name[dir[p]] # "unused"

Held ==
  \A p \in Procs :
    stage[p] \in {"rename"} \union Probing \union Visiting => holder[dir[p]] = p

Apart ==
  \A p, q \in Procs :
    p # q /\ stage[p] \in Owning /\ stage[q] \in Owning \union Visiting \union {"delete"}
      => dir[p] # dir[q]

Orphaned ==
  \A d \in Dirs :
    /\ reaper[d].at # "none" => name[d] # "unused"
    /\ reaper[d].at \in {"list", "kill"} => ~Owned(d)

IInv == TypeOK /\ Placed /\ Held /\ Apart /\ Orphaned /\ LiveDirStays

\* A process in a live probe's directory dies by itself or by that probe: not by
\* a sweep or a reaper, although they act on lists of pids that may have been
\* given again.
SparesTheLiving ==
  [][\A k \in Kids : kid[k] # Nowhere /\ kid'[k] # kid[k] /\ Owned(kid[k]) =>
       \/ Exit(k)
       \/ \E p \in Procs : dir[p] = kid[k] /\ stage[p] \in Owning /\ (Kill(p) \/ TimeOut(p))]_vars

\* The sweep lock never stays with a process.
SweepLockFreed == []<>(sweepLock = Free)

\* A dead probe's reaper ends everybody in the directory, as long as no more
\* than MaxForks processes are started meanwhile.
OrphansReaped ==
  \A d \in Dirs : reaper[d].at # "none" /\ ~Owned(d) ~> Inside(d) = {}
============================================================================
