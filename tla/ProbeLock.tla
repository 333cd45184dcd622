----------------------------- MODULE ProbeLock -----------------------------
(***************************************************************************)
(* The lock that admits one probe at a time (proctrack.single_probe_lock). *)
(* A flock belongs to an inode, not to a name: a caller that finds the     *)
(* lock taken and its recorded owner dead publishes a fresh inode under    *)
(* the name and locks that one.  The model keeps inodes, names and         *)
(* descriptors apart; every system call is a step, because no step of the  *)
(* protocol is protected by anything but the flock it is after.            *)
(***************************************************************************)
EXTENDS Naturals, FiniteSets

CONSTANTS
  Procs,      \* callers, named by their pid
  Gone,       \* the pid of a holder that died before they started
  Inodes,     \* bound: inodes in use at one time
  NoInode,    \* no file, or no descriptor
  NoPid,      \* an empty or unreadable owner record
  Nobody,     \* an inode without a flock
  Orphan      \* a descriptor inherited from a dead holder keeps the flock

ASSUME DistinctNames ==
  /\ Gone \notin Procs /\ NoPid \notin Procs \union {Gone}
  /\ Nobody \notin Procs /\ Orphan \notin Procs /\ Nobody # Orphan
  /\ NoInode \notin Inodes

VARIABLES
  path,      \* the inode named .probe.lock
  tmp,       \* the inode named .probe.lock.reclaim
  holder,    \* per inode: who has its flock
  label,     \* per inode: the pid recorded in it
  pc,        \* per caller: its next step; "dead" for good
  fd,        \* per caller: the inode its descriptor is open on
  owner,     \* per caller: the pid _read_lock_owner gave it
  later      \* history, per caller: who recorded its pid since it read the owner

vars == <<path, tmp, holder, label, pc, fd, owner, later>>
names == <<path, tmp>>

Looking  == {"flock", "owner"}
Deciding == {"check", "maketmp", "replace"}
Taking   == {"reopen", "relock", "inode"}
Admitted == {"truncate", "write", "held"}

\* The file a killed holder left: its record, or none if it never wrote one, and
\* perhaps a descriptor some child of it still has open.
Init ==
  /\ path \in Inodes
  /\ tmp = NoInode
  /\ \E h \in {Nobody, Orphan} : holder = [i \in Inodes |-> IF i = path THEN h ELSE Nobody]
  /\ \E l \in {NoPid, Gone} : label = [i \in Inodes |-> IF i = path THEN l ELSE NoPid]
  /\ pc = [p \in Procs |-> "idle"]
  /\ fd = [p \in Procs |-> NoInode]
  /\ owner = [p \in Procs |-> NoPid]
  /\ later = [p \in Procs |-> {}]

Goto(p, from, to) == pc[p] = from /\ pc' = [pc EXCEPT ![p] = to]

\* os.kill(pid, 0).
Alive(pid) == pid \in Procs /\ pc[pid] # "dead"

\* The caller is told that the pool is busy.
Refuse(p) ==
  /\ pc' = [pc EXCEPT ![p] = "idle"]
  /\ fd' = [fd EXCEPT ![p] = NoInode]
  /\ owner' = [owner EXCEPT ![p] = NoPid]
  /\ later' = [later EXCEPT ![p] = {}]
----------------------------------------------------------------------------
\* _try_lock_fd: open, then a non-blocking flock on whatever was opened.
Open(p) ==
  /\ Goto(p, "idle", "flock")
  /\ fd' = [fd EXCEPT ![p] = path]
  /\ UNCHANGED <<names, holder, label, owner, later>>

LockFree(p) ==
  /\ Goto(p, "flock", "truncate")
  /\ holder[fd[p]] = Nobody
  /\ holder' = [holder EXCEPT ![fd[p]] = p]
  /\ UNCHANGED <<names, label, fd, owner, later>>

LockTaken(p) ==
  /\ Goto(p, "flock", "owner")
  /\ holder[fd[p]] # Nobody
  /\ fd' = [fd EXCEPT ![p] = NoInode]
  /\ UNCHANGED <<names, holder, label, owner, later>>

\* _read_lock_owner reads the published file; a file without a pid is left alone.
ReadOwner(p) ==
  /\ label[path] # NoPid
  /\ Goto(p, "owner", "check")
  /\ owner' = [owner EXCEPT ![p] = label[path]]
  /\ later' = [later EXCEPT ![p] = {}]
  /\ UNCHANGED <<names, holder, label, fd>>

ReadNoOwner(p) ==
  /\ pc[p] = "owner" /\ label[path] = NoPid
  /\ Refuse(p)
  /\ UNCHANGED <<names, holder, label>>

\* Slip: a recorded owner is never looked up.
OwnerPresumedDead(p) ==
  /\ Goto(p, "check", "maketmp")
  /\ UNCHANGED <<names, holder, label, fd, owner, later>>

OwnerDead(p) ==
  /\ ~Alive(owner[p])
  /\ Goto(p, "check", "maketmp")
  /\ UNCHANGED <<names, holder, label, fd, owner, later>>

OwnerAlive(p) ==
  /\ pc[p] = "check" /\ Alive(owner[p])
  /\ Refuse(p)
  /\ UNCHANGED <<names, holder, label>>

\* A number the file system may give to a new file.
Unused(i) == i \notin {path, tmp} /\ \A p \in Procs : fd[p] # i

\* Slip: a leftover of a killed reclaimer is taken for a rival (O_EXCL).
MakeTmpExclusively(p) ==
  /\ \/ /\ tmp = NoInode
        /\ Goto(p, "maketmp", "replace")
        /\ \E i \in Inodes : /\ Unused(i)
                             /\ tmp' = i
                             /\ holder' = [holder EXCEPT ![i] = Nobody]
                             /\ label' = [label EXCEPT ![i] = NoPid]
        /\ UNCHANGED <<fd, owner, later>>
     \/ /\ tmp # NoInode /\ pc[p] = "maketmp"
        /\ Refuse(p)
        /\ UNCHANGED <<tmp, holder, label>>
  /\ UNCHANGED path

\* _reclaim_lock_fd opens its fixed temporary name with O_CREAT | O_TRUNC: a new
\* file, or the one another reclaimer made, emptied.
MakeTmp(p) ==
  /\ Goto(p, "maketmp", "replace")
  /\ \/ /\ tmp = NoInode
        /\ \E i \in Inodes : /\ Unused(i)
                             /\ tmp' = i
                             /\ holder' = [holder EXCEPT ![i] = Nobody]
                             /\ label' = [label EXCEPT ![i] = NoPid]
     \/ /\ tmp # NoInode
        /\ label' = [label EXCEPT ![tmp] = NoPid]
        /\ UNCHANGED <<tmp, holder>>
  /\ UNCHANGED <<path, fd, owner, later>>

Replace(p) ==
  /\ tmp # NoInode
  /\ Goto(p, "replace", "reopen")
  /\ path' = tmp
  /\ tmp' = NoInode
  /\ UNCHANGED <<holder, label, fd, owner, later>>

\* Another reclaimer renamed the shared temporary file first.
ReplaceFails(p) ==
  /\ pc[p] = "replace" /\ tmp = NoInode
  /\ Refuse(p)
  /\ UNCHANGED <<names, holder, label>>

Reopen(p) ==
  /\ Goto(p, "reopen", "relock")
  /\ fd' = [fd EXCEPT ![p] = path]
  /\ UNCHANGED <<names, holder, label, owner, later>>

\* Slip: the file just published is taken to be one's own.
RelockUnchecked(p) ==
  /\ Goto(p, "relock", "inode")
  /\ UNCHANGED <<names, holder, label, fd, owner, later>>

Relock(p) ==
  /\ Goto(p, "relock", "inode")
  /\ holder[fd[p]] = Nobody
  /\ holder' = [holder EXCEPT ![fd[p]] = p]
  /\ UNCHANGED <<names, label, fd, owner, later>>

RelockFails(p) ==
  /\ pc[p] = "relock" /\ holder[fd[p]] # Nobody
  /\ Refuse(p)
  /\ UNCHANGED <<names, holder, label>>

\* The post-acquire inode check.
StillPublished(p) ==
  /\ fd[p] = path
  /\ Goto(p, "inode", "truncate")
  /\ UNCHANGED <<names, holder, label, fd, owner, later>>

NoLongerPublished(p) ==
  /\ pc[p] = "inode" /\ fd[p] # path
  /\ Refuse(p)
  /\ holder' = [holder EXCEPT ![fd[p]] = Nobody]
  /\ UNCHANGED <<names, label>>

Truncate(p) ==
  /\ Goto(p, "truncate", "write")
  /\ label' = [label EXCEPT ![fd[p]] = NoPid]
  /\ UNCHANGED <<names, holder, fd, owner, later>>

\* The caller's pid; from here the body of the with statement runs.
WriteLabel(p) ==
  /\ Goto(p, "write", "held")
  /\ label' = [label EXCEPT ![fd[p]] = p]
  /\ later' = [q \in Procs |-> IF pc[q] \in Deciding THEN later[q] \union {p} ELSE later[q]]
  /\ UNCHANGED <<names, holder, fd, owner>>

\* The OSError of either write is swallowed.
LabelFails(p) ==
  /\ pc[p] \in {"truncate", "write"}
  /\ pc' = [pc EXCEPT ![p] = "held"]
  /\ UNCHANGED <<names, holder, label, fd, owner, later>>

\* LOCK_UN also frees what a child inherited.
Release(p) ==
  /\ pc[p] = "held"
  /\ holder' = [holder EXCEPT ![fd[p]] = Nobody]
  /\ pc' = [pc EXCEPT ![p] = "idle"]
  /\ fd' = [fd EXCEPT ![p] = NoInode]
  /\ owner' = [owner EXCEPT ![p] = NoPid]
  /\ later' = [later EXCEPT ![p] = {}]
  /\ UNCHANGED <<names, label>>

\* SIGKILL: the kernel closes the descriptor, but a flock lives on while a child
\* that inherited it runs.
Die(p) ==
  /\ pc[p] \notin {"idle", "dead"}
  /\ pc' = [pc EXCEPT ![p] = "dead"]
  /\ fd' = [fd EXCEPT ![p] = NoInode]
  /\ owner' = [owner EXCEPT ![p] = NoPid]
  /\ later' = [later EXCEPT ![p] = {}]
  /\ \/ \E h \in {Nobody, Orphan} :
          /\ pc[p] \in Admitted \union {"inode"}
          /\ holder' = [holder EXCEPT ![fd[p]] = h]
     \/ /\ pc[p] \notin Admitted \union {"inode"}
        /\ UNCHANGED holder
  /\ UNCHANGED <<names, label>>

\* The last child with the descriptor ends.
OrphanEnds(i) ==
  /\ holder[i] = Orphan
  /\ holder' = [holder EXCEPT ![i] = Nobody]
  /\ UNCHANGED <<names, label, pc, fd, owner, later>>

Step(p) ==
  \/ LockFree(p) \/ LockTaken(p) \/ ReadOwner(p) \/ ReadNoOwner(p)
  \/ OwnerDead(p) \/ OwnerAlive(p) \/ MakeTmp(p) \/ Replace(p) \/ ReplaceFails(p)
  \/ Reopen(p) \/ Relock(p) \/ RelockFails(p) \/ StillPublished(p) \/ NoLongerPublished(p)
  \/ Truncate(p) \/ WriteLabel(p) \/ LabelFails(p)

Next ==
  \/ \E p \in Procs : Open(p) \/ Step(p) \/ Release(p) \/ Die(p)
  \/ \E i \in Inodes : OrphanEnds(i)

Spec == Init /\ [][Next]_vars

\* A caller inside single_probe_lock goes on; its probe may take for ever.
FairSpec == Spec /\ \A p \in Procs : WF_vars(Step(p))
----------------------------------------------------------------------------
TypeOK ==
  /\ path \in Inodes /\ tmp \in Inodes \union {NoInode}
  /\ holder \in [Inodes -> Procs \union {Nobody, Orphan}]
  /\ label \in [Inodes -> Procs \union {Gone, NoPid}]
  /\ pc \in [Procs -> {"idle", "dead"} \union Looking \union Deciding \union Taking \union Admitted]
  /\ fd \in [Procs -> Inodes \union {NoInode}]
  /\ owner \in [Procs -> Procs \union {Gone, NoPid}]
  /\ later \in [Procs -> SUBSET Procs]

\* Two callers inside the lock at once are never both inside the published
\* file: only a reclaim, which took the name away from one of them, lets the
\* other in.
ExcessIsDisplaced ==
  \A p, q \in Procs : pc[p] \in Admitted /\ pc[q] \in Admitted /\ fd[p] = path /\ fd[q] = path
                        => p = q

\* A live holder whose pid is in the published file loses the name only to a
\* caller that read the owner before that pid was written: whoever calls later
\* leaves it alone.
OnlyAnEarlierReadDisplaces ==
  [][\A p, q \in Procs :
       /\ pc[p] = "replace" /\ pc'[p] = "reopen"
       /\ pc[q] = "held" /\ fd[q] = path /\ label[path] = q
       => q \in later[p]]_vars

\* The strengthening the proofs need: who has each flock, that nobody has the
\* temporary file open or wrote to it, and what a caller about to replace the file may have
\* missed.
FlockHeld ==
  \A p \in Procs : pc[p] \in Admitted \union {"inode"} =>
    fd[p] \in Inodes /\ holder[fd[p]] = p

TmpUnopened ==
  /\ tmp # path /\ \A p \in Procs : fd[p] \in Inodes => fd[p] # tmp
  /\ tmp \in Inodes => label[tmp] = NoPid

Missed ==
  \A p, q \in Procs :
    pc[q] # "dead" /\ label[path] = q =>
      /\ pc[p] = "check" => q \in later[p] \/ owner[p] = q
      /\ pc[p] \in {"maketmp", "replace"} => q \in later[p]

OpenFiles == \A p \in Procs : pc[p] \in {"flock", "relock"} => fd[p] \in Inodes

IInv == TypeOK /\ FlockHeld /\ TmpUnopened /\ Missed /\ OpenFiles

\* A lock pinned by the dead does not stay so: once a caller has found its owner
\* dead, the name gets another file, whoever of the reclaimers gives it, even
\* if earlier reclaimers were killed half way.
DeadPinYields ==
  \A p \in Procs, i \in Inodes :
    pc[p] = "maketmp" /\ path = i ~> path # i \/ pc[p] = "dead"

\* proctrack.py:148 "Admit one probe at a time per workdir": here only of callers
\* whose pid is recorded in the file they hold.
AtMostOneProbe ==
  \A p, q \in Procs : /\ pc[p] = "held" /\ label[fd[p]] = p
                      /\ pc[q] = "held" /\ label[fd[q]] = q
                      => p = q
============================================================================
