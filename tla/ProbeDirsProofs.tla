-------------------------- MODULE ProbeDirsProofs --------------------------
(***************************************************************************)
(* What is proved of the probe directories for any number of processes,    *)
(* directories and pids.                                                   *)
(***************************************************************************)
EXTENDS ProbeDirs, TLAPS

LEMMA InitIInv == Init => IInv
<1> SUFFICES ASSUME Init PROVE IInv OBVIOUS
<1> USE ConstantsAssumption DEF Init, Stages, Creating, Sweeping, Visiting, Probing, Owning
<1>1. NoReaper \in Reaper BY DEF NoReaper, Reaper
<1>2. TypeOK BY <1>1 DEF TypeOK
<1>3. Placed BY DEF Placed, Placeless
<1>4. Held BY DEF Held
<1>5. Apart BY DEF Apart
<1>6. Orphaned BY DEF Orphaned, NoReaper
<1>7. LiveDirStays BY DEF LiveDirStays
<1>8. QED BY <1>2, <1>3, <1>4, <1>5, <1>6, <1>7 DEF IInv

\* What a reaper's step makes of its record is again one.
LEMMA ReaperFields ==
  ASSUME NEW r \in Reaper, NEW at \in {"none", "watch", "list", "kill"},
         NEW list \in SUBSET Kids, NEW hit \in BOOLEAN
  PROVE  /\ [r EXCEPT !.at = at] \in Reaper
         /\ [r EXCEPT !.at = at, !.list = list] \in Reaper
         /\ [r EXCEPT !.list = list, !.hit = hit] \in Reaper
  BY DEF Reaper

LEMMA StepTypeOK == IInv /\ [Next]_vars => TypeOK'
<1> SUFFICES ASSUME IInv, [Next]_vars PROVE TypeOK' OBVIOUS
<1> USE ConstantsAssumption DEF IInv, TypeOK, Placed, Placeless, Reaper, NoReaper, Goto, Present, Remove
<1> USE DEF Stages, Creating, Sweeping, Visiting, Probing, Owning
<1>1. ASSUME NEW p \in Procs, Start(p) PROVE TypeOK'
  BY <1>1 DEF Start
<1>2. ASSUME NEW p \in Procs, SweepSkipped(p) PROVE TypeOK'
  BY <1>2 DEF SweepSkipped
<1>3. ASSUME NEW p \in Procs, SweepBegins(p) PROVE TypeOK'
  BY <1>3 DEF SweepBegins
<1>4. ASSUME NEW p \in Procs, PassOver(p) PROVE TypeOK'
  BY <1>4 DEF PassOver
<1>5. ASSUME NEW p \in Procs, Visit(p) PROVE TypeOK'
  BY <1>5 DEF Visit
<1>6. ASSUME NEW p \in Procs, List(p) PROVE TypeOK'
  BY <1>6 DEF List, Inside
<1>7. ASSUME NEW p \in Procs, Kill(p) PROVE TypeOK'
  BY <1>7 DEF Kill
<1>8. ASSUME NEW p \in Procs, Killed(p) PROVE TypeOK'
  BY <1>8 DEF Killed
<1>9. ASSUME NEW p \in Procs, SweepRemoves(p) PROVE TypeOK'
  BY <1>9 DEF SweepRemoves
<1>10. ASSUME NEW p \in Procs, SweepEnds(p) PROVE TypeOK'
  BY <1>10 DEF SweepEnds
<1>11. ASSUME NEW p \in Procs, Create(p) PROVE TypeOK'
  BY <1>11 DEF Create
<1>12. ASSUME NEW p \in Procs, Make(p) PROVE TypeOK'
  BY <1>12 DEF Make
<1>13. ASSUME NEW p \in Procs, Flock(p) PROVE TypeOK'
  BY <1>13 DEF Flock
<1>14. ASSUME NEW p \in Procs, Rename(p) PROVE TypeOK'
  BY <1>14 DEF Rename
<1>15. ASSUME NEW p \in Procs, CreateFails(p) PROVE TypeOK'
  BY <1>15 DEF CreateFails
<1>16. ASSUME NEW p \in Procs, Spawn(p) PROVE TypeOK'
  BY <1>16 DEF Spawn
<1>17. ASSUME NEW p \in Procs, SpawnFails(p) PROVE TypeOK'
  BY <1>17 DEF SpawnFails
<1>18. ASSUME NEW p \in Procs, Arm(p) PROVE TypeOK'
  <2>1. PICK at \in {"watch", "none"} : reaper' = [reaper EXCEPT ![dir[p]].at = at]
    BY <1>18 DEF Arm
  <2> HIDE DEF Reaper
  <2>2. reaper[dir[p]] \in Reaper BY <1>18 DEF Arm
  <2>3. [reaper[dir[p]] EXCEPT !.at = at] \in Reaper BY <2>2, ReaperFields
  <2>4. reaper' \in [Dirs -> Reaper] BY <2>1, <2>3
  <2>5. QED BY <1>18, <2>4 DEF Arm
<1>19. ASSUME NEW p \in Procs, Leave(p) PROVE TypeOK'
  BY <1>19 DEF Leave
<1>20. ASSUME NEW p \in Procs, Close(p) PROVE TypeOK'
  BY <1>20 DEF Close
<1>21. ASSUME NEW p \in Procs, Delete(p) PROVE TypeOK'
  BY <1>21 DEF Delete
<1>22. ASSUME NEW p \in Procs, Die(p) PROVE TypeOK'
  BY <1>22 DEF Die, Gone
<1>23. ASSUME NEW p \in Procs, TimeOut(p) PROVE TypeOK'
  BY <1>23 DEF TimeOut, Gone
<1>24. ASSUME NEW d \in Dirs, ReaperExpires(d) PROVE TypeOK'
  BY <1>24 DEF ReaperExpires
<1>25. ASSUME NEW d \in Dirs, ReaperWakes(d) PROVE TypeOK'
  <2> HIDE DEF Reaper
  <2>1. [reaper[d] EXCEPT !.at = "list"] \in Reaper BY ReaperFields
  <2>2. reaper' \in [Dirs -> Reaper] BY <1>25, <2>1 DEF ReaperWakes
  <2>3. QED BY <1>25, <2>2 DEF ReaperWakes
<1>26. ASSUME NEW d \in Dirs, ReaperLists(d) PROVE TypeOK'
  <2>1. Inside(d) \subseteq Kids BY DEF Inside
  <2> HIDE DEF Reaper
  <2>2. [reaper[d] EXCEPT !.at = "kill", !.list = Inside(d)] \in Reaper BY <2>1, ReaperFields
  <2>3. reaper' \in [Dirs -> Reaper] BY <1>26, <2>2 DEF ReaperLists
  <2>4. QED BY <1>26, <2>3 DEF ReaperLists
<1>27. ASSUME NEW d \in Dirs, ReaperKills(d) PROVE TypeOK'
  <2>1. PICK k \in reaper[d].list :
          /\ reaper' = [reaper EXCEPT ![d].list = @ \ {k}, ![d].hit = @ \/ k \in Inside(d)]
          /\ kid' = [kid EXCEPT ![k] = IF k \in Inside(d) THEN Nowhere ELSE @]
    BY <1>27 DEF ReaperKills
  <2>2. reaper[d].list \ {k} \in SUBSET Kids /\ reaper[d].hit \in BOOLEAN OBVIOUS
  <2>3. (reaper[d].hit \/ k \in Inside(d)) \in BOOLEAN OBVIOUS
  <2> HIDE DEF Reaper
  <2>4. [reaper[d] EXCEPT !.list = @ \ {k}, !.hit = @ \/ k \in Inside(d)] \in Reaper
    BY <2>2, <2>3, ReaperFields
  <2>5. reaper' \in [Dirs -> Reaper] BY <2>1, <2>4
  <2>6. kid' \in [Kids -> Dirs \union {Nowhere}] BY <2>1
  <2>7. QED BY <1>27, <2>5, <2>6 DEF ReaperKills
<1>28. ASSUME NEW d \in Dirs, ReaperPassEnds(d) PROVE TypeOK'
  <2> DEFINE R == [at |-> "list", pass |-> reaper[d].pass + 1, hit |-> FALSE, list |-> {}]
  <2>1. reaper[d] \in Reaper BY DEF TypeOK
  <2>2. NoReaper \in Reaper OBVIOUS
  <2>3. ~LastPass(d) => R \in Reaper
    <3>1. reaper[d].pass \in 0..(Passes - 1) BY <2>1 DEF Reaper
    <3>2. ~LastPass(d) => reaper[d].pass + 1 # Passes BY DEF LastPass
    <3>3. Passes \in Nat \ {0} OBVIOUS
    <3>4. ASSUME NEW n \in 0..(Passes - 1), n + 1 # Passes PROVE n + 1 \in 0..(Passes - 1)
      BY ONLY <3>3, <3>4
    <3>5. ~LastPass(d) => reaper[d].pass + 1 \in 0..(Passes - 1) BY ONLY <3>1, <3>2, <3>4
    <3>6. QED BY <3>5 DEF Reaper
  <2>4. reaper' = [reaper EXCEPT ![d] = IF LastPass(d) THEN NoReaper ELSE R]
    BY <1>28 DEF ReaperPassEnds
  <2> HIDE DEF R, NoReaper, Reaper
  <2>5. reaper' \in [Dirs -> Reaper] BY <2>2, <2>3, <2>4
  <2>6. QED BY <1>28, <2>5 DEF ReaperPassEnds
<1>29. ASSUME NEW k \in Kids, Fork(k) PROVE TypeOK'
  BY <1>29 DEF Fork
<1>30. ASSUME NEW k \in Kids, Exit(k) PROVE TypeOK'
  BY <1>30 DEF Exit
<1>31. CASE UNCHANGED vars BY <1>31 DEF vars
<1>32. QED
  BY <1>1, <1>2, <1>3, <1>4, <1>5, <1>6, <1>7, <1>8, <1>9, <1>10, <1>11, <1>12, <1>13, <1>14,
     <1>15, <1>16, <1>17, <1>18, <1>19, <1>20, <1>21, <1>22, <1>23, <1>24, <1>25, <1>26, <1>27, <1>28, <1>29, <1>30, <1>31
  DEF Next, Sweep, Probe, Reap

LEMMA StepPlaced == IInv /\ [Next]_vars => Placed'
<1> SUFFICES ASSUME IInv, [Next]_vars PROVE Placed' OBVIOUS
<1> USE ConstantsAssumption DEF IInv, TypeOK, Placed, Placeless, Goto, Present, Remove
<1> USE DEF Stages, Creating, Sweeping, Visiting, Probing, Owning
<1>1. ASSUME NEW p \in Procs, Start(p) PROVE Placed'
  BY <1>1 DEF Start
<1>2. ASSUME NEW p \in Procs, SweepSkipped(p) PROVE Placed'
  BY <1>2 DEF SweepSkipped
<1>3. ASSUME NEW p \in Procs, SweepBegins(p) PROVE Placed'
  BY <1>3 DEF SweepBegins
<1>4. ASSUME NEW p \in Procs, PassOver(p) PROVE Placed'
  BY <1>4 DEF PassOver
<1>5. ASSUME NEW p \in Procs, Visit(p) PROVE Placed'
  BY <1>5 DEF Visit
<1>6. ASSUME NEW p \in Procs, List(p) PROVE Placed'
  BY <1>6 DEF List
<1>7. ASSUME NEW p \in Procs, Kill(p) PROVE Placed'
  BY <1>7 DEF Kill
<1>8. ASSUME NEW p \in Procs, Killed(p) PROVE Placed'
  BY <1>8 DEF Killed
<1>9. ASSUME NEW p \in Procs, SweepRemoves(p) PROVE Placed'
  BY <1>9 DEF SweepRemoves
<1>10. ASSUME NEW p \in Procs, SweepEnds(p) PROVE Placed'
  BY <1>10 DEF SweepEnds
<1>11. ASSUME NEW p \in Procs, Create(p) PROVE Placed'
  BY <1>11 DEF Create
<1>12. ASSUME NEW p \in Procs, Make(p) PROVE Placed'
  BY <1>12 DEF Make
<1>13. ASSUME NEW p \in Procs, Flock(p) PROVE Placed'
  BY <1>13 DEF Flock
<1>14. ASSUME NEW p \in Procs, Rename(p) PROVE Placed'
  BY <1>14 DEF Rename
<1>15. ASSUME NEW p \in Procs, CreateFails(p) PROVE Placed'
  BY <1>15 DEF CreateFails
<1>16. ASSUME NEW p \in Procs, Spawn(p) PROVE Placed'
  BY <1>16 DEF Spawn
<1>17. ASSUME NEW p \in Procs, SpawnFails(p) PROVE Placed'
  BY <1>17 DEF SpawnFails
<1>18. ASSUME NEW p \in Procs, Arm(p) PROVE Placed'
  BY <1>18 DEF Arm
<1>19. ASSUME NEW p \in Procs, Leave(p) PROVE Placed'
  BY <1>19 DEF Leave
<1>20. ASSUME NEW p \in Procs, Close(p) PROVE Placed'
  BY <1>20 DEF Close
<1>21. ASSUME NEW p \in Procs, Delete(p) PROVE Placed'
  BY <1>21 DEF Delete
<1>22. ASSUME NEW p \in Procs, Die(p) PROVE Placed'
  BY <1>22 DEF Die, Gone
<1>23. ASSUME NEW p \in Procs, TimeOut(p) PROVE Placed'
  BY <1>23 DEF TimeOut, Gone
<1>24. ASSUME NEW d \in Dirs, ReaperExpires(d) PROVE Placed'
  BY <1>24 DEF ReaperExpires
<1>25. ASSUME NEW d \in Dirs, ReaperWakes(d) PROVE Placed'
  BY <1>25 DEF ReaperWakes
<1>26. ASSUME NEW d \in Dirs, ReaperLists(d) PROVE Placed'
  BY <1>26 DEF ReaperLists
<1>27. ASSUME NEW d \in Dirs, ReaperKills(d) PROVE Placed'
  BY <1>27 DEF ReaperKills
<1>28. ASSUME NEW d \in Dirs, ReaperPassEnds(d) PROVE Placed'
  BY <1>28 DEF ReaperPassEnds
<1>29. ASSUME NEW k \in Kids, Fork(k) PROVE Placed'
  BY <1>29 DEF Fork
<1>30. ASSUME NEW k \in Kids, Exit(k) PROVE Placed'
  BY <1>30 DEF Exit
<1>31. CASE UNCHANGED vars BY <1>31 DEF vars
<1>32. QED
  BY <1>1, <1>2, <1>3, <1>4, <1>5, <1>6, <1>7, <1>8, <1>9, <1>10, <1>11, <1>12, <1>13, <1>14,
     <1>15, <1>16, <1>17, <1>18, <1>19, <1>20, <1>21, <1>22, <1>23, <1>24, <1>25, <1>26, <1>27, <1>28, <1>29, <1>30, <1>31
  DEF Next, Sweep, Probe, Reap

LEMMA StepHeld == IInv /\ [Next]_vars => Held'
<1> SUFFICES ASSUME IInv, [Next]_vars PROVE Held' OBVIOUS
<1> USE ConstantsAssumption DEF IInv, TypeOK, Placed, Placeless, Held, Goto, Present, Remove
<1> USE DEF Stages, Creating, Sweeping, Visiting, Probing, Owning
<1>1. ASSUME NEW p \in Procs, Start(p) PROVE Held'
  BY <1>1 DEF Start
<1>2. ASSUME NEW p \in Procs, SweepSkipped(p) PROVE Held'
  BY <1>2 DEF SweepSkipped
<1>3. ASSUME NEW p \in Procs, SweepBegins(p) PROVE Held'
  BY <1>3 DEF SweepBegins
<1>4. ASSUME NEW p \in Procs, PassOver(p) PROVE Held'
  BY <1>4 DEF PassOver
<1>5. ASSUME NEW p \in Procs, Visit(p) PROVE Held'
  BY <1>5 DEF Visit
<1>6. ASSUME NEW p \in Procs, List(p) PROVE Held'
  BY <1>6 DEF List
<1>7. ASSUME NEW p \in Procs, Kill(p) PROVE Held'
  BY <1>7 DEF Kill
<1>8. ASSUME NEW p \in Procs, Killed(p) PROVE Held'
  BY <1>8 DEF Killed
<1>9. ASSUME NEW p \in Procs, SweepRemoves(p) PROVE Held'
  BY <1>9 DEF SweepRemoves
<1>10. ASSUME NEW p \in Procs, SweepEnds(p) PROVE Held'
  BY <1>10 DEF SweepEnds
<1>11. ASSUME NEW p \in Procs, Create(p) PROVE Held'
  BY <1>11 DEF Create
<1>12. ASSUME NEW p \in Procs, Make(p) PROVE Held'
  BY <1>12 DEF Make
<1>13. ASSUME NEW p \in Procs, Flock(p) PROVE Held'
  BY <1>13 DEF Flock
<1>14. ASSUME NEW p \in Procs, Rename(p) PROVE Held'
  BY <1>14 DEF Rename
<1>15. ASSUME NEW p \in Procs, CreateFails(p) PROVE Held'
  BY <1>15 DEF CreateFails
<1>16. ASSUME NEW p \in Procs, Spawn(p) PROVE Held'
  BY <1>16 DEF Spawn
<1>17. ASSUME NEW p \in Procs, SpawnFails(p) PROVE Held'
  BY <1>17 DEF SpawnFails
<1>18. ASSUME NEW p \in Procs, Arm(p) PROVE Held'
  BY <1>18 DEF Arm
<1>19. ASSUME NEW p \in Procs, Leave(p) PROVE Held'
  BY <1>19 DEF Leave
<1>20. ASSUME NEW p \in Procs, Close(p) PROVE Held'
  BY <1>20 DEF Close
<1>21. ASSUME NEW p \in Procs, Delete(p) PROVE Held'
  BY <1>21 DEF Delete
<1>22. ASSUME NEW p \in Procs, Die(p) PROVE Held'
  BY <1>22 DEF Die, Gone
<1>23. ASSUME NEW p \in Procs, TimeOut(p) PROVE Held'
  BY <1>23 DEF TimeOut, Gone
<1>24. ASSUME NEW d \in Dirs, ReaperExpires(d) PROVE Held'
  BY <1>24 DEF ReaperExpires
<1>25. ASSUME NEW d \in Dirs, ReaperWakes(d) PROVE Held'
  BY <1>25 DEF ReaperWakes
<1>26. ASSUME NEW d \in Dirs, ReaperLists(d) PROVE Held'
  BY <1>26 DEF ReaperLists
<1>27. ASSUME NEW d \in Dirs, ReaperKills(d) PROVE Held'
  BY <1>27 DEF ReaperKills
<1>28. ASSUME NEW d \in Dirs, ReaperPassEnds(d) PROVE Held'
  BY <1>28 DEF ReaperPassEnds
<1>29. ASSUME NEW k \in Kids, Fork(k) PROVE Held'
  BY <1>29 DEF Fork
<1>30. ASSUME NEW k \in Kids, Exit(k) PROVE Held'
  BY <1>30 DEF Exit
<1>31. CASE UNCHANGED vars BY <1>31 DEF vars
<1>32. QED
  BY <1>1, <1>2, <1>3, <1>4, <1>5, <1>6, <1>7, <1>8, <1>9, <1>10, <1>11, <1>12, <1>13, <1>14,
     <1>15, <1>16, <1>17, <1>18, <1>19, <1>20, <1>21, <1>22, <1>23, <1>24, <1>25, <1>26, <1>27, <1>28, <1>29, <1>30, <1>31
  DEF Next, Sweep, Probe, Reap

LEMMA StepApart == IInv /\ [Next]_vars => Apart'
<1> SUFFICES ASSUME IInv, [Next]_vars PROVE Apart' OBVIOUS
<1> USE ConstantsAssumption DEF IInv, TypeOK, Placed, Placeless, Held, Apart, Goto, Present, Remove
<1> USE DEF Stages, Creating, Sweeping, Visiting, Probing, Owning
<1>1. ASSUME NEW p \in Procs, Start(p) PROVE Apart'
  BY <1>1 DEF Start
<1>2. ASSUME NEW p \in Procs, SweepSkipped(p) PROVE Apart'
  BY <1>2 DEF SweepSkipped
<1>3. ASSUME NEW p \in Procs, SweepBegins(p) PROVE Apart'
  BY <1>3 DEF SweepBegins
<1>4. ASSUME NEW p \in Procs, PassOver(p) PROVE Apart'
  BY <1>4 DEF PassOver
<1>5. ASSUME NEW p \in Procs, Visit(p) PROVE Apart'
  BY <1>5 DEF Visit
<1>6. ASSUME NEW p \in Procs, List(p) PROVE Apart'
  BY <1>6 DEF List
<1>7. ASSUME NEW p \in Procs, Kill(p) PROVE Apart'
  BY <1>7 DEF Kill
<1>8. ASSUME NEW p \in Procs, Killed(p) PROVE Apart'
  BY <1>8 DEF Killed
<1>9. ASSUME NEW p \in Procs, SweepRemoves(p) PROVE Apart'
  BY <1>9 DEF SweepRemoves
<1>10. ASSUME NEW p \in Procs, SweepEnds(p) PROVE Apart'
  BY <1>10 DEF SweepEnds
<1>11. ASSUME NEW p \in Procs, Create(p) PROVE Apart'
  BY <1>11 DEF Create
<1>12. ASSUME NEW p \in Procs, Make(p) PROVE Apart'
  BY <1>12 DEF Make
<1>13. ASSUME NEW p \in Procs, Flock(p) PROVE Apart'
  BY <1>13 DEF Flock
<1>14. ASSUME NEW p \in Procs, Rename(p) PROVE Apart'
  BY <1>14 DEF Rename
<1>15. ASSUME NEW p \in Procs, CreateFails(p) PROVE Apart'
  BY <1>15 DEF CreateFails
<1>16. ASSUME NEW p \in Procs, Spawn(p) PROVE Apart'
  BY <1>16 DEF Spawn
<1>17. ASSUME NEW p \in Procs, SpawnFails(p) PROVE Apart'
  BY <1>17 DEF SpawnFails
<1>18. ASSUME NEW p \in Procs, Arm(p) PROVE Apart'
  BY <1>18 DEF Arm
<1>19. ASSUME NEW p \in Procs, Leave(p) PROVE Apart'
  BY <1>19 DEF Leave
<1>20. ASSUME NEW p \in Procs, Close(p) PROVE Apart'
  BY <1>20 DEF Close
<1>21. ASSUME NEW p \in Procs, Delete(p) PROVE Apart'
  BY <1>21 DEF Delete
<1>22. ASSUME NEW p \in Procs, Die(p) PROVE Apart'
  BY <1>22 DEF Die, Gone
<1>23. ASSUME NEW p \in Procs, TimeOut(p) PROVE Apart'
  BY <1>23 DEF TimeOut, Gone
<1>24. ASSUME NEW d \in Dirs, ReaperExpires(d) PROVE Apart'
  BY <1>24 DEF ReaperExpires
<1>25. ASSUME NEW d \in Dirs, ReaperWakes(d) PROVE Apart'
  BY <1>25 DEF ReaperWakes
<1>26. ASSUME NEW d \in Dirs, ReaperLists(d) PROVE Apart'
  BY <1>26 DEF ReaperLists
<1>27. ASSUME NEW d \in Dirs, ReaperKills(d) PROVE Apart'
  BY <1>27 DEF ReaperKills
<1>28. ASSUME NEW d \in Dirs, ReaperPassEnds(d) PROVE Apart'
  BY <1>28 DEF ReaperPassEnds
<1>29. ASSUME NEW k \in Kids, Fork(k) PROVE Apart'
  BY <1>29 DEF Fork
<1>30. ASSUME NEW k \in Kids, Exit(k) PROVE Apart'
  BY <1>30 DEF Exit
<1>31. CASE UNCHANGED vars BY <1>31 DEF vars
<1>32. QED
  BY <1>1, <1>2, <1>3, <1>4, <1>5, <1>6, <1>7, <1>8, <1>9, <1>10, <1>11, <1>12, <1>13, <1>14,
     <1>15, <1>16, <1>17, <1>18, <1>19, <1>20, <1>21, <1>22, <1>23, <1>24, <1>25, <1>26, <1>27, <1>28, <1>29, <1>30, <1>31
  DEF Next, Sweep, Probe, Reap

LEMMA StepOrphaned == IInv /\ [Next]_vars => Orphaned'
<1> SUFFICES ASSUME IInv, [Next]_vars PROVE Orphaned' OBVIOUS
<1> USE ConstantsAssumption DEF IInv, TypeOK, Placed, Placeless, Apart, Orphaned, Reaper, NoReaper, Owned, Goto, Present, Remove
<1> USE DEF Stages, Creating, Sweeping, Visiting, Probing, Owning
<1>1. ASSUME NEW p \in Procs, Start(p) PROVE Orphaned'
  BY <1>1 DEF Start
<1>2. ASSUME NEW p \in Procs, SweepSkipped(p) PROVE Orphaned'
  BY <1>2 DEF SweepSkipped
<1>3. ASSUME NEW p \in Procs, SweepBegins(p) PROVE Orphaned'
  BY <1>3 DEF SweepBegins
<1>4. ASSUME NEW p \in Procs, PassOver(p) PROVE Orphaned'
  BY <1>4 DEF PassOver
<1>5. ASSUME NEW p \in Procs, Visit(p) PROVE Orphaned'
  BY <1>5 DEF Visit
<1>6. ASSUME NEW p \in Procs, List(p) PROVE Orphaned'
  BY <1>6 DEF List
<1>7. ASSUME NEW p \in Procs, Kill(p) PROVE Orphaned'
  BY <1>7 DEF Kill
<1>8. ASSUME NEW p \in Procs, Killed(p) PROVE Orphaned'
  BY <1>8 DEF Killed
<1>9. ASSUME NEW p \in Procs, SweepRemoves(p) PROVE Orphaned'
  BY <1>9 DEF SweepRemoves
<1>10. ASSUME NEW p \in Procs, SweepEnds(p) PROVE Orphaned'
  BY <1>10 DEF SweepEnds
<1>11. ASSUME NEW p \in Procs, Create(p) PROVE Orphaned'
  BY <1>11 DEF Create
<1>12. ASSUME NEW p \in Procs, Make(p) PROVE Orphaned'
  BY <1>12 DEF Make
<1>13. ASSUME NEW p \in Procs, Flock(p) PROVE Orphaned'
  BY <1>13 DEF Flock
<1>14. ASSUME NEW p \in Procs, Rename(p) PROVE Orphaned'
  BY <1>14 DEF Rename
<1>15. ASSUME NEW p \in Procs, CreateFails(p) PROVE Orphaned'
  BY <1>15 DEF CreateFails
<1>16. ASSUME NEW p \in Procs, Spawn(p) PROVE Orphaned'
  BY <1>16 DEF Spawn
<1>17. ASSUME NEW p \in Procs, SpawnFails(p) PROVE Orphaned'
  BY <1>17 DEF SpawnFails
<1>18. ASSUME NEW p \in Procs, Arm(p) PROVE Orphaned'
  BY <1>18 DEF Arm
<1>19. ASSUME NEW p \in Procs, Leave(p) PROVE Orphaned'
  BY <1>19 DEF Leave
<1>20. ASSUME NEW p \in Procs, Close(p) PROVE Orphaned'
  BY <1>20 DEF Close
<1>21. ASSUME NEW p \in Procs, Delete(p) PROVE Orphaned'
  BY <1>21 DEF Delete
<1>22. ASSUME NEW p \in Procs, Die(p) PROVE Orphaned'
  BY <1>22 DEF Die, Gone
<1>23. ASSUME NEW p \in Procs, TimeOut(p) PROVE Orphaned'
  BY <1>23 DEF TimeOut, Gone
<1>24. ASSUME NEW d \in Dirs, ReaperExpires(d) PROVE Orphaned'
  BY <1>24 DEF ReaperExpires
<1>25. ASSUME NEW d \in Dirs, ReaperWakes(d) PROVE Orphaned'
  BY <1>25 DEF ReaperWakes
<1>26. ASSUME NEW d \in Dirs, ReaperLists(d) PROVE Orphaned'
  BY <1>26 DEF ReaperLists
<1>27. ASSUME NEW d \in Dirs, ReaperKills(d) PROVE Orphaned'
  BY <1>27 DEF ReaperKills
<1>28. ASSUME NEW d \in Dirs, ReaperPassEnds(d) PROVE Orphaned'
  BY <1>28 DEF ReaperPassEnds
<1>29. ASSUME NEW k \in Kids, Fork(k) PROVE Orphaned'
  BY <1>29 DEF Fork
<1>30. ASSUME NEW k \in Kids, Exit(k) PROVE Orphaned'
  BY <1>30 DEF Exit
<1>31. CASE UNCHANGED vars BY <1>31 DEF vars
<1>32. QED
  BY <1>1, <1>2, <1>3, <1>4, <1>5, <1>6, <1>7, <1>8, <1>9, <1>10, <1>11, <1>12, <1>13, <1>14,
     <1>15, <1>16, <1>17, <1>18, <1>19, <1>20, <1>21, <1>22, <1>23, <1>24, <1>25, <1>26, <1>27, <1>28, <1>29, <1>30, <1>31
  DEF Next, Sweep, Probe, Reap

LEMMA StepLiveDirStays == IInv /\ [Next]_vars => LiveDirStays'
<1> SUFFICES ASSUME IInv, [Next]_vars PROVE LiveDirStays' OBVIOUS
<1> USE ConstantsAssumption DEF IInv, TypeOK, Placed, Placeless, Apart, LiveDirStays, Held, Goto, Present, Remove
<1> USE DEF Stages, Creating, Sweeping, Visiting, Probing, Owning
<1>1. ASSUME NEW p \in Procs, Start(p) PROVE LiveDirStays'
  BY <1>1 DEF Start
<1>2. ASSUME NEW p \in Procs, SweepSkipped(p) PROVE LiveDirStays'
  BY <1>2 DEF SweepSkipped
<1>3. ASSUME NEW p \in Procs, SweepBegins(p) PROVE LiveDirStays'
  BY <1>3 DEF SweepBegins
<1>4. ASSUME NEW p \in Procs, PassOver(p) PROVE LiveDirStays'
  BY <1>4 DEF PassOver
<1>5. ASSUME NEW p \in Procs, Visit(p) PROVE LiveDirStays'
  BY <1>5 DEF Visit
<1>6. ASSUME NEW p \in Procs, List(p) PROVE LiveDirStays'
  BY <1>6 DEF List
<1>7. ASSUME NEW p \in Procs, Kill(p) PROVE LiveDirStays'
  BY <1>7 DEF Kill
<1>8. ASSUME NEW p \in Procs, Killed(p) PROVE LiveDirStays'
  BY <1>8 DEF Killed
<1>9. ASSUME NEW p \in Procs, SweepRemoves(p) PROVE LiveDirStays'
  BY <1>9 DEF SweepRemoves
<1>10. ASSUME NEW p \in Procs, SweepEnds(p) PROVE LiveDirStays'
  BY <1>10 DEF SweepEnds
<1>11. ASSUME NEW p \in Procs, Create(p) PROVE LiveDirStays'
  BY <1>11 DEF Create
<1>12. ASSUME NEW p \in Procs, Make(p) PROVE LiveDirStays'
  BY <1>12 DEF Make
<1>13. ASSUME NEW p \in Procs, Flock(p) PROVE LiveDirStays'
  BY <1>13 DEF Flock
<1>14. ASSUME NEW p \in Procs, Rename(p) PROVE LiveDirStays'
  BY <1>14 DEF Rename
<1>15. ASSUME NEW p \in Procs, CreateFails(p) PROVE LiveDirStays'
  BY <1>15 DEF CreateFails
<1>16. ASSUME NEW p \in Procs, Spawn(p) PROVE LiveDirStays'
  BY <1>16 DEF Spawn
<1>17. ASSUME NEW p \in Procs, SpawnFails(p) PROVE LiveDirStays'
  BY <1>17 DEF SpawnFails
<1>18. ASSUME NEW p \in Procs, Arm(p) PROVE LiveDirStays'
  BY <1>18 DEF Arm
<1>19. ASSUME NEW p \in Procs, Leave(p) PROVE LiveDirStays'
  BY <1>19 DEF Leave
<1>20. ASSUME NEW p \in Procs, Close(p) PROVE LiveDirStays'
  BY <1>20 DEF Close
<1>21. ASSUME NEW p \in Procs, Delete(p) PROVE LiveDirStays'
  BY <1>21 DEF Delete
<1>22. ASSUME NEW p \in Procs, Die(p) PROVE LiveDirStays'
  BY <1>22 DEF Die, Gone
<1>23. ASSUME NEW p \in Procs, TimeOut(p) PROVE LiveDirStays'
  BY <1>23 DEF TimeOut, Gone
<1>24. ASSUME NEW d \in Dirs, ReaperExpires(d) PROVE LiveDirStays'
  BY <1>24 DEF ReaperExpires
<1>25. ASSUME NEW d \in Dirs, ReaperWakes(d) PROVE LiveDirStays'
  BY <1>25 DEF ReaperWakes
<1>26. ASSUME NEW d \in Dirs, ReaperLists(d) PROVE LiveDirStays'
  BY <1>26 DEF ReaperLists
<1>27. ASSUME NEW d \in Dirs, ReaperKills(d) PROVE LiveDirStays'
  BY <1>27 DEF ReaperKills
<1>28. ASSUME NEW d \in Dirs, ReaperPassEnds(d) PROVE LiveDirStays'
  BY <1>28 DEF ReaperPassEnds
<1>29. ASSUME NEW k \in Kids, Fork(k) PROVE LiveDirStays'
  BY <1>29 DEF Fork
<1>30. ASSUME NEW k \in Kids, Exit(k) PROVE LiveDirStays'
  BY <1>30 DEF Exit
<1>31. CASE UNCHANGED vars BY <1>31 DEF vars
<1>32. QED
  BY <1>1, <1>2, <1>3, <1>4, <1>5, <1>6, <1>7, <1>8, <1>9, <1>10, <1>11, <1>12, <1>13, <1>14,
     <1>15, <1>16, <1>17, <1>18, <1>19, <1>20, <1>21, <1>22, <1>23, <1>24, <1>25, <1>26, <1>27, <1>28, <1>29, <1>30, <1>31
  DEF Next, Sweep, Probe, Reap

\* Every state satisfies the types and the strengthened invariant.
THEOREM Inductive == Spec => []IInv
<1>1. IInv /\ [Next]_vars => IInv'
  BY StepTypeOK, StepPlaced, StepHeld, StepApart, StepOrphaned, StepLiveDirStays DEF IInv
<1>2. QED BY <1>1, InitIInv, PTL DEF Spec

\* Types, and with them that whoever makes a directory has the sweep lock
\* (new_probe_dir, _sweep).
THEOREM TypeOKThm == Spec => []TypeOK
<1>1. IInv => TypeOK BY DEF IInv
<1>2. QED BY <1>1, Inductive, PTL

\* No sweep looks into, and nobody removes, a live probe's directory.
THEOREM LiveDirStaysThm == Spec => []LiveDirStays
<1>1. IInv => LiveDirStays BY DEF IInv
<1>2. QED BY <1>1, Inductive, PTL

\* A process in a live probe's directory ends by itself or by that probe.
THEOREM SparesTheLivingThm == Spec => SparesTheLiving
<1> DEFINE A == \A k \in Kids : kid[k] # Nowhere /\ kid'[k] # kid[k] /\ Owned(kid[k]) =>
       \/ Exit(k)
       \/ \E p \in Procs : dir[p] = kid[k] /\ stage[p] \in Owning /\ (Kill(p) \/ TimeOut(p))
<1>1. ASSUME IInv, Next PROVE A
  <2> TAKE k \in Kids
  <2> HAVE kid[k] # Nowhere /\ kid'[k] # kid[k] /\ Owned(kid[k])
  <2> USE <1>1 DEF IInv, TypeOK
  <2>1. ASSUME NEW p \in Procs, Kill(p) PROVE dir[p] = kid[k] /\ stage[p] \in Owning
    <3>1. k \in Inside(dir[p]) /\ dir[p] = kid[k] BY <2>1 DEF Kill, Inside
    <3>2. CASE stage[p] = "leaving" BY <3>1, <3>2 DEF Owning, Probing
    <3>3. CASE stage[p] = "kill"
      <4>1. PICK q \in Procs : stage[q] \in Owning /\ dir[q] = kid[k] BY DEF Owned
      <4>2. p # q BY <3>3, <4>1 DEF Owning, Probing
      <4>3. QED BY <3>1, <3>3, <4>1, <4>2 DEF LiveDirStays, Visiting
    <3>4. QED BY <2>1, <3>2, <3>3 DEF Kill
  <2>2. ASSUME NEW p \in Procs, TimeOut(p) PROVE dir[p] = kid[k] /\ stage[p] \in Owning
    BY <2>2 DEF TimeOut, Inside, Owning, Probing
  <2>3. ASSUME NEW d \in Dirs, Reap(d) PROVE FALSE
    <3>1. ReaperKills(d) BY <2>3 DEF Reap, ReaperWakes, ReaperLists, ReaperPassEnds
    <3>2. k \in Inside(d) BY <3>1 DEF ReaperKills
    <3>3. ~Owned(d) BY <3>1 DEF ReaperKills, Orphaned
    <3>4. QED BY <3>2, <3>3 DEF Inside
  <2>4. QED
    <3>1. CASE \E p \in Procs : Kill(p) \/ TimeOut(p) BY <2>1, <2>2, <3>1
    <3>2. CASE \E d \in Dirs : Reap(d) BY <2>3, <3>2
    <3>3. CASE \E j \in Kids : Fork(j) \/ Exit(j) BY <3>3 DEF Fork, Exit
    <3>4. CASE \E p \in Procs : Spawn(p) BY <3>4 DEF Spawn
    <3>5. CASE UNCHANGED kid BY <3>5
    <3>6. QED BY <3>1, <3>2, <3>3, <3>4, <3>5
          DEF Next, Sweep, Probe, Start, SweepSkipped, SweepBegins, PassOver, Visit, List, Killed,
              SweepRemoves, SweepEnds, Create, Make, Flock, Rename, CreateFails, SpawnFails, Arm,
              Leave, Close, Delete, Die, ReaperExpires
<1>2. IInv /\ [Next]_vars => [A]_vars BY <1>1
<1>3. QED BY <1>2, Inductive, PTL DEF Spec, SparesTheLiving
============================================================================
