--------------------------- MODULE CollectProofs ---------------------------
(***************************************************************************)
(* What is proved of measuring one pool, for any number of collectors and  *)
(* workers, any windows and any length of run: the types, and that a       *)
(* request is out only when no window and no fresh snapshot forbids it,    *)
(* that a window comes with its reason, that what is called fresh is       *)
(* recent, and that stamps go forward.                                     *)
(***************************************************************************)
EXTENDS Collect, TLAPS

LEMMA ConstantTypes ==
  /\ TTL \in Nat /\ StaleMax \in Nat /\ NegativeTTL \in Nat /\ WorkerTimeout \in Nat
  /\ BackoffMax \in Nat /\ Horizon \in Nat /\ MaxConsecutive \in Nat /\ MaxConsecutive >= 1
  /\ Epoch \in Nat /\ RetryAfters \subseteq Nat
  /\ Nobody \notin Collectors /\ Nobody \notin Workers /\ Collectors \intersect Workers = {}
BY ConstantsAssumption DEF Epoch

LEMMA DelaysAreNumbers == \A n \in 1..MaxConsecutive : BackoffBase * 2^(n - 1) \in Nat
BY ConstantsAssumption

LEMMA DelayType ==
  ASSUME NEW n \in 1..MaxConsecutive, NEW after \in Nat
  PROVE  Delay(n, after) \in Nat
<1> DEFINE full == BackoffBase * 2^(n - 1)
<1>1. full \in Nat BY DelaysAreNumbers
<1>2. Delay(n, after) = IF after > 0 THEN after ELSE IF full < BackoffMax THEN full ELSE BackoffMax
  BY DEF Delay, Min0
<1> HIDE DEF full
<1>3. QED BY <1>1, <1>2, ConstantTypes

LEMMA BumpedType ==
  ASSUME NEW b \in [n : 0..MaxConsecutive, until : Nat], NEW after \in Nat, NEW now \in Nat
  PROVE  Bumped(b, after, now) \in [n : 0..MaxConsecutive, until : Nat]
<1> DEFINE m == Min0(b.n + 1, MaxConsecutive)
<1>1. m \in 1..MaxConsecutive BY ConstantTypes DEF Min0
<1>2. Delay(m, after) \in Nat BY <1>1, DelayType
<1>3. Bumped(b, after, now) = [n |-> m, until |-> now + Delay(m, after)] BY DEF Bumped
<1> HIDE DEF m
<1>4. QED BY <1>1, <1>2, <1>3, ConstantTypes

LEMMA AnswerTypes ==
  ASSUME NEW a \in Answers
  PROVE  a.kind \in {"ok", "warned", "broken", "busy", "limited"} /\ a.after \in Nat
<1>1. CASE a \in [kind : {"ok", "warned", "broken", "busy"}, after : {0}] BY <1>1
<1>2. CASE a \in [kind : {"limited"}, after : RetryAfters] BY <1>2, ConstantTypes
<1>3. QED BY <1>1, <1>2 DEF Answers

\* What a transaction stores is an entry and a backoff record.
LEMMA SuccessTypes ==
  ASSUME TypeOK, NEW p \in Procs, NEW now \in Nat, StoreSuccess(p, now)
  PROVE  entry' \in EntryType /\ backoff' \in [n : 0..MaxConsecutive, until : Nat]
<1>1. entry' = [at |-> now, asked |-> asked[p], err |-> "none", errAt |-> 0, neg |-> 0]
  BY DEF StoreSuccess, Measured, NoEntry
<1>2. asked[p] \in Nat BY DEF TypeOK
<1>3. entry' \in EntryType BY <1>1, <1>2 DEF EntryType
<1>4. backoff' = [n |-> 0, until |-> 0] BY DEF StoreSuccess, NoBackoff
<1>5. QED BY <1>3, <1>4, ConstantTypes

LEMMA AuditedType ==
  ASSUME NEW e \in EntryType, NEW kind \in Kinds, NEW now \in Nat
  PROVE  /\ Audited(e, kind, now) \in EntryType
         /\ Audited(e, kind, now).at = e.at /\ Audited(e, kind, now).asked = e.asked
<1> DEFINE stamp == IF kind = "broken" THEN now + NegativeTTL ELSE 0
<1>1. stamp \in Nat BY ConstantTypes
<1>2. Audited(e, kind, now) = [e EXCEPT !.err = kind, !.errAt = now, !.neg = stamp]
  BY DEF Audited
<1> HIDE DEF stamp
<1>3. QED BY <1>1, <1>2 DEF EntryType

LEMMA FailureTypes ==
  ASSUME TypeOK, NEW p \in Procs, NEW now \in Nat, got[p] \in Answers, got[p].kind \in Kinds,
         StoreFailure(p, now)
  PROVE  entry' \in EntryType /\ backoff' \in [n : 0..MaxConsecutive, until : Nat]
<1>1. entry' \in EntryType
  BY AuditedType DEF TypeOK, StoreFailure
<1>2. got[p].after \in Nat BY AnswerTypes
<1>3. Bumped(backoff, got[p].after, now) \in [n : 0..MaxConsecutive, until : Nat]
  BY <1>2, BumpedType DEF TypeOK
<1>4. QED BY <1>1, <1>3 DEF StoreFailure, TypeOK

LEMMA InitIInv == Init => IInv
<1> SUFFICES ASSUME Init PROVE IInv OBVIOUS
<1> USE ConstantTypes
<1>1. TypeOK
  BY DEF Init, TypeOK, Times, EntryType, ResultType, NoEntry, NoBackoff, NoResult, NoAnswer,
         Procs, CollectorSteps, WorkerSteps, Kinds
<1>2. LockHeld BY DEF Init, LockHeld, Procs
<1>3. InHand BY DEF Init, InHand, Procs
<1>4. Moments BY DEF Init, Moments, NoEntry, Procs
<1>5. FetchJustified BY DEF Init, FetchJustified, Procs
<1>6. WindowHasReason BY DEF Init, WindowHasReason, NoEntry, NoBackoff
<1>7. FreshIsRecent BY DEF Init, FreshIsRecent, NoResult
<1>8. QED BY <1>1, <1>2, <1>3, <1>4, <1>5, <1>6, <1>7 DEF IInv

(* Types.                                                                  *)

LEMMA NoTypes ==
  /\ NoEntry \in EntryType /\ NoResult \in ResultType
  /\ NoAnswer \in Answers \union {NoAnswer}
BY DEF NoEntry, EntryType, NoResult, ResultType

LEMMA ServedTypes ==
  ASSUME NEW e \in EntryType, NEW now \in Nat,
         NEW as \in {"fresh", "stale"},
         NEW by \in {"cache", "backoff", "negative", "progress", "live"},
         NEW err \in Kinds \union {"none", "busy"}
  PROVE  /\ FromEntry(e, as, by, err) \in ResultType
         /\ Failure(by, err) \in ResultType
         /\ Fallback(e, now, by, err) \in ResultType
<1>1. FromEntry(e, as, by, err) \in ResultType
  BY DEF FromEntry, ResultType, EntryType
<1>2. FromEntry(e, "stale", by, err) \in ResultType
  BY DEF FromEntry, ResultType, EntryType
<1>3. Failure(by, err) \in ResultType
  BY DEF Failure, NoResult, ResultType
<1>4. QED BY <1>1, <1>2, <1>3 DEF Fallback

LEMMA InProgressType ==
  ASSUME NEW e \in EntryType, NEW now \in Nat
  PROVE  InProgress(e, now) \in ResultType
<1>1. Failure("progress", "busy") \in ResultType BY ServedTypes
<1>2. FromEntry(e, "stale", "progress", e.err) \in ResultType
  BY ServedTypes DEF EntryType
<1>3. /\ FromEntry(e, "fresh", "progress", "none") \in ResultType
      /\ FromEntry(e, "stale", "progress", "busy") \in ResultType
  BY ServedTypes
<1>4. QED BY <1>1, <1>2, <1>3 DEF InProgress

\* The types Finish and Forget leave.
Private ==
  /\ pc \in [Procs -> CollectorSteps \union WorkerSteps]
  /\ \A c \in Collectors : pc[c] \in CollectorSteps
  /\ \A w \in Workers : pc[w] \in WorkerSteps
  /\ start \in [Procs -> Nat]
  /\ useCache \in [Collectors -> BOOLEAN]
  /\ seen \in [Collectors -> EntryType]
  /\ got \in [Procs -> Answers \union {NoAnswer}]
  /\ served \in [Collectors -> ResultType]
  /\ asked \in [Procs -> Nat]
  /\ crossed \in [Collectors -> BOOLEAN]

LEMMA FinishTypes ==
  ASSUME TypeOK, NEW c \in Collectors, NEW from, NEW r \in ResultType, Finish(c, from, r)
  PROVE  Private' /\ clock' = clock /\ refreshLock' = refreshLock
<1> USE NoTypes, ConstantTypes DEF TypeOK, Private, Finish, DropLocals, Goto, Procs
<1>1. /\ pc' \in [Procs -> CollectorSteps \union WorkerSteps]
      /\ \A k \in Collectors : pc'[k] \in CollectorSteps
      /\ \A w \in Workers : pc'[w] \in WorkerSteps
  BY DEF CollectorSteps
<1>2. served' \in [Collectors -> ResultType] OBVIOUS
<1>3. /\ useCache' \in [Collectors -> BOOLEAN]
      /\ seen' \in [Collectors -> EntryType]
      /\ crossed' \in [Collectors -> BOOLEAN]
  <2>1. useCache' \in [Collectors -> BOOLEAN] OBVIOUS
  <2>2. seen' \in [Collectors -> EntryType] OBVIOUS
  <2>3. crossed' \in [Collectors -> BOOLEAN] OBVIOUS
  <2>4. QED BY ONLY <2>1, <2>2, <2>3
<1>4. got' \in [Procs -> Answers \union {NoAnswer}] OBVIOUS
<1>5. asked' \in [Procs -> Nat] OBVIOUS
<1>6. QED BY <1>1, <1>2, <1>3, <1>4, <1>5

LEMMA ForgetTypes ==
  ASSUME TypeOK, NEW p \in Procs, Forget(p)
  PROVE  Private'
<1> USE NoTypes, ConstantTypes DEF TypeOK, Private, Forget, DropLocals, Procs
<1>1. /\ pc' \in [Procs -> CollectorSteps \union WorkerSteps]
      /\ \A k \in Collectors : pc'[k] \in CollectorSteps
      /\ \A w \in Workers : pc'[w] \in WorkerSteps
  BY DEF CollectorSteps, WorkerSteps
<1>2. served' \in [Collectors -> ResultType] OBVIOUS
<1>3. /\ useCache' \in [Collectors -> BOOLEAN]
      /\ seen' \in [Collectors -> EntryType]
      /\ crossed' \in [Collectors -> BOOLEAN]
  <2>1. useCache' \in [Collectors -> BOOLEAN] OBVIOUS
  <2>2. seen' \in [Collectors -> EntryType] OBVIOUS
  <2>3. crossed' \in [Collectors -> BOOLEAN] OBVIOUS
  <2>4. QED BY ONLY <2>1, <2>2, <2>3
<1>4. got' \in [Procs -> Answers \union {NoAnswer}] OBVIOUS
<1>5. asked' \in [Procs -> Nat] OBVIOUS
<1>6. start' \in [Procs -> Nat] OBVIOUS
<1>7. QED BY <1>1, <1>2, <1>3, <1>4, <1>5, <1>6

LEMMA TypeFromParts ==
  ASSUME Private', clock' \in Times, entry' \in EntryType,
         backoff' \in [n : 0..MaxConsecutive, until : Nat],
         collectLock' \in Collectors \union {Nobody}, refreshLock' \in Workers \union {Nobody}
  PROVE  TypeOK'
BY DEF TypeOK, Private

LEMMA StepTypeOK == IInv /\ [Next]_vars => TypeOK'
<1> SUFFICES ASSUME IInv, [Next]_vars PROVE TypeOK' OBVIOUS
<1> USE DEF IInv
<1>a. clock \in Nat BY ConstantTypes DEF TypeOK, Times
<1>b. \A c \in Collectors : c \in Procs /\ start[c] \in Nat /\ seen[c] \in EntryType
                            /\ seen[c].err \in Kinds \union {"none"}
  BY DEF TypeOK, Procs, EntryType
<1>c. \A w \in Workers : w \in Procs /\ start[w] \in Nat
  BY DEF TypeOK, Procs
<1>d. entry.err \in Kinds \union {"none"} BY DEF TypeOK, EntryType
<1>1. ASSUME NEW c \in Collectors, Begin(c) PROVE TypeOK'
  BY <1>1, <1>a, <1>b, ConstantTypes DEF Begin, Goto, TypeOK, store, locks, CollectorSteps, Procs
<1>2. ASSUME NEW c \in Collectors, ScanSkipped(c) PROVE TypeOK'
  <2>1. Failure("policy", "skipped") \in ResultType
    BY DEF Failure, NoResult, ResultType
  <2>2. Private' /\ clock' = clock /\ refreshLock' = refreshLock
    BY <1>2, <2>1, FinishTypes DEF ScanSkipped
  <2>3. entry' \in EntryType BY <1>2 DEF ScanSkipped, TypeOK, EntryType
  <2>4. QED BY <1>2, <2>2, <2>3, TypeFromParts DEF ScanSkipped, TypeOK
<1>3. ASSUME NEW c \in Collectors, ScanServes(c) PROVE TypeOK'
  <2>1. /\ FromEntry(seen[c], "fresh", "cache", "none") \in ResultType
        /\ Fallback(seen[c], start[c], "backoff", "limited") \in ResultType
        /\ Fallback(seen[c], start[c], "negative", seen[c].err) \in ResultType
    BY <1>b, ServedTypes DEF Kinds
  <2>2. Private' /\ clock' = clock /\ refreshLock' = refreshLock
    BY <1>3, <2>1, FinishTypes DEF ScanServes
  <2>3. QED BY <1>3, <2>2, TypeFromParts DEF ScanServes, TypeOK, store
<1>4. ASSUME NEW c \in Collectors, ScanMisses(c) PROVE TypeOK'
  BY <1>4, ConstantTypes DEF ScanMisses, Goto, TypeOK, store, locks, local, CollectorSteps, Procs
<1>5. ASSUME NEW c \in Collectors, TakeLock(c) \/ MissLock(c) PROVE TypeOK'
  BY <1>5, ConstantTypes
  DEF TakeLock, MissLock, Goto, TypeOK, store, locks, local, CollectorSteps, Procs
<1>6. ASSUME NEW c \in Collectors, RecheckServes(c) PROVE TypeOK'
  <2>1. /\ Fallback(entry, start[c], "backoff", "limited") \in ResultType
        /\ Fallback(entry, start[c], "negative", entry.err) \in ResultType
        /\ FromEntry(entry, "fresh", "cache", "none") \in ResultType
    BY <1>b, <1>d, ServedTypes DEF Kinds, TypeOK
  <2>2. Private' /\ clock' = clock /\ refreshLock' = refreshLock
    BY <1>6, <2>1, FinishTypes DEF RecheckServes
  <2>3. QED BY <1>6, <2>2, TypeFromParts DEF RecheckServes, TypeOK, store
<1>7. ASSUME NEW c \in Collectors, RecheckMisses(c) PROVE TypeOK'
  BY <1>7, <1>a, ConstantTypes DEF RecheckMisses, Goto, TypeOK, store, locks, CollectorSteps, Procs
<1>8. ASSUME NEW p \in Procs, Answer(p) PROVE TypeOK'
  BY <1>8 DEF Answer, Goto, TypeOK, store, locks, CollectorSteps, WorkerSteps, Procs
<1>9. ASSUME NEW c \in Collectors, MergeBusy(c) PROVE TypeOK'
  BY <1>9, ConstantTypes DEF MergeBusy, Goto, TypeOK, store, local, CollectorSteps, Procs
<1>10. ASSUME NEW c \in Collectors, MergeSuccess(c) PROVE TypeOK'
  <2>1. [as |-> "fresh", by |-> "live", at |-> start[c], asked |-> asked[c], err |-> "none"]
          \in ResultType
    BY <1>b DEF ResultType, TypeOK
  <2>2. Private' /\ clock' = clock /\ refreshLock' = refreshLock
    BY <1>10, <2>1, FinishTypes DEF MergeSuccess
  <2>3. entry' \in EntryType /\ backoff' \in [n : 0..MaxConsecutive, until : Nat]
    BY <1>10, <1>b, SuccessTypes DEF MergeSuccess
  <2>4. QED BY <1>10, <2>2, <2>3, TypeFromParts DEF MergeSuccess, TypeOK
<1>11. ASSUME NEW c \in Collectors, MergeFailure(c) PROVE TypeOK'
  <2>1. got[c] \in Answers /\ got[c].kind \in Kinds
    BY <1>11, <1>b DEF MergeFailure, Failed, Finish, Goto, InHand
  <2>2. [as |-> "warned", by |-> "live", at |-> 0, asked |-> asked[c], err |-> "warned"]
          \in ResultType
    BY <1>b DEF ResultType, TypeOK, Kinds
  <2>3. Fallback(seen[c], start[c], "live", got[c].kind) \in ResultType
    BY <2>1, <1>b, ServedTypes
  <2>4. Private' /\ clock' = clock /\ refreshLock' = refreshLock
    BY <1>11, <2>2, <2>3, FinishTypes DEF MergeFailure
  <2>5. entry' \in EntryType /\ backoff' \in [n : 0..MaxConsecutive, until : Nat]
    BY <1>11, <1>b, <2>1, FailureTypes DEF MergeFailure
  <2>6. QED BY <1>11, <2>4, <2>5, TypeFromParts DEF MergeFailure, TypeOK
<1>12. ASSUME NEW c \in Collectors, ServeInProgress(c) PROVE TypeOK'
  <2>1. InProgress(entry, start[c]) \in ResultType
    BY <1>b, InProgressType DEF TypeOK
  <2>2. Private' /\ clock' = clock /\ refreshLock' = refreshLock
    BY <1>12, <2>1, FinishTypes DEF ServeInProgress
  <2>3. QED BY <1>12, <2>2, TypeFromParts DEF ServeInProgress, TypeOK, store
<1>13. ASSUME NEW c \in Collectors, Return(c) PROVE TypeOK'
  BY <1>13, <1>b, ForgetTypes, TypeFromParts DEF Return, TypeOK, store, locks
<1>14. ASSUME NEW w \in Workers, WorkerBegin(w) PROVE TypeOK'
  BY <1>14, <1>a, ConstantTypes DEF WorkerBegin, Goto, TypeOK, store, WorkerSteps, Procs
<1>15. ASSUME NEW w \in Workers, WorkerRefrains(w) \/ WorkerLeaves(w) PROVE TypeOK'
  BY <1>15, <1>c, ForgetTypes, TypeFromParts DEF WorkerRefrains, WorkerLeaves, TypeOK, store
<1>16. ASSUME NEW w \in Workers, WorkerAsks(w) PROVE TypeOK'
  BY <1>16, <1>a, ConstantTypes DEF WorkerAsks, Goto, TypeOK, store, locks, WorkerSteps, Procs
<1>17. ASSUME NEW w \in Workers, WorkerStores(w) PROVE TypeOK'
  <2>1. got[w] \in Answers BY <1>17, <1>c DEF WorkerStores, Goto, InHand
  <2>2. entry' \in EntryType /\ backoff' \in [n : 0..MaxConsecutive, until : Nat]
    <3>1. CASE got[w].kind = "ok"
      BY <1>17, <3>1, <1>a, <1>c, SuccessTypes DEF WorkerStores
    <3>2. CASE got[w].kind # "ok"
      <4>1. got[w].kind \in Kinds
        BY <1>17, <2>1, <3>2, AnswerTypes DEF WorkerStores, Kinds
      <4>2. QED BY <1>17, <2>1, <3>2, <4>1, <1>c, FailureTypes DEF WorkerStores
    <3>3. QED BY <3>1, <3>2
  <2>3. crossed' \in [Collectors -> BOOLEAN] BY <1>17 DEF WorkerStores, TypeOK
  <2>4. Private'
    BY <1>17, <2>3, ConstantTypes DEF WorkerStores, Goto, TypeOK, Private, WorkerSteps, Procs
  <2>5. QED BY <1>17, <2>2, <2>4, TypeFromParts DEF WorkerStores, TypeOK, locks
<1>18. ASSUME NEW p \in Procs, Crash(p) PROVE TypeOK'
  BY <1>18, ForgetTypes, TypeFromParts DEF Crash, TypeOK, store
<1>19. CASE Tick
  BY <1>19, ConstantTypes DEF Tick, TypeOK, Times, store, locks, local
<1>20. CASE UNCHANGED vars
  BY <1>20 DEF vars, TypeOK
<1>21. QED
  BY <1>1, <1>2, <1>3, <1>4, <1>5, <1>6, <1>7, <1>8, <1>9, <1>10, <1>11, <1>12, <1>13, <1>14,
     <1>15, <1>16, <1>17, <1>18, <1>19, <1>20
  DEF Next, CollectorStep, WorkerStep, Procs

(* The collect lock.                                                       *)

LEMMA StepLockHeld == IInv /\ [Next]_vars => LockHeld'
<1> SUFFICES ASSUME IInv, [Next]_vars PROVE LockHeld' OBVIOUS
<1> USE ConstantTypes DEF IInv, TypeOK, LockHeld, Goto, Finish, Forget, locks, Procs
<1>1. ASSUME NEW c \in Collectors,
             Begin(c) \/ ScanSkipped(c) \/ ScanServes(c) \/ ScanMisses(c) \/ MissLock(c)
      PROVE  LockHeld'
  BY <1>1 DEF Begin, ScanSkipped, ScanServes, ScanMisses, MissLock
<1>2. ASSUME NEW c \in Collectors, TakeLock(c) PROVE LockHeld'
  BY <1>2 DEF TakeLock
<1>3. ASSUME NEW c \in Collectors, RecheckServes(c) \/ RecheckMisses(c) PROVE LockHeld'
  BY <1>3 DEF RecheckServes, RecheckMisses
<1>4. ASSUME NEW p \in Procs, Answer(p) PROVE LockHeld'
  BY <1>4 DEF Answer
<1>5. ASSUME NEW c \in Collectors, MergeBusy(c) \/ MergeSuccess(c) \/ MergeFailure(c)
      PROVE  LockHeld'
  BY <1>5 DEF MergeBusy, MergeSuccess, MergeFailure
<1>6. ASSUME NEW c \in Collectors, ServeInProgress(c) \/ Return(c) PROVE LockHeld'
  BY <1>6 DEF ServeInProgress, Return
<1>7. ASSUME NEW w \in Workers, WorkerBegin(w) \/ WorkerAsks(w) \/ WorkerStores(w)
      PROVE  LockHeld'
  BY <1>7 DEF WorkerBegin, WorkerAsks, WorkerStores
<1>8. ASSUME NEW w \in Workers, WorkerRefrains(w) \/ WorkerLeaves(w) PROVE LockHeld'
  BY <1>8 DEF WorkerRefrains, WorkerLeaves
<1>9. ASSUME NEW p \in Procs, Crash(p) PROVE LockHeld'
  BY <1>9 DEF Crash
<1>10. CASE Tick \/ UNCHANGED vars
  BY <1>10 DEF Tick, vars
<1>11. QED
  BY <1>1, <1>2, <1>3, <1>4, <1>5, <1>6, <1>7, <1>8, <1>9, <1>10
  DEF Next, CollectorStep, WorkerStep

LEMMA StepInHand == IInv /\ [Next]_vars => InHand'
<1> SUFFICES ASSUME IInv, [Next]_vars PROVE InHand' OBVIOUS
<1> USE ConstantTypes DEF IInv, TypeOK, InHand, Goto, Finish, Forget, DropLocals, Procs
<1>1. ASSUME NEW c \in Collectors,
             Begin(c) \/ ScanSkipped(c) \/ ScanServes(c) \/ ScanMisses(c)
      PROVE  InHand'
  BY <1>1 DEF Begin, ScanSkipped, ScanServes, ScanMisses, local
<1>2. ASSUME NEW c \in Collectors, TakeLock(c) \/ MissLock(c) PROVE InHand'
  BY <1>2 DEF TakeLock, MissLock, local
<1>3. ASSUME NEW c \in Collectors, RecheckServes(c) \/ RecheckMisses(c) PROVE InHand'
  BY <1>3 DEF RecheckServes, RecheckMisses
<1>4. ASSUME NEW p \in Procs, Answer(p) PROVE InHand'
  BY <1>4 DEF Answer
<1>5. ASSUME NEW c \in Collectors, MergeBusy(c) \/ MergeSuccess(c) \/ MergeFailure(c)
      PROVE  InHand'
  BY <1>5 DEF MergeBusy, MergeSuccess, MergeFailure, local
<1>6. ASSUME NEW c \in Collectors, ServeInProgress(c) \/ Return(c) PROVE InHand'
  BY <1>6 DEF ServeInProgress, Return
<1>7. ASSUME NEW w \in Workers, WorkerBegin(w) \/ WorkerAsks(w) \/ WorkerStores(w)
      PROVE  InHand'
  BY <1>7 DEF WorkerBegin, WorkerAsks, WorkerStores
<1>8. ASSUME NEW w \in Workers, WorkerRefrains(w) \/ WorkerLeaves(w) PROVE InHand'
  BY <1>8 DEF WorkerRefrains, WorkerLeaves
<1>9. ASSUME NEW p \in Procs, Crash(p) PROVE InHand'
  BY <1>9 DEF Crash
<1>10. CASE Tick \/ UNCHANGED vars
  BY <1>10 DEF Tick, vars, local
<1>11. QED
  BY <1>1, <1>2, <1>3, <1>4, <1>5, <1>6, <1>7, <1>8, <1>9, <1>10
  DEF Next, CollectorStep, WorkerStep

(* The moments of a call.                                                  *)

LEMMA SuccessAt ==
  ASSUME NEW p \in Procs, NEW now \in Nat, StoreSuccess(p, now)
  PROVE  entry'.at = now /\ entry'.asked = asked[p]
BY DEF StoreSuccess, Measured, NoEntry

LEMMA FailureAt ==
  ASSUME NEW p \in Procs, NEW now \in Nat, TypeOK, StoreFailure(p, now)
  PROVE  entry'.at = entry.at /\ entry'.asked = entry.asked
BY DEF StoreFailure, Audited, TypeOK, EntryType

LEMMA Numbers ==
  ASSUME TypeOK
  PROVE  /\ clock \in Nat /\ entry.at \in Nat /\ entry.asked \in Nat
         /\ \A p \in Procs : start[p] \in Nat /\ asked[p] \in Nat
<1>1. clock \in Nat BY ConstantTypes DEF TypeOK, Times
<1>2. QED BY <1>1 DEF TypeOK, EntryType

LEMMA SuccessMoments ==
  ASSUME TypeOK, Moments, NEW c \in Collectors, MergeSuccess(c)
  PROVE  entry'.at <= clock' /\ entry'.at - entry'.asked <= WorkerTimeout
<1>1. c \in Procs BY DEF Procs
<1>2. pc[c] = "merge" /\ StoreSuccess(c, start[c]) /\ clock' = clock
  BY DEF MergeSuccess, Finish, Goto
<1>3. start[c] <= clock /\ start[c] <= asked[c] BY <1>1, <1>2 DEF Moments
<1>4. entry'.at = start[c] /\ entry'.asked = asked[c] BY <1>1, <1>2, Numbers, SuccessAt
<1>5. QED BY <1>1, <1>2, <1>3, <1>4, Numbers, ConstantTypes

LEMMA StoreMoments ==
  ASSUME TypeOK, Moments, NEW w \in Workers, WorkerStores(w)
  PROVE  entry'.at <= clock' /\ entry'.at - entry'.asked <= WorkerTimeout
<1>1. w \in Procs BY DEF Procs
<1>2. pc[w] = "merge" /\ clock' = clock
  BY DEF WorkerStores, Goto
<1>3. /\ start[w] <= asked[w] /\ clock <= start[w] + WorkerTimeout
      /\ entry.at <= clock /\ entry.at - entry.asked <= WorkerTimeout
  BY <1>1, <1>2 DEF Moments
<1>4. \/ entry'.at = clock /\ entry'.asked = asked[w]
      \/ entry'.at = entry.at /\ entry'.asked = entry.asked
  BY <1>1, Numbers, SuccessAt, FailureAt DEF WorkerStores
<1>5. QED BY <1>1, <1>2, <1>3, <1>4, Numbers, ConstantTypes

\* The part of Moments a process keeps for itself.
OwnMoments ==
  /\ \A p \in Procs : start[p] <= clock /\ asked[p] <= clock
  /\ \A p \in Procs : pc[p] \in {"fetch", "merge"} => start[p] <= asked[p]
  /\ \A c \in Collectors : seen[c].at - seen[c].asked <= WorkerTimeout
  /\ \A w \in Workers : pc[w] # "idle" => clock <= start[w] + WorkerTimeout

LEMMA MomentsFromParts ==
  ASSUME OwnMoments', entry'.at <= clock', entry'.at - entry'.asked <= WorkerTimeout
  PROVE  Moments'
BY DEF OwnMoments, Moments

LEMMA FinishMoments ==
  ASSUME TypeOK, Moments, NEW c \in Collectors, NEW from, NEW r, Finish(c, from, r)
  PROVE  OwnMoments' /\ clock' = clock
<1>1. /\ pc' = [pc EXCEPT ![c] = "done"] /\ start' = start
      /\ asked' = [asked EXCEPT ![c] = 0] /\ clock' = clock
      /\ seen' = [seen EXCEPT ![c] = NoEntry]
  BY DEF Finish, DropLocals, Goto
<1>2. \A q \in Procs : \/ q = c /\ pc'[q] = "done" /\ start'[q] = start[q] /\ asked'[q] = 0
                       \/ pc'[q] = pc[q] /\ start'[q] = start[q] /\ asked'[q] = asked[q]
  BY <1>1 DEF TypeOK
<1>3. \A k \in Collectors : seen'[k] = seen[k] \/ seen'[k] = NoEntry
  BY <1>1 DEF TypeOK
<1>4. \A q \in Procs : /\ start'[q] <= clock' /\ asked'[q] <= clock'
  BY <1>1, <1>2, Numbers DEF Moments
<1>5. \A q \in Procs : pc'[q] \in {"fetch", "merge"} => start'[q] <= asked'[q]
  BY <1>2 DEF Moments
<1>6. \A k \in Collectors : seen'[k].at - seen'[k].asked <= WorkerTimeout
  BY <1>3, ConstantTypes DEF Moments, NoEntry
<1>7. \A w \in Workers : pc'[w] # "idle" => clock' <= start'[w] + WorkerTimeout
  BY <1>1, <1>2, ConstantTypes DEF Moments, Procs
<1>8. QED BY <1>1, <1>4, <1>5, <1>6, <1>7 DEF OwnMoments

LEMMA ForgetMoments ==
  ASSUME TypeOK, Moments, NEW p \in Procs, Forget(p), clock' = clock
  PROVE  OwnMoments'
<1>1. /\ pc' = [pc EXCEPT ![p] = "idle"] /\ start' = [start EXCEPT ![p] = 0]
      /\ asked' = [asked EXCEPT ![p] = 0]
      /\ seen' = [seen EXCEPT ![p] = NoEntry] \/ seen' = seen
  BY DEF Forget, DropLocals
<1>2. \A q \in Procs : \/ q = p /\ pc'[q] = "idle" /\ start'[q] = 0 /\ asked'[q] = 0
                       \/ pc'[q] = pc[q] /\ start'[q] = start[q] /\ asked'[q] = asked[q]
  BY <1>1 DEF TypeOK
<1>3. \A k \in Collectors : seen'[k] = seen[k] \/ seen'[k] = NoEntry
  BY <1>1 DEF TypeOK
<1>4. \A q \in Procs : start'[q] <= clock' /\ asked'[q] <= clock'
  BY <1>2, Numbers DEF Moments
<1>5. \A q \in Procs : pc'[q] \in {"fetch", "merge"} => start'[q] <= asked'[q]
  BY <1>2 DEF Moments
<1>6. \A k \in Collectors : seen'[k].at - seen'[k].asked <= WorkerTimeout
  BY <1>3, ConstantTypes DEF Moments, NoEntry
<1>7. \A w \in Workers : pc'[w] # "idle" => clock' <= start'[w] + WorkerTimeout
  BY <1>2 DEF Moments, Procs
<1>8. QED BY <1>4, <1>5, <1>6, <1>7 DEF OwnMoments

LEMMA StepMoments == IInv /\ [Next]_vars => Moments'
<1> SUFFICES ASSUME IInv, [Next]_vars PROVE Moments' OBVIOUS
<1>a. TypeOK /\ Moments BY DEF IInv
<1>b. entry.at <= clock /\ entry.at - entry.asked <= WorkerTimeout BY <1>a DEF Moments
<1>c. /\ \A c \in Collectors : c \in Procs
      /\ \A w \in Workers : w \in Procs
  BY DEF Procs
<1> USE <1>a, <1>b, <1>c, ConstantTypes
<1>1. ASSUME NEW c \in Collectors, Begin(c) PROVE Moments'
  BY <1>1, Numbers DEF Begin, Goto, Moments, TypeOK, Procs, store
<1>2. ASSUME NEW c \in Collectors, ScanSkipped(c) PROVE Moments'
  <2>1. entry'.at = entry.at /\ entry'.asked = entry.asked
    BY <1>2 DEF ScanSkipped, TypeOK, EntryType
  <2>2. QED BY <1>2, <2>1, FinishMoments, MomentsFromParts DEF ScanSkipped
<1>3. ASSUME NEW c \in Collectors, ScanServes(c) PROVE Moments'
  BY <1>3, FinishMoments, MomentsFromParts DEF ScanServes, store
<1>4. ASSUME NEW c \in Collectors, ScanMisses(c) PROVE Moments'
  BY <1>4 DEF ScanMisses, Goto, Moments, TypeOK, store, local, Procs
<1>5. ASSUME NEW c \in Collectors, TakeLock(c) \/ MissLock(c) PROVE Moments'
  BY <1>5 DEF TakeLock, MissLock, Goto, Moments, TypeOK, store, local, Procs
<1>6. ASSUME NEW c \in Collectors, RecheckServes(c) PROVE Moments'
  BY <1>6, FinishMoments, MomentsFromParts DEF RecheckServes, store
<1>7. ASSUME NEW c \in Collectors, RecheckMisses(c) PROVE Moments'
  BY <1>7, Numbers DEF RecheckMisses, Goto, Moments, TypeOK, store, Procs
<1>8. ASSUME NEW p \in Procs, Answer(p) PROVE Moments'
  BY <1>8 DEF Answer, Goto, Moments, TypeOK, store, Procs
<1>9. ASSUME NEW c \in Collectors, MergeBusy(c) PROVE Moments'
  BY <1>9 DEF MergeBusy, Goto, Moments, TypeOK, store, local, Procs
<1>10. ASSUME NEW c \in Collectors, MergeSuccess(c) PROVE Moments'
  BY <1>10, SuccessMoments, FinishMoments, MomentsFromParts DEF MergeSuccess
<1>11. ASSUME NEW c \in Collectors, MergeFailure(c) PROVE Moments'
  <2>1. entry'.at = entry.at /\ entry'.asked = entry.asked
    BY <1>11, Numbers, FailureAt DEF MergeFailure
  <2>2. QED BY <1>11, <2>1, FinishMoments, MomentsFromParts DEF MergeFailure
<1>12. ASSUME NEW c \in Collectors, ServeInProgress(c) PROVE Moments'
  BY <1>12, FinishMoments, MomentsFromParts DEF ServeInProgress, store
<1>13. ASSUME NEW c \in Collectors, Return(c) PROVE Moments'
  BY <1>13, ForgetMoments, MomentsFromParts DEF Return, store
<1>14. ASSUME NEW w \in Workers, WorkerBegin(w) PROVE Moments'
  BY <1>14, Numbers DEF WorkerBegin, Goto, Moments, TypeOK, store, Procs
<1>15. ASSUME NEW w \in Workers, WorkerRefrains(w) \/ WorkerLeaves(w) PROVE Moments'
  BY <1>15, ForgetMoments, MomentsFromParts DEF WorkerRefrains, WorkerLeaves, store
<1>16. ASSUME NEW w \in Workers, WorkerAsks(w) PROVE Moments'
  BY <1>16, Numbers DEF WorkerAsks, Goto, Moments, TypeOK, store, Procs
<1>17. ASSUME NEW w \in Workers, WorkerStores(w) PROVE Moments'
  <2>1. entry'.at <= clock' /\ entry'.at - entry'.asked <= WorkerTimeout
    BY <1>17, StoreMoments
  <2>2. QED BY <1>17, <2>1 DEF WorkerStores, Goto, Moments, TypeOK, Procs
<1>18. ASSUME NEW p \in Procs, Crash(p) PROVE Moments'
  BY <1>18, ForgetMoments, MomentsFromParts DEF Crash, store
<1>19. CASE Tick
  BY <1>19, Numbers DEF Tick, Expired, Moments, store, local, Procs
<1>20. CASE UNCHANGED vars
  BY <1>20 DEF vars, Moments
<1>21. QED
  BY <1>1, <1>2, <1>3, <1>4, <1>5, <1>6, <1>7, <1>8, <1>9, <1>10, <1>11, <1>12, <1>13, <1>14,
     <1>15, <1>16, <1>17, <1>18, <1>19, <1>20
  DEF Next, CollectorStep, WorkerStep

(* A request is out only for a reason.                                     *)

\* What a collector's own request rests on, and a step that leaves it alone.
Justified(c) ==
  \/ crossed[c]
  \/ /\ ~WindowOpen(backoff, start[c])
     /\ ~NegativeOpen(entry, start[c])
     /\ ~FreshFor(c, entry)

LEMMA JustifiedKept ==
  ASSUME FetchJustified,
         \A c \in Collectors : pc'[c] \in {"fetch", "merge"} =>
           /\ pc[c] \in {"fetch", "merge"}
           /\ start'[c] = start[c] /\ useCache'[c] = useCache[c] /\ crossed'[c] = crossed[c],
         entry' = entry, backoff' = backoff
  PROVE  FetchJustified'
BY DEF FetchJustified, WindowOpen, NegativeOpen, FreshFor, Age

LEMMA FinishOthers ==
  ASSUME TypeOK, NEW c \in Collectors, NEW from, NEW r, Finish(c, from, r)
  PROVE  /\ pc[c] = from /\ pc'[c] = "done"
         /\ \A k \in Collectors : k # c =>
              /\ pc'[k] = pc[k] /\ start'[k] = start[k]
              /\ useCache'[k] = useCache[k] /\ crossed'[k] = crossed[k]
         /\ \A k \in Collectors : pc'[k] \in {"fetch", "merge"} =>
              /\ pc[k] \in {"fetch", "merge"}
              /\ start'[k] = start[k] /\ useCache'[k] = useCache[k] /\ crossed'[k] = crossed[k]
BY DEF TypeOK, Finish, Goto, DropLocals, Procs

LEMMA ForgetOthers ==
  ASSUME TypeOK, NEW p \in Procs, Forget(p)
  PROVE  \A k \in Collectors : pc'[k] \in {"fetch", "merge"} =>
           /\ pc[k] \in {"fetch", "merge"}
           /\ start'[k] = start[k] /\ useCache'[k] = useCache[k] /\ crossed'[k] = crossed[k]
BY DEF TypeOK, Forget, DropLocals, Procs

\* Whoever merges holds the collect lock, so nobody else's request is out.
LEMMA MergeIsAlone ==
  ASSUME TypeOK, LockHeld, NEW c \in Collectors, NEW r, Finish(c, "merge", r)
  PROVE  FetchJustified'
<1>1. pc[c] = "merge" /\ pc'[c] = "done"
  BY FinishOthers
<1>2. \A k \in Collectors : k # c => pc[k] \notin {"fetch", "merge"}
  BY <1>1 DEF LockHeld
<1>3. \A k \in Collectors : pc'[k] \notin {"fetch", "merge"}
  BY <1>1, <1>2, FinishOthers
<1>4. QED BY <1>3 DEF FetchJustified

LEMMA StepFetchJustified == IInv /\ [Next]_vars => FetchJustified'
<1> SUFFICES ASSUME IInv, [Next]_vars PROVE FetchJustified' OBVIOUS
<1>a. TypeOK /\ LockHeld /\ FetchJustified BY DEF IInv
<1>b. /\ \A c \in Collectors : c \in Procs
      /\ \A w \in Workers : w \in Procs /\ w \notin Collectors
  BY ConstantTypes DEF Procs
<1> USE <1>a, <1>b
<1>1. ASSUME NEW c \in Collectors, Begin(c) PROVE FetchJustified'
  BY <1>1, JustifiedKept DEF Begin, Goto, TypeOK, store
<1>2. ASSUME NEW c \in Collectors, ScanSkipped(c) PROVE FetchJustified'
  <2>1. /\ entry'.at = entry.at /\ entry'.neg \in {entry.neg, 0} /\ backoff' = backoff
    BY <1>2 DEF ScanSkipped, TypeOK, EntryType
  <2>2. SUFFICES ASSUME NEW k \in Collectors, pc'[k] \in {"fetch", "merge"} PROVE Justified(k)'
    BY DEF FetchJustified, Justified
  <2>3. /\ pc[k] \in {"fetch", "merge"} /\ start'[k] = start[k]
        /\ useCache'[k] = useCache[k] /\ crossed'[k] = crossed[k]
    BY <1>2, <2>2, FinishOthers DEF ScanSkipped
  <2>4. Justified(k) BY <2>3 DEF FetchJustified, Justified
  <2>5. start[k] \in Nat BY DEF TypeOK
  <2>6. NegativeOpen(entry, start[k])' => NegativeOpen(entry, start[k])
    BY <2>1, <2>3, <2>5 DEF NegativeOpen
  <2>7. WindowOpen(backoff, start[k])' = WindowOpen(backoff, start[k])
    BY <2>1, <2>3 DEF WindowOpen
  <2>8. FreshFor(k, entry)' = FreshFor(k, entry)
    BY <2>1, <2>3 DEF FreshFor, Age
  <2>9. QED BY <2>3, <2>4, <2>6, <2>7, <2>8 DEF Justified
<1>3. ASSUME NEW c \in Collectors, ScanServes(c) PROVE FetchJustified'
  BY <1>3, FinishOthers, JustifiedKept DEF ScanServes, store
<1>4. ASSUME NEW c \in Collectors, ScanMisses(c) PROVE FetchJustified'
  BY <1>4, JustifiedKept DEF ScanMisses, Goto, TypeOK, store, local
<1>5. ASSUME NEW c \in Collectors, TakeLock(c) \/ MissLock(c) PROVE FetchJustified'
  BY <1>5, JustifiedKept DEF TakeLock, MissLock, Goto, TypeOK, store, local
<1>6. ASSUME NEW c \in Collectors, RecheckServes(c) PROVE FetchJustified'
  BY <1>6, FinishOthers, JustifiedKept DEF RecheckServes, store
<1>7. ASSUME NEW c \in Collectors, RecheckMisses(c) PROVE FetchJustified'
  <2>1. \A k \in Collectors : k # c => pc[k] \notin {"fetch", "merge"}
    BY <1>7 DEF RecheckMisses, Goto, LockHeld
  <2>2. \A k \in Collectors : pc'[k] \in {"fetch", "merge"} => k = c
    BY <1>7, <2>1 DEF RecheckMisses, Goto, TypeOK
  <2>3. Justified(c)'
    BY <1>7 DEF RecheckMisses, Justified, WindowOpen, NegativeOpen, FreshFor, Age, store
  <2>4. QED BY <2>2, <2>3 DEF FetchJustified, Justified
<1>8. ASSUME NEW p \in Procs, Answer(p) PROVE FetchJustified'
  BY <1>8, JustifiedKept DEF Answer, Goto, TypeOK, store
<1>9. ASSUME NEW c \in Collectors, MergeBusy(c) PROVE FetchJustified'
  BY <1>9, JustifiedKept DEF MergeBusy, Goto, TypeOK, store, local
<1>10. ASSUME NEW c \in Collectors, MergeSuccess(c) \/ MergeFailure(c) PROVE FetchJustified'
  BY <1>10, MergeIsAlone DEF MergeSuccess, MergeFailure
<1>11. ASSUME NEW c \in Collectors, ServeInProgress(c) PROVE FetchJustified'
  BY <1>11, FinishOthers, JustifiedKept DEF ServeInProgress, store
<1>12. ASSUME NEW c \in Collectors, Return(c) PROVE FetchJustified'
  BY <1>12, ForgetOthers, JustifiedKept DEF Return, store
<1>13. ASSUME NEW w \in Workers, WorkerBegin(w) PROVE FetchJustified'
  BY <1>13, JustifiedKept DEF WorkerBegin, Goto, TypeOK, store
<1>14. ASSUME NEW w \in Workers, WorkerRefrains(w) \/ WorkerLeaves(w) PROVE FetchJustified'
  BY <1>14, ForgetOthers, JustifiedKept DEF WorkerRefrains, WorkerLeaves, store
<1>15. ASSUME NEW w \in Workers, WorkerAsks(w) PROVE FetchJustified'
  BY <1>15, JustifiedKept DEF WorkerAsks, Goto, TypeOK, store
<1>16. ASSUME NEW w \in Workers, WorkerStores(w) PROVE FetchJustified'
  <2>1. \A k \in Collectors : pc'[k] \in {"fetch", "merge"} => crossed'[k]
    BY <1>16 DEF WorkerStores, Goto, TypeOK
  <2>2. QED BY <2>1 DEF FetchJustified
<1>17. ASSUME NEW p \in Procs, Crash(p) PROVE FetchJustified'
  BY <1>17, ForgetOthers, JustifiedKept DEF Crash, store
<1>18. CASE Tick \/ UNCHANGED vars
  BY <1>18, JustifiedKept DEF Tick, vars, store, local
<1>19. QED
  BY <1>1, <1>2, <1>3, <1>4, <1>5, <1>6, <1>7, <1>8, <1>9, <1>10, <1>11, <1>12, <1>13, <1>14,
     <1>15, <1>16, <1>17, <1>18
  DEF Next, CollectorStep, WorkerStep

(* A window comes with its reason.                                         *)

LEMMA ReasonOfSuccess ==
  ASSUME NEW p, NEW now, StoreSuccess(p, now)
  PROVE  WindowHasReason'
BY DEF StoreSuccess, Measured, NoEntry, NoBackoff, WindowHasReason

LEMMA ReasonOfFailure ==
  ASSUME TypeOK, WindowHasReason, NEW p \in Procs, NEW now \in Nat, got[p].kind \in Kinds,
         StoreFailure(p, now)
  PROVE  WindowHasReason'
<1>1. /\ entry'.err = got[p].kind /\ entry'.errAt = now
      /\ entry'.neg = IF got[p].kind = "broken" THEN now + NegativeTTL ELSE 0
  BY DEF StoreFailure, Audited, TypeOK, EntryType
<1>2. QED BY <1>1 DEF WindowHasReason, Kinds

LEMMA StepWindowHasReason == IInv /\ [Next]_vars => WindowHasReason'
<1> SUFFICES ASSUME IInv, [Next]_vars PROVE WindowHasReason' OBVIOUS
<1>a. TypeOK /\ InHand /\ WindowHasReason BY DEF IInv
<1>b. /\ \A c \in Collectors : c \in Procs
      /\ \A w \in Workers : w \in Procs
  BY DEF Procs
<1>1. CASE UNCHANGED store
  BY <1>a, <1>1 DEF store, WindowHasReason
<1>2. ASSUME NEW c \in Collectors, ScanSkipped(c) PROVE WindowHasReason'
  BY <1>a, <1>2 DEF ScanSkipped, TypeOK, EntryType, WindowHasReason
<1>3. ASSUME NEW c \in Collectors, MergeSuccess(c) PROVE WindowHasReason'
  BY <1>3, ReasonOfSuccess DEF MergeSuccess
<1>4. ASSUME NEW c \in Collectors, MergeFailure(c) PROVE WindowHasReason'
  BY <1>a, <1>b, <1>4, Numbers, ReasonOfFailure DEF MergeFailure, Failed
<1>5. ASSUME NEW w \in Workers, WorkerStores(w) PROVE WindowHasReason'
  <2>1. CASE got[w].kind = "ok"
    BY <1>5, <2>1, ReasonOfSuccess DEF WorkerStores
  <2>2. CASE got[w].kind # "ok"
    <3>1. got[w] \in Answers BY <1>a, <1>b, <1>5 DEF WorkerStores, Goto, InHand
    <3>2. got[w].kind \in Kinds BY <1>5, <2>2, <3>1, AnswerTypes DEF WorkerStores, Kinds
    <3>3. QED BY <1>a, <1>b, <1>5, <2>2, <3>2, Numbers, ReasonOfFailure DEF WorkerStores
  <2>3. QED BY <2>1, <2>2
<1>6. QED
  BY <1>1, <1>2, <1>3, <1>4, <1>5
  DEF Next, CollectorStep, WorkerStep, Begin, ScanServes, ScanMisses, TakeLock, MissLock,
      RecheckServes, RecheckMisses, Answer, MergeBusy, ServeInProgress, Return, WorkerBegin,
      WorkerRefrains, WorkerAsks, WorkerLeaves, Crash, Tick, vars, store

(* What is called fresh is recent.                                         *)

LEMMA FreshKept ==
  ASSUME FreshIsRecent,
         \A c \in Collectors : served'[c].as = "fresh" =>
           served'[c] = served[c] /\ start'[c] = start[c]
  PROVE  FreshIsRecent'
BY DEF FreshIsRecent

LEMMA FinishFresh ==
  ASSUME TypeOK, FreshIsRecent, NEW c \in Collectors, NEW from, NEW r, Finish(c, from, r),
         r.as = "fresh" => start[c] - r.asked <= TTL + WorkerTimeout
  PROVE  FreshIsRecent'
BY DEF TypeOK, Finish, FreshIsRecent

\* A measurement within the TTL, whichever way it got its stamp.
LEMMA EntryFresh ==
  ASSUME NEW e, e.at \in Nat, e.asked \in Nat, e.at - e.asked <= WorkerTimeout, NEW now \in Nat,
         Age(e, now) <= TTL, NEW by
  PROVE  now - FromEntry(e, "fresh", by, "none").asked <= TTL + WorkerTimeout
BY ConstantTypes DEF Age, FromEntry

LEMMA NotFresh ==
  ASSUME NEW e, NEW now, NEW by, NEW err
  PROVE  /\ Fallback(e, now, by, err).as # "fresh"
         /\ Failure(by, err).as # "fresh"
BY DEF Fallback, Failure, FromEntry, NoResult

LEMMA StepFreshIsRecent == IInv /\ [Next]_vars => FreshIsRecent'
<1> SUFFICES ASSUME IInv, [Next]_vars PROVE FreshIsRecent' OBVIOUS
<1>a. TypeOK /\ InHand /\ Moments /\ FreshIsRecent BY DEF IInv
<1>b. /\ \A c \in Collectors : c \in Procs /\ start[c] \in Nat /\ asked[c] \in Nat
                               /\ seen[c].at \in Nat /\ seen[c].asked \in Nat
                               /\ seen[c].at - seen[c].asked <= WorkerTimeout
      /\ entry.at \in Nat /\ entry.asked \in Nat /\ entry.at - entry.asked <= WorkerTimeout
  BY <1>a, Numbers DEF Procs, TypeOK, EntryType, Moments
<1> USE <1>a, <1>b
<1>1. ASSUME NEW c \in Collectors, Begin(c) PROVE FreshIsRecent'
  <2>1. served'[c].as # "fresh" BY <1>1 DEF Begin, Goto, InHand, NoResult
  <2>2. QED BY <1>1, <2>1, FreshKept DEF Begin, TypeOK
<1>2. ASSUME NEW c \in Collectors, ScanSkipped(c) PROVE FreshIsRecent'
  BY <1>2, NotFresh, FinishFresh DEF ScanSkipped
<1>3. ASSUME NEW c \in Collectors, ScanServes(c) PROVE FreshIsRecent'
  <2>1. CASE FreshFor(c, seen[c])
    <3>1. start[c] - FromEntry(seen[c], "fresh", "cache", "none").asked <= TTL + WorkerTimeout
      BY <2>1, EntryFresh DEF FreshFor
    <3>2. QED BY <1>3, <2>1, <3>1, FinishFresh DEF ScanServes
  <2>2. CASE ~FreshFor(c, seen[c])
    BY <1>3, <2>2, NotFresh, FinishFresh DEF ScanServes
  <2>3. QED BY <2>1, <2>2
<1>4. ASSUME NEW c \in Collectors, RecheckServes(c) PROVE FreshIsRecent'
  <2>1. CASE FreshFor(c, entry)
    <3>1. start[c] - FromEntry(entry, "fresh", "cache", "none").asked <= TTL + WorkerTimeout
      BY <2>1, EntryFresh DEF FreshFor
    <3>2. QED BY <1>4, <3>1, NotFresh, FinishFresh DEF RecheckServes
  <2>2. CASE ~FreshFor(c, entry)
    BY <1>4, <2>2, NotFresh, FinishFresh DEF RecheckServes
  <2>3. QED BY <2>1, <2>2
<1>5. ASSUME NEW c \in Collectors, MergeSuccess(c) PROVE FreshIsRecent'
  <2>1. start[c] <= asked[c] BY <1>5 DEF MergeSuccess, Finish, Goto, Moments
  <2>2. start[c] - asked[c] <= TTL + WorkerTimeout BY <2>1, ConstantTypes
  <2>3. QED BY <1>5, <2>2, FinishFresh DEF MergeSuccess
<1>6. ASSUME NEW c \in Collectors, MergeFailure(c) PROVE FreshIsRecent'
  BY <1>6, NotFresh, FinishFresh DEF MergeFailure
<1>7. ASSUME NEW c \in Collectors, ServeInProgress(c) PROVE FreshIsRecent'
  <2>1. ASSUME InProgress(entry, start[c]).as = "fresh"
        PROVE  start[c] - InProgress(entry, start[c]).asked <= TTL + WorkerTimeout
    <3>1. /\ Age(entry, start[c]) <= TTL
          /\ InProgress(entry, start[c]) = FromEntry(entry, "fresh", "progress", "none")
      BY <2>1, NotFresh DEF InProgress, FromEntry
    <3>2. QED BY <3>1, EntryFresh
  <2>2. QED BY <1>7, <2>1, FinishFresh DEF ServeInProgress
<1>8. ASSUME NEW p \in Procs, Forget(p) PROVE FreshIsRecent'
  <2>1. \A c \in Collectors : \/ served'[c] = NoResult
                              \/ served'[c] = served[c] /\ start'[c] = start[c]
    BY <1>8 DEF Forget, TypeOK, Procs
  <2>2. QED BY <2>1, FreshKept DEF NoResult
<1>9. CASE UNCHANGED <<served, start>>
  BY <1>9, FreshKept
<1>10. ASSUME NEW w \in Workers, WorkerBegin(w) PROVE FreshIsRecent'
  BY <1>10, FreshKept, ConstantTypes DEF WorkerBegin, TypeOK, Procs
<1>11. QED
  BY <1>1, <1>2, <1>3, <1>4, <1>5, <1>6, <1>7, <1>8, <1>9, <1>10
  DEF Next, CollectorStep, WorkerStep, ScanMisses, TakeLock, MissLock, RecheckMisses, Answer,
      MergeBusy, Return, WorkerRefrains, WorkerAsks, WorkerStores, WorkerLeaves, Crash, Tick,
      vars, local, Procs

(* The theorems.                                                           *)

\* Every state satisfies the types and the strengthened invariant.
THEOREM Inductive == Spec => []IInv
<1>1. IInv /\ [Next]_vars => IInv'
  BY StepTypeOK, StepLockHeld, StepInHand, StepMoments, StepFetchJustified,
     StepWindowHasReason, StepFreshIsRecent
  DEF IInv
<1>2. QED BY <1>1, InitIInv, PTL DEF Spec

\* A collector's request is out only if no window and, with the cache on, no
\* fresh snapshot was on disk when it re-read the documents under the collect
\* lock, and only a worker can have changed that since (cache.probed).
THEOREM FetchJustifiedThm == Spec => []FetchJustified
<1>1. IInv => FetchJustified BY DEF IInv
<1>2. QED BY <1>1, Inductive, PTL

\* A stamp or a backoff record is never there without the failure it is served
\* as (_negative_result, _audit_failure, _merge_results).
THEOREM WindowHasReasonThm == Spec => []WindowHasReason
<1>1. IInv => WindowHasReason BY DEF IInv
<1>2. QED BY <1>1, Inductive, PTL

\* What collect returns as fresh was asked for no longer before its start than
\* the TTL and a worker's lifetime together.
THEOREM FreshIsRecentThm == Spec => []FreshIsRecent
<1>1. IInv => FreshIsRecent BY DEF IInv
<1>2. QED BY <1>1, Inductive, PTL

\* fetched_at goes back only when the merging call ignored the cache or was
\* overtaken by a worker, although a collector stamps with its start.
THEOREM StampsForwardThm == Spec => StampsForward
<1> DEFINE A == entry'.at < entry.at =>
                  \E c \in Collectors : /\ pc[c] = "merge" /\ pc'[c] = "done"
                                        /\ (~useCache[c] \/ crossed[c])
<1>1. IInv /\ [Next]_vars => [A]_vars
  <2> SUFFICES ASSUME IInv, Next, entry'.at < entry.at
               PROVE  \E c \in Collectors : /\ pc[c] = "merge" /\ pc'[c] = "done"
                                            /\ (~useCache[c] \/ crossed[c])
    OBVIOUS
  <2>a. /\ TypeOK /\ Moments /\ FetchJustified
        /\ \A c \in Collectors : c \in Procs
        /\ \A w \in Workers : w \in Procs
    BY DEF IInv, Procs
  <2>b. entry.at <= clock BY <2>a DEF Moments
  <2>1. ASSUME UNCHANGED store PROVE FALSE
    BY <2>a, <2>1, Numbers DEF store
  <2>2. ASSUME NEW c \in Collectors, ScanSkipped(c) \/ MergeFailure(c) PROVE FALSE
    <3>1. entry'.at = entry.at
      BY <2>a, <2>2, Numbers, FailureAt DEF ScanSkipped, MergeFailure, TypeOK, EntryType
    <3>2. QED BY <2>a, <3>1, Numbers
  <2>3. ASSUME NEW w \in Workers, WorkerStores(w) PROVE FALSE
    <3>1. entry'.at = clock \/ entry'.at = entry.at
      BY <2>a, <2>3, Numbers, SuccessAt, FailureAt DEF WorkerStores
    <3>2. QED BY <2>a, <2>b, <3>1, Numbers
  <2>4. ASSUME NEW c \in Collectors, MergeSuccess(c), useCache[c], ~crossed[c] PROVE FALSE
    <3>1. pc[c] = "merge" /\ entry'.at = start[c]
      BY <2>a, <2>4, Numbers, SuccessAt DEF MergeSuccess, Finish, Goto
    <3>2. ~FreshFor(c, entry) BY <2>4, <2>a, <3>1 DEF FetchJustified
    <3>3. entry.at = 0 \/ start[c] - entry.at > TTL
      BY <2>4, <2>a, <3>2, Numbers, ConstantTypes DEF FreshFor, Age
    <3>4. QED BY <2>a, <3>1, <3>3, Numbers, ConstantTypes
  <2>5. ASSUME NEW c \in Collectors, MergeSuccess(c), ~useCache[c] \/ crossed[c]
        PROVE  /\ pc[c] = "merge" /\ pc'[c] = "done"
               /\ (~useCache[c] \/ crossed[c])
    BY <2>a, <2>5 DEF MergeSuccess, Finish, Goto, TypeOK
  <2>6. QED
    BY <2>1, <2>2, <2>3, <2>4, <2>5
    DEF Next, CollectorStep, WorkerStep, Begin, ScanServes, ScanMisses, TakeLock, MissLock,
        RecheckServes, RecheckMisses, Answer, MergeBusy, ServeInProgress, Return, WorkerBegin,
        WorkerRefrains, WorkerAsks, WorkerLeaves, Crash, Tick
<1>2. QED BY <1>1, Inductive, PTL DEF Spec, StampsForward
============================================================================
