------------------------- MODULE PriorityMutexProofs -------------------------
(***************************************************************************)
(* Proofs about PriorityMutex for any number of threads, mutexes and       *)
(* priorities, and for clients of every kind.                              *)
(***************************************************************************)
EXTENDS PriorityMutex, FiniteSetTheorems, WellFoundedInduction, TLAPS

(* The client's view of a mutex against its fields: the owner is inside as *)
(* many times as recursiveDepth says, unless it has just been handed the   *)
(* mutex and has not returned from PKlock yet; nobody else is inside.      *)
Depth(m) == IF recursiveDepth[m] > 0 THEN recursiveDepth[m] ELSE 0

HeldAgree ==
    /\ \A m \in Mutex : m \in Recursive <=> recursiveDepth[m] >= 0
    /\ \A t \in Thread, m \in Mutex :
        /\ owner[m] = t /\ inLock[t] = m => recursiveDepth[m] <= 0
        /\ held[t][m] = IF owner[m] = t /\ inLock[t] # m THEN 1 + Depth(m) ELSE 0

IInv == TypeOK /\ OwnerListAgree /\ WaitersAccounted /\ HeldAgree

-----------------------------------------------------------------------------
(* A non empty finite set of numbers has a greatest element: among the     *)
(* sets {x \in S : x > y}, y \in S, one is minimal for strict inclusion.   *)
LEMMA GreatestExists ==
    ASSUME NEW S \in SUBSET Nat, IsFiniteSet(S), S # {}
    PROVE  \E y \in S : \A q \in S : q <= y
<1> DEFINE Above(y) == {x \in S : x > y}
           F == {Above(y) : y \in S}
<1>2. F \subseteq FiniteSubsetsOf(S)
  BY FS_Subset DEF FiniteSubsetsOf
<1>3. PICK A \in F : \A B \in F : ~ (<<B, A>> \in StrictSubsetOrdering(S))
  <2>1. F # {}
    OBVIOUS
  <2>2. IsWellFoundedOn(StrictSubsetOrdering(S), FiniteSubsetsOf(S))
    BY FS_StrictSubsetOrderingWellFounded
  <2> HIDE DEF F
  <2> QED
    BY <1>2, <2>1, <2>2, WFMin
<1>4. PICK y \in S : A = Above(y)
  OBVIOUS
<1>5. \A q \in S : q <= y
  <2> SUFFICES ASSUME NEW q \in S, q > y PROVE FALSE
    OBVIOUS
  <2>0. q \in Nat /\ y \in Nat /\ \A x \in S : x \in Nat
    OBVIOUS
  <2>1. Above(q) \subseteq A /\ q \in A /\ q \notin Above(q)
    <3>1. \A x \in S : x > q => x > y
      BY <2>0
    <3>2. ~ (q > q)
      BY <2>0
    <3> QED
      BY <3>1, <3>2, <1>4, Zenon
  <2>2. <<Above(q), A>> \in StrictSubsetOrdering(S)
    BY <2>1, <1>4 DEF StrictSubsetOrdering
  <2> QED
    BY <2>2, <1>3
<1> QED
  BY <1>5

(* A non empty set of priorities has its Max.                              *)
LEMMA MaxExists ==
    ASSUME NEW S \in SUBSET Priority, S # {}
    PROVE  Max(S) \in S /\ \A q \in S : q <= Max(S)
<1>1. IsFiniteSet(Priority) /\ Priority \subseteq Nat
  BY BoundAssumption, FS_Interval DEF Priority
<1>2. S \in SUBSET Nat /\ IsFiniteSet(S)
  BY <1>1, FS_Subset
<1>3. \E y \in S : \A q \in S : q <= y
  BY <1>2, GreatestExists
<1> QED
  BY <1>3 DEF Max

(* What the inheritance computes is a priority, as in Priority::validate.  *)
LEMMA InheritedType ==
    ASSUME TypeOK, NEW base \in Priority, NEW locks \in SUBSET Mutex
    PROVE  Inherited(base, locks) \in Priority
<1> DEFINE S == {base} \union UNION {FrontPriorities(waiting[m]) : m \in locks}
<1>1. \A m \in locks : FrontPriorities(waiting[m]) \subseteq Priority
  BY DEF TypeOK, FrontPriorities, Fronts
<1>2. S \subseteq Priority
  BY <1>1
<1>3. S # {}
  OBVIOUS
<1> HIDE DEF S
<1>4. Max(S) \in S
  BY <1>2, <1>3, MaxExists
<1> QED
  BY <1>2, <1>4 DEF S, Inherited

(* So is what a thread that is handed a mutex inherits from the others.    *)
LEMMA InheritedNextType ==
    ASSUME TypeOK, NEW p \in Priority, NEW S \in SUBSET Thread
    PROVE  Max({p} \union FrontPriorities(S)) \in Priority
<1> DEFINE Q == {p} \union FrontPriorities(S)
<1>1. Q \subseteq Priority /\ Q # {}
  BY DEF TypeOK, FrontPriorities, Fronts
<1> HIDE DEF Q
<1>2. Max(Q) \in Q
  BY <1>1, MaxExists
<1> QED
  BY <1>1, <1>2 DEF Q

-----------------------------------------------------------------------------
(* Every variable keeps its type in every step.                            *)
LEMMA TypeStep ==
    ASSUME IInv, [Next]_vars
    PROVE  TypeOK'
<1> USE ThreadAssumption, MutexAssumption, BoundAssumption, NestingAssumption
<1> USE DEF IInv
<1>1. ASSUME NEW t \in Thread, NEW m \in Mutex, TakeFree(t, m)
      PROVE  TypeOK'
  BY <1>1 DEF TypeOK, TakeFree, SavePriority
<1>2. ASSUME NEW t \in Thread, NEW m \in Mutex, TakeAgain(t, m)
      PROVE  TypeOK'
  <2>1. recursiveDepth[m] + 1 \in Nat /\ held[t][m] + 1 \in Nat
    <3>1. recursiveDepth[m] \in Nat \union {-1} /\ held[t][m] \in Nat
      BY DEF TypeOK
    <3>2. recursiveDepth[m] >= 0
      BY <1>2 DEF TakeAgain
    <3> QED
      BY <3>1, <3>2
  <2>2. /\ recursiveDepth' \in [Mutex -> Nat \union {-1}]
        /\ held' \in [Thread -> [Mutex -> Nat]]
    <3>1. recursiveDepth \in [Mutex -> Nat \union {-1}] /\ held \in [Thread -> [Mutex -> Nat]]
      BY DEF TypeOK
    <3> QED
      BY <1>2, <2>1, <3>1 DEF TakeAgain
  <2> QED
    BY <1>2, <2>2 DEF TypeOK, TakeAgain, threadVars
<1>3. ASSUME NEW t \in Thread, NEW m \in Mutex, LockOwned(t, m)
      PROVE  TypeOK'
  BY <1>3 DEF TypeOK, LockOwned, threadVars, mutexVars
<1>4. ASSUME NEW t \in Thread, NEW m \in Mutex, LockContended(t, m)
      PROVE  TypeOK'
  <2>1. prio' \in [Thread -> Priority]
    BY <1>4 DEF TypeOK, LockContended
  <2> QED
    BY <1>4, <2>1 DEF TypeOK, LockContended
<1>5. ASSUME NEW t \in Thread, WaitLoop(t)
      PROVE  TypeOK'
  <2>1. inLock[t] \in Mutex
    BY <1>5 DEF TypeOK, WaitLoop
  <2>2. held' \in [Thread -> [Mutex -> Nat]]
    <3>1. held \in [Thread -> [Mutex -> Nat]]
      BY DEF TypeOK
    <3>2. held' = held \/ held' = [held EXCEPT ![t][inLock[t]] = 1]
      BY <1>5 DEF WaitLoop
    <3> QED
      BY <2>1, <3>1, <3>2
  <2>3. inLock' \in [Thread -> Mutex \union {NoMutex}]
    <3>1. inLock \in [Thread -> Mutex \union {NoMutex}]
      BY DEF TypeOK
    <3> QED
      BY <1>5, <3>1 DEF WaitLoop
  <2>4. waitFlag' \in [Thread -> BOOLEAN]
    <3>1. waitFlag \in [Thread -> BOOLEAN]
      BY DEF TypeOK
    <3> QED
      BY <1>5, <3>1 DEF WaitLoop
  <2>5. UNCHANGED <<nesting, status, owner, recursiveDepth, waiting, heapKey, prio,
                    savedPriority, mutexLocked, mutexWaiting, asked>>
    BY <1>5 DEF WaitLoop, mutexVars
  <2> QED
    BY <2>2, <2>3, <2>4, <2>5 DEF TypeOK
<1>6. ASSUME NEW t \in Thread, SpuriousWakeup(t)
      PROVE  TypeOK'
  BY <1>6 DEF TypeOK, SpuriousWakeup, mutexVars
<1>7. ASSUME NEW t \in Thread, NEW m \in Mutex, UnlockNotOwner(t, m)
      PROVE  TypeOK'
  BY <1>7 DEF TypeOK, UnlockNotOwner, threadVars, mutexVars
<1>8. ASSUME NEW t \in Thread, NEW m \in Mutex, Running(t), UnlockAgain(t, m)
      PROVE  TypeOK'
  <2>1. recursiveDepth[m] - 1 \in Nat /\ held[t][m] - 1 \in Nat
    <3>1. recursiveDepth[m] \in Nat \ {0} /\ owner[m] = t /\ inLock[t] # m
      BY <1>8 DEF TypeOK, UnlockAgain, Running
    <3>2. held[t][m] = 1 + recursiveDepth[m]
      BY <3>1 DEF HeldAgree, Depth
    <3> QED
      BY <3>1, <3>2
  <2>2. /\ recursiveDepth' \in [Mutex -> Nat \union {-1}]
        /\ held' \in [Thread -> [Mutex -> Nat]]
    BY <1>8, <2>1 DEF TypeOK, UnlockAgain
  <2> QED
    BY <1>8, <2>2 DEF TypeOK, UnlockAgain, threadVars
<1>9. ASSUME NEW t \in Thread, NEW m \in Mutex, UnlockLast(t, m)
      PROVE  TypeOK'
  <2>1. PriorityAfter(t, m) \in Priority
    BY InheritedType DEF TypeOK, PriorityAfter
  <2>2. CASE ReleaseFree(t, m)
    BY <1>9, <2>1, <2>2 DEF TypeOK, UnlockLast, ReleaseFree
  <2>3. ASSUME NEW next \in Thread, Handoff(t, m, next)
        PROVE  TypeOK'
    <3> DEFINE Lent(p) == Max({p} \union FrontPriorities(waiting[m] \ {next}))
    <3>1. \A p \in Priority : Lent(p) \in Priority
      BY InheritedNextType DEF TypeOK
    <3>2. prio' = [prio EXCEPT ![t] = PriorityAfter(t, m), ![next] = Lent(@)]
      BY <2>3 DEF Handoff
    <3> HIDE DEF Lent
    <3>3. prio' \in [Thread -> Priority]
      BY <2>1, <3>1, <3>2 DEF TypeOK
    <3>4. /\ waiting' \in [Mutex -> SUBSET Thread]
          /\ mutexLocked' \in [Thread -> SUBSET Mutex]
          /\ savedPriority' \in [Thread -> Priority]
      BY <2>3 DEF TypeOK, Handoff
    <3>5. /\ owner' \in [Mutex -> Thread \union {NoThread}]
          /\ mutexWaiting' \in [Thread -> Mutex \union {NoMutex}]
          /\ waitFlag' \in [Thread -> BOOLEAN]
      BY <2>3 DEF TypeOK, Handoff, Woken, Unqueued
    <3>6. held' \in [Thread -> [Mutex -> Nat]]
      BY <1>9 DEF TypeOK, UnlockLast
    <3> QED
      BY <1>9, <3>3, <3>4, <3>5, <3>6 DEF TypeOK, UnlockLast
  <2> QED
    BY <1>9, <2>2, <2>3 DEF UnlockLast
<1>10. ASSUME NEW t \in Thread, NEW pr \in Priority, SetPriority(t, pr)
       PROVE  TypeOK'
  <2>1. Inherited(pr, mutexLocked[t]) \in Priority
    BY InheritedType DEF TypeOK
  <2>2. /\ prio' \in [Thread -> Priority]
        /\ savedPriority' \in [Thread -> Priority]
        /\ asked' \in [Thread -> Priority]
    <3>0. prio \in [Thread -> Priority] /\ savedPriority \in [Thread -> Priority]
      BY DEF TypeOK
    <3>1. asked' \in [Thread -> Priority]
      BY <1>10 DEF TypeOK, SetPriority
    <3>2. CASE mutexLocked[t] = {}
      BY <1>10, <3>1, <3>2, <3>0 DEF SetPriority
    <3>3. CASE mutexLocked[t] # {} /\ savedPriority[t] = pr
      BY <1>10, <3>1, <3>3, <3>0 DEF SetPriority
    <3>4. CASE mutexLocked[t] # {} /\ savedPriority[t] # pr
      BY <1>10, <2>1, <3>1, <3>4, <3>0 DEF SetPriority
    <3> QED
      BY <3>2, <3>3, <3>4
  <2> QED
    BY <1>10, <2>2 DEF TypeOK, SetPriority, mutexVars
<1>11. CASE UNCHANGED vars
  BY <1>11 DEF TypeOK, vars, mutexVars, threadVars
<1> QED
  BY <1>1, <1>2, <1>3, <1>4, <1>5, <1>6, <1>7, <1>8, <1>9, <1>10, <1>11
     DEF Next, Lock, TryLock, Unlock

-----------------------------------------------------------------------------
(* The lists of locked mutexes agree with the owners after every step.     *)
LEMMA OwnerListStep ==
    ASSUME IInv, [Next]_vars
    PROVE  OwnerListAgree'
<1> USE ThreadAssumption, MutexAssumption
<1> USE DEF IInv, TypeOK, OwnerListAgree
<1>1. ASSUME NEW t \in Thread, NEW m \in Mutex, TakeFree(t, m)
      PROVE  OwnerListAgree'
  BY <1>1 DEF TakeFree
<1>2. ASSUME NEW t \in Thread, NEW m \in Mutex, TakeAgain(t, m)
      PROVE  OwnerListAgree'
  BY <1>2 DEF TakeAgain, threadVars
<1>3. ASSUME NEW t \in Thread, NEW m \in Mutex,
             LockOwned(t, m) \/ UnlockNotOwner(t, m)
      PROVE  OwnerListAgree'
  BY <1>3 DEF LockOwned, UnlockNotOwner, threadVars, mutexVars
<1>4. ASSUME NEW t \in Thread, NEW m \in Mutex, LockContended(t, m)
      PROVE  OwnerListAgree'
  BY <1>4 DEF LockContended
<1>5. ASSUME NEW t \in Thread, WaitLoop(t) \/ SpuriousWakeup(t)
      PROVE  OwnerListAgree'
  BY <1>5 DEF WaitLoop, SpuriousWakeup, mutexVars
<1>6. ASSUME NEW t \in Thread, NEW m \in Mutex, UnlockAgain(t, m)
      PROVE  OwnerListAgree'
  BY <1>6 DEF UnlockAgain, threadVars
<1>7. ASSUME NEW t \in Thread, NEW m \in Mutex, UnlockLast(t, m)
      PROVE  OwnerListAgree'
  <2>1. CASE ReleaseFree(t, m)
    BY <1>7, <2>1 DEF UnlockLast, ReleaseFree
  <2>2. ASSUME NEW next \in Thread, Handoff(t, m, next)
        PROVE  OwnerListAgree'
    <3>1. next # t
      BY <1>7, <2>2 DEF UnlockLast, Handoff, Fronts, WaitersAccounted
    <3>2. \A u \in Thread, n \in Mutex : n \in mutexLocked'[u] <=> owner'[n] = u
      BY <1>7, <2>2, <3>1 DEF UnlockLast, Handoff
    <3>3. \A n \in Mutex : owner'[n] = NoThread => owner[n] = NoThread /\ n # m
      BY <2>2 DEF Handoff
    <3>4. \A n \in Mutex :
            /\ recursiveDepth'[n] = recursiveDepth[n]
            /\ n # m => waiting'[n] = waiting[n]
      BY <1>7, <2>2 DEF UnlockLast, Handoff
    <3> QED
      BY <3>2, <3>3, <3>4
  <2> QED
    BY <1>7, <2>1, <2>2 DEF UnlockLast
<1>8. ASSUME NEW t \in Thread, NEW pr \in Priority, SetPriority(t, pr)
      PROVE  OwnerListAgree'
  BY <1>8 DEF SetPriority, mutexVars
<1>9. CASE UNCHANGED vars
  BY <1>9 DEF vars, mutexVars, threadVars
<1> QED
  BY <1>1, <1>2, <1>3, <1>4, <1>5, <1>6, <1>7, <1>8, <1>9
     DEF Next, Lock, TryLock, Unlock

(* The wait queues agree with the threads' fields after every step.        *)
LEMMA WaitersStep ==
    ASSUME IInv, [Next]_vars
    PROVE  WaitersAccounted'
<1> USE ThreadAssumption, MutexAssumption
<1> USE DEF IInv, TypeOK, WaitersAccounted
<1>1. ASSUME NEW t \in Thread, NEW m \in Mutex, Running(t), TakeFree(t, m)
      PROVE  WaitersAccounted'
  BY <1>1 DEF TakeFree, Running, OwnerListAgree
<1>2. ASSUME NEW t \in Thread, NEW m \in Mutex, TakeAgain(t, m)
      PROVE  WaitersAccounted'
  BY <1>2 DEF TakeAgain, threadVars
<1>3. ASSUME NEW t \in Thread, NEW m \in Mutex,
             LockOwned(t, m) \/ UnlockNotOwner(t, m)
      PROVE  WaitersAccounted'
  BY <1>3 DEF LockOwned, UnlockNotOwner, threadVars, mutexVars
<1>4. ASSUME NEW t \in Thread, NEW m \in Mutex, Running(t), LockContended(t, m)
      PROVE  WaitersAccounted'
  BY <1>4 DEF LockContended, Running
<1>5. ASSUME NEW t \in Thread, WaitLoop(t)
      PROVE  WaitersAccounted'
  BY <1>5 DEF WaitLoop, Granted, mutexVars
<1>6. ASSUME NEW t \in Thread, SpuriousWakeup(t)
      PROVE  WaitersAccounted'
  BY <1>6 DEF SpuriousWakeup, mutexVars
<1>7. ASSUME NEW t \in Thread, NEW m \in Mutex, UnlockAgain(t, m)
      PROVE  WaitersAccounted'
  BY <1>7 DEF UnlockAgain, threadVars
<1>8. ASSUME NEW t \in Thread, NEW m \in Mutex, Running(t), UnlockLast(t, m)
      PROVE  WaitersAccounted'
  <2>1. CASE ReleaseFree(t, m)
    BY <1>8, <2>1 DEF UnlockLast, ReleaseFree, Running
  <2>2. ASSUME NEW next \in Thread, Handoff(t, m, next)
        PROVE  WaitersAccounted'
    <3>1. /\ next # t /\ next \in waiting[m]
          /\ mutexWaiting[next] = m /\ inLock[next] = m
      BY <1>8, <2>2 DEF UnlockLast, Handoff, Fronts, Running
    <3>2. \A u \in Thread, n \in Mutex : u \in waiting'[n] <=> mutexWaiting'[u] = n
      BY <2>2, <3>1 DEF Handoff, Unqueued
    <3>3. ASSUME NEW u \in Thread, u # next
          PROVE  /\ inLock'[u] = inLock[u]
                 /\ mutexWaiting'[u] = mutexWaiting[u]
                 /\ waitFlag'[u] = waitFlag[u]
                 /\ \A n \in Mutex : owner'[n] = u <=> owner[n] = u /\ ~ (n = m)
      BY <1>8, <2>2, <3>3 DEF UnlockLast, Handoff, Unqueued, Woken
    <3>4. inLock[t] = NoMutex
      BY <1>8 DEF Running
    <3>5. /\ inLock'[next] = m /\ mutexWaiting'[next] = NoMutex
          /\ owner'[m] = next /\ ~ waitFlag'[next]
      BY <1>8, <2>2, <3>1 DEF UnlockLast, Handoff, Unqueued, Woken
    <3>6. ASSUME NEW u \in Thread, u # next
          PROVE  IF inLock'[u] = NoMutex
                 THEN mutexWaiting'[u] = NoMutex /\ ~waitFlag'[u]
                 ELSE \/ mutexWaiting'[u] = inLock'[u] /\ owner'[inLock'[u]] # u
                      \/ /\ mutexWaiting'[u] = NoMutex
                         /\ owner'[inLock'[u]] = u /\ ~waitFlag'[u]
      <4>1. inLock[u] # NoMutex => inLock[u] \in Mutex
        OBVIOUS
      <4>2. inLock[u] = m => owner[m] # u
        BY <1>8, <3>4 DEF UnlockLast
      <4>6. \A n \in Mutex : owner'[n] = u <=> owner[n] = u /\ ~ (n = m)
        BY <3>3, <3>6
      <4>4. /\ inLock'[u] = inLock[u]
            /\ mutexWaiting'[u] = mutexWaiting[u]
            /\ waitFlag'[u] = waitFlag[u]
        BY <3>3, <3>6
      <4>5. IF inLock[u] = NoMutex
            THEN mutexWaiting[u] = NoMutex /\ ~waitFlag[u]
            ELSE \/ mutexWaiting[u] = inLock[u] /\ owner[inLock[u]] # u
                 \/ /\ mutexWaiting[u] = NoMutex
                    /\ owner[inLock[u]] = u /\ ~waitFlag[u]
        OBVIOUS
      <4> HIDE DEF IInv, TypeOK, WaitersAccounted
      <4>3. inLock[u] # NoMutex => (owner'[inLock[u]] = u <=> owner[inLock[u]] = u)
        BY <4>1, <4>2, <4>6
      <4> QED
        BY <4>3, <4>4, <4>5
    <3>7. ASSUME NEW u \in Thread
          PROVE  IF inLock'[u] = NoMutex
                 THEN mutexWaiting'[u] = NoMutex /\ ~waitFlag'[u]
                 ELSE \/ mutexWaiting'[u] = inLock'[u] /\ owner'[inLock'[u]] # u
                      \/ /\ mutexWaiting'[u] = NoMutex
                         /\ owner'[inLock'[u]] = u /\ ~waitFlag'[u]
      <4> HIDE DEF IInv, TypeOK, WaitersAccounted
      <4>1. m # NoMutex
        OBVIOUS
      <4>2. CASE u = next
        BY <3>5, <4>1, <4>2
      <4>3. CASE u # next
        BY <3>6, <4>3
      <4> QED
        BY <4>2, <4>3
    <3> HIDE DEF IInv, TypeOK
    <3> QED
      BY <3>2, <3>7
  <2> QED
    BY <1>8, <2>1, <2>2 DEF UnlockLast
<1>9. ASSUME NEW t \in Thread, NEW pr \in Priority, SetPriority(t, pr)
      PROVE  WaitersAccounted'
  BY <1>9 DEF SetPriority, mutexVars
<1>10. CASE UNCHANGED vars
  BY <1>10 DEF vars, mutexVars, threadVars
<1> QED
  BY <1>1, <1>2, <1>3, <1>4, <1>5, <1>6, <1>7, <1>8, <1>9, <1>10
     DEF Next, Lock, TryLock, Unlock

(* What the clients hold agrees with the mutexes after every step.         *)
LEMMA HeldStep ==
    ASSUME IInv, [Next]_vars
    PROVE  HeldAgree'
<1> USE ThreadAssumption, MutexAssumption
<1> USE DEF IInv, TypeOK, HeldAgree, Depth
<1>1. ASSUME NEW t \in Thread, NEW m \in Mutex, Running(t), TakeFree(t, m)
      PROVE  HeldAgree'
  <2>1. inLock[t] # m /\ recursiveDepth[m] <= 0
    BY <1>1 DEF Running, TakeFree, OwnerListAgree
  <2>2. \A u \in Thread : inLock[u] = m => owner[m] # u
    BY <1>1 DEF TakeFree
  <2> QED
    BY <1>1, <2>1, <2>2 DEF TakeFree
<1>2. ASSUME NEW t \in Thread, NEW m \in Mutex, Running(t), TakeAgain(t, m)
      PROVE  HeldAgree'
  <2>1. inLock[t] # m /\ recursiveDepth[m] \in Nat
    BY <1>2 DEF Running, TakeAgain
  <2>2. held[t][m] = 1 + recursiveDepth[m]
    BY <1>2, <2>1 DEF TakeAgain
  <2>3. held'[t][m] = 1 + (recursiveDepth[m] + 1) /\ recursiveDepth[m] + 1 > 0
    BY <1>2, <2>1, <2>2 DEF TakeAgain
  <2> QED
    BY <1>2, <2>1, <2>3 DEF TakeAgain, threadVars
<1>3. ASSUME NEW t \in Thread, NEW m \in Mutex,
             LockOwned(t, m) \/ UnlockNotOwner(t, m)
      PROVE  HeldAgree'
  BY <1>3 DEF LockOwned, UnlockNotOwner, threadVars, mutexVars
<1>4. ASSUME NEW t \in Thread, NEW m \in Mutex, Running(t), LockContended(t, m)
      PROVE  HeldAgree'
  BY <1>4 DEF LockContended, Running
<1>5. ASSUME NEW t \in Thread, WaitLoop(t)
      PROVE  HeldAgree'
  <2>1. CASE Granted(t)
    <3> DEFINE m == inLock[t]
    <3>1. m \in Mutex /\ owner[m] = t
      BY <1>5, <2>1 DEF WaitLoop, Granted
    <3>2. /\ inLock' = [inLock EXCEPT ![t] = NoMutex]
          /\ held' = [held EXCEPT ![t][m] = 1]
          /\ owner' = owner /\ recursiveDepth' = recursiveDepth
      BY <1>5, <2>1 DEF WaitLoop, mutexVars
    <3> HIDE DEF m
    <3>3. recursiveDepth[m] <= 0 /\ \A n \in Mutex : n # m => inLock[t] # n
      BY <3>1 DEF m
    <3> QED
      BY <3>1, <3>2, <3>3
  <2>2. CASE ~ Granted(t)
    BY <1>5, <2>2 DEF WaitLoop, mutexVars
  <2> QED
    BY <2>1, <2>2
<1>6. ASSUME NEW t \in Thread, SpuriousWakeup(t)
      PROVE  HeldAgree'
  BY <1>6 DEF SpuriousWakeup, mutexVars
<1>7. ASSUME NEW t \in Thread, NEW m \in Mutex, Running(t), UnlockAgain(t, m)
      PROVE  HeldAgree'
  <2>1. inLock[t] # m /\ recursiveDepth[m] \in Nat \ {0}
    BY <1>7 DEF Running, UnlockAgain
  <2>2. held[t][m] = 1 + recursiveDepth[m]
    BY <1>7, <2>1 DEF UnlockAgain
  <2>3. recursiveDepth'[m] = recursiveDepth[m] - 1 /\ held'[t][m] = held[t][m] - 1
    BY <1>7 DEF UnlockAgain
  <2>4. held'[t][m] = 1 + recursiveDepth'[m] /\ recursiveDepth'[m] \in Nat
    BY <2>1, <2>2, <2>3
  <2> QED
    BY <1>7, <2>1, <2>4 DEF UnlockAgain, threadVars
<1>8. ASSUME NEW t \in Thread, NEW m \in Mutex, Running(t), UnlockLast(t, m)
      PROVE  HeldAgree'
  <2>1. inLock[t] # m /\ inLock' = inLock /\ recursiveDepth' = recursiveDepth
    BY <1>8 DEF Running, UnlockLast
  <2>2. /\ \A n \in Mutex : n # m => owner'[n] = owner[n]
        /\ owner'[m] # NoThread => owner'[m] # t /\ inLock[owner'[m]] = m
    <3>1. CASE ReleaseFree(t, m)
      BY <3>1 DEF ReleaseFree
    <3>2. ASSUME NEW next \in Thread, Handoff(t, m, next)
          PROVE  <2>2!1 /\ <2>2!2
      <4>1. next # t /\ inLock[next] = m
        BY <1>8, <3>2 DEF UnlockLast, Handoff, Fronts, Running, WaitersAccounted
      <4> QED
        BY <3>2, <4>1 DEF Handoff
    <3> QED
      BY <1>8, <3>1, <3>2 DEF UnlockLast
  <2>3. \A u \in Thread : u # t => held[u][m] = 0
    BY <1>8 DEF UnlockLast
  <2> QED
    BY <1>8, <2>1, <2>2, <2>3 DEF UnlockLast
<1>9. ASSUME NEW t \in Thread, NEW pr \in Priority, SetPriority(t, pr)
      PROVE  HeldAgree'
  BY <1>9 DEF SetPriority, mutexVars
<1>10. CASE UNCHANGED vars
  BY <1>10 DEF vars, mutexVars, threadVars
<1> QED
  BY <1>1, <1>2, <1>3, <1>4, <1>5, <1>6, <1>7, <1>8, <1>9, <1>10
     DEF Next, Lock, TryLock, Unlock

-----------------------------------------------------------------------------
(* The inductive invariant: in every reachable state, whatever the clients *)
(* do, ownership lists, wait queues, and what clients hold are consistent. *)
THEOREM Consistent == Spec => []IInv
<1>1. Init => IInv
  <2> SUFFICES ASSUME Init PROVE IInv
    OBVIOUS
  <2> USE ThreadAssumption, MutexAssumption, BoundAssumption
  <2>1. 0 \in Priority
    BY DEF Priority
  <2>2. TypeOK
    BY <2>1, NestingAssumption DEF Init, TypeOK
  <2>3. OwnerListAgree /\ WaitersAccounted
    BY DEF Init, OwnerListAgree, WaitersAccounted
  <2>4. HeldAgree
    BY DEF Init, HeldAgree, Depth
  <2> QED
    BY <2>2, <2>3, <2>4 DEF IInv
<1>2. IInv /\ [Next]_vars => IInv'
  BY TypeStep, OwnerListStep, WaitersStep, HeldStep DEF IInv
<1> QED
  BY <1>1, <1>2, PTL DEF Spec

(* Every variable keeps its type.                                          *)
THEOREM TypeCorrect == Spec => []TypeOK
<1>1. IInv => TypeOK
  BY DEF IInv
<1> QED
  BY <1>1, Consistent, PTL

(* A thread's mutexLocked list holds exactly the mutexes it owns.          *)
THEOREM OwnerListsCorrect == Spec => []OwnerListAgree
<1>1. IInv => OwnerListAgree
  BY DEF IInv
<1> QED
  BY <1>1, Consistent, PTL

(* No handoff is lost: a thread in PKlock is queued, or owns the mutex and *)
(* is awake.                                                               *)
THEOREM NoLostHandoff == Spec => []WaitersAccounted
<1>1. IInv => WaitersAccounted
  BY DEF IInv
<1> QED
  BY <1>1, Consistent, PTL

-----------------------------------------------------------------------------
(* Every step changes what clients hold as an abstract mutex would.        *)
LEMMA AbstractStep ==
    ASSUME IInv, [Next]_vars
    PROVE  [Abstract!AbstractNext]_held
<1> USE ThreadAssumption, MutexAssumption
<1> USE DEF IInv, TypeOK, HeldAgree, Depth
<1> DEFINE Moved(t, m) ==
        Abstract!Enter(t, m) \/ Abstract!Reenter(t, m) \/ Abstract!Leave(t, m)
<1>1. ASSUME NEW t \in Thread, NEW m \in Mutex, TakeFree(t, m)
      PROVE  Moved(t, m)
  BY <1>1 DEF TakeFree, Abstract!Enter
<1>2. ASSUME NEW t \in Thread, NEW m \in Mutex, Running(t), TakeAgain(t, m)
      PROVE  Moved(t, m)
  <2>1. /\ owner[m] = t /\ recursiveDepth[m] >= 0 /\ inLock[t] = NoMutex
        /\ held' = [held EXCEPT ![t][m] = @ + 1]
    BY <1>2 DEF TakeAgain, Running
  <2>2. m \in Recursive /\ inLock[t] # m
    BY <2>1
  <2>3. recursiveDepth[m] \in Nat \union {-1}
    BY DEF TypeOK
  <2>4. held[t][m] = 1 + Depth(m)
    BY <2>1, <2>2 DEF HeldAgree
  <2>5. held[t][m] > 0
    <3> HIDE DEF IInv, TypeOK, HeldAgree
    <3> QED
      BY <2>1, <2>3, <2>4 DEF Depth
  <2> QED
    BY <2>1, <2>2, <2>5 DEF Abstract!Reenter
<1>3. ASSUME NEW t \in Thread, WaitLoop(t)
      PROVE  held' = held \/ Moved(t, inLock[t])
  <2>1. inLock[t] \in Mutex
    BY <1>3 DEF WaitLoop
  <2>2. ASSUME Granted(t), NEW u \in Thread
        PROVE  held[u][inLock[t]] = 0
    <3>1. owner[inLock[t]] = t
      BY <2>2 DEF Granted
    <3>2. ~ (owner[inLock[t]] = u /\ inLock[u] # inLock[t])
      BY <3>1
    <3> QED
      BY <2>1, <3>2
  <2> QED
    BY <1>3, <2>1, <2>2 DEF WaitLoop, Abstract!Enter
<1>4. ASSUME NEW t \in Thread, NEW m \in Mutex, Running(t), UnlockAgain(t, m)
      PROVE  Moved(t, m)
  <2>1. recursiveDepth[m] \in Nat \ {0} /\ owner[m] = t /\ inLock[t] # m
    BY <1>4 DEF UnlockAgain, Running
  <2>2. held[t][m] = 1 + recursiveDepth[m]
    BY <2>1
  <2>3. held[t][m] > 0
    BY <2>1, <2>2
  <2> QED
    BY <1>4, <2>3 DEF UnlockAgain, Abstract!Leave
<1>5. ASSUME NEW t \in Thread, NEW m \in Mutex, Running(t), UnlockLast(t, m)
      PROVE  Moved(t, m)
  <2>1. /\ owner[m] = t /\ recursiveDepth[m] <= 0 /\ inLock[t] # m
        /\ held' = [held EXCEPT ![t][m] = 0]
    BY <1>5 DEF UnlockLast, Running
  <2>2. held[t][m] = 1 + Depth(m)
    BY <2>1 DEF HeldAgree
  <2>3. Depth(m) = 0
    <3>1. recursiveDepth[m] \in Nat \union {-1}
      BY DEF TypeOK
    <3> HIDE DEF IInv, TypeOK, HeldAgree
    <3> QED
      BY <2>1, <3>1 DEF Depth
  <2>4. held[t][m] = 1
    <3> HIDE DEF IInv, TypeOK, HeldAgree, Depth
    <3> QED
      BY <2>2, <2>3
  <2> QED
    <3> HIDE DEF IInv, TypeOK, HeldAgree, Depth
    <3> QED
      BY <2>1, <2>4 DEF Abstract!Leave
<1>6. ASSUME NEW t \in Thread, NEW m \in Mutex,
             \/ LockOwned(t, m) \/ LockContended(t, m) \/ UnlockNotOwner(t, m)
             \/ SpuriousWakeup(t) \/ \E pr \in Priority : SetPriority(t, pr)
      PROVE  held' = held
  BY <1>6 DEF LockOwned, LockContended, UnlockNotOwner, SpuriousWakeup, SetPriority
<1>7. \A t \in Thread : WaitLoop(t) => inLock[t] \in Mutex
  BY DEF WaitLoop
<1>8. CASE UNCHANGED vars
  BY <1>8 DEF vars
<1>9. CASE \E t \in Thread, m \in Mutex : Moved(t, m)
  BY <1>9 DEF Abstract!AbstractNext
<1>10. ASSUME NEW t \in Thread, NEW m \in Mutex,
              Lock(t, m) \/ TryLock(t, m) \/ Unlock(t, m)
       PROVE  held' = held \/ Moved(t, m)
  <2> HIDE DEF Moved, IInv
  <2> QED
    BY <1>1, <1>2, <1>4, <1>5, <1>6, <1>10 DEF Lock, TryLock, Unlock
<1>11. ASSUME NEW t \in Thread,
              WaitLoop(t) \/ SpuriousWakeup(t) \/ \E pr \in Priority : SetPriority(t, pr)
       PROVE  held' = held \/ \E m \in Mutex : Moved(t, m)
  <2> HIDE DEF Moved, IInv
  <2>1. CASE WaitLoop(t)
    BY <1>3, <1>7, <2>1
  <2> QED
    BY <1>11, <2>1 DEF SpuriousWakeup, SetPriority
<1> QED
  <2> HIDE DEF Moved, IInv
  <2> QED
    BY <1>8, <1>9, <1>10, <1>11 DEF Next

(* Mutex implements the abstract mutex: at most one thread is inside, and  *)
(* it is left as many times as it was entered, whatever the clients do and *)
(* whoever wakes the waiting threads.                                      *)
THEOREM MutexImplementsAbstract == Spec => MutualExclusion
<1>1. Init => Abstract!AbstractInit
  BY DEF Init, Abstract!AbstractInit
<1>2. IInv /\ [Next]_vars => [Abstract!AbstractNext]_held
  BY AbstractStep
<1> QED
  BY <1>1, <1>2, Consistent, PTL DEF Spec, MutualExclusion, Abstract!AbstractSpec

-----------------------------------------------------------------------------
(* A step that changes the priority of a queued thread rebuilds its heap.  *)
LEMMA HeapStep ==
    ASSUME IInv, HeapFresh, [Next]_vars
    PROVE  HeapFresh'
<1> USE ThreadAssumption, MutexAssumption
<1> USE DEF IInv, TypeOK, HeapFresh
<1>1. ASSUME NEW t \in Thread, NEW m \in Mutex, Running(t), LockContended(t, m)
      PROVE  HeapFresh'
  <2> SUFFICES ASSUME NEW n \in Mutex, NEW u \in waiting'[n]
               PROVE  heapKey'[u] = prio'[u]
    OBVIOUS
  <2>1. u \in Thread /\ (u # t => u \in waiting[n] /\ mutexWaiting[u] = n)
    BY <1>1 DEF LockContended, WaitersAccounted
  <2>2. CASE u = t
    BY <1>1, <2>2 DEF LockContended
  <2>3. CASE u # t /\ prio[t] > prio[owner[m]] /\ u \in Walk(m)
    <3>1. mutexWaiting[u] \in Rebuilt(m) /\ Walk(m) # {}
      BY <2>1, <2>3 DEF Rebuilt
    <3> QED
      BY <1>1, <2>1, <2>3, <3>1 DEF LockContended
  <2>4. CASE u # t /\ ~ (prio[t] > prio[owner[m]] /\ u \in Walk(m))
    <3>1. prio'[u] = prio[u] /\ heapKey[u] = prio[u]
      BY <1>1, <2>1, <2>4 DEF LockContended
    <3> QED
      BY <1>1, <2>1, <2>4, <3>1 DEF LockContended
  <2> QED
    BY <2>2, <2>3, <2>4
<1>2. ASSUME NEW t \in Thread, NEW m \in Mutex, Running(t), UnlockLast(t, m)
      PROVE  HeapFresh'
  <2>1. \A n \in Mutex : t \notin waiting[n]
    BY <1>2 DEF Running, WaitersAccounted
  <2>2. CASE ReleaseFree(t, m)
    BY <1>2, <2>1, <2>2 DEF UnlockLast, ReleaseFree
  <2>3. ASSUME NEW next \in Thread, Handoff(t, m, next)
        PROVE  HeapFresh'
    <3>1. \A n \in Mutex : next \notin waiting'[n] /\ waiting'[n] \subseteq waiting[n]
      BY <2>3 DEF Handoff, Fronts, WaitersAccounted
    <3>2. \A u \in Thread : u # t /\ u # next => prio'[u] = prio[u]
      BY <2>3 DEF Handoff
    <3> QED
      BY <1>2, <2>1, <3>1, <3>2 DEF UnlockLast
  <2> QED
    BY <1>2, <2>2, <2>3 DEF UnlockLast
<1>3. ASSUME NEW t \in Thread, NEW pr \in Priority, SetPriority(t, pr)
      PROVE  HeapFresh'
  <2>1. \A n \in Mutex : t \notin waiting[n]
    BY <1>3 DEF SetPriority, Running, WaitersAccounted
  <2>2. \A u \in Thread : u # t => prio'[u] = prio[u]
    BY <1>3 DEF SetPriority
  <2> QED
    BY <1>3, <2>1, <2>2 DEF SetPriority, mutexVars
<1>4. ASSUME NEW t \in Thread, NEW m \in Mutex,
             \/ TakeFree(t, m) \/ TakeAgain(t, m) \/ LockOwned(t, m)
             \/ UnlockNotOwner(t, m) \/ UnlockAgain(t, m)
      PROVE  HeapFresh'
  BY <1>4 DEF TakeFree, TakeAgain, LockOwned, UnlockNotOwner, UnlockAgain,
              mutexVars, threadVars
<1>5. ASSUME NEW t \in Thread, WaitLoop(t) \/ SpuriousWakeup(t)
      PROVE  HeapFresh'
  BY <1>5 DEF WaitLoop, SpuriousWakeup, mutexVars
<1>6. CASE UNCHANGED vars
  BY <1>6 DEF vars, mutexVars, threadVars
<1> QED
  BY <1>1, <1>2, <1>3, <1>4, <1>5, <1>6 DEF Next, Lock, TryLock, Unlock

(* The heaps stay ordered although the priorities of queued threads change.*)
THEOREM HeapsStayOrdered == Spec => []HeapFresh
<1>1. Init => HeapFresh
  BY DEF Init, HeapFresh
<1>2. IInv /\ HeapFresh /\ [Next]_vars => HeapFresh'
  BY HeapStep
<1> QED
  BY <1>1, <1>2, Consistent, PTL DEF Spec

(* A contended mutex goes to a waiter of highest priority.                 *)
THEOREM HandoffCorrect == Spec => HandoffToHighest
<1> DEFINE Best ==
        \A m \in Mutex :
            owner[m] # NoThread /\ owner'[m] # owner[m] /\ waiting[m] # {}
            => \A u \in waiting[m] :
                owner'[m] \in waiting[m] /\ prio[u] <= prio[owner'[m]]
<1>1. ASSUME IInv, HeapFresh, [Next]_vars
      PROVE  [Best]_vars
  <2> SUFFICES ASSUME NEW m \in Mutex, owner[m] # NoThread, owner'[m] # owner[m],
                      NEW u \in waiting[m]
               PROVE  owner'[m] \in waiting[m] /\ prio[u] <= prio[owner'[m]]
    OBVIOUS
  <2>1. PICK t \in Thread, next \in Thread : Handoff(t, m, next)
    <3>1. ~ UNCHANGED vars
      BY DEF vars, mutexVars
    <3>2. ASSUME NEW t \in Thread, WaitLoop(t) \/ SpuriousWakeup(t)
          PROVE  FALSE
      BY <3>2 DEF WaitLoop, SpuriousWakeup, mutexVars
    <3>3. ASSUME NEW t \in Thread, NEW pr \in Priority, SetPriority(t, pr)
          PROVE  FALSE
      BY <3>3 DEF SetPriority, mutexVars
    <3>4. ASSUME NEW t \in Thread, NEW n \in Mutex, Lock(t, n) \/ TryLock(t, n)
          PROVE  FALSE
      BY <1>1, <3>4 DEF Lock, TryLock, TakeFree, TakeAgain, LockOwned, LockContended,
                  mutexVars, IInv, TypeOK
    <3>5. PICK t \in Thread, n \in Mutex : Unlock(t, n)
      BY <1>1, <3>1, <3>2, <3>3, <3>4 DEF Next
    <3>6. UnlockLast(t, n) /\ n = m
      BY <1>1, <3>5 DEF Unlock, UnlockNotOwner, UnlockAgain, UnlockLast, ReleaseFree,
                  Handoff, mutexVars, IInv, TypeOK
    <3>7. ~ ReleaseFree(t, m)
      BY DEF ReleaseFree
    <3> QED
      BY <3>6, <3>7 DEF UnlockLast
  <2>2. owner'[m] = next
    BY <2>1 DEF Handoff, IInv, TypeOK
  <2> QED
    BY <1>1, <2>1, <2>2 DEF Handoff, Fronts, HeapFresh
<1> QED
  BY <1>1, Consistent, HeapsStayOrdered, PTL DEF Spec, HandoffToHighest

-----------------------------------------------------------------------------
(* The inheritance walk only reaches threads that own a mutex.             *)
LEMMA WalkOwns ==
    ASSUME IInv, NEW m \in Mutex, owner[m] # NoThread, NEW u \in Walk(m)
    PROVE  u \in Thread /\ mutexLocked[u] # {}
<1> USE ThreadAssumption, MutexAssumption
<1> USE DEF IInv, TypeOK, OwnerListAgree, WaitersAccounted
<1> DEFINE S == {t \in Thread : mutexLocked[t] # {}}
<1>1. S \in SUBSET Thread /\ owner[m] \in S
  OBVIOUS
<1>2. \A t \in S : mutexWaiting[t] # NoMutex => owner[mutexWaiting[t]] \in S
  <2> SUFFICES ASSUME NEW t \in S, mutexWaiting[t] # NoMutex
               PROVE  owner[mutexWaiting[t]] \in S
    OBVIOUS
  <2>1. t \in Thread
    OBVIOUS
  <2> HIDE DEF S
  <2>2. mutexWaiting[t] \in Mutex
    BY <2>1
  <2> DEFINE n == mutexWaiting[t]
  <2>3. n \in Mutex /\ n = mutexWaiting[t]
    BY <2>2
  <2> HIDE DEF n
  <2>6. t \in waiting[n]
    BY <2>1, <2>3
  <2>4. owner[n] # NoThread
    BY <2>3, <2>6
  <2>5. owner[n] \in Thread /\ n \in mutexLocked[owner[n]]
    BY <2>3, <2>4
  <2> QED
    BY <2>3, <2>5 DEF S, n
<1> HIDE DEF S
<1>3. u \in S
  BY <1>1, <1>2 DEF Walk
<1> QED
  BY <1>3 DEF S

(* Where the owner does not itself wait, the walk stops at the owner.      *)
LEMMA WalkStops ==
    ASSUME IInv, NEW m \in Mutex, owner[m] # NoThread,
           mutexWaiting[owner[m]] = NoMutex
    PROVE  Walk(m) = {owner[m]}
<1>1. {owner[m]} \in SUBSET Thread
  BY DEF IInv, TypeOK
<1>2. \A u \in {owner[m]} : mutexWaiting[u] = NoMutex
  OBVIOUS
<1>3. Walk(m) \subseteq {owner[m]}
  BY <1>1, <1>2 DEF Walk
<1>4. owner[m] \in Walk(m)
  BY <1>1 DEF Walk
<1> QED
  BY <1>3, <1>4

(* A step either keeps savedPriority and priority in line with what the    *)
(* thread asked for, or gives it back the priority that was saved.         *)
LEMMA RestoreStep ==
    ASSUME IInv, PriorityRestored, [Next]_vars
    PROVE  PriorityRestored'
<1> USE ThreadAssumption, MutexAssumption
<1> USE DEF IInv, TypeOK, PriorityRestored
<1>1. ASSUME NEW t \in Thread, NEW m \in Mutex, TakeFree(t, m)
      PROVE  PriorityRestored'
  BY <1>1 DEF TakeFree, SavePriority
<1>2. ASSUME NEW t \in Thread, NEW m \in Mutex, LockContended(t, m)
      PROVE  PriorityRestored'
  <2>1. \A u \in Thread : mutexLocked[u] = {} => prio'[u] = prio[u]
    <3>1. owner[m] # NoThread
      BY <1>2 DEF LockContended
    <3>2. \A u \in Walk(m) : mutexLocked[u] # {}
      BY <3>1, WalkOwns
    <3> QED
      BY <1>2, <3>2 DEF LockContended
  <2> QED
    BY <1>2, <2>1 DEF LockContended
<1>3. ASSUME NEW t \in Thread, NEW m \in Mutex, UnlockLast(t, m)
      PROVE  PriorityRestored'
  <2>1. mutexLocked[t] # {} /\ (mutexLocked[t] \ {m} = {} <=> mutexLocked[t] = {m})
    BY <1>3 DEF UnlockLast, OwnerListAgree
  <2>2. CASE ReleaseFree(t, m)
    BY <1>3, <2>1, <2>2 DEF UnlockLast, ReleaseFree, PriorityAfter
  <2>3. ASSUME NEW next \in Thread, Handoff(t, m, next)
        PROVE  PriorityRestored'
    <3>1. next # t
      BY <1>3, <2>3 DEF UnlockLast, Handoff, Fronts, WaitersAccounted
    <3>2. \A u \in Thread : u # t /\ u # next =>
            /\ prio'[u] = prio[u] /\ savedPriority'[u] = savedPriority[u]
            /\ mutexLocked'[u] = mutexLocked[u]
      BY <2>3 DEF Handoff
    <3>3. /\ mutexLocked'[next] # {} /\ savedPriority'[next] = asked[next]
          /\ mutexLocked'[t] = mutexLocked[t] \ {m}
          /\ savedPriority'[t] = savedPriority[t]
          /\ prio'[t] = PriorityAfter(t, m)
      BY <2>3, <3>1 DEF Handoff
    <3>4. asked'[t] = IF mutexLocked'[t] = {} THEN prio'[t] ELSE savedPriority'[t]
      BY <1>3, <2>1, <3>3 DEF UnlockLast, PriorityAfter
    <3> QED
      BY <1>3, <3>2, <3>3, <3>4 DEF UnlockLast
  <2> QED
    BY <1>3, <2>2, <2>3 DEF UnlockLast
<1>4. ASSUME NEW t \in Thread, NEW pr \in Priority, SetPriority(t, pr)
      PROVE  PriorityRestored'
  BY <1>4 DEF SetPriority
<1>5. ASSUME NEW t \in Thread, NEW m \in Mutex,
             \/ TakeAgain(t, m) \/ LockOwned(t, m)
             \/ UnlockNotOwner(t, m) \/ UnlockAgain(t, m)
      PROVE  PriorityRestored'
  BY <1>5 DEF TakeAgain, LockOwned, UnlockNotOwner, UnlockAgain, threadVars
<1>6. ASSUME NEW t \in Thread, WaitLoop(t) \/ SpuriousWakeup(t)
      PROVE  PriorityRestored'
  BY <1>6 DEF WaitLoop, SpuriousWakeup
<1>7. CASE UNCHANGED vars
  BY <1>7 DEF vars, threadVars
<1> QED
  BY <1>1, <1>2, <1>3, <1>4, <1>5, <1>6, <1>7 DEF Next, Lock, TryLock, Unlock

(* Inheritance is temporary, whatever the clients do: a thread without     *)
(* mutexes has the priority it asked for last.                             *)
THEOREM InheritanceTemporary == Spec => []PriorityRestored
<1>1. Init => PriorityRestored
  BY DEF Init, PriorityRestored
<1>2. IInv /\ PriorityRestored /\ [Next]_vars => PriorityRestored'
  BY RestoreStep
<1> QED
  BY <1>1, <1>2, Consistent, PTL DEF Spec

-----------------------------------------------------------------------------
(* The heap of m has a front, and in a heap in order it has the highest of *)
(* the priorities in it.                                                   *)
LEMMA FrontHighest ==
    ASSUME IInv, HeapFresh, NEW m \in Mutex, NEW S \in SUBSET waiting[m], NEW u \in S
    PROVE  \E f \in Fronts(S) : prio[u] <= prio[f]
<1> DEFINE K == {heapKey[t] : t \in S}
<1>1. S \subseteq Thread /\ K \in SUBSET Priority /\ K # {}
  BY DEF IInv, TypeOK
<1> HIDE DEF K
<1>2. Max(K) \in K /\ \A q \in K : q <= Max(K)
  BY <1>1, MaxExists
<1>3. PICK f \in S : heapKey[f] = Max(K)
  BY <1>2 DEF K
<1>4. \A t \in S : heapKey[t] <= heapKey[f]
  BY <1>2, <1>3 DEF K
<1> QED
  BY <1>3, <1>4 DEF Fronts, HeapFresh

(* What the clients that hold one mutex at a time add: whoever waits holds *)
(* none, so the walk of PKlock stops at the first owner.                   *)
OneAtATime ==
    /\ \A t \in Thread, m, n \in Mutex : m \in mutexLocked[t] /\ n \in mutexLocked[t] => m = n
    /\ \A t \in Thread : mutexWaiting[t] # NoMutex => mutexLocked[t] = {}

(* The priority of a thread is the highest of its own and its waiters'.    *)
Lenders(t) == UNION {waiting[m] : m \in mutexLocked[t]}

Lent ==
    \A t \in Thread :
        /\ asked[t] <= prio[t]
        /\ \A u \in Lenders(t) : prio[u] <= prio[t]
        /\ prio[t] = asked[t] \/ \E u \in Lenders(t) : prio[t] = prio[u]

SingleInv == nesting = "single" => OneAtATime /\ Lent

(* What is asked of one thread.                                            *)
LentTo(t) ==
    /\ asked[t] <= prio[t]
    /\ \A u \in Lenders(t) : prio[u] <= prio[t]
    /\ prio[t] = asked[t] \/ \E u \in Lenders(t) : prio[t] = prio[u]

(* The state of a thread that owns m, and of one that has just asked for   *)
(* or given up its only mutex.                                             *)
LEMMA OwnerHolds ==
    ASSUME IInv, OneAtATime, NEW m \in Mutex, owner[m] # NoThread
    PROVE  /\ owner[m] \in Thread
           /\ mutexLocked[owner[m]] = {m}
           /\ mutexWaiting[owner[m]] = NoMutex
           /\ Lenders(owner[m]) = waiting[m]
<1> USE ThreadAssumption, MutexAssumption
<1>1. owner[m] \in Thread
  BY DEF IInv, TypeOK
<1>2. m \in mutexLocked[owner[m]] /\ mutexLocked[owner[m]] \subseteq Mutex
  BY <1>1 DEF IInv, TypeOK, OwnerListAgree
<1>3. mutexLocked[owner[m]] = {m}
  <2>1. \A n \in mutexLocked[owner[m]] : n = m
    BY <1>1, <1>2 DEF OneAtATime
  <2> QED
    BY <1>2, <2>1
<1>4. mutexWaiting[owner[m]] = NoMutex
  BY <1>1, <1>2 DEF OneAtATime
<1> QED
  BY <1>1, <1>3, <1>4 DEF Lenders

LEMMA NaturalPriorities ==
    ASSUME IInv
    PROVE  /\ \A u \in Thread : prio[u] \in Nat /\ asked[u] \in Nat
           /\ \A u \in Thread : mutexLocked[u] \subseteq Mutex
           /\ \A n \in Mutex : waiting[n] \subseteq Thread
           /\ \A u \in Thread : Lenders(u) \subseteq Thread
<1>1. Priority \subseteq Nat
  BY BoundAssumption DEF Priority
<1>2. \A u \in Thread : prio[u] \in Priority /\ asked[u] \in Priority
  BY DEF IInv, TypeOK
<1>3. \A u \in Thread : mutexLocked[u] \subseteq Mutex
  BY DEF IInv, TypeOK
<1>4. \A n \in Mutex : waiting[n] \subseteq Thread
  BY DEF IInv, TypeOK
<1> QED
  BY <1>1, <1>2, <1>3, <1>4 DEF Lenders

(* The owner of m inherits from a new waiter, and from nobody else, because *)
(* no other mutex is held by a thread that waits.                          *)
LEMMA ContendedLends ==
    ASSUME IInv, PriorityRestored, OneAtATime, Lent, nesting = "single",
           NEW t \in Thread, NEW m \in Mutex, Running(t), MayLock(t, m), LockContended(t, m)
    PROVE  OneAtATime' /\ Lent'
<1> USE ThreadAssumption, MutexAssumption
<1>0. PICK o \in Thread : o = owner[m] /\ o # t
  BY DEF IInv, TypeOK, LockContended
<1>1. mutexLocked[o] = {m} /\ mutexWaiting[o] = NoMutex /\ Lenders(o) = waiting[m]
  BY <1>0, OwnerHolds
<1>2. mutexLocked[t] = {} /\ mutexWaiting[t] = NoMutex
  <2>1. mutexWaiting[t] = NoMutex
    BY DEF IInv, WaitersAccounted, Running
  <2>2. m \notin mutexLocked[t]
    BY <1>0 DEF IInv, OwnerListAgree
  <2> QED
    BY <2>1, <2>2 DEF MayLock
<1>3. \A n \in Mutex : t \notin waiting[n] /\ o \notin waiting[n]
  BY <1>1, <1>2 DEF IInv, WaitersAccounted
<1>4. Walk(m) = {o}
  BY <1>0, <1>1, WalkStops
<1>5. /\ \A u \in Thread : u # o => prio'[u] = prio[u]
      /\ prio'[o] = IF prio[t] > prio[o] THEN prio[t] ELSE prio[o]
  BY <1>0, <1>4 DEF LockContended
<1>6. /\ \A n \in Mutex : waiting'[n] = IF n = m THEN waiting[m] \union {t} ELSE waiting[n]
      /\ \A u \in Thread : mutexWaiting'[u] = IF u = t THEN m ELSE mutexWaiting[u]
      /\ UNCHANGED <<mutexLocked, asked>>
  BY DEF LockContended, IInv, TypeOK
<1>7. OneAtATime'
  BY <1>2, <1>6 DEF OneAtATime
<1>8. \A u \in Thread : u # o => m \notin mutexLocked[u]
  BY <1>0 DEF IInv, OwnerListAgree
<1>9. ASSUME NEW u \in Thread, u # o
      PROVE  LentTo(u)'
  <2>1. Lenders(u)' = Lenders(u)
    BY <1>6, <1>8, <1>9, NaturalPriorities DEF Lenders
  <2>2. \A v \in Lenders(u) : v \in Thread /\ v # o
    BY <1>3, <1>9, NaturalPriorities DEF Lenders
  <2>3. LentTo(u)
    BY DEF Lent, LentTo
  <2> QED
    BY <1>5, <1>6, <1>9, <2>1, <2>2, <2>3 DEF LentTo
<1>10. LentTo(o)'
  <2>1. Lenders(o)' = waiting[m] \union {t}
    BY <1>1, <1>6 DEF Lenders
  <2>2. \A v \in waiting[m] \union {t} : v \in Thread /\ v # o
    BY <1>0, <1>3, NaturalPriorities
  <2>3. /\ asked[o] <= prio[o] /\ \A v \in waiting[m] : prio[v] <= prio[o]
        /\ prio[o] = asked[o] \/ \E v \in waiting[m] : prio[o] = prio[v]
    BY <1>1 DEF Lent
  <2>4. \A v \in waiting[m] \union {t} : prio'[v] = prio[v] /\ prio[v] \in Nat
    BY <1>5, <2>2, NaturalPriorities
  <2>5. prio[t] \in Nat /\ prio[o] \in Nat /\ asked[o] \in Nat /\ asked' = asked
    BY <1>6, NaturalPriorities
  <2>6. CASE prio[t] > prio[o]
    <3>1. prio'[o] = prio[t]
      BY <1>5, <2>6
    <3> QED
      BY <2>1, <2>3, <2>4, <2>5, <2>6, <3>1 DEF LentTo
  <2>7. CASE ~(prio[t] > prio[o])
    <3>1. prio'[o] = prio[o] /\ prio[t] <= prio[o]
      BY <1>5, <2>5, <2>7
    <3> QED
      BY <2>1, <2>3, <2>4, <2>5, <3>1 DEF LentTo
  <2> QED
    BY <2>6, <2>7
<1>11. \A u \in Thread : LentTo(u)'
  BY <1>9, <1>10
<1> QED
  BY <1>7, <1>11 DEF Lent, LentTo

(* A free mutex has no waiters.                                            *)
LEMMA FreeLends ==
    ASSUME IInv, OneAtATime, Lent, nesting = "single",
           NEW t \in Thread, NEW m \in Mutex, Running(t), MayLock(t, m), TakeFree(t, m)
    PROVE  OneAtATime' /\ Lent'
<1> USE ThreadAssumption, MutexAssumption
<1>1. waiting[m] = {} /\ mutexWaiting[t] = NoMutex
  BY DEF TakeFree, IInv, OwnerListAgree, WaitersAccounted, Running
<1>2. mutexLocked[t] = {}
  <2>1. m \notin mutexLocked[t]
    BY DEF TakeFree, IInv, OwnerListAgree
  <2> QED
    BY <2>1 DEF MayLock
<1>3. UNCHANGED <<waiting, prio, mutexWaiting, asked>>
  BY DEF TakeFree
<1>4. \A u \in Thread : mutexLocked'[u] = IF u = t THEN {m} ELSE mutexLocked[u]
  BY <1>2 DEF TakeFree, IInv, TypeOK
<1>5. \A u \in Thread : Lenders(u)' = Lenders(u)
  BY <1>1, <1>2, <1>3, <1>4 DEF Lenders
<1>6. OneAtATime'
  BY <1>1, <1>3, <1>4 DEF OneAtATime
<1> QED
  BY <1>3, <1>5, <1>6 DEF Lent

(* What is computed from the fronts of the heaps is the highest of all.    *)
LEMMA InheritedHighest ==
    ASSUME IInv, HeapFresh, NEW base \in Priority, NEW locks \in SUBSET Mutex
    PROVE  LET lenders == UNION {waiting[m] : m \in locks}
           IN  /\ base <= Inherited(base, locks)
               /\ \A u \in lenders : prio[u] <= Inherited(base, locks)
               /\ \/ Inherited(base, locks) = base
                  \/ \E u \in lenders : Inherited(base, locks) = prio[u]
<1> DEFINE S == {base} \union UNION {FrontPriorities(waiting[m]) : m \in locks}
           top == Inherited(base, locks)
<1>1. S \subseteq Priority /\ S # {}
  BY DEF FrontPriorities, Fronts, IInv, TypeOK
<1>2. top = Max(S)
  BY DEF Inherited
<1>3. S \subseteq Nat
  BY <1>1, BoundAssumption DEF Priority
<1> HIDE DEF S, top
<1>4. top \in S /\ \A q \in S : q <= top
  BY <1>1, <1>2, MaxExists
<1>5. base <= top
  BY <1>4 DEF S
<1>6. ASSUME NEW m \in locks, NEW u \in waiting[m]
      PROVE  prio[u] <= top
  <2>1. PICK f \in Fronts(waiting[m]) : prio[u] <= prio[f]
    BY FrontHighest
  <2>2. prio[f] \in S
    BY <2>1 DEF S, FrontPriorities
  <2>3. prio[u] \in Nat /\ prio[f] \in Nat /\ top \in Nat
    BY <1>3, <1>4, <2>2, NaturalPriorities
  <2> QED
    BY <1>4, <2>1, <2>2, <2>3
<1>7. top = base \/ \E m \in locks : \E u \in waiting[m] : top = prio[u]
  BY <1>4 DEF S, FrontPriorities, Fronts
<1> QED
  BY <1>5, <1>6, <1>7 DEF top

(* A thread that gives up its only mutex is back at its own priority, and  *)
(* the waiter that gets the mutex outranks those that still wait.          *)
LEMMA ReleaseLends ==
    ASSUME IInv, HeapFresh, PriorityRestored, OneAtATime, Lent,
           NEW t \in Thread, NEW m \in Mutex, Running(t), UnlockLast(t, m)
    PROVE  OneAtATime' /\ Lent'
<1> USE ThreadAssumption, MutexAssumption
<1>1. owner[m] = t /\ asked' = asked
  BY DEF UnlockLast
<1>2. mutexLocked[t] = {m} /\ PriorityAfter(t, m) = asked[t]
  BY <1>1, OwnerHolds DEF PriorityAfter, PriorityRestored
<1>3. \A n \in Mutex : t \notin waiting[n]
  BY DEF Running, IInv, WaitersAccounted
<1>4. \A u \in Thread : u # t => m \notin mutexLocked[u]
  BY <1>1 DEF IInv, OwnerListAgree
<1>5. \A u \in Thread : LentTo(u)
  BY DEF Lent, LentTo
<1>6. SUFFICES OneAtATime' /\ \A u \in Thread : LentTo(u)'
  BY DEF Lent, LentTo
<1>7. CASE ReleaseFree(t, m)
  <2>1. /\ prio'[t] = asked[t] /\ \A u \in Thread : u # t => prio'[u] = prio[u]
        /\ UNCHANGED <<waiting, mutexWaiting>>
    BY <1>2, <1>7 DEF ReleaseFree, IInv, TypeOK
  <2>2. \A u \in Thread : mutexLocked'[u] = IF u = t THEN {} ELSE mutexLocked[u]
    BY <1>2, <1>7 DEF ReleaseFree, IInv, TypeOK
  <2>3. OneAtATime'
    BY <2>1, <2>2 DEF OneAtATime
  <2>4. LentTo(t)'
    <3>1. Lenders(t)' = {}
      BY <2>2 DEF Lenders
    <3>2. asked[t] \in Nat
      BY NaturalPriorities
    <3> QED
      BY <1>1, <2>1, <3>1, <3>2 DEF LentTo
  <2>5. ASSUME NEW u \in Thread, u # t
        PROVE  LentTo(u)'
    <3>1. Lenders(u)' = Lenders(u)
      BY <2>1, <2>2, <2>5 DEF Lenders
    <3>2. \A v \in Lenders(u) : v \in Thread /\ v # t
      BY <1>3, <2>5, NaturalPriorities DEF Lenders
    <3> QED
      BY <1>1, <1>5, <2>1, <2>5, <3>1, <3>2 DEF LentTo
  <2> QED
    BY <2>3, <2>4, <2>5
<1>8. ASSUME NEW next \in Thread, Handoff(t, m, next)
      PROVE  OneAtATime' /\ \A u \in Thread : LentTo(u)'
  <2> DEFINE rest == waiting[m] \ {next}
             lent == Max({prio[next]} \union FrontPriorities(rest))
  <2>1. next \in waiting[m] /\ next # t /\ mutexWaiting[next] = m
    BY <1>3, <1>8 DEF Handoff, Fronts, IInv, WaitersAccounted
  <2>2. mutexLocked[next] = {} /\ asked[next] = prio[next]
    BY <2>1 DEF OneAtATime, PriorityRestored
  <2>3. \A u \in rest : u \in Thread /\ prio[u] <= prio[next]
    BY <1>8, <2>1, NaturalPriorities DEF Handoff, Fronts, HeapFresh
  <2>4. lent = prio[next]
    <3> DEFINE Q == {prio[next]} \union FrontPriorities(rest)
    <3>1. Q \subseteq Priority /\ Q # {}
      BY <2>3 DEF FrontPriorities, Fronts, IInv, TypeOK
    <3>2. \A q \in Q : q <= prio[next] /\ q \in Nat
      BY <2>3, NaturalPriorities DEF FrontPriorities, Fronts
    <3>3. prio[next] \in Q /\ lent = Max(Q) /\ prio[next] \in Nat
      BY NaturalPriorities
    <3> HIDE DEF Q, lent
    <3>4. lent \in Q /\ \A q \in Q : q <= lent
      BY <3>1, <3>3, MaxExists
    <3> QED
      BY <3>2, <3>3, <3>4
  <2>5. prio' = [prio EXCEPT ![t] = asked[t], ![next] = lent]
    BY <1>2, <1>8, <2>1 DEF Handoff, IInv, TypeOK
  <2> HIDE DEF lent
  <2>6. prio'[t] = asked[t] /\ \A u \in Thread : u # t => prio'[u] = prio[u]
    BY <2>1, <2>4, <2>5 DEF IInv, TypeOK
  <2>7. \A u \in Thread : mutexLocked'[u] =
            IF u = t THEN {} ELSE IF u = next THEN {m} ELSE mutexLocked[u]
    BY <1>2, <1>8, <2>1, <2>2 DEF Handoff, IInv, TypeOK
  <2>8. /\ \A n \in Mutex : waiting'[n] = IF n = m THEN rest ELSE waiting[n]
        /\ \A u \in Thread :
            mutexWaiting'[u] = IF u = next THEN NoMutex ELSE mutexWaiting[u]
    BY <1>8 DEF Handoff, Unqueued, IInv, TypeOK
  <2> HIDE DEF rest
  <2>9. OneAtATime'
    BY <2>7, <2>8 DEF OneAtATime
  <2>10. LentTo(t)'
    <3>1. Lenders(t)' = {}
      BY <2>7 DEF Lenders
    <3>2. asked[t] \in Nat
      BY NaturalPriorities
    <3> QED
      BY <1>1, <2>6, <3>1, <3>2 DEF LentTo
  <2>11. LentTo(next)'
    <3>1. Lenders(next)' = rest
      BY <2>1, <2>7, <2>8 DEF Lenders
    <3>2. asked'[next] = prio'[next] /\ prio'[next] = prio[next] /\ prio[next] \in Nat
      BY <1>1, <2>1, <2>2, <2>6, NaturalPriorities
    <3>3. \A u \in rest : prio'[u] <= prio'[next]
      BY <1>3, <2>3, <2>6, <3>2 DEF rest
    <3> QED
      BY <3>1, <3>2, <3>3 DEF LentTo
  <2>12. ASSUME NEW u \in Thread, u # t, u # next
         PROVE  LentTo(u)'
    <3>1. Lenders(u)' = Lenders(u)
      BY <1>4, <2>7, <2>8, <2>12, NaturalPriorities DEF Lenders
    <3>2. \A v \in Lenders(u) : v \in Thread /\ v # t
      BY <1>3, <2>12, NaturalPriorities DEF Lenders
    <3> QED
      BY <1>1, <1>5, <2>6, <2>12, <3>1, <3>2 DEF LentTo
  <2> QED
    BY <2>9, <2>10, <2>11, <2>12
<1> QED
  BY <1>7, <1>8 DEF UnlockLast

(* A thread that changes its own priority keeps what it inherits.          *)
LEMMA SetPriorityLends ==
    ASSUME IInv, HeapFresh, PriorityRestored, OneAtATime, Lent,
           NEW t \in Thread, NEW pr \in Priority, SetPriority(t, pr)
    PROVE  OneAtATime' /\ Lent'
<1>1. /\ UNCHANGED <<waiting, mutexLocked, mutexWaiting>>
      /\ asked' = [asked EXCEPT ![t] = pr]
      /\ \A u \in Thread : u # t => prio'[u] = prio[u]
  BY DEF SetPriority, mutexVars, IInv, TypeOK
<1>2. \A n \in Mutex : t \notin waiting[n]
  BY MutexAssumption DEF SetPriority, Running, IInv, WaitersAccounted
<1>3. \A u \in Thread : Lenders(u)' = Lenders(u)
  BY <1>1 DEF Lenders
<1>4. \A u \in Thread : \A v \in Lenders(u) : v \in Thread /\ v # t
  BY <1>2, NaturalPriorities DEF Lenders
<1>5. asked'[t] = pr /\ \A u \in Thread : u # t => asked'[u] = asked[u]
  BY <1>1 DEF IInv, TypeOK
<1>6. \A u \in Thread : LentTo(u)
  BY DEF Lent, LentTo
<1>7. ASSUME NEW u \in Thread, u # t
      PROVE  LentTo(u)'
  BY <1>1, <1>3, <1>4, <1>5, <1>6, <1>7 DEF LentTo
<1>8. LentTo(t)'
  <2>1. /\ pr <= prio'[t]
        /\ \A v \in Lenders(t) : prio[v] <= prio'[t]
        /\ prio'[t] = pr \/ \E v \in Lenders(t) : prio'[t] = prio[v]
    <3>1. CASE mutexLocked[t] = {}
      <4>1. prio'[t] = pr /\ Lenders(t) = {} /\ pr \in Nat
        BY <3>1, BoundAssumption DEF SetPriority, Lenders, IInv, TypeOK, Priority
      <4> QED
        BY <4>1
    <3>2. CASE mutexLocked[t] # {} /\ savedPriority[t] = pr
      <4>1. prio'[t] = prio[t] /\ asked[t] = pr
        BY <3>2 DEF SetPriority, PriorityRestored
      <4> QED
        BY <1>6, <4>1 DEF LentTo
    <3>3. CASE mutexLocked[t] # {} /\ savedPriority[t] # pr
      <4>1. prio'[t] = Inherited(pr, mutexLocked[t])
        BY <3>3 DEF SetPriority, IInv, TypeOK
      <4>2. mutexLocked[t] \in SUBSET Mutex
        BY NaturalPriorities
      <4> QED
        BY <4>1, <4>2, InheritedHighest DEF Lenders
    <3> QED
      BY <3>1, <3>2, <3>3
  <2>2. \A v \in Lenders(t) : prio'[v] = prio[v]
    BY <1>1, <1>4
  <2> QED
    BY <1>3, <1>5, <2>1, <2>2 DEF LentTo
<1>9. OneAtATime'
  BY <1>1 DEF OneAtATime
<1>10. \A u \in Thread : LentTo(u)'
  BY <1>7, <1>8
<1> QED
  BY <1>9, <1>10 DEF Lent, LentTo

(* No step changes the kind of the clients.                                *)
LEMMA NestingKept ==
    ASSUME [Next]_vars
    PROVE  nesting' = nesting
<1>1. ASSUME NEW t \in Thread, NEW m \in Mutex, Lock(t, m) \/ TryLock(t, m) \/ Unlock(t, m)
      PROVE  nesting' = nesting
  BY <1>1 DEF Lock, TryLock, Unlock, TakeFree, TakeAgain, LockOwned, LockContended,
              UnlockNotOwner, UnlockAgain, UnlockLast
<1>2. ASSUME NEW t \in Thread, WaitLoop(t) \/ SpuriousWakeup(t)
      PROVE  nesting' = nesting
  BY <1>2 DEF WaitLoop, SpuriousWakeup
<1>3. ASSUME NEW t \in Thread, NEW pr \in Priority, SetPriority(t, pr)
      PROVE  nesting' = nesting
  BY <1>3 DEF SetPriority
<1>4. CASE UNCHANGED vars
  BY <1>4 DEF vars
<1> QED
  BY <1>1, <1>2, <1>3, <1>4 DEF Next

(* Every step of clients that hold one mutex at a time.                    *)
LEMMA SingleStep ==
    ASSUME IInv, HeapFresh, PriorityRestored, SingleInv, [Next]_vars
    PROVE  SingleInv'
<1>1. nesting' = nesting
  BY NestingKept
<1> SUFFICES ASSUME nesting = "single"
             PROVE  OneAtATime' /\ Lent'
  BY <1>1 DEF SingleInv
<1>2. OneAtATime /\ Lent
  BY DEF SingleInv
<1>3. ASSUME UNCHANGED <<waiting, prio, asked, mutexLocked, mutexWaiting>>
      PROVE  OneAtATime' /\ Lent'
  BY <1>2, <1>3 DEF OneAtATime, Lent, Lenders
<1>4. ASSUME NEW t \in Thread, NEW m \in Mutex, Lock(t, m) \/ TryLock(t, m)
      PROVE  OneAtATime' /\ Lent'
  <2>1. CASE TakeFree(t, m)
    BY <1>2, <1>4, <2>1, FreeLends DEF Lock, TryLock
  <2>2. CASE TakeAgain(t, m) \/ LockOwned(t, m)
    BY <1>3, <2>2 DEF TakeAgain, LockOwned, mutexVars, threadVars
  <2>3. CASE LockContended(t, m)
    BY <1>2, <1>4, <2>3, ContendedLends DEF Lock, TryLock
  <2> QED
    BY <1>4, <2>1, <2>2, <2>3 DEF Lock, TryLock
<1>5. ASSUME NEW t \in Thread, NEW m \in Mutex, Unlock(t, m)
      PROVE  OneAtATime' /\ Lent'
  <2>1. CASE UnlockNotOwner(t, m) \/ UnlockAgain(t, m)
    BY <1>3, <2>1 DEF UnlockNotOwner, UnlockAgain, mutexVars, threadVars
  <2>2. CASE UnlockLast(t, m)
    BY <1>2, <1>5, <2>2, ReleaseLends DEF Unlock
  <2> QED
    BY <1>5, <2>1, <2>2 DEF Unlock
<1>6. ASSUME NEW t \in Thread, NEW pr \in Priority, SetPriority(t, pr)
      PROVE  OneAtATime' /\ Lent'
  BY <1>2, <1>6, SetPriorityLends
<1>7. ASSUME NEW t \in Thread, WaitLoop(t) \/ SpuriousWakeup(t)
      PROVE  OneAtATime' /\ Lent'
  BY <1>3, <1>7 DEF WaitLoop, SpuriousWakeup, mutexVars
<1>8. CASE UNCHANGED vars
  BY <1>3, <1>8 DEF vars, mutexVars, threadVars
<1> QED
  BY <1>4, <1>5, <1>6, <1>7, <1>8 DEF Next

(* A thread of a client that holds one mutex at a time runs at the highest *)
(* priority among its own and those of the threads that wait for its mutex.*)
THEOREM InheritsCorrect == Spec => []InheritsHighest
<1>1. Init => SingleInv
  <2> SUFFICES ASSUME Init PROVE OneAtATime /\ Lent
    BY DEF SingleInv
  <2>1. \A t \in Thread : mutexLocked[t] = {} /\ Lenders(t) = {}
    BY DEF Init, Lenders
  <2>2. \A t \in Thread : asked[t] = prio[t] /\ prio[t] \in Nat
    BY BoundAssumption DEF Init, Priority
  <2> QED
    BY <2>1, <2>2 DEF OneAtATime, Lent
<1>2. IInv /\ HeapFresh /\ PriorityRestored /\ SingleInv /\ [Next]_vars => SingleInv'
  BY SingleStep
<1>3. ASSUME IInv, SingleInv
      PROVE  InheritsHighest
  <2> SUFFICES ASSUME Lent, NEW t \in Thread
               PROVE  prio[t] = Max({asked[t]} \union {prio[u] : u \in Lenders(t)})
    BY <1>3 DEF InheritsHighest, PriorityInheritance, SingleInv, Lenders
  <2> DEFINE S == {asked[t]} \union {prio[u] : u \in Lenders(t)}
  <2>1. S \in SUBSET Priority /\ S # {}
    BY <1>3, NaturalPriorities DEF IInv, TypeOK
  <2>2. prio[t] \in S /\ \A q \in S : q <= prio[t]
    BY DEF Lent
  <2> HIDE DEF S
  <2>3. Max(S) \in S /\ \A q \in S : q <= Max(S)
    BY <2>1, MaxExists
  <2>4. S \subseteq Nat
    BY <2>1, BoundAssumption DEF Priority
  <2>5. prio[t] = Max(S)
    <3> DEFINE top == Max(S)
    <3>1. top \in Nat /\ prio[t] \in Nat /\ top <= prio[t] /\ prio[t] <= top
      BY <2>2, <2>3, <2>4
    <3> HIDE DEF top
    <3>2. prio[t] = top
      BY <3>1
    <3> QED
      BY <3>2 DEF top
  <2> QED
    BY <2>5 DEF S
<1> QED
  BY <1>1, <1>2, <1>3, Consistent, HeapsStayOrdered, InheritanceTemporary, PTL DEF Spec

-----------------------------------------------------------------------------
(* Clients that nest in order only wait for mutexes above those they hold, *)
(* and keep the board up.                                                  *)
WaitsAbove ==
    \A t \in Thread : mutexWaiting[t] # NoMutex =>
        \A m \in mutexLocked[t] : m < mutexWaiting[t]

OrderInv == nesting # "any" => status = "up" /\ WaitsAbove

(* A chain of threads, each waiting for a mutex below the one that the     *)
(* next one waits for, ends.                                               *)
LEMMA ChainEnds ==
    ASSUME NEW S \in SUBSET Thread, S # {}, NEW next \in [S -> Mutex]
    PROVE  \E t \in S : \A u \in S : ~ (next[t] < next[u])
<1> DEFINE K == {next[t] : t \in S}
<1>1. K \subseteq Mutex /\ K # {}
  OBVIOUS
<1>2. IsFiniteSet(K)
  <2>1. IsFiniteSet(S)
    BY ThreadAssumption, FS_Subset
  <2>2. next \in Surjection(S, K)
    BY DEF Surjection
  <2> QED
    BY <2>1, <2>2, FS_Surjection
<1>3. K \in SUBSET Nat
  BY <1>1, MutexAssumption
<1> HIDE DEF K
<1>4. PICK y \in K : \A q \in K : q <= y
  BY <1>1, <1>2, <1>3, GreatestExists
<1>5. PICK t \in S : y = next[t]
  BY <1>4 DEF K
<1>6. ASSUME NEW u \in S
      PROVE  ~ (next[t] < next[u])
  <2>1. next[u] \in K /\ next[u] \in Nat /\ y \in Nat
    BY <1>3, <1>4 DEF K
  <2>2. next[u] <= y
    BY <1>4, <2>1
  <2> QED
    BY <1>5, <2>1, <2>2
<1> QED
  BY <1>6

(* The walk of PKlock is closed under going to the next owner.             *)
LEMMA WalkCloses ==
    ASSUME IInv, NEW m \in Mutex, owner[m] # NoThread
    PROVE  /\ Walk(m) \subseteq Thread /\ owner[m] \in Walk(m)
           /\ \A u \in Walk(m) : mutexWaiting[u] # NoMutex =>
                owner[mutexWaiting[u]] \in Walk(m)
<1>1. \A n \in Mutex : waiting[n] # {} => owner[n] \in Thread
  BY DEF IInv, TypeOK, OwnerListAgree
<1>2. \A u \in Thread : mutexWaiting[u] # NoMutex => owner[mutexWaiting[u]] \in Thread
  BY <1>1 DEF IInv, TypeOK, WaitersAccounted
<1>3. owner[m] \in Thread
  BY DEF IInv, TypeOK
<1>4. owner[m] \in Walk(m)
  BY <1>3 DEF Walk
<1>5. ASSUME NEW u \in Walk(m), mutexWaiting[u] # NoMutex
      PROVE  owner[mutexWaiting[u]] \in Walk(m)
  BY <1>2, <1>5 DEF Walk
<1> QED
  BY <1>4, <1>5 DEF Walk

(* A new waiter waits above all it holds, and the walk, which goes up, ends.*)
LEMMA ContendedOrdered ==
    ASSUME IInv, WaitsAbove, status = "up", nesting # "any",
           NEW t \in Thread, NEW m \in Mutex, Running(t), MayLock(t, m), LockContended(t, m)
    PROVE  status' = "up" /\ WaitsAbove'
<1> USE MutexAssumption
<1>1. /\ mutexWaiting' = [mutexWaiting EXCEPT ![t] = m] /\ mutexLocked' = mutexLocked
      /\ owner[m] # NoThread /\ owner[m] # t
  BY DEF LockContended
<1>2. \A u \in Thread : mutexWaiting'[u] = IF u = t THEN m ELSE mutexWaiting[u]
  BY <1>1 DEF IInv, TypeOK
<1>3. \A n \in mutexLocked[t] : n < m
  <2>1. m \notin mutexLocked[t]
    BY <1>1 DEF IInv, OwnerListAgree
  <2>2. \A n \in mutexLocked[t] : n <= m /\ n \in Nat /\ m \in Nat
    BY DEF MayLock, IInv, TypeOK
  <2> QED
    BY <2>1, <2>2
<1>4. WaitsAbove'
  BY <1>1, <1>2, <1>3 DEF WaitsAbove
<1>5. ASSUME \A u \in Walk(m) : mutexWaiting'[u] # NoMutex
      PROVE  FALSE
  <2> DEFINE up == [u \in Walk(m) |-> mutexWaiting'[u]]
  <2>1. Walk(m) \subseteq Thread /\ Walk(m) # {} /\ owner[m] \in Walk(m)
    BY <1>1, WalkCloses
  <2>2. up \in [Walk(m) -> Mutex]
    BY <1>2, <1>5, <2>1 DEF IInv, TypeOK
  <2>3. PICK u \in Walk(m) : \A v \in Walk(m) : ~ (up[u] < up[v])
    <3> HIDE DEF up
    <3> QED
      BY <2>1, <2>2, ChainEnds
  <2>4. PICK n \in Mutex : n = mutexWaiting'[u]
    BY <2>2, <2>3
  <2>5. owner[n] \in Walk(m)
    <3>1. CASE u = t
      BY <1>2, <2>1, <2>3, <2>4, <3>1
    <3>2. CASE u # t
      <4>1. mutexWaiting[u] = n
        BY <1>2, <2>1, <2>3, <2>4, <3>2
      <4> QED
        BY <1>1, <2>3, <4>1, WalkCloses
    <3> QED
      BY <3>1, <3>2
  <2>6. owner[n] \in Thread /\ n \in mutexLocked'[owner[n]]
    BY <1>1, <2>1, <2>5 DEF IInv, OwnerListAgree
  <2>7. mutexWaiting'[owner[n]] # NoMutex
    BY <1>5, <2>5
  <2>8. n < mutexWaiting'[owner[n]]
    BY <1>4, <2>6, <2>7 DEF WaitsAbove
  <2> QED
    BY <2>3, <2>4, <2>5, <2>8
<1> QED
  BY <1>4, <1>5 DEF LockContended

(* Every step of clients that nest in order.                               *)
LEMMA OrderStep ==
    ASSUME IInv, OrderInv, [Next]_vars
    PROVE  OrderInv'
<1> USE MutexAssumption
<1>1. nesting' = nesting
  BY NestingKept
<1> SUFFICES ASSUME nesting # "any"
             PROVE  status' = "up" /\ WaitsAbove'
  BY <1>1 DEF OrderInv
<1>2. status = "up" /\ WaitsAbove
  BY DEF OrderInv
<1>3. ASSUME UNCHANGED <<status, mutexLocked, mutexWaiting>>
      PROVE  status' = "up" /\ WaitsAbove'
  BY <1>2, <1>3 DEF WaitsAbove
<1>4. ASSUME NEW t \in Thread, NEW m \in Mutex, Lock(t, m) \/ TryLock(t, m)
      PROVE  status' = "up" /\ WaitsAbove'
  <2>0. Running(t) /\ MayLock(t, m)
    BY <1>4 DEF Lock, TryLock
  <2>1. CASE TakeFree(t, m)
    <3>1. mutexWaiting[t] = NoMutex
      BY <2>0 DEF IInv, WaitersAccounted, Running
    <3>2. \A u \in Thread : u # t => mutexLocked'[u] = mutexLocked[u]
      BY <2>1 DEF TakeFree, IInv, TypeOK
    <3> QED
      BY <1>2, <2>1, <3>1, <3>2 DEF TakeFree, WaitsAbove
  <2>2. CASE TakeAgain(t, m)
    BY <1>3, <2>2 DEF TakeAgain, threadVars
  <2>3. ~ LockOwned(t, m)
    <3> SUFFICES ASSUME LockOwned(t, m) PROVE FALSE
      OBVIOUS
    <3>1. m \in mutexLocked[t] /\ m \notin Recursive
      <4>1. recursiveDepth[m] \in Nat \union {-1} /\ recursiveDepth[m] < 0
        BY DEF LockOwned, IInv, TypeOK
      <4>2. ~ (recursiveDepth[m] >= 0)
        BY <4>1
      <4> QED
        BY <4>2 DEF LockOwned, IInv, OwnerListAgree, HeldAgree
    <3> QED
      BY <2>0, <3>1 DEF MayLock
  <2>4. CASE LockContended(t, m)
    BY <1>2, <2>0, <2>4, ContendedOrdered
  <2> QED
    BY <1>4, <2>1, <2>2, <2>3, <2>4 DEF Lock, TryLock
<1>5. ASSUME NEW t \in Thread, NEW m \in Mutex, Unlock(t, m)
      PROVE  status' = "up" /\ WaitsAbove'
  <2>1. ~ UnlockNotOwner(t, m) /\ Running(t)
    BY <1>5 DEF Unlock, MayUnlock, UnlockNotOwner
  <2>2. CASE UnlockAgain(t, m)
    BY <1>3, <2>2 DEF UnlockAgain, threadVars
  <2>3. CASE UnlockLast(t, m) /\ ReleaseFree(t, m)
    <3>1. /\ status' = status /\ mutexWaiting' = mutexWaiting
          /\ \A u \in Thread : mutexLocked'[u] \subseteq mutexLocked[u]
      BY <2>3 DEF UnlockLast, ReleaseFree, IInv, TypeOK
    <3> QED
      BY <1>2, <3>1 DEF WaitsAbove
  <2>4. ASSUME NEW next \in Thread, UnlockLast(t, m), Handoff(t, m, next)
        PROVE  status' = "up" /\ WaitsAbove'
    <3>1. /\ status' = status
          /\ \A u \in Thread :
                mutexWaiting'[u] = IF u = next THEN NoMutex ELSE mutexWaiting[u]
      BY <2>4 DEF UnlockLast, Handoff, Unqueued, IInv, TypeOK
    <3>2. \A u \in Thread : u # next => mutexLocked'[u] \subseteq mutexLocked[u]
      BY <2>4 DEF Handoff, IInv, TypeOK
    <3> QED
      BY <1>2, <3>1, <3>2 DEF WaitsAbove
  <2> QED
    BY <1>5, <2>1, <2>2, <2>3, <2>4 DEF Unlock, UnlockLast
<1>6. ASSUME NEW t \in Thread, NEW pr \in Priority, SetPriority(t, pr)
      PROVE  status' = "up" /\ WaitsAbove'
  BY <1>3, <1>6 DEF SetPriority
<1>7. ASSUME NEW t \in Thread, WaitLoop(t) \/ SpuriousWakeup(t)
      PROVE  status' = "up" /\ WaitsAbove'
  BY <1>3, <1>7 DEF WaitLoop, SpuriousWakeup
<1>8. CASE UNCHANGED vars
  BY <1>3, <1>8 DEF vars, threadVars
<1> QED
  BY <1>4, <1>5, <1>6, <1>7, <1>8 DEF Next

(* Clients that nest mutexes in one order neither hang nor reboot the      *)
(* board, and there is always a thread that can run: of the threads that   *)
(* wait, the one at the highest mutex waits for one that does not.         *)
THEOREM OrderedNestingIsSafe == Spec => []NeverStuck
<1> USE MutexAssumption
<1>1. Init => OrderInv
  BY DEF Init, OrderInv, WaitsAbove
<1>2. IInv /\ OrderInv /\ [Next]_vars => OrderInv'
  BY OrderStep
<1>3. ASSUME IInv, OrderInv
      PROVE  NeverStuck
  <2> SUFFICES ASSUME WaitsAbove, \A t \in Thread : waitFlag[t]
               PROVE  FALSE
    BY <1>3 DEF OrderInv, NeverStuck
  <2>1. \A t \in Thread : mutexWaiting[t] \in Mutex /\ t \in waiting[mutexWaiting[t]]
    BY <1>3 DEF IInv, TypeOK, WaitersAccounted
  <2>2. mutexWaiting \in [Thread -> Mutex]
    BY <1>3, <2>1 DEF IInv, TypeOK
  <2>3. PICK t \in Thread : \A u \in Thread : ~ (mutexWaiting[t] < mutexWaiting[u])
    BY <2>2, ChainEnds, SomeThread
  <2>4. PICK n \in Mutex : n = mutexWaiting[t] /\ waiting[n] # {}
    BY <2>1
  <2>5. owner[n] \in Thread /\ n \in mutexLocked[owner[n]]
    BY <1>3, <2>4 DEF IInv, TypeOK, OwnerListAgree
  <2>6. mutexWaiting[owner[n]] # NoMutex
    BY <2>1, <2>5
  <2>7. n < mutexWaiting[owner[n]]
    BY <2>5, <2>6 DEF WaitsAbove
  <2> QED
    BY <2>3, <2>4, <2>5, <2>7
<1> QED
  BY <1>1, <1>2, <1>3, Consistent, PTL DEF Spec

=============================================================================
