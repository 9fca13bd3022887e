---------------------------- MODULE PriorityMutex ----------------------------
(***************************************************************************)
(* miosix::Mutex, the kernel mutex with priority inheritance               *)
(* (kernel/sync.cpp), together with Thread::setPriority, which shares its  *)
(* bookkeeping (kernel/kernel.cpp).                                        *)
(*                                                                         *)
(* The bodies of PKlock, PKtryLock, PKunlock and setPriority run with the  *)
(* kernel paused, so each is one action up to the point where PKlock       *)
(* restarts the kernel to wait.  The waiting loop of PKlock is an action   *)
(* of its own (WaitLoop), because other threads run between its turns and  *)
(* may clear the thread's WAIT flag for reasons of their own.              *)
(*                                                                         *)
(* The errorHandler(UNEXPECTED) checks of the code are not branches here:  *)
(* WaitersAccounted and OwnerListAgree say that they cannot be reached.    *)
(***************************************************************************)
EXTENDS Integers, FiniteSets

CONSTANTS
    Thread, NoThread,
    Mutex, NoMutex,   \* mutexes are numbered in the order clients nest them
    Recursive,        \* the mutexes built with the RECURSIVE option
    MaxPriority,      \* PRIORITY_MAX - 1
    MaxDepth,         \* bound on the recursion depth the clients reach
    Nestings          \* the kinds of clients considered, see nesting

ASSUME ThreadAssumption == NoThread \notin Thread /\ IsFiniteSet(Thread)
ASSUME SomeThread == Thread # {}
ASSUME MutexAssumption ==
    Mutex \subseteq Nat /\ NoMutex \notin Mutex /\ Recursive \subseteq Mutex
ASSUME BoundAssumption == MaxPriority \in Nat /\ MaxDepth \in Nat
ASSUME NestingAssumption == Nestings \subseteq {"single", "ordered", "any"}

Priority == 0 .. MaxPriority

VARIABLES
    nesting,        \* how the clients nest mutexes, never changed
    status,         \* "up", "hung" (looping with the kernel paused), "reboot"
    owner,          \* Mutex::owner
    recursiveDepth, \* Mutex::recursiveDepth, -1 when not recursive
    waiting,        \* Mutex::waiting, the heap, as a set
    heapKey,        \* the priority by which the heap last ordered each waiter
    prio,           \* the priority the scheduler uses
    savedPriority,  \* Thread::savedPriority
    mutexLocked,    \* Thread::mutexLocked, the list, as a set
    mutexWaiting,   \* Thread::mutexWaiting
    inLock,         \* the mutex whose PKlock waiting loop the thread is in
    waitFlag,       \* the thread's WAIT flag
    held,           \* history: times the client is inside each mutex
    asked           \* history: the priority the thread last asked for

mutexVars == <<owner, recursiveDepth, waiting, heapKey>>
threadVars == <<prio, savedPriority, mutexLocked, mutexWaiting, inLock, waitFlag>>
vars == <<nesting, status, mutexVars, threadVars, held, asked>>

Init ==
    /\ nesting \in Nestings
    /\ status = "up"
    /\ owner = [m \in Mutex |-> NoThread]
    /\ recursiveDepth = [m \in Mutex |-> IF m \in Recursive THEN 0 ELSE -1]
    /\ waiting = [m \in Mutex |-> {}]
    /\ heapKey = [t \in Thread |-> 0]
    /\ prio \in [Thread -> Priority]
    /\ savedPriority = [t \in Thread |-> 0]
    /\ mutexLocked = [t \in Thread |-> {}]
    /\ mutexWaiting = [t \in Thread |-> NoMutex]
    /\ inLock = [t \in Thread |-> NoMutex]
    /\ waitFlag = [t \in Thread |-> FALSE]
    /\ held = [t \in Thread |-> [m \in Mutex |-> 0]]
    /\ asked = prio

-----------------------------------------------------------------------------
(* The thread is executing its own code, outside of PKlock.                *)
Running(t) == status = "up" /\ inLock[t] = NoMutex

Max(S) == CHOOSE p \in S : \A q \in S : q <= p

(* Faulty variants of the definitions below, with the mistake each makes.  *)
(* They are not part of the model: they show that a property can fail.     *)
FrontsUnordered(S) == S                             \* vector not kept a heap
InheritedForgotten(base, locks) == base             \* waiters not looked at
SavePriorityAlways(t, m) ==                         \* saved while boosted
    savedPriority' = [savedPriority EXCEPT ![t] = prio[t]]
GrantedOnWakeup(t) == TRUE                          \* if instead of while
WokenNever(next) == waitFlag                        \* PKwakeup forgotten
UnqueuedNever(next) == mutexWaiting                 \* mutexWaiting not reset

ReleaseFreeContended(t, m) ==                       \* waiters not looked at
    /\ owner' = [owner EXCEPT ![m] = NoThread]
    /\ mutexLocked' = [mutexLocked EXCEPT ![t] = @ \ {m}]
    /\ UNCHANGED <<prio, waiting, savedPriority, mutexWaiting, waitFlag>>

-----------------------------------------------------------------------------
(* The waiters that may be at the front of the heap of the threads in S.   *)
Fronts(S) == {t \in S : \A u \in S : heapKey[u] <= heapKey[t]}
FrontPriorities(S) == {prio[t] : t \in Fronts(S)}

(* max(savedPriority, inheritedPriority) over the mutexes in locks.        *)
Inherited(base, locks) ==
    Max({base} \union UNION {FrontPriorities(waiting[m]) : m \in locks})

(* What the clients do.  "single" holds at most one mutex at a time,       *)
(* "ordered" nests them in increasing order; both unlock only what they    *)
(* hold and re-lock only recursive mutexes, as the RAII Lock class does.   *)
MayLock(t, m) ==
    \/ nesting = "any"
    \/ /\ m \in mutexLocked[t] => m \in Recursive
       /\ nesting = "single" => mutexLocked[t] \subseteq {m}
       /\ \A n \in mutexLocked[t] : n <= m

MayUnlock(t, m) == nesting = "any" \/ owner[m] = t

-----------------------------------------------------------------------------
(* PKlock and PKtryLock, the mutex is free.                                *)
SavePriority(t, m) ==
    savedPriority' = [savedPriority EXCEPT
        ![t] = IF mutexLocked[t] = {} THEN prio[t] ELSE @]

TakeFree(t, m) ==
    /\ owner[m] = NoThread
    /\ owner' = [owner EXCEPT ![m] = t]
    /\ SavePriority(t, m)
    /\ mutexLocked' = [mutexLocked EXCEPT ![t] = @ \union {m}]
    /\ held' = [held EXCEPT ![t][m] = 1]
    /\ UNCHANGED <<nesting, status, recursiveDepth, waiting, heapKey, prio, mutexWaiting,
                   inLock, waitFlag, asked>>

(* PKlock and PKtryLock, a recursive mutex the thread already owns.        *)
TakeAgain(t, m) ==
    /\ owner[m] = t
    /\ recursiveDepth[m] >= 0
    /\ recursiveDepth[m] < MaxDepth
    /\ recursiveDepth' = [recursiveDepth EXCEPT ![m] = @ + 1]
    /\ held' = [held EXCEPT ![t][m] = @ + 1]
    /\ UNCHANGED <<nesting, status, owner, waiting, heapKey, threadVars, asked>>

(* PKlock, a non recursive mutex the thread already owns:                  *)
(* errorHandler(MUTEX_DEADLOCK) reboots the board.                         *)
LockOwned(t, m) ==
    /\ owner[m] = t
    /\ recursiveDepth[m] < 0
    /\ status' = "reboot"
    /\ UNCHANGED <<nesting, mutexVars, threadVars, held, asked>>

(* The threads whose priority the inheritance walk of PKlock sets: the     *)
(* owner of m, the owner of the mutex that one waits for, and so on.  It   *)
(* is the smallest set with the first one that is closed under the step.   *)
Walk(m) ==
    {t \in Thread :
        \A S \in SUBSET Thread :
            /\ owner[m] \in S
            /\ \A u \in S : mutexWaiting[u] # NoMutex => owner[mutexWaiting[u]] \in S
            => t \in S}

(* The mutexes whose heap the walk rebuilds with make_heap.                *)
Rebuilt(m) == {mutexWaiting[u] : u \in Walk(m)} \ {NoMutex}

(* PKlock, the mutex is owned by another thread: join the heap, lend the   *)
(* priority along the chain of owners, and start waiting.  If the chain    *)
(* never ends the walk loops forever with the kernel paused.               *)
LockContended(t, m) ==
    LET walked == IF prio[t] > prio[owner[m]] THEN Walk(m) ELSE {}
    IN
    /\ owner[m] \notin {NoThread, t}
    /\ waiting' = [waiting EXCEPT ![m] = @ \union {t}]
    /\ mutexWaiting' = [mutexWaiting EXCEPT ![t] = m]
    /\ prio' = [u \in Thread |-> IF u \in walked THEN prio[t] ELSE prio[u]]
    /\ heapKey' = [u \in Thread |->
            IF u = t \/ (walked # {} /\ mutexWaiting[u] \in Rebuilt(m))
            THEN prio'[u] ELSE heapKey[u]]
    /\ status' = IF walked # {} /\ \A u \in walked : mutexWaiting'[u] # NoMutex
                 THEN "hung" ELSE status
    /\ inLock' = [inLock EXCEPT ![t] = m]
    /\ waitFlag' = [waitFlag EXCEPT ![t] = TRUE]
    /\ UNCHANGED <<nesting, owner, recursiveDepth, savedPriority, mutexLocked, held,
                   asked>>

Lock(t, m) ==
    /\ Running(t)
    /\ MayLock(t, m)
    /\ TakeFree(t, m) \/ TakeAgain(t, m) \/ LockOwned(t, m) \/ LockContended(t, m)

(* A failed tryLock changes nothing.                                       *)
TryLock(t, m) ==
    /\ Running(t)
    /\ MayLock(t, m)
    /\ TakeFree(t, m) \/ TakeAgain(t, m)

(* The test of the while loop of PKlock.                                   *)
Granted(t) == owner[inLock[t]] = t

(* One turn of the while(owner!=p) loop, entered whenever the thread runs. *)
WaitLoop(t) ==
    /\ status = "up"
    /\ inLock[t] # NoMutex
    /\ ~waitFlag[t]
    /\ IF Granted(t)
       THEN /\ inLock' = [inLock EXCEPT ![t] = NoMutex]
            /\ held' = [held EXCEPT ![t][inLock[t]] = 1]
            /\ UNCHANGED waitFlag
       ELSE /\ waitFlag' = [waitFlag EXCEPT ![t] = TRUE]
            /\ UNCHANGED <<inLock, held>>
    /\ UNCHANGED <<nesting, status, mutexVars, prio, savedPriority, mutexLocked, mutexWaiting,
                   asked>>

(* Some other thread calls wakeup() on a thread that waits for a mutex.    *)
SpuriousWakeup(t) ==
    /\ status = "up"
    /\ inLock[t] # NoMutex
    /\ waitFlag[t]
    /\ waitFlag' = [waitFlag EXCEPT ![t] = FALSE]
    /\ UNCHANGED <<nesting, status, mutexVars, prio, savedPriority, mutexLocked, mutexWaiting,
                   inLock, held, asked>>

-----------------------------------------------------------------------------
(* PKunlock of a mutex the thread does not own reboots the board.          *)
UnlockNotOwner(t, m) ==
    /\ owner[m] # t
    /\ status' = "reboot"
    /\ UNCHANGED <<nesting, mutexVars, threadVars, held, asked>>

UnlockAgain(t, m) ==
    /\ owner[m] = t
    /\ recursiveDepth[m] > 0
    /\ recursiveDepth' = [recursiveDepth EXCEPT ![m] = @ - 1]
    /\ held' = [held EXCEPT ![t][m] = @ - 1]
    /\ UNCHANGED <<nesting, status, owner, waiting, heapKey, threadVars, asked>>

(* The priority left to t once it has given m up.                          *)
PriorityAfter(t, m) ==
    IF mutexLocked[t] = {m} THEN savedPriority[t]
    ELSE Inherited(savedPriority[t], mutexLocked[t] \ {m})

ReleaseFree(t, m) ==
    /\ waiting[m] = {}
    /\ owner' = [owner EXCEPT ![m] = NoThread]
    /\ prio' = [prio EXCEPT ![t] = PriorityAfter(t, m)]
    /\ mutexLocked' = [mutexLocked EXCEPT ![t] = @ \ {m}]
    /\ UNCHANGED <<waiting, savedPriority, mutexWaiting, waitFlag>>

Woken(next) == [waitFlag EXCEPT ![next] = FALSE]
Unqueued(next) == [mutexWaiting EXCEPT ![next] = NoMutex]

(* The mutex passes directly to the thread at the front of the heap, which *)
(* inherits from those still waiting and is woken.                         *)
Handoff(t, m, next) ==
    LET rest == waiting[m] \ {next}
    IN
    /\ next \in Fronts(waiting[m])
    /\ owner' = [owner EXCEPT ![m] = next]
    /\ waiting' = [waiting EXCEPT ![m] = rest]
    /\ mutexWaiting' = Unqueued(next)
    /\ waitFlag' = Woken(next)
    /\ savedPriority' = [savedPriority EXCEPT
            ![next] = IF mutexLocked[next] = {} THEN prio[next] ELSE @]
    /\ mutexLocked' = [mutexLocked EXCEPT ![t] = @ \ {m}, ![next] = @ \union {m}]
    /\ prio' = [prio EXCEPT
            ![t] = PriorityAfter(t, m),
            ![next] = Max({@} \union FrontPriorities(rest))]

UnlockLast(t, m) ==
    /\ owner[m] = t
    /\ recursiveDepth[m] <= 0
    /\ ReleaseFree(t, m) \/ \E next \in Thread : Handoff(t, m, next)
    /\ held' = [held EXCEPT ![t][m] = 0]
    /\ UNCHANGED <<nesting, status, recursiveDepth, heapKey, inLock, asked>>

Unlock(t, m) ==
    /\ Running(t)
    /\ MayUnlock(t, m)
    /\ UnlockNotOwner(t, m) \/ UnlockAgain(t, m) \/ UnlockLast(t, m)

-----------------------------------------------------------------------------
(* Thread::setPriority, which a thread calls for itself.                   *)
SetPriority(t, pr) ==
    /\ Running(t)
    /\ IF mutexLocked[t] = {}
       THEN /\ prio' = [prio EXCEPT ![t] = pr]
            /\ UNCHANGED savedPriority
       ELSE IF savedPriority[t] = pr
       THEN UNCHANGED <<prio, savedPriority>>
       ELSE /\ savedPriority' = [savedPriority EXCEPT ![t] = pr]
            /\ prio' = [prio EXCEPT ![t] = Inherited(pr, mutexLocked[t])]
    /\ asked' = [asked EXCEPT ![t] = pr]
    /\ UNCHANGED <<nesting, status, mutexVars, mutexLocked, mutexWaiting, inLock, waitFlag, held>>

Next ==
    \E t \in Thread :
        \/ \E m \in Mutex : Lock(t, m) \/ TryLock(t, m) \/ Unlock(t, m)
        \/ \E pr \in Priority : SetPriority(t, pr)
        \/ WaitLoop(t)
        \/ SpuriousWakeup(t)

Spec == Init /\ [][Next]_vars

(* A ready thread runs in the end, provided the threads above it block, as *)
(* a strict priority scheduler requires of them; and no client stays       *)
(* inside a critical section forever.                                      *)
Fairness ==
    \A t \in Thread :
        /\ WF_vars(WaitLoop(t))
        /\ \A m \in Mutex :
            /\ SF_vars(Running(t) /\ UnlockAgain(t, m))
            /\ SF_vars(Running(t) /\ UnlockLast(t, m))

FairSpec == Spec /\ Fairness

-----------------------------------------------------------------------------
TypeOK ==
    /\ nesting \in Nestings
    /\ status \in {"up", "hung", "reboot"}
    /\ owner \in [Mutex -> Thread \union {NoThread}]
    /\ recursiveDepth \in [Mutex -> Nat \union {-1}]
    /\ waiting \in [Mutex -> SUBSET Thread]
    /\ heapKey \in [Thread -> Priority]
    /\ prio \in [Thread -> Priority]
    /\ savedPriority \in [Thread -> Priority]
    /\ mutexLocked \in [Thread -> SUBSET Mutex]
    /\ mutexWaiting \in [Thread -> Mutex \union {NoMutex}]
    /\ inLock \in [Thread -> Mutex \union {NoMutex}]
    /\ waitFlag \in [Thread -> BOOLEAN]
    /\ held \in [Thread -> [Mutex -> Nat]]
    /\ asked \in [Thread -> Priority]

(* The mutexes on a thread's mutexLocked list are exactly those it owns,   *)
(* and only an owned mutex has waiters or a recursion count (the list walk *)
(* of PKunlock cannot reach errorHandler(UNEXPECTED)).                     *)
OwnerListAgree ==
    /\ \A t \in Thread, m \in Mutex : m \in mutexLocked[t] <=> owner[m] = t
    /\ \A m \in Mutex :
        owner[m] = NoThread => waiting[m] = {} /\ recursiveDepth[m] <= 0

(* A thread inside PKlock's waiting loop is either queued on the mutex, or *)
(* has been handed it and is awake: a handoff is never lost, whatever      *)
(* other wakeups the thread gets.  A thread outside the loop is queued     *)
(* nowhere, so that PKlock cannot reach errorHandler(UNEXPECTED).          *)
WaitersAccounted ==
    \A t \in Thread :
        /\ \A m \in Mutex : t \in waiting[m] <=> mutexWaiting[t] = m
        /\ IF inLock[t] = NoMutex
           THEN mutexWaiting[t] = NoMutex /\ ~waitFlag[t]
           ELSE \/ mutexWaiting[t] = inLock[t] /\ owner[inLock[t]] # t
                \/ mutexWaiting[t] = NoMutex /\ owner[inLock[t]] = t /\ ~waitFlag[t]

(* Inheritance is temporary: a thread that holds no mutex runs at the      *)
(* priority it last asked for, and while it holds some, that priority is   *)
(* what PKunlock will restore.                                             *)
PriorityRestored ==
    \A t \in Thread :
        asked[t] = IF mutexLocked[t] = {} THEN prio[t] ELSE savedPriority[t]

(* The heap of each mutex is ordered by the present priorities of its      *)
(* waiters, although PKlock changes priorities of threads that are queued. *)
HeapFresh == \A m \in Mutex : \A t \in waiting[m] : heapKey[t] = prio[t]

(* sync.h:146: a thread runs at the highest priority among its own and     *)
(* those of the threads that wait for a mutex it owns.                     *)
PriorityInheritance ==
    status = "up" =>
        \A t \in Thread :
            prio[t] = Max({asked[t]} \union
                {prio[u] : u \in UNION {waiting[m] : m \in mutexLocked[t]}})

(* It does as long as no thread waits for a mutex while it holds another.  *)
InheritsHighest == nesting = "single" => PriorityInheritance

(* Clients that nest mutexes in one order neither hang nor reboot the      *)
(* board, and there is always a thread that can run.                       *)
NeverStuck ==
    nesting # "any" => status = "up" /\ \E t \in Thread : ~waitFlag[t]

(* A mutex released with threads waiting goes to one of those of highest   *)
(* priority.                                                               *)
HandoffToHighest ==
    [][\A m \in Mutex :
        owner[m] # NoThread /\ owner'[m] # owner[m] /\ waiting[m] # {}
        => \A u \in waiting[m] : owner'[m] \in waiting[m] /\ prio[u] <= prio[owner'[m]]]_vars

(* What a mutex promises, whatever its implementation.                     *)
Abstract == INSTANCE AbstractMutex
MutualExclusion == Abstract!AbstractSpec

(* A contended mutex is handed to one of its waiters, and a thread that    *)
(* has been handed a mutex gets out of PKlock with it.                     *)
ContendedMutexMoves ==
    \A m \in Mutex :
        /\ waiting[m] # {} ~> \E t \in Thread : owner[m] = t /\ inLock[t] = m
        /\ \A t \in Thread : owner[m] = t /\ inLock[t] = m ~> held[t][m] > 0

=============================================================================
