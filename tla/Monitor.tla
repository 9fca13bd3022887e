-------------------------------- MODULE Monitor --------------------------------
(***************************************************************************)
(* FastMutex, which is pthread_mutex_t, and the condition variables that   *)
(* threads wait on with it: ConditionVariable and pthread_cond_t           *)
(* (kernel/pthread.cpp, pthread_private.h, sync.cpp).                      *)
(*                                                                         *)
(* Every body runs with interrupts disabled up to the yield in it, so it   *)
(* is one action, and what follows the yield is another (LockLoop,         *)
(* CondReturns).  One condition variable is modelled, used with any one of *)
(* the mutexes at a time, as its documentation asks.                       *)
(***************************************************************************)
EXTENDS Integers, Sequences, SequencesExt

CONSTANTS
    Thread, NoThread,
    Mutex, NoMutex,
    Recursive,      \* the mutexes initialised as PTHREAD_MUTEX_RECURSIVE
    MaxDepth        \* bound on the recursion depth the clients reach

ASSUME NullAssumption == NoThread \notin Thread /\ NoMutex \notin Mutex
ASSUME RecursiveAssumption == Recursive \subseteq Mutex
ASSUME DepthAssumption == MaxDepth \in Nat

VARIABLES
    status,     \* "up", or "reboot" after errorHandler(MUTEX_DEADLOCK)
    owner,      \* pthread_mutex_t::owner
    recursive,  \* pthread_mutex_t::recursive, -1 when not recursive
    first,      \* the list of a mutex, from first to last
    cond,       \* the list of the condition variable, from first to last
    flags,      \* Thread::flags, of which WAIT and WAIT_COND
    at,         \* "code", or past the yield of "lock" or "wait"
    using,      \* the mutex of the lock or wait the thread is in
    held        \* history: the returns of lock and wait to the thread, for
                \* each mutex, less its calls of unlock and wait

vars == <<status, owner, recursive, first, cond, flags, at, using, held>>

Init ==
    /\ status = "up"
    /\ owner = [m \in Mutex |-> NoThread]
    /\ recursive = [m \in Mutex |-> IF m \in Recursive THEN 0 ELSE -1]
    /\ first = [m \in Mutex |-> <<>>]
    /\ cond = <<>>
    /\ flags = [t \in Thread |-> {}]
    /\ at = [t \in Thread |-> "code"]
    /\ using = [t \in Thread |-> NoMutex]
    /\ held = [t \in Thread |-> [m \in Mutex |-> 0]]

(* The thread is in its own code, and the scheduler may run it.            *)
InCode(t) == status = "up" /\ at[t] = "code" /\ flags[t] = {}

(* The critical sections as the clients see them: a thread is inside of    *)
(* one from the return of lock, or of wait, to unlock and wait, whoever    *)
(* the code says is the owner.  No body below reads this.                  *)
Returned(t, m) == held' = [held EXCEPT ![t][m] = @ + 1]
Leaves(t, m) == held' = [held EXCEPT ![t][m] = @ - 1]

(* Faulty variants of the definitions below, with the mistake each makes.  *)
(* They are not part of the model: they show that a property can fail.     *)
EnqueuedFirst(list, t) == <<t>> \o list               \* last in, first out
SignalledKept(list) == list                           \* first not advanced
GrantedOnWakeup(t) == TRUE                            \* an if, not a while

-----------------------------------------------------------------------------
(* IRQdoMutexLock.  Each outcome says what it does to the mutex and the    *)
(* flags; the callers say where the thread goes.                           *)
Enqueued(list, t) == Append(list, t)

TakeFree(t, m) ==
    /\ owner[m] = NoThread
    /\ owner' = [owner EXCEPT ![m] = t]
    /\ Returned(t, m)
    /\ UNCHANGED <<status, recursive, first, flags>>

TakeAgain(t, m) ==
    /\ owner[m] = t
    /\ recursive[m] >= 0
    /\ recursive' = [recursive EXCEPT ![m] = @ + 1]
    /\ Returned(t, m)
    /\ UNCHANGED <<status, owner, first, flags>>

(* A mutex that is not recursive is locked twice: the board reboots.       *)
LockOwned(t, m) ==
    /\ owner[m] = t
    /\ recursive[m] < 0
    /\ status' = "reboot"
    /\ UNCHANGED <<owner, recursive, first, flags, held>>

LockContended(t, m) ==
    /\ owner[m] \notin {NoThread, t}
    /\ first' = [first EXCEPT ![m] = Enqueued(@, t)]
    /\ flags' = [flags EXCEPT ![t] = @ \union {"WAIT"}]
    /\ UNCHANGED <<status, owner, recursive, held>>

(* The thread goes on in its code, or to the waiting loop of the lock.     *)
Goes(t, place, m) ==
    /\ at' = [at EXCEPT ![t] = place]
    /\ using' = [using EXCEPT ![t] = m]

IRQdoMutexLock(t, m) ==
    \/ (TakeFree(t, m) \/ TakeAgain(t, m) \/ LockOwned(t, m)) /\ Goes(t, "code", NoMutex)
    \/ LockContended(t, m) /\ Goes(t, "lock", m)

(* Clients hold one mutex at a time, and bound its recursion.              *)
MayLock(t, m) ==
    /\ \A n \in Mutex : held[t][n] > 0 => n = m
    /\ held[t][m] <= MaxDepth

Lock(t, m) ==
    /\ InCode(t)
    /\ MayLock(t, m)
    /\ IRQdoMutexLock(t, m)
    /\ UNCHANGED cond

(* Every other outcome is EBUSY and changes nothing.                       *)
TryLock(t, m) ==
    /\ InCode(t)
    /\ MayLock(t, m)
    /\ TakeFree(t, m) \/ TakeAgain(t, m)
    /\ UNCHANGED <<cond, at, using>>

(* The test of the while loop.                                             *)
Granted(t) == owner[using[t]] = t

(* One turn of while(mutex->owner!=p), when the scheduler runs the thread. *)
LockLoop(t) ==
    /\ status = "up"
    /\ at[t] = "lock"
    /\ flags[t] = {}
    /\ IF Granted(t)
       THEN Goes(t, "code", NoMutex) /\ Returned(t, using[t]) /\ UNCHANGED flags
       ELSE flags' = [flags EXCEPT ![t] = {"WAIT"}] /\ UNCHANGED <<at, using, held>>
    /\ UNCHANGED <<status, owner, recursive, first, cond>>

-----------------------------------------------------------------------------
(* IRQdoMutexUnlock, which does not check who calls it; clients unlock     *)
(* only what they hold.  The values it gives owner, recursive, first; Awake *)
(* is what it leaves of the flags.                                         *)
Awake(m) ==
    IF recursive[m] > 0 \/ first[m] = <<>> THEN flags
    ELSE [flags EXCEPT ![Head(first[m])] = @ \ {"WAIT"}]

IRQdoMutexUnlock(m) ==
    IF recursive[m] > 0
    THEN /\ recursive' = [recursive EXCEPT ![m] = @ - 1]
         /\ UNCHANGED <<owner, first>>
    ELSE /\ IF first[m] = <<>>
            THEN /\ owner' = [owner EXCEPT ![m] = NoThread]
                 /\ UNCHANGED first
            ELSE /\ owner' = [owner EXCEPT ![m] = Head(first[m])]
                 /\ first' = [first EXCEPT ![m] = Tail(@)]
         /\ UNCHANGED recursive

Unlock(t, m) ==
    /\ InCode(t)
    /\ held[t][m] > 0
    /\ IRQdoMutexUnlock(m)
    /\ Leaves(t, m)
    /\ flags' = Awake(m)
    /\ UNCHANGED <<status, cond, at, using>>

-----------------------------------------------------------------------------
(* wait, up to its yield.  The mutex is unlocked once: a thread that has   *)
(* locked it several times sleeps with it locked.                          *)
MayWait(t, m) ==
    /\ held[t][m] > 0
    /\ \A u \in Thread : at[u] = "wait" => using[u] = m

CondWait(t, m) ==
    /\ InCode(t)
    /\ MayWait(t, m)
    /\ cond' = Append(cond, t)
    /\ IRQdoMutexUnlock(m)
    /\ flags' = [Awake(m) EXCEPT ![t] = @ \union {"WAIT_COND"}]
    /\ Goes(t, "wait", m)
    /\ Leaves(t, m)
    /\ UNCHANGED status

(* The yield of wait returns: lock the mutex again.                        *)
CondReturns(t) ==
    /\ status = "up"
    /\ at[t] = "wait"
    /\ flags[t] = {}
    /\ IRQdoMutexLock(t, using[t])
    /\ UNCHANGED cond

(* What signal leaves of the list.                                         *)
Signalled(list) == Tail(list)

Signal(c) ==
    /\ InCode(c)
    /\ cond # <<>>
    /\ flags' = [flags EXCEPT ![Head(cond)] = @ \ {"WAIT_COND"}]
    /\ cond' = Signalled(cond)
    /\ UNCHANGED <<status, owner, recursive, first, at, using, held>>

Broadcast(c) ==
    /\ InCode(c)
    /\ cond # <<>>
    /\ flags' = [t \in Thread |->
            IF Contains(cond, t) THEN flags[t] \ {"WAIT_COND"} ELSE flags[t]]
    /\ cond' = <<>>
    /\ UNCHANGED <<status, owner, recursive, first, at, using, held>>

(* wakeup, called on a thread that waits; it clears the WAIT flag only.    *)
SpuriousWakeup(t) ==
    /\ status = "up"
    /\ "WAIT" \in flags[t]
    /\ flags' = [flags EXCEPT ![t] = @ \ {"WAIT"}]
    /\ UNCHANGED <<status, owner, recursive, first, cond, at, using, held>>

Next ==
    \E t \in Thread :
        \/ \E m \in Mutex : Lock(t, m) \/ TryLock(t, m) \/ Unlock(t, m) \/ CondWait(t, m)
        \/ LockLoop(t) \/ CondReturns(t)
        \/ Signal(t) \/ Broadcast(t) \/ SpuriousWakeup(t)

Spec == Init /\ [][Next]_vars

(* A ready thread runs in the end (see PriorityMutex), and no client stays *)
(* inside of a critical section for ever.  Nobody has to signal.           *)
Fairness ==
    \A t \in Thread :
        /\ WF_vars(LockLoop(t))
        /\ WF_vars(CondReturns(t))
        /\ \A m \in Mutex :
            /\ SF_vars(Unlock(t, m) /\ held[t][m] > 1)
            /\ SF_vars(Unlock(t, m) /\ held[t][m] = 1)

FairSpec == Spec /\ Fairness

-----------------------------------------------------------------------------
TypeOK ==
    /\ status \in {"up", "reboot"}
    /\ owner \in [Mutex -> Thread \union {NoThread}]
    /\ recursive \in [Mutex -> Nat \union {-1}]
    /\ first \in [Mutex -> Seq(Thread)]
    /\ cond \in Seq(Thread)
    /\ flags \in [Thread -> SUBSET {"WAIT", "WAIT_COND"}]
    /\ at \in [Thread -> {"code", "lock", "wait"}]
    /\ using \in [Thread -> Mutex \union {NoMutex}]
    /\ held \in [Thread -> [Mutex -> Nat]]

(* pthread_private.h:53-83, 105-121: a thread that has to wait for a mutex *)
(* is in its list, once, and in no other; nobody waits for a mutex that is *)
(* free; and a thread that was given one is in no list and awake, whatever *)
(* stray wakeups came before.                                              *)
LockersQueued ==
    \A m \in Mutex :
        /\ IsInjective(first[m])
        /\ \A t \in Thread :
            Contains(first[m], t) <=> at[t] = "lock" /\ using[t] = m /\ owner[m] # t
        /\ owner[m] = NoThread => first[m] = <<>>
        /\ \A t \in Thread : owner[m] = t /\ at[t] = "lock" => flags[t] = {}

(* pthread.cpp:246-258: a thread sleeps in wait exactly while it is in the *)
(* list of the condition variable, where the next signal or broadcast will *)
(* find it: no stray wakeup and no unlock ends its wait.                   *)
WaitersListed ==
    /\ IsInjective(cond)
    /\ \A t \in Thread :
        /\ Contains(cond, t) <=> "WAIT_COND" \in flags[t]
        /\ Contains(cond, t) => at[t] = "wait"

(* Nobody sleeps where no unlock, signal or broadcast looks.               *)
SleepersListed == LockersQueued /\ WaitersListed

AM == INSTANCE AbstractMutex

(* pthread_private.h:53-121, pthread.cpp:246-258: FastMutex excludes the   *)
(* clients from each other's critical sections, also when wait gives it up *)
(* and takes it again: a thread comes back from lock and wait, in spite of *)
(* stray wakeups, only when no other has come back and not left.           *)
MutualExclusion == AM!AbstractSpec

(* A thread that locks, or that has been signalled, gets the mutex in the  *)
(* end, whatever the others do, because the lists are first in first out;  *)
(* provided that nobody sleeps in wait with a mutex locked, which          *)
(* "Unlock the mutex and wait" (sync.h:394) does not say can happen.       *)
NobodySleepsInside == [](\A m \in Mutex : ~Contains(cond, owner[m]))

LockReturns ==
    NobodySleepsInside =>
    \A t \in Thread :
        (at[t] = "lock" \/ (at[t] = "wait" /\ "WAIT_COND" \notin flags[t]))
        ~> (at[t] = "code" \/ status = "reboot")

=============================================================================
