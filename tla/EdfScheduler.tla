----------------------------- MODULE EdfScheduler -----------------------------
(***************************************************************************)
(* The scheduler that may be chosen instead of the priority scheduler and  *)
(* runs the thread whose deadline comes first (SCHED_TYPE_EDF,             *)
(* kernel/scheduler/edf/edf_scheduler.cpp), with the operations of         *)
(* kernel.cpp that can change who that is.                                 *)
(*                                                                         *)
(* Here the tick preempts only when it wakes a sleeping thread.  So every  *)
(* operation that makes another thread the first must see to it that it    *)
(* runs; the model is about which of them do.  Between the body of an      *)
(* operation, which runs with interrupts disabled or the kernel paused,    *)
(* and the yield that follows it, anything may happen.                     *)
(*                                                                         *)
(* Mutexes, condition variables, queues and joins are here only as far as  *)
(* the scheduler sees them: WAIT stands for each of the three flags with   *)
(* which a thread sleeps until another one wakes it (WAIT, COND_WAIT and   *)
(* JOIN_WAIT).  Who may wake whom is the matter of PriorityMutex, Monitor, *)
(* RingQueue and KernelThreads.                                            *)
(***************************************************************************)
EXTENDS ThreadLists

CONSTANTS
    Thread, Main,       \* the threads that may exist, and the first
    Idle,
    MaxDeadline         \* bound on the deadlines, in ticks

SchedulerAssumption == Main \in Thread /\ Idle \notin Thread /\ MaxDeadline \in Nat

(* The largest long long but one is the deadline of the idle thread, the   *)
(* largest that of threads that are never to run.                          *)
IdleDeadline == MaxDeadline + 1
validate(d) == d >= 0 /\ d # IdleDeadline
Requested == -1 .. MaxDeadline + 2
Deadline == {d \in Requested : d >= 0 /\ d # IdleDeadline}

VARIABLES
    list,           \* EDFScheduler::head, and the next of every thread
    deadline,
    flags,          \* Thread::flags; DELETED_JOIN of a thread that has ended,
                    \* DELETED once its memory may be freed
    cur,
    kernel_running, \* is the kernel paused, by the running thread?
    tick_skew,
    exist_deleted,
    at,             \* per thread, "code", "yield", just before a yield, or "reap",
                    \* between the halves of join
    overlooked      \* history: the threads with a closer deadline than the running
                    \* one that an operation with no yield behind it has made
                    \* ready, or passed over, since the scheduler last looked

vars == <<list, deadline, flags, cur, kernel_running, tick_skew, exist_deleted, at,
          overlooked>>

Ready(t) == flags[t] = {}
Listed(t) == Contains(list, t)
Deleted(t) == "DELETED" \in flags[t]

-----------------------------------------------------------------------------
(* add: before the first thread whose deadline is not closer, if any.      *)
Behind(l, x, d) ==
    CHOOSE i \in 1 .. Len(l) + 1 :
        (\A j \in 1 .. i - 1 : d[l[j]] < x) /\ (i <= Len(l) => d[l[i]] >= x)

Add(l, t, d) == InsertAt(l, Behind(l, d[t], d), t)
Unlink(l, t) == Keeping(l, {i \in DOMAIN l : l[i] # t})

(* The kernel has started: the first thread, whose deadline is             *)
(* MAIN_PRIORITY, runs.                                                    *)
Init ==
    /\ deadline = [t \in Thread \union {Idle} |-> IF t = Idle THEN IdleDeadline ELSE 1]
    /\ list = <<Main, Idle>>
    /\ flags = [t \in Thread \union {Idle} |-> {}]
    /\ cur = Main
    /\ kernel_running = FALSE
    /\ tick_skew = FALSE
    /\ exist_deleted = FALSE
    /\ at = [t \in Thread |-> "code"]
    /\ overlooked = {}

(* IRQfindNextThread: nothing while the kernel is paused.                  *)
First ==
    LET i == CHOOSE i \in DOMAIN list :
                flags'[list[i]] = {} /\ \A j \in 1 .. i - 1 : flags'[list[j]] # {}
    IN  list[i]

FindNext ==
    IF kernel_running THEN UNCHANGED <<cur, overlooked>>
    ELSE cur' = First /\ overlooked' = {}

-----------------------------------------------------------------------------
(* What the running thread does.                                           *)
InCode(c) == cur = c /\ Ready(c) /\ at[c] = "code"

create(c, t, d) ==
    /\ InCode(c)
    /\ validate(d)
    /\ ~Listed(t)
    /\ deadline' = [deadline EXCEPT ![t] = d]
    /\ list' = Add(list, t, deadline')
    /\ flags' = [flags EXCEPT ![t] = {}]
    /\ at' = [at EXCEPT ![c] = IF kernel_running THEN "code" ELSE "yield", ![t] = "code"]
    /\ overlooked' = overlooked \union IF kernel_running /\ d < deadline[c] THEN {t} ELSE {}
    /\ UNCHANGED <<cur, kernel_running, tick_skew, exist_deleted>>

PKsetPriority(t, d) ==
    /\ deadline' = [deadline EXCEPT ![t] = d]
    /\ list' = Add(Unlink(list, t), t, deadline')

(* setPriority pauses the kernel, and looks whether the kernel is running  *)
(* before it restarts it: so it does not yield.                            *)
setPriority(c, d) ==
    /\ InCode(c)
    /\ d # deadline[c]
    /\ PKsetPriority(c, d)
    /\ overlooked' = overlooked \union
            {t \in ToSet(list) \ {c} : Ready(t) /\ deadline[t] < d}
    /\ UNCHANGED <<flags, cur, kernel_running, tick_skew, exist_deleted, at>>

(* A turn of the loop in which Mutex::PKlock, with the kernel paused, hands *)
(* on the deadline of the thread that will wait, to the owner of the mutex, *)
(* the owner of the one that this owner waits for, and so on.               *)
inherit(c, o) ==
    /\ InCode(c)
    /\ kernel_running
    /\ o # c /\ Listed(o)
    /\ PKsetPriority(o, deadline[c])
    /\ UNCHANGED <<flags, cur, kernel_running, tick_skew, exist_deleted, at, overlooked>>

Block(c, flag) ==
    /\ InCode(c)
    /\ ~kernel_running
    /\ flags' = [flags EXCEPT ![c] = {flag}]
    /\ at' = [at EXCEPT ![c] = "yield"]
    /\ UNCHANGED <<list, deadline, cur, kernel_running, tick_skew, overlooked>>

(* The operators of EDFSchedulerPriority, reversed on purpose.             *)
HigherAsNumber(t, c) == deadline[t] > deadline[c]       \* faulty: not reversed
Higher(t, c) == deadline[t] < deadline[c]

wait(c) == Block(c, "WAIT") /\ UNCHANGED exist_deleted
sleep(c) == Block(c, "SLEEP") /\ UNCHANGED exist_deleted

Woken(S) == [t \in DOMAIN flags |-> IF t \in S THEN flags[t] \ {"WAIT"} ELSE flags[t]]
Waiting == {t \in Thread : "WAIT" \in flags[t]}

(* The end of threadLauncher: a joinable thread wakes the one that joins,  *)
(* if any, and a detached one leaves its memory to the idle thread.        *)
Ends(c, f, flag) ==
    /\ c # Main
    /\ InCode(c)
    /\ ~kernel_running
    /\ flags' = [f EXCEPT ![c] = {flag}]
    /\ at' = [at EXCEPT ![c] = "yield"]
    /\ UNCHANGED <<list, deadline, cur, kernel_running, tick_skew, overlooked>>

joinableReturns(c, joiners) ==
    Ends(c, Woken(joiners), "DELETED_JOIN") /\ UNCHANGED exist_deleted
threadReturns(c) == Ends(c, flags, "DELETED") /\ exist_deleted' = TRUE

(* The two halves of join, once the thread has ended: to take the result,  *)
(* and to free the memory.                                                 *)
joinTakes(c, t) ==
    /\ InCode(c)
    /\ ~kernel_running
    /\ "DELETED_JOIN" \in flags[t]
    /\ flags' = [flags EXCEPT ![t] = {"DELETED"}]
    /\ at' = [at EXCEPT ![c] = "reap"]
    /\ UNCHANGED <<list, deadline, cur, kernel_running, tick_skew, exist_deleted,
                   overlooked>>

PKremoveDeadThreads == list' = Keeping(list, {i \in DOMAIN list : ~Deleted(list[i])})

joinReaps(c) ==
    /\ cur = c /\ Ready(c)
    /\ at[c] = "reap"
    /\ PKremoveDeadThreads
    /\ at' = [at EXCEPT ![c] = "code"]
    /\ UNCHANGED <<deadline, flags, cur, kernel_running, tick_skew, exist_deleted,
                   overlooked>>

-----------------------------------------------------------------------------
(* What the running thread does to wake others.  Thread::wakeup always     *)
(* yields.                                                                 *)
wakeup(c, t) ==
    /\ InCode(c)
    /\ ~kernel_running
    /\ flags' = Woken({t})
    /\ at' = [at EXCEPT ![c] = "yield"]
    /\ UNCHANGED <<list, deadline, cur, kernel_running, tick_skew, exist_deleted,
                   overlooked>>

(* ConditionVariable's signal and broadcast, and those of pthread.cpp,     *)
(* yield if a thread they wake has the closer deadline.                    *)
signal(c, S) ==
    /\ InCode(c)
    /\ ~kernel_running
    /\ flags' = Woken(S)
    /\ at' = [at EXCEPT ![c] = IF \E t \in S : Higher(t, c) THEN "yield" ELSE "code"]
    /\ UNCHANGED <<list, deadline, cur, kernel_running, tick_skew, exist_deleted,
                   overlooked>>

(* Mutex::unlock, when t, which a stray wakeup may have waked already, is  *)
(* the first of those that wait.  It leaves c the deadline d, its own one  *)
(* or what it inherits with the mutexes it still has, and yields if that   *)
(* of t is closer.  If d is later than the one c had, then c had that one  *)
(* from those who wait for this mutex, and so at the latest from t.  The   *)
(* unlock of a mutex nobody waits for is to the scheduler a setPriority.   *)
unlock(c, t, d) ==
    /\ InCode(c)
    /\ ~kernel_running
    /\ t # c /\ Listed(t) /\ flags[t] \subseteq {"WAIT"}
    /\ d > deadline[c] => deadline[t] <= deadline[c]
    /\ IF d = deadline[c] THEN UNCHANGED <<list, deadline>> ELSE PKsetPriority(c, d)
    /\ flags' = Woken({t})
    /\ at' = [at EXCEPT ![c] = IF deadline[t] < d THEN "yield" ELSE "code"]
    /\ UNCHANGED <<cur, kernel_running, tick_skew, exist_deleted, overlooked>>

(* The others wake a thread and go on, whatever its deadline.              *)
WakesAndGoesOn(c, t) ==
    /\ InCode(c)
    /\ "WAIT" \in flags[t]
    /\ flags' = Woken({t})
    /\ overlooked' = overlooked \union IF Higher(t, c) THEN {t} ELSE {}
    /\ UNCHANGED <<list, deadline, cur, kernel_running, tick_skew, exist_deleted, at>>

(* pthread_mutex_unlock, and with it FastMutex::unlock, would yield, but   *)
(* the test of IRQdoMutexUnlock for a thread with a closer deadline is     *)
(* compiled for the other schedulers only (#ifndef SCHED_TYPE_EDF).        *)
fastUnlock(c, t) == WakesAndGoesOn(c, t)

(* get, put, reset and the waits of a Queue; one that has to wait then     *)
(* goes on as wait.  So do IRQput and IRQget without hppw, in a thread     *)
(* that disables interrupts.                                               *)
queueOperation(c, t) == WakesAndGoesOn(c, t)

(* detach wakes the thread that joins.  The memory of a thread that has    *)
(* ended it leaves to the idle thread.                                     *)
detach(c, t) == WakesAndGoesOn(c, t)
detachEnded(c, t) ==
    /\ InCode(c)
    /\ "DELETED_JOIN" \in flags[t]
    /\ flags' = [flags EXCEPT ![t] = {"DELETED"}]
    /\ exist_deleted' = TRUE
    /\ UNCHANGED <<list, deadline, cur, kernel_running, tick_skew, at, overlooked>>

PKwakeup(c, t) == WakesAndGoesOn(c, t)

-----------------------------------------------------------------------------
pauseKernel(c) ==
    /\ InCode(c)
    /\ kernel_running' = TRUE
    /\ UNCHANGED <<list, deadline, flags, cur, tick_skew, exist_deleted, at, overlooked>>

(* restartKernel yields when a tick wanted to preempt in the meantime.     *)
restartKernel(c) ==
    /\ InCode(c)
    /\ kernel_running
    /\ kernel_running' = FALSE
    /\ tick_skew' = FALSE
    /\ at' = [at EXCEPT ![c] = IF tick_skew THEN "yield" ELSE "code"]
    /\ UNCHANGED <<list, deadline, flags, cur, exist_deleted, overlooked>>

yield(c) ==
    /\ cur = c
    /\ at[c] = "yield"
    /\ at' = [at EXCEPT ![c] = "code"]
    /\ UNCHANGED <<list, deadline, flags, kernel_running, tick_skew, exist_deleted>>
    /\ FindNext

-----------------------------------------------------------------------------
(* Interrupts.  A tick wakes the threads whose time has come.              *)
Tick(woken) ==
    /\ \A t \in woken : "SLEEP" \in flags[t]
    /\ flags' = [t \in DOMAIN flags |-> IF t \in woken THEN {} ELSE flags[t]]
    /\ tick_skew' = (tick_skew \/ kernel_running)
    /\ UNCHANGED <<list, deadline, kernel_running, exist_deleted, at>>
    /\ FindNext

(* A driver wakes a thread, and calls the scheduler if its deadline is     *)
(* closer than that of the running one.                                    *)
Device(t) ==
    /\ "WAIT" \in flags[t]
    /\ flags' = Woken({t})
    /\ UNCHANGED <<list, deadline, kernel_running, tick_skew, exist_deleted, at>>
    /\ IF ~Higher(t, cur) THEN UNCHANGED <<cur, overlooked>>
       ELSE IF kernel_running THEN overlooked' = overlooked \union {t} /\ UNCHANGED cur
       ELSE FindNext

(* The idle thread goes round, with PKremoveDeadThreads when it is needed. *)
idleThread ==
    /\ cur = Idle
    /\ exist_deleted' = FALSE
    /\ IF exist_deleted THEN PKremoveDeadThreads ELSE UNCHANGED list
    /\ UNCHANGED <<deadline, flags, cur, kernel_running, tick_skew, at, overlooked>>

Next ==
    \/ idleThread
    \/ \E woken \in SUBSET Thread \ {{}} : Tick(woken)
    \/ \E t \in Thread : Device(t)
    \/ \E c \in Thread :
        \/ \E t \in Thread, d \in Requested : create(c, t, d)
        \/ \E d \in Deadline : setPriority(c, d)
        \/ \E o \in Thread : inherit(c, o)
        \/ wait(c) \/ sleep(c) \/ yield(c) \/ threadReturns(c) \/ joinReaps(c)
        \/ \E joiners \in {{}} \union {{t} : t \in Waiting} : joinableReturns(c, joiners)
        \/ \E S \in SUBSET Waiting \ {{}} : signal(c, S)
        \/ \E t \in Thread :
            \/ \E d \in Deadline : unlock(c, t, d)
            \/ wakeup(c, t) \/ fastUnlock(c, t) \/ queueOperation(c, t)
            \/ detach(c, t) \/ PKwakeup(c, t) \/ joinTakes(c, t) \/ detachEnded(c, t)
        \/ pauseKernel(c) \/ restartKernel(c)

Spec == Init /\ [][Next]_vars

-----------------------------------------------------------------------------
(* The list is ordered by deadline, whatever changes a deadline and at     *)
(* whatever place, has no thread twice, and has the running thread and the *)
(* idle thread, behind which the threads are that must not run.            *)
ListOrdered ==
    /\ \A i, j \in DOMAIN list : i < j => deadline[list[i]] <= deadline[list[j]]
    /\ IsInjective(list)
    /\ Listed(cur) /\ Listed(Idle)

FirstRuns ==
    ~kernel_running /\ (cur = Idle \/ at[cur] # "yield") =>
        \A t \in ToSet(list) \ overlooked : Ready(t) => deadline[cur] <= deadline[t]

(* tick_interrupt.h:64 "a preemption happens only if a thread with a       *)
(* closer deadline appears".  It does happen when one is created, woken by *)
(* wakeup, a Mutex, a condition variable, a tick or a driver, or comes     *)
(* first because a Mutex is let go: with the kernel running and no yield   *)
(* about to be made, no ready thread has a closer deadline than the one    *)
(* that runs, but for those in overlooked, until the scheduler next looks. *)
(* Those are the threads that come first by setPriority, FastMutex's       *)
(* unlock, a Queue, detach or PKwakeup, or while the kernel is paused, and *)
(* nothing is claimed of them.  It is what the order of the list is for.   *)
EarliestRuns == ListOrdered /\ FirstRuns

=============================================================================
