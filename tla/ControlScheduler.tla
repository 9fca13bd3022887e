--------------------------- MODULE ControlScheduler ---------------------------
(***************************************************************************)
(* The scheduler that may be chosen instead of the priority scheduler and  *)
(* gives the ready threads, one after the other, a burst each              *)
(* (SCHED_TYPE_CONTROL_BASED, kernel/scheduler/control), with the          *)
(* operations of kernel.cpp that call it.                                  *)
(*                                                                         *)
(* A timer of its own, not the tick, ends a burst.  Which thread is next   *)
(* is found from curInRound, a pointer into the list from which dead       *)
(* threads are freed.  What the regulators calculate, the lengths of the   *)
(* bursts, is left out; what they are told, the share of every thread and  *)
(* the length of a round, is not.                                          *)
(***************************************************************************)
EXTENDS ThreadLists

CONSTANTS
    Thread, Main,   \* the threads that may exist, and the first
    Idle,
    None,           \* the null pointer
    MaxPriority     \* PRIORITY_MAX - 1

SchedulerAssumption == Main \in Thread /\ Idle \notin Thread /\ MaxPriority \in Nat

Requested == -1 .. MaxPriority + 1

VARIABLES
    threadList,
    SP_Tr,          \* set point of the round time, in units of bNominal
    alfa,           \* the share of every thread, before it is divided by the sum
    curInRound, cur,
    priority,
    flags,          \* Thread::flags
    kernel_running, \* is the kernel paused, by the running thread?
    tick_skew,
    exist_deleted,
    at              \* per thread, "code", or just before a "yield" or before
                    \* it calls PKremoveDeadThreads, "reap"

listVars == <<threadList, SP_Tr>>
vars == <<listVars, alfa, curInRound, cur, priority, flags,
          kernel_running, tick_skew, exist_deleted, at>>

Listed(t) == Contains(threadList, t)
Ready(t) == flags[t] \subseteq {"DETACHED"}
Deleted(t) == {"DELETED", "DETACHED"} \subseteq flags[t]

-----------------------------------------------------------------------------
(* IRQrecalculateAlfa, after what the rest of the action has changed: only *)
(* ready threads have a share.  When there are none it changes nothing.    *)
Share(t) == IF Ready(t) THEN priority[t] + 1 ELSE 0

IRQrecalculateAlfa ==
    alfa' = IF \E t \in ToSet(threadList') : Share(t)' > 0
            THEN [t \in Thread |-> IF Contains(threadList', t) THEN Share(t)' ELSE alfa[t]]
            ELSE alfa

(* IRQfindNextThread: the next ready thread of the round, else the first   *)
(* of a new round, else the idle thread.                                   *)
PlaceLost == 0                                  \* faulty: always a new round

Place ==
    IF curInRound = None THEN 0
    ELSE CHOOSE i \in DOMAIN threadList : threadList[i] = curInRound

RunIdleInRound == cur' = Idle /\ UNCHANGED curInRound   \* faulty: place kept
RunIdle == cur' = Idle /\ curInRound' = None

IRQfindNextThread ==
    LET ready == {i \in DOMAIN threadList : flags'[threadList[i]] \subseteq {"DETACHED"}}
        behind == {i \in ready : i > Place}
    IN IF kernel_running THEN UNCHANGED <<cur, curInRound>>
       ELSE \/ ready = {} /\ RunIdle
            \/ /\ ready # {}
               /\ curInRound' = threadList[Min(IF behind # {} THEN behind ELSE ready)]
               /\ cur' = curInRound'

(* PKremoveDeadThreads frees all that are dead at the head of the list;    *)
(* behind it, when it has freed one it passes over the thread that follows. *)
HeadGone(list) ==
    SubSeq(list, CHOOSE i \in DOMAIN list :
                    ~Deleted(list[i]) /\ \A j \in 1 .. i - 1 : Deleted(list[j]),
           Len(list))

(* A run of dead threads loses its first, its third, ...                   *)
RunBefore(list, i) ==
    i - (CHOOSE j \in 1 .. i : ~Deleted(list[j]) /\ \A k \in j + 1 .. i : Deleted(list[k]))

Survivors(list) == Keeping(list, {i \in DOMAIN list : RunBefore(list, i) % 2 = 0})

PKremoveDeadThreads ==
    /\ threadList' = Survivors(HeadGone(threadList))
    /\ SP_Tr' = SP_Tr - (Len(threadList) - Len(threadList'))

(* The kernel has started and the idle thread has yielded.                 *)
Init ==
    /\ threadList = <<Main>>
    /\ SP_Tr = 1
    /\ priority \in [Thread -> {0}]
    /\ alfa = [t \in Thread |-> IF t = Main THEN 1 ELSE 0]
    /\ curInRound = Main
    /\ cur = Main
    /\ flags = [t \in Thread |-> {"DETACHED"}]
    /\ kernel_running = FALSE
    /\ tick_skew = FALSE
    /\ exist_deleted = FALSE
    /\ at = [t \in Thread \union {Idle} |-> "code"]

-----------------------------------------------------------------------------
(* What the running thread does.                                           *)
validate(p) == p \in 0 .. MaxPriority

InCode(c) == cur = c /\ at[c] = "code" /\ c \in Thread /\ Ready(c)

(* PKaddThread puts the new thread at the head of the list.                *)
create(c, t, p, options) ==
    /\ InCode(c)
    /\ validate(p)
    /\ ~Listed(t)
    /\ threadList' = <<t>> \o threadList
    /\ SP_Tr' = SP_Tr + 1
    /\ priority' = [priority EXCEPT ![t] = p]
    /\ flags' = [flags EXCEPT ![t] = options]
    /\ at' = [at EXCEPT ![t] = "code"]
    /\ UNCHANGED <<curInRound, cur, kernel_running, tick_skew, exist_deleted>>
    /\ IRQrecalculateAlfa

setPriority(c, p) ==
    /\ InCode(c)
    /\ p # priority[c]
    /\ priority' = [priority EXCEPT ![c] = p]
    /\ UNCHANGED <<listVars, curInRound, cur, flags, kernel_running, tick_skew,
                   exist_deleted, at>>
    /\ IRQrecalculateAlfa

(* Every change of the flags calls IRQwaitStatusHook.                      *)
SetFlagsUnhooked(t, set) ==                     \* faulty: the hook forgotten
    /\ flags' = [flags EXCEPT ![t] = set]
    /\ UNCHANGED <<listVars, alfa, priority, kernel_running>>

SetFlags(t, set) ==
    /\ flags' = [flags EXCEPT ![t] = set]
    /\ UNCHANGED <<listVars, priority, kernel_running>>
    /\ IRQrecalculateAlfa

Stop(c, flag) ==
    /\ InCode(c)
    /\ ~kernel_running
    /\ SetFlags(c, flags[c] \union {flag})
    /\ at' = [at EXCEPT ![c] = "yield"]
    /\ UNCHANGED <<curInRound, cur, tick_skew>>

wait(c) == Stop(c, "WAIT") /\ UNCHANGED exist_deleted
sleep(c) == Stop(c, "SLEEP") /\ UNCHANGED exist_deleted

(* The end of threadLauncher; the main thread does not return.             *)
threadReturns(c) ==
    /\ c # Main
    /\ Stop(c, "DELETED")
    /\ exist_deleted' = (exist_deleted \/ "DETACHED" \in flags[c])

wakeup(c, t) ==
    /\ InCode(c)
    /\ "WAIT" \in flags[t]
    /\ SetFlags(t, flags[t] \ {"WAIT"})
    /\ UNCHANGED <<curInRound, cur, tick_skew, exist_deleted, at>>

(* join of a thread that has terminated; see KernelThreads for the wait.   *)
join(c, t) ==
    /\ InCode(c)
    /\ ~kernel_running
    /\ Listed(t) /\ "DELETED" \in flags[t] /\ "DETACHED" \notin flags[t]
    /\ flags' = [flags EXCEPT ![t] = @ \union {"DETACHED"}]
    /\ at' = [at EXCEPT ![c] = "reap"]
    /\ UNCHANGED <<listVars, alfa, curInRound, cur, priority, kernel_running,
                   tick_skew, exist_deleted>>

pauseKernel(c) ==
    /\ InCode(c)
    /\ kernel_running' = TRUE
    /\ UNCHANGED <<listVars, alfa, curInRound, cur, priority, flags, tick_skew,
                   exist_deleted, at>>

restartKernel(c) ==
    /\ cur = c /\ at[c] = "code"
    /\ kernel_running
    /\ kernel_running' = FALSE
    /\ tick_skew' = FALSE
    /\ at' = [at EXCEPT ![c] = IF tick_skew THEN "yield" ELSE "code"]
    /\ UNCHANGED <<listVars, alfa, curInRound, cur, priority, flags, exist_deleted>>

yield(c) ==
    /\ cur = c /\ at[c] = "yield"
    /\ at' = [at EXCEPT ![c] = "code"]
    /\ UNCHANGED <<listVars, alfa, priority, flags, kernel_running, tick_skew,
                   exist_deleted>>
    /\ IRQfindNextThread

(* The idle thread frees what is dead, with the kernel paused, ...         *)
idleThread ==
    /\ cur = Idle /\ at[Idle] = "code"
    /\ exist_deleted
    /\ exist_deleted' = FALSE
    /\ kernel_running' = TRUE
    /\ at' = [at EXCEPT ![Idle] = "reap"]
    /\ UNCHANGED <<listVars, alfa, curInRound, cur, priority, flags, tick_skew>>

(* ... and so does a thread in join.                                       *)
reap(c) ==
    /\ cur = c /\ at[c] = "reap"
    /\ kernel_running' = TRUE
    /\ PKremoveDeadThreads
    /\ at' = [at EXCEPT ![c] = "code"]
    /\ UNCHANGED <<curInRound, cur, priority, flags, tick_skew, exist_deleted>>
    /\ IRQrecalculateAlfa

-----------------------------------------------------------------------------
(* Interrupts.  The auxiliary timer ends a burst.                          *)
AuxTimer ==
    /\ tick_skew' = (tick_skew \/ kernel_running)
    /\ UNCHANGED <<listVars, alfa, priority, flags, kernel_running, exist_deleted, at>>
    /\ IRQfindNextThread

(* A tick wakes the threads whose time has come, and runs one of them if   *)
(* the idle thread is running.                                             *)
Tick(woken) ==
    /\ \A t \in woken : "SLEEP" \in flags[t]
    /\ flags' = [t \in Thread |-> IF t \in woken THEN flags[t] \ {"SLEEP"} ELSE flags[t]]
    /\ tick_skew' = (tick_skew \/ (cur = Idle /\ kernel_running))
    /\ UNCHANGED <<listVars, priority, kernel_running, exist_deleted, at>>
    /\ IRQrecalculateAlfa
    /\ IF cur = Idle THEN IRQfindNextThread ELSE UNCHANGED <<cur, curInRound>>

(* A driver wakes a thread, and calls the scheduler if its priority is     *)
(* higher than that of the running thread; that of the idle thread is -1.  *)
Device(t) ==
    /\ "WAIT" \in flags[t]
    /\ SetFlags(t, flags[t] \ {"WAIT"})
    /\ UNCHANGED <<tick_skew, exist_deleted, at>>
    /\ IF cur = Idle \/ priority[t] > priority[cur]
       THEN IRQfindNextThread ELSE UNCHANGED <<cur, curInRound>>

Next ==
    \/ AuxTimer
    \/ \E woken \in SUBSET Thread \ {{}} : Tick(woken)
    \/ idleThread
    \/ \E c \in Thread \union {Idle} : restartKernel(c) \/ yield(c) \/ reap(c)
    \/ \E t \in Thread : Device(t)
    \/ \E c \in Thread :
        \/ \E t \in Thread, p \in Requested, options \in {{}, {"DETACHED"}} :
            create(c, t, p, options)
        \/ \E p \in 0 .. MaxPriority : setPriority(c, p)
        \/ wait(c) \/ sleep(c) \/ threadReturns(c) \/ pauseKernel(c)
        \/ \E t \in Thread : wakeup(c, t) \/ join(c, t)

Spec == Init /\ [][Next]_vars

(* The timer runs freely, and who pauses the kernel restarts it.           *)
Fairness ==
    /\ WF_vars(AuxTimer)
    /\ \A c \in Thread \union {Idle} :
        WF_vars(restartKernel(c)) /\ WF_vars(yield(c)) /\ WF_vars(reap(c))

FairSpec == Spec /\ Fairness

-----------------------------------------------------------------------------
(* control_scheduler.cpp:197 "the idle thread can *remove* dead threads    *)
(* from threadList, so it can invalidate iterators": the place in the      *)
(* round is never that of a thread that was freed, nor is the running      *)
(* thread, and the walk that frees them does not go beyond the last one,   *)
(* as it would by freeing it.                                              *)
PlaceInRound ==
    /\ IsInjective(threadList)
    /\ curInRound = IF cur = Idle THEN None ELSE cur
    /\ cur = Idle \/ Listed(cur)
    /\ threadList # << >> /\ ~Deleted(Last(threadList))

(* What the regulators are told is true whenever they may be run: the set  *)
(* point of the round is that of as many threads as there are, and the     *)
(* shares are those of the threads that are ready now, by their priority   *)
(* now.                                                                    *)
RegulatorsAgree ==
    /\ SP_Tr = Len(threadList)
    /\ (\E t \in ToSet(threadList) : Ready(t)) =>
            \A t \in ToSet(threadList) : alfa[t] = Share(t)

(* A thread that stays ready keeps getting its turn, whatever the others   *)
(* do and however many new ones come, ahead of it.                         *)
EveryRound ==
    \A t \in Thread : <>[](Listed(t) /\ Ready(t)) => []<>(cur = t)

=============================================================================
