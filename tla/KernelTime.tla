------------------------------ MODULE KernelTime ------------------------------
(***************************************************************************)
(* The time of the Miosix kernel (kernel/kernel.cpp, unistd.cpp,           *)
(* scheduler/tick_interrupt.h): the tick, the list of sleeping threads,    *)
(* the nesting of pauseKernel and disableInterrupts, and getTick.          *)
(*                                                                         *)
(* The tick interrupt comes whenever interrupts are enabled.  Code that    *)
(* runs with interrupts enabled is cut into actions between which it may   *)
(* come: restartKernel after it has enabled them, and every load of getTick*)
(* of one half of the tick, which the processor reads in two words.        *)
(*                                                                         *)
(* Which ready thread runs is left open here: see KernelThreads.           *)
(***************************************************************************)
EXTENDS Integers, Sequences, SequencesExt

CONSTANTS
    Thread,      \* the threads of the application
    Idle,
    TICK_FREQ,   \* ticks per second
    Word,        \* values of a word, 2^32 in the code
    NestingMax,  \* of both nesting counters, 0xff in the code
    SleepTimes,  \* milliseconds given to Thread::sleep
    USleepTimes, \* microseconds given to usleep
    MaxTick      \* bound on the tick

ASSUME ThreadAssumption == Idle \notin Thread
ASSUME NumberAssumption ==
    /\ {Word, TICK_FREQ} \subseteq Nat \ {0}
    /\ {NestingMax, MaxTick} \subseteq Nat
    /\ SleepTimes \subseteq Nat /\ USleepTimes \subseteq Nat

Context == Thread \union {Idle}
Unread == -1

VARIABLES
    status,                 \* "boot", "up", or "reboot" after an error
    interruptsEnabled,      \* the processor's flag
    interruptDisableNesting,
    kernel_running,         \* the times the kernel is paused
    tick_skew,
    tick,
    sleeping_list,          \* of [p, wakeup_time], first element first
    sleeping,               \* the threads whose SLEEP flag is set
    cur,
    at,                     \* where each thread is, see the actions
    loaded,                 \* the words getTick has loaded of a and b
    called,                 \* history: the tick when getTick was called
    missed,                 \* history: a tick found the kernel paused, and
                            \* the scheduler has not run since
    promised                \* history: the tick before which the last sleep
                            \* is not to return, 0 once it has come

pauseVars == <<interruptsEnabled, interruptDisableNesting, kernel_running>>
sleepVars == <<sleeping_list, sleeping, promised>>
readVars == <<loaded, called>>
vars == <<status, pauseVars, tick_skew, tick, sleepVars, cur, at, readVars, missed>>

Variable == {"a", "b"}    \* of getTick
Half == {"lo", "hi"}
Nothing == [variable \in Variable |-> [half \in Half |-> Unread]]

(* The code before startKernel runs with interrupts disabled, and becomes  *)
(* the idle thread as far as the kernel can tell.                          *)
Init ==
    /\ status = "boot"
    /\ interruptsEnabled = FALSE
    /\ interruptDisableNesting = 0
    /\ kernel_running = 0
    /\ tick_skew = FALSE
    /\ tick = 0
    /\ sleeping_list = <<>>
    /\ sleeping = {}
    /\ cur = Idle
    /\ at = [c \in Context |-> "code"]
    /\ loaded = [t \in Thread |-> Nothing]
    /\ called = [t \in Thread |-> 0]
    /\ missed = FALSE
    /\ promised = [t \in Thread |-> 0]

-----------------------------------------------------------------------------
(* Faulty variants of the definitions below, with the mistake each makes.  *)
(* They are not part of the model: they show that a property can fail.     *)
NextAny(asleep) ==                            \* SLEEP flag not looked at
    IF kernel_running # 0 THEN UNCHANGED <<cur, missed>>
    ELSE cur' \in Context /\ missed' = FALSE
MustRepayNever == FALSE                       \* tick_skew not looked at
PlaceLast(time) == Len(sleeping_list) + 1     \* list not sorted
SameAlways(t) == TRUE                         \* tick read only once

-----------------------------------------------------------------------------
Running(c) == status # "reboot" /\ cur = c /\ at[c] = "code"

(* The thread may block: it has neither paused the kernel nor disabled     *)
(* interrupts, as sleep and yield require.                                 *)
MayBlock(c) == status = "up" /\ interruptsEnabled /\ kernel_running = 0

(* IRQfindNextThread: nothing if the kernel is paused, and otherwise some  *)
(* thread that does not sleep; Idle also when the others wait.             *)
NextThread(asleep) ==
    IF kernel_running # 0 THEN UNCHANGED <<cur, missed>>
    ELSE cur' \in Context \ asleep /\ missed' = FALSE

(* The threads woken by the tick: the loop stops at the first element that *)
(* has another time.                                                       *)
Woken(now) ==
    LET n == SelectInSeq(sleeping_list, LAMBDA d : d.wakeup_time # now)
    IN IF n = 0 THEN Len(sleeping_list) ELSE n - 1

(* IRQtickInterrupt.                                                       *)
Tick ==
    /\ status = "up"
    /\ interruptsEnabled
    /\ tick < MaxTick
    /\ tick' = tick + 1
    /\ sleeping_list' = SubSeq(sleeping_list, Woken(tick') + 1, Len(sleeping_list))
    /\ sleeping' = sleeping \ {sleeping_list[i].p : i \in 1 .. Woken(tick')}
    /\ IF kernel_running = 0
       THEN NextThread(sleeping') /\ UNCHANGED tick_skew
       ELSE tick_skew' = TRUE /\ missed' = TRUE /\ UNCHANGED cur
    /\ promised' = [t \in Thread |-> IF promised[t] > tick' THEN promised[t] ELSE 0]
    /\ UNCHANGED <<status, pauseVars, at, readVars>>

startKernel ==
    /\ status = "boot"
    /\ cur = Idle /\ at[Idle] = "code"
    /\ interruptDisableNesting = 0 /\ kernel_running = 0
    /\ status' = "up"
    /\ interruptsEnabled' = TRUE
    /\ at' = [at EXCEPT ![Idle] = "yields"]
    /\ UNCHANGED <<interruptDisableNesting, kernel_running, tick_skew, tick, sleepVars,
                   cur, readVars, missed>>

-----------------------------------------------------------------------------
Reboot ==
    /\ status' = "reboot"
    /\ UNCHANGED <<pauseVars, tick_skew, tick, sleepVars, cur, at, readVars, missed>>

Full(nesting) == nesting = NestingMax

disableInterrupts(c) ==
    /\ Running(c)
    /\ IF Full(interruptDisableNesting) THEN Reboot
       ELSE /\ interruptsEnabled' = FALSE
            /\ interruptDisableNesting' = interruptDisableNesting + 1
            /\ UNCHANGED <<status, kernel_running, tick_skew, tick, sleepVars, cur, at,
                           readVars, missed>>

(* enableInterrupts enables them at the outermost call, once started.      *)
Enables == interruptDisableNesting = 1 /\ status = "up"

enableInterrupts(c) ==
    /\ Running(c)
    /\ IF interruptDisableNesting = 0 THEN Reboot
       ELSE /\ interruptsEnabled' = (interruptsEnabled \/ Enables)
            /\ interruptDisableNesting' = interruptDisableNesting - 1
            /\ UNCHANGED <<status, kernel_running, tick_skew, tick, sleepVars, cur, at,
                           readVars, missed>>

(* pauseKernel and restartKernel enable interrupts once the kernel has     *)
(* started, so they are not to be called with interrupts disabled then.    *)
MayPause(c) == Running(c) /\ (status = "up" => interruptDisableNesting = 0)

pauseKernel(c) ==
    /\ MayPause(c)
    /\ IF Full(kernel_running) THEN Reboot
       ELSE /\ kernel_running' = kernel_running + 1
            /\ interruptsEnabled' = (interruptsEnabled \/ status = "up")
            /\ UNCHANGED <<status, interruptDisableNesting, tick_skew, tick, sleepVars, cur,
                           at, readVars, missed>>

restartKernel(c) ==
    /\ MayPause(c)
    /\ IF kernel_running = 0 THEN Reboot
       ELSE /\ kernel_running' = kernel_running - 1
            /\ interruptsEnabled' = (interruptsEnabled \/ status = "up")
            /\ at' = [at EXCEPT ![c] = "restarted"]
            /\ UNCHANGED <<status, interruptDisableNesting, tick_skew, tick, sleepVars, cur,
                           readVars, missed>>

MustRepay == kernel_running = 0 /\ tick_skew

(* The rest of restartKernel, which interrupts may cut: the test, ...      *)
restarted(c) ==
    /\ cur = c
    /\ at[c] = "restarted"
    /\ at' = [at EXCEPT ![c] = IF MustRepay THEN "owes" ELSE "code"]
    /\ UNCHANGED <<status, pauseVars, tick_skew, tick, sleepVars, cur, readVars, missed>>

(* ... the assignment, ...                                                 *)
owes(c) ==
    /\ cur = c
    /\ at[c] = "owes"
    /\ tick_skew' = FALSE
    /\ at' = [at EXCEPT ![c] = "yields"]
    /\ UNCHANGED <<status, pauseVars, tick, sleepVars, cur, readVars, missed>>

(* ... and the yield, which is also that of the functions that sleep.      *)
yields(c) ==
    /\ cur = c
    /\ at[c] = "yields"
    /\ at' = [at EXCEPT ![c] = "code"]
    /\ NextThread(sleeping)
    /\ UNCHANGED <<status, pauseVars, tick_skew, tick, sleepVars, readVars>>

yield(c) ==
    /\ Running(c) /\ MayBlock(c)
    /\ at' = [at EXCEPT ![c] = "yields"]
    /\ UNCHANGED <<status, pauseVars, tick_skew, tick, sleepVars, cur, readVars, missed>>

-----------------------------------------------------------------------------
(* Where IRQaddToSleepingList inserts: before the first with a time not    *)
(* before this one.                                                        *)
Place(time) ==
    LET n == SelectInSeq(sleeping_list, LAMBDA d : time <= d.wakeup_time)
    IN IF n = 0 THEN Len(sleeping_list) + 1 ELSE n

IRQaddToSleepingList(t, time) ==
    /\ sleeping_list' = InsertAt(sleeping_list, Place(time), [p |-> t, wakeup_time |-> time])
    /\ sleeping' = sleeping \union {t}
    /\ at' = [at EXCEPT ![t] = "yields"]

Ticks(ms) ==
    IF (ms * TICK_FREQ) \div 1000 > 0 THEN (ms * TICK_FREQ) \div 1000 ELSE 1

Sleep(t, ms) ==
    IF ms = 0 THEN UNCHANGED <<sleeping_list, sleeping, at>>
    ELSE IRQaddToSleepingList(t, tick + Ticks(ms))

Promises(t, ticks) ==
    promised' = [promised EXCEPT ![t] = IF ticks = 0 THEN 0 ELSE tick + ticks]

InTime(t) == Running(t) /\ MayBlock(t)
Rest == UNCHANGED <<status, pauseVars, tick_skew, tick, cur, readVars, missed>>

(* Thread::sleep.                                                          *)
sleep(t, ms) ==
    /\ InTime(t)
    /\ tick + Ticks(ms) <= MaxTick
    /\ Sleep(t, ms)
    /\ Promises(t, (ms * TICK_FREQ) \div 1000)
    /\ Rest

(* unistd.cpp: usleep.  The busy wait for what is less than a millisecond  *)
(* takes no ticks of its own, and may be interrupted at will.              *)
usleep(t, us) ==
    /\ InTime(t)
    /\ tick + Ticks(us \div 1000) <= MaxTick
    /\ IF us > 1000 THEN Sleep(t, us \div 1000) ELSE Sleep(t, 0)
    /\ Promises(t, ((us \div 1000) * TICK_FREQ) \div 1000)
    /\ Rest

sleepUntil(t, absoluteTime) ==
    /\ InTime(t)
    /\ IF absoluteTime <= tick THEN UNCHANGED <<sleeping_list, sleeping, at>>
       ELSE IRQaddToSleepingList(t, absoluteTime)
    /\ Promises(t, 0)
    /\ Rest

-----------------------------------------------------------------------------
(* getTick, with interrupts enabled.                                       *)
getTick(t) ==
    /\ Running(t) /\ interruptsEnabled
    /\ at' = [at EXCEPT ![t] = "reads"]
    /\ called' = [called EXCEPT ![t] = tick]
    /\ UNCHANGED <<status, pauseVars, tick_skew, tick, sleepVars, cur, loaded, missed>>

Complete(words) == words["lo"] # Unread /\ words["hi"] # Unread

(* One word of a, or then of b; the compiler chooses the order of the two. *)
load(t, variable, half) ==
    /\ cur = t
    /\ at[t] = "reads"
    /\ loaded[t][variable][half] = Unread
    /\ variable = "b" => Complete(loaded[t]["a"])
    /\ loaded' = [loaded EXCEPT ![t][variable][half] =
                    IF half = "lo" THEN tick % Word ELSE tick \div Word]
    /\ UNCHANGED <<status, pauseVars, tick_skew, tick, sleepVars, cur, at, called, missed>>

Same(t) == loaded[t]["a"] = loaded[t]["b"]
Value(words) == words["hi"] * Word + words["lo"]

(* Return, or start again.                                                 *)
compare(t) ==
    /\ cur = t
    /\ at[t] = "reads"
    /\ Complete(loaded[t]["b"])
    /\ loaded' = [loaded EXCEPT ![t] = Nothing]
    /\ IF Same(t)
       THEN at' = [at EXCEPT ![t] = "code"] /\ called' = [called EXCEPT ![t] = 0]
       ELSE UNCHANGED <<at, called>>
    /\ UNCHANGED <<status, pauseVars, tick_skew, tick, sleepVars, cur, missed>>

Next ==
    \/ Tick \/ startKernel
    \/ \E c \in Context :
        \/ disableInterrupts(c) \/ enableInterrupts(c)
        \/ pauseKernel(c) \/ restartKernel(c)
        \/ restarted(c) \/ owes(c) \/ yields(c) \/ yield(c)
    \/ \E t \in Thread :
        \/ getTick(t) \/ compare(t)
        \/ \E variable \in Variable, half \in Half : load(t, variable, half)
    \/ \E t \in Thread :
        \/ \E ms \in SleepTimes : sleep(t, ms)
        \/ \E us \in USleepTimes : usleep(t, us)
        \/ \E time \in 0 .. MaxTick : sleepUntil(t, time)

Spec == Init /\ [][Next]_vars

-----------------------------------------------------------------------------
TypeOK ==
    /\ status \in {"boot", "up", "reboot"}
    /\ interruptsEnabled \in BOOLEAN
    /\ interruptDisableNesting \in 0 .. NestingMax
    /\ kernel_running \in 0 .. NestingMax
    /\ tick_skew \in BOOLEAN
    /\ tick \in 0 .. MaxTick
    /\ sleeping_list \in Seq([p : Thread, wakeup_time : 0 .. MaxTick])
    /\ sleeping \subseteq Thread
    /\ cur \in Context
    /\ at \in [Context -> {"code", "restarted", "owes", "yields", "reads"}]
    /\ loaded \in [Thread -> [Variable -> [Half -> Nat \union {Unread}]]]
    /\ called \in [Thread -> 0 .. MaxTick]
    /\ missed \in BOOLEAN
    /\ promised \in [Thread -> Nat]

(* Interrupts are enabled when no call of disableInterrupts is open, and   *)
(* never before the kernel has started, whatever pauseKernel and           *)
(* restartKernel, which have no count of their own for it, did in between. *)
InterruptsBalanced ==
    status # "reboot" =>
        interruptsEnabled = (status = "up" /\ interruptDisableNesting = 0)

(* tick_interrupt.h, kernel.cpp:142: a tick that could not switch threads  *)
(* because the kernel was paused is made up for by a switch before the     *)
(* thread that paused the kernel goes on with its own code.                *)
NoTickLost ==
    missed /\ kernel_running = 0 => at[cur] \in {"restarted", "owes", "yields"}

(* Nobody sleeps past its time, although the tick compares times only for  *)
(* equality and looks at the first of the list: the threads in the list    *)
(* are those that sleep, and the time of each is still to come.            *)
NobodyOversleeps ==
    /\ sleeping = {sleeping_list[i].p : i \in DOMAIN sleeping_list}
    /\ \A i \in DOMAIN sleeping_list : tick < sleeping_list[i].wakeup_time

(* A thread is woken at the very tick that it asked for.                   *)
WakesOnTime ==
    [][\A i \in DOMAIN sleeping_list :
        sleeping_list[i].p \notin sleeping' => tick' = sleeping_list[i].wakeup_time]_vars

(* kernel.cpp:202-207: the 64 bit value getTick returns, put together from *)
(* two words with interrupts enabled, was the tick at some moment during   *)
(* the call, however often and long the thread was interrupted.            *)
GetTickExact ==
    [][\A t \in Thread :
        at[t] = "reads" /\ at'[t] = "code" =>
            called[t] <= Value(loaded[t]["a"]) /\ Value(loaded[t]["a"]) <= tick]_vars

(* unistd.cpp:42, 51: a thread that called sleep or usleep does not run its *)
(* own code before the ticks that it asked for have passed.                *)
SleepsAtLeast ==
    \A t \in Thread :
        status = "up" /\ cur = t /\ at[t] = "code" => promised[t] <= tick

=============================================================================
