------------------------------ MODULE StaticGuard ------------------------------
(***************************************************************************)
(* Things done once by whichever thread comes first: the construction of a *)
(* static object under its guard (__cxa_guard_acquire, release and abort,  *)
(* kernel/syscalls.cpp) and pthread_once (kernel/pthread.cpp), under the   *)
(* priority scheduler.                                                     *)
(*                                                                         *)
(* A thread that finds the object under construction by another one yields *)
(* and looks again, so who runs next matters here: the scheduler is part   *)
(* of the model.  KernelThreads has it in full; here threads keep their    *)
(* priorities, and either are ready or wait for an event of their own.     *)
(***************************************************************************)
EXTENDS Integers, Sequences, SequencesExt

CONSTANTS
    Thread, NoThread, Idle,
    Prio,           \* the priority of each thread
    MaxPriority,    \* PRIORITY_MAX - 1
    MaxAborts       \* bound on the constructors that throw

(* Neither 0 nor 1 is the address of a thread, and the idle thread calls   *)
(* none of this.                                                           *)
GuardAssumption ==
    /\ NoThread \notin Thread \union {"built"}
    /\ Idle \notin Thread /\ "built" \notin Thread
    /\ MaxPriority \in Nat /\ Prio \in [Thread -> 0 .. MaxPriority]
    /\ MaxAborts \in Nat

Priority == 0 .. MaxPriority

VARIABLES
    thread_list,    \* PriorityScheduler::thread_list, first element first
    cur,            \* the running thread
    ready,          \* the threads without a flag that makes them wait
    guard,          \* the union MiosixGuard: NoThread is 0, "built" is 1
    init_executed,  \* pthread_once_t::init_executed
    at,             \* "code", "acquire" (past its yield), "build" or "func"
    status,         \* "up", or "exit" after _exit(1)
    has,            \* history: the threads that were told to use the object
    aborted,        \* history: how often the constructor threw
    ran             \* history: how often the function of pthread_once ran

schedVars == <<thread_list, cur, ready>>
vars == <<schedVars, guard, init_executed, at, status, has, aborted, ran>>

(* A list of the scheduler holds the threads of its priority.              *)
Lists ==
    {l \in [Priority -> {SetToSeq(S) : S \in SUBSET Thread}] :
        \A p \in Priority : ToSet(l[p]) = {t \in Thread : Prio[t] = p}}

Init ==
    /\ thread_list \in Lists
    /\ cur = Idle
    /\ ready = Thread
    /\ guard = NoThread
    /\ init_executed = 0
    /\ at = [t \in Thread |-> "code"]
    /\ status = "up"
    /\ has = {}
    /\ aborted = 0
    /\ ran = 0

Running(t) == status = "up" /\ cur = t /\ t \in ready

-----------------------------------------------------------------------------
(* IRQfindNextThread: the first ready thread of the highest priority that  *)
(* has one, from the one behind the head on, which becomes the head.       *)
Candidates(p, among) ==
    SelectSeq(IF thread_list[p] = <<>> THEN <<>>
              ELSE Tail(thread_list[p]) \o <<Head(thread_list[p])>>,
              LAMBDA t : t \in among)

RotatedTo(list, t) ==
    LET i == CHOOSE i \in DOMAIN list : list[i] = t
    IN SubSeq(list, i, Len(list)) \o SubSeq(list, 1, i - 1)

FindNext(among) ==
    IF \A p \in Priority : Candidates(p, among) = <<>>
    THEN cur' = Idle /\ UNCHANGED thread_list
    ELSE \E p \in Priority :
         /\ Candidates(p, among) # <<>>
         /\ \A q \in Priority : q > p => Candidates(q, among) = <<>>
         /\ cur' = Head(Candidates(p, among))
         /\ thread_list' = [thread_list EXCEPT ![p] = RotatedTo(@, Head(Candidates(p, among)))]

Tick ==
    /\ status = "up"
    /\ FindNext(ready)
    /\ UNCHANGED <<ready, guard, init_executed, at, status, has, aborted, ran>>

(* A thread waits for something else than the object, also while it        *)
(* constructs it, and yields; an interrupt or another thread wakes it.     *)
Block(t) ==
    /\ Running(t)
    /\ ready' = ready \ {t}
    /\ FindNext(ready \ {t})
    /\ UNCHANGED <<guard, init_executed, at, status, has, aborted, ran>>

Wake(t) ==
    /\ status = "up"
    /\ ready' = ready \union {t}
    /\ UNCHANGED <<thread_list, cur, guard, init_executed, at, status, has, aborted, ran>>

-----------------------------------------------------------------------------
(* __cxa_guard_acquire, one turn of its loop.                              *)
Acquired(t) ==
    /\ guard = NoThread
    /\ guard' = t
    /\ at' = [at EXCEPT ![t] = "build"]
    /\ UNCHANGED <<schedVars, init_executed, status, has, aborted, ran>>

AlreadyBuilt(t) ==
    /\ guard = "built"
    /\ at' = [at EXCEPT ![t] = "code"]
    /\ has' = has \union {t}
    /\ UNCHANGED <<schedVars, guard, init_executed, status, aborted, ran>>

(* The constructor asks for the object it constructs.                      *)
RecursiveInit(t) ==
    /\ guard = t
    /\ status' = "exit"
    /\ UNCHANGED <<schedVars, guard, init_executed, at, has, aborted, ran>>

(* Another thread constructs it: yield, and look again.                    *)
Yieldlock(t) ==
    /\ guard \in Thread \ {t}
    /\ at' = [at EXCEPT ![t] = "acquire"]
    /\ FindNext(ready)
    /\ UNCHANGED <<ready, guard, init_executed, status, has, aborted, ran>>

acquire(t) ==
    /\ Running(t)
    /\ at[t] # "func"
    /\ Acquired(t) \/ AlreadyBuilt(t) \/ RecursiveInit(t) \/ Yieldlock(t)

release(t) ==
    /\ Running(t)
    /\ at[t] = "build"
    /\ guard' = "built"
    /\ at' = [at EXCEPT ![t] = "code"]
    /\ has' = has \union {t}
    /\ UNCHANGED <<schedVars, init_executed, status, aborted, ran>>

(* The constructor throws; the object may be tried again later.            *)
abort(t) ==
    /\ Running(t)
    /\ at[t] = "build"
    /\ aborted < MaxAborts
    /\ guard' = NoThread
    /\ at' = [at EXCEPT ![t] = "code"]
    /\ aborted' = aborted + 1
    /\ UNCHANGED <<schedVars, init_executed, status, has, ran>>

-----------------------------------------------------------------------------
(* pthread_once: the first caller runs the function, the others return     *)
(* whether or not it has finished.                                         *)
pthread_once(t) ==
    /\ Running(t)
    /\ at[t] = "code"
    /\ init_executed = 0
    /\ init_executed' = 1
    /\ at' = [at EXCEPT ![t] = "func"]
    /\ ran' = ran + 1
    /\ UNCHANGED <<schedVars, guard, status, has, aborted>>

funcReturns(t) ==
    /\ Running(t)
    /\ at[t] = "func"
    /\ at' = [at EXCEPT ![t] = "code"]
    /\ UNCHANGED <<schedVars, guard, init_executed, status, has, aborted, ran>>

Next ==
    \/ Tick
    \/ \E t \in Thread :
        \/ Block(t) \/ Wake(t)
        \/ acquire(t) \/ release(t) \/ abort(t)
        \/ pthread_once(t) \/ funcReturns(t)

Spec == Init /\ [][Next]_vars

(* The tick goes on, a thread that runs again and again gets its work      *)
(* done, which includes that it waits for something now and then, and what *)
(* it waits for happens.                                                   *)
Fairness ==
    /\ WF_vars(Tick)
    /\ \A t \in Thread :
        /\ WF_vars(Wake(t))
        /\ SF_vars(at[t] = "acquire" /\ acquire(t))
        /\ SF_vars(release(t)) /\ SF_vars(funcReturns(t))
        /\ SF_vars(at[t] = "code" /\ Block(t))

FairSpec == Spec /\ Fairness

-----------------------------------------------------------------------------
TypeOK ==
    /\ thread_list \in [Priority -> Seq(Thread)]
    /\ cur \in Thread \union {Idle}
    /\ ready \subseteq Thread
    /\ guard \in Thread \union {NoThread, "built"}
    /\ init_executed \in {0, 1}
    /\ at \in [Thread -> {"code", "acquire", "build", "func"}]
    /\ status \in {"up", "exit"}
    /\ has \subseteq Thread
    /\ aborted \in 0 .. MaxAborts
    /\ ran \in Nat

(* syscalls.cpp:216 "initialize static objects only once, in a threadsafe  *)
(* way": one thread constructs at a time, the one whose name is in the     *)
(* guard; nobody is told to use the object before it is finished; and once *)
(* it is, nobody constructs it again.                                      *)
BuiltOnceBeforeUse ==
    /\ \A t \in Thread : at[t] = "build" <=> guard = t
    /\ has # {} => guard = "built"

(* pthread_once runs its function once, whoever calls.                     *)
RunOnce == ran <= 1 /\ (ran = 1 <=> init_executed = 1)

(* syscalls.cpp:218: a thread that finds the object under construction is  *)
(* held up until it is constructed, not for ever.                          *)
AcquireReturns ==
    \A t \in Thread : at[t] = "acquire" ~> (at[t] # "acquire" \/ status = "exit")

=============================================================================
