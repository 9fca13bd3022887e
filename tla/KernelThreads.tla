----------------------------- MODULE KernelThreads -----------------------------
(***************************************************************************)
(* The life of a thread under the priority scheduler: create, run, wait,   *)
(* wakeup, setPriority, join, detach, return from the entry point, and the *)
(* freeing of its memory (kernel/kernel.cpp,                               *)
(* kernel/scheduler/priority/priority_scheduler.cpp).                      *)
(*                                                                         *)
(* A thread is known to others by the address of its memory, a Slot, which *)
(* malloc may use again once it is freed.  One thread runs at a time; the  *)
(* bodies of the operations run with interrupts disabled or the kernel     *)
(* paused, and between any two of them a tick or a yield may switch to     *)
(* another thread.  join, which waits and frees in two critical sections,  *)
(* is several actions.                                                     *)
(***************************************************************************)
EXTENDS ThreadLists

CONSTANTS
    Slot, NoThread, Idle,
    Main,          \* the thread of mainLoader, which never returns
    MainPriority,  \* MAIN_PRIORITY
    MaxPriority,   \* PRIORITY_MAX - 1
    MaxBirths,     \* bound on the times a slot is used
    Disciplines    \* the kinds of clients considered, see discipline

ASSUME SlotAssumption ==
    /\ Main \in Slot /\ NoThread \notin Slot /\ Idle \notin Slot
    /\ "result" \notin Slot \union {NoThread}
ASSUME PriorityAssumption ==
    MaxPriority \in Nat /\ MainPriority \in 0 .. MaxPriority
ASSUME BirthAssumption == MaxBirths \in Nat \ {0}
ASSUME DisciplineAssumption == Disciplines \subseteq {"owned", "shared"}

Priority == 0 .. MaxPriority

(* Priorities a caller of create may ask for; those of setPriority are     *)
(* valid, because there an invalid one is reported and then used.          *)
Requested == -1 .. MaxPriority + 1

VARIABLES
    discipline,     \* who joins and detaches a thread, never changed
    thread_list,    \* PriorityScheduler::thread_list, first element first
    cur,            \* the running thread
    exist_deleted,
    flags,          \* Thread::flags, the set of those that are set
    prio,           \* schedData.priority
    joinData,       \* the union: the joining thread, "result", or NULL
    inside,         \* "join" and "reap" in the two parts of join, else "code"
    joining,        \* the argument of the join the thread is in
    births,         \* history: the times each slot has been used
    awaited,        \* history: births[joining] when join was called
    creator         \* history: the thread that created the one in the slot

dataVars == <<prio, joinData, births, creator>>
callVars == <<inside, joining, awaited>>
vars == <<discipline, thread_list, cur, exist_deleted, flags, dataVars, callVars>>

-----------------------------------------------------------------------------
Listed(t) == \E p \in Priority : Contains(thread_list[p], t)
Deleted(t) == {"DELETED", "DETACHED"} \subseteq flags[t]
Exists(t) == Listed(t) /\ ~Deleted(t)

(* The flags other than DELETING (not modelled) and DETACHED.              *)
Ready(t) == flags[t] \subseteq {"DETACHED"}
Running(t) == cur = t /\ Ready(t)

(* "owned": only the thread that created a joinable thread joins or        *)
(* detaches it, once.  "shared": several threads may join it, and one      *)
(* detach it while others join.                                            *)
MayUse(c, t) ==
    \/ discipline = "shared"
    \/ creator[t] = c /\ Listed(t) /\ "DETACHED" \notin flags[t]

(* Faulty variants of the definitions below, with the mistake each makes.  *)
(* They are not part of the model: they show that a property can fail.     *)
UnlinkFirst(list, t) == Tail(list)                   \* not the one searched
RotateNever(list, i) == list                         \* head not advanced
ReapableDetached(t) == "DETACHED" \in flags[t]       \* still running
MayCompleteAlways(t) == TRUE                         \* if instead of for(;;)
NeedsReapNever(t) == FALSE                           \* exist_deleted not set
WakeJoinerNever(t) == flags                          \* joiner not woken

-----------------------------------------------------------------------------
(* The circular lists: PKaddThread inserts after the head.                 *)
Link(list, t) == IF list = <<>> THEN <<t>> ELSE <<Head(list), t>> \o Tail(list)
Unlink(list, t) == RemoveAt(list, CHOOSE i \in DOMAIN list : list[i] = t)
Rotate(list, i) == SubSeq(list, i, Len(list)) \o SubSeq(list, 1, i - 1)

HasReady(p) == \E i \in DOMAIN thread_list[p] : Ready(thread_list[p][i])

(* The scheduler looks at the head of a list last.                         *)
Before(j, i) == j # 1 /\ (i = 1 \/ j < i)

FirstReady(list, i) ==
    /\ Ready(list[i])
    /\ \A j \in DOMAIN list : Before(j, i) => ~Ready(list[j])

(* IRQfindNextThread, called by yield and at every tick.                   *)
Switch ==
    /\ IF \A p \in Priority : ~HasReady(p)
       THEN cur' = Idle /\ UNCHANGED thread_list
       ELSE \E p \in Priority :
            /\ HasReady(p)
            /\ \A q \in Priority : q > p => ~HasReady(q)
            /\ \E i \in DOMAIN thread_list[p] :
                /\ FirstReady(thread_list[p], i)
                /\ cur' = thread_list[p][i]
                /\ thread_list' = [thread_list EXCEPT ![p] = Rotate(@, i)]
    /\ UNCHANGED <<discipline, exist_deleted, flags, dataVars, callVars>>

Reapable(t) == Deleted(t)

(* PKremoveDeadThreads.                                                    *)
Survivors(list) == Keeping(list, {i \in DOMAIN list : ~Reapable(list[i])})
Reaped == [p \in Priority |-> Survivors(thread_list[p])]

IdleThread ==
    /\ cur = Idle
    /\ exist_deleted
    /\ exist_deleted' = FALSE
    /\ thread_list' = Reaped
    /\ UNCHANGED <<discipline, cur, flags, dataVars, callVars>>

Init ==
    /\ discipline \in Disciplines
    /\ thread_list = [p \in Priority |-> IF p = MainPriority THEN <<Main>> ELSE <<>>]
    /\ cur = Idle
    /\ exist_deleted = FALSE
    /\ flags = [t \in Slot |-> IF t = Main THEN {"DETACHED"} ELSE {}]
    /\ prio = [t \in Slot |-> MainPriority]
    /\ joinData = [t \in Slot |-> NoThread]
    /\ inside = [t \in Slot |-> "code"]
    /\ joining = [t \in Slot |-> NoThread]
    /\ births = [t \in Slot |-> IF t = Main THEN 1 ELSE 0]
    /\ awaited = [t \in Slot |-> 0]
    /\ creator = [t \in Slot |-> NoThread]

-----------------------------------------------------------------------------
(* What a running thread c does outside of join.                           *)
InCode(c) == Running(c) /\ inside[c] = "code"

validate(p) == p \in Priority

create(c, t, p, options) ==
    /\ InCode(c)
    /\ validate(p)
    /\ ~Listed(t)
    /\ births[t] < MaxBirths
    /\ thread_list' = [thread_list EXCEPT ![p] = Link(@, t)]
    /\ flags' = [flags EXCEPT ![t] = IF options = "JOINABLE" THEN {} ELSE {"DETACHED"}]
    /\ prio' = [prio EXCEPT ![t] = p]
    /\ joinData' = [joinData EXCEPT ![t] = NoThread]
    /\ inside' = [inside EXCEPT ![t] = "code"]
    /\ joining' = [joining EXCEPT ![t] = NoThread]
    /\ births' = [births EXCEPT ![t] = @ + 1]
    /\ awaited' = [awaited EXCEPT ![t] = 0]
    /\ creator' = [creator EXCEPT ![t] = c]
    /\ UNCHANGED <<discipline, cur, exist_deleted>>

(* Thread::setPriority of a thread that holds no mutex; see PriorityMutex  *)
(* for the others.                                                         *)
setPriority(c, p) ==
    /\ InCode(c)
    /\ p # prio[c]
    /\ prio' = [prio EXCEPT ![c] = p]
    /\ thread_list' = [thread_list EXCEPT
            ![prio[c]] = Unlink(@, c), ![p] = Link(@, c)]
    /\ UNCHANGED <<discipline, cur, exist_deleted, flags, joinData, births, creator, callVars>>

wait(c) ==
    /\ InCode(c)
    /\ flags' = [flags EXCEPT ![c] = @ \union {"WAIT"}]
    /\ UNCHANGED <<discipline, thread_list, cur, exist_deleted, dataVars, callVars>>

(* wakeup, from any thread or interrupt.                                   *)
wakeup(t) ==
    /\ "WAIT" \in flags[t]
    /\ flags' = [flags EXCEPT ![t] = @ \ {"WAIT"}]
    /\ UNCHANGED <<discipline, thread_list, cur, exist_deleted, dataVars, callVars>>

(* The flags after waking the thread that joins t, if there is one.        *)
WakeJoiner(t) ==
    IF joinData[t] \in Slot /\ "DELETED" \notin flags[t]
    THEN [flags EXCEPT ![joinData[t]] = @ \ {"WAIT_JOIN"}] ELSE flags

(* The end of threadLauncher; the thread then yields for ever.             *)
threadReturns(c) ==
    /\ InCode(c)
    /\ c # Main
    /\ IF "DETACHED" \in flags[c]
       THEN /\ exist_deleted' = TRUE
            /\ flags' = [flags EXCEPT ![c] = @ \union {"DELETED"}]
            /\ UNCHANGED joinData
       ELSE /\ flags' = [WakeJoiner(c) EXCEPT ![c] = @ \union {"DELETED"}]
            /\ joinData' = [joinData EXCEPT ![c] = "result"]
            /\ UNCHANGED exist_deleted
    /\ UNCHANGED <<discipline, thread_list, cur, prio, births, creator, callVars>>

(* The thread has terminated, so detaching it makes it ready to be freed.  *)
NeedsReap(t) == "DELETED" \in flags[t]

detach(c, t) ==
    /\ InCode(c)
    /\ MayUse(c, t)
    /\ Exists(t)
    /\ "DETACHED" \notin flags[t]
    /\ flags' = [WakeJoiner(t) EXCEPT ![t] = @ \union {"DETACHED"}]
    /\ exist_deleted' = (exist_deleted \/ NeedsReap(t))
    /\ UNCHANGED <<discipline, thread_list, cur, dataVars, callVars>>

-----------------------------------------------------------------------------
(* join: the target has terminated and is claimed by setting DETACHED.     *)
Claim(c, t) ==
    /\ flags' = [flags EXCEPT ![t] = @ \union {"DETACHED"}]
    /\ inside' = [inside EXCEPT ![c] = "reap"]
    /\ UNCHANGED joinData

MayComplete(t) == "DELETED" \in flags[t]

(* join returns false at once.                                             *)
JoinRefused(c, t) ==
    \/ t = c
    \/ ~Exists(t)
    \/ "DETACHED" \in flags[t]
    \/ "DELETED" \notin flags[t] /\ joinData[t] # NoThread

(* The beginning of join, when it does not return false at once.           *)
join(c, t) ==
    /\ InCode(c)
    /\ MayUse(c, t)
    /\ ~JoinRefused(c, t)
    /\ IF "DELETED" \in flags[t]
       THEN Claim(c, t)
       ELSE /\ joinData' = [joinData EXCEPT ![t] = c]
            /\ flags' = [flags EXCEPT ![c] = @ \union {"WAIT_JOIN"}]
            /\ inside' = [inside EXCEPT ![c] = "join"]
    /\ joining' = [joining EXCEPT ![c] = t]
    /\ awaited' = [awaited EXCEPT ![c] = births[t]]
    /\ UNCHANGED <<discipline, thread_list, cur, exist_deleted, prio, births, creator>>

(* What join does when the yield in its loop returns.                      *)
joinResumes(c) ==
    /\ Running(c)
    /\ inside[c] = "join"
    /\ \/ /\ ~Exists(joining[c]) \/ "DETACHED" \in flags[joining[c]]
          /\ inside' = [inside EXCEPT ![c] = "code"]
          /\ joining' = [joining EXCEPT ![c] = NoThread]
          /\ awaited' = [awaited EXCEPT ![c] = 0]
          /\ UNCHANGED <<flags, joinData>>
       \/ /\ Exists(joining[c]) /\ "DETACHED" \notin flags[joining[c]]
          /\ IF MayComplete(joining[c])
             THEN Claim(c, joining[c])
             ELSE /\ flags' = [flags EXCEPT ![c] = @ \union {"WAIT_JOIN"}]
                  /\ UNCHANGED <<inside, joinData>>
          /\ UNCHANGED <<joining, awaited>>
    /\ UNCHANGED <<discipline, thread_list, cur, exist_deleted, prio, births, creator>>

(* The second critical section of join, which frees what it can.           *)
joinReaps(c) ==
    /\ Running(c)
    /\ inside[c] = "reap"
    /\ thread_list' = Reaped
    /\ inside' = [inside EXCEPT ![c] = "code"]
    /\ joining' = [joining EXCEPT ![c] = NoThread]
    /\ awaited' = [awaited EXCEPT ![c] = 0]
    /\ UNCHANGED <<discipline, cur, exist_deleted, flags, dataVars>>

Next ==
    \/ Switch
    \/ IdleThread
    \/ \E c \in Slot :
        \/ \E t \in Slot, p \in Requested, o \in {"JOINABLE", "DEFAULT"} : create(c, t, p, o)
        \/ \E p \in Priority : setPriority(c, p)
        \/ wait(c) \/ wakeup(c) \/ threadReturns(c)
        \/ \E t \in Slot : detach(c, t) \/ join(c, t)
        \/ joinResumes(c) \/ joinReaps(c)

Spec == Init /\ [][Next]_vars

(* The tick goes on, and a thread in join that is ready gets to run.       *)
Fairness ==
    /\ WF_vars(Switch)
    /\ SF_vars(IdleThread)
    /\ \A c \in Slot : SF_vars(joinResumes(c)) /\ SF_vars(joinReaps(c))

FairSpec == Spec /\ Fairness

-----------------------------------------------------------------------------
TypeOK ==
    /\ discipline \in Disciplines
    /\ thread_list \in [Priority -> Seq(Slot)]
    /\ cur \in Slot \union {Idle}
    /\ exist_deleted \in BOOLEAN
    /\ flags \in [Slot -> SUBSET {"WAIT", "WAIT_JOIN", "DELETED", "DETACHED"}]
    /\ prio \in [Slot -> Priority]
    /\ joinData \in [Slot -> Slot \union {NoThread, "result"}]
    /\ inside \in [Slot -> {"code", "join", "reap"}]
    /\ joining \in [Slot -> Slot \union {NoThread}]
    /\ births \in [Slot -> 0 .. MaxBirths]
    /\ awaited \in [Slot -> 0 .. MaxBirths]
    /\ creator \in [Slot -> Slot \union {NoThread}]

(* A thread is in the list of its priority, once, and in no other.         *)
ListsAgree ==
    \A p \in Priority :
        /\ IsInjective(thread_list[p])
        /\ \A t \in ToSet(thread_list[p]) : prio[t] = p

(* Memory in use is not freed: not that of the running thread, whose stack *)
(* it holds, and not that of a thread that a live thread is to wake.       *)
NothingFreedInUse ==
    /\ cur = Idle \/ Listed(cur)
    /\ \A t \in Slot :
        Listed(t) /\ flags[t] \intersect {"DELETED", "DETACHED"} = {} /\ joinData[t] # NoThread
        => Listed(joinData[t]) /\ inside[joinData[t]] = "join" /\ joining[joinData[t]] = t

(* A terminated thread that nobody will join is going to be freed.         *)
NoLeak ==
    \A t \in Slot :
        Listed(t) /\ Deleted(t)
        => exist_deleted \/ \E c \in Slot : Listed(c) /\ inside[c] = "reap"

(* kernel.cpp:492: a thread that sleeps in join will be woken, because the *)
(* thread it joins has neither terminated nor been detached and knows it.  *)
JoinerWillBeWoken ==
    \A c \in Slot :
        Listed(c) /\ "WAIT_JOIN" \in flags[c]
        => /\ Exists(joining[c])
           /\ flags[joining[c]] \intersect {"DELETED", "DETACHED"} = {}
           /\ joinData[joining[c]] = c

OwnerWillBeWoken == discipline = "owned" => JoinerWillBeWoken

(* kernel.cpp:527-541: a join succeeds at most once for a thread, and only *)
(* when the union holds the result, not the pointer to a joining thread;   *)
(* also when the memory of the thread was freed and used for another one   *)
(* while the joining thread was asleep or ready to run.                    *)
JoinTakesResult ==
    [][\A c \in Slot :
        inside[c] # "reap" /\ inside'[c] = "reap" =>
            /\ Listed(joining'[c])
            /\ joinData[joining'[c]] = "result"
            /\ "DETACHED" \notin flags[joining'[c]]]_vars

(* A ready thread with none of higher priority ready keeps getting its     *)
(* turn, provided that threads stop joining its list ahead of it: create   *)
(* and setPriority insert where the scheduler looks first.                 *)
RoundRobin ==
    <>[][\A p \in Priority : ToSet(thread_list'[p]) \subseteq ToSet(thread_list[p])]_vars =>
    \A t \in Slot :
        <>[](/\ Listed(t) /\ Ready(t)
             /\ \A u \in Slot : Listed(u) /\ Ready(u) => prio[u] <= prio[t])
        => []<>(cur = t)

=============================================================================
