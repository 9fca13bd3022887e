----------------------------- MODULE MonitorProofs -----------------------------
(***************************************************************************)
(* FastMutex and the condition variable, for every number of threads and   *)
(* mutexes: nobody sleeps where no unlock, signal or broadcast looks, and  *)
(* the mutex excludes, also when wait gives it up and takes it again.      *)
(* After that what such a mutex does not protect: the guards of static     *)
(* objects and pthread_once.                                               *)
(***************************************************************************)
EXTENDS Monitor, TLAPS

-----------------------------------------------------------------------------
(* Lists of threads, each at most once.                                    *)
LEMMA EmptyList ==
    ASSUME NEW T
    PROVE  <<>> \in Seq(T) /\ IsInjective(<<>>) /\ \A u : ~Contains(<<>>, u)
BY DEF IsInjective, Contains

LEMMA AppendList ==
    ASSUME NEW T, NEW s \in Seq(T), NEW t \in T, IsInjective(s), ~Contains(s, t)
    PROVE  /\ Append(s, t) \in Seq(T)
           /\ IsInjective(Append(s, t))
           /\ \A u : Contains(Append(s, t), u) <=> Contains(s, u) \/ u = t
           /\ Append(s, t) # <<>>
<1> DEFINE a == Append(s, t)
<1>1. a \in Seq(T) /\ Len(a) = Len(s) + 1 /\ Len(s) \in Nat
      /\ \A i \in 1 .. Len(a) : a[i] = IF i <= Len(s) THEN s[i] ELSE t
    OBVIOUS
<1>2. \A u : Contains(a, u) <=> Contains(s, u) \/ u = t
    <2> TAKE u
    <2>1. ASSUME Contains(a, u) PROVE Contains(s, u) \/ u = t
        BY <1>1, <2>1 DEF Contains
    <2>2. ASSUME Contains(s, u) PROVE Contains(a, u)
        BY <1>1, <2>2 DEF Contains
    <2>3. ASSUME u = t PROVE Contains(a, u)
        <3>1. Len(s) + 1 \in 1 .. Len(a) /\ a[Len(s) + 1] = t
            BY <1>1
        <3> QED
            BY <2>3, <3>1 DEF Contains
    <2> HIDE DEF a
    <2> QED
        BY <2>1, <2>2, <2>3
<1>3. IsInjective(a)
    <2> SUFFICES ASSUME NEW i \in 1 .. Len(a), NEW j \in 1 .. Len(a), a[i] = a[j] PROVE i = j
        BY <1>1 DEF IsInjective
    <2>1. \A k \in 1 .. Len(s) : s[k] # t
        BY DEF Contains
    <2>2. DOMAIN s = 1 .. Len(s)
        OBVIOUS
    <2> HIDE DEF a
    <2> QED
        BY <1>1, <2>1, <2>2 DEF IsInjective
<1> QED
    BY <1>1, <1>2, <1>3

LEMMA TailList ==
    ASSUME NEW T, NEW s \in Seq(T), s # <<>>, IsInjective(s)
    PROVE  /\ Head(s) \in T /\ Contains(s, Head(s))
           /\ Tail(s) \in Seq(T)
           /\ IsInjective(Tail(s))
           /\ \A u : Contains(Tail(s), u) <=> Contains(s, u) /\ u # Head(s)
<1> DEFINE r == Tail(s)
<1>1. r \in Seq(T) /\ Len(s) \in Nat /\ Len(s) > 0 /\ Len(r) = Len(s) - 1 /\ Head(s) = s[1] /\ s[1] \in T
      /\ DOMAIN s = 1 .. Len(s) /\ DOMAIN r = 1 .. Len(r)
      /\ \A i \in 1 .. Len(r) : r[i] = s[i + 1]
    OBVIOUS
<1> HIDE DEF r
<1>2. Contains(s, Head(s))
    BY <1>1 DEF Contains
<1>3. \A i, j \in 1 .. Len(s) : s[i] = s[j] => i = j
    BY <1>1 DEF IsInjective
<1>4. IsInjective(r)
    BY <1>1, <1>3 DEF IsInjective
<1>5. \A u : Contains(r, u) <=> Contains(s, u) /\ u # Head(s)
    <2> TAKE u
    <2>1. ASSUME Contains(r, u) PROVE Contains(s, u) /\ u # Head(s)
        <3>1. PICK i \in 1 .. Len(r) : r[i] = u
            BY <2>1 DEF Contains
        <3>2. i + 1 \in 1 .. Len(s) /\ s[i + 1] = u /\ 1 \in 1 .. Len(s) /\ i + 1 # 1
            BY <1>1, <3>1
        <3> QED
            BY <3>2, <1>1, <1>3 DEF Contains
    <2>2. ASSUME Contains(s, u), u # Head(s) PROVE Contains(r, u)
        <3>1. PICK i \in 1 .. Len(s) : s[i] = u
            BY <2>2 DEF Contains
        <3>2. i # 1 /\ i - 1 \in 1 .. Len(r) /\ r[i - 1] = u
            BY <3>1, <2>2, <1>1
        <3> QED
            BY <3>2 DEF Contains
    <2> QED
        BY <2>1, <2>2
<1> QED
    BY <1>1, <1>2, <1>4, <1>5 DEF r

-----------------------------------------------------------------------------
(* What makes the invariants inductive: a recursion is counted only while  *)
(* somebody is inside, and a thread owns one mutex at a time, the one of   *)
(* the call it is in.  IInv is about the variables of the code; it is kept *)
(* by any client that unlocks what it owns, which HeldInv, below, says of  *)
(* one that goes by what lock and wait returned to it.                     *)
StateOK ==
    /\ status \in {"up", "reboot"}
    /\ owner \in [Mutex -> Thread \union {NoThread}]
    /\ recursive \in [Mutex -> Nat \union {-1}]
    /\ first \in [Mutex -> Seq(Thread)]
    /\ cond \in Seq(Thread)
    /\ flags \in [Thread -> SUBSET {"WAIT", "WAIT_COND"}]
    /\ at \in [Thread -> {"code", "lock", "wait"}]
    /\ using \in [Thread -> Mutex \union {NoMutex}]

Counts ==
    \A m \in Mutex :
        /\ IF m \in Recursive THEN recursive[m] >= 0 ELSE recursive[m] = -1
        /\ owner[m] = NoThread => recursive[m] <= 0
        /\ \A t \in Thread : owner[m] = t /\ at[t] = "lock" => recursive[m] <= 0

OneMutex ==
    \A t \in Thread :
        /\ at[t] # "code" => using[t] \in Mutex
        /\ \A m \in Mutex : owner[m] = t /\ at[t] # "code" => using[t] = m
        /\ \A m, n \in Mutex : owner[m] = t /\ owner[n] = t => m = n

IInv == StateOK /\ LockersQueued /\ WaitersListed /\ Counts /\ OneMutex

LEMMA InitIInv == Init => IInv
<1> SUFFICES ASSUME Init PROVE IInv
    OBVIOUS
<1> USE NullAssumption, RecursiveAssumption
<1>1. StateOK
    BY EmptyList DEF Init, StateOK
<1>2. LockersQueued
    BY EmptyList DEF Init, LockersQueued
<1>3. WaitersListed
    BY EmptyList DEF Init, WaitersListed
<1>4. Counts /\ OneMutex
    BY DEF Init, Counts, OneMutex
<1> QED
    BY <1>1, <1>2, <1>3, <1>4 DEF IInv

-----------------------------------------------------------------------------
(* A mutex that was free, or owned already: the thread goes on in its own  *)
(* code.                                                                   *)
LEMMA TookKeeps ==
    ASSUME IInv, NEW t \in Thread, NEW m \in Mutex,
           at[t] # "lock", flags[t] = {},
           \A n \in Mutex : owner[n] = t => n = m,
           TakeFree(t, m) \/ TakeAgain(t, m) \/ LockOwned(t, m),
           at' = [at EXCEPT ![t] = "code"],
           using' \in [Thread -> Mutex \union {NoMutex}],
           \A u \in Thread \ {t} : using'[u] = using[u],
           cond' = cond
    PROVE  IInv'
<1> USE NullAssumption
<1>1. /\ first' = first /\ flags' = flags
      /\ owner' \in [Mutex -> Thread \union {NoThread}]
      /\ recursive' \in [Mutex -> Nat \union {-1}]
      /\ status' \in {"up", "reboot"}
      /\ \A n \in Mutex : n # m => owner'[n] = owner[n] /\ recursive'[n] = recursive[n]
      /\ owner'[m] = t /\ owner[m] \in {t, NoThread}
      /\ recursive'[m] = recursive[m] \/ (recursive[m] >= 0 /\ recursive'[m] = recursive[m] + 1)
    <2>1. CASE TakeFree(t, m)
        BY <2>1 DEF TakeFree, IInv, StateOK
    <2>2. CASE TakeAgain(t, m)
        BY <2>2 DEF TakeAgain, IInv, StateOK
    <2>3. CASE LockOwned(t, m)
        BY <2>3 DEF LockOwned, IInv, StateOK
    <2> QED
        BY <2>1, <2>2, <2>3
<1>2. at' \in [Thread -> {"code", "lock", "wait"}] /\ at'[t] = "code"
      /\ \A u \in Thread \ {t} : at'[u] = at[u]
    BY DEF IInv, StateOK
<1>3. StateOK'
    BY <1>1, <1>2 DEF IInv, StateOK
<1>4. LockersQueued'
    <2>1. \A n \in Mutex, u \in Thread :
            Contains(first[n], u) <=> at'[u] = "lock" /\ using'[u] = n /\ owner'[n] # u
        BY <1>1, <1>2 DEF IInv, LockersQueued
    <2>2. \A n \in Mutex, u \in Thread : owner'[n] = u /\ at'[u] = "lock" => flags[u] = {}
        BY <1>1, <1>2 DEF IInv, LockersQueued
    <2>3. \A n \in Mutex : IsInjective(first[n]) /\ (owner'[n] = NoThread => first[n] = <<>>)
        BY <1>1 DEF IInv, LockersQueued
    <2> QED
        BY <1>1, <2>1, <2>2, <2>3 DEF LockersQueued
<1>5. WaitersListed'
    BY <1>1, <1>2 DEF IInv, WaitersListed
<1>6. Counts'
    BY <1>1, <1>2 DEF IInv, Counts, StateOK
<1>7. OneMutex'
    BY <1>1, <1>2 DEF IInv, OneMutex
<1> QED
    BY <1>3, <1>4, <1>5, <1>6, <1>7 DEF IInv

(* A mutex of another thread: to the end of its list.                      *)
LEMMA ContendedKeeps ==
    ASSUME IInv, NEW t \in Thread, NEW m \in Mutex,
           at[t] # "lock", flags[t] = {},
           \A n \in Mutex : owner[n] = t => n = m,
           LockContended(t, m), Goes(t, "lock", m), cond' = cond
    PROVE  IInv'
<1> USE NullAssumption
<1>1. /\ owner' = owner /\ recursive' = recursive /\ status' = status
      /\ owner[m] \notin {NoThread, t}
      /\ first' = [first EXCEPT ![m] = Append(@, t)]
      /\ flags' = [flags EXCEPT ![t] = {"WAIT"}]
      /\ at' = [at EXCEPT ![t] = "lock"] /\ using' = [using EXCEPT ![t] = m]
    BY DEF LockContended, Enqueued, Goes, IInv, StateOK
<1>2. first[m] \in Seq(Thread) /\ IsInjective(first[m]) /\ ~Contains(first[m], t)
    BY DEF IInv, StateOK, LockersQueued
<1>3. /\ Append(first[m], t) \in Seq(Thread) /\ IsInjective(Append(first[m], t))
      /\ \A u : Contains(Append(first[m], t), u) <=> Contains(first[m], u) \/ u = t
    BY <1>2, AppendList
<1>4. StateOK'
    BY <1>1, <1>3 DEF IInv, StateOK
<1>5. /\ at'[t] = "lock" /\ using'[t] = m /\ flags'[t] = {"WAIT"}
      /\ \A u \in Thread \ {t} : at'[u] = at[u] /\ using'[u] = using[u] /\ flags'[u] = flags[u]
      /\ first'[m] = Append(first[m], t)
      /\ \A n \in Mutex \ {m} : first'[n] = first[n]
    BY <1>1 DEF IInv, StateOK
<1>6. LockersQueued'
    <2>1. \A n \in Mutex, u \in Thread :
            Contains(first'[n], u) <=> at'[u] = "lock" /\ using'[u] = n /\ owner[n] # u
        <3> TAKE n \in Mutex, u \in Thread
        <3>1. Contains(first[n], u) <=> at[u] = "lock" /\ using[u] = n /\ owner[n] # u
            BY DEF IInv, LockersQueued
        <3>2. CASE n = m
            BY <1>1, <1>3, <1>5, <3>1, <3>2
        <3>3. CASE n # m
            BY <1>1, <1>5, <3>1, <3>3
        <3> QED
            BY <3>2, <3>3
    <2>2. \A n \in Mutex, u \in Thread : owner[n] = u /\ at'[u] = "lock" => flags'[u] = {}
        <3> TAKE n \in Mutex, u \in Thread
        <3>1. owner[n] # t
            BY <1>1
        <3>2. owner[n] = u /\ at[u] = "lock" => flags[u] = {}
            BY DEF IInv, LockersQueued
        <3> QED
            BY <3>1, <3>2, <1>5
    <2>3. \A n \in Mutex : IsInjective(first'[n]) /\ (owner[n] = NoThread => first'[n] = <<>>)
        BY <1>1, <1>3, <1>5 DEF IInv, LockersQueued
    <2> QED
        BY <1>1, <2>1, <2>2, <2>3 DEF LockersQueued
<1>7. WaitersListed'
    BY <1>5 DEF IInv, WaitersListed
<1>8. Counts'
    BY <1>1, <1>5 DEF IInv, Counts, StateOK
<1>9. OneMutex'
    BY <1>1, <1>5 DEF IInv, OneMutex
<1> QED
    BY <1>4, <1>6, <1>7, <1>8, <1>9 DEF IInv

(* IRQdoMutexLock, from lock and from wait.                                *)
LEMMA LockKeeps ==
    ASSUME IInv, NEW t \in Thread, NEW m \in Mutex,
           at[t] # "lock", flags[t] = {},
           \A n \in Mutex : owner[n] = t => n = m,
           IRQdoMutexLock(t, m), cond' = cond
    PROVE  IInv'
<1>1. CASE LockContended(t, m) /\ Goes(t, "lock", m)
    BY <1>1, ContendedKeeps
<1>2. CASE (TakeFree(t, m) \/ TakeAgain(t, m) \/ LockOwned(t, m)) /\ Goes(t, "code", NoMutex)
    <2>1. /\ at' = [at EXCEPT ![t] = "code"]
          /\ using' \in [Thread -> Mutex \union {NoMutex}]
          /\ \A u \in Thread \ {t} : using'[u] = using[u]
        BY <1>2 DEF Goes, IInv, StateOK
    <2> QED
        BY <1>2, <2>1, TookKeeps
<1> QED
    BY <1>1, <1>2 DEF IRQdoMutexLock

-----------------------------------------------------------------------------
(* IRQdoMutexUnlock, from unlock and from wait: the mutex is left once, or *)
(* goes to the first of its list, which is in the waiting loop and wakes.  *)
LEMMA UnlockKeeps ==
    ASSUME IInv, NEW t \in Thread, NEW m \in Mutex,
           at[t] = "code", owner[m] = t,
           IRQdoMutexUnlock(m),
           NEW a \in {"code", "wait"}, at' = [at EXCEPT ![t] = a],
           a = "wait" => using'[t] = m,
           using' \in [Thread -> Mutex \union {NoMutex}],
           \A u \in Thread \ {t} : using'[u] = using[u] /\ flags'[u] = Awake(m)[u]
    PROVE  /\ owner' \in [Mutex -> Thread \union {NoThread}]
           /\ recursive' \in [Mutex -> Nat \union {-1}]
           /\ first' \in [Mutex -> Seq(Thread)]
           /\ Awake(m) \in [Thread -> SUBSET {"WAIT", "WAIT_COND"}]
           /\ \A u \in Thread :
                /\ "WAIT_COND" \in Awake(m)[u] <=> "WAIT_COND" \in flags[u]
                /\ Awake(m)[u] \subseteq flags[u]
           /\ LockersQueued' /\ Counts' /\ OneMutex'
<1> USE NullAssumption
<1>1. /\ at'[t] = a /\ \A u \in Thread \ {t} : at'[u] = at[u]
      /\ first[m] \in Seq(Thread) /\ IsInjective(first[m])
      /\ recursive[m] \in Nat \union {-1}
    BY DEF IInv, StateOK, LockersQueued
<1>2. CASE recursive[m] > 0
    <2>1. /\ owner' = owner /\ first' = first /\ Awake(m) = flags
          /\ recursive' = [recursive EXCEPT ![m] = @ - 1]
        BY <1>2 DEF IRQdoMutexUnlock, Awake
    <2>2. m \in Recursive
        BY <1>2 DEF IInv, Counts
    <2>3. recursive' \in [Mutex -> Nat \union {-1}]
        BY <2>1, <1>2, <1>1 DEF IInv, StateOK
    <2>4. LockersQueued'
        <3>1. \A n \in Mutex, u \in Thread :
                Contains(first[n], u) <=> at'[u] = "lock" /\ using'[u] = n /\ owner[n] # u
            BY <1>1 DEF IInv, LockersQueued
        <3>2. \A n \in Mutex, u \in Thread : owner[n] = u /\ at'[u] = "lock" => flags'[u] = {}
            <4> TAKE n \in Mutex, u \in Thread
            <4>1. owner[n] = u /\ at[u] = "lock" => flags[u] = {}
                BY DEF IInv, LockersQueued
            <4>2. CASE u = t
                BY <1>1, <4>2
            <4>3. CASE u # t
                BY <1>1, <2>1, <4>1, <4>3
            <4> QED
                BY <4>2, <4>3
        <3> QED
            BY <2>1, <3>1, <3>2 DEF IInv, LockersQueued
    <2>5. Counts'
        BY <2>1, <2>2, <1>1, <1>2 DEF IInv, Counts, StateOK
    <2>6. OneMutex'
        BY <2>1, <1>1 DEF IInv, OneMutex
    <2> QED
        BY <2>1, <2>3, <2>4, <2>5, <2>6 DEF IInv, StateOK
<1>3. CASE ~(recursive[m] > 0) /\ first[m] = <<>>
    <2>1. /\ owner' = [owner EXCEPT ![m] = NoThread] /\ first' = first
          /\ Awake(m) = flags /\ recursive' = recursive
        BY <1>3 DEF IRQdoMutexUnlock, Awake
    <2>2. /\ owner' \in [Mutex -> Thread \union {NoThread}] /\ owner'[m] = NoThread
          /\ \A n \in Mutex \ {m} : owner'[n] = owner[n]
        BY <2>1 DEF IInv, StateOK
    <2>3. LockersQueued'
        <3>1. \A n \in Mutex, u \in Thread :
                Contains(first[n], u) <=> at'[u] = "lock" /\ using'[u] = n /\ owner'[n] # u
            BY <1>1, <2>2 DEF IInv, LockersQueued
        <3>2. \A n \in Mutex, u \in Thread : owner'[n] = u /\ at'[u] = "lock" => flags'[u] = {}
            BY <1>1, <2>1, <2>2 DEF IInv, LockersQueued
        <3>3. \A n \in Mutex : owner'[n] = NoThread => first[n] = <<>>
            BY <1>3, <2>2 DEF IInv, LockersQueued
        <3> QED
            BY <2>1, <3>1, <3>2, <3>3 DEF IInv, LockersQueued
    <2>4. Counts'
        BY <2>1, <2>2, <1>1, <1>3 DEF IInv, Counts
    <2>5. OneMutex'
        BY <2>1, <2>2, <1>1 DEF IInv, OneMutex
    <2> QED
        BY <2>1, <2>2, <2>3, <2>4, <2>5 DEF IInv, StateOK
<1>4. CASE ~(recursive[m] > 0) /\ first[m] # <<>>
    <2> DEFINE h == Head(first[m])
               r == Tail(first[m])
    <2>1. /\ h \in Thread /\ Contains(first[m], h)
          /\ r \in Seq(Thread) /\ IsInjective(r)
          /\ \A u : Contains(r, u) <=> Contains(first[m], u) /\ u # h
        BY <1>1, <1>4, TailList
    <2> HIDE DEF h, r
    <2>2. /\ owner' = [owner EXCEPT ![m] = h] /\ first' = [first EXCEPT ![m] = r]
          /\ Awake(m) = [flags EXCEPT ![h] = @ \ {"WAIT"}] /\ recursive' = recursive
        BY <1>4 DEF IRQdoMutexUnlock, Awake, h, r
    <2>3. at[h] = "lock" /\ using[h] = m /\ h # t /\ "WAIT_COND" \notin flags[h]
        BY <2>1 DEF IInv, LockersQueued, WaitersListed
    <2>4. /\ owner' \in [Mutex -> Thread \union {NoThread}] /\ owner'[m] = h
          /\ \A n \in Mutex \ {m} : owner'[n] = owner[n]
          /\ first' \in [Mutex -> Seq(Thread)] /\ first'[m] = r
          /\ \A n \in Mutex \ {m} : first'[n] = first[n]
        BY <2>1, <2>2 DEF IInv, StateOK
    <2>5. /\ Awake(m) \in [Thread -> SUBSET {"WAIT", "WAIT_COND"}]
          /\ Awake(m)[h] = {} /\ \A u \in Thread \ {h} : Awake(m)[u] = flags[u]
        BY <2>1, <2>2, <2>3 DEF IInv, StateOK
    <2>6. flags'[h] = {} /\ at'[h] = "lock" /\ using'[h] = m
        BY <2>1, <2>3, <2>5, <1>1
    <2>7. \A n \in Mutex : owner[n] # h
        BY <2>1, <2>3 DEF IInv, OneMutex, LockersQueued
    <2>8. LockersQueued'
        <3>1. \A n \in Mutex, u \in Thread :
                Contains(first'[n], u) <=> at'[u] = "lock" /\ using'[u] = n /\ owner'[n] # u
            <4> TAKE n \in Mutex, u \in Thread
            <4>1. Contains(first[n], u) <=> at[u] = "lock" /\ using[u] = n /\ owner[n] # u
                BY DEF IInv, LockersQueued
            <4>2. Contains(first'[n], u) <=> Contains(first[n], u) /\ ~(n = m /\ u = h)
                BY <2>1, <2>4
            <4>3. at[u] = "lock" /\ using[u] = n <=> at'[u] = "lock" /\ using'[u] = n
                BY <1>1
            <4>4. at[u] = "lock" => ~(n = m /\ owner[n] = u)
                BY <1>1
            <4> QED
                BY <4>1, <4>2, <4>3, <4>4, <2>4
        <3>2. \A n \in Mutex, u \in Thread : owner'[n] = u /\ at'[u] = "lock" => flags'[u] = {}
            <4> TAKE n \in Mutex, u \in Thread
            <4>1. owner[n] = u /\ at[u] = "lock" => flags[u] = {}
                BY DEF IInv, LockersQueued
            <4> QED
                BY <4>1, <2>4, <2>5, <2>6, <1>1
        <3>3. \A n \in Mutex : IsInjective(first'[n]) /\ (owner'[n] = NoThread => first'[n] = <<>>)
            BY <2>1, <2>4 DEF IInv, LockersQueued
        <3> QED
            BY <3>1, <3>2, <3>3 DEF LockersQueued
    <2>9. Counts'
        BY <2>1, <2>2, <2>4, <1>1, <1>4 DEF IInv, Counts
    <2>10. OneMutex'
        <3>1. \A n \in Mutex : owner'[n] # t
            BY <2>3, <2>4 DEF IInv, OneMutex
        <3>2. \A n \in Mutex : owner'[n] = h => n = m
            BY <2>4, <2>7
        <3>3. \A n \in Mutex, u \in Thread \ {t, h} : owner'[n] = u => owner[n] = u
            BY <2>4
        <3>4. \A u \in Thread \ {t} : at'[u] = at[u] /\ using'[u] = using[u]
            BY <1>1
        <3>5. at'[t] # "code" => using'[t] \in Mutex
            BY <1>1
        <3> QED
            BY <3>1, <3>2, <3>3, <3>4, <3>5, <2>3 DEF IInv, OneMutex
    <2> QED
        BY <2>2, <2>3, <2>4, <2>5, <2>8, <2>9, <2>10 DEF IInv, StateOK
<1> QED
    BY <1>2, <1>3, <1>4

-----------------------------------------------------------------------------
(* One step of the specification.                                          *)
LEMMA UnlockStep ==
    ASSUME IInv, NEW t \in Thread, NEW m \in Mutex, owner[m] = t, Unlock(t, m)
    PROVE  IInv'
<1>1. at' = [at EXCEPT ![t] = "code"] /\ at' = at /\ using' = using /\ cond' = cond
      /\ flags' = Awake(m) /\ status' = status
    BY DEF Unlock, InCode, IInv, StateOK
<1>2. using' \in [Thread -> Mutex \union {NoMutex}]
    BY <1>1 DEF IInv, StateOK
<1>3. /\ owner' \in [Mutex -> Thread \union {NoThread}]
      /\ recursive' \in [Mutex -> Nat \union {-1}]
      /\ first' \in [Mutex -> Seq(Thread)]
      /\ Awake(m) \in [Thread -> SUBSET {"WAIT", "WAIT_COND"}]
      /\ \A u \in Thread :
            /\ "WAIT_COND" \in Awake(m)[u] <=> "WAIT_COND" \in flags[u]
            /\ Awake(m)[u] \subseteq flags[u]
      /\ LockersQueued' /\ Counts' /\ OneMutex'
    <2>1. at[t] = "code" /\ owner[m] = t /\ IRQdoMutexUnlock(m)
        BY DEF Unlock, InCode
    <2>2. \A u \in Thread \ {t} : using'[u] = using[u] /\ flags'[u] = Awake(m)[u]
        BY <1>1
    <2> QED
        BY <1>1, <1>2, <2>1, <2>2, UnlockKeeps
<1>4. StateOK'
    BY <1>1, <1>3 DEF IInv, StateOK
<1>5. WaitersListed'
    BY <1>1, <1>3 DEF IInv, WaitersListed
<1> QED
    BY <1>3, <1>4, <1>5 DEF IInv

LEMMA CondWaitStep ==
    ASSUME IInv, NEW t \in Thread, NEW m \in Mutex, owner[m] = t, CondWait(t, m)
    PROVE  IInv'
<1>1. /\ at' = [at EXCEPT ![t] = "wait"] /\ using' = [using EXCEPT ![t] = m]
      /\ cond' = Append(cond, t) /\ status' = status
      /\ flags' = [Awake(m) EXCEPT ![t] = @ \union {"WAIT_COND"}]
      /\ at[t] = "code" /\ owner[m] = t /\ IRQdoMutexUnlock(m) /\ flags[t] = {}
    BY DEF CondWait, InCode, MayWait, Goes
<1>2. /\ using' \in [Thread -> Mutex \union {NoMutex}] /\ using'[t] = m
      /\ \A u \in Thread \ {t} : using'[u] = using[u]
    BY <1>1 DEF IInv, StateOK
<1>3. \A u \in Thread \ {t} : flags'[u] = Awake(m)[u]
    <2>1. DOMAIN Awake(m) = Thread
        BY DEF Awake, IInv, StateOK
    <2> QED
        BY <1>1, <2>1
<1>4. /\ owner' \in [Mutex -> Thread \union {NoThread}]
      /\ recursive' \in [Mutex -> Nat \union {-1}]
      /\ first' \in [Mutex -> Seq(Thread)]
      /\ Awake(m) \in [Thread -> SUBSET {"WAIT", "WAIT_COND"}]
      /\ \A u \in Thread :
            /\ "WAIT_COND" \in Awake(m)[u] <=> "WAIT_COND" \in flags[u]
            /\ Awake(m)[u] \subseteq flags[u]
      /\ LockersQueued' /\ Counts' /\ OneMutex'
    <2> DEFINE a == "wait"
    <2>1. a \in {"code", "wait"} /\ at' = [at EXCEPT ![t] = a] /\ (a = "wait" => using'[t] = m)
        BY <1>1, <1>2
    <2>2. \A u \in Thread \ {t} : using'[u] = using[u] /\ flags'[u] = Awake(m)[u]
        BY <1>2, <1>3
    <2> HIDE DEF a
    <2> QED
        BY <1>1, <1>2, <2>1, <2>2, UnlockKeeps
<1>5. ~Contains(cond, t) /\ cond \in Seq(Thread) /\ IsInjective(cond)
    BY <1>1 DEF IInv, StateOK, WaitersListed
<1>6. /\ Append(cond, t) \in Seq(Thread) /\ IsInjective(Append(cond, t))
      /\ \A u : Contains(Append(cond, t), u) <=> Contains(cond, u) \/ u = t
    BY <1>5, AppendList
<1>7. StateOK'
    BY <1>1, <1>2, <1>4, <1>6 DEF IInv, StateOK
<1>8. WaitersListed'
    <2>1. /\ at'[t] = "wait" /\ "WAIT_COND" \in flags'[t]
          /\ \A u \in Thread \ {t} : at'[u] = at[u]
        BY <1>1, <1>4 DEF IInv, StateOK
    <2>2. \A u \in Thread : Contains(cond', u) <=> Contains(cond, u) \/ u = t
        BY <1>1, <1>6
    <2>3. \A u \in Thread \ {t} : "WAIT_COND" \in flags'[u] <=> "WAIT_COND" \in flags[u]
        BY <1>3, <1>4
    <2>4. \A u \in Thread : Contains(cond', u) <=> "WAIT_COND" \in flags'[u]
        BY <2>1, <2>2, <2>3 DEF IInv, WaitersListed
    <2>5. \A u \in Thread : Contains(cond', u) => at'[u] = "wait"
        BY <2>1, <2>2 DEF IInv, WaitersListed
    <2>6. IsInjective(cond')
        BY <1>1, <1>6
    <2> QED
        BY <2>4, <2>5, <2>6 DEF WaitersListed
<1> QED
    BY <1>4, <1>7, <1>8 DEF IInv

LEMMA LoopStep == ASSUME IInv, NEW t \in Thread, LockLoop(t) PROVE IInv'
<1> USE NullAssumption
<1>1. /\ owner' = owner /\ recursive' = recursive /\ first' = first /\ cond' = cond
      /\ status' = status /\ at[t] = "lock" /\ flags[t] = {} /\ using[t] \in Mutex
    BY DEF LockLoop, IInv, OneMutex
<1>2. CASE Granted(t)
    <2>1. at' = [at EXCEPT ![t] = "code"] /\ using' = [using EXCEPT ![t] = NoMutex]
          /\ flags' = flags /\ owner[using[t]] = t
        BY <1>2 DEF LockLoop, Goes, Granted
    <2>2. StateOK'
        BY <1>1, <2>1 DEF IInv, StateOK
    <2>3. at'[t] = "code" /\ \A u \in Thread \ {t} : at'[u] = at[u] /\ using'[u] = using[u]
        BY <2>1 DEF IInv, StateOK
    <2>4. LockersQueued'
        <3>1. \A n \in Mutex, u \in Thread :
                Contains(first[n], u) <=> at'[u] = "lock" /\ using'[u] = n /\ owner[n] # u
            <4> TAKE n \in Mutex, u \in Thread
            <4>1. Contains(first[n], u) <=> at[u] = "lock" /\ using[u] = n /\ owner[n] # u
                BY DEF IInv, LockersQueued
            <4>2. CASE u = t
                BY <4>1, <4>2, <2>1, <2>3
            <4>3. CASE u # t
                BY <4>1, <4>3, <2>3
            <4> QED
                BY <4>2, <4>3
        <3>2. \A n \in Mutex, u \in Thread : owner[n] = u /\ at'[u] = "lock" => flags[u] = {}
            BY <2>3 DEF IInv, LockersQueued
        <3> QED
            BY <1>1, <2>1, <3>1, <3>2 DEF IInv, LockersQueued
    <2>5. WaitersListed'
        BY <1>1, <2>1, <2>3 DEF IInv, WaitersListed
    <2>6. Counts' /\ OneMutex'
        BY <1>1, <2>3 DEF IInv, Counts, OneMutex
    <2> QED
        BY <2>2, <2>4, <2>5, <2>6 DEF IInv
<1>3. CASE ~Granted(t)
    <2>1. at' = at /\ using' = using /\ flags' = [flags EXCEPT ![t] = {"WAIT"}]
        BY <1>3 DEF LockLoop
    <2>2. \A n \in Mutex : owner[n] # t
        BY <1>1, <1>3 DEF Granted, IInv, OneMutex
    <2>3. StateOK'
        BY <1>1, <2>1 DEF IInv, StateOK
    <2>4. flags'[t] = {"WAIT"} /\ \A u \in Thread \ {t} : flags'[u] = flags[u]
        BY <2>1 DEF IInv, StateOK
    <2>5. LockersQueued'
        BY <1>1, <2>1, <2>2, <2>4 DEF IInv, LockersQueued
    <2>6. WaitersListed'
        BY <1>1, <2>1, <2>4 DEF IInv, WaitersListed
    <2>7. Counts' /\ OneMutex'
        BY <1>1, <2>1 DEF IInv, Counts, OneMutex
    <2> QED
        BY <2>3, <2>5, <2>6, <2>7 DEF IInv
<1> QED
    BY <1>2, <1>3

(* signal, broadcast and stray wakeups take a flag from threads.           *)
LEMMA SignalStep ==
    ASSUME IInv, NEW t \in Thread, Signal(t) \/ Broadcast(t) \/ SpuriousWakeup(t)
    PROVE  IInv'
<1> USE NullAssumption
<1>1. /\ owner' = owner /\ recursive' = recursive /\ first' = first
      /\ status' = status /\ at' = at /\ using' = using
    BY DEF Signal, Broadcast, SpuriousWakeup
<1>2. /\ flags' \in [Thread -> SUBSET {"WAIT", "WAIT_COND"}]
      /\ \A u \in Thread : flags'[u] \subseteq flags[u]
      /\ cond' \in Seq(Thread) /\ IsInjective(cond')
      /\ \A u \in Thread : Contains(cond', u) <=> "WAIT_COND" \in flags'[u]
    <2>1. CASE Signal(t)
        <3>1. /\ cond \in Seq(Thread) /\ IsInjective(cond) /\ cond # <<>>
              /\ cond' = Tail(cond)
              /\ flags' = [flags EXCEPT ![Head(cond)] = @ \ {"WAIT_COND"}]
            BY <2>1 DEF Signal, Signalled, IInv, StateOK, WaitersListed
        <3>2. /\ Head(cond) \in Thread
              /\ Tail(cond) \in Seq(Thread) /\ IsInjective(Tail(cond))
              /\ \A u : Contains(Tail(cond), u) <=> Contains(cond, u) /\ u # Head(cond)
            BY <3>1, TailList
        <3> DEFINE h == Head(cond)
        <3>3. /\ flags' \in [Thread -> SUBSET {"WAIT", "WAIT_COND"}]
              /\ flags'[h] = flags[h] \ {"WAIT_COND"}
              /\ \A u \in Thread \ {h} : flags'[u] = flags[u]
            BY <3>1, <3>2 DEF IInv, StateOK
        <3> HIDE DEF h
        <3>4. \A u \in Thread : Contains(cond', u) <=> Contains(cond, u) /\ u # h
            BY <3>1, <3>2 DEF h
        <3> QED
            BY <3>1, <3>2, <3>3, <3>4 DEF IInv, WaitersListed
    <2>2. CASE Broadcast(t)
        <3>1. /\ cond' = <<>> /\ flags \in [Thread -> SUBSET {"WAIT", "WAIT_COND"}]
              /\ flags' = [u \in Thread |->
                    IF Contains(cond, u) THEN flags[u] \ {"WAIT_COND"} ELSE flags[u]]
            BY <2>2 DEF Broadcast, IInv, StateOK
        <3>2. \A u \in Thread : Contains(cond, u) <=> "WAIT_COND" \in flags[u]
            BY DEF IInv, WaitersListed
        <3>3. flags' \in [Thread -> SUBSET {"WAIT", "WAIT_COND"}]
              /\ \A u \in Thread : flags'[u] = flags[u] \ {"WAIT_COND"}
            BY <3>1, <3>2
        <3> QED
            BY <3>1, <3>3, EmptyList
    <2>3. CASE SpuriousWakeup(t)
        <3>1. cond' = cond /\ flags' = [flags EXCEPT ![t] = @ \ {"WAIT"}]
            BY <2>3 DEF SpuriousWakeup
        <3>2. /\ flags' \in [Thread -> SUBSET {"WAIT", "WAIT_COND"}]
              /\ \A u \in Thread : flags'[u] \subseteq flags[u]
              /\ \A u \in Thread : "WAIT_COND" \in flags'[u] <=> "WAIT_COND" \in flags[u]
            BY <3>1 DEF IInv, StateOK
        <3> QED
            BY <3>1, <3>2 DEF IInv, StateOK, WaitersListed
    <2> QED
        BY <2>1, <2>2, <2>3
<1>3. StateOK'
    BY <1>1, <1>2 DEF IInv, StateOK
<1>4. LockersQueued'
    BY <1>1, <1>2 DEF IInv, LockersQueued
<1>5. WaitersListed'
    BY <1>1, <1>2 DEF IInv, WaitersListed
<1>6. Counts' /\ OneMutex'
    BY <1>1 DEF IInv, Counts, OneMutex
<1> QED
    BY <1>3, <1>4, <1>5, <1>6 DEF IInv

(* How deep a thread is inside of a mutex by the variables of the code, and *)
(* that this is what lock and wait told the thread.                        *)
Depth(t, m) ==
    IF owner[m] = t /\ at[t] # "lock"
    THEN IF recursive[m] > 0 THEN recursive[m] + 1 ELSE 1
    ELSE 0

HeldInv ==
    /\ held \in [Thread -> [Mutex -> Nat]]
    /\ \A t \in Thread, m \in Mutex : held[t][m] = Depth(t, m)

LEMMA InitHeldInv == Init => HeldInv
BY NullAssumption DEF Init, HeldInv, Depth

(* Who holds a mutex by what it was told is its owner.                     *)
LEMMA OwnerHolds ==
    ASSUME HeldInv, NEW t \in Thread, NEW m \in Mutex, held[t][m] > 0
    PROVE  owner[m] = t
BY DEF HeldInv, Depth

(* What a client asks of itself before lock, said of the owners.           *)
LEMMA OneHeld ==
    ASSUME IInv, HeldInv, NEW t \in Thread, NEW m \in Mutex, at[t] = "code", MayLock(t, m)
    PROVE  \A n \in Mutex : owner[n] = t => n = m
<1> SUFFICES ASSUME NEW n \in Mutex, owner[n] = t PROVE held[t][n] > 0
    BY DEF MayLock
<1>1. recursive[n] \in Nat \union {-1}
    BY DEF IInv, StateOK
<1> QED
    BY <1>1 DEF HeldInv, Depth

(* One step of the specification, for the variables of the code.           *)
LEMMA NextIInv == IInv /\ HeldInv /\ [Next]_vars => IInv'
<1> SUFFICES ASSUME IInv, HeldInv, [Next]_vars PROVE IInv'
    OBVIOUS
<1>1. CASE UNCHANGED vars
    BY <1>1 DEF vars, IInv, StateOK, LockersQueued, WaitersListed, Counts, OneMutex
<1>2. ASSUME NEW t \in Thread, NEW m \in Mutex, Lock(t, m) PROVE IInv'
    <2>1. at[t] # "lock" /\ flags[t] = {} /\ (\A n \in Mutex : owner[n] = t => n = m)
          /\ IRQdoMutexLock(t, m) /\ cond' = cond
        BY <1>2, OneHeld DEF Lock, InCode
    <2> QED
        BY <2>1, LockKeeps
<1>3. ASSUME NEW t \in Thread, NEW m \in Mutex, TryLock(t, m) PROVE IInv'
    <2>1. at[t] = "code" /\ flags[t] = {} /\ (\A n \in Mutex : owner[n] = t => n = m)
          /\ (TakeFree(t, m) \/ TakeAgain(t, m)) /\ cond' = cond /\ at' = at /\ using' = using
        BY <1>3, OneHeld DEF TryLock, InCode
    <2>2. at' = [at EXCEPT ![t] = "code"] /\ using' \in [Thread -> Mutex \union {NoMutex}]
        BY <2>1 DEF IInv, StateOK
    <2> QED
        BY <2>1, <2>2, TookKeeps
<1>4. ASSUME NEW t \in Thread, NEW m \in Mutex, Unlock(t, m) PROVE IInv'
    <2>1. owner[m] = t
        BY <1>4, OwnerHolds DEF Unlock, InCode
    <2> QED
        BY <1>4, <2>1, UnlockStep
<1>5. ASSUME NEW t \in Thread, NEW m \in Mutex, CondWait(t, m) PROVE IInv'
    <2>1. owner[m] = t
        BY <1>5, OwnerHolds DEF CondWait, MayWait, InCode
    <2> QED
        BY <1>5, <2>1, CondWaitStep
<1>6. ASSUME NEW t \in Thread, LockLoop(t) PROVE IInv'
    BY <1>6, LoopStep
<1>7. ASSUME NEW t \in Thread, CondReturns(t) PROVE IInv'
    <2>1. at[t] = "wait" /\ flags[t] = {} /\ IRQdoMutexLock(t, using[t]) /\ cond' = cond
        BY <1>7 DEF CondReturns
    <2>2. using[t] \in Mutex /\ \A n \in Mutex : owner[n] = t => n = using[t]
        BY <2>1 DEF IInv, OneMutex
    <2> QED
        BY <2>1, <2>2, LockKeeps
<1>8. ASSUME NEW t \in Thread, Signal(t) \/ Broadcast(t) \/ SpuriousWakeup(t) PROVE IInv'
    BY <1>8, SignalStep
<1> QED
    BY <1>1, <1>2, <1>3, <1>4, <1>5, <1>6, <1>7, <1>8 DEF Next

-----------------------------------------------------------------------------
(* What a step that changes one depth means to a client.                   *)
Moved(t, m) == AM!Enter(t, m) \/ AM!Reenter(t, m) \/ AM!Leave(t, m)

(* A step that moves the depth at one place, and tells the client so.      *)
LEMMA DepthMoves ==
    ASSUME HeldInv, NEW t \in Thread, NEW m \in Mutex,
           \A u \in Thread, n \in Mutex : ~(u = t /\ n = m) => Depth(u, n)' = Depth(u, n),
           \/ Depth(t, m)' = Depth(t, m) /\ held' = held
           \/ /\ Depth(t, m)' = 1 /\ (\A u \in Thread : Depth(u, m) = 0)
              /\ Returned(t, m)
           \/ /\ Depth(t, m)' = Depth(t, m) + 1 /\ Depth(t, m) > 0 /\ m \in Recursive
              /\ Returned(t, m)
           \/ /\ Depth(t, m)' = Depth(t, m) - 1 /\ Depth(t, m) > 0
              /\ Leaves(t, m)
    PROVE  HeldInv' /\ (held' = held \/ Moved(t, m))
<1> DEFINE d == Depth(t, m)
           e == Depth(t, m)'
<1>1. /\ held \in [Thread -> [Mutex -> Nat]] /\ held[t][m] = d /\ d \in Nat
      /\ \A u \in Thread, n \in Mutex : held[u][n] = Depth(u, n)
    BY DEF HeldInv
<1>2. /\ d = Depth(t, m) /\ e = Depth(t, m)'
    OBVIOUS
<1> HIDE DEF d, e
<1>3. ASSUME held' = [held EXCEPT ![t][m] = e], e \in Nat PROVE HeldInv'
    <2>1. held' \in [Thread -> [Mutex -> Nat]] /\ held'[t][m] = e
        BY <1>1, <1>3
    <2>2. \A u \in Thread, n \in Mutex : ~(u = t /\ n = m) => held'[u][n] = held[u][n]
        BY <1>1, <1>3
    <2>3. \A u \in Thread, n \in Mutex : held'[u][n] = Depth(u, n)'
        BY <2>1, <2>2, <1>1, <1>2
    <2> QED
        BY <2>1, <2>3 DEF HeldInv
<1>4. CASE Depth(t, m)' = Depth(t, m) /\ held' = held
    <2>1. held' = [held EXCEPT ![t][m] = e] /\ e \in Nat
        BY <1>1, <1>2, <1>4
    <2> QED
        BY <2>1, <1>3, <1>4
<1>5. CASE /\ Depth(t, m)' = 1 /\ (\A u \in Thread : Depth(u, m) = 0)
           /\ Returned(t, m)
    <2>1. d = 0 /\ e = 1 /\ \A u \in Thread : held[u][m] = 0
        BY <1>1, <1>2, <1>5
    <2>2. held' = [held EXCEPT ![t][m] = 1]
        BY <2>1, <1>1, <1>5 DEF Returned
    <2> QED
        BY <2>1, <2>2, <1>3 DEF Moved, AM!Enter
<1>6. CASE /\ Depth(t, m)' = Depth(t, m) + 1 /\ Depth(t, m) > 0 /\ m \in Recursive
           /\ Returned(t, m)
    <2>1. held' = [held EXCEPT ![t][m] = @ + 1] /\ held[t][m] > 0 /\ e = d + 1
        BY <1>1, <1>2, <1>6 DEF Returned
    <2>2. held' = [held EXCEPT ![t][m] = e] /\ e \in Nat
        BY <2>1, <1>1
    <2> QED
        BY <2>1, <2>2, <1>3, <1>6 DEF Moved, AM!Reenter
<1>7. CASE /\ Depth(t, m)' = Depth(t, m) - 1 /\ Depth(t, m) > 0
           /\ Leaves(t, m)
    <2>1. held' = [held EXCEPT ![t][m] = @ - 1] /\ held[t][m] > 0 /\ e = d - 1
        BY <1>1, <1>2, <1>7 DEF Leaves
    <2>2. held' = [held EXCEPT ![t][m] = e] /\ e \in Nat
        BY <2>1, <1>1
    <2> QED
        BY <2>1, <2>2, <1>3 DEF Moved, AM!Leave
<1> QED
    BY <1>4, <1>5, <1>6, <1>7

-----------------------------------------------------------------------------
(* Each action, as a client sees it.                                       *)
LEMMA LockMoves ==
    ASSUME IInv, HeldInv, NEW t \in Thread, NEW m \in Mutex,
           at[t] # "lock", \A n \in Mutex : owner[n] = t => n = m,
           NEW a \in {"code", "lock"}, at' = [at EXCEPT ![t] = a],
           \/ a = "code" /\ (TakeFree(t, m) \/ TakeAgain(t, m) \/ LockOwned(t, m))
           \/ a = "lock" /\ LockContended(t, m)
    PROVE  HeldInv' /\ (held' = held \/ Moved(t, m))
<1> USE NullAssumption
<1>1. /\ at'[t] = a /\ \A u \in Thread \ {t} : at'[u] = at[u]
      /\ recursive[m] \in Nat \union {-1}
    BY DEF IInv, StateOK
<1>2. CASE a = "code" /\ TakeFree(t, m)
    <2>1. /\ owner[m] = NoThread /\ owner'[m] = t /\ recursive' = recursive
          /\ \A n \in Mutex \ {m} : owner'[n] = owner[n]
        BY <1>2 DEF TakeFree, IInv, StateOK
    <2>2. recursive[m] <= 0
        BY <2>1 DEF IInv, Counts
    <2>3. Depth(t, m)' = 1
        BY <2>1, <2>2, <1>1, <1>2 DEF Depth
    <2>4. \A u \in Thread : Depth(u, m) = 0
        BY <2>1 DEF Depth
    <2>5. \A u \in Thread, n \in Mutex : ~(u = t /\ n = m) => Depth(u, n)' = Depth(u, n)
        BY <2>1, <1>1, <1>2 DEF Depth
    <2>6. Returned(t, m)
        BY <1>2 DEF TakeFree
    <2> QED
        BY <2>3, <2>4, <2>5, <2>6, DepthMoves
<1>3. CASE a = "code" /\ TakeAgain(t, m)
    <2>1. /\ owner[m] = t /\ owner' = owner /\ recursive[m] >= 0 /\ recursive'[m] = recursive[m] + 1
          /\ \A n \in Mutex \ {m} : recursive'[n] = recursive[n]
        BY <1>3 DEF TakeAgain, IInv, StateOK
    <2>2. m \in Recursive
        BY <2>1 DEF IInv, Counts
    <2>3. Depth(t, m)' = Depth(t, m) + 1 /\ Depth(t, m) > 0
        BY <2>1, <1>1, <1>3 DEF Depth
    <2>4. \A u \in Thread, n \in Mutex : ~(u = t /\ n = m) => Depth(u, n)' = Depth(u, n)
        BY <2>1, <1>1, <1>3 DEF Depth
    <2>5. Returned(t, m)
        BY <1>3 DEF TakeAgain
    <2> QED
        BY <2>2, <2>3, <2>4, <2>5, DepthMoves
<1>4. CASE \/ a = "code" /\ LockOwned(t, m)
           \/ a = "lock" /\ LockContended(t, m)
    <2>1. owner' = owner /\ recursive' = recursive /\ held' = held /\ (a = "lock" => owner[m] # t)
        BY <1>4 DEF LockOwned, LockContended
    <2>2. \A u \in Thread, n \in Mutex : Depth(u, n)' = Depth(u, n)
        <3> TAKE u \in Thread, n \in Mutex
        <3>1. owner[n] = t => a = "code"
            BY <2>1
        <3> QED
            BY <3>1, <2>1, <1>1 DEF Depth
    <2> QED
        BY <2>1, <2>2, DepthMoves
<1> QED
    BY <1>2, <1>3, <1>4

LEMMA UnlockMoves ==
    ASSUME IInv, HeldInv, NEW t \in Thread, NEW m \in Mutex,
           at[t] = "code", owner[m] = t, IRQdoMutexUnlock(m), Leaves(t, m),
           NEW a \in {"code", "wait"}, at' = [at EXCEPT ![t] = a]
    PROVE  HeldInv' /\ (held' = held \/ Moved(t, m))
<1> USE NullAssumption
<1>1. /\ at'[t] = a /\ \A u \in Thread \ {t} : at'[u] = at[u]
      /\ recursive[m] \in Nat \union {-1}
    BY DEF IInv, StateOK
<1>2. CASE recursive[m] > 0
    <2>1. /\ owner' = owner /\ recursive'[m] = recursive[m] - 1
          /\ \A n \in Mutex \ {m} : recursive'[n] = recursive[n]
        BY <1>2 DEF IRQdoMutexUnlock, IInv, StateOK
    <2>2. Depth(t, m)' = Depth(t, m) - 1 /\ Depth(t, m) > 0
        BY <2>1, <1>1, <1>2 DEF Depth
    <2>3. \A u \in Thread, n \in Mutex : ~(u = t /\ n = m) => Depth(u, n)' = Depth(u, n)
        BY <2>1, <1>1 DEF Depth
    <2> QED
        BY <2>2, <2>3, DepthMoves
<1>3. CASE ~(recursive[m] > 0)
    <2>1. /\ recursive' = recursive /\ \A n \in Mutex \ {m} : owner'[n] = owner[n]
          /\ \A u \in Thread : owner'[m] = u => at[u] = "lock"
        <3>1. CASE first[m] = <<>>
            BY <1>3, <3>1 DEF IRQdoMutexUnlock, IInv, StateOK
        <3>2. CASE first[m] # <<>>
            <4>1. Head(first[m]) \in Thread /\ Contains(first[m], Head(first[m]))
                BY <3>2, TailList DEF IInv, StateOK, LockersQueued
            <4>2. at[Head(first[m])] = "lock"
                BY <4>1 DEF IInv, LockersQueued
            <4> QED
                BY <4>2, <3>2, <1>3 DEF IRQdoMutexUnlock, IInv, StateOK
        <3> QED
            BY <3>1, <3>2
    <2>2. Depth(t, m) = 1 /\ Depth(t, m)' = 0
        BY <2>1, <1>1, <1>3 DEF Depth
    <2>3. \A u \in Thread, n \in Mutex : ~(u = t /\ n = m) => Depth(u, n)' = Depth(u, n)
        <3> TAKE u \in Thread, n \in Mutex
        <3>1. CASE n = m /\ u # t
            <4>1. owner[m] # u /\ ~(owner'[m] = u /\ at'[u] # "lock")
                BY <2>1, <1>1, <3>1
            <4> QED
                BY <4>1, <3>1 DEF Depth
        <3>2. CASE n # m
            BY <2>1, <1>1, <3>2 DEF Depth
        <3> QED
            BY <3>1, <3>2
    <2> QED
        BY <2>2, <2>3, DepthMoves
<1> QED
    BY <1>2, <1>3

LEMMA LoopMoves ==
    ASSUME IInv, HeldInv, NEW t \in Thread, LockLoop(t)
    PROVE  HeldInv' /\ (held' = held \/ Moved(t, using[t]))
<1> USE NullAssumption
<1>0. PICK m \in Mutex : m = using[t]
    BY DEF LockLoop, IInv, OneMutex
<1>1. at[t] = "lock" /\ owner' = owner /\ recursive' = recursive
    BY DEF LockLoop, IInv, OneMutex
<1>2. CASE Granted(t)
    <2>1. owner[m] = t /\ at' = [at EXCEPT ![t] = "code"] /\ Returned(t, m)
        BY <1>0, <1>2 DEF Granted, LockLoop, Goes
    <2>2. at'[t] = "code" /\ \A u \in Thread \ {t} : at'[u] = at[u]
        BY <2>1 DEF IInv, StateOK
    <2>3. recursive[m] <= 0 /\ recursive[m] \in Nat \union {-1}
        BY <1>1, <2>1 DEF IInv, Counts, StateOK
    <2>4. \A n \in Mutex \ {m} : owner[n] # t
        BY <1>1, <2>1 DEF IInv, OneMutex
    <2>5. Depth(t, m)' = 1 /\ \A u \in Thread : Depth(u, m) = 0
        BY <1>1, <2>1, <2>2, <2>3 DEF Depth
    <2>6. \A u \in Thread, n \in Mutex : ~(u = t /\ n = m) => Depth(u, n)' = Depth(u, n)
        BY <1>1, <2>2, <2>4 DEF Depth
    <2>7. HeldInv' /\ (held' = held \/ Moved(t, m))
        BY <2>1, <2>5, <2>6, DepthMoves
    <2> QED
        BY <2>7, <1>0
<1>3. CASE ~Granted(t)
    BY <1>1, <1>3 DEF LockLoop, HeldInv, Depth
<1> QED
    BY <1>2, <1>3

(* A step keeps what the clients were told in agreement with the owners,   *)
(* and is to them a step of the abstract mutex.                            *)
LEMMA ClientStep ==
    ASSUME IInv, HeldInv, [Next]_vars
    PROVE  HeldInv' /\ [AM!AbstractNext]_held
<1>1. CASE UNCHANGED vars
    BY <1>1 DEF vars, HeldInv, Depth
<1>2. ASSUME NEW t \in Thread, NEW m \in Mutex, Moved(t, m) PROVE AM!AbstractNext
    BY <1>2 DEF Moved, AM!AbstractNext
<1>3. ASSUME NEW t \in Thread, NEW m \in Mutex, IRQdoMutexLock(t, m), at[t] # "lock",
             \A n \in Mutex : owner[n] = t => n = m
      PROVE  HeldInv' /\ (held' = held \/ Moved(t, m))
    <2> DEFINE a == IF LockContended(t, m) THEN "lock" ELSE "code"
    <2>1. LockContended(t, m) => ~(TakeFree(t, m) \/ TakeAgain(t, m) \/ LockOwned(t, m))
        BY DEF LockContended, TakeFree, TakeAgain, LockOwned
    <2>2. a \in {"code", "lock"} /\ at' = [at EXCEPT ![t] = a]
          /\ \/ a = "code" /\ (TakeFree(t, m) \/ TakeAgain(t, m) \/ LockOwned(t, m))
             \/ a = "lock" /\ LockContended(t, m)
        BY <1>3, <2>1 DEF IRQdoMutexLock, Goes
    <2> HIDE DEF a
    <2> QED
        BY <1>3, <2>2, LockMoves
<1>4. ASSUME NEW t \in Thread, NEW m \in Mutex, Lock(t, m) PROVE HeldInv' /\ (held' = held \/ Moved(t, m))
    <2>1. IRQdoMutexLock(t, m) /\ at[t] # "lock" /\ \A n \in Mutex : owner[n] = t => n = m
        BY <1>4, OneHeld DEF Lock, InCode
    <2> QED
        BY <1>3, <2>1
<1>5. ASSUME NEW t \in Thread, NEW m \in Mutex, TryLock(t, m) PROVE HeldInv' /\ (held' = held \/ Moved(t, m))
    <2> DEFINE a == "code"
    <2>1. at[t] # "lock" /\ (\A n \in Mutex : owner[n] = t => n = m)
          /\ a \in {"code", "lock"} /\ at' = [at EXCEPT ![t] = a]
          /\ a = "code" /\ (TakeFree(t, m) \/ TakeAgain(t, m) \/ LockOwned(t, m))
        BY <1>5, OneHeld DEF TryLock, InCode, IInv, StateOK
    <2> HIDE DEF a
    <2> QED
        BY <2>1, LockMoves
<1>6. ASSUME NEW t \in Thread, NEW m \in Mutex, Unlock(t, m) PROVE HeldInv' /\ (held' = held \/ Moved(t, m))
    <2> DEFINE a == "code"
    <2>1. at[t] = "code" /\ owner[m] = t /\ IRQdoMutexUnlock(m) /\ Leaves(t, m)
          /\ a \in {"code", "wait"} /\ at' = [at EXCEPT ![t] = a]
        BY <1>6, OwnerHolds DEF Unlock, InCode, IInv, StateOK
    <2> HIDE DEF a
    <2> QED
        BY <2>1, UnlockMoves
<1>7. ASSUME NEW t \in Thread, NEW m \in Mutex, CondWait(t, m) PROVE HeldInv' /\ (held' = held \/ Moved(t, m))
    <2> DEFINE a == "wait"
    <2>1. at[t] = "code" /\ owner[m] = t /\ IRQdoMutexUnlock(m) /\ Leaves(t, m)
          /\ a \in {"code", "wait"} /\ at' = [at EXCEPT ![t] = a]
        BY <1>7, OwnerHolds DEF CondWait, MayWait, InCode, Goes
    <2> HIDE DEF a
    <2> QED
        BY <2>1, UnlockMoves
<1>8. ASSUME NEW t \in Thread, LockLoop(t)
      PROVE  using[t] \in Mutex /\ HeldInv' /\ (held' = held \/ Moved(t, using[t]))
    <2>1. using[t] \in Mutex
        BY <1>8 DEF LockLoop, IInv, OneMutex
    <2> QED
        BY <2>1, <1>8, LoopMoves
<1>9. ASSUME NEW t \in Thread, CondReturns(t)
      PROVE  using[t] \in Mutex /\ HeldInv' /\ (held' = held \/ Moved(t, using[t]))
    <2>1. at[t] = "wait" /\ IRQdoMutexLock(t, using[t])
        BY <1>9 DEF CondReturns
    <2>2. using[t] \in Mutex /\ \A n \in Mutex : owner[n] = t => n = using[t]
        BY <2>1 DEF IInv, OneMutex
    <2> QED
        BY <2>1, <2>2, <1>3
<1>10. ASSUME NEW t \in Thread, Signal(t) \/ Broadcast(t) \/ SpuriousWakeup(t)
       PROVE  HeldInv' /\ held' = held
    <2>1. owner' = owner /\ at' = at /\ recursive' = recursive /\ held' = held
        BY <1>10 DEF Signal, Broadcast, SpuriousWakeup
    <2> QED
        BY <2>1 DEF HeldInv, Depth
<1> HIDE DEF IInv, HeldInv
<1> QED
    BY <1>1, <1>2, <1>4, <1>5, <1>6, <1>7, <1>8, <1>9, <1>10 DEF Next

-----------------------------------------------------------------------------
LEMMA Inductive == Spec => [](IInv /\ HeldInv)
<1>1. Init => IInv /\ HeldInv
    BY InitIInv, InitHeldInv
<1>2. IInv /\ HeldInv /\ [Next]_vars => IInv' /\ HeldInv'
    BY NextIInv, ClientStep
<1> QED
    BY <1>1, <1>2, PTL DEF Spec

(* Every reachable state is well typed.                                    *)
THEOREM TypeCorrect == Spec => []TypeOK
<1>1. IInv /\ HeldInv => TypeOK
    BY DEF IInv, StateOK, HeldInv, TypeOK
<1> QED
    BY <1>1, Inductive, PTL

(* pthread_private.h:53-121 and pthread.cpp:246-258: whoever sleeps for a  *)
(* mutex or for the condition is in the list its waker takes it from, and  *)
(* a thread that was given the mutex is awake.                             *)
THEOREM NobodyLost == Spec => []SleepersListed
<1>1. IInv => SleepersListed
    BY DEF IInv, SleepersListed
<1> QED
    BY <1>1, Inductive, PTL

(* pthread_private.h:53-121, pthread.cpp:246-258: FastMutex promises what  *)
(* AbstractMutex says, to clients that go by the returns of lock and wait: *)
(* a thread comes back from either only when no other is inside.           *)
THEOREM MutexImplementsAbstract == Spec => MutualExclusion
<1>1. Init => AM!AbstractInit
    BY DEF Init, AM!AbstractInit
<1>2. IInv /\ HeldInv /\ [Next]_vars => [AM!AbstractNext]_held
    BY ClientStep
<1> QED
    BY <1>1, <1>2, Inductive, PTL DEF Spec, MutualExclusion, AM!AbstractSpec

-----------------------------------------------------------------------------
(* Static objects and pthread_once, which use neither: an object is        *)
(* constructed by one thread at a time, used only when it is finished, and *)
(* never constructed again, and the function of pthread_once runs once,    *)
(* for every number of threads, their priorities and the order the         *)
(* scheduler runs them in, of which the proofs use nothing.                *)
CONSTANTS Idle, Prio, MaxPriority, MaxAborts
VARIABLES thread_list, cur, ready, guard, init_executed, place, condition, has, aborted, ran

Guard == INSTANCE StaticGuard WITH status <- condition, at <- place

(* What the proofs need of TypeOK.                                         *)
GuardTypeOK ==
    /\ guard \in Thread \union {NoThread, "built"}
    /\ init_executed \in {0, 1}
    /\ place \in [Thread -> {"code", "acquire", "build", "func"}]
    /\ ran \in Nat

GuardInv == GuardTypeOK /\ Guard!BuiltOnceBeforeUse /\ Guard!RunOnce

-----------------------------------------------------------------------------
(* Before the first call nobody constructs and nobody was told anything.   *)
LEMMA InitGuardInv == ASSUME Guard!GuardAssumption PROVE Guard!Init => GuardInv
BY DEF Guard!GuardAssumption, Guard!Init, GuardInv, GuardTypeOK, Guard!BuiltOnceBeforeUse, Guard!RunOnce

(* The scheduler does not touch the guard.                                 *)
LEMMA SchedulerKeeps ==
    ASSUME GuardInv,
           UNCHANGED <<guard, init_executed, place, has, ran>>
    PROVE  GuardInv'
BY DEF GuardInv, GuardTypeOK, Guard!BuiltOnceBeforeUse, Guard!RunOnce

(* The four ways a turn of __cxa_guard_acquire ends.                       *)
LEMMA AcquireKeeps ==
    ASSUME Guard!GuardAssumption, GuardInv, NEW t \in Thread, Guard!acquire(t)
    PROVE  GuardInv'
<1> USE DEF Guard!GuardAssumption, GuardInv, GuardTypeOK, Guard!BuiltOnceBeforeUse, Guard!RunOnce,
            Guard!vars, Guard!schedVars
<1>1. CASE Guard!Acquired(t)
    BY <1>1 DEF Guard!Acquired, Guard!acquire
<1>2. CASE Guard!AlreadyBuilt(t)
    BY <1>2 DEF Guard!AlreadyBuilt, Guard!acquire
<1>3. CASE Guard!RecursiveInit(t)
    BY <1>3 DEF Guard!RecursiveInit, Guard!acquire
<1>4. CASE Guard!Yieldlock(t)
    <2>1. guard # t /\ place' = [place EXCEPT ![t] = "acquire"] /\ UNCHANGED <<guard, init_executed, has, ran>>
        BY <1>4 DEF Guard!Yieldlock
    <2> QED
        BY <2>1
<1> QED
    BY <1>1, <1>2, <1>3, <1>4 DEF Guard!acquire

(* Every step keeps the invariant.                                         *)
LEMMA NextGuardInv == ASSUME Guard!GuardAssumption PROVE GuardInv /\ [Guard!Next]_(Guard!vars) => GuardInv'
<1> SUFFICES ASSUME GuardInv, [Guard!Next]_(Guard!vars) PROVE GuardInv'
    OBVIOUS
<1>1. CASE UNCHANGED Guard!vars \/ Guard!Tick
    <2>1. UNCHANGED <<guard, init_executed, place, has, ran>>
        BY <1>1 DEF Guard!vars, Guard!Tick
    <2> QED
        BY <2>1, SchedulerKeeps
<1>2. ASSUME NEW t \in Thread, Guard!Block(t) \/ Guard!Wake(t) PROVE GuardInv'
    <2>1. UNCHANGED <<guard, init_executed, place, has, ran>>
        BY <1>2 DEF Guard!Block, Guard!Wake
    <2> QED
        BY <2>1, SchedulerKeeps
<1>3. ASSUME NEW t \in Thread, Guard!acquire(t) PROVE GuardInv'
    BY <1>3, AcquireKeeps
<1>4. ASSUME NEW t \in Thread, Guard!release(t) PROVE GuardInv'
    BY <1>4 DEF Guard!release, Guard!schedVars, Guard!GuardAssumption, GuardInv, GuardTypeOK,
                Guard!BuiltOnceBeforeUse, Guard!RunOnce
<1>5. ASSUME NEW t \in Thread, Guard!abort(t) PROVE GuardInv'
    BY <1>5 DEF Guard!abort, Guard!schedVars, Guard!GuardAssumption, GuardInv, GuardTypeOK,
                Guard!BuiltOnceBeforeUse, Guard!RunOnce
<1>6. ASSUME NEW t \in Thread, Guard!pthread_once(t) PROVE GuardInv'
    BY <1>6 DEF Guard!pthread_once, Guard!schedVars, Guard!GuardAssumption, GuardInv, GuardTypeOK,
                Guard!BuiltOnceBeforeUse, Guard!RunOnce
<1>7. ASSUME NEW t \in Thread, Guard!funcReturns(t) PROVE GuardInv'
    BY <1>7 DEF Guard!funcReturns, Guard!schedVars, Guard!GuardAssumption, GuardInv, GuardTypeOK,
                Guard!BuiltOnceBeforeUse, Guard!RunOnce
<1> QED
    BY <1>1, <1>2, <1>3, <1>4, <1>5, <1>6, <1>7 DEF Guard!Next

-----------------------------------------------------------------------------
(* syscalls.cpp:216: "initialize static objects only once, in a threadsafe *)
(* way": at most one thread constructs, and the object is used only when   *)
(* it is finished and never constructed again.                             *)
THEOREM GuardSafe == ASSUME Guard!GuardAssumption PROVE Guard!Spec => []Guard!BuiltOnceBeforeUse
<1>1. GuardInv => Guard!BuiltOnceBeforeUse
    BY DEF GuardInv
<1> QED
    BY <1>1, InitGuardInv, NextGuardInv, PTL DEF Guard!Spec

(* pthread.cpp:334: the function given to pthread_once runs once.          *)
THEOREM OnceSafe == ASSUME Guard!GuardAssumption PROVE Guard!Spec => []Guard!RunOnce
<1>1. GuardInv => Guard!RunOnce
    BY DEF GuardInv
<1> QED
    BY <1>1, InitGuardInv, NextGuardInv, PTL DEF Guard!Spec

=============================================================================
