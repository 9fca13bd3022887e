---------------------------- MODULE AbstractMutex ----------------------------
(***************************************************************************)
(* What any mutex of the Miosix kernel promises to its clients: at most    *)
(* one thread is inside a critical section, a recursive mutex may be       *)
(* entered again by the thread that is inside, and the section is free for *)
(* the others only when it has been left as many times as it was entered.  *)
(* Mutex (kernel/sync.cpp) is shown to implement it in PriorityMutex.      *)
(***************************************************************************)
EXTENDS Naturals

CONSTANTS Thread, Mutex, Recursive

VARIABLE held   \* held[t][m]: how many times thread t is inside mutex m

AbstractInit == held = [t \in Thread |-> [m \in Mutex |-> 0]]

Enter(t, m) ==
    /\ \A u \in Thread : held[u][m] = 0
    /\ held' = [held EXCEPT ![t][m] = 1]

Reenter(t, m) ==
    /\ m \in Recursive
    /\ held[t][m] > 0
    /\ held' = [held EXCEPT ![t][m] = @ + 1]

Leave(t, m) ==
    /\ held[t][m] > 0
    /\ held' = [held EXCEPT ![t][m] = @ - 1]

AbstractNext ==
    \E t \in Thread, m \in Mutex : Enter(t, m) \/ Reenter(t, m) \/ Leave(t, m)

AbstractSpec == AbstractInit /\ [][AbstractNext]_held

=============================================================================
