------------------------------- MODULE MCMutexes -------------------------------
(* The two classes of mutexes for model checking: Monitor has FastMutex,    *)
(* PriorityMutex has Mutex, here for what must happen in the end.  A        *)
(* behaviour is about one of the two.                                       *)
EXTENDS Monitor

CONSTANTS Nestings, MaxPriority, t1, t2, t3

ThreeThreads == {t1, t2, t3}
TwoMutexes == {1, 2}
SecondRecursive == {2}
OrderedNesting == {"ordered"}

VARIABLES
    class,      \* "FastMutex" or "Mutex"
    nesting, condition, ownerOf, recursiveDepth, waiting, heapKey, prio, savedPriority,
    mutexLocked, mutexWaiting, inLock, waitFlag, heldOf, asked

mutexClassVars == <<nesting, condition, ownerOf, recursiveDepth, waiting, heapKey, prio,
                    savedPriority, mutexLocked, mutexWaiting, inLock, waitFlag, heldOf, asked>>

PM == INSTANCE PriorityMutex WITH status <- condition, owner <- ownerOf,
                            held <- heldOf

MutexesInit == class \in {"FastMutex", "Mutex"} /\ Init /\ PM!Init

MutexesNext ==
    \/ class = "FastMutex" /\ Next /\ UNCHANGED <<class, mutexClassVars>>
    \/ class = "Mutex" /\ PM!Next /\ UNCHANGED <<class, vars>>

MutexesFairSpec ==
    /\ MutexesInit
    /\ [][MutexesNext]_<<class, vars, mutexClassVars>>
    /\ (class = "FastMutex" /\ Fairness) \/ (class = "Mutex" /\ PM!Fairness)

(* See PriorityMutex for what this says.                                    *)
ContendedMutexMoves == PM!ContendedMutexMoves

=============================================================================
