--------------------------- MODULE MCPriorityMutex ---------------------------
(* Instances of PriorityMutex for model checking.                           *)
EXTENDS PriorityMutex, TLC

CONSTANTS t1, t2, t3

ThreeThreads == {t1, t2, t3}
Alike == Permutations(Thread)
TwoMutexes == {1, 2}
SecondRecursive == {2}
NoneRecursive == {}
EveryNesting == {"single", "ordered", "any"}
OrderedNesting == {"ordered"}

=============================================================================
