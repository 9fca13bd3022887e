------------------------------ MODULE ThreadLists ------------------------------
(* What the PKremoveDeadThreads of all three schedulers has in common with  *)
(* other functions that unlink threads: the rest of the list keeps its      *)
(* order.                                                                   *)
EXTENDS Integers, Sequences, SequencesExt

(* The elements at the places in S.                                         *)
Keeping(list, S) ==
    LET places == CHOOSE f \in SeqOf(S, Len(list)) :
                      ToSet(f) = S /\ \A i, j \in DOMAIN f : i < j => f[i] < f[j]
    IN  [i \in DOMAIN places |-> list[places[i]]]

=============================================================================
