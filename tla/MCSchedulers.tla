----------------------------- MODULE MCSchedulers -----------------------------
(* The three schedulers for model checking.                                 *)
EXTENDS Schedulers

CONSTANTS main, s1, s2

ThreeSlots == {main, s1, s2}
TwoSlots == {main, s1}
Alike == Permutations(Slot \ {Main})
OwnedAndShared == {"owned", "shared"}
OwnedOnly == {"owned"}
EveryScheduler == {"PRIORITY", "EDF", "CONTROL"}
InTurns == {"PRIORITY", "CONTROL"}

=============================================================================
