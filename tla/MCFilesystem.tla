---------------------------- MODULE MCFilesystem ----------------------------
(* Instances of Filesystem for model checking.                              *)
EXTENDS Filesystem, TLC

CONSTANTS t1, t2

Threads == Permutations({t1, t2})

=============================================================================
