----------------------------- MODULE MCKernelTime -----------------------------
(* Instances of KernelTime for model checking.                              *)
EXTENDS KernelTime

CONSTANTS t1, t2

TwoThreads == {t1, t2}
UpToTwoTicks == {0, 1, 2, 4}
LessAndMore == {999, 4000}

=============================================================================
