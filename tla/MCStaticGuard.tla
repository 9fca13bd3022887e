----------------------------- MODULE MCStaticGuard -----------------------------
(* Instances of StaticGuard for model checking.                             *)
EXTENDS StaticGuard

CONSTANTS t1, t2, t3

ThreeThreads == {t1, t2, t3}
OneAbove == [t \in Thread |-> IF t = t3 THEN 1 ELSE 0]

=============================================================================
