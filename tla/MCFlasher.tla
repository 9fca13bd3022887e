------------------------------- MODULE MCFlasher -------------------------------
(* An instance of Flasher for model checking.                               *)
EXTENDS Flasher

SomeSizes == {0, 1, 5, 7, 8, 10, 15, 16, 40, 41}
SomePages == {0, 1, 3, 4}

=============================================================================
