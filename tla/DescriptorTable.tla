--------------------------- MODULE DescriptorTable ---------------------------
(***************************************************************************)
(* What the C library expects of file descriptors: open gives one that was *)
(* not given before, which from then on stands for that open file and no   *)
(* other, until it is closed, or until unmounting closes them all.  A      *)
(* descriptor may be used up by an open that fails.  Losing power forgets  *)
(* the lot.                                                                *)
(***************************************************************************)
EXTENDS Integers

VARIABLES
    table,      \* the open descriptors, each with the object of its file
    given       \* the next descriptor to give

vars == <<table, given>>

Init ==
    /\ table = << >>
    /\ given = 3

Refuse ==
    /\ given' = given + 1
    /\ UNCHANGED table

Open ==
    /\ DOMAIN table' = DOMAIN table \union {given}
    /\ \A fd \in DOMAIN table : table'[fd] = table[fd] /\ table'[given] # table[fd]
    /\ given' = given + 1

Close(fd) ==
    /\ table' = [other \in DOMAIN table \ {fd} |-> table[other]]
    /\ UNCHANGED given

CloseAll ==
    /\ table' = << >>
    /\ given' \in {given, 3}

Next ==
    \/ Refuse
    \/ Open
    \/ \E fd \in DOMAIN table : Close(fd)
    \/ CloseAll

Spec == Init /\ [][Next]_vars

=============================================================================
