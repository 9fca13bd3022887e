------------------------------ MODULE BoundedFifo ------------------------------
(***************************************************************************)
(* What miosix::Queue promises its two users (kernel/sync.h:505-518): a    *)
(* bounded queue that keeps the order, loses and invents nothing, refuses  *)
(* an element only when it is full and finds none only when it is empty.   *)
(***************************************************************************)
EXTENDS Naturals, Sequences

CONSTANTS Item, NoItem, Size

VARIABLES
    content,  \* the elements put and not yet got, oldest first
    accepted, \* whether the last put was accepted
    got       \* what the last get returned, NoItem when there was nothing

Init == content = <<>> /\ accepted = TRUE /\ got = NoItem

Put(e) ==
    /\ Len(content) < Size
    /\ content' = Append(content, e)
    /\ accepted' = TRUE
    /\ UNCHANGED got

Refuse ==
    /\ Len(content) = Size
    /\ accepted' = FALSE
    /\ UNCHANGED <<content, got>>

Get ==
    /\ content # <<>>
    /\ got' = Head(content)
    /\ content' = Tail(content)
    /\ UNCHANGED accepted

FindNone ==
    /\ content = <<>>
    /\ got' = NoItem
    /\ UNCHANGED <<content, accepted>>

Clear == content' = <<>> /\ UNCHANGED <<accepted, got>>

FifoNext == (\E e \in Item : Put(e)) \/ Refuse \/ Get \/ FindNone \/ Clear

FifoSpec == Init /\ [][FifoNext]_<<content, accepted, got>>

=============================================================================
