------------------------------- MODULE RingQueue -------------------------------
(***************************************************************************)
(* miosix::Queue<T,len> (kernel/sync.h), the ring buffer through which a   *)
(* thread exchanges data with one other thread or with an interrupt.       *)
(*                                                                         *)
(* The bodies of the operations run with interrupts disabled, so each is   *)
(* one action up to the point where a blocking operation enables them to   *)
(* wait; each turn of its waiting loop is an action of its own.  Between   *)
(* two turns the other user, an interrupt, or a thread that wakes the      *)
(* sleeper for reasons of its own may run.                                 *)
(*                                                                         *)
(* As the class requires, Getter is the only one to take elements and      *)
(* Putter the only one to add them.  The IRQ forms are those an interrupt  *)
(* uses in the place of one of the two, or the thread itself with          *)
(* interrupts disabled; an interrupt is never inside a blocking operation. *)
(***************************************************************************)
EXTENDS Integers, Sequences

CONSTANTS
    Getter, Putter, NoThread,
    Item, NoItem,
    Size               \* the template parameter len

ASSUME UserAssumption == Getter # Putter /\ NoThread \notin {Getter, Putter}
ASSUME SizeAssumption == Size \in Nat \ {0}
ASSUME ItemAssumption == NoItem \notin Item

User == {Getter, Putter}

VARIABLES
    buffer, num_elem, put_pos, get_pos, \* the ring
    waiting,  \* Queue::waiting, the thread registered for a wakeup
    inside,   \* the blocking operation each user is in, "none" outside
    argument, \* the element the blocked put is to add
    asleep,   \* the WAIT flag of each user's thread
    hppw,     \* the flag the last IRQ call that takes one has left
    accepted, \* whether the last put was accepted
    got       \* what the last get returned

ring == <<buffer, num_elem, put_pos, get_pos>>
vars == <<ring, waiting, inside, argument, asleep, hppw, accepted, got>>

(* The buffer is not initialised: it holds whatever the memory held.       *)
Init ==
    /\ buffer \in [0 .. Size - 1 -> Item]
    /\ num_elem = 0 /\ put_pos = 0 /\ get_pos = 0
    /\ waiting = NoThread
    /\ inside = [u \in User |-> "none"]
    /\ argument = NoItem
    /\ asleep = [u \in User |-> FALSE]
    /\ hppw = FALSE
    /\ accepted = TRUE
    /\ got = NoItem

(* Faulty variants of the definitions below, with the mistake each makes.  *)
(* They are not part of the model: they show that a property can fail.     *)
AwokenKept == asleep                                    \* IRQwakeup forgotten
RegisterNever(u) == waiting' = NoThread                 \* waiting not set
FullWhenEqual == put_pos = get_pos                      \* num_elem ignored

-----------------------------------------------------------------------------
Advance(pos) == IF pos + 1 = Size THEN 0 ELSE pos + 1
Empty == put_pos = get_pos /\ num_elem = 0
Full == put_pos = get_pos /\ num_elem # 0

(* IRQwakeWaitingThread: the flags after it; waiting becomes NULL.         *)
Awoken == [u \in User |-> IF u = waiting THEN FALSE ELSE asleep[u]]

Insert(e) ==
    /\ num_elem' = num_elem + 1
    /\ buffer' = [buffer EXCEPT ![put_pos] = e]
    /\ put_pos' = Advance(put_pos)
    /\ accepted' = TRUE
    /\ UNCHANGED <<get_pos, got>>

Remove ==
    /\ num_elem' = num_elem - 1
    /\ got' = buffer[get_pos]
    /\ get_pos' = Advance(get_pos)
    /\ UNCHANGED <<buffer, put_pos, accepted>>

(* What each blocking operation waits for, and what it does then.          *)
Blocks(op) == IF op \in {"get", "waitUntilNotEmpty"} THEN Empty ELSE Full

Complete(op, e) ==
    \/ op = "get" /\ Remove
    \/ op = "put" /\ Insert(e)
    \/ /\ op \in {"waitUntilNotEmpty", "waitUntilNotFull"}
       /\ UNCHANGED <<ring, accepted, got>>

Register(u) == waiting' = u

(* The body of a blocking operation from its beginning, or from the        *)
(* return of Thread::yield, up to the next yield or to its end.            *)
Turn(u, op, e) ==
    IF Blocks(op)
    THEN /\ Register(u)
         /\ asleep' = [Awoken EXCEPT ![u] = TRUE]
         /\ inside' = [inside EXCEPT ![u] = op]
         /\ argument' = IF op = "put" THEN e ELSE argument
         /\ UNCHANGED <<ring, hppw, accepted, got>>
    ELSE /\ waiting' = NoThread
         /\ asleep' = Awoken
         /\ inside' = [inside EXCEPT ![u] = "none"]
         /\ argument' = IF op = "put" THEN NoItem ELSE argument
         /\ Complete(op, e)
         /\ UNCHANGED hppw

Begin(u, op, e) == inside[u] = "none" /\ Turn(u, op, e)

Resume(u) ==
    /\ inside[u] # "none"
    /\ ~asleep[u]
    /\ Turn(u, inside[u], argument)

get == Begin(Getter, "get", NoItem)
waitUntilNotEmpty == Begin(Getter, "waitUntilNotEmpty", NoItem)
put(e) == Begin(Putter, "put", e)
waitUntilNotFull == Begin(Putter, "waitUntilNotFull", NoItem)

-----------------------------------------------------------------------------
Wake == waiting' = NoThread /\ asleep' = Awoken

IRQput(e) ==
    /\ inside[Putter] = "none"
    /\ Wake
    /\ IF Full THEN accepted' = FALSE /\ UNCHANGED <<ring, got>> ELSE Insert(e)
    /\ UNCHANGED <<inside, argument>>

IRQget ==
    /\ inside[Getter] = "none"
    /\ Wake
    /\ IF Empty THEN got' = NoItem /\ UNCHANGED <<ring, accepted>> ELSE Remove
    /\ UNCHANGED <<inside, argument>>

(* The comparison made before waking: with a waiting thread it depends on  *)
(* the priority of the thread the interrupt stopped, which may be any.     *)
(* Without one it reads the priority of a thread at address 0: undefined   *)
(* by the language, and on the bitsboard the low half of the first vector, *)
(* 0x0200, which is above every priority.                                  *)
CompareWaiting == hppw' \in BOOLEAN

(* reset and IRQreset.                                                     *)
reset(u) ==
    /\ inside[u] = "none"
    /\ Wake
    /\ num_elem' = 0 /\ put_pos' = 0 /\ get_pos' = 0
    /\ UNCHANGED <<buffer, inside, argument, hppw, accepted, got>>

(* Another thread calls wakeup() on a user that sleeps in the queue.       *)
SpuriousWakeup(u) ==
    /\ asleep[u]
    /\ asleep' = [asleep EXCEPT ![u] = FALSE]
    /\ UNCHANGED <<ring, waiting, inside, argument, hppw, accepted, got>>

Next ==
    \/ get \/ waitUntilNotEmpty \/ waitUntilNotFull
    \/ \E e \in Item : put(e)
    \/ \E e \in Item : IRQput(e) /\ (UNCHANGED hppw \/ CompareWaiting)
    \/ IRQget /\ (UNCHANGED hppw \/ CompareWaiting)
    \/ \E u \in User : Resume(u) \/ reset(u) \/ SpuriousWakeup(u)

Spec == Init /\ [][Next]_vars

(* A ready thread runs in the end, as in PriorityMutex.                    *)
FairSpec == Spec /\ \A u \in User : WF_vars(Resume(u))

-----------------------------------------------------------------------------
TypeOK ==
    /\ buffer \in [0 .. Size - 1 -> Item]
    /\ num_elem \in 0 .. Size
    /\ put_pos \in 0 .. Size - 1
    /\ get_pos \in 0 .. Size - 1
    /\ waiting \in User \union {NoThread}
    /\ inside \in [User -> {"none", "get", "waitUntilNotEmpty", "put", "waitUntilNotFull"}]
    /\ inside[Getter] \notin {"put", "waitUntilNotFull"}
    /\ inside[Putter] \notin {"get", "waitUntilNotEmpty"}
    /\ argument \in IF inside[Putter] = "put" THEN Item ELSE {NoItem}
    /\ asleep \in [User -> BOOLEAN]
    /\ hppw \in BOOLEAN
    /\ accepted \in BOOLEAN
    /\ got \in Item \union {NoItem}

(* The position of put is that of get, num_elem places further around.     *)
CountAgrees ==
    put_pos = IF get_pos + num_elem < Size
              THEN get_pos + num_elem ELSE get_pos + num_elem - Size

(* No wakeup is lost: whoever sleeps in the queue is registered in         *)
(* waiting, and what it waits for has not happened.                        *)
SleeperRegistered ==
    \A u \in User : asleep[u] => waiting = u /\ inside[u] # "none" /\ Blocks(inside[u])

(* The elements in the ring, oldest first.                                 *)
Content ==
    [i \in 1 .. num_elem |->
        buffer[IF get_pos + i - 1 < Size THEN get_pos + i - 1 ELSE get_pos + i - 1 - Size]]

(* The queue keeps what BoundedFifo promises: order kept, nothing lost or  *)
(* invented, put refused only when full and get only when empty.           *)
Fifo == INSTANCE BoundedFifo WITH content <- Content
KeepsOrder == Fifo!FifoSpec

(* A user does not stay in a blocking operation that could complete.       *)
NeverStarved == \A u \in User : []<>~(inside[u] # "none" /\ ~Blocks(inside[u]))

=============================================================================
