---------------------------- MODULE QueuesProofs ----------------------------
(***************************************************************************)
(* Proofs about the two queues between a thread and an interrupt: first    *)
(* RingQueue, for every size of the ring and set of elements, then Player  *)
(* with the BufferQueue it uses.                                           *)
(***************************************************************************)
EXTENDS Queues, SequenceTheorems, TLAPS

(* The index of the i-th oldest element when the oldest is at g, and the   *)
(* n elements of the ring f from there on.                                 *)
Place(g, i) == IF g + i - 1 < Size THEN g + i - 1 ELSE g + i - 1 - Size
Slot(i) == Place(get_pos, i)
Elements(f, g, n) == [i \in 1 .. n |-> f[Place(g, i)]]

(* What every reachable state satisfies: KeepsOrder and the lemmas below   *)
(* rest on the positions and the count agreeing, and the count's range on  *)
(* the registration of the sleeper.                                        *)
IInv == TypeOK /\ CountAgrees /\ SleeperRegistered

-----------------------------------------------------------------------------
(* The tests of the code, which look at both positions, are tests of the   *)
(* count.                                                                  *)
LEMMA EmptyFull ==
    ASSUME TypeOK, CountAgrees
    PROVE  (Empty <=> num_elem = 0) /\ (Full <=> num_elem = Size)
<1>1. num_elem \in 0 .. Size /\ get_pos \in 0 .. Size - 1 /\ Size \in Nat \ {0}
  BY SizeAssumption DEF TypeOK
<1> QED
  BY <1>1 DEF CountAgrees, Empty, Full

(* Adding an element keeps the ring's types and the count.                 *)
LEMMA InsertRing ==
    ASSUME TypeOK, CountAgrees, ~Full, NEW e \in Item, Insert(e)
    PROVE  /\ buffer' \in [0 .. Size - 1 -> Item] /\ num_elem' \in 0 .. Size
           /\ put_pos' \in 0 .. Size - 1 /\ get_pos' \in 0 .. Size - 1
           /\ CountAgrees' /\ ~Empty'
           /\ got' \in Item \union {NoItem} /\ accepted' = TRUE
<1>1. Size \in Nat \ {0} /\ num_elem # Size
  BY SizeAssumption, EmptyFull
<1>2. /\ num_elem \in 0 .. Size /\ put_pos \in 0 .. Size - 1
      /\ get_pos \in 0 .. Size - 1 /\ buffer \in [0 .. Size - 1 -> Item]
      /\ got \in Item \union {NoItem}
  BY DEF TypeOK
<1>3. /\ num_elem' = num_elem + 1 /\ get_pos' = get_pos
      /\ put_pos' = (IF put_pos + 1 = Size THEN 0 ELSE put_pos + 1)
      /\ buffer' = [buffer EXCEPT ![put_pos] = e] /\ got' = got /\ accepted' = TRUE
  BY DEF Insert, Advance
<1>4. num_elem' \in 0 .. Size /\ put_pos' \in 0 .. Size - 1 /\ num_elem' # 0
  BY <1>1, <1>2, <1>3
<1>5. CountAgrees'
  BY <1>1, <1>2, <1>3 DEF CountAgrees
<1> QED
  BY <1>2, <1>3, <1>4, <1>5 DEF Empty

(* So does taking one.                                                     *)
LEMMA RemoveRing ==
    ASSUME TypeOK, CountAgrees, ~Empty, Remove
    PROVE  /\ buffer' \in [0 .. Size - 1 -> Item] /\ num_elem' \in 0 .. Size
           /\ put_pos' \in 0 .. Size - 1 /\ get_pos' \in 0 .. Size - 1
           /\ CountAgrees' /\ ~Full'
           /\ got' \in Item \union {NoItem} /\ accepted' = accepted
<1>1. Size \in Nat \ {0} /\ num_elem # 0
  BY SizeAssumption, EmptyFull
<1>2. /\ num_elem \in 0 .. Size /\ put_pos \in 0 .. Size - 1
      /\ get_pos \in 0 .. Size - 1 /\ buffer \in [0 .. Size - 1 -> Item]
  BY DEF TypeOK
<1>3. /\ num_elem' = num_elem - 1 /\ put_pos' = put_pos /\ buffer' = buffer
      /\ get_pos' = (IF get_pos + 1 = Size THEN 0 ELSE get_pos + 1)
      /\ got' = buffer[get_pos] /\ accepted' = accepted
  BY DEF Remove, Advance
<1>4. num_elem' \in 0 .. Size /\ get_pos' \in 0 .. Size - 1 /\ num_elem' # Size
  BY <1>1, <1>2, <1>3
<1>5. CountAgrees'
  BY <1>1, <1>2, <1>3 DEF CountAgrees
<1>6. ~Full'
  BY <1>1, <1>2, <1>3, <1>4, <1>5 DEF CountAgrees, Full
<1> QED
  BY <1>2, <1>3, <1>4, <1>5, <1>6

-----------------------------------------------------------------------------
(* IRQwakeWaitingThread leaves nobody asleep: whoever slept was registered. *)
LEMMA AllAwake ==
    ASSUME TypeOK, SleeperRegistered
    PROVE  Awoken = [u \in User |-> FALSE]
BY DEF TypeOK, SleeperRegistered, Awoken

(* One turn of a blocking operation preserves the invariant.               *)
LEMMA TurnStep ==
    ASSUME IInv, NEW u \in User, NEW op, NEW e, Turn(u, op, e),
           inside[u] \in {"none", op},
           \/ u = Getter /\ op \in {"get", "waitUntilNotEmpty"} /\ e = argument
           \/ u = Getter /\ op \in {"get", "waitUntilNotEmpty"} /\ e = NoItem
           \/ u = Putter /\ op = "put" /\ e \in Item
           \/ u = Putter /\ op = "waitUntilNotFull"
    PROVE  IInv'
<1> USE UserAssumption, ItemAssumption DEF IInv, User
<1>1. Awoken = [v \in User |-> FALSE]
  BY AllAwake
<1>2. CASE Blocks(op)
  <2>1. /\ waiting' = u /\ asleep' = [Awoken EXCEPT ![u] = TRUE]
        /\ inside' = [inside EXCEPT ![u] = op]
        /\ argument' = (IF op = "put" THEN e ELSE argument)
        /\ UNCHANGED <<ring, hppw, accepted, got>>
    BY <1>2 DEF Turn, Register
  <2>2. TypeOK'
    <3>1. UNCHANGED <<buffer, num_elem, put_pos, get_pos, hppw, accepted, got>>
      BY <2>1 DEF ring
    <3>2. /\ inside'[Getter] \notin {"put", "waitUntilNotFull"}
          /\ inside'[Putter] \notin {"get", "waitUntilNotEmpty"}
          /\ inside' \in [User -> {"none", "get", "waitUntilNotEmpty", "put", "waitUntilNotFull"}]
      BY <2>1 DEF TypeOK
    <3>3. argument' \in IF inside'[Putter] = "put" THEN Item ELSE {NoItem}
      BY <2>1 DEF TypeOK
    <3>4. waiting' \in User \union {NoThread} /\ asleep' \in [User -> BOOLEAN]
      BY <1>1, <2>1
    <3> QED
      BY <3>1, <3>2, <3>3, <3>4 DEF TypeOK
  <2>3. CountAgrees'
    BY <2>1 DEF CountAgrees, ring
  <2>4. Blocks(op)'
    BY <1>2, <2>1 DEF Blocks, Empty, Full, ring
  <2>5. SleeperRegistered'
    BY <1>1, <2>1, <2>4 DEF SleeperRegistered, TypeOK
  <2> QED
    BY <2>2, <2>3, <2>5
<1>3. CASE ~Blocks(op)
  <2>1. /\ waiting' = NoThread /\ asleep' = Awoken
        /\ inside' = [inside EXCEPT ![u] = "none"]
        /\ argument' = (IF op = "put" THEN NoItem ELSE argument)
        /\ Complete(op, e) /\ hppw' = hppw
    BY <1>3 DEF Turn
  <2>2. /\ buffer' \in [0 .. Size - 1 -> Item] /\ num_elem' \in 0 .. Size
        /\ put_pos' \in 0 .. Size - 1 /\ get_pos' \in 0 .. Size - 1
        /\ CountAgrees' /\ got' \in Item \union {NoItem} /\ accepted' \in BOOLEAN
    <3>1. CASE op = "get"
      BY <1>3, <2>1, <3>1, RemoveRing DEF Complete, Blocks, TypeOK
    <3>2. CASE op = "put"
      BY <1>3, <2>1, <3>2, InsertRing DEF Complete, Blocks
    <3>3. CASE op \in {"waitUntilNotEmpty", "waitUntilNotFull"}
      BY <2>1, <3>3 DEF Complete, ring, TypeOK, CountAgrees
    <3> QED
      BY <3>1, <3>2, <3>3
  <2>3. TypeOK'
    <3>1. /\ inside'[Getter] \notin {"put", "waitUntilNotFull"}
          /\ inside'[Putter] \notin {"get", "waitUntilNotEmpty"}
          /\ inside' \in [User -> {"none", "get", "waitUntilNotEmpty", "put", "waitUntilNotFull"}]
      BY <2>1 DEF TypeOK
    <3>2. argument' \in IF inside'[Putter] = "put" THEN Item ELSE {NoItem}
      BY <2>1 DEF TypeOK
    <3>3. waiting' \in User \union {NoThread} /\ asleep' \in [User -> BOOLEAN]
      BY <1>1, <2>1
    <3>4. hppw' \in BOOLEAN
      BY <2>1 DEF TypeOK
    <3> QED
      BY <2>2, <3>1, <3>2, <3>3, <3>4 DEF TypeOK
  <2>4. SleeperRegistered'
    BY <1>1, <2>1 DEF SleeperRegistered
  <2> QED
    BY <2>2, <2>3, <2>4
<1> QED
  BY <1>2, <1>3

(* Every step preserves the invariant.                                     *)
LEMMA InvStep ==
    ASSUME IInv, [Next]_vars
    PROVE  IInv'
<1> USE UserAssumption, ItemAssumption DEF IInv
<1>1. Awoken = [v \in User |-> FALSE]
  BY AllAwake
<1>2. CASE get \/ waitUntilNotEmpty
  BY <1>2, TurnStep DEF get, waitUntilNotEmpty, Begin, User
<1>3. CASE waitUntilNotFull \/ \E e \in Item : put(e)
  BY <1>3, TurnStep DEF waitUntilNotFull, put, Begin, User
<1>4. ASSUME NEW u \in User, Resume(u)
      PROVE  IInv'
  BY <1>4, TurnStep DEF Resume, TypeOK, User
<1>5. ASSUME NEW e \in Item, IRQput(e), hppw' \in BOOLEAN
      PROVE  IInv'
  <2>1. waiting' = NoThread /\ asleep' = Awoken /\ UNCHANGED <<inside, argument>>
    BY <1>5 DEF IRQput, Wake
  <2>2. /\ buffer' \in [0 .. Size - 1 -> Item] /\ num_elem' \in 0 .. Size
        /\ put_pos' \in 0 .. Size - 1 /\ get_pos' \in 0 .. Size - 1
        /\ CountAgrees' /\ got' \in Item \union {NoItem} /\ accepted' \in BOOLEAN
    <3>1. CASE Full
      BY <1>5, <3>1 DEF IRQput, ring, TypeOK, CountAgrees
    <3>2. CASE ~Full
      BY <1>5, <3>2, InsertRing DEF IRQput
    <3> QED
      BY <3>1, <3>2
  <2> QED
    BY <1>1, <1>5, <2>1, <2>2 DEF TypeOK, SleeperRegistered
<1>6. ASSUME IRQget, hppw' \in BOOLEAN
      PROVE  IInv'
  <2>1. waiting' = NoThread /\ asleep' = Awoken /\ UNCHANGED <<inside, argument>>
    BY <1>6 DEF IRQget, Wake
  <2>2. /\ buffer' \in [0 .. Size - 1 -> Item] /\ num_elem' \in 0 .. Size
        /\ put_pos' \in 0 .. Size - 1 /\ get_pos' \in 0 .. Size - 1
        /\ CountAgrees' /\ got' \in Item \union {NoItem} /\ accepted' \in BOOLEAN
    <3>1. CASE Empty
      BY <1>6, <3>1 DEF IRQget, ring, TypeOK, CountAgrees
    <3>2. CASE ~Empty
      BY <1>6, <3>2, RemoveRing DEF IRQget, TypeOK
    <3> QED
      BY <3>1, <3>2
  <2> QED
    BY <1>1, <1>6, <2>1, <2>2 DEF TypeOK, SleeperRegistered
<1>7. ASSUME NEW u \in User, reset(u)
      PROVE  IInv'
  <2>1. /\ waiting' = NoThread /\ asleep' = Awoken
        /\ num_elem' = 0 /\ put_pos' = 0 /\ get_pos' = 0
        /\ UNCHANGED <<buffer, inside, argument, hppw, accepted, got>>
    BY <1>7 DEF reset, Wake
  <2>2. CountAgrees'
    BY <2>1, SizeAssumption DEF CountAgrees
  <2>3. 0 \in 0 .. Size /\ 0 \in 0 .. Size - 1
    BY SizeAssumption
  <2> QED
    BY <1>1, <2>1, <2>2, <2>3 DEF TypeOK, SleeperRegistered
<1>8. ASSUME NEW u \in User, SpuriousWakeup(u)
      PROVE  IInv'
  BY <1>8 DEF SpuriousWakeup, ring, TypeOK, CountAgrees, SleeperRegistered,
              Blocks, Empty, Full
<1>9. CASE UNCHANGED vars
  BY <1>9 DEF vars, ring, TypeOK, CountAgrees, SleeperRegistered, Blocks, Empty, Full
<1> QED
  BY <1>2, <1>3, <1>4, <1>5, <1>6, <1>7, <1>8, <1>9 DEF Next, CompareWaiting, TypeOK

LEMMA InitOK == Init => IInv
<1>1. 0 \in 0 .. Size /\ 0 \in 0 .. Size - 1
  BY SizeAssumption
<1>2. Init => TypeOK
  BY <1>1, UserAssumption, ItemAssumption DEF Init, TypeOK, User
<1>3. Init => CountAgrees
  BY SizeAssumption DEF Init, CountAgrees
<1>4. Init => SleeperRegistered
  BY DEF Init, SleeperRegistered
<1> QED
  BY <1>2, <1>3, <1>4 DEF IInv

(* The queue never loses a wakeup, whatever its size (sync.h:583-625).     *)
THEOREM NoLostWakeup == Spec => []IInv
<1>1. Init => IInv
  BY InitOK
<1>2. IInv /\ [Next]_vars => IInv'
  BY InvStep
<1> QED
  BY <1>1, <1>2, PTL DEF Spec

(* The positions and the count of the ring stay in range.                  *)
THEOREM TypeCorrect == Spec => []TypeOK
BY NoLostWakeup, PTL DEF IInv

(* sync.h:745-757: a thread that sleeps in the queue is the one that will   *)
(* be woken.                                                               *)
THEOREM SleepersRegistered == Spec => []SleeperRegistered
BY NoLostWakeup, PTL DEF IInv

-----------------------------------------------------------------------------
(* The content of the ring as a sequence.                                  *)
LEMMA ElementsSeq ==
    ASSUME NEW n \in 0 .. Size, NEW g \in 0 .. Size - 1, NEW f \in [0 .. Size - 1 -> Item]
    PROVE  /\ Elements(f, g, n) \in Seq(Item) /\ Len(Elements(f, g, n)) = n
           /\ \A i \in 1 .. n :
                Place(g, i) \in 0 .. Size - 1 /\ Elements(f, g, n)[i] = f[Place(g, i)]
<1>1. \A i \in 1 .. n : Place(g, i) \in 0 .. Size - 1
  BY SizeAssumption DEF Place
<1>2. Elements(f, g, n) \in [1 .. n -> Item] /\ n \in Nat
  BY <1>1, SizeAssumption DEF Elements
<1>3. Elements(f, g, n) \in Seq(Item) /\ Len(Elements(f, g, n)) = n
  BY <1>2
<1> QED
  BY <1>1, <1>3 DEF Elements

LEMMA ContentElements ==
    /\ Content = Elements(buffer, get_pos, num_elem)
    /\ Content' = Elements(buffer', get_pos', num_elem')
    /\ \A i : Slot(i)' = Place(get_pos', i)
BY DEF Content, Elements, Place, Slot

LEMMA ContentSeq ==
    ASSUME TypeOK
    PROVE  /\ Content \in Seq(Item) /\ Len(Content) = num_elem
           /\ \A i \in 1 .. num_elem : Slot(i) \in 0 .. Size - 1 /\ Content[i] = buffer[Slot(i)]
<1>1. /\ num_elem \in 0 .. Size /\ get_pos \in 0 .. Size - 1
      /\ buffer \in [0 .. Size - 1 -> Item]
  BY DEF TypeOK
<1> QED
  BY <1>1, ElementsSeq, ContentElements DEF Slot

LEMMA ContentSeqNext ==
    ASSUME TypeOK'
    PROVE  /\ Content' \in Seq(Item) /\ Len(Content') = num_elem'
           /\ \A i \in 1 .. num_elem' :
                Slot(i)' \in 0 .. Size - 1 /\ Content'[i] = buffer'[Slot(i)']
<1>1. /\ num_elem' \in 0 .. Size /\ get_pos' \in 0 .. Size - 1
      /\ buffer' \in [0 .. Size - 1 -> Item]
  BY DEF TypeOK
<1>2. /\ Content' \in Seq(Item) /\ Len(Content') = num_elem'
      /\ \A i \in 1 .. num_elem' :
            /\ Place(get_pos', i) \in 0 .. Size - 1
            /\ Content'[i] = buffer'[Place(get_pos', i)]
  BY <1>1, ElementsSeq, ContentElements
<1> QED
  BY <1>2, ContentElements

(* Adding at put_pos appends.                                              *)
LEMMA InsertAppends ==
    ASSUME TypeOK, TypeOK', CountAgrees, ~Full, NEW e \in Item, Insert(e)
    PROVE  Content' = Append(Content, e)
<1>1. /\ Content \in Seq(Item) /\ Len(Content) = num_elem
      /\ \A i \in 1 .. num_elem : Slot(i) \in 0 .. Size - 1 /\ Content[i] = buffer[Slot(i)]
  BY ContentSeq
<1>2. /\ Content' \in Seq(Item) /\ Len(Content') = num_elem'
      /\ \A i \in 1 .. num_elem' : Slot(i)' \in 0 .. Size - 1 /\ Content'[i] = buffer'[Slot(i)']
  BY ContentSeqNext
<1>3. num_elem' = num_elem + 1 /\ get_pos' = get_pos /\ buffer' = [buffer EXCEPT ![put_pos] = e]
  BY DEF Insert
<1>4. /\ Size \in Nat \ {0} /\ num_elem \in 0 .. Size - 1 /\ get_pos \in 0 .. Size - 1
      /\ put_pos \in 0 .. Size - 1 /\ buffer \in [0 .. Size - 1 -> Item]
  BY SizeAssumption, EmptyFull DEF TypeOK
<1>5. Slot(num_elem + 1) = put_pos
  BY <1>4 DEF Slot, Place, CountAgrees
<1>6. \A i \in 1 .. num_elem : Slot(i) # put_pos
  <2>1. SUFFICES ASSUME NEW i \in 1 .. num_elem
                 PROVE  Slot(i) # put_pos
    OBVIOUS
  <2>2. i \in Nat /\ 1 <= i /\ i <= num_elem /\ num_elem < Size
    BY <1>4
  <2>3. CASE get_pos + num_elem < Size
    <3>1. Slot(i) = get_pos + i - 1 /\ put_pos = get_pos + num_elem
      BY <1>4, <2>2, <2>3 DEF Slot, Place, CountAgrees
    <3> QED
      BY <1>4, <2>2, <3>1
  <2>4. CASE ~(get_pos + num_elem < Size)
    <3>1. put_pos = get_pos + num_elem - Size
      BY <2>4 DEF CountAgrees
    <3>2. Slot(i) = get_pos + i - 1 \/ Slot(i) = get_pos + i - 1 - Size
      BY DEF Slot, Place
    <3> QED
      BY <1>4, <2>2, <3>1, <3>2
  <2> QED
    BY <2>3, <2>4
<1>7. \A i \in Nat : Slot(i)' = Slot(i)
  BY <1>3 DEF Slot, Place
<1>8. Content'[num_elem + 1] = e
  BY <1>2, <1>3, <1>4, <1>5, <1>7
<1>9. \A i \in 1 .. num_elem : Content'[i] = Content[i]
  BY <1>1, <1>2, <1>3, <1>4, <1>6, <1>7
<1>10. /\ Append(Content, e) \in Seq(Item) /\ Len(Append(Content, e)) = num_elem + 1
       /\ \A i \in 1 .. num_elem : Append(Content, e)[i] = Content[i]
       /\ Append(Content, e)[num_elem + 1] = e
  BY <1>1, AppendProperties
<1>11. \A i \in 1 .. num_elem + 1 : Content'[i] = Append(Content, e)[i]
  BY <1>4, <1>8, <1>9, <1>10
<1> QED
  BY <1>2, <1>3, <1>10, <1>11, SeqEqual

(* Taking at get_pos takes the oldest.                                     *)
LEMMA RemoveTakesHead ==
    ASSUME TypeOK, TypeOK', CountAgrees, ~Empty, Remove
    PROVE  /\ Content # <<>>
           /\ got' = Head(Content)
           /\ Content' = Tail(Content)
<1>1. /\ Content \in Seq(Item) /\ Len(Content) = num_elem
      /\ \A i \in 1 .. num_elem : Slot(i) \in 0 .. Size - 1 /\ Content[i] = buffer[Slot(i)]
  BY ContentSeq
<1>2. /\ Content' \in Seq(Item) /\ Len(Content') = num_elem'
      /\ \A i \in 1 .. num_elem' : Slot(i)' \in 0 .. Size - 1 /\ Content'[i] = buffer'[Slot(i)']
  BY ContentSeqNext
<1>3. /\ num_elem' = num_elem - 1 /\ buffer' = buffer /\ got' = buffer[get_pos]
      /\ get_pos' = (IF get_pos + 1 = Size THEN 0 ELSE get_pos + 1)
  BY DEF Remove, Advance
<1>4. Size \in Nat \ {0} /\ num_elem \in 1 .. Size /\ get_pos \in 0 .. Size - 1
  BY SizeAssumption, EmptyFull DEF TypeOK
<1>5. Slot(1) = get_pos
  BY <1>4 DEF Slot, Place
<1>6. \A i \in 1 .. num_elem - 1 : Slot(i)' = Slot(i + 1)
  BY <1>3, <1>4 DEF Slot, Place
<1>7. Content # <<>> /\ Head(Content) = Content[1]
  BY <1>1, <1>4
<1>8. \A i \in 1 .. num_elem - 1 : i + 1 \in 1 .. num_elem
  BY <1>4
<1>9. \A i \in 1 .. num_elem - 1 : Content'[i] = Content[i + 1]
  BY <1>1, <1>2, <1>3, <1>6, <1>8
<1>10. /\ Tail(Content) \in Seq(Item) /\ Len(Tail(Content)) = num_elem - 1
       /\ \A i \in 1 .. num_elem - 1 : Tail(Content)[i] = Content[i + 1]
  BY <1>1, <1>7, HeadTailProperties
<1>11. Content' = Tail(Content)
  BY <1>2, <1>3, <1>9, <1>10, SeqEqual
<1>12. 1 \in 1 .. num_elem
  BY <1>4
<1> QED
  BY <1>1, <1>3, <1>5, <1>7, <1>11, <1>12

-----------------------------------------------------------------------------
(* Every step of the ring is a step of the bounded queue, or none.         *)
LEMMA FifoStep ==
    ASSUME IInv, IInv', [Next]_vars
    PROVE  [Fifo!FifoNext]_<<Content, accepted, got>>
<1> USE DEF IInv
<1>1. Content \in Seq(Item) /\ Len(Content) = num_elem
  BY ContentSeq
<1>2. UNCHANGED ring => Content' = Content
  BY ContentElements DEF ring
<1>3. ASSUME NEW e \in Item, ~Full, Insert(e)
      PROVE  Fifo!Put(e)
  <2>1. Len(Content) < Size
    BY <1>1, <1>3, EmptyFull, SizeAssumption DEF TypeOK
  <2>2. Content' = Append(Content, e)
    BY <1>3, InsertAppends
  <2> QED
    BY <1>3, <2>1, <2>2 DEF Fifo!Put, Insert
<1>4. ASSUME ~Empty, Remove
      PROVE  Fifo!Get
  BY <1>4, RemoveTakesHead DEF Fifo!Get, Remove
<1>5. ASSUME NEW u \in User, NEW op, NEW e, Turn(u, op, e), op = "put" => e \in Item
      PROVE  [Fifo!FifoNext]_<<Content, accepted, got>>
  <2>1. CASE Blocks(op)
    BY <1>2, <1>5, <2>1 DEF Turn
  <2>2. CASE ~Blocks(op) /\ op = "get"
    <3>1. Remove /\ ~Empty
      BY <1>5, <2>2 DEF Turn, Complete, Blocks
    <3> QED
      BY <1>4, <3>1 DEF Fifo!FifoNext
  <2>3. CASE ~Blocks(op) /\ op = "put"
    <3>1. Insert(e) /\ ~Full /\ e \in Item
      BY <1>5, <2>3 DEF Turn, Complete, Blocks
    <3> QED
      BY <1>3, <3>1 DEF Fifo!FifoNext
  <2>4. CASE ~Blocks(op) /\ op \notin {"get", "put"}
    BY <1>2, <1>5, <2>4 DEF Turn, Complete
  <2> QED
    BY <2>1, <2>2, <2>3, <2>4
<1>6. CASE get \/ waitUntilNotEmpty \/ waitUntilNotFull
  BY <1>5, <1>6 DEF get, waitUntilNotEmpty, waitUntilNotFull, Begin, User
<1>7. ASSUME NEW e \in Item, put(e)
      PROVE  [Fifo!FifoNext]_<<Content, accepted, got>>
  BY <1>5, <1>7 DEF put, Begin, User
<1>8. ASSUME NEW u \in User, Resume(u)
      PROVE  [Fifo!FifoNext]_<<Content, accepted, got>>
  <2>1. inside[u] = "put" => argument \in Item
    BY <1>8, UserAssumption DEF TypeOK, User
  <2> QED
    BY <1>5, <1>8, <2>1 DEF Resume
<1>9. ASSUME NEW e \in Item, IRQput(e)
      PROVE  [Fifo!FifoNext]_<<Content, accepted, got>>
  <2>1. CASE Full
    <3>1. Len(Content) = Size
      BY <1>1, <2>1, EmptyFull
    <3> QED
      BY <1>2, <1>9, <2>1, <3>1 DEF IRQput, Fifo!Refuse, Fifo!FifoNext
  <2>2. CASE ~Full
    BY <1>3, <1>9, <2>2 DEF IRQput, Fifo!FifoNext
  <2> QED
    BY <2>1, <2>2
<1>10. CASE IRQget
  <2>1. CASE Empty
    <3>1. Content = <<>>
      BY <1>1, <2>1, EmptyFull
    <3> QED
      BY <1>2, <1>10, <2>1, <3>1 DEF IRQget, Fifo!FindNone, Fifo!FifoNext
  <2>2. CASE ~Empty
    BY <1>4, <1>10, <2>2 DEF IRQget, Fifo!FifoNext
  <2> QED
    BY <2>1, <2>2
<1>11. ASSUME NEW u \in User, reset(u)
       PROVE  [Fifo!FifoNext]_<<Content, accepted, got>>
  <2>1. Content' \in Seq(Item) /\ Len(Content') = num_elem'
    BY ContentSeqNext
  <2>2. Content' = <<>>
    BY <1>11, <2>1 DEF reset
  <2> QED
    BY <1>11, <2>2 DEF reset, Fifo!Clear, Fifo!FifoNext
<1>12. CASE \E u \in User : SpuriousWakeup(u)
  BY <1>2, <1>12 DEF SpuriousWakeup
<1>13. CASE UNCHANGED vars
  BY <1>2, <1>13 DEF vars
<1> QED
  BY <1>6, <1>7, <1>8, <1>9, <1>10, <1>11, <1>12, <1>13 DEF Next

(* Queue<T,len> is a bounded first-in first-out queue, for every len and   *)
(* every type of elements (sync.h:505-763).                                *)
THEOREM QueueImplementsFifo == Spec => KeepsOrder
<1>1. Init => Fifo!Init
  <2>1. Init => TypeOK
    BY InitOK DEF IInv
  <2>2. Init => Content = <<>>
    BY <2>1, ContentSeq DEF Init
  <2> QED
    BY <2>2 DEF Init, Fifo!Init
<1>2. IInv /\ IInv' /\ [Next]_vars => [Fifo!FifoNext]_<<Content, accepted, got>>
  BY FifoStep
<1> QED
  BY <1>1, <1>2, NoLostWakeup, PTL DEF Spec, KeepsOrder, Fifo!FifoSpec

-----------------------------------------------------------------------------
(***************************************************************************)
(* Proofs about Player and the BufferQueue it uses, for every size of the  *)
(* queue, length of the sound and build that PlayerAssumption allows.      *)
(***************************************************************************)
(* What is to be heard, and how many buffers of it the thread has given to *)
(* the queue.                                                              *)
Heard(i) == IF build.leading < i /\ i < build.leading + Parts THEN i - build.leading ELSE 0
Total == build.leading + (Parts - 1) + build.trailing
Given ==
    IF at \in {"idle", "end"} THEN Total
    ELSE nth - 1 + (CASE phase = "lead"  -> 0
                      [] phase = "sound" -> build.leading
                      [] OTHER           -> build.leading + (Parts - 1))

PlayerTypes ==
    /\ build \in Builds
    /\ at \in {"idle", "check", "refill", "get", "fill", "filled", "end"}
    /\ phase \in {"lead", "sound", "trail"} /\ nth \in Nat \ {0}
    /\ cnt \in 0 .. NumBuf /\ putAt \in Player!Buffer /\ getAt \in Player!Buffer
    /\ enobuf \in BOOLEAN
    /\ played \in Seq(0 .. Parts)
    /\ DOMAIN buf = Player!Buffer

(* The place in the sound.                                                 *)
InPlace ==
    /\ at \in {"check", "refill"} => phase = "sound"
    /\ at \in {"check", "refill", "get", "fill", "filled"} => nth <= Player!InPhase(phase)
    /\ at = "filled" /\ phase = "sound" => nth < Parts

(* A buffer has one user: the writer has that behind the filled ones, the  *)
(* reader the first of them.                                               *)
Apart ==
    /\ writing = IF at \in {"fill", "filled"} THEN putAt ELSE NoBuffer
    /\ at \in {"fill", "filled"} => cnt < NumBuf
    /\ reading # NoBuffer => reading = getAt /\ cnt > 0
    /\ putAt = IF getAt + cnt < NumBuf THEN getAt + cnt ELSE getAt + cnt - NumBuf

(* What was heard and what is in the queue are the beginning of what is to *)
(* be heard; the writer goes on with it.                                   *)
SoFar == \A i \in 1 .. Len(played) : played[i] = Heard(i)
InQueue ==
    \A k \in 0 .. cnt - 1 :
        buf[IF getAt + k < NumBuf THEN getAt + k ELSE getAt + k - NumBuf] = Heard(Len(played) + 1 + k)
GoesOn ==
    /\ at # "idle" => Len(played) + cnt = Given
    /\ at = "filled" => buf[putAt] = Heard(Given + 1)

(* The thread asks the DMA for what is in the queue before it goes on.     *)
Told ==
    /\ Player!EnobufTells
    /\ at = "refill" => ~enobuf /\ reading = NoBuffer
    /\ at = "idle" => enobuf
    /\ \/ phase = "sound" /\ at \in {"get", "fill", "filled"}
       \/ at = "end" /\ build.trailing = 0
       => (enobuf => cnt = 0)

PlayerInv ==
    /\ PlayerTypes /\ InPlace /\ Apart
    /\ Len(played) <= Total /\ SoFar
    /\ at # "idle" => InQueue
    /\ GoesOn /\ Told

-----------------------------------------------------------------------------
LEMMA Remainder ==
    ASSUME NEW d \in Nat \ {0}, NEW rest \in 0 .. d - 1
    PROVE  rest % d = rest /\ (d + rest) % d = rest
<1>1. ASSUME NEW a \in Nat, a = rest \/ a = d + rest PROVE a % d = rest
    <2> DEFINE p == a \div d
               s == a % d
    <2>1. a = (d * p) + s /\ p \in Int /\ s \in 0 .. d - 1
        OBVIOUS
    <2> HIDE DEF p, s
    <2>2. p <= -1 => d * p <= -d
        BY <2>1
    <2>3. p >= 2 => d * p >= d + d
        BY <2>1
    <2>4. p = 0 \/ p = 1
        BY <1>1, <2>1, <2>2, <2>3
    <2>5. s = rest
        <3>1. CASE p = 0
            BY <1>1, <2>1, <3>1
        <3>2. CASE p = 1
            BY <1>1, <2>1, <3>2
        <3> QED
            BY <2>4, <3>1, <3>2
    <2> QED
        BY <2>5 DEF s
<1>2. rest \in Nat /\ d + rest \in Nat
    OBVIOUS
<1> QED
    BY <1>1, <1>2

(* The arithmetic of the queue.                                            *)
LEMMA PlayerNumbers ==
    ASSUME Player!PlayerAssumption, PlayerTypes
    PROVE  /\ NumBuf \in Nat /\ NumBuf >= 2 /\ NumBuf <= 255 /\ Parts \in Nat /\ Parts >= 1
           /\ build.leading \in Nat /\ build.leading >= 1 /\ build.trailing \in Nat
           /\ build.trailing = 0 \/ build.trailing >= NumBuf
           /\ cnt \in Nat /\ cnt <= NumBuf /\ nth \in Nat /\ nth >= 1
           /\ putAt \in Nat /\ putAt < NumBuf /\ getAt \in Nat /\ getAt < NumBuf
           /\ Player!Buffer = 0 .. NumBuf - 1 /\ NoBuffer \notin Player!Buffer
           /\ Total \in Nat /\ Len(played) \in Nat /\ enobuf \in BOOLEAN
<1>1. /\ build \in Builds /\ cnt \in 0 .. NumBuf /\ putAt \in Player!Buffer /\ getAt \in Player!Buffer
      /\ played \in Seq(0 .. Parts) /\ nth \in Nat \ {0}
    BY DEF PlayerTypes
<1>2. /\ NumBuf \in Nat /\ NumBuf >= 2 /\ NumBuf <= 255 /\ Parts \in Nat /\ Parts >= 1
      /\ build.leading \in Nat /\ build.leading >= 1 /\ build.trailing \in Nat
      /\ build.trailing = 0 \/ build.trailing >= NumBuf
      /\ NoBuffer \notin Player!Buffer
    BY <1>1 DEF Player!PlayerAssumption
<1>3. Len(played) \in Nat
    BY <1>1
<1>4. Total \in Nat
    BY <1>2 DEF Total
<1> QED
    BY <1>1, <1>2, <1>3, <1>4 DEF Player!Buffer, PlayerTypes

LEMMA FollowingIs ==
    ASSUME Player!PlayerAssumption, PlayerTypes, NEW i \in Player!Buffer
    PROVE  Player!Following(i) = IF i + 1 < NumBuf THEN i + 1 ELSE 0
<1>1. NumBuf \in Nat \ {0} /\ i \in 0 .. NumBuf - 1
    BY PlayerNumbers DEF Player!Buffer
<1>2. CASE i + 1 < NumBuf
    <2>1. i + 1 \in 0 .. NumBuf - 1
        BY <1>1, <1>2
    <2>2. (i + 1) % NumBuf = i + 1
        BY <1>1, <2>1, Remainder
    <2> QED
        BY <1>2, <2>2 DEF Player!Following
<1>3. CASE ~(i + 1 < NumBuf)
    <2>1. i + 1 = NumBuf + 0 /\ 0 \in 0 .. NumBuf - 1
        BY <1>1, <1>3
    <2>2. (NumBuf + 0) % NumBuf = 0
        BY <1>1, <2>1, Remainder
    <2> QED
        BY <1>3, <2>1, <2>2 DEF Player!Following
<1> QED
    BY <1>2, <1>3

LEMMA CountIs ==
    ASSUME Player!PlayerAssumption, PlayerTypes
    PROVE  /\ cnt < NumBuf => (cnt + 1) % 256 = cnt + 1
           /\ cnt > 0 => (cnt + 255) % 256 = cnt - 1
<1>1. NumBuf \in Nat /\ NumBuf <= 255 /\ cnt \in Nat /\ cnt <= NumBuf
    BY PlayerNumbers
<1> QED
    BY <1>1

(* A step that leaves the queue and what was played alone.                 *)
LEMMA QueueSame ==
    ASSUME PlayerInv, UNCHANGED <<buf, putAt, getAt, cnt, played, build>>
    PROVE  /\ SoFar' /\ Len(played') <= Total'
           /\ InQueue => InQueue'
           /\ DOMAIN buf' = Player!Buffer
           /\ \A i : Heard(i)' = Heard(i)
BY DEF PlayerInv, PlayerTypes, SoFar, InQueue, Heard, Total

LEMMA PlayInv == ASSUME Player!PlayerAssumption, PlayerInv, Player!play PROVE PlayerInv'
<1>1. /\ at = "idle" /\ at' = "get" /\ phase' = "lead" /\ nth' = 1 /\ played' = << >>
      /\ putAt' = 0 /\ getAt' = 0 /\ cnt' = 0 /\ buf' \in [Player!Buffer -> Sample]
      /\ UNCHANGED <<writing, reading, build, enobuf>>
    BY DEF Player!play, Player!Runs
<1>2. enobuf /\ reading = NoBuffer /\ writing = NoBuffer
    BY <1>1 DEF PlayerInv, Told, Player!EnobufTells, Apart
<1>3. /\ NumBuf \in Nat /\ NumBuf >= 2 /\ build.leading \in Nat /\ build.leading >= 1 /\ 0 \in Player!Buffer
      /\ Total \in Nat
    BY PlayerNumbers DEF PlayerInv, Player!Buffer
<1>4. << >> \in Seq(0 .. Parts) /\ Len(<< >>) = 0
    OBVIOUS
<1>5. PlayerTypes'
    BY <1>1, <1>3, <1>4 DEF PlayerInv, PlayerTypes
<1>6. InPlace'
    BY <1>1, <1>3 DEF InPlace, Player!InPhase
<1>7. Apart'
    BY <1>1, <1>2, <1>3 DEF Apart
<1>8. Len(played') <= Total' /\ SoFar' /\ InQueue'
    BY <1>1, <1>3, <1>4 DEF SoFar, InQueue, Total
<1>9. GoesOn'
    BY <1>1, <1>4 DEF GoesOn, Given
<1>10. Told'
    BY <1>1, <1>2 DEF Told, Player!EnobufTells
<1> QED
    BY <1>5, <1>6, <1>7, <1>8, <1>9, <1>10 DEF PlayerInv

LEMMA CheckInv == ASSUME Player!PlayerAssumption, PlayerInv, Player!checkEnobuf PROVE PlayerInv'
<1>1. /\ at = "check" /\ at' = (IF enobuf THEN "refill" ELSE "get") /\ enobuf' = FALSE
      /\ UNCHANGED <<buf, putAt, getAt, cnt, writing, reading, build, phase, nth, played>>
    BY DEF Player!checkEnobuf, Player!Runs, Player!queueVars
<1>2. at' \in {"refill", "get"} /\ enobuf \in BOOLEAN /\ phase = "sound"
    BY <1>1 DEF PlayerInv, PlayerTypes, InPlace
<1>3. PlayerTypes'
    BY <1>1, <1>2 DEF PlayerInv, PlayerTypes
<1>4. InPlace'
    BY <1>1, <1>2 DEF PlayerInv, InPlace, Player!InPhase
<1>5. Apart'
    BY <1>1, <1>2 DEF PlayerInv, Apart
<1>6. GoesOn'
    BY <1>1, <1>2 DEF PlayerInv, GoesOn, Given
<1>7. Told'
    <2>1. reading = NoBuffer <=> enobuf
        BY <1>1 DEF PlayerInv, Told, Player!EnobufTells
    <2> QED
        BY <1>1, <1>2, <2>1 DEF Told, Player!EnobufTells
<1> QED
    BY <1>1, <1>3, <1>4, <1>5, <1>6, <1>7, QueueSame DEF PlayerInv

LEMMA RefillInv == ASSUME Player!PlayerAssumption, PlayerInv, Player!dmaRefill PROVE PlayerInv'
<1>1. /\ at = "refill" /\ at' = "get" /\ reading' = Player!Readable /\ enobuf' = (enobuf \/ reading' = NoBuffer)
      /\ UNCHANGED <<buf, putAt, getAt, cnt, writing, build, phase, nth, played>>
    BY DEF Player!dmaRefill, Player!Runs, Player!IRQgetReadableBuffer
<1>2. phase = "sound" /\ ~enobuf /\ cnt \in Nat /\ getAt # NoBuffer
    BY <1>1, PlayerNumbers DEF PlayerInv, InPlace, Told, PlayerTypes
<1>3. PlayerTypes'
    BY <1>1, <1>2 DEF PlayerInv, PlayerTypes
<1>4. InPlace'
    BY <1>1, <1>2 DEF PlayerInv, InPlace, Player!InPhase
<1>5. Apart'
    BY <1>1, <1>2 DEF PlayerInv, Apart, Player!Readable
<1>6. GoesOn'
    BY <1>1, <1>2 DEF PlayerInv, GoesOn, Given
<1>7. Told'
    BY <1>1, <1>2 DEF Told, Player!EnobufTells, Player!Readable
<1> QED
    BY <1>1, <1>3, <1>4, <1>5, <1>6, <1>7, QueueSame DEF PlayerInv

LEMMA GetInv == ASSUME Player!PlayerAssumption, PlayerInv, Player!getWritableBuffer PROVE PlayerInv'
<1>1. /\ at = "get" /\ writing' = Player!Writable
      /\ at' = (IF Player!Writable = NoBuffer THEN "get" ELSE "fill")
      /\ UNCHANGED <<buf, putAt, getAt, cnt, reading, build, phase, nth, enobuf, played>>
    BY DEF Player!getWritableBuffer, Player!Runs, Player!IRQgetWritableBuffer
<1>2. at' \in {"get", "fill"} /\ putAt # NoBuffer /\ cnt <= NumBuf /\ cnt \in Nat /\ NumBuf \in Nat
    BY <1>1, PlayerNumbers DEF PlayerInv, PlayerTypes
<1>3. PlayerTypes'
    BY <1>1, <1>2 DEF PlayerInv, PlayerTypes
<1>4. InPlace'
    BY <1>1, <1>2 DEF PlayerInv, InPlace, Player!InPhase
<1>5. Apart'
    BY <1>1, <1>2 DEF PlayerInv, Apart, Player!Writable
<1>6. GoesOn'
    BY <1>1, <1>2 DEF PlayerInv, GoesOn, Given
<1>7. Told'
    BY <1>1, <1>2 DEF PlayerInv, Told, Player!EnobufTells
<1> QED
    BY <1>1, <1>3, <1>4, <1>5, <1>6, <1>7, QueueSame DEF PlayerInv

(* The buffer that is filled is none of those in the queue.                *)
LEMMA FillInv == ASSUME Player!PlayerAssumption, PlayerInv, Player!fillStereoBuffer PROVE PlayerInv'
<1> DEFINE part == IF phase = "sound" THEN nth ELSE 0
<1>1. /\ at = "fill" /\ buf' = [buf EXCEPT ![writing] = part]
      /\ IF Player!SoundOver
         THEN writing' = NoBuffer /\ at' = Player!AfterSound /\ phase' = "trail" /\ nth' = 1
         ELSE at' = "filled" /\ UNCHANGED <<writing, phase, nth>>
      /\ UNCHANGED <<putAt, getAt, cnt, reading, build, enobuf, played>>
    BY DEF Player!fillStereoBuffer, Player!Runs
<1>2. writing = putAt /\ cnt < NumBuf
    BY <1>1 DEF PlayerInv, Apart
<1>3. /\ NumBuf \in Nat /\ cnt \in Nat /\ putAt \in Nat /\ putAt < NumBuf
      /\ getAt \in Nat /\ getAt < NumBuf /\ Player!Buffer = 0 .. NumBuf - 1
      /\ build.leading \in Nat /\ build.trailing \in Nat /\ Parts \in Nat /\ Parts >= 1
      /\ nth \in Nat /\ nth >= 1
    BY PlayerNumbers DEF PlayerInv
<1>4. /\ DOMAIN buf = Player!Buffer /\ DOMAIN buf' = Player!Buffer
      /\ buf'[putAt] = part /\ \A i \in Player!Buffer : i # putAt => buf'[i] = buf[i]
    BY <1>1, <1>2, <1>3 DEF PlayerInv, PlayerTypes
<1> HIDE DEF part
<1>5. at' \in {"filled", "get", "end"} /\ nth' \in Nat \ {0} /\ phase' \in {"lead", "sound", "trail"}
    BY <1>1, <1>3 DEF Player!AfterSound, PlayerInv, PlayerTypes
<1>6. PlayerTypes'
    BY <1>1, <1>4, <1>5 DEF PlayerInv, PlayerTypes
<1>7. InPlace'
    BY <1>1, <1>3, <1>5 DEF PlayerInv, InPlace, Player!InPhase, Player!SoundOver, Player!AfterSound
<1>8. Apart'
    BY <1>1, <1>2, <1>5 DEF PlayerInv, Apart, Player!AfterSound
<1>9. Len(played') <= Total' /\ SoFar'
    BY <1>1 DEF PlayerInv, Total, SoFar, Heard
<1>10. InQueue'
    <2>1. SUFFICES ASSUME NEW j \in 0 .. cnt - 1
                   PROVE  buf'[IF getAt + j < NumBuf THEN getAt + j ELSE getAt + j - NumBuf]
                            = Heard(Len(played) + 1 + j)
        BY <1>1 DEF InQueue, Heard
    <2>2. InQueue
        BY <1>1 DEF PlayerInv
    <2> DEFINE b == IF getAt + j < NumBuf THEN getAt + j ELSE getAt + j - NumBuf
    <2>3. b \in Player!Buffer /\ b # putAt
        BY <1>2, <1>3, <2>1 DEF PlayerInv, Apart
    <2>4. buf[b] = Heard(Len(played) + 1 + j)
        BY <2>2 DEF InQueue
    <2> HIDE DEF b
    <2>5. buf'[b] = Heard(Len(played) + 1 + j)
        BY <1>4, <2>3, <2>4
    <2> QED
        BY <2>5 DEF b
<1>11. GoesOn'
    <2>1. Len(played) + cnt = Given
        BY <1>1 DEF PlayerInv, GoesOn
    <2>2. CASE Player!SoundOver
        <3>1. Given' = Given /\ at' # "filled" /\ at' # "idle"
            BY <1>1, <1>3, <2>2 DEF Given, Player!SoundOver, Player!AfterSound, Total
        <3> QED
            BY <1>1, <2>1, <3>1 DEF GoesOn
    <2>3. CASE ~Player!SoundOver
        <3>1. Given' = Given /\ at' = "filled" /\ phase' = phase
            BY <1>1, <2>3 DEF Given, Total
        <3>2. part = Heard(Given + 1)
            <4>1. nth <= Player!InPhase(phase) /\ phase \in {"lead", "sound", "trail"}
                BY <1>1 DEF PlayerInv, PlayerTypes, InPlace
            <4>2. CASE phase = "lead"
                BY <1>1, <1>3, <4>1, <4>2 DEF Given, Heard, Player!InPhase, part
            <4>3. CASE phase = "sound"
                BY <1>1, <1>3, <2>3, <4>1, <4>3 DEF Given, Heard, Player!InPhase, Player!SoundOver, part
            <4>4. CASE phase = "trail"
                BY <1>1, <1>3, <4>1, <4>4 DEF Given, Heard, Player!InPhase, part
            <4> QED
                BY <4>1, <4>2, <4>3, <4>4
        <3>3. buf'[putAt'] = Heard(Given + 1)'
            BY <1>1, <1>4, <3>1, <3>2 DEF Heard
        <3> QED
            BY <1>1, <2>1, <3>1, <3>3 DEF GoesOn
    <2> QED
        BY <2>2, <2>3
<1>12. Told'
    <2>1. (enobuf <=> reading = NoBuffer) /\ (phase = "sound" => (enobuf => cnt = 0))
        BY <1>1 DEF PlayerInv, Told, Player!EnobufTells
    <2>2. CASE Player!SoundOver
        <3>1. phase = "sound" /\ phase' = "trail" /\ at' # "filled" /\ at' # "fill"
            BY <1>1, <2>2 DEF Player!SoundOver, Player!AfterSound
        <3> QED
            BY <1>1, <1>5, <2>1, <3>1 DEF Told, Player!EnobufTells
    <2>3. CASE ~Player!SoundOver
        <3>1. phase' = phase /\ at' = "filled"
            BY <1>1, <2>3
        <3> QED
            BY <1>1, <2>1, <3>1 DEF Told, Player!EnobufTells
    <2> QED
        BY <2>2, <2>3
<1> QED
    BY <1>6, <1>7, <1>8, <1>9, <1>10, <1>11, <1>12 DEF PlayerInv

(* The filled buffer becomes the last one in the queue.                    *)
LEMMA FilledInv == ASSUME Player!PlayerAssumption, PlayerInv, Player!bufferFilled PROVE PlayerInv'
<1>1. /\ at = "filled" /\ writing' = NoBuffer
      /\ IF nth < Player!InPhase(phase)
         THEN /\ at' = IF phase = "sound" THEN "check" ELSE "get"
              /\ nth' = nth + 1 /\ UNCHANGED phase
         ELSE /\ at' = IF phase = "lead" THEN "check" ELSE "end"
              /\ phase' = "sound" /\ nth' = 1
      /\ UNCHANGED <<buf, getAt, reading, build, enobuf, played>>
    BY DEF Player!bufferFilled, Player!Runs, Player!IRQbufferFilled
<1>2. writing = putAt /\ cnt < NumBuf
    BY <1>1 DEF PlayerInv, Apart
<1>3. /\ NumBuf \in Nat /\ NumBuf >= 2 /\ cnt \in Nat /\ putAt \in Nat /\ putAt < NumBuf
      /\ getAt \in Nat /\ getAt < NumBuf /\ Player!Buffer = 0 .. NumBuf - 1
      /\ build.leading \in Nat /\ build.leading >= 1 /\ build.trailing \in Nat
      /\ Parts \in Nat /\ Parts >= 1 /\ nth \in Nat /\ nth >= 1 /\ Len(played) \in Nat
    BY PlayerNumbers DEF PlayerInv
<1>4. cnt' = cnt + 1 /\ putAt' = IF putAt + 1 < NumBuf THEN putAt + 1 ELSE 0
    <2>1. cnt' = cnt + 1
        BY <1>2, CountIs DEF Player!bufferFilled, Player!IRQbufferFilled, PlayerInv
    <2>2. putAt \in Player!Buffer /\ ~(cnt' > NumBuf)
        BY <1>2, <1>3, <2>1
    <2>3. putAt' = Player!Following(putAt)
        BY <2>2 DEF Player!bufferFilled, Player!IRQbufferFilled
    <2> QED
        BY <2>1, <2>2, <2>3, FollowingIs DEF PlayerInv
<1>5. nth <= Player!InPhase(phase) /\ phase \in {"lead", "sound", "trail"} /\ (phase = "sound" => nth < Parts)
    BY <1>1 DEF PlayerInv, PlayerTypes, InPlace
<1>6. /\ at' \in {"check", "get", "end"} /\ nth' \in Nat \ {0} /\ phase' \in {"lead", "sound", "trail"}
      /\ (at' = "check" => phase' = "sound") /\ (at' = "get" => phase' # "sound")
    BY <1>1, <1>3, <1>5 DEF Player!InPhase
<1>7. cnt' \in 0 .. NumBuf /\ putAt' \in Player!Buffer
    BY <1>2, <1>3, <1>4
<1>8. PlayerTypes'
    BY <1>1, <1>6, <1>7 DEF PlayerInv, PlayerTypes
<1>9. InPlace'
    <2>1. CASE nth < Player!InPhase(phase)
        BY <1>1, <1>3, <1>5, <1>6, <2>1 DEF InPlace, Player!InPhase
    <2>2. CASE ~(nth < Player!InPhase(phase))
        BY <1>1, <1>3, <1>5, <1>6, <2>2 DEF InPlace, Player!InPhase
    <2> QED
        BY <2>1, <2>2
<1>10. Apart'
    BY <1>1, <1>2, <1>3, <1>4, <1>6 DEF PlayerInv, Apart
<1>11. Len(played') <= Total' /\ SoFar'
    BY <1>1 DEF PlayerInv, Total, SoFar, Heard
<1>12. Len(played) + cnt = Given /\ buf[putAt] = Heard(Given + 1)
    BY <1>1 DEF PlayerInv, GoesOn
<1>13. InQueue'
    <2>1. SUFFICES ASSUME NEW j \in 0 .. cnt
                   PROVE  buf[IF getAt + j < NumBuf THEN getAt + j ELSE getAt + j - NumBuf]
                            = Heard(Len(played) + 1 + j)
        <3>1. cnt' - 1 = cnt
            BY <1>3, <1>4
        <3>2. \A i : Heard(i)' = Heard(i)
            BY <1>1 DEF Heard
        <3> QED
            BY <1>1, <3>1, <3>2 DEF InQueue
    <2>2. CASE j \in 0 .. cnt - 1
        BY <1>1, <2>2 DEF PlayerInv, InQueue
    <2>3. CASE j = cnt
        <3>1. putAt = IF getAt + cnt < NumBuf THEN getAt + cnt ELSE getAt + cnt - NumBuf
            BY DEF PlayerInv, Apart
        <3>2. Len(played) + 1 + cnt = Given + 1
            BY <1>3, <1>12
        <3> QED
            BY <1>12, <2>3, <3>1, <3>2
    <2> QED
        BY <1>3, <2>1, <2>2, <2>3
<1>14. GoesOn'
    <2>1. Given' = Given + 1
        <3>1. CASE phase = "lead"
            <4>1. Given = nth - 1 + 0 /\ nth \in Nat /\ build.leading \in Nat
                BY <1>1, <1>3, <3>1 DEF Given
            <4>2. CASE nth < build.leading
                <5>1. at' \notin {"idle", "end"} /\ nth' = nth + 1 /\ phase' = "lead"
                    BY <1>1, <3>1, <4>2 DEF Player!InPhase
                <5>2. Given' = nth' - 1 + 0
                    BY <5>1 DEF Given
                <5> QED
                    BY <4>1, <5>1, <5>2
            <4>3. CASE ~(nth < build.leading)
                <5>1. at' \notin {"idle", "end"} /\ nth' = 1 /\ phase' = "sound" /\ nth = build.leading
                    BY <1>1, <1>5, <3>1, <4>1, <4>3 DEF Player!InPhase
                <5>2. Given' = 1 - 1 + build.leading
                    BY <1>1, <5>1 DEF Given
                <5> QED
                    BY <4>1, <5>1, <5>2
            <4> QED
                BY <4>2, <4>3
        <3>2. CASE phase = "sound"
            <4>1. nth < Player!InPhase(phase)
                BY <1>5, <3>2 DEF Player!InPhase
            <4>2. at' = "check" /\ nth' = nth + 1 /\ phase' = "sound"
                BY <1>1, <3>2, <4>1
            <4> QED
                BY <1>1, <1>3, <3>2, <4>2 DEF Given
        <3>3. CASE phase = "trail"
            <4>1. CASE nth < Player!InPhase(phase)
                BY <1>1, <1>3, <3>3, <4>1 DEF Given
            <4>2. CASE ~(nth < Player!InPhase(phase))
                <5>1. nth = build.trailing /\ at' = "end"
                    BY <1>1, <1>3, <1>5, <3>3, <4>2 DEF Player!InPhase
                <5>2. Given' = Total
                    BY <1>1, <5>1 DEF Given, Total
                <5>3. Given = nth - 1 + (build.leading + (Parts - 1))
                    BY <1>1, <1>3, <3>3 DEF Given
                <5> QED
                    BY <1>3, <5>1, <5>2, <5>3 DEF Total
            <4> QED
                BY <4>1, <4>2
        <3> QED
            BY <1>5, <3>1, <3>2, <3>3
    <2> QED
        BY <1>1, <1>3, <1>4, <1>6, <1>12, <2>1 DEF GoesOn
<1>15. Told'
    <2>1. enobuf <=> reading = NoBuffer
        BY <1>1 DEF PlayerInv, Told, Player!EnobufTells
    <2>2. at' = "end" => build.trailing > 0
        BY <1>1, <1>3, <1>5 DEF Player!InPhase
    <2> QED
        BY <1>1, <1>3, <1>6, <2>1, <2>2 DEF Told, Player!EnobufTells
<1> QED
    BY <1>8, <1>9, <1>10, <1>11, <1>13, <1>14, <1>15 DEF PlayerInv

LEMMA ReturnsInv == ASSUME Player!PlayerAssumption, PlayerInv, Player!playReturns PROVE PlayerInv'
<1>1. /\ at = "end" /\ at' = (IF enobuf THEN "idle" ELSE "end")
      /\ UNCHANGED <<buf, putAt, getAt, cnt, writing, reading, build, phase, nth, enobuf, played>>
    BY DEF Player!playReturns, Player!Runs, Player!queueVars
<1>2. at' \in {"idle", "end"} /\ (at' = "idle" => enobuf)
    BY <1>1
<1>3. PlayerTypes'
    BY <1>1, <1>2 DEF PlayerInv, PlayerTypes
<1>4. InPlace'
    BY <1>1, <1>2 DEF InPlace
<1>5. Apart'
    BY <1>1, <1>2 DEF PlayerInv, Apart
<1>6. GoesOn'
    BY <1>1, <1>2 DEF PlayerInv, GoesOn, Given, Total
<1>7. Told'
    BY <1>1, <1>2 DEF PlayerInv, Told, Player!EnobufTells
<1> QED
    BY <1>1, <1>3, <1>4, <1>5, <1>6, <1>7, QueueSame DEF PlayerInv

(* The first buffer of the queue has been heard.                           *)
LEMMA HandlerInv == ASSUME Player!PlayerAssumption, PlayerInv, Player!dmaHandler PROVE PlayerInv'
<1>1. /\ reading # NoBuffer /\ played' = Append(played, buf[reading])
      /\ reading' = Player!Readable' /\ enobuf' = (enobuf \/ reading' = NoBuffer)
      /\ cnt' = (cnt + 255) % 256 /\ getAt' = Player!Following(getAt)
      /\ UNCHANGED <<buf, putAt, writing, build, at, phase, nth>>
    BY DEF Player!dmaHandler, Player!IRQbufferEmptied, Player!threadVars
<1>2. reading = getAt /\ cnt > 0 /\ at # "refill" /\ at # "idle" /\ ~enobuf
    BY <1>1 DEF PlayerInv, Apart, Told, Player!EnobufTells
<1>3. /\ NumBuf \in Nat /\ NumBuf >= 2 /\ cnt \in Nat /\ cnt <= NumBuf /\ putAt \in Nat /\ putAt < NumBuf
      /\ getAt \in Nat /\ getAt < NumBuf /\ Player!Buffer = 0 .. NumBuf - 1 /\ NoBuffer \notin Player!Buffer
      /\ Parts \in Nat /\ build.leading \in Nat /\ Len(played) \in Nat /\ played \in Seq(0 .. Parts)
      /\ Total \in Nat
    BY PlayerNumbers DEF PlayerInv, PlayerTypes
<1>4. cnt' = cnt - 1 /\ getAt' = IF getAt + 1 < NumBuf THEN getAt + 1 ELSE 0
    <2>1. getAt \in Player!Buffer
        BY <1>3
    <2> QED
        BY <1>1, <1>2, <2>1, CountIs, FollowingIs DEF PlayerInv
<1>5. cnt' \in 0 .. NumBuf /\ getAt' \in Player!Buffer
    BY <1>2, <1>3, <1>4
<1>6. InQueue /\ SoFar /\ Len(played) + cnt = Given
    BY <1>2 DEF PlayerInv, GoesOn
<1>7. buf[getAt] = Heard(Len(played) + 1)
    <2>1. 0 \in 0 .. cnt - 1 /\ getAt + 0 = getAt /\ Len(played) + 1 + 0 = Len(played) + 1
        BY <1>2, <1>3
    <2> QED
        BY <1>3, <1>6, <2>1 DEF InQueue
<1>8. \A i \in Nat : Heard(i) \in 0 .. Parts
    BY <1>3 DEF Heard
<1>9. /\ played' \in Seq(0 .. Parts) /\ Len(played') = Len(played) + 1
      /\ played'[Len(played) + 1] = Heard(Len(played) + 1)
      /\ \A i \in 1 .. Len(played) : played'[i] = played[i]
    <2> DEFINE x == buf[reading]
    <2>1. x \in 0 .. Parts /\ x = Heard(Len(played) + 1)
        BY <1>2, <1>3, <1>7, <1>8
    <2> HIDE DEF x
    <2>2. /\ Append(played, x) \in Seq(0 .. Parts) /\ Len(Append(played, x)) = Len(played) + 1
          /\ Append(played, x)[Len(played) + 1] = x
          /\ \A i \in 1 .. Len(played) : Append(played, x)[i] = played[i]
        BY <1>3, <2>1
    <2> QED
        BY <1>1, <2>1, <2>2 DEF x
<1>10. enobuf' \in BOOLEAN
    BY <1>1, <1>2
<1>11. PlayerTypes'
    BY <1>1, <1>5, <1>9, <1>10 DEF PlayerInv, PlayerTypes
<1>12. InPlace'
    BY <1>1 DEF PlayerInv, InPlace, Player!InPhase
<1>13. (reading' = NoBuffer <=> cnt' = 0) /\ (reading' # NoBuffer => reading' = getAt')
    BY <1>1, <1>3, <1>5 DEF Player!Readable
<1>14. Apart'
    <2>1. putAt' = IF getAt' + cnt' < NumBuf THEN getAt' + cnt' ELSE getAt' + cnt' - NumBuf
        <3>1. putAt = IF getAt + cnt < NumBuf THEN getAt + cnt ELSE getAt + cnt - NumBuf
            BY DEF PlayerInv, Apart
        <3>2. CASE getAt + 1 < NumBuf
            <4>1. getAt' = getAt + 1 /\ getAt' + cnt' = getAt + cnt /\ putAt' = putAt
                BY <1>1, <1>2, <1>3, <1>4, <3>2
            <4>2. getAt' + cnt' \in Int /\ getAt + cnt \in Int
                BY <1>3, <1>4, <3>2
            <4>3. CASE getAt + cnt < NumBuf
                BY <1>3, <3>1, <4>1, <4>2, <4>3
            <4>4. CASE ~(getAt + cnt < NumBuf)
                <5>1. putAt = getAt + cnt - NumBuf /\ ~(getAt' + cnt' < NumBuf)
                    BY <3>1, <4>1, <4>4
                <5>2. getAt' + cnt' - NumBuf = getAt + cnt - NumBuf
                    <6>1. cnt' = cnt - 1 /\ getAt' = getAt + 1
                        BY <1>4, <3>2
                    <6> QED
                        BY <1>3, <6>1
                <5> QED
                    BY <4>1, <5>1, <5>2
            <4> QED
                BY <4>3, <4>4
        <3>3. CASE ~(getAt + 1 < NumBuf)
            <4>1. getAt' = 0 /\ getAt + 1 = NumBuf /\ cnt' = cnt - 1
                BY <1>3, <1>4, <3>3
            <4>2. getAt' + cnt' = cnt - 1 /\ getAt' + cnt' < NumBuf
                BY <1>2, <1>3, <4>1
            <4>3. putAt = cnt - 1
                BY <1>2, <1>3, <3>1, <4>1
            <4> QED
                BY <1>1, <4>2, <4>3
        <3> QED
            BY <3>2, <3>3
    <2>2. at' \in {"fill", "filled"} => cnt' < NumBuf
        BY <1>1, <1>3, <1>4 DEF PlayerInv, Apart
    <2>3. writing' = IF at' \in {"fill", "filled"} THEN putAt' ELSE NoBuffer
        BY <1>1 DEF PlayerInv, Apart
    <2>4. reading' # NoBuffer => reading' = getAt' /\ cnt' > 0
        BY <1>5, <1>13
    <2> QED
        BY <2>1, <2>2, <2>3, <2>4 DEF Apart
<1>15. SoFar'
    <2>1. SUFFICES ASSUME NEW i \in 1 .. Len(played) + 1 PROVE played'[i] = Heard(i)
        BY <1>1, <1>9 DEF SoFar, Heard
    <2>2. CASE i \in 1 .. Len(played)
        BY <1>6, <1>9, <2>2 DEF SoFar
    <2>3. CASE i = Len(played) + 1
        BY <1>9, <2>3
    <2> QED
        BY <1>3, <2>1, <2>2, <2>3
<1>16. InQueue'
    <2>1. SUFFICES ASSUME NEW j \in 0 .. cnt - 2
                   PROVE  buf[IF getAt' + j < NumBuf THEN getAt' + j ELSE getAt' + j - NumBuf]
                            = Heard(Len(played) + 1 + 1 + j)
        <3>1. cnt' - 1 = cnt - 2 /\ Len(played') = Len(played) + 1
            BY <1>3, <1>4, <1>9
        <3>2. \A i : Heard(i)' = Heard(i)
            BY <1>1 DEF Heard
        <3> QED
            BY <1>1, <3>1, <3>2 DEF InQueue
    <2> DEFINE m == j + 1
    <2>2. /\ m \in 0 .. cnt - 1 /\ Len(played) + 1 + m = Len(played) + 1 + 1 + j
          /\ (IF getAt' + j < NumBuf THEN getAt' + j ELSE getAt' + j - NumBuf)
               = (IF getAt + m < NumBuf THEN getAt + m ELSE getAt + m - NumBuf)
        BY <1>3, <1>4, <2>1
    <2> HIDE DEF m
    <2>3. buf[IF getAt + m < NumBuf THEN getAt + m ELSE getAt + m - NumBuf] = Heard(Len(played) + 1 + m)
        BY <1>6, <2>2 DEF InQueue
    <2> QED
        BY <2>2, <2>3
<1>17. GoesOn'
    <2>1. Given' = Given
        BY <1>1 DEF Given, Total
    <2>2. Len(played') + cnt' = Given'
        BY <1>2, <1>3, <1>4, <1>6, <1>9, <2>1
    <2> QED
        BY <1>1, <2>1, <2>2 DEF PlayerInv, GoesOn, Heard
<1>18. Len(played') <= Total'
    <2>1. Given <= Total
        <3>1. CASE at = "end"
            BY <1>3, <3>1 DEF Given
        <3>2. CASE at # "end"
            <4>1. /\ nth <= Player!InPhase(phase) /\ phase \in {"lead", "sound", "trail"}
                  /\ at \notin {"idle", "end"} /\ nth \in Nat
                  /\ build.trailing \in Nat /\ Parts >= 1
                BY <1>2, <3>2, PlayerNumbers DEF PlayerInv, PlayerTypes, InPlace
            <4> DEFINE L == build.leading
                       M == Parts - 1
                       T == build.trailing
            <4>5. /\ L \in Nat /\ M \in Nat /\ T \in Nat /\ Parts = M + 1
                  /\ L = build.leading /\ M = Parts - 1 /\ T = build.trailing
                BY <4>1, PlayerNumbers DEF PlayerInv
            <4>6. Total = L + M + T
                BY DEF Total
            <4> HIDE DEF L, M, T
            <4>2. CASE phase = "lead"
                <5>1. Given = nth - 1 + 0 /\ nth <= L
                    BY <4>1, <4>2, <4>5 DEF Given, Player!InPhase
                <5> QED
                    BY <4>1, <4>5, <4>6, <5>1
            <4>3. CASE phase = "sound"
                <5>1. Given = nth - 1 + L /\ nth <= M + 1
                    BY <4>1, <4>3, <4>5 DEF Given, Player!InPhase
                <5> QED
                    BY <4>1, <4>5, <4>6, <5>1
            <4>4. CASE phase = "trail"
                <5>1. Given = nth - 1 + (L + M) /\ nth <= T
                    BY <4>1, <4>4, <4>5 DEF Given, Player!InPhase
                <5> QED
                    BY <4>1, <4>5, <4>6, <5>1
            <4> QED
                BY <4>1, <4>2, <4>3, <4>4
        <3> QED
            BY <3>1, <3>2
    <2>2. Total' = Total
        BY <1>1 DEF Total
    <2> QED
        BY <1>2, <1>3, <1>6, <1>9, <2>1, <2>2
<1>19. Told'
    <2>1. enobuf' <=> cnt' = 0
        BY <1>1, <1>2, <1>13
    <2> QED
        BY <1>1, <1>2, <1>13, <2>1 DEF Told, Player!EnobufTells
<1> QED
    BY <1>11, <1>12, <1>14, <1>15, <1>16, <1>17, <1>18, <1>19 DEF PlayerInv

LEMMA InitPlayerInv == ASSUME Player!PlayerAssumption PROVE Player!Init => PlayerInv
<1> SUFFICES ASSUME Player!Init PROVE PlayerInv
    OBVIOUS
<1>1. /\ build \in Builds /\ at = "idle" /\ phase = "lead" /\ nth = 1 /\ enobuf = TRUE /\ played = << >>
      /\ putAt = 0 /\ getAt = 0 /\ cnt = 0 /\ buf \in [Player!Buffer -> Sample]
      /\ writing = NoBuffer /\ reading = NoBuffer
    BY DEF Player!Init, Player!Constructed
<1>2. NumBuf \in Nat /\ NumBuf >= 2 /\ 0 \in Player!Buffer
    BY DEF Player!PlayerAssumption, Player!Buffer
<1>3. << >> \in Seq(0 .. Parts) /\ Len(<< >>) = 0
    OBVIOUS
<1>4. PlayerTypes
    BY <1>1, <1>2, <1>3 DEF PlayerTypes
<1>5. Total \in Nat
    BY <1>4, PlayerNumbers
<1> QED
    BY <1>1, <1>2, <1>3, <1>4, <1>5
       DEF PlayerInv, InPlace, Apart, SoFar, GoesOn, Told, Player!EnobufTells

LEMMA NextPlayerInv == ASSUME Player!PlayerAssumption PROVE PlayerInv /\ [Player!Next]_(Player!allVars) => PlayerInv'
<1> SUFFICES ASSUME PlayerInv, [Player!Next]_(Player!allVars) PROVE PlayerInv'
    OBVIOUS
<1>1. CASE Player!SpuriousWakeup \/ UNCHANGED Player!allVars
    <2>1. UNCHANGED <<buf, putAt, getAt, cnt, writing, reading, build, at, phase, nth, enobuf, played>>
        BY <1>1 DEF Player!SpuriousWakeup, Player!allVars, Player!queueVars, Player!threadVars
    <2> QED
        BY <2>1, QueueSame
           DEF PlayerInv, PlayerTypes, InPlace, Player!InPhase, Apart, GoesOn, Given, Total, Told, Player!EnobufTells
<1> QED
    BY <1>1, PlayInv, CheckInv, RefillInv, GetInv, FillInv, FilledInv, ReturnsInv, HandlerInv
       DEF Player!Next, Player!ThreadStep

LEMMA TwoParts ==
    ASSUME NEW S, NEW a \in Seq(S), NEW b \in Seq(S)
    PROVE  /\ a \o b \in Seq(S) /\ Len(a \o b) = Len(a) + Len(b)
           /\ \A i \in 1 .. Len(a) + Len(b) :
                 (a \o b)[i] = IF i <= Len(a) THEN a[i] ELSE b[i - Len(a)]
OBVIOUS

(* Silence, sound and silence, as one.                                     *)
LEMMA AllIs ==
    ASSUME Player!PlayerAssumption, PlayerTypes
    PROVE  /\ Player!Sound(Parts - 1) \o Player!Silence(build.trailing) = [i \in 1 .. Total |-> Heard(i)]
           /\ Len(Player!Sound(Parts - 1)) = build.leading + (Parts - 1)
<1> DEFINE L == build.leading
           M == Parts - 1
           T == build.trailing
           lead == Player!Silence(L)
           parts == [i \in 1 .. M |-> i]
           trail == Player!Silence(T)
<1>1. L \in Nat /\ M \in Nat /\ T \in Nat /\ Total = L + M + T /\ Parts = M + 1
    <2>1. L \in Nat /\ T \in Nat /\ Parts \in Nat /\ Parts >= 1
        BY PlayerNumbers
    <2>2. Total = L + M + T
        BY DEF Total
    <2>3. M \in Nat /\ Parts = M + 1
        BY <2>1
    <2> QED
        BY <2>1, <2>2, <2>3
<1> HIDE DEF L, M, T
<1>2. lead \in Seq(Nat) /\ Len(lead) = L /\ \A i \in 1 .. L : lead[i] = 0
    BY <1>1 DEF Player!Silence
<1>3. trail \in Seq(Nat) /\ Len(trail) = T /\ \A i \in 1 .. T : trail[i] = 0
    BY <1>1 DEF Player!Silence
<1>4. parts \in Seq(Nat) /\ Len(parts) = M /\ \A i \in 1 .. M : parts[i] = i
    BY <1>1
<1> HIDE DEF lead, parts, trail
<1> DEFINE sound == lead \o parts
<1>5. /\ sound \in Seq(Nat) /\ Len(sound) = L + M
      /\ \A i \in 1 .. L + M : sound[i] = IF i <= L THEN 0 ELSE i - L
    <2>1. /\ sound \in Seq(Nat) /\ Len(sound) = L + M
          /\ \A i \in 1 .. L + M : sound[i] = IF i <= L THEN lead[i] ELSE parts[i - L]
        BY <1>1, <1>2, <1>4
    <2>2. \A i \in 1 .. L + M : (i <= L => i \in 1 .. L) /\ (~(i <= L) => i - L \in 1 .. M)
        BY <1>1
    <2> HIDE DEF sound
    <2> QED
        BY <1>2, <1>4, <2>1, <2>2
<1> HIDE DEF sound
<1> DEFINE whole == sound \o trail
<1>6. /\ whole \in Seq(Nat) /\ Len(whole) = L + M + T
      /\ \A i \in 1 .. L + M + T : whole[i] = IF i <= L + M THEN sound[i] ELSE trail[i - (L + M)]
    <2>1. /\ whole \in Seq(Nat) /\ Len(whole) = Len(sound) + Len(trail)
          /\ \A i \in 1 .. Len(sound) + Len(trail) :
                whole[i] = IF i <= Len(sound) THEN sound[i] ELSE trail[i - Len(sound)]
        BY <1>3, <1>5, TwoParts
    <2> HIDE DEF whole
    <2> QED
        BY <1>3, <1>5, <2>1
<1> HIDE DEF whole
<1>7. \A i \in 1 .. Total : whole[i] = Heard(i)
    <2>1. SUFFICES ASSUME NEW i \in 1 .. Total PROVE whole[i] = Heard(i)
        OBVIOUS
    <2>2. CASE i <= L + M
        <3>1. i \in 1 .. L + M /\ i \in 1 .. L + M + T
            BY <1>1, <2>2
        <3>2. whole[i] = IF i <= L THEN 0 ELSE i - L
            BY <1>5, <1>6, <2>2, <3>1
        <3> QED
            BY <1>1, <2>2, <3>1, <3>2 DEF Heard, L
    <2>3. CASE ~(i <= L + M)
        <3>1. i \in 1 .. L + M + T /\ i - (L + M) \in 1 .. T /\ ~(i < L + Parts)
            BY <1>1, <2>3
        <3>2. whole[i] = 0
            BY <1>3, <1>6, <2>3, <3>1
        <3> QED
            BY <3>1, <3>2 DEF Heard, L
    <2> QED
        BY <2>2, <2>3
<1>8. whole = [i \in 1 .. Total |-> Heard(i)]
    <2>1. whole = [i \in 1 .. Len(whole) |-> whole[i]]
        BY <1>6
    <2> QED
        BY <1>1, <1>6, <1>7, <2>1
<1>9. Player!Sound(Parts - 1) = sound
    BY DEF Player!Sound, sound, lead, parts, L, M
<1> QED
    BY <1>1, <1>5, <1>8, <1>9 DEF whole, trail, T, L, M

(* enobuf is true exactly when the DMA is idle, whatever the interrupt     *)
(* interleaves with, but where the thread is about to start it             *)
(* (player.cpp:60-72, 329-339, 413-436).                                   *)
THEOREM DmaTells == Player!Spec => []EnobufTells
<1>1. PlayerInv => EnobufTells
    BY DEF PlayerInv, Told, EnobufTells
<1> QED
    BY <1>1, PlayerAssumption, InitPlayerInv, NextPlayerInv, PTL DEF Player!Spec

(* What the code does: it plays the parts before the last one.             *)
LEMMA PlaysAllButLast ==
    ASSUME PlayerInv
    PROVE  Player!PlaysUpTo(Parts - 1)
<1> DEFINE all == Player!Sound(Parts - 1) \o Player!Silence(build.trailing)
<1>1. all = [i \in 1 .. Total |-> Heard(i)] /\ Len(Player!Sound(Parts - 1)) = build.leading + (Parts - 1)
    BY PlayerAssumption, AllIs DEF PlayerInv
<1>2. /\ Total \in Nat /\ Len(played) \in Nat /\ Len(played) <= Total /\ played \in Seq(0 .. Parts)
      /\ \A i \in 1 .. Len(played) : played[i] = Heard(i)
      /\ \A i \in 1 .. Total : Heard(i) \in Nat
    BY PlayerAssumption, PlayerNumbers DEF PlayerInv, PlayerTypes, SoFar, Heard
<1> HIDE DEF all
<1>3. all \in Seq(Nat) /\ Len(all) = Total
    BY <1>1, <1>2
<1>4. played = SubSeq(all, 1, Len(played))
    <2> DEFINE start == SubSeq(all, 1, Len(played))
    <2>1. \A i \in 1 .. Len(played) : all[i] \in Nat
        BY <1>1, <1>2
    <2>2. /\ start \in Seq(Nat) /\ Len(start) = Len(played)
          /\ \A i \in 1 .. Len(played) : start[i] = all[i]
        BY <1>2, <2>1, SubSeqProperties
    <2> HIDE DEF start
    <2>3. played \in Seq(Nat)
        BY <1>2
    <2>4. \A i \in 1 .. Len(played) : played[i] = start[i]
        <3>1. SUFFICES ASSUME NEW i \in 1 .. Len(played) PROVE played[i] = start[i]
            OBVIOUS
        <3>2. i \in 1 .. Total
            BY <1>2, <3>1
        <3>3. all[i] = Heard(i)
            BY <1>1, <3>2
        <3> QED
            BY <1>2, <2>2, <3>3
    <2>5. played = start
        BY <2>2, <2>3, <2>4, SeqEqual
    <2> QED
        BY <2>5 DEF start
<1>5. at = "end" /\ (build.trailing > 0 \/ enobuf) => Len(played) >= Len(Player!Sound(Parts - 1))
    <2>1. SUFFICES ASSUME at = "end", build.trailing > 0 \/ enobuf
                   PROVE  Len(played) >= build.leading + (Parts - 1)
        BY <1>1
    <2>2. Len(played) + cnt = Total
        <3>1. Given = Total
            BY <2>1 DEF Given
        <3> QED
            BY <2>1, <3>1 DEF PlayerInv, GoesOn
    <2>3. /\ build.trailing = 0 \/ build.trailing >= NumBuf
          /\ cnt \in Nat /\ cnt <= NumBuf /\ NumBuf \in Nat /\ NumBuf >= 2
          /\ build.trailing \in Nat /\ build.leading \in Nat /\ Parts \in Nat
        BY PlayerAssumption, PlayerNumbers DEF PlayerInv
    <2>4. build.trailing = 0 => cnt = 0
        BY <2>1, <2>3 DEF PlayerInv, Told
    <2> QED
        BY <1>2, <2>2, <2>3, <2>4 DEF Total
<1> QED
    BY <1>2, <1>3, <1>4, <1>5 DEF Player!PlaysUpTo, all

(* play is heard as the silence, the parts of the sound and the silence of *)
(* its build, from the beginning, each buffer once and in order, and all   *)
(* parts before the last one are heard before the converter is shut down   *)
(* (player.cpp:286-340, 351-441).  Of the last part, which the code drops, *)
(* the theorem says nothing.                                               *)
THEOREM SoundIsPlayed == Player!Spec => []PlaysSound
<1>1. PlayerInv => PlaysSound
    BY PlaysAllButLast DEF PlaysSound, Player!PlaysSound
<1> QED
    BY <1>1, PlayerAssumption, InitPlayerInv, NextPlayerInv, PTL DEF Player!Spec


==============================================================================
