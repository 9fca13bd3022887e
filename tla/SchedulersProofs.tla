-------------------------- MODULE SchedulersProofs --------------------------
(***************************************************************************)
(* The life of threads, for every number of threads and priorities: the    *)
(* circular lists stay in order, no memory in use is freed and none that   *)
(* is to be freed is forgotten, a join takes a result and nothing else,    *)
(* and the owner of a thread that joins it is woken.                       *)
(*                                                                         *)
(* Then the two schedulers that a kernel may be built with instead, each   *)
(* in a part of its own: the thread with the closest deadline runs, and    *)
(* the round of the bursts keeps its place and tells its regulators.       *)
(***************************************************************************)
EXTENDS Schedulers, TLAPS, FiniteSetTheorems, WellFoundedInduction

-----------------------------------------------------------------------------
(* A non empty set of numbers up to L has a least element: among the sets  *)
(* {n \in S : n < m}, m \in S, one is minimal for strict inclusion.        *)
LEMMA LeastExists ==
    ASSUME NEW L \in Nat, NEW S \in SUBSET (0 .. L), S # {}
    PROVE  \E m \in S : \A n \in S : m <= n
<1> DEFINE Below(m) == {n \in S : n < m}
           F == {Below(m) : m \in S}
<1>1. IsFiniteSet(S) /\ S \subseteq Nat
    <2>1. IsFiniteSet(0 .. L)
        BY FS_Interval
    <2>2. IsFiniteSet(S)
        BY <2>1, FS_Subset
    <2> QED
        BY <2>2
<1>2. F \subseteq FiniteSubsetsOf(S)
    BY <1>1, FS_Subset DEF FiniteSubsetsOf
<1>3. PICK A \in F : \A B \in F : ~(<<B, A>> \in StrictSubsetOrdering(S))
    <2>1. F # {} /\ IsWellFoundedOn(StrictSubsetOrdering(S), FiniteSubsetsOf(S))
        BY FS_StrictSubsetOrderingWellFounded
    <2> HIDE DEF F
    <2> QED
        BY <1>2, <2>1, WFMin
<1>4. PICK m \in S : A = Below(m)
    OBVIOUS
<1>5. \A n \in S : m <= n
    <2>1. SUFFICES ASSUME NEW n \in S, n < m PROVE FALSE
        BY <1>1
    <2>2. (\A x \in S : x < n => x < m) /\ ~(n < n)
        BY <1>1, <2>1
    <2>3. Below(n) \subseteq A /\ n \in A /\ n \notin Below(n)
        BY <1>4, <2>1, <2>2, Zenon
    <2>4. <<Below(n), A>> \in StrictSubsetOrdering(S)
        BY <1>4, <2>3 DEF StrictSubsetOrdering
    <2> QED
        BY <1>3, <2>4
<1> QED
    BY <1>5

-----------------------------------------------------------------------------
(* The circular lists.                                                     *)
LEMMA ListMembers ==
    ASSUME NEW T, NEW s \in Seq(T)
    PROVE  /\ \A u : u \in ToSet(s) <=> Contains(s, u)
           /\ \A u : Contains(s, u) => u \in T
           /\ \A i \in DOMAIN s : Contains(s, s[i])
           /\ DOMAIN s = 1 .. Len(s) /\ Len(s) \in Nat
BY DEF ToSet, Contains

LEMMA LinkList ==
    ASSUME NEW T, NEW s \in Seq(T), NEW t \in T, IsInjective(s), ~Contains(s, t)
    PROVE  /\ Link(s, t) \in Seq(T) /\ IsInjective(Link(s, t))
           /\ \A u : Contains(Link(s, t), u) <=> Contains(s, u) \/ u = t
<1>1. CASE s = <<>>
    <2>1. Link(s, t) = <<t>> /\ <<t>> \in Seq(T) /\ Len(<<t>>) = 1 /\ DOMAIN <<t>> = 1 .. 1
          /\ <<t>>[1] = t /\ Len(s) = 0
        BY <1>1 DEF Link
    <2> QED
        BY <2>1 DEF IsInjective, Contains
<1>2. CASE s # <<>>
    <2> DEFINE l == Link(s, t)
    <2>1. /\ l \in Seq(T) /\ Len(l) = Len(s) + 1 /\ Len(s) \in Nat /\ Len(s) > 0
          /\ DOMAIN l = 1 .. Len(l) /\ DOMAIN s = 1 .. Len(s)
          /\ l[1] = s[1] /\ l[2] = t /\ \A i \in 3 .. Len(l) : l[i] = s[i - 1]
        BY <1>2 DEF Link
    <2> HIDE DEF l
    <2>2. \A i \in 1 .. Len(s) : s[i] # t
        BY DEF Contains
    <2>3. \A i, j \in 1 .. Len(s) : s[i] = s[j] => i = j
        BY <2>1 DEF IsInjective
    <2>4. IsInjective(l)
        <3> DEFINE at(i) == IF i = 1 THEN 1 ELSE i - 1
        <3>1. \A i \in 1 .. Len(l) : i # 2 => at(i) \in 1 .. Len(s) /\ l[i] = s[at(i)]
            BY <2>1
        <3>2. \A i, j \in 1 .. Len(l) : i # 2 /\ j # 2 /\ at(i) = at(j) => i = j
            BY <2>1
        <3> HIDE DEF at
        <3>3. SUFFICES ASSUME NEW i \in 1 .. Len(l), NEW j \in 1 .. Len(l), l[i] = l[j] PROVE i = j
            BY <2>1 DEF IsInjective
        <3>4. CASE i # 2 /\ j # 2
            <4>1. at(i) \in 1 .. Len(s) /\ at(j) \in 1 .. Len(s) /\ s[at(i)] = s[at(j)]
                BY <3>1, <3>3, <3>4
            <4>2. at(i) = at(j)
                BY <4>1, <2>3
            <4> QED
                BY <3>2, <3>4, <4>2
        <3>5. CASE i = 2 \/ j = 2
            <4>1. \A k \in 1 .. Len(l) : k # 2 => l[k] # t
                BY <3>1, <2>2
            <4>2. l[2] = t
                BY <2>1
            <4> QED
                BY <3>3, <3>5, <4>1, <4>2
        <3> QED
            BY <3>4, <3>5
    <2>5. \A u : Contains(l, u) <=> Contains(s, u) \/ u = t
        <3> TAKE u
        <3>1. ASSUME Contains(l, u) PROVE Contains(s, u) \/ u = t
            <4>1. PICK i \in 1 .. Len(l) : l[i] = u
                BY <3>1 DEF Contains
            <4>2. i = 2 \/ (i = 1 /\ 1 \in 1 .. Len(s)) \/ (i - 1 \in 1 .. Len(s) /\ l[i] = s[i - 1])
                BY <2>1
            <4> QED
                BY <2>1, <4>1, <4>2 DEF Contains
        <3>2. ASSUME Contains(s, u) PROVE Contains(l, u)
            <4>1. PICK i \in 1 .. Len(s) : s[i] = u
                BY <3>2 DEF Contains
            <4>2. \/ i = 1 /\ l[1] = u /\ 1 \in 1 .. Len(l)
                  \/ i + 1 \in 1 .. Len(l) /\ l[i + 1] = u
                BY <2>1, <4>1
            <4> QED
                BY <4>2 DEF Contains
        <3>3. Contains(l, t)
            BY <2>1 DEF Contains
        <3> QED
            BY <3>1, <3>2, <3>3
    <2> QED
        BY <2>1, <2>4, <2>5 DEF l
<1> QED
    BY <1>1, <1>2

LEMMA Concatenation ==
    ASSUME NEW T, NEW a \in Seq(T), NEW b \in Seq(T)
    PROVE  /\ a \o b \in Seq(T) /\ Len(a \o b) = Len(a) + Len(b) /\ DOMAIN (a \o b) = 1 .. Len(a \o b)
           /\ \A x \in 1 .. Len(a \o b) : (a \o b)[x] = IF x <= Len(a) THEN a[x] ELSE b[x - Len(a)]
OBVIOUS

(* Two pieces of a list, put one behind the other.                         *)
LEMMA Pieces ==
    ASSUME NEW T, NEW s \in Seq(T), NEW i \in Int, NEW j \in Int, NEW m \in Int, NEW n \in Int,
           1 <= i, i <= j + 1, j <= Len(s), 1 <= m, m <= n + 1, n <= Len(s),
           NEW l, l = SubSeq(s, i, j) \o SubSeq(s, m, n)
    PROVE  /\ l \in Seq(T)
           /\ Len(l) = (j - i + 1) + (n - m + 1)
           /\ DOMAIN l = 1 .. Len(l)
           /\ \A x \in 1 .. Len(l) :
                l[x] = IF x <= j - i + 1 THEN s[x + i - 1] ELSE s[x - (j - i + 1) + m - 1]
<1> DEFINE a == SubSeq(s, i, j)
           b == SubSeq(s, m, n)
<1>1. /\ a \in Seq(T) /\ Len(a) = j - i + 1
      /\ \A x \in 1 .. Len(a) : a[x] = s[x + i - 1]
    BY SMTT(30)
<1>2. /\ b \in Seq(T) /\ Len(b) = n - m + 1
      /\ \A x \in 1 .. Len(b) : b[x] = s[x + m - 1]
    BY SMTT(30)
<1>0. l = a \o b
    OBVIOUS
<1> HIDE DEF a, b
<1> DEFINE c == a \o b
<1>6. /\ c \in Seq(T) /\ Len(c) = Len(a) + Len(b) /\ DOMAIN c = 1 .. Len(c)
      /\ \A x \in 1 .. Len(c) : c[x] = IF x <= Len(a) THEN a[x] ELSE b[x - Len(a)]
    BY <1>1, <1>2, Concatenation
<1>7. l = c
    BY <1>0
<1> HIDE DEF c
<1>3. /\ l \in Seq(T) /\ Len(l) = Len(a) + Len(b) /\ DOMAIN l = 1 .. Len(l)
      /\ \A x \in 1 .. Len(l) : l[x] = IF x <= Len(a) THEN a[x] ELSE b[x - Len(a)]
    BY <1>6, <1>7
<1>4. \A x \in 1 .. Len(l) :
        l[x] = IF x <= j - i + 1 THEN s[x + i - 1] ELSE s[x - (j - i + 1) + m - 1]
    <2> TAKE x \in 1 .. Len(l)
    <2>1. CASE x <= Len(a)
        <3>1. x \in 1 .. Len(a) /\ x <= j - i + 1
            BY <2>1, <1>1, <1>3
        <3>2. l[x] = a[x] /\ a[x] = s[x + i - 1]
            BY <3>1, <2>1, <1>1, <1>3
        <3> QED
            BY <3>1, <3>2
    <2>2. CASE ~(x <= Len(a))
        <3>1. x - Len(a) \in 1 .. Len(b)
            BY <2>2, <1>1, <1>2, <1>3
        <3>2. l[x] = s[x - Len(a) + m - 1]
            BY <3>1, <2>2, <1>2, <1>3
        <3> QED
            BY <3>2, <2>2, <1>1
    <2> QED
        BY <2>1, <2>2
<1>5. Len(l) = (j - i + 1) + (n - m + 1)
    BY <1>1, <1>2, <1>3
<1> QED
    BY <1>3, <1>4, <1>5

LEMMA UnlinkList ==
    ASSUME NEW T, NEW s \in Seq(T), NEW t \in T, IsInjective(s), Contains(s, t)
    PROVE  /\ Unlink(s, t) \in Seq(T) /\ IsInjective(Unlink(s, t))
           /\ \A u : Contains(Unlink(s, t), u) <=> Contains(s, u) /\ u # t
<1> DEFINE l == Unlink(s, t)
           k == CHOOSE i \in DOMAIN s : s[i] = t
<1>1. k \in DOMAIN s /\ s[k] = t /\ DOMAIN s = 1 .. Len(s) /\ Len(s) \in Nat
    BY DEF Contains
<1>2. l = SubSeq(s, 1, k - 1) \o SubSeq(s, k + 1, Len(s))
    BY DEF Unlink, RemoveAt
<1> HIDE DEF l, k
<1>3. /\ l \in Seq(T) /\ Len(l) = Len(s) - 1 /\ DOMAIN l = 1 .. Len(l)
      /\ \A i \in 1 .. Len(l) : l[i] = IF i < k THEN s[i] ELSE s[i + 1]
    <2>1. /\ l \in Seq(T) /\ Len(l) = ((k - 1) - 1 + 1) + (Len(s) - (k + 1) + 1)
          /\ DOMAIN l = 1 .. Len(l)
          /\ \A x \in 1 .. Len(l) : l[x] = IF x <= (k - 1) - 1 + 1 THEN s[x + 1 - 1]
                                         ELSE s[x - ((k - 1) - 1 + 1) + (k + 1) - 1]
        <3> DEFINE j == k - 1
                   m == k + 1
                   n == Len(s)
        <3>1. /\ j \in Int /\ m \in Int /\ n \in Int /\ 1 <= j + 1 /\ j <= Len(s)
              /\ 1 <= m /\ m <= n + 1 /\ n <= Len(s) /\ 1 \in Int /\ 1 <= 1
              /\ l = SubSeq(s, 1, j) \o SubSeq(s, m, n)
            BY <1>1, <1>2
        <3> HIDE DEF j, m, n
        <3>2. /\ l \in Seq(T) /\ Len(l) = (j - 1 + 1) + (n - m + 1)
              /\ DOMAIN l = 1 .. Len(l)
              /\ \A x \in 1 .. Len(l) : l[x] = IF x <= j - 1 + 1 THEN s[x + 1 - 1]
                                             ELSE s[x - (j - 1 + 1) + m - 1]
            BY <3>1, Pieces
        <3> QED
            BY <3>2 DEF j, m, n
    <2>2. Len(l) = Len(s) - 1
        BY <1>1, <2>1
    <2>3. \A x \in 1 .. Len(l) :
            /\ x <= (k - 1) - 1 + 1 <=> x < k
            /\ x + 1 - 1 = x /\ x - ((k - 1) - 1 + 1) + (k + 1) - 1 = x + 1
        BY <1>1, <2>2
    <2> QED
        BY <2>1, <2>2, <2>3
<1> DEFINE at(i) == IF i < k THEN i ELSE i + 1
<1>4. /\ \A i \in 1 .. Len(l) : at(i) \in 1 .. Len(s) /\ at(i) # k /\ l[i] = s[at(i)]
      /\ \A i, j \in 1 .. Len(l) : at(i) = at(j) => i = j
    BY <1>1, <1>3
<1> HIDE DEF at
<1>5. \A i, j \in 1 .. Len(s) : s[i] = s[j] => i = j
    BY <1>1 DEF IsInjective
<1>6. IsInjective(l)
    BY <1>3, <1>4, <1>5 DEF IsInjective
<1>7. \A u : Contains(l, u) <=> Contains(s, u) /\ u # t
    <2> TAKE u
    <2>1. ASSUME Contains(l, u) PROVE Contains(s, u) /\ u # t
        BY <1>1, <1>4, <1>5, <2>1 DEF Contains
    <2>2. ASSUME Contains(s, u), u # t PROVE Contains(l, u)
        <3>1. PICK i \in 1 .. Len(s) : s[i] = u
            BY <2>2 DEF Contains
        <3>2. i # k
            BY <1>1, <2>2, <3>1
        <3>3. (i \in 1 .. Len(l) /\ l[i] = u) \/ (i - 1 \in 1 .. Len(l) /\ l[i - 1] = u)
            BY <1>1, <1>3, <3>1, <3>2
        <3> QED
            BY <3>3 DEF Contains
    <2> QED
        BY <2>1, <2>2
<1> QED
    BY <1>3, <1>6, <1>7 DEF l

LEMMA RotateList ==
    ASSUME NEW T, NEW s \in Seq(T), NEW k \in DOMAIN s, IsInjective(s)
    PROVE  /\ Rotate(s, k) \in Seq(T) /\ IsInjective(Rotate(s, k))
           /\ \A u : Contains(Rotate(s, k), u) <=> Contains(s, u)
<1> DEFINE l == Rotate(s, k)
<1>1. DOMAIN s = 1 .. Len(s) /\ Len(s) \in Nat /\ k \in 1 .. Len(s)
    OBVIOUS
<1>2. l = SubSeq(s, k, Len(s)) \o SubSeq(s, 1, k - 1)
    BY DEF Rotate
<1> HIDE DEF l
<1> DEFINE at(i) == IF i <= Len(s) - k + 1 THEN i + k - 1 ELSE i - (Len(s) - k + 1)
<1>3. /\ l \in Seq(T) /\ Len(l) = Len(s) /\ DOMAIN l = 1 .. Len(s)
      /\ \A i \in 1 .. Len(s) : l[i] = s[at(i)]
    <2>1. /\ l \in Seq(T) /\ Len(l) = (Len(s) - k + 1) + ((k - 1) - 1 + 1)
          /\ DOMAIN l = 1 .. Len(l)
          /\ \A x \in 1 .. Len(l) : l[x] = IF x <= Len(s) - k + 1 THEN s[x + k - 1]
                                         ELSE s[x - (Len(s) - k + 1) + 1 - 1]
        <3> DEFINE j == Len(s)
                   n == k - 1
        <3>1. /\ k \in Int /\ j \in Int /\ 1 \in Int /\ n \in Int
              /\ 1 <= k /\ k <= j + 1 /\ j <= Len(s) /\ 1 <= 1 /\ 1 <= n + 1 /\ n <= Len(s)
              /\ l = SubSeq(s, k, j) \o SubSeq(s, 1, n)
            BY <1>1, <1>2
        <3> HIDE DEF j, n
        <3>2. /\ l \in Seq(T) /\ Len(l) = (j - k + 1) + (n - 1 + 1)
              /\ DOMAIN l = 1 .. Len(l)
              /\ \A x \in 1 .. Len(l) : l[x] = IF x <= j - k + 1 THEN s[x + k - 1]
                                             ELSE s[x - (j - k + 1) + 1 - 1]
            BY <3>1, Pieces
        <3> QED
            BY <3>2 DEF j, n
    <2>2. Len(l) = Len(s)
        BY <1>1, <2>1
    <2>3. \A x \in 1 .. Len(s) : x - (Len(s) - k + 1) + 1 - 1 = x - (Len(s) - k + 1)
        BY <1>1
    <2> QED
        BY <2>1, <2>2, <2>3
<1>4. /\ \A i \in 1 .. Len(s) : at(i) \in 1 .. Len(s)
      /\ \A i, j \in 1 .. Len(s) : at(i) = at(j) => i = j
      /\ \A j \in 1 .. Len(s) : \E i \in 1 .. Len(s) : at(i) = j
    <2>1. \A j \in 1 .. Len(s) : \E i \in 1 .. Len(s) : at(i) = j
        <3> TAKE j \in 1 .. Len(s)
        <3>1. CASE j >= k
            <4>1. j - k + 1 \in 1 .. Len(s) /\ at(j - k + 1) = j
                BY <1>1, <3>1
            <4> QED
                BY <4>1
        <3>2. CASE j < k
            <4>1. j + (Len(s) - k + 1) \in 1 .. Len(s) /\ at(j + (Len(s) - k + 1)) = j
                BY <1>1, <3>2
            <4> QED
                BY <4>1
        <3> QED
            BY <3>1, <3>2, <1>1
    <2>2. \A i \in 1 .. Len(s) : at(i) \in 1 .. Len(s)
        BY <1>1
    <2>3. \A i, j \in 1 .. Len(s) : at(i) = at(j) => i = j
        BY <1>1
    <2> QED
        BY <2>1, <2>2, <2>3
<1> HIDE DEF at
<1>5. IsInjective(l)
    <2>1. SUFFICES ASSUME NEW i \in 1 .. Len(s), NEW j \in 1 .. Len(s), l[i] = l[j] PROVE i = j
        BY <1>3 DEF IsInjective
    <2>2. at(i) \in DOMAIN s /\ at(j) \in DOMAIN s /\ s[at(i)] = s[at(j)]
        BY <1>1, <1>3, <1>4, <2>1
    <2>3. at(i) = at(j)
        BY <2>2 DEF IsInjective
    <2> QED
        BY <1>4, <2>3
<1>6. \A u : Contains(l, u) <=> Contains(s, u)
    <2> TAKE u
    <2>1. ASSUME Contains(l, u) PROVE Contains(s, u)
        BY <1>3, <1>4, <2>1 DEF Contains
    <2>2. ASSUME Contains(s, u) PROVE Contains(l, u)
        <3>1. PICK j \in 1 .. Len(s) : s[j] = u
            BY <2>2 DEF Contains
        <3>2. PICK i \in 1 .. Len(s) : at(i) = j
            BY <1>4
        <3> QED
            BY <1>3, <3>1, <3>2 DEF Contains
    <2> QED
        BY <2>1, <2>2
<1> QED
    BY <1>3, <1>5, <1>6 DEF l

-----------------------------------------------------------------------------
(* What Keeping leaves: the places in S, in increasing order, up to n.     *)
Kept(S, n, m, f) ==
    /\ f \in [1 .. m -> 1 .. n]
    /\ \A i, j \in 1 .. m : i < j => f[i] < f[j]
    /\ \A i \in 1 .. m : f[i] \in S
    /\ \A a \in 1 .. n : a \in S => \E i \in 1 .. m : f[i] = a

LEMMA KeptExtends ==
    ASSUME NEW S, NEW n \in Nat, NEW m \in 0 .. n, NEW f, Kept(S, n, m, f)
    PROVE  \E k \in 0 .. n + 1 : \E g : Kept(S, n + 1, k, g)
<1>1. CASE n + 1 \notin S
    <2>1. f \in [1 .. m -> 1 .. n + 1]
        BY DEF Kept
    <2>2. \A a \in 1 .. n + 1 : a \in S => a \in 1 .. n
        BY <1>1
    <2>3. Kept(S, n + 1, m, f) /\ m \in 0 .. n + 1
        BY <2>1, <2>2 DEF Kept
    <2> QED
        BY <2>3
<1>2. CASE n + 1 \in S
    <2> DEFINE g == [i \in 1 .. m + 1 |-> IF i = m + 1 THEN n + 1 ELSE f[i]]
    <2>0. /\ f \in [1 .. m -> 1 .. n] /\ (\A i \in 1 .. m : f[i] \in 1 .. n)
          /\ m \in Nat /\ n + 1 \in Nat /\ m + 1 \in 0 .. n + 1
        BY DEF Kept
    <2>1. /\ g \in [1 .. m + 1 -> 1 .. n + 1] /\ g[m + 1] = n + 1
          /\ \A i \in 1 .. m : g[i] = f[i]
        <3>1. m + 1 \in 1 .. m + 1 /\ \A i \in 1 .. m : i \in 1 .. m + 1 /\ i # m + 1
            BY <2>0
        <3>2. \A i \in 1 .. m + 1 : i # m + 1 => i \in 1 .. m
            BY <2>0
        <3> QED
            BY <2>0, <3>1, <3>2
    <2> HIDE DEF g
    <2>2. \A i, j \in 1 .. m + 1 : i < j => i \in 1 .. m /\ (j \in 1 .. m \/ j = m + 1)
        BY <2>0
    <2>3. \A i, j \in 1 .. m + 1 : i < j => g[i] < g[j]
        <3> SUFFICES ASSUME NEW i \in 1 .. m + 1, NEW j \in 1 .. m + 1, i < j PROVE g[i] < g[j]
            OBVIOUS
        <3>1. CASE j \in 1 .. m
            BY <3>1, <2>1, <2>2 DEF Kept
        <3>2. CASE j = m + 1
            BY <3>2, <2>0, <2>1, <2>2
        <3> QED
            BY <2>2, <3>1, <3>2
    <2>4. \A i \in 1 .. m + 1 : g[i] \in S
        <3> TAKE i \in 1 .. m + 1
        <3>1. CASE i = m + 1
            BY <3>1, <2>1, <1>2
        <3>2. CASE i \in 1 .. m
            BY <3>2, <2>1 DEF Kept
        <3> QED
            BY <3>1, <3>2, <2>0
    <2>5. \A a \in 1 .. n + 1 : a \in S => \E i \in 1 .. m + 1 : g[i] = a
        <3> SUFFICES ASSUME NEW a \in 1 .. n + 1, a \in S PROVE \E i \in 1 .. m + 1 : g[i] = a
            OBVIOUS
        <3>1. CASE a = n + 1
            <4>1. m + 1 \in 1 .. m + 1
                BY <2>0
            <4> QED
                BY <3>1, <4>1, <2>1
        <3>2. CASE a \in 1 .. n
            <4>1. PICK i \in 1 .. m : f[i] = a
                BY <3>2 DEF Kept
            <4>2. i \in 1 .. m + 1
                BY <2>0
            <4> QED
                BY <4>1, <4>2, <2>1
        <3> QED
            BY <3>1, <3>2
    <2>6. Kept(S, n + 1, m + 1, g)
        BY <2>1, <2>3, <2>4, <2>5 DEF Kept
    <2> QED
        BY <2>0, <2>6
<1> QED
    BY <1>1, <1>2

LEMMA KeptExists ==
    ASSUME NEW S, NEW n \in Nat
    PROVE  \E m \in 0 .. n : \E f : Kept(S, n, m, f)
<1> DEFINE P(k) == \E m \in 0 .. k : \E f : Kept(S, k, m, f)
           N == {k \in 0 .. n : ~P(k)}
<1>1. P(0)
    <2> DEFINE f == [i \in 1 .. 0 |-> 0]
    <2>1. f \in [1 .. 0 -> 1 .. 0] /\ 1 .. 0 = {}
        OBVIOUS
    <2> HIDE DEF f
    <2>2. Kept(S, 0, 0, f) /\ 0 \in 0 .. 0
        BY <2>1 DEF Kept
    <2> QED
        BY <2>2
<1>2. \A k \in Nat : P(k) => P(k + 1)
    BY KeptExtends
<1> HIDE DEF P
<1>3. SUFFICES ASSUME ~P(n) PROVE FALSE
    BY DEF P
<1>4. n \in N /\ N \in SUBSET (0 .. n)
    BY <1>3
<1> HIDE DEF N
<1>5. PICK k \in N : \A j \in N : k <= j
    BY <1>4, LeastExists
<1>6. k \in 0 .. n /\ ~P(k)
    BY DEF N
<1>7. k # 0
    BY <1>1, <1>6
<1>8. k - 1 \in Nat /\ k - 1 \in 0 .. n /\ k = (k - 1) + 1 /\ ~(k <= k - 1)
    BY <1>6, <1>7
<1>9. P(k - 1)
    BY <1>5, <1>8 DEF N
<1> QED
    BY <1>2, <1>6, <1>8, <1>9

(* f gives the places that Keeping keeps, in order. *)
Chosen(s, S, m, f) ==
    Kept(S, Len(s), m, f) /\ Keeping(s, S) = [i \in 1 .. m |-> s[f[i]]]

LEMMA KeepingPlaces ==
    ASSUME NEW T, NEW s \in Seq(T), NEW S, S \subseteq DOMAIN s
    PROVE  \E m \in 0 .. Len(s) : \E f : Chosen(s, S, m, f)
<1> DEFINE n == Len(s)
           Places(f) == ToSet(f) = S /\ \A i, j \in DOMAIN f : i < j => f[i] < f[j]
           p == CHOOSE f \in SeqOf(S, n) : Places(f)
<1>1. DOMAIN s = 1 .. n /\ n \in Nat
    OBVIOUS
<1>2. PICK m \in 0 .. n : \E f : Kept(S, n, m, f)
    BY <1>1, KeptExists
<1>3. PICK f : Kept(S, n, m, f)
    BY <1>2
<1> HIDE DEF n
<1>4. f \in SeqOf(S, n) /\ Places(f)
    <2>1. f \in [1 .. m -> S] /\ DOMAIN f = 1 .. m
        BY <1>3 DEF Kept
    <2>2. ToSet(f) = S
        BY <1>1, <1>3, <2>1 DEF Kept, ToSet
    <2>3. \A i, j \in DOMAIN f : i < j => f[i] < f[j]
        BY <1>3, <2>1 DEF Kept
    <2> QED
        BY <1>2, <2>1, <2>2, <2>3 DEF SeqOf
<1> HIDE DEF Places
<1>5. p \in SeqOf(S, n) /\ Places(p)
    BY <1>4
<1>6. Keeping(s, S) = [i \in DOMAIN p |-> s[p[i]]]
    BY DEF Keeping, p, n, Places
<1> HIDE DEF p
<1>7. PICK k \in 0 .. n : p \in [1 .. k -> S]
    BY <1>5 DEF SeqOf
<1>8. DOMAIN p = 1 .. k /\ p \in [1 .. k -> 1 .. n]
    BY <1>1, <1>7
<1>9. Kept(S, n, k, p)
    <2>1. \A i \in 1 .. k : p[i] \in S
        BY <1>7
    <2>2. \A i, j \in 1 .. k : i < j => p[i] < p[j]
        BY <1>5, <1>8 DEF Places
    <2>3. \A a \in 1 .. n : a \in S => \E i \in 1 .. k : p[i] = a
        BY <1>5, <1>8 DEF Places, ToSet
    <2> QED
        BY <1>8, <2>1, <2>2, <2>3 DEF Kept
<1>10. Chosen(s, S, k, p)
    BY <1>6, <1>8, <1>9 DEF n, Chosen
<1> QED
    BY <1>10 DEF n

LEMMA KeepingList ==
    ASSUME NEW T, NEW s \in Seq(T), NEW S, S \subseteq DOMAIN s
    PROVE  LET l == Keeping(s, S)
           IN  /\ l \in Seq(T)
               /\ IsInjective(s) => IsInjective(l)
               /\ \A u : Contains(l, u) <=> \E i \in S : s[i] = u
               /\ \A i, j \in DOMAIN l : i < j =>
                     \E a, b \in DOMAIN s : a < b /\ l[i] = s[a] /\ l[j] = s[b]
               /\ Len(s) \in S => l # <<>> /\ l[Len(l)] = s[Len(s)]
<1>0. \E m \in 0 .. Len(s) : \E f : Chosen(s, S, m, f)
    BY KeepingPlaces
<1> DEFINE l == Keeping(s, S)
           n == Len(s)
<1>1. DOMAIN s = 1 .. n /\ n \in Nat /\ \A a \in 1 .. n : s[a] \in T
    OBVIOUS
<1>2. PICK m \in 0 .. n : \E f : Chosen(s, S, m, f)
    BY <1>0
<1>2a. PICK f : Chosen(s, S, m, f)
    BY <1>2
<1>3. Kept(S, n, m, f) /\ l = [i \in 1 .. m |-> s[f[i]]]
    BY <1>2a DEF Chosen
<1> HIDE DEF n, l
<1>4. /\ f \in [1 .. m -> 1 .. n] /\ m \in Nat
      /\ \A i \in 1 .. m : f[i] \in S /\ f[i] \in 1 .. n
      /\ \A i, j \in 1 .. m : i < j => f[i] < f[j]
      /\ \A a \in 1 .. n : a \in S => \E i \in 1 .. m : f[i] = a
    BY <1>1, <1>3 DEF Kept
<1>5. l \in [1 .. m -> T] /\ DOMAIN l = 1 .. m /\ \A i \in 1 .. m : l[i] = s[f[i]]
    BY <1>1, <1>3, <1>4
<1>6. l \in Seq(T) /\ Len(l) = m
    BY <1>4, <1>5
<1>7. ASSUME IsInjective(s) PROVE IsInjective(l)
    <2>1. SUFFICES ASSUME NEW i \in 1 .. m, NEW j \in 1 .. m, i < j, l[i] = l[j] PROVE FALSE
        BY <1>5 DEF IsInjective
    <2>2. f[i] < f[j] /\ f[i] \in 1 .. n /\ f[j] \in 1 .. n /\ s[f[i]] = s[f[j]]
        BY <1>4, <1>5, <2>1
    <2>3. f[i] = f[j]
        BY <1>1, <1>7, <2>2 DEF IsInjective
    <2> QED
        BY <2>2, <2>3
<1>8. \A u : Contains(l, u) <=> \E i \in S : s[i] = u
    <2> TAKE u
    <2>1. ASSUME Contains(l, u) PROVE \E i \in S : s[i] = u
        BY <1>4, <1>5, <1>6, <2>1 DEF Contains
    <2>2. ASSUME NEW a \in S, s[a] = u PROVE Contains(l, u)
        <3>1. PICK i \in 1 .. m : f[i] = a
            BY <1>1, <1>4, <2>2
        <3> QED
            BY <1>5, <1>6, <2>2, <3>1 DEF Contains
    <2> QED
        BY <2>1, <2>2
<1>9. ASSUME NEW i \in DOMAIN l, NEW j \in DOMAIN l, i < j
      PROVE  \E a, b \in DOMAIN s : a < b /\ l[i] = s[a] /\ l[j] = s[b]
    <2>1. f[i] \in DOMAIN s /\ f[j] \in DOMAIN s /\ f[i] < f[j]
        BY <1>1, <1>4, <1>5, <1>9
    <2> QED
        BY <1>5, <2>1
<1>10. ASSUME n \in S PROVE l # <<>> /\ l[Len(l)] = s[n]
    <2>1. n \in 1 .. n
        BY <1>1, <1>10
    <2>2. PICK i \in 1 .. m : f[i] = n
        BY <1>4, <1>10, <2>1
    <2>3. i = m
        <3>1. SUFFICES ASSUME i < m PROVE FALSE
            BY <1>4
        <3>2. m \in 1 .. m
            BY <1>4
        <3>3. f[i] < f[m] /\ f[m] \in 1 .. n
            BY <1>4, <3>1, <3>2
        <3> QED
            BY <1>1, <2>2, <3>3
    <2>4. Len(<<>>) = 0 /\ m \in 1 .. m
        BY <2>3
    <2> QED
        BY <1>5, <1>6, <2>2, <2>3, <2>4
<1> QED
    BY <1>6, <1>7, <1>8, <1>9, <1>10 DEF l, n

LEMMA SurvivorsList ==
    ASSUME NEW T, NEW s \in Seq(T), IsInjective(s)
    PROVE  /\ Survivors(s) \in Seq(T) /\ IsInjective(Survivors(s))
           /\ \A u : Contains(Survivors(s), u) <=> Contains(s, u) /\ ~Deleted(u)
<1> DEFINE S == {i \in DOMAIN s : ~Reapable(s[i])}
           l == Keeping(s, S)
<1>1. /\ l \in Seq(T) /\ IsInjective(l)
      /\ \A u : Contains(l, u) <=> \E i \in S : s[i] = u
    <2>1. S \subseteq DOMAIN s
        OBVIOUS
    <2> HIDE DEF S
    <2> QED
        BY <2>1, KeepingList
<1> HIDE DEF l
<1>2. \A u : Contains(s, u) <=> \E i \in DOMAIN s : s[i] = u
    BY DEF Contains
<1>3. \A u : Contains(l, u) <=> Contains(s, u) /\ ~Deleted(u)
    BY <1>1, <1>2 DEF Reapable
<1> QED
    BY <1>1, <1>3 DEF Survivors, l

-----------------------------------------------------------------------------
(* What each operation does to the lists.                                  *)
ListsWell ==
    /\ thread_list \in [Priority -> Seq(Slot)]
    /\ \A p \in Priority :
        /\ IsInjective(thread_list[p])
        /\ \A u : Contains(thread_list[p], u) => prio[u] = p

LEMMA ListsWellAgree ==
    ASSUME thread_list \in [Priority -> Seq(Slot)]
    PROVE  ListsWell <=> ListsAgree
<1>1. \A p \in Priority : thread_list[p] \in Seq(Slot)
    OBVIOUS
<1>2. \A p \in Priority : \A u : u \in ToSet(thread_list[p]) <=> Contains(thread_list[p], u)
    <2> TAKE p \in Priority
    <2> DEFINE s == thread_list[p]
    <2>1. s \in Seq(Slot)
        BY <1>1
    <2> HIDE DEF s
    <2>2. \A u : u \in ToSet(s) <=> Contains(s, u)
        BY <2>1, ListMembers
    <2> QED
        BY <2>2 DEF s
<1> QED
    BY <1>2, Zenon DEF ListsWell, ListsAgree

LEMMA ListedSlot ==
    ASSUME ListsWell, NEW u, Listed(u)
    PROVE  u \in Slot /\ Contains(thread_list[prio[u]], u) /\ prio[u] \in Priority
<1>1. PICK p \in Priority : Contains(thread_list[p], u)
    BY DEF Listed
<1>2. prio[u] = p
    BY <1>1 DEF ListsWell
<1> DEFINE s == thread_list[p]
<1>3. s \in Seq(Slot) /\ Contains(s, u)
    BY <1>1 DEF ListsWell
<1> HIDE DEF s
<1>4. u \in Slot
    BY <1>3, ListMembers
<1> QED
    BY <1>1, <1>2, <1>4

LEMMA ReapedLists ==
    ASSUME ListsWell, thread_list' = Reaped, prio' = prio
    PROVE  ListsWell' /\ \A u : Listed(u)' <=> Listed(u) /\ ~Deleted(u)
<1>1. ASSUME NEW p \in Priority
      PROVE  /\ thread_list'[p] \in Seq(Slot) /\ IsInjective(thread_list'[p])
             /\ \A u : Contains(thread_list'[p], u) <=> Contains(thread_list[p], u) /\ ~Deleted(u)
    <2> DEFINE s == thread_list[p]
               l == Survivors(s)
    <2>1. s \in Seq(Slot) /\ IsInjective(s)
        BY DEF ListsWell
    <2>2. thread_list'[p] = l
        BY DEF Reaped
    <2> HIDE DEF s
    <2>3. /\ l \in Seq(Slot) /\ IsInjective(l)
          /\ \A u : Contains(l, u) <=> Contains(s, u) /\ ~Deleted(u)
        BY <2>1, SurvivorsList
    <2> HIDE DEF l
    <2> QED
        BY <2>2, <2>3 DEF s
<1>2. DOMAIN thread_list' = Priority /\ thread_list' = [p \in Priority |-> thread_list'[p]]
    BY DEF Reaped
<1>3. thread_list' \in [Priority -> Seq(Slot)]
    BY <1>1, <1>2
<1>4. ListsWell'
    BY <1>1, <1>3, Zenon DEF ListsWell
<1>5. \A u : Listed(u)' <=> Listed(u) /\ ~Deleted(u)
    BY <1>1, Zenon DEF Listed
<1> QED
    BY <1>4, <1>5

LEMMA SwitchLists ==
    ASSUME ListsWell, Switch
    PROVE  /\ ListsWell' /\ \A u : Listed(u)' <=> Listed(u)
           /\ cur' = Idle \/ (cur' \in Slot /\ Listed(cur'))
<1>0. prio' = prio
    BY DEF Switch, dataVars
<1>1. CASE \A p \in Priority : ~HasReady(p)
    <2>1. cur' = Idle /\ thread_list' = thread_list
        BY <1>1 DEF Switch
    <2> QED
        BY <1>0, <2>1 DEF ListsWell, Listed
<1>2. CASE ~\A p \in Priority : ~HasReady(p)
    <2>1. PICK p \in Priority : \E i \in DOMAIN thread_list[p] :
                /\ cur' = thread_list[p][i]
                /\ thread_list' = [thread_list EXCEPT ![p] = Rotate(@, i)]
        BY <1>2 DEF Switch
    <2>2. PICK i \in DOMAIN thread_list[p] :
                /\ cur' = thread_list[p][i]
                /\ thread_list' = [thread_list EXCEPT ![p] = Rotate(@, i)]
        BY <2>1
    <2> DEFINE s == thread_list[p]
    <2>3. s \in Seq(Slot) /\ IsInjective(s) /\ i \in DOMAIN s /\ cur' = s[i]
        BY <2>2 DEF ListsWell
    <2>4. /\ thread_list'[p] = Rotate(s, i)
          /\ \A q \in Priority : q # p => thread_list'[q] = thread_list[q]
          /\ thread_list' = [q \in Priority |-> thread_list'[q]]
        BY <2>2 DEF ListsWell
    <2> HIDE DEF s
    <2>5. /\ Rotate(s, i) \in Seq(Slot) /\ IsInjective(Rotate(s, i))
          /\ \A u : Contains(Rotate(s, i), u) <=> Contains(s, u)
        BY <2>3, RotateList
    <2>6. cur' \in Slot /\ Contains(s, cur')
        BY <2>3, ListMembers
    <2>7. ASSUME NEW q \in Priority
          PROVE  /\ thread_list'[q] \in Seq(Slot) /\ IsInjective(thread_list'[q])
                 /\ \A u : Contains(thread_list'[q], u) <=> Contains(thread_list[q], u)
        <3>1. CASE q = p
            BY <3>1, <2>4, <2>5 DEF s
        <3>2. CASE q # p
            BY <3>2, <2>4 DEF ListsWell
        <3> QED
            BY <3>1, <3>2
    <2>8. thread_list' \in [Priority -> Seq(Slot)]
        BY <2>4, <2>7
    <2>9. ListsWell'
        BY <1>0, <2>7, <2>8, Zenon DEF ListsWell
    <2>10. \A u : Listed(u)' <=> Listed(u)
        BY <2>7, Zenon DEF Listed
    <2>11. Listed(cur')
        BY <2>6 DEF Listed, s
    <2> QED
        BY <2>6, <2>9, <2>10, <2>11
<1> QED
    BY <1>1, <1>2

LEMMA CreateLists ==
    ASSUME ListsWell, prio \in [Slot -> Priority],
           NEW c \in Slot, NEW t \in Slot, NEW p, NEW o, create(c, t, p, o)
    PROVE  ListsWell' /\ \A u : Listed(u)' <=> Listed(u) \/ u = t
<1>1. /\ p \in Priority /\ ~Listed(t)
      /\ thread_list' = [thread_list EXCEPT ![p] = Link(@, t)]
      /\ prio' = [prio EXCEPT ![t] = p]
    BY DEF create, validate
<1> DEFINE s == thread_list[p]
<1>2. s \in Seq(Slot) /\ IsInjective(s) /\ ~Contains(s, t)
    BY <1>1 DEF ListsWell, Listed
<1>3. /\ thread_list'[p] = Link(s, t)
      /\ \A q \in Priority : q # p => thread_list'[q] = thread_list[q]
      /\ thread_list' = [q \in Priority |-> thread_list'[q]]
    BY <1>1 DEF ListsWell
<1> HIDE DEF s
<1>4. /\ Link(s, t) \in Seq(Slot) /\ IsInjective(Link(s, t))
      /\ \A u : Contains(Link(s, t), u) <=> Contains(s, u) \/ u = t
    BY <1>2, LinkList
<1>5. ASSUME NEW q \in Priority
      PROVE  /\ thread_list'[q] \in Seq(Slot) /\ IsInjective(thread_list'[q])
             /\ \A u : Contains(thread_list'[q], u) <=> Contains(thread_list[q], u) \/ (u = t /\ q = p)
    <2>1. CASE q = p
        BY <2>1, <1>3, <1>4 DEF s
    <2>2. CASE q # p
        BY <2>2, <1>3 DEF ListsWell
    <2> QED
        BY <2>1, <2>2
<1>6. thread_list' \in [Priority -> Seq(Slot)]
    BY <1>3, <1>5
<1>7. ASSUME NEW q \in Priority, NEW u, Contains(thread_list'[q], u) PROVE prio'[u] = q
    <2>1. CASE u = t
        <3>1. ~Contains(thread_list[q], t)
            BY <1>1 DEF Listed
        <3> QED
            BY <2>1, <3>1, <1>1, <1>5, <1>7
    <2>2. CASE u # t
        <3>1. Contains(thread_list[q], u)
            BY <2>2, <1>5, <1>7
        <3>2. prio[u] = q /\ u \in Slot
            BY <3>1, ListedSlot DEF ListsWell, Listed
        <3> QED
            BY <2>2, <3>2, <1>1
    <2> QED
        BY <2>1, <2>2
<1>8. ListsWell'
    BY <1>5, <1>6, <1>7, Zenon DEF ListsWell
<1>9. \A u : Listed(u)' <=> Listed(u) \/ u = t
    BY <1>1, <1>5, Zenon DEF Listed
<1> QED
    BY <1>8, <1>9

LEMMA SetPriorityLists ==
    ASSUME ListsWell, prio \in [Slot -> Priority],
           NEW c \in Slot, NEW p \in Priority, Listed(c), setPriority(c, p)
    PROVE  ListsWell' /\ \A u : Listed(u)' <=> Listed(u)
<1> DEFINE r == prio[c]
           s == thread_list[r]
           n == thread_list[p]
<1>1. /\ p # r /\ r \in Priority /\ Contains(s, c)
      /\ prio' = [prio EXCEPT ![c] = p]
      /\ thread_list' = [thread_list EXCEPT ![r] = Unlink(@, c), ![p] = Link(@, c)]
    BY ListedSlot DEF setPriority
<1>2. /\ s \in Seq(Slot) /\ IsInjective(s)
      /\ n \in Seq(Slot) /\ IsInjective(n) /\ ~Contains(n, c)
    BY <1>1 DEF ListsWell
<1>3. /\ thread_list'[r] = Unlink(s, c) /\ thread_list'[p] = Link(n, c)
      /\ \A q \in Priority : q # p /\ q # r => thread_list'[q] = thread_list[q]
      /\ thread_list' = [q \in Priority |-> thread_list'[q]]
    BY <1>1 DEF ListsWell
<1> HIDE DEF s, n
<1>4. /\ Link(n, c) \in Seq(Slot) /\ IsInjective(Link(n, c))
      /\ \A u : Contains(Link(n, c), u) <=> Contains(n, u) \/ u = c
    BY <1>2, LinkList
<1>5. /\ Unlink(s, c) \in Seq(Slot) /\ IsInjective(Unlink(s, c))
      /\ \A u : Contains(Unlink(s, c), u) <=> Contains(s, u) /\ u # c
    BY <1>1, <1>2, UnlinkList
<1>6. ASSUME NEW q \in Priority
      PROVE  /\ thread_list'[q] \in Seq(Slot) /\ IsInjective(thread_list'[q])
             /\ \A u : u # c => (Contains(thread_list'[q], u) <=> Contains(thread_list[q], u))
             /\ Contains(thread_list'[q], c) <=> q = p
    <2>1. CASE q = p
        BY <2>1, <1>3, <1>4 DEF n
    <2>2. CASE q = r
        BY <2>2, <1>1, <1>3, <1>5 DEF s
    <2>3. CASE q # p /\ q # r
        <3>1. ~Contains(thread_list[q], c)
            BY <2>3 DEF ListsWell
        <3> QED
            BY <2>3, <3>1, <1>3 DEF ListsWell
    <2> QED
        BY <2>1, <2>2, <2>3
<1>7. thread_list' \in [Priority -> Seq(Slot)]
    BY <1>3, <1>6
<1>8. ASSUME NEW q \in Priority, NEW u, Contains(thread_list'[q], u) PROVE prio'[u] = q
    <2>1. CASE u = c
        BY <2>1, <1>1, <1>6, <1>8
    <2>2. CASE u # c
        <3>1. Contains(thread_list[q], u)
            BY <2>2, <1>6, <1>8
        <3>2. prio[u] = q /\ u \in Slot
            BY <3>1, ListedSlot DEF ListsWell, Listed
        <3> QED
            BY <2>2, <3>2, <1>1
    <2> QED
        BY <2>1, <2>2
<1>9. ListsWell'
    BY <1>6, <1>7, <1>8, Zenon DEF ListsWell
<1>10. \A u : Listed(u)' <=> Listed(u)
    <2>1. ASSUME NEW u, u # c PROVE Listed(u)' <=> Listed(u)
        BY <1>6, <2>1, Zenon DEF Listed
    <2>2. Listed(c)'
        BY <1>6, Zenon DEF Listed
    <2> QED
        BY <2>1, <2>2
<1> QED
    BY <1>9, <1>10

-----------------------------------------------------------------------------
(* Types, the lists, and that the running thread is in one of them.        *)
Flags == {"WAIT", "WAIT_JOIN", "DELETED", "DETACHED"}
CurInv == cur = Idle \/ (cur \in Slot /\ Listed(cur))
Base == TypeOK /\ ListsWell /\ CurInv

(* What holds of a thread that runs.                                       *)
LEMMA RunningThread ==
    ASSUME Base, NEW c \in Slot, Running(c)
    PROVE  Listed(c) /\ cur = c /\ flags[c] \intersect {"DELETED", "WAIT_JOIN", "WAIT"} = {}
<1>1. cur = c /\ flags[c] \subseteq {"DETACHED"}
    BY DEF Running, Ready
<1>2. c # Idle
    BY SlotAssumption
<1> QED
    BY <1>1, <1>2 DEF Base, CurInv

LEMMA FlagAdded ==
    ASSUME NEW f \in [Slot -> SUBSET Flags], NEW t \in Slot, NEW x \in Flags,
           NEW g, g = [f EXCEPT ![t] = @ \union {x}]
    PROVE  /\ g \in [Slot -> SUBSET Flags]
           /\ \A u \in Slot : \A y : y \in g[u] <=> y \in f[u] \/ (u = t /\ y = x)
<1> DEFINE S == f[t] \union {x}
<1>1. S \in SUBSET Flags
    OBVIOUS
<1>2. g = [f EXCEPT ![t] = S]
    OBVIOUS
<1> HIDE DEF S
<1>3. g \in [Slot -> SUBSET Flags] /\ g[t] = S /\ \A u \in Slot : u # t => g[u] = f[u]
    BY <1>1, <1>2
<1> QED
    BY <1>3 DEF S

LEMMA WakeJoinerFlags ==
    ASSUME TypeOK, NEW t \in Slot
    PROVE  /\ WakeJoiner(t) \in [Slot -> SUBSET Flags]
           /\ \A u \in Slot : /\ WakeJoiner(t)[u] \subseteq flags[u]
                              /\ flags[u] \ {"WAIT_JOIN"} \subseteq WakeJoiner(t)[u]
           /\ joinData[t] \in Slot /\ "DELETED" \notin flags[t]
              => "WAIT_JOIN" \notin WakeJoiner(t)[joinData[t]]
<1>1. flags \in [Slot -> SUBSET Flags]
    BY DEF TypeOK, Flags
<1>2. CASE joinData[t] \in Slot /\ "DELETED" \notin flags[t]
    <2> DEFINE j == joinData[t]
    <2>1. WakeJoiner(t) = [flags EXCEPT ![j] = @ \ {"WAIT_JOIN"}] /\ j \in Slot
        BY <1>2 DEF WakeJoiner
    <2> HIDE DEF j
    <2>2. /\ WakeJoiner(t) \in [Slot -> SUBSET Flags]
          /\ WakeJoiner(t)[j] = flags[j] \ {"WAIT_JOIN"}
          /\ \A u \in Slot : u # j => WakeJoiner(t)[u] = flags[u]
        BY <1>1, <2>1
    <2> QED
        BY <2>1, <2>2 DEF j
<1>3. CASE ~(joinData[t] \in Slot /\ "DELETED" \notin flags[t])
    <2>1. WakeJoiner(t) = flags
        BY <1>3 DEF WakeJoiner
    <2> QED
        BY <1>1, <1>3, <2>1
<1> QED
    BY <1>2, <1>3

(* The types of what Next leaves to TypeOK besides the lists.              *)
LEMMA TypeStep ==
    ASSUME Base, ListsWell', cur' \in Slot \union {Idle}, Next
    PROVE  TypeOK'
<1> USE SlotAssumption
<1>0. thread_list' \in [Priority -> Seq(Slot)]
    BY DEF ListsWell
<1>1. ASSUME Switch \/ IdleThread PROVE TypeOK'
    BY <1>0, <1>1 DEF Switch, IdleThread, TypeOK, Base, dataVars, callVars
<1>2. ASSUME NEW c \in Slot, NEW t \in Slot, NEW p, NEW o, create(c, t, p, o) PROVE TypeOK'
    <2>1. births' \in [Slot -> 0 .. MaxBirths]
        <3>1. births[t] \in 0 .. MaxBirths /\ births[t] < MaxBirths
            BY <1>2 DEF create, TypeOK, Base
        <3>2. births[t] + 1 \in 0 .. MaxBirths
            BY <3>1, BirthAssumption
        <3> QED
            BY <1>2, <3>2 DEF create, TypeOK, Base
    <2>2. flags' \in [Slot -> SUBSET {"WAIT", "WAIT_JOIN", "DELETED", "DETACHED"}]
        BY <1>2 DEF create, TypeOK, Base
    <2>3. /\ prio' \in [Slot -> Priority]
          /\ joinData' \in [Slot -> Slot \union {NoThread, "result"}]
          /\ inside' \in [Slot -> {"code", "join", "reap"}]
          /\ joining' \in [Slot -> Slot \union {NoThread}]
          /\ creator' \in [Slot -> Slot \union {NoThread}]
        BY <1>2 DEF create, validate, TypeOK, Base
    <2>4. awaited' \in [Slot -> 0 .. MaxBirths]
        BY <1>2, BirthAssumption DEF create, TypeOK, Base
    <2> QED
        BY <1>0, <1>2, <2>1, <2>2, <2>3, <2>4 DEF create, TypeOK, Base
<1>3. ASSUME NEW c \in Slot, NEW p \in Priority, setPriority(c, p) PROVE TypeOK'
    BY <1>0, <1>3 DEF setPriority, TypeOK, Base, callVars
<1>f. flags \in [Slot -> SUBSET Flags] /\ \A x \in {"WAIT", "WAIT_JOIN", "DELETED", "DETACHED"} : x \in Flags
    BY DEF TypeOK, Base, Flags
<1>4. ASSUME NEW c \in Slot, wait(c) \/ wakeup(c) PROVE TypeOK'
    <2>1. flags' \in [Slot -> SUBSET Flags]
        <3>1. CASE wait(c)
            BY <3>1, <1>f, FlagAdded DEF wait
        <3>2. CASE wakeup(c)
            BY <3>2, <1>f DEF wakeup
        <3> QED
            BY <1>4, <3>1, <3>2
    <2> QED
        BY <1>0, <1>4, <2>1 DEF wait, wakeup, TypeOK, Base, Flags, dataVars, callVars
<1>5. ASSUME NEW c \in Slot, threadReturns(c) PROVE TypeOK'
    <2>1. flags' \in [Slot -> SUBSET Flags]
        <3>1. CASE "DETACHED" \in flags[c]
            BY <1>5, <3>1, <1>f, FlagAdded DEF threadReturns
        <3>2. CASE "DETACHED" \notin flags[c]
            <4> DEFINE w == WakeJoiner(c)
            <4>1. w \in [Slot -> SUBSET Flags] /\ flags' = [w EXCEPT ![c] = @ \union {"DELETED"}]
                BY <1>5, <3>2, WakeJoinerFlags DEF threadReturns, Base
            <4> HIDE DEF w
            <4> QED
                BY <4>1, <1>f, FlagAdded
        <3> QED
            BY <3>1, <3>2
    <2>2. joinData' \in [Slot -> Slot \union {NoThread, "result"}]
        BY <1>5 DEF threadReturns, TypeOK, Base
    <2>3. exist_deleted' \in BOOLEAN
        BY <1>5 DEF threadReturns, TypeOK, Base
    <2> QED
        BY <1>0, <1>5, <2>1, <2>2, <2>3 DEF threadReturns, TypeOK, Base, Flags, callVars
<1>6. ASSUME NEW c \in Slot, NEW t \in Slot, detach(c, t) PROVE TypeOK'
    <2>1. flags' \in [Slot -> SUBSET Flags]
        <3> DEFINE w == WakeJoiner(t)
        <3>1. w \in [Slot -> SUBSET Flags] /\ flags' = [w EXCEPT ![t] = @ \union {"DETACHED"}]
            BY <1>6, WakeJoinerFlags DEF detach, Base
        <3> HIDE DEF w
        <3> QED
            BY <3>1, <1>f, FlagAdded
    <2> QED
        BY <1>0, <1>6, <2>1 DEF detach, TypeOK, Base, Flags, NeedsReap, dataVars, callVars
<1>7. ASSUME NEW c \in Slot, NEW t \in Slot, Claim(c, t)
      PROVE  /\ flags' \in [Slot -> SUBSET Flags] /\ inside' \in [Slot -> {"code", "join", "reap"}]
             /\ joinData' \in [Slot -> Slot \union {NoThread, "result"}]
    <2>1. flags' \in [Slot -> SUBSET Flags]
        BY <1>7, <1>f, FlagAdded DEF Claim
    <2> QED
        BY <1>7, <2>1 DEF Claim, TypeOK, Base
<1>8. ASSUME NEW c \in Slot, NEW t \in Slot, join(c, t) PROVE TypeOK'
    <2>1. /\ flags' \in [Slot -> SUBSET Flags] /\ inside' \in [Slot -> {"code", "join", "reap"}]
          /\ joinData' \in [Slot -> Slot \union {NoThread, "result"}]
        <3>1. CASE "DELETED" \in flags[t]
            BY <1>7, <1>8, <3>1 DEF join
        <3>2. CASE "DELETED" \notin flags[t]
            <4>1. flags' \in [Slot -> SUBSET Flags]
                BY <1>8, <3>2, <1>f, FlagAdded DEF join
            <4>2. /\ joinData' = [joinData EXCEPT ![t] = c]
                  /\ inside' = [inside EXCEPT ![c] = "join"]
                BY <1>8, <3>2 DEF join
            <4>3. joinData' \in [Slot -> Slot \union {NoThread, "result"}]
                BY <4>2 DEF TypeOK, Base
            <4>4. inside' \in [Slot -> {"code", "join", "reap"}]
                BY <4>2 DEF TypeOK, Base
            <4> QED
                BY <4>1, <4>3, <4>4
        <3> QED
            BY <3>1, <3>2
    <2>2. joining' \in [Slot -> Slot \union {NoThread}] /\ awaited' \in [Slot -> 0 .. MaxBirths]
        BY <1>8 DEF join, TypeOK, Base
    <2> QED
        BY <1>0, <1>8, <2>1, <2>2 DEF join, TypeOK, Base, Flags
<1>9. ASSUME NEW c \in Slot, joinResumes(c) PROVE TypeOK'
    <2>1. \/ /\ inside' = [inside EXCEPT ![c] = "code"]
             /\ joining' = [joining EXCEPT ![c] = NoThread]
             /\ awaited' = [awaited EXCEPT ![c] = 0]
             /\ UNCHANGED <<flags, joinData>>
          \/ /\ Exists(joining[c]) /\ Claim(c, joining[c])
             /\ UNCHANGED <<joining, awaited>>
          \/ /\ flags' = [flags EXCEPT ![c] = @ \union {"WAIT_JOIN"}]
             /\ UNCHANGED <<inside, joinData, joining, awaited>>
        BY <1>9 DEF joinResumes
    <2>2. /\ flags' \in [Slot -> SUBSET Flags] /\ inside' \in [Slot -> {"code", "join", "reap"}]
          /\ joinData' \in [Slot -> Slot \union {NoThread, "result"}]
          /\ joining' \in [Slot -> Slot \union {NoThread}]
        <3>1. ASSUME Exists(joining[c]) PROVE joining[c] \in Slot
            BY <3>1, ListedSlot DEF Exists, Base
        <3>2. CASE UNCHANGED <<flags, joinData>> /\ joining' = [joining EXCEPT ![c] = NoThread]
                   /\ inside' = [inside EXCEPT ![c] = "code"]
            BY <3>2, <1>f DEF TypeOK, Base
        <3>3. CASE Exists(joining[c]) /\ Claim(c, joining[c]) /\ UNCHANGED <<joining, awaited>>
            BY <1>7, <3>1, <3>3 DEF TypeOK, Base
        <3>4. CASE flags' = [flags EXCEPT ![c] = @ \union {"WAIT_JOIN"}]
                   /\ UNCHANGED <<inside, joinData, joining, awaited>>
            <4>1. flags' \in [Slot -> SUBSET Flags]
                BY <3>4, <1>f, FlagAdded
            <4> QED
                BY <3>4, <4>1 DEF TypeOK, Base
        <3> QED
            BY <2>1, <3>2, <3>3, <3>4
    <2>3. awaited' \in [Slot -> 0 .. MaxBirths]
        <3>1. 0 \in 0 .. MaxBirths
            BY BirthAssumption
        <3>2. awaited' = awaited \/ awaited' = [awaited EXCEPT ![c] = 0]
            BY <2>1
        <3> QED
            BY <3>1, <3>2 DEF TypeOK, Base
    <2> QED
        BY <1>0, <1>9, <2>2, <2>3 DEF joinResumes, TypeOK, Base, Flags
<1>10. ASSUME NEW c \in Slot, joinReaps(c) PROVE TypeOK'
    <2>1. awaited' \in [Slot -> 0 .. MaxBirths]
        BY <1>10, BirthAssumption DEF joinReaps, TypeOK, Base
    <2> QED
        BY <1>0, <1>10, <2>1 DEF joinReaps, TypeOK, Base, dataVars
<1> QED
    BY <1>1, <1>2, <1>3, <1>4, <1>5, <1>6, <1>8, <1>9, <1>10 DEF Next

-----------------------------------------------------------------------------
(* The inductive invariant, in terms of the threads that are in the lists, *)
(* and of those that have terminated, are detached, or sleep in join.      *)
Live == {u \in Slot : Listed(u)}
Dead == {u \in Slot : "DELETED" \in flags[u]}
Detached == {u \in Slot : "DETACHED" \in flags[u]}
Asleep == {u \in Slot : "WAIT_JOIN" \in flags[u]}

(* A thread that has terminated is not in join, so joinReaps does not free *)
(* a thread that another one is to wake.                                   *)
DeadInCode == \A u \in Live : u \in Dead => inside[u] = "code"

(* The union holds the result from the end of a joinable thread on.        *)
ResultOfDead == \A u \in Live : joinData[u] = "result" => u \in Dead
DeadHasResult == \A u \in Live : u \in Dead /\ u \notin Detached => joinData[u] = "result"

FreedSoon ==
    (\E u \in Live : u \in Dead /\ u \in Detached)
    => exist_deleted \/ \E c \in Live : inside[c] = "reap"

JoinerKept ==
    \A u \in Live : u \notin Dead /\ u \notin Detached /\ joinData[u] # NoThread =>
        joinData[u] \in Live /\ inside[joinData[u]] = "join" /\ joining[joinData[u]] = u

SleeperInJoin == \A c \in Live : c \in Asleep => inside[c] = "join"

(* Nobody else takes from an owner the thread it joins.                    *)
OwnerKnown ==
    discipline = "owned" => \A c \in Live : inside[c] = "join" =>
        /\ joining[c] \in Live /\ joining[c] \notin Detached /\ creator[joining[c]] = c
        /\ joining[c] \notin Dead => joinData[joining[c]] = c

OwnerWoken ==
    discipline = "owned" => \A c \in Live : c \in Asleep => joining[c] \notin Dead

Threads ==
    /\ DeadInCode /\ ResultOfDead /\ DeadHasResult /\ FreedSoon
    /\ JoinerKept /\ SleeperInJoin /\ OwnerKnown /\ OwnerWoken

IInv == Base /\ Threads

LEMMA LiveRunning ==
    ASSUME Base, NEW c \in Slot, Running(c)
    PROVE  c \in Live /\ c \notin Dead /\ c \notin Asleep /\ cur = c
BY RunningThread DEF Live, Dead, Asleep

(* Nothing that the invariant speaks about changes.                        *)
LEMMA ThreadsSame ==
    ASSUME Threads, Live' = Live, Dead' = Dead, Detached' = Detached, Asleep' = Asleep,
           UNCHANGED <<discipline, exist_deleted, joinData, inside, joining, creator>>
    PROVE  Threads'
BY DEF Threads, DeadInCode, ResultOfDead, DeadHasResult, FreedSoon, JoinerKept, SleeperInJoin,
       OwnerKnown, OwnerWoken

LEMMA FlagSetsSame ==
    ASSUME flags' = flags
    PROVE  Dead' = Dead /\ Detached' = Detached /\ Asleep' = Asleep
BY DEF Dead, Detached, Asleep

LEMMA SwitchStep ==
    ASSUME IInv, Switch
    PROVE  IInv'
<1>1. /\ ListsWell' /\ \A u : Listed(u)' <=> Listed(u)
      /\ cur' = Idle \/ (cur' \in Slot /\ Listed(cur'))
    BY SwitchLists DEF IInv, Base
<1>2. Live' = Live
    BY <1>1, Zenon DEF Live
<1>3. /\ flags' = flags
      /\ UNCHANGED <<discipline, exist_deleted, joinData, inside, joining, creator>>
    BY DEF Switch, dataVars, callVars
<1>4. CurInv'
    BY <1>1, Zenon DEF CurInv
<1>5. TypeOK'
    BY <1>1, TypeStep DEF Next, IInv
<1> QED
    BY <1>1, <1>2, <1>3, <1>4, <1>5, FlagSetsSame, ThreadsSame DEF IInv, Base

(* The dead are freed: no reaper and no thread that is joined is among     *)
(* them.                                                                   *)
LEMMA FreedStep ==
    ASSUME Threads, Live' = {u \in Live : ~(u \in Dead /\ u \in Detached)},
           Dead' = Dead, Detached' = Detached, Asleep' = Asleep,
           UNCHANGED <<discipline, joinData, creator>>,
           NEW S \in SUBSET Slot, \A u \in S : inside[u] = "reap",
           \A u \in Slot : /\ u \notin S => inside'[u] = inside[u] /\ joining'[u] = joining[u]
                           /\ u \in S => inside'[u] = "code"
    PROVE  Threads'
<1>0. Live \subseteq Slot /\ Live' \subseteq Live
    BY DEF Live
<1>1. DeadInCode'
    BY <1>0 DEF Threads, DeadInCode
<1>2. ResultOfDead' /\ DeadHasResult' /\ FreedSoon'
    BY <1>0 DEF Threads, ResultOfDead, DeadHasResult, FreedSoon
<1>3. JoinerKept'
    <2> SUFFICES ASSUME NEW u \in Live', u \notin Dead, u \notin Detached, joinData[u] # NoThread
        PROVE  joinData[u] \in Live' /\ inside'[joinData[u]] = "join" /\ joining'[joinData[u]] = u
        BY DEF JoinerKept
    <2> DEFINE j == joinData[u]
    <2>1. j \in Live /\ inside[j] = "join" /\ joining[j] = u
        BY <1>0 DEF Threads, JoinerKept
    <2> HIDE DEF j
    <2>2. j \notin Dead /\ j \notin S
        BY <2>1 DEF Threads, DeadInCode
    <2> QED
        BY <1>0, <2>1, <2>2 DEF j
<1>4. SleeperInJoin'
    BY <1>0 DEF Threads, SleeperInJoin
<1>5. OwnerKnown'
    <2> SUFFICES ASSUME discipline = "owned", NEW c \in Live', inside'[c] = "join"
        PROVE  /\ joining'[c] \in Live' /\ joining'[c] \notin Detached /\ creator[joining'[c]] = c
               /\ joining'[c] \notin Dead => joinData[joining'[c]] = c
        BY DEF OwnerKnown
    <2>1. c \in Live /\ c \notin S /\ joining'[c] = joining[c] /\ inside[c] = "join"
        BY <1>0
    <2>2. /\ joining[c] \in Live /\ joining[c] \notin Detached /\ creator[joining[c]] = c
          /\ joining[c] \notin Dead => joinData[joining[c]] = c
        BY <2>1 DEF Threads, OwnerKnown
    <2> QED
        BY <2>1, <2>2
<1>6. OwnerWoken'
    <2> SUFFICES ASSUME discipline = "owned", NEW c \in Live', c \in Asleep
        PROVE  joining'[c] \notin Dead
        BY DEF OwnerWoken
    <2>1. c \in Live /\ inside[c] = "join"
        BY <1>0 DEF Threads, SleeperInJoin
    <2>2. joining'[c] = joining[c]
        BY <1>0, <2>1
    <2> QED
        BY <2>1, <2>2 DEF Threads, OwnerWoken
<1> QED
    BY <1>1, <1>2, <1>3, <1>4, <1>5, <1>6 DEF Threads

LEMMA ReapedLive ==
    ASSUME \A u : Listed(u)' <=> Listed(u) /\ ~Deleted(u)
    PROVE  Live' = {u \in Live : ~(u \in Dead /\ u \in Detached)}
<1>1. \A u \in Slot : Deleted(u) <=> u \in Dead /\ u \in Detached
    BY DEF Deleted, Dead, Detached
<1> QED
    BY <1>1, Zenon DEF Live

LEMMA IdleStep ==
    ASSUME IInv, IdleThread
    PROVE  IInv'
<1>1. ListsWell' /\ \A u : Listed(u)' <=> Listed(u) /\ ~Deleted(u)
    BY ReapedLists DEF IdleThread, dataVars, IInv, Base
<1>2. cur' = Idle /\ CurInv'
    BY DEF IdleThread, CurInv
<1>3. TypeOK'
    BY <1>1, <1>2, TypeStep DEF Next, IInv
<1>4. UNCHANGED <<discipline, flags, joinData, creator, inside, joining>>
    BY DEF IdleThread, dataVars, callVars
<1>5. Threads'
    <2> DEFINE S == {}
    <2>1. /\ S \in SUBSET Slot /\ \A u \in S : inside[u] = "reap"
          /\ \A u \in Slot : /\ u \notin S => inside'[u] = inside[u] /\ joining'[u] = joining[u]
                             /\ u \in S => inside'[u] = "code"
        BY <1>4
    <2> HIDE DEF S
    <2> QED
        BY <1>1, <1>4, <2>1, ReapedLive, FlagSetsSame, FreedStep DEF IInv
<1> QED
    BY <1>1, <1>2, <1>3, <1>5 DEF IInv, Base

LEMMA ReapStep ==
    ASSUME IInv, NEW c \in Slot, joinReaps(c)
    PROVE  IInv'
<1>0. Running(c) /\ inside[c] = "reap" /\ inside \in [Slot -> {"code", "join", "reap"}]
      /\ joining \in [Slot -> Slot \union {NoThread}]
    BY DEF joinReaps, IInv, Base, TypeOK
<1>1. ListsWell' /\ \A u : Listed(u)' <=> Listed(u) /\ ~Deleted(u)
    BY ReapedLists DEF joinReaps, dataVars, IInv, Base
<1>2. CurInv'
    <2>1. Listed(c) /\ cur = c /\ ~Deleted(c)
        BY <1>0, RunningThread DEF Deleted, IInv
    <2>2. Listed(c)'
        BY <1>1, <2>1
    <2>3. cur' = c
        BY <2>1 DEF joinReaps
    <2> QED
        BY <2>2, <2>3 DEF CurInv, Listed
<1>3. TypeOK'
    <2>1. cur' \in Slot \union {Idle}
        BY <1>2 DEF CurInv
    <2>2. Next
        BY DEF Next
    <2> QED
        BY <1>1, <2>1, <2>2, TypeStep DEF IInv
<1>4. UNCHANGED <<discipline, flags, joinData, creator>>
    BY DEF joinReaps, dataVars
<1>5. Threads'
    <2> DEFINE S == {c}
    <2>1. /\ S \in SUBSET Slot /\ \A u \in S : inside[u] = "reap"
          /\ \A u \in Slot : /\ u \notin S => inside'[u] = inside[u] /\ joining'[u] = joining[u]
                             /\ u \in S => inside'[u] = "code"
        BY <1>0 DEF joinReaps
    <2> HIDE DEF S
    <2> QED
        BY <1>1, <1>4, <2>1, ReapedLive, FlagSetsSame, FreedStep DEF IInv
<1> QED
    BY <1>1, <1>2, <1>3, <1>5 DEF IInv, Base

LEMMA SetPriorityStep ==
    ASSUME IInv, NEW c \in Slot, NEW p \in Priority, setPriority(c, p)
    PROVE  IInv'
<1>0. Listed(c) /\ prio \in [Slot -> Priority]
    BY RunningThread DEF setPriority, InCode, IInv, Base, TypeOK
<1>1. ListsWell' /\ \A u : Listed(u)' <=> Listed(u)
    BY <1>0, SetPriorityLists DEF IInv, Base
<1>2. CurInv'
    <2>1. cur' = cur
        BY DEF setPriority
    <2> QED
        BY <1>1, <2>1 DEF CurInv, IInv, Base
<1>3. TypeOK'
    <2>1. cur' \in Slot \union {Idle}
        BY <1>2 DEF CurInv
    <2>2. Next
        BY DEF Next
    <2> QED
        BY <1>1, <2>1, <2>2, TypeStep DEF IInv
<1>4. /\ flags' = flags
      /\ UNCHANGED <<discipline, exist_deleted, joinData, inside, joining, creator>>
    BY DEF setPriority, callVars
<1>5. Live' = Live
    BY <1>1, Zenon DEF Live
<1> QED
    BY <1>1, <1>2, <1>3, <1>4, <1>5, FlagSetsSame, ThreadsSame DEF IInv, Base

(* Operations that leave the lists and the running thread as they are.     *)
LEMMA ListsSame ==
    ASSUME Base, Next, UNCHANGED <<thread_list, cur, prio>>
    PROVE  Base' /\ Live' = Live
<1>1. ListsWell' /\ CurInv' /\ Live' = Live
    BY DEF Base, ListsWell, CurInv, Listed, Live
<1>2. cur' \in Slot \union {Idle}
    BY DEF Base, CurInv
<1> QED
    BY <1>1, <1>2, TypeStep DEF Base

LEMMA WaitStep ==
    ASSUME IInv, NEW c \in Slot, wait(c) \/ wakeup(c)
    PROVE  IInv'
<1>0. flags \in [Slot -> SUBSET Flags] /\ "WAIT" \in Flags
    BY DEF IInv, Base, TypeOK, Flags
<1>1. Dead' = Dead /\ Detached' = Detached /\ Asleep' = Asleep
    <2>1. CASE wait(c)
        <3>1. \A u \in Slot : \A y : y \in flags'[u] <=> y \in flags[u] \/ (u = c /\ y = "WAIT")
            BY <1>0, <2>1, FlagAdded DEF wait
        <3> QED
            BY <3>1 DEF Dead, Detached, Asleep
    <2>2. CASE wakeup(c)
        <3>1. \A u \in Slot : flags'[u] = IF u = c THEN flags[u] \ {"WAIT"} ELSE flags[u]
            BY <1>0, <2>2 DEF wakeup
        <3> QED
            BY <3>1 DEF Dead, Detached, Asleep
    <2> QED
        BY <2>1, <2>2
<1>2. UNCHANGED <<thread_list, cur, prio>>
      /\ UNCHANGED <<discipline, exist_deleted, joinData, inside, joining, creator>>
    BY DEF wait, wakeup, dataVars, callVars
<1>3. Next
    BY DEF Next
<1> QED
    BY <1>1, <1>2, <1>3, ListsSame, ThreadsSame DEF IInv

LEMMA CreateStep ==
    ASSUME IInv, NEW c \in Slot, NEW t \in Slot, NEW p \in Requested,
           NEW o \in {"JOINABLE", "DEFAULT"}, create(c, t, p, o)
    PROVE  IInv'
<1>t. TypeOK /\ ListsWell /\ Threads
    BY DEF IInv, Base
<1>0. /\ c \in Live /\ t \in Slot /\ t \notin Live /\ cur = c /\ Live \subseteq Slot
    BY LiveRunning DEF create, InCode, IInv, Live
<1>1. ListsWell' /\ \A u : Listed(u)' <=> Listed(u) \/ u = t
    BY <1>t, CreateLists DEF TypeOK
<1>2. CurInv' /\ TypeOK'
    <2>1. cur' = cur /\ Listed(c)
        BY <1>0 DEF create, Live
    <2>2. CurInv'
        BY <1>0, <1>1, <2>1 DEF CurInv
    <2>3. cur' \in Slot \union {Idle} /\ Next
        BY <1>0, <2>1 DEF Next
    <2> QED
        BY <1>1, <2>2, <2>3, TypeStep DEF IInv
<1>3. Live' = Live \union {t}
    BY <1>1, Zenon DEF Live
<1>4. \A u \in Slot : /\ u # t => flags'[u] = flags[u]
                      /\ u = t => flags'[u] \in {{}, {"DETACHED"}}
    BY <1>t DEF create, TypeOK
<1>5. /\ t \notin Dead' /\ t \notin Asleep'
      /\ \A u \in Slot : u # t => /\ u \in Dead' <=> u \in Dead
                                  /\ u \in Detached' <=> u \in Detached
                                  /\ u \in Asleep' <=> u \in Asleep
    BY <1>4 DEF Dead, Asleep, Detached
<1>6. /\ \A u \in Slot : u # t => /\ joinData'[u] = joinData[u] /\ inside'[u] = inside[u]
                                  /\ joining'[u] = joining[u] /\ creator'[u] = creator[u]
      /\ joinData'[t] = NoThread /\ inside'[t] = "code"
      /\ discipline' = discipline /\ exist_deleted' = exist_deleted
    BY <1>t DEF create, TypeOK
<1>7. DeadInCode' /\ ResultOfDead' /\ DeadHasResult'
    BY <1>0, <1>3, <1>5, <1>6, <1>t, SlotAssumption DEF Threads, DeadInCode, ResultOfDead, DeadHasResult
<1>8. FreedSoon'
    <2> SUFFICES ASSUME NEW u \in Live', u \in Dead', u \in Detached'
                 PROVE  exist_deleted' \/ \E d \in Live' : inside'[d] = "reap"
        BY DEF FreedSoon
    <2>1. u # t /\ u \in Live /\ u \in Dead /\ u \in Detached
        BY <1>0, <1>3, <1>5
    <2>2. exist_deleted \/ \E d \in Live : inside[d] = "reap"
        BY <2>1, <1>t DEF Threads, FreedSoon
    <2>3. \A d \in Live : d \in Live' /\ inside'[d] = inside[d]
        BY <1>0, <1>3, <1>6
    <2> QED
        BY <2>2, <2>3, <1>6
<1>9. JoinerKept'
    <2> SUFFICES ASSUME NEW u \in Live', u \notin Dead', u \notin Detached', joinData'[u] # NoThread
        PROVE  joinData'[u] \in Live' /\ inside'[joinData'[u]] = "join" /\ joining'[joinData'[u]] = u
        BY DEF JoinerKept
    <2>1. u \in Live /\ u # t /\ u \notin Dead /\ u \notin Detached /\ joinData'[u] = joinData[u]
        BY <1>0, <1>3, <1>5, <1>6
    <2>2. joinData[u] \in Live /\ inside[joinData[u]] = "join" /\ joining[joinData[u]] = u
        BY <2>1, <1>t DEF Threads, JoinerKept
    <2>3. joinData[u] # t /\ joinData[u] \in Slot
        BY <1>0, <2>2
    <2> QED
        BY <2>1, <2>2, <2>3, <1>3, <1>6
<1>10. SleeperInJoin'
    BY <1>0, <1>3, <1>5, <1>6, <1>t DEF Threads, SleeperInJoin
<1>11. OwnerKnown'
    <2> SUFFICES ASSUME discipline = "owned", NEW d \in Live', inside'[d] = "join"
        PROVE  /\ joining'[d] \in Live' /\ joining'[d] \notin Detached' /\ creator'[joining'[d]] = d
               /\ joining'[d] \notin Dead' => joinData'[joining'[d]] = d
        BY <1>6 DEF OwnerKnown
    <2>1. d # t /\ d \in Live /\ inside[d] = "join" /\ joining'[d] = joining[d]
        BY <1>0, <1>3, <1>6
    <2>2. /\ joining[d] \in Live /\ joining[d] \notin Detached /\ creator[joining[d]] = d
          /\ joining[d] \notin Dead => joinData[joining[d]] = d
        BY <2>1, <1>t DEF Threads, OwnerKnown
    <2>3. joining[d] # t /\ joining[d] \in Slot
        BY <1>0, <2>2
    <2> QED
        BY <2>1, <2>2, <2>3, <1>3, <1>5, <1>6
<1>12. OwnerWoken'
    <2> SUFFICES ASSUME discipline = "owned", NEW d \in Live', d \in Asleep'
        PROVE  joining'[d] \notin Dead'
        BY <1>6 DEF OwnerWoken
    <2>1. d # t /\ d \in Live /\ d \in Asleep /\ joining'[d] = joining[d]
        BY <1>0, <1>3, <1>5, <1>6
    <2>2. joining[d] \notin Dead /\ joining[d] \in Live
        BY <2>1, <1>t DEF Threads, OwnerWoken, OwnerKnown, SleeperInJoin
    <2> QED
        BY <2>1, <2>2, <1>0, <1>5
<1> QED
    BY <1>1, <1>2, <1>7, <1>8, <1>9, <1>10, <1>11, <1>12 DEF IInv, Base, Threads

LEMMA ReturnStep ==
    ASSUME IInv, NEW c \in Slot, threadReturns(c)
    PROVE  IInv'
<1>t. TypeOK /\ ListsWell /\ Threads /\ Base
    BY DEF IInv, Base
<1>0. /\ c \in Live /\ c \notin Dead /\ c \notin Asleep /\ inside[c] = "code" /\ Live \subseteq Slot
    BY LiveRunning DEF threadReturns, InCode, IInv, Live
<1>1. Base' /\ Live' = Live
    BY <1>t, ListsSame DEF threadReturns, Next
<1>2. UNCHANGED <<discipline, inside, joining, creator>>
    BY DEF threadReturns, callVars
<1>3. /\ Dead' = Dead \union {c} /\ Detached' = Detached /\ Asleep' \subseteq Asleep
      /\ \A u \in Slot : u # c => joinData'[u] = joinData[u]
      /\ exist_deleted => exist_deleted'
      /\ c \in Detached => exist_deleted' /\ joinData'[c] = joinData[c]
      /\ c \notin Detached => joinData'[c] = "result"
      /\ c \notin Detached /\ joinData[c] \in Slot => joinData[c] \notin Asleep'
    <2>f. flags \in [Slot -> SUBSET Flags] /\ "DELETED" \in Flags
        BY <1>t DEF TypeOK, Flags
    <2>1. CASE "DETACHED" \in flags[c]
        <3>1. \A u \in Slot : \A y : y \in flags'[u] <=> y \in flags[u] \/ (u = c /\ y = "DELETED")
            BY <2>f, <2>1, FlagAdded DEF threadReturns
        <3>2. Dead' = Dead \union {c} /\ Detached' = Detached /\ Asleep' = Asleep
            BY <3>1 DEF Dead, Detached, Asleep
        <3>3. joinData' = joinData /\ exist_deleted' /\ c \in Detached
            BY <2>1 DEF threadReturns, Detached
        <3> QED
            BY <3>2, <3>3
    <2>2. CASE "DETACHED" \notin flags[c]
        <3> DEFINE w == WakeJoiner(c)
                   j == joinData[c]
        <3>1. /\ w \in [Slot -> SUBSET Flags]
              /\ \A u \in Slot : w[u] \subseteq flags[u] /\ flags[u] \ {"WAIT_JOIN"} \subseteq w[u]
              /\ j \in Slot => "WAIT_JOIN" \notin w[j]
            BY <1>0, <1>t, WakeJoinerFlags DEF Dead
        <3>2. flags' = [w EXCEPT ![c] = @ \union {"DELETED"}]
            BY <2>2 DEF threadReturns
        <3> HIDE DEF w, j
        <3>3. \A u \in Slot : \A y : y \in flags'[u] <=> y \in w[u] \/ (u = c /\ y = "DELETED")
            BY <2>f, <3>1, <3>2, FlagAdded
        <3>4. Dead' = Dead \union {c} /\ Detached' = Detached
            BY <3>1, <3>3 DEF Dead, Detached
        <3>5. Asleep' \subseteq Asleep /\ (j \in Slot => j \notin Asleep')
            BY <3>1, <3>3 DEF Asleep
        <3>6. joinData' = [joinData EXCEPT ![c] = "result"] /\ exist_deleted' = exist_deleted
            BY <2>2 DEF threadReturns
        <3>7. joinData'[c] = "result" /\ \A u \in Slot : u # c => joinData'[u] = joinData[u]
            BY <3>6, <1>t DEF TypeOK
        <3>8. c \notin Detached
            BY <2>2 DEF Detached
        <3> QED
            BY <3>4, <3>5, <3>6, <3>7, <3>8 DEF j
    <2> QED
        BY <2>1, <2>2
<1>4. DeadInCode' /\ ResultOfDead' /\ DeadHasResult'
    BY <1>0, <1>1, <1>2, <1>3, <1>t DEF Threads, DeadInCode, ResultOfDead, DeadHasResult
<1>5. FreedSoon'
    BY <1>0, <1>1, <1>2, <1>3, <1>t DEF Threads, FreedSoon
<1>6. JoinerKept'
    BY <1>0, <1>1, <1>2, <1>3, <1>t DEF Threads, JoinerKept
<1>7. SleeperInJoin'
    BY <1>0, <1>1, <1>2, <1>3, <1>t DEF Threads, SleeperInJoin
<1>8. OwnerKnown'
    BY <1>0, <1>1, <1>2, <1>3, <1>t DEF Threads, OwnerKnown
<1>9. OwnerWoken'
    <2> SUFFICES ASSUME discipline = "owned", NEW d \in Live, d \in Asleep', joining[d] = c
        PROVE  FALSE
        BY <1>1, <1>2, <1>3, <1>t DEF Threads, OwnerWoken
    <2>1. inside[d] = "join" /\ d \in Asleep /\ d \in Slot
        BY <1>0, <1>3, <1>t DEF Threads, SleeperInJoin
    <2>2. c \notin Detached /\ joinData[c] = d
        BY <1>0, <2>1, <1>t DEF Threads, OwnerKnown
    <2> QED
        BY <1>3, <2>1, <2>2
<1> QED
    BY <1>1, <1>4, <1>5, <1>6, <1>7, <1>8, <1>9 DEF IInv, Threads

LEMMA DetachStep ==
    ASSUME IInv, NEW c \in Slot, NEW t \in Slot, detach(c, t)
    PROVE  IInv'
<1>t. TypeOK /\ ListsWell /\ Threads /\ Base
    BY DEF IInv, Base
<1>0. /\ c \in Live /\ inside[c] = "code" /\ t \in Live /\ t \notin Detached /\ Live \subseteq Slot
      /\ discipline = "owned" => creator[t] = c
    BY LiveRunning DEF detach, InCode, IInv, Live, Exists, MayUse, Detached
<1>1. Base' /\ Live' = Live
    BY <1>t, ListsSame DEF detach, Next, dataVars
<1>2. UNCHANGED <<discipline, joinData, inside, joining, creator>>
    BY DEF detach, dataVars, callVars
<1>3. /\ Dead' = Dead /\ Detached' = Detached \union {t} /\ Asleep' \subseteq Asleep
      /\ exist_deleted \/ t \in Dead => exist_deleted'
    <2>f. flags \in [Slot -> SUBSET Flags] /\ "DETACHED" \in Flags
        BY <1>t DEF TypeOK, Flags
    <2> DEFINE w == WakeJoiner(t)
    <2>1. /\ w \in [Slot -> SUBSET Flags]
          /\ \A u \in Slot : w[u] \subseteq flags[u] /\ flags[u] \ {"WAIT_JOIN"} \subseteq w[u]
        BY <1>t, WakeJoinerFlags
    <2>2. flags' = [w EXCEPT ![t] = @ \union {"DETACHED"}]
        BY DEF detach
    <2> HIDE DEF w
    <2>3. \A u \in Slot : \A y : y \in flags'[u] <=> y \in w[u] \/ (u = t /\ y = "DETACHED")
        BY <2>f, <2>1, <2>2, FlagAdded
    <2>4. Dead' = Dead /\ Detached' = Detached \union {t}
        BY <2>1, <2>3 DEF Dead, Detached
    <2>5. Asleep' \subseteq Asleep
        BY <2>1, <2>3 DEF Asleep
    <2>6. exist_deleted \/ t \in Dead => exist_deleted'
        BY DEF detach, NeedsReap, Dead
    <2> QED
        BY <2>4, <2>5, <2>6
<1>4. DeadInCode' /\ ResultOfDead' /\ DeadHasResult'
    BY <1>0, <1>1, <1>2, <1>3, <1>t DEF Threads, DeadInCode, ResultOfDead, DeadHasResult
<1>5. FreedSoon'
    BY <1>0, <1>1, <1>2, <1>3, <1>t DEF Threads, FreedSoon
<1>6. JoinerKept' /\ SleeperInJoin'
    BY <1>0, <1>1, <1>2, <1>3, <1>t DEF Threads, JoinerKept, SleeperInJoin
<1>7. OwnerKnown'
    BY <1>0, <1>1, <1>2, <1>3, <1>t DEF Threads, OwnerKnown
<1>8. OwnerWoken'
    BY <1>0, <1>1, <1>2, <1>3, <1>t DEF Threads, OwnerWoken
<1> QED
    BY <1>1, <1>4, <1>5, <1>6, <1>7, <1>8 DEF IInv, Threads

(* A join that succeeds, at once or after waiting.                         *)
LEMMA ClaimStep ==
    ASSUME TypeOK, Threads, NEW c \in Live, NEW t \in Live, Claim(c, t), Live' = Live,
           c \notin Dead, c \notin Asleep, t \in Dead, t \notin Detached,
           inside[c] = "code" \/ (inside[c] = "join" /\ joining[c] = t),
           discipline = "owned" => creator[t] = c,
           joining'[c] = t, \A u \in Slot : u # c => joining'[u] = joining[u],
           UNCHANGED <<discipline, exist_deleted, creator>>
    PROVE  Threads'
<1>0. Live \subseteq Slot /\ c \in Slot /\ t \in Slot
    BY DEF Live
<1>1. /\ joinData' = joinData /\ inside'[c] = "reap"
      /\ \A u \in Slot : u # c => inside'[u] = inside[u]
    BY <1>0 DEF Claim, TypeOK
<1>2. Dead' = Dead /\ Detached' = Detached \union {t} /\ Asleep' = Asleep
    <2>f. flags \in [Slot -> SUBSET Flags] /\ "DETACHED" \in Flags
        BY DEF TypeOK, Flags
    <2>1. \A u \in Slot : \A y : y \in flags'[u] <=> y \in flags[u] \/ (u = t /\ y = "DETACHED")
        BY <1>0, <2>f, FlagAdded DEF Claim
    <2> QED
        BY <1>0, <2>1 DEF Dead, Detached, Asleep
<1>3. DeadInCode' /\ ResultOfDead' /\ DeadHasResult'
    BY <1>0, <1>1, <1>2 DEF Threads, DeadInCode, ResultOfDead, DeadHasResult
<1>4. FreedSoon'
    BY <1>1 DEF FreedSoon
<1>5. JoinerKept'
    <2> SUFFICES ASSUME NEW u \in Live, u \notin Dead, u \notin Detached, joinData[u] # NoThread
        PROVE  joinData[u] \in Live /\ inside'[joinData[u]] = "join" /\ joining'[joinData[u]] = u
        BY <1>1, <1>2 DEF JoinerKept
    <2> DEFINE j == joinData[u]
    <2>1. j \in Live /\ inside[j] = "join" /\ joining[j] = u
        BY DEF Threads, JoinerKept
    <2> HIDE DEF j
    <2>2. j # c
        BY <2>1
    <2> QED
        BY <1>0, <1>1, <2>1, <2>2 DEF j
<1>6. SleeperInJoin'
    BY <1>0, <1>1, <1>2 DEF Threads, SleeperInJoin
<1>7. OwnerKnown'
    BY <1>0, <1>1, <1>2 DEF Threads, OwnerKnown
<1>8. OwnerWoken'
    BY <1>0, <1>1, <1>2 DEF Threads, OwnerWoken
<1> QED
    BY <1>3, <1>4, <1>5, <1>6, <1>7, <1>8 DEF Threads

LEMMA JoinStep ==
    ASSUME IInv, NEW c \in Slot, NEW t \in Slot, join(c, t)
    PROVE  IInv'
<1>t. TypeOK /\ ListsWell /\ Threads /\ Base
    BY DEF IInv, Base
<1>0. /\ c \in Live /\ c \notin Dead /\ c \notin Asleep /\ inside[c] = "code"
      /\ t \in Live /\ t \notin Detached /\ Live \subseteq Slot /\ t # c
      /\ discipline = "owned" => creator[t] = c
      /\ t \in Dead \/ joinData[t] = NoThread
    BY LiveRunning DEF join, JoinRefused, InCode, IInv, Live, Exists, MayUse, Detached, Dead
<1>1. Base' /\ Live' = Live
    BY <1>t, ListsSame DEF join, Next
<1>2. /\ UNCHANGED <<discipline, exist_deleted, creator>>
      /\ joining'[c] = t /\ \A u \in Slot : u # c => joining'[u] = joining[u]
    BY <1>t DEF join, TypeOK
<1>3. CASE t \in Dead
    <2>1. Claim(c, t)
        BY <1>3 DEF join, Dead
    <2> QED
        BY <1>0, <1>1, <1>2, <1>3, <1>t, <2>1, ClaimStep DEF IInv
<1>4. CASE t \notin Dead
    <2>1. /\ joinData' = [joinData EXCEPT ![t] = c]
          /\ flags' = [flags EXCEPT ![c] = @ \union {"WAIT_JOIN"}]
          /\ inside' = [inside EXCEPT ![c] = "join"]
        BY <1>4 DEF join, Dead
    <2>2. Dead' = Dead /\ Detached' = Detached /\ Asleep' = Asleep \union {c}
        <3>f. flags \in [Slot -> SUBSET Flags] /\ "WAIT_JOIN" \in Flags
            BY <1>t DEF TypeOK, Flags
        <3>1. \A u \in Slot : \A y : y \in flags'[u] <=> y \in flags[u] \/ (u = c /\ y = "WAIT_JOIN")
            BY <3>f, <2>1, FlagAdded
        <3> QED
            BY <3>1 DEF Dead, Detached, Asleep
    <2>3. /\ joinData'[t] = c /\ inside'[c] = "join"
          /\ \A u \in Slot : /\ u # t => joinData'[u] = joinData[u]
                             /\ u # c => inside'[u] = inside[u]
        BY <2>1, <1>t DEF TypeOK
    <2>4. DeadInCode' /\ ResultOfDead' /\ DeadHasResult'
        BY <1>0, <1>1, <1>4, <1>t, <2>2, <2>3, SlotAssumption
           DEF Threads, DeadInCode, ResultOfDead, DeadHasResult
    <2>5. FreedSoon'
        BY <1>0, <1>1, <1>2, <1>t, <2>2, <2>3 DEF Threads, FreedSoon
    <2>6. JoinerKept'
        BY <1>0, <1>1, <1>2, <1>t, <2>2, <2>3 DEF Threads, JoinerKept
    <2>7. SleeperInJoin'
        BY <1>0, <1>1, <1>t, <2>2, <2>3 DEF Threads, SleeperInJoin
    <2>8. OwnerKnown'
        BY <1>0, <1>1, <1>2, <1>t, <2>2, <2>3 DEF Threads, OwnerKnown
    <2>9. OwnerWoken'
        BY <1>0, <1>1, <1>2, <1>4, <1>t, <2>2, <2>3 DEF Threads, OwnerWoken
    <2> QED
        BY <1>1, <2>4, <2>5, <2>6, <2>7, <2>8, <2>9 DEF IInv, Threads
<1> QED
    BY <1>3, <1>4

LEMMA ResumeStep ==
    ASSUME IInv, NEW c \in Slot, joinResumes(c)
    PROVE  IInv'
<1> DEFINE t == joining[c]
<1>t. TypeOK /\ ListsWell /\ Threads /\ Base
    BY DEF IInv, Base
<1>0. /\ c \in Live /\ c \notin Dead /\ c \notin Asleep /\ inside[c] = "join" /\ Live \subseteq Slot
    BY LiveRunning DEF joinResumes, IInv, Live
<1>1. Base' /\ Live' = Live
    BY <1>t, ListsSame DEF joinResumes, Next
<1>2. UNCHANGED <<discipline, exist_deleted, creator>>
    BY DEF joinResumes
<1>3. CASE ~Exists(t) \/ "DETACHED" \in flags[t]
    <2>1. /\ inside' = [inside EXCEPT ![c] = "code"]
          /\ joining' = [joining EXCEPT ![c] = NoThread]
          /\ UNCHANGED <<flags, joinData>>
        BY <1>3 DEF joinResumes
    <2>2. Dead' = Dead /\ Detached' = Detached /\ Asleep' = Asleep
        BY <2>1, FlagSetsSame
    <2>3. /\ inside'[c] = "code" /\ joinData' = joinData
          /\ \A u \in Slot : u # c => inside'[u] = inside[u] /\ joining'[u] = joining[u]
        BY <2>1, <1>t DEF TypeOK
    <2>4. t \in Live => t \in Detached
        BY <1>3 DEF Exists, Deleted, Live, Detached
    <2>5. DeadInCode' /\ ResultOfDead' /\ DeadHasResult'
        BY <1>0, <1>1, <1>t, <2>2, <2>3 DEF Threads, DeadInCode, ResultOfDead, DeadHasResult
    <2>6. FreedSoon'
        BY <1>0, <1>1, <1>2, <1>t, <2>2, <2>3 DEF Threads, FreedSoon
    <2>7. JoinerKept'
        BY <1>0, <1>1, <1>2, <1>t, <2>2, <2>3, <2>4 DEF Threads, JoinerKept
    <2>8. SleeperInJoin'
        BY <1>0, <1>1, <1>t, <2>2, <2>3 DEF Threads, SleeperInJoin
    <2>9. OwnerKnown'
        BY <1>0, <1>1, <1>2, <1>t, <2>2, <2>3 DEF Threads, OwnerKnown
    <2>10. OwnerWoken'
        BY <1>0, <1>1, <1>2, <1>t, <2>2, <2>3 DEF Threads, OwnerWoken
    <2> QED
        BY <1>1, <2>5, <2>6, <2>7, <2>8, <2>9, <2>10 DEF IInv, Threads
<1>4. CASE Exists(t) /\ "DETACHED" \notin flags[t]
    <2>1. t \in Live /\ t \notin Detached /\ t \in Slot
        BY <1>4, <1>t, ListedSlot DEF Exists, Live, Detached
    <2>2. UNCHANGED joining
        BY <1>4 DEF joinResumes
    <2>3. CASE t \in Dead
        <3>1. Claim(c, t)
            BY <1>4, <2>3 DEF joinResumes, MayComplete, Dead
        <3>2. discipline = "owned" => creator[t] = c
            BY <1>0, <1>t DEF Threads, OwnerKnown
        <3>3. joining'[c] = t /\ \A u \in Slot : u # c => joining'[u] = joining[u]
            BY <2>2
        <3> HIDE DEF t
        <3>4. inside[c] = "join" /\ joining[c] = t
            BY <1>0 DEF t
        <3> QED
            BY <1>0, <1>1, <1>2, <1>t, <2>1, <2>3, <3>1, <3>2, <3>3, <3>4, ClaimStep DEF IInv
    <2>4. CASE t \notin Dead
        <3>1. /\ flags' = [flags EXCEPT ![c] = @ \union {"WAIT_JOIN"}]
              /\ UNCHANGED <<inside, joinData>>
            BY <1>4, <2>1, <2>4 DEF joinResumes, MayComplete, Dead
        <3>2. Dead' = Dead /\ Detached' = Detached /\ Asleep' = Asleep \union {c}
            <4>f. flags \in [Slot -> SUBSET Flags] /\ "WAIT_JOIN" \in Flags
                BY <1>t DEF TypeOK, Flags
            <4>1. \A u \in Slot : \A y : y \in flags'[u] <=> y \in flags[u] \/ (u = c /\ y = "WAIT_JOIN")
                BY <4>f, <3>1, FlagAdded
            <4> QED
                BY <4>1 DEF Dead, Detached, Asleep
        <3>3. DeadInCode' /\ ResultOfDead' /\ DeadHasResult' /\ FreedSoon' /\ JoinerKept'
            BY <1>1, <1>2, <1>t, <2>2, <3>1, <3>2
               DEF Threads, DeadInCode, ResultOfDead, DeadHasResult, FreedSoon, JoinerKept
        <3>4. SleeperInJoin' /\ OwnerKnown' /\ OwnerWoken'
            BY <1>0, <1>1, <1>2, <1>t, <2>2, <2>4, <3>1, <3>2
               DEF Threads, SleeperInJoin, OwnerKnown, OwnerWoken
        <3> QED
            BY <1>1, <3>3, <3>4 DEF IInv, Threads
    <2> QED
        BY <2>3, <2>4
<1> QED
    BY <1>3, <1>4

-----------------------------------------------------------------------------
LEMMA InitInvariant == Init => IInv
<1> SUFFICES ASSUME Init PROVE IInv
    OBVIOUS
<1> USE SlotAssumption, PriorityAssumption, BirthAssumption
<1>1. /\ thread_list \in [Priority -> Seq(Slot)] /\ MainPriority \in Priority
      /\ \A p \in Priority : /\ p = MainPriority => thread_list[p] = <<Main>>
                             /\ p # MainPriority => thread_list[p] = <<>>
    BY DEF Init, Priority
<1>2. TypeOK
    <2>1. flags \in [Slot -> SUBSET {"WAIT", "WAIT_JOIN", "DELETED", "DETACHED"}]
        BY DEF Init
    <2>2. /\ prio \in [Slot -> Priority] /\ creator \in [Slot -> Slot \union {NoThread}]
          /\ joinData \in [Slot -> Slot \union {NoThread, "result"}]
          /\ inside \in [Slot -> {"code", "join", "reap"}] /\ joining \in [Slot -> Slot \union {NoThread}]
        BY <1>1 DEF Init
    <2>3. births \in [Slot -> 0 .. MaxBirths] /\ awaited \in [Slot -> 0 .. MaxBirths]
        <3>1. 0 \in 0 .. MaxBirths /\ 1 \in 0 .. MaxBirths
            OBVIOUS
        <3> QED
            BY <3>1 DEF Init
    <2> QED
        BY <1>1, <2>1, <2>2, <2>3 DEF Init, TypeOK
<1>3. ListsWell
    <2>1. ASSUME NEW p \in Priority
          PROVE  IsInjective(thread_list[p]) /\ \A u : Contains(thread_list[p], u) => prio[u] = p
        <3>1. CASE p = MainPriority
            <4>1. thread_list[p] = <<Main>> /\ prio[Main] = p
                BY <1>1, <3>1 DEF Init
            <4> QED
                BY <4>1 DEF IsInjective, Contains
        <3>2. CASE p # MainPriority
            <4>1. thread_list[p] = <<>>
                BY <1>1, <3>2
            <4> QED
                BY <4>1 DEF IsInjective, Contains
        <3> QED
            BY <3>1, <3>2
    <2> QED
        BY <1>1, <2>1 DEF ListsWell
<1>4. CurInv /\ Dead = {} /\ Asleep = {} /\ \A u \in Slot : inside[u] = "code" /\ joinData[u] = NoThread
    BY DEF Init, CurInv, Dead, Asleep
<1>5. Threads
    <2>1. Live \subseteq Slot
        BY DEF Live
    <2> QED
        BY <1>4, <2>1 DEF Threads, DeadInCode, ResultOfDead, DeadHasResult, FreedSoon, JoinerKept,
            SleeperInJoin, OwnerKnown, OwnerWoken
<1> QED
    BY <1>2, <1>3, <1>4, <1>5 DEF IInv, Base

LEMMA StepInvariant == IInv /\ [Next]_vars => IInv'
<1> SUFFICES ASSUME IInv, [Next]_vars PROVE IInv'
    OBVIOUS
<1>1. CASE Switch
    BY <1>1, SwitchStep
<1>2. CASE IdleThread
    BY <1>2, IdleStep
<1>3. ASSUME NEW c \in Slot, NEW t \in Slot, NEW p \in Requested, NEW o \in {"JOINABLE", "DEFAULT"},
             create(c, t, p, o)
      PROVE  IInv'
    BY <1>3, CreateStep
<1>4. ASSUME NEW c \in Slot, NEW p \in Priority, setPriority(c, p) PROVE IInv'
    BY <1>4, SetPriorityStep
<1>5. ASSUME NEW c \in Slot, wait(c) \/ wakeup(c) PROVE IInv'
    BY <1>5, WaitStep
<1>6. ASSUME NEW c \in Slot, threadReturns(c) PROVE IInv'
    BY <1>6, ReturnStep
<1>7. ASSUME NEW c \in Slot, NEW t \in Slot, detach(c, t) PROVE IInv'
    BY <1>7, DetachStep
<1>8. ASSUME NEW c \in Slot, NEW t \in Slot, join(c, t) PROVE IInv'
    BY <1>8, JoinStep
<1>9. ASSUME NEW c \in Slot, joinResumes(c) PROVE IInv'
    BY <1>9, ResumeStep
<1>10. ASSUME NEW c \in Slot, joinReaps(c) PROVE IInv'
    BY <1>10, ReapStep
<1>11. CASE UNCHANGED vars
    <2>1. UNCHANGED <<discipline, thread_list, cur, exist_deleted, flags, prio, joinData, births,
                      creator, inside, joining, awaited>>
        BY <1>11 DEF vars, dataVars, callVars
    <2>2. Base' /\ Live' = Live
        BY <2>1 DEF IInv, Base, TypeOK, ListsWell, CurInv, Listed, Live
    <2> QED
        BY <2>1, <2>2, FlagSetsSame, ThreadsSame DEF IInv
<1> QED
    BY <1>1, <1>2, <1>3, <1>4, <1>5, <1>6, <1>7, <1>8, <1>9, <1>10, <1>11 DEF Next

(* Lists, flags and the joins under way agree in every reachable state.     *)
THEOREM Invariant == Spec => []IInv
BY InitInvariant, StepInvariant, PTL DEF Spec

(* Every variable keeps its type, whatever the threads, their priorities   *)
(* and the kinds of clients (kernel.h:568-620).                            *)
THEOREM TypeCorrect == Spec => []TypeOK
<1>1. IInv => TypeOK
    BY DEF IInv, Base
<1> QED
    BY <1>1, Invariant, PTL

(* A thread is in the list of its priority, once, and in no other          *)
(* (priority_scheduler.cpp:42-136): what the scheduler, setPriority and    *)
(* the freeing of memory rely on.                                          *)
THEOREM ListsCorrect == Spec => []ListsAgree
<1>1. IInv => ListsAgree
    BY ListsWellAgree DEF IInv, Base, TypeOK
<1> QED
    BY <1>1, Invariant, PTL

(* No memory is freed that the processor or a terminating thread still     *)
(* uses (priority_scheduler.cpp:78-136, kernel.cpp:527-556).               *)
THEOREM MemorySafe == Spec => []NothingFreedInUse
<1>1. IInv => NothingFreedInUse
    <2> SUFFICES ASSUME IInv PROVE NothingFreedInUse
        OBVIOUS
    <2>1. cur = Idle \/ Listed(cur)
        BY DEF IInv, Base, CurInv
    <2>2. ASSUME NEW t \in Slot, Listed(t), flags[t] \intersect {"DELETED", "DETACHED"} = {},
                 joinData[t] # NoThread
          PROVE  Listed(joinData[t]) /\ inside[joinData[t]] = "join" /\ joining[joinData[t]] = t
        <3>1. t \in Live /\ t \notin Dead /\ t \notin Detached
            BY <2>2 DEF Live, Dead, Detached
        <3> QED
            BY <2>2, <3>1 DEF IInv, Threads, JoinerKept, Live
    <2> QED
        BY <2>1, <2>2 DEF NothingFreedInUse
<1> QED
    BY <1>1, Invariant, PTL

(* A terminated and detached thread is freed by the idle thread or by a    *)
(* join under way (kernel.cpp:441-447, 536-556).                           *)
THEOREM NothingLeaks == Spec => []NoLeak
<1>1. IInv => NoLeak
    BY DEF IInv, Threads, FreedSoon, NoLeak, Live, Dead, Detached, Deleted
<1> QED
    BY <1>1, Invariant, PTL

(* When only its creator joins a thread, the creator is not left asleep    *)
(* (kernel.cpp:492-541): the thread it waits for is alive and will wake it.*)
THEOREM OwnersWake == Spec => []OwnerWillBeWoken
<1>1. IInv => OwnerWillBeWoken
    <2> SUFFICES ASSUME IInv, discipline = "owned", NEW c \in Slot, Listed(c), "WAIT_JOIN" \in flags[c]
        PROVE  /\ Exists(joining[c])
               /\ flags[joining[c]] \intersect {"DELETED", "DETACHED"} = {}
               /\ joinData[joining[c]] = c
        BY DEF OwnerWillBeWoken, JoinerWillBeWoken
    <2> DEFINE t == joining[c]
    <2>1. c \in Live /\ c \in Asleep
        BY DEF Live, Asleep
    <2>2. t \in Live /\ t \notin Detached /\ t \notin Dead /\ joinData[t] = c
        BY <2>1 DEF IInv, Threads, SleeperInJoin, OwnerKnown, OwnerWoken
    <2> HIDE DEF t
    <2>3. Exists(t) /\ flags[t] \intersect {"DELETED", "DETACHED"} = {} /\ joinData[t] = c
        BY <2>2 DEF Live, Dead, Detached, Exists, Deleted
    <2> QED
        BY <2>3 DEF t
<1> QED
    BY <1>1, Invariant, PTL

(* A join that succeeds takes the result of a terminated thread that is in *)
(* memory, and takes it for the first time (kernel.cpp:527-541).           *)
THEOREM JoinsTakeResults == Spec => JoinTakesResult
<1> DEFINE A == \A c \in Slot :
                    inside[c] # "reap" /\ inside'[c] = "reap" =>
                        /\ Listed(joining'[c])
                        /\ joinData[joining'[c]] = "result"
                        /\ "DETACHED" \notin flags[joining'[c]]
<1>1. ASSUME IInv, [Next]_vars PROVE [A]_vars
    <2>t. TypeOK /\ ListsWell /\ Threads
        BY <1>1 DEF IInv, Base
    <2>0. ASSUME NEW t \in Slot, Exists(t), "DETACHED" \notin flags[t], "DELETED" \in flags[t]
          PROVE  Listed(t) /\ joinData[t] = "result"
        <3>1. t \in Live /\ t \in Dead /\ t \notin Detached
            BY <2>0 DEF Exists, Live, Dead, Detached
        <3> QED
            BY <3>1, <2>t DEF Threads, DeadHasResult, Live
    <2> SUFFICES ASSUME NEW c \in Slot, inside[c] # "reap", inside'[c] = "reap"
        PROVE  /\ Listed(joining'[c]) /\ joinData[joining'[c]] = "result"
               /\ "DETACHED" \notin flags[joining'[c]]
        OBVIOUS
    <2>1. ASSUME NEW t \in Slot, join(c, t)
          PROVE  joining'[c] = t /\ Exists(t) /\ "DETACHED" \notin flags[t] /\ "DELETED" \in flags[t]
        <3>1. joining'[c] = t /\ Exists(t) /\ "DETACHED" \notin flags[t]
            BY <2>1, <2>t DEF join, JoinRefused, TypeOK
        <3>2. CASE "DELETED" \notin flags[t]
            <4>1. inside' = [inside EXCEPT ![c] = "join"]
                BY <2>1, <3>2 DEF join
            <4> QED
                BY <4>1, <2>t DEF TypeOK
        <3> QED
            BY <3>1, <3>2
    <2>2. ASSUME joinResumes(c)
          PROVE  /\ joining'[c] = joining[c] /\ Exists(joining[c]) /\ joining[c] \in Slot
                 /\ "DETACHED" \notin flags[joining[c]] /\ "DELETED" \in flags[joining[c]]
        <3>1. CASE ~Exists(joining[c]) \/ "DETACHED" \in flags[joining[c]]
            <4>1. inside' = [inside EXCEPT ![c] = "code"]
                BY <2>2, <3>1 DEF joinResumes
            <4> QED
                BY <4>1, <2>t DEF TypeOK
        <3>2. CASE Exists(joining[c]) /\ "DETACHED" \notin flags[joining[c]]
            <4>1. MayComplete(joining[c]) \/ inside' = inside
                BY <2>2, <3>2 DEF joinResumes
            <4>2. joining' = joining
                BY <2>2, <3>2 DEF joinResumes
            <4>3. joining[c] \in Slot
                BY <3>2, <2>t, ListedSlot DEF Exists
            <4> QED
                BY <3>2, <4>1, <4>2, <4>3 DEF MayComplete
        <3> QED
            BY <3>1, <3>2
    <2>3. ASSUME NEW d \in Slot, NEW t \in Slot, join(d, t), d # c PROVE FALSE
        <3>1. inside' = [inside EXCEPT ![d] = "reap"] \/ inside' = [inside EXCEPT ![d] = "join"]
            BY <2>3 DEF join, Claim
        <3> QED
            BY <2>3, <3>1, <2>t DEF TypeOK
    <2>4. ASSUME NEW d \in Slot, joinResumes(d), d # c PROVE FALSE
        <3>1. \/ inside' = [inside EXCEPT ![d] = "reap"] \/ inside' = inside
              \/ inside' = [inside EXCEPT ![d] = "code"]
            BY <2>4 DEF joinResumes, Claim
        <3> QED
            BY <2>4, <3>1, <2>t DEF TypeOK
    <2>5. ASSUME \/ Switch \/ IdleThread \/ UNCHANGED vars
                 \/ \E d \in Slot :
                      \/ \E t \in Slot, p \in Requested, o \in {"JOINABLE", "DEFAULT"} : create(d, t, p, o)
                      \/ \E p \in Priority : setPriority(d, p)
                      \/ wait(d) \/ wakeup(d) \/ threadReturns(d) \/ joinReaps(d)
                      \/ \E t \in Slot : detach(d, t)
          PROVE  FALSE
        <3>1. inside' = inside \/ \E d \in Slot : inside' = [inside EXCEPT ![d] = "code"]
            BY <2>5 DEF Switch, IdleThread, vars, create, setPriority, wait, wakeup, threadReturns,
                joinReaps, detach, callVars
        <3> QED
            BY <3>1, <2>t DEF TypeOK
    <2>6. \E d \in Slot : (\E t \in Slot : join(d, t)) \/ joinResumes(d)
        BY <1>1, <2>5, Zenon DEF Next
    <2>7. CASE \E d \in Slot : \E t \in Slot : join(d, t)
        <3>1. PICK d \in Slot, t \in Slot : join(d, t)
            BY <2>7
        <3>2. d = c
            BY <3>1, <2>3
        <3>3. joining'[c] = t /\ Exists(t) /\ "DETACHED" \notin flags[t] /\ "DELETED" \in flags[t]
            BY <3>1, <3>2, <2>1
        <3> QED
            BY <3>3, <2>0
    <2>8. CASE joinResumes(c)
        BY <2>8, <2>2, <2>0
    <2> QED
        BY <2>4, <2>6, <2>7, <2>8
<1> QED
    BY <1>1, Invariant, PTL DEF Spec, JoinTakesResult

-----------------------------------------------------------------------------
(* The scheduler of the deadlines, in a kernel that is built with it.      *)
AnyThread == Slot \union {Idle}
EdfFlags == {"WAIT", "SLEEP", "DELETED_JOIN", "DELETED"}
Ordered(l, d) == \A i, j \in DOMAIN l : i < j => d[l[i]] <= d[l[j]]

EdfTypes ==
    /\ list \in Seq(AnyThread)
    /\ deadline \in [AnyThread -> Int]
    /\ edfFlags \in [AnyThread -> SUBSET EdfFlags]
    /\ edfAt \in [Slot -> {"code", "yield", "reap"}]
    /\ edfPaused \in BOOLEAN /\ edfSkew \in BOOLEAN

EdfList ==
    /\ Ordered(list, deadline) /\ IsInjective(list)
    /\ Contains(list, edfCur) /\ Contains(list, Idle) /\ edfFlags[Idle] = {}

(* FirstRuns holds also while the kernel is paused, until a tick comes,    *)
(* after which restartKernel yields: that makes it inductive.              *)
NobodyCloser ==
    \A t : Contains(list, t) /\ edfFlags[t] = {} /\ t \notin overlooked => deadline[edfCur] <= deadline[t]

Closest ==
    /\ edfSkew => edfPaused
    /\ ~edfSkew /\ (edfCur = Idle \/ edfAt[edfCur] # "yield") => NobodyCloser

EdfInv == EdfTypes /\ EdfList /\ Closest

-----------------------------------------------------------------------------
(* Where add puts a thread.                                                *)
LEMMA Piece ==
    ASSUME NEW T, NEW s \in Seq(T), NEW i \in Int, NEW j \in Int, 1 <= i, i <= j + 1, j <= Len(s)
    PROVE  /\ SubSeq(s, i, j) \in Seq(T) /\ Len(SubSeq(s, i, j)) = j - i + 1
           /\ \A x \in 1 .. Len(SubSeq(s, i, j)) : SubSeq(s, i, j)[x] = s[x + i - 1]
BY SMTT(30)

LEMMA InsertedList ==
    ASSUME NEW T, NEW s \in Seq(T), NEW t \in T, NEW i \in 1 .. Len(s) + 1
    PROVE  /\ InsertAt(s, i, t) \in Seq(T) /\ Len(InsertAt(s, i, t)) = Len(s) + 1
           /\ \A x \in 1 .. Len(s) + 1 :
                InsertAt(s, i, t)[x] = IF x < i THEN s[x] ELSE IF x = i THEN t ELSE s[x - 1]
<1> DEFINE a == SubSeq(s, 1, i - 1)
           b == SubSeq(s, i, Len(s))
           c == a \o <<t>>
           l == c \o b
<1>1. Len(s) \in Nat /\ i \in Nat /\ 1 <= i /\ i <= Len(s) + 1
    OBVIOUS
<1>2. a \in Seq(T) /\ Len(a) = i - 1 /\ \A x \in 1 .. i - 1 : a[x] = s[x]
    <2>1. 1 \in Int /\ i - 1 \in Int /\ 1 <= 1 /\ 1 <= (i - 1) + 1 /\ i - 1 <= Len(s)
        BY <1>1
    <2>2. a \in Seq(T) /\ Len(a) = (i - 1) - 1 + 1 /\ \A x \in 1 .. Len(a) : a[x] = s[x + 1 - 1]
        BY <2>1, Piece
    <2> HIDE DEF a
    <2> QED
        BY <1>1, <2>2
<1>3. b \in Seq(T) /\ Len(b) = Len(s) - i + 1 /\ \A x \in 1 .. Len(s) - i + 1 : b[x] = s[x + i - 1]
    <2>1. i \in Int /\ Len(s) \in Int /\ Len(s) <= Len(s)
        BY <1>1
    <2>2. b \in Seq(T) /\ Len(b) = Len(s) - i + 1 /\ \A x \in 1 .. Len(b) : b[x] = s[x + i - 1]
        BY <1>1, <2>1, Piece
    <2> HIDE DEF b
    <2> QED
        BY <1>1, <2>2
<1> HIDE DEF a, b
<1>4. <<t>> \in Seq(T) /\ Len(<<t>>) = 1 /\ <<t>>[1] = t
    OBVIOUS
<1>5. c \in Seq(T) /\ Len(c) = i /\ \A x \in 1 .. i : c[x] = IF x < i THEN s[x] ELSE t
    <2> DEFINE o == <<t>>
    <2>1. o \in Seq(T) /\ Len(o) = 1 /\ o[1] = t
        BY <1>4
    <2> HIDE DEF o
    <2>2. /\ a \o o \in Seq(T) /\ Len(a \o o) = Len(a) + Len(o)
          /\ \A x \in 1 .. Len(a \o o) : (a \o o)[x] = IF x <= Len(a) THEN a[x] ELSE o[x - Len(a)]
        BY <1>2, <2>1, Concatenation
    <2>3. c = a \o o
        BY DEF o
    <2> HIDE DEF c
    <2>4. c \in Seq(T) /\ Len(c) = i /\ \A x \in 1 .. i : c[x] = IF x <= i - 1 THEN a[x] ELSE o[x - (i - 1)]
        BY <1>1, <1>2, <2>1, <2>2, <2>3
    <2>5. \A x \in 1 .. i : (x < i => x \in 1 .. i - 1) /\ (~(x < i) => x - (i - 1) = 1)
        BY <1>1
    <2> QED
        BY <1>1, <1>2, <2>1, <2>4, <2>5
<1> HIDE DEF c
<1>6. /\ l \in Seq(T) /\ Len(l) = Len(s) + 1
      /\ \A x \in 1 .. Len(s) + 1 : l[x] = IF x <= i THEN c[x] ELSE b[x - i]
    <2>1. /\ l \in Seq(T) /\ Len(l) = Len(c) + Len(b)
          /\ \A x \in 1 .. Len(l) : l[x] = IF x <= Len(c) THEN c[x] ELSE b[x - Len(c)]
        BY <1>3, <1>5, Concatenation
    <2> HIDE DEF l
    <2>2. Len(l) = Len(s) + 1
        BY <1>1, <1>3, <1>5, <2>1
    <2> QED
        BY <1>5, <2>1, <2>2
<1> HIDE DEF l
<1>7. \A x \in 1 .. Len(s) + 1 : l[x] = IF x < i THEN s[x] ELSE IF x = i THEN t ELSE s[x - 1]
    <2> TAKE x \in 1 .. Len(s) + 1
    <2>1. CASE x <= i
        BY <1>1, <1>5, <1>6, <2>1
    <2>2. CASE ~(x <= i)
        <3>1. x - i \in 1 .. Len(s) - i + 1 /\ (x - i) + i - 1 = x - 1
            BY <1>1, <2>2
        <3>2. b[x - i] = s[x - 1]
            BY <1>3, <3>1
        <3> QED
            BY <1>1, <1>6, <2>2, <3>2
    <2> QED
        BY <2>1, <2>2
<1>8. InsertAt(s, i, t) = l
    BY DEF InsertAt, l, c, a, b
<1> QED
    BY <1>6, <1>7, <1>8

LEMMA BehindIs ==
    ASSUME NEW T, NEW l \in Seq(T), NEW d \in [T -> Int], NEW x \in Int
    PROVE  LET i == EDF!Behind(l, x, d)
           IN  /\ i \in 1 .. Len(l) + 1
               /\ \A j \in 1 .. i - 1 : d[l[j]] < x
               /\ i <= Len(l) => d[l[i]] >= x
<1> DEFINE n == Len(l)
           S == {i \in 1 .. n + 1 : i = n + 1 \/ d[l[i]] >= x}
           Here(i) == (\A j \in 1 .. i - 1 : d[l[j]] < x) /\ (i <= n => d[l[i]] >= x)
           p == CHOOSE i \in 1 .. n + 1 : Here(i)
<1>1. n \in Nat /\ \A i \in 1 .. n : d[l[i]] \in Int
    OBVIOUS
<1>p. EDF!Behind(l, x, d) = p
    BY DEF EDF!Behind
<1> HIDE DEF n
<1>2. n + 1 \in Nat /\ S \in SUBSET (0 .. n + 1) /\ n + 1 \in S
    BY <1>1
<1>3. PICK i \in S : \A j \in S : i <= j
    BY <1>2, LeastExists
<1>4. \A j \in 1 .. i - 1 : d[l[j]] < x
    <2> TAKE j \in 1 .. i - 1
    <2>1. i \in 1 .. n + 1 /\ j \in 1 .. n
        BY <1>1, <1>3
    <2>2. j \notin S
        BY <1>1, <1>3, <2>1
    <2> QED
        BY <1>1, <2>1, <2>2
<1>5. i \in 1 .. n + 1 /\ (i <= n => d[l[i]] >= x)
    BY <1>1, <1>3
<1>6. Here(i)
    BY <1>4, <1>5
<1> HIDE DEF Here
<1>7. p \in 1 .. n + 1 /\ Here(p)
    BY <1>5, <1>6
<1> QED
    BY <1>p, <1>7 DEF Here, n

LEMMA AddedList ==
    ASSUME NEW T, NEW l \in Seq(T), NEW d \in [T -> Int], NEW t \in T,
           IsInjective(l), Ordered(l, d), ~Contains(l, t)
    PROVE  LET r == EDF!Add(l, t, d)
           IN  /\ r \in Seq(T) /\ IsInjective(r) /\ Ordered(r, d)
               /\ \A u : Contains(r, u) <=> Contains(l, u) \/ u = t
<1> DEFINE n == Len(l)
           p == EDF!Behind(l, d[t], d)
           r == EDF!Add(l, t, d)
<1>1. n \in Nat /\ DOMAIN l = 1 .. n /\ d[t] \in Int /\ \A i \in 1 .. n : d[l[i]] \in Int
    OBVIOUS
<1>2. p \in 1 .. n + 1 /\ (\A j \in 1 .. p - 1 : d[l[j]] < d[t]) /\ (p <= n => d[l[p]] >= d[t])
    BY <1>1, BehindIs
<1>3. r = InsertAt(l, p, t)
    BY DEF EDF!Add, EDF!InsertAt, InsertAt
<1> HIDE DEF p, r
<1>4. /\ r \in Seq(T) /\ Len(r) = n + 1
      /\ \A x \in 1 .. n + 1 : r[x] = IF x < p THEN l[x] ELSE IF x = p THEN t ELSE l[x - 1]
    <2>1. p \in 1 .. Len(l) + 1
        BY <1>2
    <2> QED
        <3>1. /\ InsertAt(l, p, t) \in Seq(T) /\ Len(InsertAt(l, p, t)) = Len(l) + 1
              /\ \A x \in 1 .. Len(l) + 1 :
                    InsertAt(l, p, t)[x] = IF x < p THEN l[x] ELSE IF x = p THEN t ELSE l[x - 1]
            BY <2>1, InsertedList
        <3> QED
            BY <1>3, <3>1
<1> HIDE DEF n
<1>5. DOMAIN r = 1 .. n + 1
    BY <1>4
<1>6. /\ \A i, j \in 1 .. n : l[i] = l[j] => i = j
      /\ \A i \in 1 .. n : l[i] # t
      /\ \A i, j \in 1 .. n : i < j => d[l[i]] <= d[l[j]]
    BY <1>1 DEF IsInjective, Contains, Ordered, n
<1> DEFINE from(x) == IF x < p THEN x ELSE x - 1
<1>7. /\ \A x \in 1 .. n + 1 : x # p => from(x) \in 1 .. n /\ r[x] = l[from(x)]
      /\ \A x, y \in 1 .. n + 1 : x # p /\ y # p /\ x < y => from(x) < from(y)
      /\ \A x \in 1 .. n + 1 : (x < p => from(x) < p) /\ (x > p => from(x) >= p)
      /\ r[p] = t
    BY <1>1, <1>2, <1>4
<1> HIDE DEF from
<1>8. IsInjective(r)
    <2>1. SUFFICES ASSUME NEW x \in 1 .. n + 1, NEW y \in 1 .. n + 1, x < y, r[x] = r[y] PROVE FALSE
        BY <1>1, <1>5 DEF IsInjective
    <2>2. CASE x # p /\ y # p
        <3>1. from(x) < from(y) /\ from(x) \in 1 .. n /\ from(y) \in 1 .. n /\ l[from(x)] = l[from(y)]
            BY <1>7, <2>1, <2>2
        <3>2. from(x) = from(y)
            BY <1>6, <3>1
        <3> QED
            BY <3>1, <3>2
    <2>3. CASE x = p
        <3>1. y # p
            BY <2>1, <2>3
        <3> QED
            BY <1>6, <1>7, <2>1, <2>3, <3>1
    <2>4. CASE y = p
        <3>1. x # p
            BY <2>1, <2>4
        <3> QED
            BY <1>6, <1>7, <2>1, <2>4, <3>1
    <2> QED
        BY <2>2, <2>3, <2>4
<1>9. Ordered(r, d)
    <2>1. SUFFICES ASSUME NEW x \in 1 .. n + 1, NEW y \in 1 .. n + 1, x < y PROVE d[r[x]] <= d[r[y]]
        BY <1>5 DEF Ordered
    <2>2. CASE x # p /\ y # p
        BY <1>6, <1>7, <2>1, <2>2
    <2>3. CASE x = p
        <3>1. y > p /\ y # p /\ p <= n
            BY <1>1, <1>2, <2>1, <2>3
        <3>2. from(y) \in 1 .. n /\ from(y) >= p /\ r[y] = l[from(y)] /\ r[x] = t
            BY <1>7, <2>3, <3>1
        <3>3. p \in 1 .. n /\ (p = from(y) \/ p < from(y))
            BY <1>1, <1>2, <3>1, <3>2
        <3>4. d[l[p]] <= d[l[from(y)]]
            BY <1>1, <1>6, <3>2, <3>3
        <3> QED
            BY <1>1, <1>2, <3>1, <3>2, <3>3, <3>4
    <2>4. CASE y = p
        <3>1. x < p /\ x # p /\ x \in 1 .. n
            BY <1>1, <1>2, <2>1, <2>4
        <3>2. from(x) \in 1 .. n /\ from(x) < p /\ r[x] = l[from(x)] /\ r[y] = t
            BY <1>7, <2>4, <3>1
        <3>3. from(x) \in 1 .. p - 1
            BY <1>2, <3>2
        <3> QED
            BY <1>1, <1>2, <3>2, <3>3
    <2> QED
        BY <2>2, <2>3, <2>4
<1>10. \A u : Contains(r, u) <=> Contains(l, u) \/ u = t
    <2> TAKE u
    <2>1. ASSUME Contains(r, u) PROVE Contains(l, u) \/ u = t
        <3>1. PICK x \in 1 .. n + 1 : r[x] = u
            BY <1>4, <2>1 DEF Contains
        <3> QED
            BY <1>7, <3>1 DEF Contains, n
    <2>2. ASSUME Contains(l, u) PROVE Contains(r, u)
        <3>1. PICK x \in 1 .. n : l[x] = u
            BY <2>2 DEF Contains, n
        <3>2. CASE x < p
            <4>1. x \in 1 .. n + 1 /\ r[x] = u
                BY <1>1, <1>4, <3>1, <3>2
            <4> QED
                BY <1>4, <4>1 DEF Contains
        <3>3. CASE ~(x < p)
            <4>1. x + 1 \in 1 .. n + 1 /\ ~(x + 1 < p) /\ x + 1 # p /\ (x + 1) - 1 = x
                BY <1>1, <1>2, <3>1, <3>3
            <4>2. r[x + 1] = u
                BY <1>4, <3>1, <4>1
            <4> QED
                BY <1>4, <4>1, <4>2 DEF Contains
        <3> QED
            BY <3>2, <3>3
    <2>3. Contains(r, t)
        BY <1>2, <1>4, <1>7 DEF Contains
    <2> QED
        BY <2>1, <2>2, <2>3
<1> QED
    BY <1>4, <1>8, <1>9, <1>10 DEF r

(* Taking elements out of an ordered list leaves it ordered.               *)
LEMMA OrderKept ==
    ASSUME NEW T, NEW l \in Seq(T), NEW S, S \subseteq DOMAIN l, NEW d, Ordered(l, d)
    PROVE  Ordered(Keeping(l, S), d)
<1> DEFINE r == Keeping(l, S)
<1>1. \A i, j \in DOMAIN r : i < j => \E a, b \in DOMAIN l : a < b /\ r[i] = l[a] /\ r[j] = l[b]
    BY KeepingList
<1> HIDE DEF r
<1>2. Ordered(r, d)
    BY <1>1 DEF Ordered
<1> QED
    BY <1>2 DEF r

(* Who is the next to run.                                                 *)
LEMMA FirstIs ==
    ASSUME list \in Seq(AnyThread), deadline \in [AnyThread -> Int], Ordered(list, deadline),
           Contains(list, Idle), edfFlags'[Idle] = {}
    PROVE  /\ Contains(list, EDF!First)
           /\ \A t : Contains(list, t) /\ edfFlags'[t] = {} => deadline[EDF!First] <= deadline[t]
<1> DEFINE n == Len(list)
           S == {i \in 1 .. n : edfFlags'[list[i]] = {}}
           Here(i) == edfFlags'[list[i]] = {} /\ \A j \in 1 .. i - 1 : edfFlags'[list[j]] # {}
           p == CHOOSE i \in 1 .. n : Here(i)
<1>1. n \in Nat /\ DOMAIN list = 1 .. n /\ \A i \in 1 .. n : deadline[list[i]] \in Int
    OBVIOUS
<1>2. EDF!First = list[p]
    BY <1>1 DEF EDF!First
<1> HIDE DEF n
<1>3. S \in SUBSET (0 .. n) /\ S # {}
    <2>1. PICK i \in 1 .. n : list[i] = Idle
        BY DEF Contains, n
    <2> QED
        BY <1>1, <2>1
<1>4. PICK i \in S : \A j \in S : i <= j
    BY <1>1, <1>3, LeastExists
<1>5. \A j \in 1 .. i - 1 : edfFlags'[list[j]] # {}
    <2> TAKE j \in 1 .. i - 1
    <2>1. j \in 1 .. n /\ ~(i <= j)
        BY <1>1, <1>4
    <2> QED
        BY <1>4, <2>1
<1>6. i \in 1 .. n /\ Here(i)
    BY <1>4, <1>5
<1> HIDE DEF Here
<1>7. p \in 1 .. n /\ Here(p)
    BY <1>6
<1> HIDE DEF p
<1>8. ASSUME NEW t, Contains(list, t), edfFlags'[t] = {}
      PROVE  deadline[list[p]] <= deadline[t]
    <2>1. PICK j \in 1 .. n : list[j] = t
        BY <1>8 DEF Contains, n
    <2>2. ~(j < p)
        BY <1>1, <1>7, <1>8, <2>1 DEF Here
    <2>3. j = p \/ p < j
        BY <1>1, <1>7, <2>1, <2>2
    <2>4. CASE j = p
        BY <1>1, <2>1, <2>4
    <2>5. CASE p < j
        BY <1>1, <1>7, <2>1, <2>5 DEF Ordered
    <2> QED
        BY <2>3, <2>4, <2>5
<1>9. Contains(list, list[p])
    BY <1>7 DEF Contains, n
<1> QED
    BY <1>2, <1>8, <1>9

LEMMA FindNextInv ==
    ASSUME EdfInv, EDF!FindNext, UNCHANGED <<list, deadline, edfPaused>>,
           edfFlags'[Idle] = {}, edfAt' \in [Slot -> {"code", "yield", "reap"}],
           edfFlags' \in [AnyThread -> SUBSET EdfFlags], edfSkew' \in BOOLEAN,
           edfSkew' => edfPaused,
           edfPaused => /\ edfSkew' \/ (edfFlags' = edfFlags /\ edfSkew' = edfSkew /\ edfAt' = edfAt)
    PROVE  EdfInv'
<1>1. CASE edfPaused
    <2>1. edfCur' = edfCur /\ overlooked' = overlooked
        BY <1>1 DEF EDF!FindNext
    <2>2. EdfTypes' /\ EdfList'
        BY <2>1 DEF EdfInv, EdfTypes, EdfList, Ordered
    <2>3. Closest'
        BY <1>1, <2>1 DEF EdfInv, Closest, NobodyCloser
    <2> QED
        BY <2>2, <2>3 DEF EdfInv
<1>2. CASE ~edfPaused
    <2>1. edfCur' = EDF!First
        BY <1>2 DEF EDF!FindNext
    <2>2. /\ list \in Seq(AnyThread) /\ deadline \in [AnyThread -> Int] /\ Ordered(list, deadline)
          /\ Contains(list, Idle)
        BY DEF EdfInv, EdfTypes, EdfList
    <2>3. /\ Contains(list, edfCur')
          /\ \A t : Contains(list, t) /\ edfFlags'[t] = {} => deadline[edfCur'] <= deadline[t]
        BY <2>1, <2>2, FirstIs
    <2>4. EdfTypes'
        BY <2>1 DEF EdfInv, EdfTypes
    <2>5. EdfList'
        BY <2>3 DEF EdfInv, EdfList, Ordered
    <2>6. Closest'
        BY <1>2, <2>3 DEF Closest, NobodyCloser
    <2> QED
        BY <2>4, <2>5, <2>6 DEF EdfInv
<1> QED
    BY <1>1, <1>2

(* A step that leaves the list, the deadlines and the running thread alone *)
(* keeps the rest if the types do.                                         *)
LEMMA ListStays ==
    ASSUME EdfInv, UNCHANGED <<list, deadline, edfCur>>, edfFlags'[Idle] = {}
    PROVE  EdfList'
BY DEF EdfInv, EdfList, Ordered

-----------------------------------------------------------------------------
(* The operations.                                                         *)
LEMMA EdfCode ==
    ASSUME EdfInv, NEW c \in Slot, EDF!InCode(c)
    PROVE  edfCur = c /\ edfAt[c] = "code" /\ edfFlags[c] = {} /\ c # Idle /\ Contains(list, c)
BY SlotAssumption DEF EDF!InCode, EDF!Ready, EdfInv, EdfList

LEMMA EdfCreateStep ==
    ASSUME EdfInv, NEW c \in Slot, NEW t \in Slot, NEW d \in EDF!Requested, MaxDeadline \in Nat,
           EDF!create(c, t, d)
    PROVE  EdfInv'
<1>1. /\ edfCur = c /\ edfAt[c] = "code" /\ edfFlags[c] = {} /\ c # Idle /\ Contains(list, c)
      /\ d \in Int /\ ~Contains(list, t) /\ t # Idle /\ t # c
    <2>1. edfCur = c /\ edfAt[c] = "code" /\ edfFlags[c] = {} /\ c # Idle /\ Contains(list, c)
        BY EdfCode DEF EDF!create
    <2>2. d \in Int
        BY DEF EDF!Requested
    <2>3. ~Contains(list, t)
        BY DEF EDF!create, EDF!Listed, EDF!Contains, Contains
    <2> QED
        BY <2>1, <2>2, <2>3, SlotAssumption
<1>2. /\ deadline' = [deadline EXCEPT ![t] = d] /\ list' = EDF!Add(list, t, deadline')
      /\ edfFlags' = [edfFlags EXCEPT ![t] = {}]
      /\ edfAt' = [edfAt EXCEPT ![c] = IF edfPaused THEN "code" ELSE "yield", ![t] = "code"]
      /\ overlooked' = overlooked \union IF edfPaused /\ d < deadline[c] THEN {t} ELSE {}
      /\ UNCHANGED <<edfCur, edfPaused, edfSkew>>
    BY DEF EDF!create
<1>3. /\ list \in Seq(AnyThread) /\ deadline \in [AnyThread -> Int] /\ t \in AnyThread /\ c \in AnyThread
      /\ edfAt \in [Slot -> {"code", "yield", "reap"}] /\ edfFlags \in [AnyThread -> SUBSET EdfFlags]
      /\ Ordered(list, deadline) /\ IsInjective(list) /\ Contains(list, Idle) /\ edfFlags[Idle] = {}
      /\ \A u : Contains(list, u) => u \in AnyThread
    <2>1. /\ list \in Seq(AnyThread) /\ deadline \in [AnyThread -> Int] /\ t \in AnyThread /\ c \in AnyThread
          /\ edfAt \in [Slot -> {"code", "yield", "reap"}] /\ edfFlags \in [AnyThread -> SUBSET EdfFlags]
          /\ Ordered(list, deadline) /\ IsInjective(list) /\ Contains(list, Idle) /\ edfFlags[Idle] = {}
        BY DEF EdfInv, EdfTypes, EdfList, AnyThread
    <2> QED
        BY <2>1, ListMembers
<1>4. deadline' \in [AnyThread -> Int] /\ deadline'[t] = d /\ \A u \in AnyThread : u # t => deadline'[u] = deadline[u]
    BY <1>1, <1>2, <1>3
<1>5. Ordered(list, deadline')
    <2>1. \A i \in DOMAIN list : list[i] \in AnyThread /\ list[i] # t
        BY <1>1, <1>3 DEF Contains
    <2>2. \A i \in DOMAIN list : deadline'[list[i]] = deadline[list[i]]
        BY <1>4, <2>1
    <2> QED
        BY <1>3, <2>2 DEF Ordered
<1>6. /\ list' \in Seq(AnyThread) /\ IsInjective(list') /\ Ordered(list', deadline')
      /\ \A u : Contains(list', u) <=> Contains(list, u) \/ u = t
    <2> DEFINE d2 == deadline'
    <2>1. d2 \in [AnyThread -> Int] /\ Ordered(list, d2) /\ list' = EDF!Add(list, t, d2)
        BY <1>2, <1>4, <1>5
    <2> HIDE DEF d2
    <2>2. /\ list' \in Seq(AnyThread) /\ IsInjective(list') /\ Ordered(list', d2)
          /\ \A u : Contains(list', u) <=> Contains(list, u) \/ u = t
        BY <1>1, <1>3, <2>1, AddedList
    <2> QED
        BY <2>2 DEF d2
<1>7. /\ edfFlags' \in [AnyThread -> SUBSET EdfFlags] /\ edfFlags'[t] = {}
      /\ \A u \in AnyThread : u # t => edfFlags'[u] = edfFlags[u]
    BY <1>1, <1>2, <1>3
<1>8. edfAt' \in [Slot -> {"code", "yield", "reap"}] /\ edfAt'[c] = IF edfPaused THEN "code" ELSE "yield"
    BY <1>1, <1>2, <1>3
<1>9. EdfTypes'
    <2>1. edfPaused' \in BOOLEAN /\ edfSkew' \in BOOLEAN
        BY <1>2 DEF EdfInv, EdfTypes
    <2> QED
        BY <1>4, <1>6, <1>7, <1>8, <2>1 DEF EdfTypes
<1>10. EdfList'
    BY <1>1, <1>2, <1>3, <1>6, <1>7 DEF EdfList, AnyThread
<1>11. Closest'
    <2>1. edfSkew' => edfPaused'
        BY <1>2 DEF EdfInv, Closest
    <2>2. SUFFICES ASSUME ~edfSkew', edfCur' = Idle \/ edfAt'[edfCur'] # "yield",
                          NEW u, Contains(list', u), edfFlags'[u] = {}, u \notin overlooked'
                   PROVE  deadline'[edfCur'] <= deadline'[u]
        BY <2>1 DEF Closest, NobodyCloser
    <2>3. edfPaused /\ NobodyCloser /\ u \notin overlooked /\ (u = t => ~(d < deadline[c]))
        BY <1>1, <1>2, <1>8, <2>2 DEF EdfInv, Closest
    <2>4. deadline'[edfCur'] = deadline[c] /\ deadline[c] \in Int
        BY <1>1, <1>2, <1>3, <1>4
    <2>5. CASE u = t
        BY <1>1, <1>4, <2>3, <2>4, <2>5
    <2>6. CASE u # t
        <3>1. Contains(list, u) /\ u \in AnyThread
            BY <1>3, <1>6, <2>2, <2>6
        <3>2. edfFlags[u] = {} /\ deadline'[u] = deadline[u]
            BY <1>4, <1>7, <2>2, <2>6, <3>1
        <3> QED
            BY <1>1, <2>3, <2>4, <3>1, <3>2 DEF NobodyCloser
    <2> QED
        BY <2>5, <2>6
<1> QED
    BY <1>9, <1>10, <1>11 DEF EdfInv

(* What PKsetPriority does to the list.                                    *)
LEMMA Relisted ==
    ASSUME EdfInv, NEW c \in AnyThread, NEW d \in Int, Contains(list, c), EDF!PKsetPriority(c, d)
    PROVE  /\ deadline' \in [AnyThread -> Int] /\ deadline'[c] = d
           /\ \A u \in AnyThread : u # c => deadline'[u] = deadline[u]
           /\ list' \in Seq(AnyThread) /\ IsInjective(list') /\ Ordered(list', deadline')
           /\ \A u : Contains(list', u) <=> Contains(list, u)
<1> DEFINE S == {i \in DOMAIN list : list[i] # c}
           l == Keeping(list, S)
<1>2. deadline' = [deadline EXCEPT ![c] = d] /\ list' = EDF!Add(l, c, deadline')
    BY DEF EDF!PKsetPriority, EDF!Unlink, EDF!Keeping, Keeping, EDF!SeqOf, SeqOf, EDF!ToSet, ToSet
<1>3. /\ list \in Seq(AnyThread) /\ deadline \in [AnyThread -> Int] /\ c \in AnyThread
      /\ Ordered(list, deadline) /\ IsInjective(list)
    BY DEF EdfInv, EdfTypes, EdfList
<1>4. deadline' \in [AnyThread -> Int] /\ deadline'[c] = d /\ \A u \in AnyThread : u # c => deadline'[u] = deadline[u]
    BY <1>2, <1>3
<1>5. /\ l \in Seq(AnyThread) /\ IsInjective(l) /\ Ordered(l, deadline)
      /\ \A u : Contains(l, u) <=> Contains(list, u) /\ u # c
    <2>1. S \subseteq DOMAIN list /\ \A u : (\E i \in S : list[i] = u) <=> Contains(list, u) /\ u # c
        BY <1>3 DEF Contains
    <2> HIDE DEF S
    <2>2. /\ l \in Seq(AnyThread) /\ IsInjective(l) /\ \A u : Contains(l, u) <=> \E i \in S : list[i] = u
        BY <1>3, <2>1, KeepingList
    <2>3. Ordered(l, deadline)
        BY <1>3, <2>1, OrderKept
    <2> HIDE DEF l
    <2> QED
        BY <2>1, <2>2, <2>3
<1> HIDE DEF l
<1>6. Ordered(l, deadline')
    <2>1. \A i \in DOMAIN l : l[i] \in AnyThread /\ l[i] # c
        <3>1. \A i \in DOMAIN l : l[i] \in AnyThread /\ Contains(l, l[i])
            BY <1>5 DEF Contains
        <3> QED
            BY <1>5, <3>1
    <2>2. \A i \in DOMAIN l : deadline'[l[i]] = deadline[l[i]]
        BY <1>4, <2>1
    <2> QED
        BY <1>5, <2>2 DEF Ordered
<1>7. /\ list' \in Seq(AnyThread) /\ IsInjective(list') /\ Ordered(list', deadline')
      /\ \A u : Contains(list', u) <=> Contains(list, u) \/ u = c
    <2> DEFINE d2 == deadline'
    <2>1. d2 \in [AnyThread -> Int] /\ Ordered(l, d2) /\ list' = EDF!Add(l, c, d2)
        BY <1>2, <1>4, <1>6
    <2> HIDE DEF d2
    <2>2. /\ list' \in Seq(AnyThread) /\ IsInjective(list') /\ Ordered(list', d2)
          /\ \A u : Contains(list', u) <=> Contains(l, u) \/ u = c
        BY <1>3, <1>5, <2>1, AddedList
    <2> QED
        BY <1>5, <2>2 DEF d2
<1>8. \A u : Contains(list', u) <=> Contains(list, u)
    BY <1>7
<1> QED
    BY <1>4, <1>7, <1>8

LEMMA EdfPriorityStep ==
    ASSUME EdfInv, NEW c \in Slot, NEW d \in EDF!Deadline, MaxDeadline \in Nat, EDF!setPriority(c, d)
    PROVE  EdfInv'
<1>1. /\ edfCur = c /\ edfAt[c] = "code" /\ c # Idle /\ Contains(list, c)
      /\ d \in Int /\ c \in AnyThread
    BY EdfCode DEF EDF!setPriority, EDF!Deadline, EDF!Requested, AnyThread
<1>2. /\ EDF!PKsetPriority(c, d)
      /\ overlooked' = overlooked \union {t \in ToSet(list) \ {c} : edfFlags[t] = {} /\ deadline[t] < d}
      /\ UNCHANGED <<edfFlags, edfCur, edfPaused, edfSkew, edfAt>>
    BY DEF EDF!setPriority, EDF!Ready, EDF!ToSet, ToSet
<1>3. /\ list \in Seq(AnyThread) /\ deadline \in [AnyThread -> Int] /\ Contains(list, Idle) /\ edfFlags[Idle] = {}
    BY DEF EdfInv, EdfTypes, EdfList
<1>4. /\ deadline' \in [AnyThread -> Int] /\ deadline'[c] = d
      /\ \A u \in AnyThread : u # c => deadline'[u] = deadline[u]
      /\ list' \in Seq(AnyThread) /\ IsInjective(list') /\ Ordered(list', deadline')
      /\ \A u : Contains(list', u) <=> Contains(list, u)
    BY <1>1, <1>2, Relisted
<1>5. EdfTypes'
    BY <1>2, <1>4 DEF EdfInv, EdfTypes
<1>6. EdfList'
    BY <1>1, <1>2, <1>3, <1>4 DEF EdfList
<1>7. NobodyCloser'
    <2>1. SUFFICES ASSUME NEW u, Contains(list', u), edfFlags'[u] = {}, u \notin overlooked'
                   PROVE  deadline'[edfCur'] <= deadline'[u]
        BY DEF NobodyCloser
    <2>2. Contains(list, u) /\ u \in AnyThread /\ u \in ToSet(list) /\ edfFlags[u] = {}
        BY <1>2, <1>3, <1>4, <2>1, ListMembers
    <2>3. u = c \/ ~(deadline[u] < d)
        BY <1>2, <2>1, <2>2
    <2>4. deadline'[edfCur'] = d /\ deadline[u] \in Int
        BY <1>1, <1>2, <1>3, <1>4, <2>2
    <2> QED
        BY <1>1, <1>4, <2>2, <2>3, <2>4
<1>8. Closest'
    BY <1>2, <1>7 DEF EdfInv, Closest
<1> QED
    BY <1>5, <1>6, <1>8 DEF EdfInv

(* A thread that inherits comes as close as the one that runs.             *)
LEMMA EdfInheritStep ==
    ASSUME EdfInv, NEW c \in Slot, NEW o \in Slot, EDF!inherit(c, o)
    PROVE  EdfInv'
<1>1. edfCur = c /\ Contains(list, c) /\ c \in AnyThread /\ o \in AnyThread /\ o # c
    BY EdfCode DEF EDF!inherit, AnyThread
<1>2. /\ EDF!PKsetPriority(o, deadline[c]) /\ Contains(list, o)
      /\ UNCHANGED <<edfFlags, edfCur, edfPaused, edfSkew, edfAt, overlooked>>
    BY DEF EDF!inherit, EDF!Listed, EDF!Contains, Contains
<1>3. /\ list \in Seq(AnyThread) /\ deadline \in [AnyThread -> Int] /\ deadline[c] \in Int
      /\ Contains(list, Idle) /\ edfFlags[Idle] = {}
    BY <1>1 DEF EdfInv, EdfTypes, EdfList
<1>4. /\ deadline' \in [AnyThread -> Int] /\ deadline'[o] = deadline[c]
      /\ \A u \in AnyThread : u # o => deadline'[u] = deadline[u]
      /\ list' \in Seq(AnyThread) /\ IsInjective(list') /\ Ordered(list', deadline')
      /\ \A u : Contains(list', u) <=> Contains(list, u)
    BY <1>1, <1>2, <1>3, Relisted
<1>5. EdfTypes'
    BY <1>2, <1>4 DEF EdfInv, EdfTypes
<1>6. EdfList'
    BY <1>1, <1>2, <1>3, <1>4 DEF EdfList
<1>7. ASSUME NobodyCloser PROVE NobodyCloser'
    <2>1. SUFFICES ASSUME NEW u, Contains(list', u), edfFlags'[u] = {}, u \notin overlooked'
                   PROVE  deadline'[edfCur'] <= deadline'[u]
        BY DEF NobodyCloser
    <2>2. Contains(list, u) /\ u \in AnyThread /\ edfFlags[u] = {} /\ u \notin overlooked
        BY <1>2, <1>3, <1>4, <2>1, ListMembers
    <2>3. deadline[c] <= deadline[u] /\ deadline'[edfCur'] = deadline[c]
        BY <1>1, <1>2, <1>4, <1>7, <2>2 DEF NobodyCloser
    <2>4. CASE u = o
        BY <1>3, <1>4, <2>3, <2>4
    <2>5. CASE u # o
        <3>1. deadline'[u] = deadline[u]
            BY <1>4, <2>2, <2>5
        <3> QED
            BY <2>3, <3>1
    <2> QED
        BY <2>4, <2>5
<1>8. Closest'
    BY <1>2, <1>7 DEF EdfInv, Closest
<1> QED
    BY <1>5, <1>6, <1>8 DEF EdfInv

(* What becomes of the flags of one thread.                                *)
LEMMA EdfFlagsSet ==
    ASSUME NEW f \in [AnyThread -> SUBSET EdfFlags], f[Idle] = {}, NEW t \in Slot, NEW flag \in EdfFlags,
           edfFlags' = [f EXCEPT ![t] = {flag}]
    PROVE  /\ edfFlags' \in [AnyThread -> SUBSET EdfFlags]
           /\ edfFlags'[t] = {flag} /\ edfFlags'[Idle] = {}
           /\ \A u \in AnyThread : u # t => edfFlags'[u] = f[u]
<1>1. t # Idle /\ t \in AnyThread /\ Idle \in AnyThread /\ {flag} \in SUBSET EdfFlags
    BY SlotAssumption DEF AnyThread
<1> QED
    BY <1>1

(* A step of the running thread that is followed by a yield.               *)
LEMMA YieldsNext ==
    ASSUME EdfInv, NEW c \in Slot, edfCur = c, edfCur' = c,
           edfFlags' \in [AnyThread -> SUBSET EdfFlags], edfFlags'[Idle] = {},
           edfAt' = [edfAt EXCEPT ![c] = "yield"], edfPaused' \in BOOLEAN, edfSkew' \in BOOLEAN,
           edfSkew' => edfPaused', UNCHANGED <<list, deadline>>
    PROVE  EdfInv'
<1>1. edfAt' \in [Slot -> {"code", "yield", "reap"}] /\ edfAt'[c] = "yield" /\ c # Idle
    BY SlotAssumption DEF EdfInv, EdfTypes
<1>2. EdfTypes'
    BY <1>1 DEF EdfInv, EdfTypes
<1>3. EdfList'
    BY DEF EdfInv, EdfList, Ordered
<1>4. Closest'
    BY <1>1 DEF Closest
<1> QED
    BY <1>2, <1>3, <1>4 DEF EdfInv

LEMMA EdfBlockStep ==
    ASSUME EdfInv, NEW c \in Slot, NEW flag \in {"WAIT", "SLEEP"}, EDF!Block(c, flag)
    PROVE  EdfInv'
<1>1. edfCur = c
    BY EdfCode DEF EDF!Block
<1>2. /\ edfFlags' = [edfFlags EXCEPT ![c] = {flag}] /\ edfAt' = [edfAt EXCEPT ![c] = "yield"]
      /\ UNCHANGED <<list, deadline, edfCur, edfPaused, edfSkew, overlooked>>
    BY DEF EDF!Block
<1>4. edfFlags' \in [AnyThread -> SUBSET EdfFlags] /\ edfFlags'[Idle] = {}
    <2>1. edfFlags \in [AnyThread -> SUBSET EdfFlags] /\ edfFlags[Idle] = {} /\ flag \in EdfFlags
        BY DEF EdfInv, EdfTypes, EdfList, EdfFlags
    <2> QED
        BY <1>2, <2>1, EdfFlagsSet
<1>5. edfPaused' \in BOOLEAN /\ edfSkew' \in BOOLEAN /\ (edfSkew' => edfPaused')
    BY <1>2 DEF EdfInv, EdfTypes, Closest
<1> QED
    BY <1>1, <1>2, <1>4, <1>5, YieldsNext

(* What becomes of the flags of those that are woken.                      *)
LEMMA WokenFlags ==
    ASSUME EdfInv, NEW S \in SUBSET Slot
    PROVE  /\ EDF!Woken(S) \in [AnyThread -> SUBSET EdfFlags]
           /\ EDF!Woken(S)[Idle] = {}
           /\ \A u \in AnyThread : u \notin S => EDF!Woken(S)[u] = edfFlags[u]
<1>1. /\ edfFlags \in [AnyThread -> SUBSET EdfFlags] /\ edfFlags[Idle] = {}
      /\ Idle \in AnyThread /\ Idle \notin S
    BY SlotAssumption DEF EdfInv, EdfTypes, EdfList, AnyThread
<1>2. EDF!Woken(S) = [t \in AnyThread |-> IF t \in S THEN edfFlags[t] \ {"WAIT"} ELSE edfFlags[t]]
    BY <1>1 DEF EDF!Woken
<1>3. \A t \in AnyThread : edfFlags[t] \ {"WAIT"} \in SUBSET EdfFlags
    BY <1>1 DEF EdfFlags
<1> QED
    BY <1>1, <1>2, <1>3

LEMMA EdfWakeupStep ==
    ASSUME EdfInv, NEW c \in Slot, NEW t \in Slot, EDF!wakeup(c, t)
    PROVE  EdfInv'
<1>1. edfCur = c
    BY EdfCode DEF EDF!wakeup
<1>2. /\ edfFlags' = EDF!Woken({t}) /\ edfAt' = [edfAt EXCEPT ![c] = "yield"]
      /\ UNCHANGED <<list, deadline, edfCur, edfPaused, edfSkew>>
    BY DEF EDF!wakeup
<1>3. edfFlags' \in [AnyThread -> SUBSET EdfFlags] /\ edfFlags'[Idle] = {}
    BY <1>2, WokenFlags
<1>4. edfPaused' \in BOOLEAN /\ edfSkew' \in BOOLEAN /\ (edfSkew' => edfPaused')
    BY <1>2 DEF EdfInv, EdfTypes, Closest
<1> QED
    BY <1>1, <1>2, <1>3, <1>4, YieldsNext

LEMMA EdfReturnStep ==
    ASSUME EdfInv, NEW c \in Slot, NEW joiners \in SUBSET Slot,
           EDF!joinableReturns(c, joiners) \/ EDF!threadReturns(c)
    PROVE  EdfInv'
<1>1. PICK f \in {EDF!Woken(joiners), edfFlags}, flag \in {"DELETED_JOIN", "DELETED"} : EDF!Ends(c, f, flag)
    BY DEF EDF!joinableReturns, EDF!threadReturns
<1>2. edfCur = c
    BY <1>1, EdfCode DEF EDF!Ends
<1>3. /\ edfFlags' = [f EXCEPT ![c] = {flag}] /\ edfAt' = [edfAt EXCEPT ![c] = "yield"]
      /\ UNCHANGED <<list, deadline, edfCur, edfPaused, edfSkew>>
    BY <1>1 DEF EDF!Ends
<1>4. f \in [AnyThread -> SUBSET EdfFlags] /\ f[Idle] = {}
    <2>1. CASE f = EDF!Woken(joiners)
        BY <2>1, WokenFlags
    <2>2. CASE f = edfFlags
        BY <2>2 DEF EdfInv, EdfTypes, EdfList
    <2> QED
        BY <2>1, <2>2
<1>5. edfFlags' \in [AnyThread -> SUBSET EdfFlags] /\ edfFlags'[Idle] = {}
    <2>1. flag \in EdfFlags
        BY DEF EdfFlags
    <2> QED
        BY <1>3, <1>4, <2>1, EdfFlagsSet
<1>6. edfPaused' \in BOOLEAN /\ edfSkew' \in BOOLEAN /\ (edfSkew' => edfPaused')
    BY <1>3 DEF EdfInv, EdfTypes, Closest
<1> QED
    BY <1>2, <1>3, <1>5, <1>6, YieldsNext

(* A thread that has ended is marked for its memory to be freed.           *)
LEMMA EdfMarkStep ==
    ASSUME EdfInv, NEW c \in Slot, NEW t \in Slot, EDF!joinTakes(c, t) \/ EDF!detachEnded(c, t)
    PROVE  EdfInv'
<1>1. edfCur = c /\ edfAt[c] = "code"
    BY EdfCode DEF EDF!joinTakes, EDF!detachEnded
<1>2. /\ edfFlags' = [edfFlags EXCEPT ![t] = {"DELETED"}]
      /\ edfAt' = [edfAt EXCEPT ![c] = "reap"] \/ edfAt' = edfAt
      /\ UNCHANGED <<list, deadline, edfCur, edfPaused, edfSkew, overlooked>>
    BY DEF EDF!joinTakes, EDF!detachEnded
<1>3. /\ edfFlags' \in [AnyThread -> SUBSET EdfFlags] /\ edfFlags'[Idle] = {} /\ edfFlags'[t] = {"DELETED"}
      /\ \A u \in AnyThread : u # t => edfFlags'[u] = edfFlags[u]
    <2>1. edfFlags \in [AnyThread -> SUBSET EdfFlags] /\ edfFlags[Idle] = {} /\ "DELETED" \in EdfFlags
        BY DEF EdfInv, EdfTypes, EdfList, EdfFlags
    <2> QED
        BY <1>2, <2>1, EdfFlagsSet
<1>4. edfAt' \in [Slot -> {"code", "yield", "reap"}]
    BY <1>2 DEF EdfInv, EdfTypes
<1>5. EdfTypes'
    BY <1>2, <1>3, <1>4 DEF EdfInv, EdfTypes
<1>6. EdfList'
    BY <1>2, <1>3, ListStays
<1>7. ASSUME NobodyCloser PROVE NobodyCloser'
    <2>1. list \in Seq(AnyThread)
        BY DEF EdfInv, EdfTypes
    <2>2. \A u : Contains(list, u) /\ edfFlags'[u] = {} => edfFlags[u] = {}
        BY <1>3, <2>1, ListMembers
    <2> QED
        BY <1>2, <1>7, <2>2 DEF NobodyCloser
<1>8. Closest'
    BY <1>1, <1>2, <1>7 DEF EdfInv, Closest
<1> QED
    BY <1>5, <1>6, <1>8 DEF EdfInv

(* Threads are woken none of which has the closer deadline, or that are    *)
(* overlooked.                                                             *)
LEMMA WokenLater ==
    ASSUME EdfInv, NEW S \in SUBSET Slot, edfFlags' = EDF!Woken(S),
           \A t \in S : t \in overlooked' \/ ~(deadline[t] < deadline[edfCur]),
           overlooked \subseteq overlooked', NobodyCloser
    PROVE  \A u : Contains(list, u) /\ edfFlags'[u] = {} /\ u \notin overlooked' => deadline[edfCur] <= deadline[u]
<1>1. \A u \in AnyThread : u \notin S => edfFlags'[u] = edfFlags[u]
    BY WokenFlags
<1>2. list \in Seq(AnyThread) /\ Contains(list, edfCur) /\ deadline \in [AnyThread -> Int]
    BY DEF EdfInv, EdfTypes, EdfList
<1>3. ASSUME NEW u, Contains(list, u), edfFlags'[u] = {}, u \notin overlooked'
      PROVE  deadline[edfCur] <= deadline[u]
    <2>1. u \in AnyThread /\ edfCur \in AnyThread /\ u \notin overlooked
        BY <1>2, <1>3, ListMembers
    <2>2. CASE u \in S
        BY <1>2, <1>3, <2>1, <2>2
    <2>3. CASE u \notin S
        BY <1>1, <1>3, <2>1, <2>3 DEF NobodyCloser
    <2> QED
        BY <2>2, <2>3
<1> QED
    BY <1>3

(* So a step that only wakes such threads keeps the invariant.             *)
LEMMA WakesLater ==
    ASSUME EdfInv, NEW S \in SUBSET Slot, edfFlags' = EDF!Woken(S),
           \A t \in S : t \in overlooked' \/ ~(deadline[t] < deadline[edfCur]),
           overlooked \subseteq overlooked',
           UNCHANGED <<list, deadline, edfCur, edfPaused, edfSkew, edfAt>>
    PROVE  EdfInv'
<1>1. edfFlags' \in [AnyThread -> SUBSET EdfFlags] /\ edfFlags'[Idle] = {}
    BY WokenFlags
<1>2. EdfTypes'
    BY <1>1 DEF EdfInv, EdfTypes
<1>3. EdfList'
    BY <1>1, ListStays
<1>4. ASSUME NobodyCloser PROVE NobodyCloser'
    BY <1>4, WokenLater DEF NobodyCloser
<1>5. Closest'
    BY <1>4 DEF EdfInv, Closest
<1> QED
    BY <1>2, <1>3, <1>5 DEF EdfInv

LEMMA EdfSignalStep ==
    ASSUME EdfInv, NEW c \in Slot, NEW S \in SUBSET Slot, EDF!signal(c, S)
    PROVE  EdfInv'
<1>1. edfCur = c /\ edfAt[c] = "code"
    BY EdfCode DEF EDF!signal
<1>2. /\ edfFlags' = EDF!Woken(S)
      /\ edfAt' = [edfAt EXCEPT ![c] = IF \E t \in S : deadline[t] < deadline[c] THEN "yield" ELSE "code"]
      /\ UNCHANGED <<list, deadline, edfCur, edfPaused, edfSkew, overlooked>>
    BY DEF EDF!signal, EDF!Higher
<1>3. CASE \E t \in S : deadline[t] < deadline[c]
    <2>1. edfFlags' \in [AnyThread -> SUBSET EdfFlags] /\ edfFlags'[Idle] = {}
        BY <1>2, WokenFlags
    <2>2. edfPaused' \in BOOLEAN /\ edfSkew' \in BOOLEAN /\ (edfSkew' => edfPaused')
        BY <1>2 DEF EdfInv, EdfTypes, Closest
    <2> QED
        BY <1>1, <1>2, <1>3, <2>1, <2>2, YieldsNext
<1>4. CASE ~\E t \in S : deadline[t] < deadline[c]
    <2>1. edfAt' = edfAt
        BY <1>1, <1>2, <1>4 DEF EdfInv, EdfTypes
    <2> QED
        BY <1>1, <1>2, <1>4, <2>1, WakesLater
<1> QED
    BY <1>3, <1>4

LEMMA EdfGoesOnStep ==
    ASSUME EdfInv, NEW c \in Slot, NEW t \in Slot, EDF!WakesAndGoesOn(c, t)
    PROVE  EdfInv'
<1>1. edfCur = c
    BY EdfCode DEF EDF!WakesAndGoesOn
<1>2. /\ edfFlags' = EDF!Woken({t})
      /\ overlooked' = overlooked \union IF deadline[t] < deadline[c] THEN {t} ELSE {}
      /\ UNCHANGED <<list, deadline, edfCur, edfPaused, edfSkew, edfAt>>
    BY DEF EDF!WakesAndGoesOn, EDF!Higher
<1>3. t \in overlooked' \/ ~(deadline[t] < deadline[edfCur])
    BY <1>1, <1>2
<1> QED
    BY <1>2, <1>3, WakesLater

(* An unlock that does not yield has not put off the deadline of the one   *)
(* that unlocks: a later one would be that of the thread it wakes or later.*)
LEMMA EdfUnlockStep ==
    ASSUME EdfInv, NEW c \in Slot, NEW t \in Slot, NEW d \in EDF!Deadline, MaxDeadline \in Nat,
           EDF!unlock(c, t, d)
    PROVE  EdfInv'
<1>1. /\ edfCur = c /\ edfAt[c] = "code" /\ c # Idle /\ Contains(list, c)
      /\ d \in Int /\ c \in AnyThread /\ t \in AnyThread
    BY EdfCode DEF EDF!unlock, EDF!Deadline, EDF!Requested, AnyThread
<1>2. /\ t # c /\ (d > deadline[c] => deadline[t] <= deadline[c])
      /\ IF d = deadline[c] THEN UNCHANGED <<list, deadline>> ELSE EDF!PKsetPriority(c, d)
      /\ edfFlags' = EDF!Woken({t})
      /\ edfAt' = [edfAt EXCEPT ![c] = IF deadline[t] < d THEN "yield" ELSE "code"]
      /\ UNCHANGED <<edfCur, edfPaused, edfSkew, overlooked>>
    BY DEF EDF!unlock
<1>3. /\ list \in Seq(AnyThread) /\ deadline \in [AnyThread -> Int] /\ Ordered(list, deadline)
      /\ IsInjective(list) /\ Contains(list, Idle) /\ edfAt \in [Slot -> {"code", "yield", "reap"}]
    BY DEF EdfInv, EdfTypes, EdfList
<1>4. /\ deadline' \in [AnyThread -> Int] /\ deadline'[c] = d
      /\ \A u \in AnyThread : u # c => deadline'[u] = deadline[u]
      /\ list' \in Seq(AnyThread) /\ IsInjective(list') /\ Ordered(list', deadline')
      /\ \A u : Contains(list', u) <=> Contains(list, u)
    <2>1. CASE d = deadline[c]
        <3>1. list' = list /\ deadline' = deadline
            BY <1>2, <2>1
        <3> QED
            BY <1>3, <2>1, <3>1
    <2>2. CASE d # deadline[c]
        <3>1. EDF!PKsetPriority(c, d)
            BY <1>2, <2>2
        <3> QED
            BY <1>1, <3>1, Relisted
    <2> QED
        BY <2>1, <2>2
<1>5. /\ edfFlags' \in [AnyThread -> SUBSET EdfFlags] /\ edfFlags'[Idle] = {}
      /\ \A u \in AnyThread : u # t => edfFlags'[u] = edfFlags[u]
    BY <1>2, WokenFlags
<1>6. edfAt' \in [Slot -> {"code", "yield", "reap"}] /\ edfAt'[c] = IF deadline[t] < d THEN "yield" ELSE "code"
    BY <1>2, <1>3
<1>7. EdfTypes'
    BY <1>2, <1>4, <1>5, <1>6 DEF EdfInv, EdfTypes
<1>8. EdfList'
    BY <1>1, <1>2, <1>3, <1>4, <1>5 DEF EdfList
<1>9. ASSUME NobodyCloser, ~(deadline[t] < d) PROVE NobodyCloser'
    <2>1. deadline[c] \in Int /\ deadline[t] \in Int
        BY <1>1, <1>3
    <2>2. d <= deadline[c]
        BY <1>1, <1>2, <1>9, <2>1
    <2>3. SUFFICES ASSUME NEW u, Contains(list', u), edfFlags'[u] = {}, u \notin overlooked'
                   PROVE  deadline'[edfCur'] <= deadline'[u]
        BY DEF NobodyCloser
    <2>4. Contains(list, u) /\ u \in AnyThread /\ u \notin overlooked /\ deadline'[edfCur'] = d
        BY <1>1, <1>2, <1>3, <1>4, <2>3, ListMembers
    <2>5. CASE u = c
        BY <1>1, <1>4, <2>4, <2>5
    <2>6. CASE u = t
        BY <1>1, <1>2, <1>4, <1>9, <2>1, <2>4, <2>6
    <2>7. CASE u # c /\ u # t
        <3>1. edfFlags[u] = {} /\ deadline'[u] = deadline[u] /\ deadline[u] \in Int
            BY <1>3, <1>4, <1>5, <2>3, <2>4, <2>7
        <3>2. deadline[c] <= deadline[u]
            BY <1>1, <1>9, <2>4, <3>1 DEF NobodyCloser
        <3> QED
            BY <1>1, <2>1, <2>2, <2>4, <3>1, <3>2
    <2> QED
        BY <2>5, <2>6, <2>7
<1>10. Closest'
    <2>1. edfSkew' => edfPaused'
        BY <1>2 DEF EdfInv, Closest
    <2>2. CASE deadline[t] < d
        BY <1>1, <1>2, <1>6, <2>1, <2>2 DEF Closest
    <2>3. CASE ~(deadline[t] < d)
        BY <1>1, <1>2, <1>9, <2>1, <2>3 DEF EdfInv, Closest
    <2> QED
        BY <2>2, <2>3
<1> QED
    BY <1>7, <1>8, <1>10 DEF EdfInv

LEMMA EdfPauseStep ==
    ASSUME EdfInv, NEW c \in Slot, EDF!pauseKernel(c) \/ EDF!restartKernel(c)
    PROVE  EdfInv'
<1>1. CASE EDF!pauseKernel(c)
    <2>1. edfPaused' = TRUE /\ UNCHANGED <<list, deadline, edfFlags, edfCur, edfSkew, edfAt, overlooked>>
        BY <1>1 DEF EDF!pauseKernel
    <2>2. EdfTypes' /\ EdfList'
        BY <2>1 DEF EdfInv, EdfTypes, EdfList, Ordered
    <2>3. Closest'
        BY <2>1 DEF EdfInv, Closest, NobodyCloser
    <2> QED
        BY <2>2, <2>3 DEF EdfInv
<1>2. CASE EDF!restartKernel(c)
    <2>1. edfCur = c /\ edfAt[c] = "code"
        BY <1>2, EdfCode DEF EDF!restartKernel
    <2>2. /\ edfPaused' = FALSE /\ edfSkew' = FALSE
          /\ edfAt' = [edfAt EXCEPT ![c] = IF edfSkew THEN "yield" ELSE "code"]
          /\ UNCHANGED <<list, deadline, edfFlags, edfCur, overlooked>>
        BY <1>2 DEF EDF!restartKernel
    <2>3. CASE edfSkew
        <3>1. edfAt' = [edfAt EXCEPT ![c] = "yield"] /\ edfPaused' \in BOOLEAN /\ edfSkew' \in BOOLEAN
              /\ (edfSkew' => edfPaused')
            BY <2>2, <2>3
        <3>2. edfFlags' \in [AnyThread -> SUBSET EdfFlags] /\ edfFlags'[Idle] = {}
            BY <2>2 DEF EdfInv, EdfTypes, EdfList
        <3> QED
            BY <2>1, <2>2, <3>1, <3>2, YieldsNext
    <2>4. CASE ~edfSkew
        <3>1. edfAt' = edfAt
            BY <2>1, <2>2, <2>4 DEF EdfInv, EdfTypes
        <3>2. EdfTypes' /\ EdfList'
            BY <2>2, <3>1 DEF EdfInv, EdfTypes, EdfList, Ordered
        <3>3. Closest'
            BY <2>2, <2>4, <3>1 DEF EdfInv, Closest, NobodyCloser
        <3> QED
            BY <3>2, <3>3 DEF EdfInv
    <2> QED
        BY <2>3, <2>4
<1> QED
    BY <1>1, <1>2

LEMMA EdfYieldStep ==
    ASSUME EdfInv, NEW c \in Slot, EDF!yield(c), ~edfPaused
    PROVE  EdfInv'
<1>1. /\ edfAt' = [edfAt EXCEPT ![c] = "code"] /\ UNCHANGED <<list, deadline, edfFlags, edfPaused, edfSkew>>
      /\ EDF!FindNext
    BY DEF EDF!yield
<1>2. edfAt' \in [Slot -> {"code", "yield", "reap"}]
    BY <1>1 DEF EdfInv, EdfTypes
<1>3. /\ edfFlags' \in [AnyThread -> SUBSET EdfFlags] /\ edfFlags'[Idle] = {}
      /\ edfSkew' \in BOOLEAN /\ (edfSkew' => edfPaused)
    BY <1>1 DEF EdfInv, EdfTypes, EdfList, Closest
<1> QED
    BY <1>1, <1>2, <1>3, FindNextInv

(* The kernel is paused by a thread that goes on, so no yield is lost.     *)
PausedByCode == edfPaused => edfCur # Idle /\ edfAt[edfCur] = "code"

DeadlineInv == EdfInv /\ PausedByCode

LEMMA EdfTickStep ==
    ASSUME EdfInv, NEW woken \in SUBSET Slot, EDF!Tick(woken)
    PROVE  EdfInv'
<1>1. /\ edfFlags' = [t \in DOMAIN edfFlags |-> IF t \in woken THEN {} ELSE edfFlags[t]]
      /\ edfSkew' = (edfSkew \/ edfPaused)
      /\ UNCHANGED <<list, deadline, edfPaused, edfAt>>
      /\ EDF!FindNext
    BY DEF EDF!Tick
<1>2. edfFlags' \in [AnyThread -> SUBSET EdfFlags] /\ edfFlags'[Idle] = {}
    BY <1>1, SlotAssumption DEF EdfInv, EdfTypes, EdfList, AnyThread
<1>3. edfAt' \in [Slot -> {"code", "yield", "reap"}] /\ edfSkew \in BOOLEAN /\ edfPaused \in BOOLEAN
    BY <1>1 DEF EdfInv, EdfTypes
<1>4. edfSkew' \in BOOLEAN /\ (edfSkew' => edfPaused) /\ (edfPaused => edfSkew')
    BY <1>1, <1>3 DEF EdfInv, Closest
<1> QED
    BY <1>1, <1>2, <1>3, <1>4, FindNextInv

LEMMA EdfDeviceStep ==
    ASSUME EdfInv, NEW t \in Slot, EDF!Device(t)
    PROVE  EdfInv'
<1>1. /\ edfFlags' = EDF!Woken({t})
      /\ UNCHANGED <<list, deadline, edfPaused, edfSkew, edfAt>>
    BY DEF EDF!Device
<1>2. edfFlags' \in [AnyThread -> SUBSET EdfFlags] /\ edfFlags'[Idle] = {}
    BY <1>1, WokenFlags
<1>3. CASE ~(deadline[t] < deadline[edfCur])
    <2>1. UNCHANGED <<edfCur, overlooked>>
        BY <1>3 DEF EDF!Device, EDF!Higher
    <2> QED
        BY <1>1, <1>3, <2>1, WakesLater
<1>4. CASE deadline[t] < deadline[edfCur] /\ edfPaused
    <2>1. UNCHANGED edfCur /\ overlooked' = overlooked \union {t}
        BY <1>4 DEF EDF!Device, EDF!Higher
    <2> QED
        BY <1>1, <2>1, WakesLater
<1>5. CASE deadline[t] < deadline[edfCur] /\ ~edfPaused
    <2>1. EDF!FindNext
        BY <1>5 DEF EDF!Device, EDF!Higher
    <2>2. edfAt' \in [Slot -> {"code", "yield", "reap"}] /\ edfSkew' \in BOOLEAN /\ (edfSkew' => edfPaused)
        BY <1>1 DEF EdfInv, EdfTypes, Closest
    <2> QED
        BY <1>1, <1>2, <1>5, <2>1, <2>2, FindNextInv
<1> QED
    BY <1>3, <1>4, <1>5

(* PKremoveDeadThreads, called by the idle thread or by join.              *)
LEMMA EdfReapStep ==
    ASSUME EdfInv, EDF!idleThread \/ \E c \in Slot : EDF!joinReaps(c)
    PROVE  EdfInv'
<1> DEFINE S == {i \in DOMAIN list : ~EDF!Deleted(list[i])}
           l == Keeping(list, S)
<1>0. "DELETED" \notin edfFlags[edfCur]
    <2>1. CASE EDF!idleThread
        BY <2>1 DEF EDF!idleThread, EdfInv, EdfList
    <2>2. CASE \E c \in Slot : EDF!joinReaps(c)
        BY <2>2 DEF EDF!joinReaps, EDF!Ready
    <2> QED
        BY <2>1, <2>2
<1>1. /\ list' = l \/ list' = list
      /\ edfAt' \in [Slot -> {"code", "yield", "reap"}]
      /\ \A c \in Slot : edfAt'[c] = edfAt[c] \/ edfAt[c] = "reap"
      /\ UNCHANGED <<deadline, edfFlags, edfCur, edfPaused, edfSkew, overlooked>>
    BY DEF EdfInv, EdfTypes, EDF!idleThread, EDF!joinReaps, EDF!PKremoveDeadThreads,
           EDF!Keeping, Keeping, EDF!SeqOf, SeqOf, EDF!ToSet, ToSet
<1>2. /\ list \in Seq(AnyThread) /\ Ordered(list, deadline) /\ IsInjective(list)
      /\ Contains(list, Idle) /\ Contains(list, edfCur) /\ edfFlags[Idle] = {}
    BY DEF EdfInv, EdfTypes, EdfList
<1>3. /\ l \in Seq(AnyThread) /\ IsInjective(l) /\ Ordered(l, deadline)
      /\ Contains(l, Idle) /\ Contains(l, edfCur) /\ \A u : Contains(l, u) => Contains(list, u)
    <2>1. S \subseteq DOMAIN list /\ \A i \in S : Contains(list, list[i])
        BY <1>2 DEF Contains
    <2>2. \A u : Contains(list, u) /\ "DELETED" \notin edfFlags[u] => \E i \in S : list[i] = u
        BY <1>2 DEF Contains, EDF!Deleted
    <2> HIDE DEF S
    <2>3. /\ l \in Seq(AnyThread) /\ IsInjective(l) /\ \A u : Contains(l, u) <=> \E i \in S : list[i] = u
        BY <1>2, <2>1, KeepingList
    <2>4. Ordered(l, deadline)
        BY <1>2, <2>1, OrderKept
    <2> HIDE DEF l
    <2> QED
        BY <1>0, <1>2, <2>1, <2>2, <2>3, <2>4
<1> HIDE DEF l
<1>4. /\ list' \in Seq(AnyThread) /\ IsInjective(list') /\ Ordered(list', deadline')
      /\ Contains(list', Idle) /\ Contains(list', edfCur') /\ \A u : Contains(list', u) => Contains(list, u)
    <2>1. deadline' = deadline /\ edfCur' = edfCur
        BY <1>1
    <2>2. CASE list' = l
        BY <1>3, <2>1, <2>2
    <2>3. CASE list' = list
        BY <1>2, <2>1, <2>3
    <2> QED
        BY <1>1, <2>2, <2>3
<1>5. EdfTypes'
    BY <1>1, <1>4 DEF EdfInv, EdfTypes
<1>6. EdfList'
    BY <1>1, <1>2, <1>4 DEF EdfList
<1>7. Closest'
    <2>1. edfCur \in AnyThread
        BY <1>2, ListMembers
    <2>2. edfCur' = Idle \/ edfAt'[edfCur'] # "yield" => edfCur = Idle \/ edfAt[edfCur] # "yield"
        BY <1>1, <2>1 DEF AnyThread
    <2>3. NobodyCloser => NobodyCloser'
        BY <1>1, <1>4 DEF NobodyCloser
    <2> QED
        BY <1>1, <2>2, <2>3 DEF EdfInv, Closest
<1> QED
    BY <1>5, <1>6, <1>7 DEF EdfInv

LEMMA PausedByCodeStep ==
    ASSUME EdfInv, PausedByCode, EDF!Next
    PROVE  PausedByCode'
<1>1. edfCur \in AnyThread /\ edfAt \in [Slot -> {"code", "yield", "reap"}]
    BY ListMembers DEF EdfInv, EdfTypes, EdfList
<1>2. ASSUME edfPaused' = edfPaused, edfPaused => edfCur' = edfCur /\ edfAt'[edfCur] = edfAt[edfCur]
      PROVE  PausedByCode'
    BY <1>2 DEF PausedByCode
<1>3. CASE EDF!idleThread
    BY <1>2, <1>3 DEF EDF!idleThread
<1>4. CASE \E woken \in SUBSET Slot \ {{}} : EDF!Tick(woken)
    BY <1>2, <1>4 DEF EDF!Tick, EDF!FindNext
<1>5. CASE \E t \in Slot : EDF!Device(t)
    BY <1>2, <1>5 DEF EDF!Device, EDF!FindNext
<1>6. ASSUME NEW c \in Slot, NEW t \in Slot, NEW d, EDF!create(c, t, d)
      PROVE  PausedByCode'
    <2>1. edfCur = c /\ edfAt[c] = "code" /\ c # Idle
        BY <1>6, EdfCode DEF EDF!create
    <2>2. t # c
        <3>1. Contains(list, c) /\ ~Contains(list, t)
            BY <1>6, EdfCode DEF EDF!create, EDF!Listed, EDF!Contains, Contains
        <3> QED
            BY <3>1
    <2>3. /\ edfPaused' = edfPaused /\ edfCur' = edfCur
          /\ edfAt' = [edfAt EXCEPT ![c] = IF edfPaused THEN "code" ELSE "yield", ![t] = "code"]
        BY <1>6 DEF EDF!create
    <2>4. edfPaused => edfAt'[c] = "code"
        BY <1>1, <2>2, <2>3
    <2> QED
        BY <2>1, <2>3, <2>4 DEF PausedByCode
<1>7. ASSUME NEW c \in Slot, NEW d, EDF!setPriority(c, d)
      PROVE  PausedByCode'
    BY <1>2, <1>7 DEF EDF!setPriority
<1>8. ASSUME NEW c \in Slot, NEW flag, EDF!Block(c, flag)
      PROVE  PausedByCode'
    BY <1>2, <1>8 DEF EDF!Block
<1>9. ASSUME NEW c \in Slot, EDF!yield(c)
      PROVE  PausedByCode'
    <2>1. edfCur = c /\ edfAt[c] = "yield" /\ edfPaused' = edfPaused
        BY <1>9 DEF EDF!yield
    <2> QED
        BY <2>1 DEF PausedByCode
<1>10. ASSUME NEW c \in Slot, NEW t \in Slot, EDF!wakeup(c, t) \/ \E d : EDF!unlock(c, t, d)
       PROVE  PausedByCode'
    BY <1>2, <1>10 DEF EDF!wakeup, EDF!unlock
<1>11. ASSUME NEW c \in Slot, NEW S, EDF!signal(c, S) \/ EDF!joinableReturns(c, S) \/ EDF!threadReturns(c)
       PROVE  PausedByCode'
    BY <1>2, <1>11 DEF EDF!signal, EDF!joinableReturns, EDF!threadReturns, EDF!Ends
<1>12. ASSUME NEW c \in Slot, NEW t \in Slot, EDF!WakesAndGoesOn(c, t) \/ EDF!inherit(c, t) \/ EDF!detachEnded(c, t)
       PROVE  PausedByCode'
    BY <1>2, <1>12 DEF EDF!WakesAndGoesOn, EDF!inherit, EDF!detachEnded
<1>13. ASSUME NEW c \in Slot, NEW t \in Slot, EDF!joinTakes(c, t)
       PROVE  PausedByCode'
    BY <1>13 DEF EDF!joinTakes, PausedByCode
<1>14. ASSUME NEW c \in Slot, EDF!joinReaps(c)
       PROVE  PausedByCode'
    BY <1>14 DEF EDF!joinReaps, PausedByCode
<1>15. ASSUME NEW c \in Slot, EDF!pauseKernel(c)
       PROVE  PausedByCode'
    <2>1. edfCur = c /\ edfAt[c] = "code" /\ c # Idle
        BY <1>15, EdfCode DEF EDF!pauseKernel
    <2>2. UNCHANGED <<edfCur, edfAt>>
        BY <1>15 DEF EDF!pauseKernel
    <2> QED
        BY <2>1, <2>2 DEF PausedByCode
<1>16. ASSUME NEW c \in Slot, EDF!restartKernel(c)
       PROVE  PausedByCode'
    BY <1>16 DEF EDF!restartKernel, PausedByCode
<1> QED
    BY <1>3, <1>4, <1>5, <1>6, <1>7, <1>8, <1>9, <1>10, <1>11, <1>12, <1>13, <1>14, <1>15, <1>16
       DEF EDF!Next, EDF!wait, EDF!sleep, EDF!fastUnlock, EDF!queueOperation, EDF!detach, EDF!PKwakeup

LEMMA InitDeadlineInv ==
    ASSUME EDF!SchedulerAssumption, EDF!Init
    PROVE  DeadlineInv
<1>1. /\ Main \in Slot /\ Idle \notin Slot /\ MaxDeadline \in Nat
      /\ deadline = [t \in AnyThread |-> IF t = Idle THEN MaxDeadline + 1 ELSE 1]
      /\ list = <<Main, Idle>> /\ edfFlags = [t \in AnyThread |-> {}] /\ edfCur = Main
      /\ edfPaused = FALSE /\ edfSkew = FALSE /\ edfAt = [t \in Slot |-> "code"]
    BY DEF EDF!SchedulerAssumption, EDF!Init, EDF!IdleDeadline, AnyThread
<1>2. Main \in AnyThread /\ Idle \in AnyThread /\ Main # Idle
    BY <1>1 DEF AnyThread
<1>3. deadline[Main] = 1 /\ deadline[Idle] = MaxDeadline + 1
    BY <1>1, <1>2
<1>4. list \in Seq(AnyThread) /\ DOMAIN list = 1 .. 2 /\ list[1] = Main /\ list[2] = Idle
    BY <1>1, <1>2
<1>5. EdfTypes
    <2>1. deadline \in [AnyThread -> Int]
        BY <1>1
    <2>2. edfFlags \in [AnyThread -> SUBSET EdfFlags]
        BY <1>1
    <2>3. edfAt \in [Slot -> {"code", "yield", "reap"}]
        BY <1>1
    <2>4. edfPaused \in BOOLEAN /\ edfSkew \in BOOLEAN
        BY <1>1
    <2> QED
        BY <1>4, <2>1, <2>2, <2>3, <2>4 DEF EdfTypes
<1>6. EdfList
    <2>1. Ordered(list, deadline)
        BY <1>1, <1>3, <1>4 DEF Ordered
    <2>2. IsInjective(list)
        BY <1>2, <1>4 DEF IsInjective
    <2>3. Contains(list, edfCur) /\ Contains(list, Idle)
        BY <1>1, <1>4 DEF Contains
    <2>4. edfFlags[Idle] = {}
        BY <1>1, <1>2
    <2> QED
        BY <2>1, <2>2, <2>3, <2>4 DEF EdfList
<1>7. NobodyCloser
    BY <1>1, <1>3, <1>4 DEF NobodyCloser, Contains
<1> QED
    BY <1>1, <1>5, <1>6, <1>7 DEF DeadlineInv, EdfInv, Closest, PausedByCode

LEMMA NextDeadlineInv ==
    ASSUME EDF!SchedulerAssumption, DeadlineInv, [EDF!Next]_(EDF!vars)
    PROVE  DeadlineInv'
<1> USE DEF DeadlineInv
<1>1. MaxDeadline \in Nat
    BY DEF EDF!SchedulerAssumption
<1>2. CASE UNCHANGED EDF!vars
    <2>1. EdfTypes' /\ EdfList'
        BY <1>2 DEF EDF!vars, EdfInv, EdfTypes, EdfList, Ordered
    <2>2. Closest' /\ PausedByCode'
        BY <1>2 DEF EDF!vars, EdfInv, Closest, NobodyCloser, PausedByCode
    <2> QED
        BY <2>1, <2>2 DEF EdfInv
<1>3. CASE EDF!Next
    <2>1. CASE EDF!idleThread \/ \E c \in Slot : EDF!joinReaps(c)
        BY <1>3, <2>1, EdfReapStep, PausedByCodeStep
    <2>2. CASE \E woken \in SUBSET Slot \ {{}} : EDF!Tick(woken)
        BY <1>3, <2>2, EdfTickStep, PausedByCodeStep
    <2>3. CASE \E t \in Slot : EDF!Device(t)
        BY <1>3, <2>3, EdfDeviceStep, PausedByCodeStep
    <2>4. CASE \E c, t \in Slot, d \in EDF!Requested : EDF!create(c, t, d)
        BY <1>1, <1>3, <2>4, EdfCreateStep, PausedByCodeStep
    <2>5. CASE \E c \in Slot, d \in EDF!Deadline : EDF!setPriority(c, d)
        BY <1>1, <1>3, <2>5, EdfPriorityStep, PausedByCodeStep
    <2>6. CASE \E c \in Slot, flag \in {"WAIT", "SLEEP"} : EDF!Block(c, flag)
        BY <1>3, <2>6, EdfBlockStep, PausedByCodeStep
    <2>7. CASE \E c \in Slot : EDF!yield(c)
        <3>1. PICK c \in Slot : EDF!yield(c)
            BY <2>7
        <3>2. ~edfPaused
            BY <3>1 DEF EDF!yield, PausedByCode
        <3> QED
            BY <1>3, <3>1, <3>2, EdfYieldStep, PausedByCodeStep
    <2>8. CASE \E c, t \in Slot : EDF!wakeup(c, t)
        BY <1>3, <2>8, EdfWakeupStep, PausedByCodeStep
    <2>9. CASE \E c, t \in Slot, d \in EDF!Deadline : EDF!unlock(c, t, d)
        BY <1>1, <1>3, <2>9, EdfUnlockStep, PausedByCodeStep
    <2>10. CASE \E c \in Slot : EDF!pauseKernel(c) \/ EDF!restartKernel(c)
        BY <1>3, <2>10, EdfPauseStep, PausedByCodeStep
    <2>11. CASE \E c, o \in Slot : EDF!inherit(c, o)
        BY <1>3, <2>11, EdfInheritStep, PausedByCodeStep
    <2>12. CASE \E c \in Slot, S \in SUBSET Slot : EDF!signal(c, S)
        BY <1>3, <2>12, EdfSignalStep, PausedByCodeStep
    <2>13. CASE \E c \in Slot, S \in SUBSET Slot : EDF!joinableReturns(c, S) \/ EDF!threadReturns(c)
        BY <1>3, <2>13, EdfReturnStep, PausedByCodeStep
    <2>14. CASE \E c, t \in Slot : EDF!WakesAndGoesOn(c, t)
        BY <1>3, <2>14, EdfGoesOnStep, PausedByCodeStep
    <2>17. CASE \E c, t \in Slot : EDF!joinTakes(c, t) \/ EDF!detachEnded(c, t)
        BY <1>3, <2>17, EdfMarkStep, PausedByCodeStep
    <2>15. EDF!Waiting \in SUBSET Slot
        BY DEF EDF!Waiting
    <2>16. ASSUME NEW c \in Slot, NEW S \in {{}} \union {{t} : t \in EDF!Waiting} PROVE S \in SUBSET Slot
        BY <2>15
    <2> QED
        BY <1>3, <2>1, <2>2, <2>3, <2>4, <2>5, <2>6, <2>7, <2>8, <2>9, <2>10, <2>11, <2>12, <2>13,
           <2>14, <2>15, <2>16, <2>17
           DEF EDF!Next, EDF!wait, EDF!sleep, EDF!fastUnlock, EDF!queueOperation, EDF!detach, EDF!PKwakeup
<1> QED
    BY <1>2, <1>3

LEMMA ClosestRuns ==
    ASSUME DeadlineInv
    PROVE  EDF!EarliestRuns
<1>1. EDF!ListOrdered
    BY DEF DeadlineInv, EdfInv, EdfList, Ordered, EDF!ListOrdered, EDF!Listed,
           EDF!IsInjective, IsInjective, EDF!Contains, Contains
<1>2. EDF!FirstRuns
    <2>1. SUFFICES ASSUME ~edfPaused, edfCur = Idle \/ edfAt[edfCur] # "yield",
                          NEW t \in ToSet(list) \ overlooked, edfFlags[t] = {}
                   PROVE  deadline[edfCur] <= deadline[t]
        BY DEF EDF!FirstRuns, EDF!Ready, EDF!ToSet, ToSet
    <2>2. Contains(list, t)
        <3>1. list \in Seq(AnyThread)
            BY DEF DeadlineInv, EdfInv, EdfTypes
        <3> QED
            BY <2>1, <3>1, ListMembers
    <2> QED
        BY <2>1, <2>2 DEF DeadlineInv, EdfInv, Closest, NobodyCloser
<1> QED
    BY <1>1, <1>2 DEF EDF!EarliestRuns

(* EarliestRuns, for any threads and any deadlines: the list is ordered by *)
(* deadline through every create, setPriority, inheritance, unlock and     *)
(* reaping, and, with the kernel running, no ready thread has a closer     *)
(* deadline than the one that runs code, but for those that an operation   *)
(* without a yield has overlooked since the scheduler last looked.         *)
THEOREM ClosestDeadlineRuns == EDF!Spec => []EarliestRuns
<1>1. EDF!Init => DeadlineInv
    BY SchedulerAssumptions, InitDeadlineInv
<1>2. DeadlineInv /\ [EDF!Next]_(EDF!vars) => DeadlineInv'
    BY SchedulerAssumptions, NextDeadlineInv
<1>3. DeadlineInv => EarliestRuns
    BY ClosestRuns DEF EarliestRuns
<1> QED
    BY <1>1, <1>2, <1>3, PTL DEF EDF!Spec

-----------------------------------------------------------------------------
(* The scheduler of the bursts, in a kernel that is built with it.         *)
LEMMA ControlConstants ==
    Main \in ControlThreads /\ Idle \notin ControlThreads /\ ControlPriority \in Nat
BY SchedulerAssumptions DEF Control!SchedulerAssumption

ControlFlags == {"WAIT", "SLEEP", "DELETED", "DETACHED"}

ControlTypes ==
    /\ threadList \in Seq(ControlThreads)
    /\ priority \in [ControlThreads -> Nat]
    /\ ctlFlags \in [ControlThreads -> SUBSET ControlFlags]
    /\ ctlAt \in [ControlThreads \union {Idle} -> {"code", "yield", "reap"}]

(* The main thread, which is never dead, is the last of the list: so every *)
(* walk of PKremoveDeadThreads ends.                                       *)
MainIsLast ==
    /\ threadList # <<>> /\ threadList[Len(threadList)] = Main
    /\ "DELETED" \notin ctlFlags[Main]

(* The one that frees dead threads is not dead.                            *)
ReapersLive == \A t \in ControlThreads : ctlAt[t] = "reap" => "DELETED" \notin ctlFlags[t]

RunsInRound ==
    /\ curInRound = IF ctlCur = Idle THEN NoThread ELSE ctlCur
    /\ ctlCur = Idle \/ Contains(threadList, ctlCur)

RoundInv == ControlTypes /\ IsInjective(threadList) /\ MainIsLast /\ ReapersLive /\ RunsInRound

ShareOf(t) == IF ctlFlags[t] \subseteq {"DETACHED"} THEN priority[t] + 1 ELSE 0

SharesTold ==
    (\E t : Contains(threadList, t) /\ ctlFlags[t] \subseteq {"DETACHED"}) =>
        \A t : Contains(threadList, t) => alfa[t] = ShareOf(t)

RegulatorInv == SP_Tr = Len(threadList) /\ SharesTold

ControlInv == RoundInv /\ RegulatorInv

-----------------------------------------------------------------------------
(* IRQrecalculateAlfa leaves true shares behind it, whatever came before.  *)
LEMMA Recalculated ==
    ASSUME threadList' \in Seq(ControlThreads), priority' \in [ControlThreads -> Nat], Control!IRQrecalculateAlfa
    PROVE  SharesTold'
<1>1. \A t : Contains(threadList', t) <=> t \in ToSet(threadList')
    BY ListMembers
<1>2. \A t : Contains(threadList', t) => t \in ControlThreads
    BY ListMembers
<1>3. /\ \A t : Control!Share(t)' = (IF ctlFlags'[t] \subseteq {"DETACHED"} THEN priority'[t] + 1 ELSE 0)
      /\ \A t : ShareOf(t)' = (IF ctlFlags'[t] \subseteq {"DETACHED"} THEN priority'[t] + 1 ELSE 0)
    BY DEF Control!Share, Control!Ready, ShareOf
<1>4. SUFFICES ASSUME NEW r, Contains(threadList', r), ctlFlags'[r] \subseteq {"DETACHED"},
                      NEW t, Contains(threadList', t)
               PROVE  alfa'[t] = ShareOf(t)'
    BY DEF SharesTold
<1>5. Control!Share(r)' > 0
    <2>1. priority'[r] \in Nat
        BY <1>2, <1>4
    <2> QED
        BY <1>3, <1>4, <2>1
<1>6. alfa' = [u \in ControlThreads |-> IF Contains(threadList', u) THEN Control!Share(u)' ELSE alfa[u]]
    BY <1>1, <1>4, <1>5 DEF Control!IRQrecalculateAlfa, Control!ToSet, ToSet, Control!Contains, Contains
<1>7. t \in ControlThreads
    BY <1>2, <1>4
<1>8. alfa'[t] = Control!Share(t)'
    BY <1>4, <1>6, <1>7
<1> QED
    BY <1>3, <1>8

(* The shares stay true when nothing changes who is ready.                 *)
LEMMA SharesStay ==
    ASSUME SharesTold, UNCHANGED <<threadList, alfa, priority>>,
           \A t : Contains(threadList, t) =>
                (ctlFlags'[t] \subseteq {"DETACHED"} <=> ctlFlags[t] \subseteq {"DETACHED"})
    PROVE  SharesTold'
BY DEF SharesTold, ShareOf

(* Who is the next to run.                                                 *)
LEMMA NextInRound ==
    ASSUME RunsInRound, threadList \in Seq(ControlThreads), UNCHANGED threadList, Control!IRQfindNextThread
    PROVE  RunsInRound'
<1> DEFINE ready == {i \in DOMAIN threadList : ctlFlags'[threadList[i]] \subseteq {"DETACHED"}}
           behind == {i \in ready : i > Control!Place}
           from == IF behind # {} THEN behind ELSE ready
           m == Control!Min(from)
<1>1. CASE ctlPaused
    <2>1. UNCHANGED <<ctlCur, curInRound>>
        BY <1>1 DEF Control!IRQfindNextThread
    <2> QED
        BY <2>1 DEF RunsInRound
<1>2. CASE ~ctlPaused /\ ctlCur' = Idle /\ curInRound' = NoThread
    BY <1>2 DEF RunsInRound
<1>3. CASE ready # {} /\ curInRound' = threadList[m] /\ ctlCur' = curInRound'
    <2>1. from # {} /\ from \subseteq DOMAIN threadList /\ DOMAIN threadList = 1 .. Len(threadList)
          /\ Len(threadList) \in Nat
        BY <1>3
    <2> HIDE DEF from
    <2>2. from \in SUBSET (0 .. Len(threadList))
        BY <2>1
    <2>3. \E i \in from : \A j \in from : i <= j
        BY <2>1, <2>2, LeastExists
    <2>4. m \in from
        BY <2>3 DEF Control!Min
    <2> HIDE DEF m
    <2>5. ctlCur' = threadList[m] /\ m \in 1 .. Len(threadList)
        BY <1>3, <2>1, <2>4
    <2>6. Contains(threadList, ctlCur') /\ ctlCur' \in ControlThreads
        BY <2>5 DEF Contains
    <2>7. ctlCur' # Idle
        BY <2>6, ControlConstants
    <2> QED
        BY <1>3, <2>6, <2>7 DEF RunsInRound
<1>4. ~ctlPaused => \/ ctlCur' = Idle /\ curInRound' = NoThread
                    \/ ready # {} /\ curInRound' = threadList[m] /\ ctlCur' = curInRound'
    BY DEF Control!IRQfindNextThread, Control!RunIdle
<1> HIDE DEF m, ready
<1> QED
    BY <1>1, <1>2, <1>3, <1>4

-----------------------------------------------------------------------------
(* What PKremoveDeadThreads leaves.                                        *)
LEMMA HeadOfList ==
    ASSUME NEW s \in Seq(ControlThreads), IsInjective(s), s # <<>>, ~Control!Deleted(s[Len(s)])
    PROVE  LET h == Control!HeadGone(s)
           IN  /\ h \in Seq(ControlThreads) /\ IsInjective(h) /\ h # <<>> /\ h[Len(h)] = s[Len(s)]
               /\ \A u : Contains(h, u) => Contains(s, u)
               /\ \A u : Contains(s, u) /\ ~Control!Deleted(u) => Contains(h, u)
<1> DEFINE n == Len(s)
           S == {i \in 1 .. n : ~Control!Deleted(s[i])}
           Here(i) == ~Control!Deleted(s[i]) /\ \A j \in 1 .. i - 1 : Control!Deleted(s[j])
           p == CHOOSE i \in 1 .. n : Here(i)
           h == SubSeq(s, p, n)
<1>1. n \in Nat /\ DOMAIN s = 1 .. n /\ n # 0
    <2>1. n \in Nat /\ DOMAIN s = 1 .. n
        OBVIOUS
    <2>2. n # 0
        OBVIOUS
    <2> QED
        BY <2>1, <2>2
<1>2. Control!HeadGone(s) = h
    BY <1>1 DEF Control!HeadGone
<1>3. n \in S
    BY <1>1
<1> HIDE DEF n
<1>4. S \in SUBSET (0 .. n) /\ S # {}
    BY <1>1, <1>3
<1>5. PICK i \in S : \A j \in S : i <= j
    BY <1>1, <1>4, LeastExists
<1>6. \A j \in 1 .. i - 1 : Control!Deleted(s[j])
    <2> TAKE j \in 1 .. i - 1
    <2>1. j \in 1 .. n /\ ~(i <= j)
        BY <1>1, <1>5
    <2> QED
        BY <1>5, <2>1
<1>7. i \in 1 .. n /\ Here(i)
    BY <1>5, <1>6
<1> HIDE DEF Here
<1>8. p \in 1 .. n /\ Here(p)
    BY <1>7
<1> HIDE DEF p
<1>9. h \in Seq(ControlThreads) /\ Len(h) = n - p + 1 /\ \A x \in 1 .. n - p + 1 : h[x] = s[x + p - 1]
    <2>1. p \in Int /\ Len(s) \in Int /\ 1 <= p /\ p <= Len(s) + 1 /\ Len(s) <= Len(s)
        BY <1>1, <1>8 DEF n
    <2>2. /\ SubSeq(s, p, Len(s)) \in Seq(ControlThreads) /\ Len(SubSeq(s, p, Len(s))) = Len(s) - p + 1
          /\ \A x \in 1 .. Len(SubSeq(s, p, Len(s))) : SubSeq(s, p, Len(s))[x] = s[x + p - 1]
        BY <2>1, Piece
    <2> HIDE DEF h
    <2>3. h = SubSeq(s, p, Len(s))
        BY DEF h, n
    <2> QED
        BY <2>2, <2>3 DEF n
<1> HIDE DEF h
<1>10. DOMAIN h = 1 .. n - p + 1 /\ n - p + 1 \in Nat /\ n - p + 1 >= 1
    BY <1>1, <1>8, <1>9
<1>11. IsInjective(h)
    <2>1. SUFFICES ASSUME NEW x \in 1 .. n - p + 1, NEW y \in 1 .. n - p + 1, h[x] = h[y] PROVE x = y
        BY <1>10 DEF IsInjective
    <2>2. x + p - 1 \in 1 .. n /\ y + p - 1 \in 1 .. n /\ s[x + p - 1] = s[y + p - 1]
        BY <1>1, <1>8, <1>9, <2>1
    <2>3. x + p - 1 = y + p - 1
        BY <1>1, <2>2 DEF IsInjective
    <2> QED
        BY <1>8, <2>3
<1>12. h # <<>> /\ h[Len(h)] = s[n]
    <2>1. Len(h) # 0 /\ Len(h) \in 1 .. n - p + 1 /\ Len(h) + p - 1 = n
        BY <1>1, <1>8, <1>9, <1>10
    <2>2. h[Len(h)] = s[n]
        BY <1>9, <2>1
    <2> QED
        BY <1>9, <2>1, <2>2
<1>13. ASSUME NEW u, Contains(h, u) PROVE Contains(s, u)
    <2>1. PICK x \in 1 .. n - p + 1 : h[x] = u
        BY <1>9, <1>13 DEF Contains
    <2>2. x + p - 1 \in 1 .. n /\ s[x + p - 1] = u
        BY <1>1, <1>8, <1>9, <2>1
    <2> QED
        BY <2>2 DEF Contains, n
<1>14. ASSUME NEW u, Contains(s, u), ~Control!Deleted(u) PROVE Contains(h, u)
    <2>1. PICK x \in 1 .. n : s[x] = u
        BY <1>14 DEF Contains, n
    <2>2. ~(x \in 1 .. p - 1)
        BY <1>8, <1>14, <2>1 DEF Here
    <2>3. x - p + 1 \in 1 .. n - p + 1 /\ (x - p + 1) + p - 1 = x
        BY <1>1, <1>8, <2>1, <2>2
    <2>4. h[x - p + 1] = u
        BY <1>9, <2>1, <2>3
    <2> QED
        BY <1>9, <2>3, <2>4 DEF Contains
<1> QED
    BY <1>2, <1>9, <1>11, <1>12, <1>13, <1>14 DEF n

LEMMA LiveSurvive ==
    ASSUME NEW s \in Seq(ControlThreads), IsInjective(s), s # <<>>, ~Control!Deleted(s[Len(s)])
    PROVE  LET l == Control!Survivors(s)
           IN  /\ l \in Seq(ControlThreads) /\ IsInjective(l) /\ l # <<>> /\ l[Len(l)] = s[Len(s)]
               /\ \A u : Contains(s, u) /\ ~Control!Deleted(u) => Contains(l, u)
<1> DEFINE S == {i \in DOMAIN s : Control!RunBefore(s, i) % 2 = 0}
           l == Keeping(s, S)
<1>1. Control!Survivors(s) = l
    BY DEF Control!Survivors, Control!Keeping, Keeping, Control!SeqOf, SeqOf, Control!ToSet, ToSet
<1>2. ASSUME NEW i \in DOMAIN s, ~Control!Deleted(s[i])
      PROVE  i \in S
    <2> DEFINE Run(j) == ~Control!Deleted(s[j]) /\ \A k \in j + 1 .. i : Control!Deleted(s[k])
               r == CHOOSE j \in 1 .. i : Run(j)
    <2>1. i \in Nat /\ i >= 1
        OBVIOUS
    <2>2. Run(i) /\ i \in 1 .. i
        BY <1>2, <2>1
    <2>3. \A j \in 1 .. i : Run(j) => j = i
        <3>1. SUFFICES ASSUME NEW j \in 1 .. i, j # i, Run(j) PROVE FALSE
            OBVIOUS
        <3>2. i \in j + 1 .. i
            BY <2>1, <3>1
        <3> QED
            BY <1>2, <3>1, <3>2
    <2>4. Control!RunBefore(s, i) = i - r
        BY DEF Control!RunBefore
    <2> HIDE DEF Run
    <2>5. r = i
        BY <2>2, <2>3
    <2> HIDE DEF r
    <2>6. Control!RunBefore(s, i) = 0
        BY <2>1, <2>4, <2>5
    <2> QED
        BY <2>6
<1>3. Len(s) \in DOMAIN s
    <2>1. Len(s) # 0
        OBVIOUS
    <2> QED
        BY <2>1
<1>4. S \subseteq DOMAIN s /\ Len(s) \in S
    BY <1>2, <1>3
<1> HIDE DEF S
<1>5. /\ l \in Seq(ControlThreads) /\ (IsInjective(s) => IsInjective(l))
      /\ \A u : Contains(l, u) <=> \E i \in S : s[i] = u
      /\ Len(s) \in S => l # <<>> /\ l[Len(l)] = s[Len(s)]
    BY <1>4, KeepingList
<1> HIDE DEF l
<1>6. ASSUME NEW u, Contains(s, u), ~Control!Deleted(u) PROVE Contains(l, u)
    <2>1. PICK i \in DOMAIN s : s[i] = u
        BY <1>6 DEF Contains
    <2> QED
        BY <1>2, <1>5, <1>6, <2>1
<1> QED
    BY <1>1, <1>4, <1>5, <1>6

-----------------------------------------------------------------------------
(* The operations.  Most leave the list, or who runs, alone.               *)
LEMMA ListUnmoved ==
    ASSUME RoundInv, UNCHANGED threadList, priority' \in [ControlThreads -> Nat],
           ctlFlags' \in [ControlThreads -> SUBSET ControlFlags],
           ctlAt' \in [ControlThreads \union {Idle} -> {"code", "yield", "reap"}],
           "DELETED" \notin ctlFlags'[Main], ReapersLive', RunsInRound'
    PROVE  RoundInv'
BY DEF RoundInv, ControlTypes, MainIsLast, IsInjective

LEMMA SameRuns ==
    ASSUME RunsInRound, UNCHANGED <<threadList, ctlCur, curInRound>>
    PROVE  RunsInRound'
BY DEF RunsInRound

LEMMA ControlFlagsSet ==
    ASSUME ControlTypes, NEW t \in ControlThreads, NEW set \in SUBSET ControlFlags,
           ctlFlags' = [ctlFlags EXCEPT ![t] = set]
    PROVE  /\ ctlFlags' \in [ControlThreads -> SUBSET ControlFlags]
           /\ ctlFlags'[t] = set /\ \A u \in ControlThreads : u # t => ctlFlags'[u] = ctlFlags[u]
BY DEF ControlTypes

LEMMA ControlAtSet ==
    ASSUME ControlTypes, NEW c \in ControlThreads \union {Idle}, NEW v \in {"code", "yield", "reap"},
           ctlAt' = [ctlAt EXCEPT ![c] = v]
    PROVE  /\ ctlAt' \in [ControlThreads \union {Idle} -> {"code", "yield", "reap"}]
           /\ ctlAt'[c] = v /\ \A u \in ControlThreads \union {Idle} : u # c => ctlAt'[u] = ctlAt[u]
BY DEF ControlTypes

LEMMA ControlCode ==
    ASSUME ControlInv, NEW c \in ControlThreads, Control!InCode(c)
    PROVE  /\ ctlCur = c /\ c # Idle /\ Contains(threadList, c) /\ "DELETED" \notin ctlFlags[c]
           /\ ctlAt[c] = "code"
BY ControlConstants DEF ControlInv, RoundInv, RunsInRound, Control!InCode, Control!Ready

LEMMA ControlCreateStep ==
    ASSUME ControlInv, NEW c \in ControlThreads, NEW t \in ControlThreads, NEW p \in Control!Requested,
           NEW options \in {{}, {"DETACHED"}}, Control!create(c, t, p, options)
    PROVE  ControlInv'
<1>1. /\ threadList' = <<t>> \o threadList /\ SP_Tr' = SP_Tr + 1
      /\ priority' = [priority EXCEPT ![t] = p] /\ ctlFlags' = [ctlFlags EXCEPT ![t] = options]
      /\ ctlAt' = [ctlAt EXCEPT ![t] = "code"] /\ UNCHANGED <<curInRound, ctlCur>>
      /\ Control!IRQrecalculateAlfa /\ p \in Nat /\ ~Contains(threadList, t)
    BY ControlConstants DEF Control!create, Control!validate, Control!Listed, Control!Contains, Contains
<1>2. /\ threadList \in Seq(ControlThreads) /\ IsInjective(threadList) /\ Len(threadList) # 0
      /\ threadList[Len(threadList)] = Main /\ SP_Tr = Len(threadList) /\ Len(threadList) \in Nat
    <2>1. threadList \in Seq(ControlThreads) /\ threadList # <<>>
        BY DEF ControlInv, RoundInv, ControlTypes, MainIsLast
    <2>2. Len(threadList) # 0
        BY <2>1
    <2> QED
        BY <2>1, <2>2 DEF ControlInv, RoundInv, RegulatorInv, MainIsLast
<1>3. /\ threadList' \in Seq(ControlThreads) /\ Len(threadList') = Len(threadList) + 1
      /\ threadList'[1] = t /\ \A i \in 1 .. Len(threadList) : threadList'[i + 1] = threadList[i]
    <2> DEFINE o == <<t>>
    <2>1. o \in Seq(ControlThreads) /\ Len(o) = 1 /\ o[1] = t
        OBVIOUS
    <2>2. threadList' = o \o threadList
        BY <1>1
    <2> HIDE DEF o
    <2>3. /\ o \o threadList \in Seq(ControlThreads) /\ Len(o \o threadList) = Len(o) + Len(threadList)
          /\ \A i \in 1 .. Len(o \o threadList) :
                (o \o threadList)[i] = IF i <= Len(o) THEN o[i] ELSE threadList[i - Len(o)]
        BY <1>2, <2>1, Concatenation
    <2>4. /\ threadList' \in Seq(ControlThreads) /\ Len(threadList') = Len(threadList) + 1
          /\ \A i \in 1 .. Len(threadList) + 1 : threadList'[i] = IF i <= 1 THEN o[i] ELSE threadList[i - 1]
        BY <1>2, <2>1, <2>2, <2>3
    <2>5. threadList'[1] = t
        BY <1>2, <2>1, <2>4
    <2>6. ASSUME NEW i \in 1 .. Len(threadList) PROVE threadList'[i + 1] = threadList[i]
        <3>1. i + 1 \in 1 .. Len(threadList) + 1 /\ ~(i + 1 <= 1) /\ (i + 1) - 1 = i
            BY <1>2
        <3> QED
            BY <2>4, <3>1
    <2> QED
        BY <2>4, <2>5, <2>6
<1> DEFINE n == Len(threadList)
<1>4. /\ DOMAIN threadList' = 1 .. n + 1 /\ DOMAIN threadList = 1 .. n /\ n \in Nat /\ n # 0
      /\ \A i \in 1 .. n + 1 : i # 1 => i - 1 \in 1 .. n /\ threadList'[i] = threadList[i - 1]
    BY <1>2, <1>3
<1>5. \A u : Contains(threadList', u) <=> Contains(threadList, u) \/ u = t
    <2>1. \A u : Contains(threadList, u) <=> \E i \in 1 .. n : threadList[i] = u
        BY DEF Contains
    <2>2. \A u : Contains(threadList', u) <=> \E i \in 1 .. n + 1 : threadList'[i] = u
        BY <1>3 DEF Contains
    <2>3. ASSUME NEW i \in 1 .. n PROVE i + 1 \in 1 .. n + 1 /\ threadList'[i + 1] = threadList[i]
        BY <1>3, <1>4
    <2>4. 1 \in 1 .. n + 1 /\ threadList'[1] = t
        BY <1>3, <1>4
    <2> HIDE DEF n
    <2> QED
        BY <1>4, <2>1, <2>2, <2>3, <2>4
<1>6. IsInjective(threadList')
    <2>1. \A i \in 1 .. n : threadList[i] # t
        BY <1>1 DEF Contains
    <2>2. \A i, j \in 1 .. n : threadList[i] = threadList[j] => i = j
        BY <1>2, <1>4 DEF IsInjective
    <2>3. ASSUME NEW i \in 1 .. n + 1, NEW j \in 1 .. n + 1, threadList'[i] = threadList'[j] PROVE i = j
        <3>1. CASE i = 1 /\ j = 1
            BY <3>1
        <3>2. CASE i = 1 /\ j # 1
            BY <1>3, <1>4, <2>1, <2>3, <3>2
        <3>3. CASE i # 1 /\ j = 1
            BY <1>3, <1>4, <2>1, <2>3, <3>3
        <3>4. CASE i # 1 /\ j # 1
            <4>1. i - 1 = j - 1
                BY <1>4, <2>2, <2>3, <3>4
            <4> QED
                BY <4>1
        <3> QED
            BY <3>1, <3>2, <3>3, <3>4
    <2> QED
        BY <1>4, <2>3 DEF IsInjective
<1>7. t # Main /\ t \in ControlThreads
    <2>1. n \in 1 .. Len(threadList)
        BY <1>4
    <2> QED
        BY <1>1, <1>2, <2>1 DEF Contains
<1>8. /\ ctlFlags' \in [ControlThreads -> SUBSET ControlFlags] /\ ctlFlags'[t] = options
      /\ \A u \in ControlThreads : u # t => ctlFlags'[u] = ctlFlags[u]
    <2>1. options \in SUBSET ControlFlags
        BY DEF ControlFlags
    <2> QED
        BY <1>1, <2>1, ControlFlagsSet DEF ControlInv, RoundInv
<1>9. /\ ctlAt' \in [ControlThreads \union {Idle} -> {"code", "yield", "reap"}] /\ ctlAt'[t] = "code"
      /\ \A u \in ControlThreads : u # t => ctlAt'[u] = ctlAt[u]
    BY <1>1, ControlAtSet DEF ControlInv, RoundInv
<1>10. ControlTypes'
    BY <1>1, <1>3, <1>8, <1>9 DEF ControlInv, RoundInv, ControlTypes
<1>11. MainIsLast'
    <2>1. threadList'[Len(threadList')] = Main
        BY <1>2, <1>3, <1>4
    <2>2. threadList' # <<>>
        BY <1>3, <1>4
    <2>3. "DELETED" \notin ctlFlags'[Main]
        BY <1>7, <1>8, ControlConstants DEF ControlInv, RoundInv, MainIsLast
    <2> QED
        BY <2>1, <2>2, <2>3 DEF MainIsLast
<1>12. ReapersLive'
    BY <1>8, <1>9 DEF ControlInv, RoundInv, ReapersLive
<1>13. RunsInRound'
    BY <1>1, <1>5 DEF ControlInv, RoundInv, RunsInRound
<1>14. RegulatorInv'
    <2>1. priority' \in [ControlThreads -> Nat]
        BY <1>10 DEF ControlTypes
    <2>2. SharesTold'
        BY <1>1, <1>3, <2>1, Recalculated
    <2> QED
        BY <1>1, <1>2, <1>3, <2>2 DEF RegulatorInv
<1> QED
    BY <1>6, <1>10, <1>11, <1>12, <1>13, <1>14 DEF ControlInv, RoundInv

LEMMA ControlPriorityStep ==
    ASSUME ControlInv, NEW c \in ControlThreads, NEW p \in 0 .. ControlPriority, Control!setPriority(c, p)
    PROVE  ControlInv'
<1>1. /\ priority' = [priority EXCEPT ![c] = p] /\ Control!IRQrecalculateAlfa
      /\ UNCHANGED <<threadList, SP_Tr, curInRound, ctlCur, ctlFlags, ctlAt>>
    BY DEF Control!setPriority, Control!listVars
<1>2. priority' \in [ControlThreads -> Nat] /\ threadList' \in Seq(ControlThreads)
    BY <1>1, ControlConstants DEF ControlInv, RoundInv, ControlTypes
<1>3. RoundInv'
    <2>1. RunsInRound' /\ ReapersLive'
        BY <1>1 DEF ControlInv, RoundInv, RunsInRound, ReapersLive
    <2>2. /\ ctlFlags' \in [ControlThreads -> SUBSET ControlFlags] /\ "DELETED" \notin ctlFlags'[Main]
          /\ ctlAt' \in [ControlThreads \union {Idle} -> {"code", "yield", "reap"}]
        BY <1>1 DEF ControlInv, RoundInv, ControlTypes, MainIsLast
    <2> QED
        BY <1>1, <1>2, <2>1, <2>2, ListUnmoved DEF ControlInv
<1>4. SharesTold'
    BY <1>1, <1>2, Recalculated
<1> QED
    BY <1>1, <1>3, <1>4 DEF ControlInv, RegulatorInv

(* Every change of the flags that goes through the hook.                   *)
LEMMA HookedFlags ==
    ASSUME ControlInv, UNCHANGED <<threadList, SP_Tr, priority>>, Control!IRQrecalculateAlfa,
           ctlFlags' \in [ControlThreads -> SUBSET ControlFlags],
           ctlAt' \in [ControlThreads \union {Idle} -> {"code", "yield", "reap"}],
           \A t \in ControlThreads : "DELETED" \in ctlFlags'[t] =>
                \/ "DELETED" \in ctlFlags[t] /\ ctlAt'[t] = ctlAt[t]
                \/ t # Main /\ ctlAt'[t] = "yield",
           \A t \in ControlThreads : ctlAt'[t] = "reap" => ctlAt[t] = "reap",
           RunsInRound'
    PROVE  ControlInv'
<1>1. priority' \in [ControlThreads -> Nat] /\ threadList' \in Seq(ControlThreads)
    BY DEF ControlInv, RoundInv, ControlTypes
<1>2. "DELETED" \notin ctlFlags'[Main]
    BY ControlConstants DEF ControlInv, RoundInv, MainIsLast
<1>3. ReapersLive'
    BY DEF ControlInv, RoundInv, ReapersLive
<1>4. RoundInv'
    BY <1>1, <1>2, <1>3, ListUnmoved DEF ControlInv
<1>5. SharesTold'
    BY <1>1, Recalculated
<1> QED
    BY <1>4, <1>5 DEF ControlInv, RegulatorInv

LEMMA ControlStopStep ==
    ASSUME ControlInv, NEW c \in ControlThreads, NEW flag \in {"WAIT", "SLEEP", "DELETED"},
           flag = "DELETED" => c # Main, Control!Stop(c, flag)
    PROVE  ControlInv'
<1>1. /\ ctlFlags' = [ctlFlags EXCEPT ![c] = ctlFlags[c] \union {flag}]
      /\ ctlAt' = [ctlAt EXCEPT ![c] = "yield"] /\ Control!IRQrecalculateAlfa
      /\ UNCHANGED <<threadList, SP_Tr, priority, ctlCur, curInRound>>
    BY DEF Control!Stop, Control!SetFlags, Control!listVars
<1>2. ctlFlags[c] \union {flag} \in SUBSET ControlFlags
    BY DEF ControlInv, RoundInv, ControlTypes, ControlFlags
<1>3. /\ ctlFlags' \in [ControlThreads -> SUBSET ControlFlags] /\ ctlFlags'[c] = ctlFlags[c] \union {flag}
      /\ \A u \in ControlThreads : u # c => ctlFlags'[u] = ctlFlags[u]
    BY <1>1, <1>2, ControlFlagsSet DEF ControlInv, RoundInv
<1>4. /\ ctlAt' \in [ControlThreads \union {Idle} -> {"code", "yield", "reap"}] /\ ctlAt'[c] = "yield"
      /\ \A u \in ControlThreads : u # c => ctlAt'[u] = ctlAt[u]
    BY <1>1, ControlAtSet DEF ControlInv, RoundInv
<1>5. "DELETED" \notin ctlFlags[c]
    BY ControlCode DEF Control!Stop
<1>6. RunsInRound'
    BY <1>1 DEF ControlInv, RoundInv, RunsInRound
<1>7. \A t \in ControlThreads : "DELETED" \in ctlFlags'[t] =>
          \/ "DELETED" \in ctlFlags[t] /\ ctlAt'[t] = ctlAt[t]
          \/ t # Main /\ ctlAt'[t] = "yield"
    BY <1>3, <1>4, <1>5
<1>8. \A t \in ControlThreads : ctlAt'[t] = "reap" => ctlAt[t] = "reap"
    BY <1>4
<1> QED
    BY <1>1, <1>3, <1>4, <1>6, <1>7, <1>8, HookedFlags

(* Flags are taken away, by a wakeup, a device or a tick.                  *)
LEMMA FlagsTaken ==
    ASSUME ControlInv, UNCHANGED <<threadList, SP_Tr, priority, ctlAt>>, Control!IRQrecalculateAlfa,
           ctlFlags' \in [ControlThreads -> SUBSET ControlFlags],
           \A t \in ControlThreads : ctlFlags'[t] \subseteq ctlFlags[t],
           UNCHANGED <<ctlCur, curInRound>> \/ Control!IRQfindNextThread
    PROVE  ControlInv'
<1>1. RunsInRound /\ threadList \in Seq(ControlThreads)
      /\ ctlAt' \in [ControlThreads \union {Idle} -> {"code", "yield", "reap"}]
    BY DEF ControlInv, RoundInv, ControlTypes
<1>2. RunsInRound'
    BY <1>1, NextInRound, SameRuns
<1> QED
    BY <1>1, <1>2, HookedFlags

LEMMA ControlWakeStep ==
    ASSUME ControlInv, NEW t \in ControlThreads, Control!SetFlags(t, ctlFlags[t] \ {"WAIT"}), UNCHANGED ctlAt,
           UNCHANGED <<ctlCur, curInRound>> \/ Control!IRQfindNextThread
    PROVE  ControlInv'
<1>1. /\ ctlFlags' = [ctlFlags EXCEPT ![t] = ctlFlags[t] \ {"WAIT"}] /\ Control!IRQrecalculateAlfa
      /\ UNCHANGED <<threadList, SP_Tr, priority>>
    BY DEF Control!SetFlags, Control!listVars
<1>2. ctlFlags[t] \ {"WAIT"} \in SUBSET ControlFlags
    BY DEF ControlInv, RoundInv, ControlTypes
<1>3. /\ ctlFlags' \in [ControlThreads -> SUBSET ControlFlags] /\ \A u \in ControlThreads : ctlFlags'[u] \subseteq ctlFlags[u]
    BY <1>1, <1>2, ControlFlagsSet DEF ControlInv, RoundInv
<1> QED
    BY <1>1, <1>3, FlagsTaken

LEMMA ControlTickStep ==
    ASSUME ControlInv, NEW woken \in SUBSET ControlThreads, Control!Tick(woken)
    PROVE  ControlInv'
<1>1. /\ ctlFlags' = [t \in ControlThreads |-> IF t \in woken THEN ctlFlags[t] \ {"SLEEP"} ELSE ctlFlags[t]]
      /\ Control!IRQrecalculateAlfa /\ UNCHANGED <<threadList, SP_Tr, priority, ctlAt>>
    BY DEF Control!Tick, Control!listVars
<1>2. UNCHANGED <<ctlCur, curInRound>> \/ Control!IRQfindNextThread
    BY DEF Control!Tick
<1>3. /\ ctlFlags' \in [ControlThreads -> SUBSET ControlFlags] /\ \A u \in ControlThreads : ctlFlags'[u] \subseteq ctlFlags[u]
    BY <1>1 DEF ControlInv, RoundInv, ControlTypes
<1> QED
    BY <1>1, <1>2, <1>3, FlagsTaken

LEMMA ControlJoinStep ==
    ASSUME ControlInv, NEW c \in ControlThreads, NEW t \in ControlThreads, Control!join(c, t)
    PROVE  ControlInv'
<1>1. /\ ctlFlags' = [ctlFlags EXCEPT ![t] = ctlFlags[t] \union {"DETACHED"}]
      /\ ctlAt' = [ctlAt EXCEPT ![c] = "reap"] /\ "DELETED" \in ctlFlags[t]
      /\ UNCHANGED <<threadList, SP_Tr, alfa, priority, ctlCur, curInRound>>
    BY DEF Control!join, Control!listVars
<1>2. ctlFlags[t] \union {"DETACHED"} \in SUBSET ControlFlags
    BY DEF ControlInv, RoundInv, ControlTypes, ControlFlags
<1>3. /\ ctlFlags' \in [ControlThreads -> SUBSET ControlFlags] /\ ctlFlags'[t] = ctlFlags[t] \union {"DETACHED"}
      /\ \A u \in ControlThreads : u # t => ctlFlags'[u] = ctlFlags[u]
    BY <1>1, <1>2, ControlFlagsSet DEF ControlInv, RoundInv
<1>4. /\ ctlAt' \in [ControlThreads \union {Idle} -> {"code", "yield", "reap"}] /\ ctlAt'[c] = "reap"
      /\ \A u \in ControlThreads : u # c => ctlAt'[u] = ctlAt[u]
    BY <1>1, ControlAtSet DEF ControlInv, RoundInv
<1>5. "DELETED" \notin ctlFlags[c] /\ c # t
    BY <1>1, ControlCode DEF Control!join
<1>6. \A u \in ControlThreads : "DELETED" \in ctlFlags'[u] => "DELETED" \in ctlFlags[u]
    BY <1>1, <1>3
<1>7. priority' \in [ControlThreads -> Nat] /\ threadList \in Seq(ControlThreads)
    BY <1>1 DEF ControlInv, RoundInv, ControlTypes
<1>8. RoundInv'
    <2>1. RunsInRound'
        BY <1>1, SameRuns DEF ControlInv, RoundInv
    <2>2. ReapersLive'
        BY <1>4, <1>5, <1>6 DEF ControlInv, RoundInv, ReapersLive
    <2>3. "DELETED" \notin ctlFlags'[Main]
        BY <1>6, ControlConstants DEF ControlInv, RoundInv, MainIsLast
    <2> QED
        BY <1>1, <1>3, <1>4, <1>7, <2>1, <2>2, <2>3, ListUnmoved DEF ControlInv
<1>9. SharesTold'
    <2>1. \A u : Contains(threadList, u) => u \in ControlThreads
        BY <1>7, ListMembers
    <2>2. \A u : Contains(threadList, u) =>
              (ctlFlags'[u] \subseteq {"DETACHED"} <=> ctlFlags[u] \subseteq {"DETACHED"})
        BY <1>1, <1>3, <2>1
    <2> QED
        BY <1>1, <2>2, SharesStay DEF ControlInv, RegulatorInv
<1> QED
    BY <1>1, <1>8, <1>9 DEF ControlInv, RegulatorInv

(* A step that leaves the flags and the list alone.                        *)
LEMMA ControlQuietStep ==
    ASSUME ControlInv, UNCHANGED <<threadList, SP_Tr, alfa, priority, ctlFlags>>,
           UNCHANGED <<ctlCur, curInRound>> \/ Control!IRQfindNextThread,
           ctlAt' \in [ControlThreads \union {Idle} -> {"code", "yield", "reap"}],
           \A t \in ControlThreads : ctlAt'[t] = "reap" => ctlAt[t] = "reap"
    PROVE  ControlInv'
<1>1. RunsInRound /\ threadList \in Seq(ControlThreads) /\ SharesTold /\ SP_Tr = Len(threadList)
    BY DEF ControlInv, RoundInv, ControlTypes, RegulatorInv
<1>2. RunsInRound'
    BY <1>1, NextInRound, SameRuns
<1>3. /\ priority' \in [ControlThreads -> Nat] /\ ctlFlags' \in [ControlThreads -> SUBSET ControlFlags]
      /\ "DELETED" \notin ctlFlags'[Main]
    BY DEF ControlInv, RoundInv, ControlTypes, MainIsLast
<1>4. ReapersLive'
    BY DEF ControlInv, RoundInv, ReapersLive
<1>5. RoundInv'
    BY <1>2, <1>3, <1>4, ListUnmoved DEF ControlInv
<1>6. SharesTold'
    BY <1>1, SharesStay
<1> QED
    BY <1>1, <1>5, <1>6 DEF ControlInv, RegulatorInv

LEMMA ControlReapStep ==
    ASSUME ControlInv, NEW c \in ControlThreads \union {Idle}, Control!reap(c)
    PROVE  ControlInv'
<1> DEFINE h == Control!HeadGone(threadList)
<1>1. /\ ctlCur = c /\ ctlAt[c] = "reap" /\ threadList' = Control!Survivors(h)
      /\ SP_Tr' = SP_Tr - (Len(threadList) - Len(threadList')) /\ Control!IRQrecalculateAlfa
      /\ ctlAt' = [ctlAt EXCEPT ![c] = "code"] /\ UNCHANGED <<curInRound, ctlCur, priority, ctlFlags>>
    BY DEF Control!reap, Control!PKremoveDeadThreads
<1>2. /\ threadList \in Seq(ControlThreads) /\ IsInjective(threadList) /\ threadList # <<>>
      /\ threadList[Len(threadList)] = Main /\ ~Control!Deleted(Main)
    BY DEF ControlInv, RoundInv, ControlTypes, MainIsLast, Control!Deleted
<1>3. /\ h \in Seq(ControlThreads) /\ IsInjective(h) /\ h # <<>> /\ h[Len(h)] = Main
      /\ \A u : Contains(threadList, u) /\ ~Control!Deleted(u) => Contains(h, u)
    BY <1>2, HeadOfList
<1> HIDE DEF h
<1>4. /\ threadList' \in Seq(ControlThreads) /\ IsInjective(threadList') /\ threadList' # <<>>
      /\ threadList'[Len(threadList')] = Main
      /\ \A u : Contains(threadList, u) /\ ~Control!Deleted(u) => Contains(threadList', u)
    BY <1>1, <1>2, <1>3, LiveSurvive
<1>5. /\ ctlAt' \in [ControlThreads \union {Idle} -> {"code", "yield", "reap"}]
      /\ ctlAt'[c] = "code" /\ \A u \in ControlThreads : u # c => ctlAt'[u] = ctlAt[u]
    BY <1>1, ControlAtSet DEF ControlInv, RoundInv
<1>6. ControlTypes' /\ MainIsLast'
    BY <1>1, <1>4, <1>5 DEF ControlInv, RoundInv, ControlTypes, MainIsLast
<1>7. ReapersLive'
    BY <1>1, <1>5 DEF ControlInv, RoundInv, ReapersLive
<1>8. RunsInRound'
    <2>1. ctlCur = Idle \/ (Contains(threadList, ctlCur) /\ ctlCur \in ControlThreads)
        BY <1>1 DEF ControlInv, RoundInv, RunsInRound
    <2>2. ctlCur \in ControlThreads => ~Control!Deleted(ctlCur)
        BY <1>1 DEF ControlInv, RoundInv, ReapersLive, Control!Deleted
    <2>3. ctlCur = Idle \/ Contains(threadList', ctlCur)
        BY <1>4, <2>1, <2>2
    <2> QED
        BY <1>1, <2>3 DEF ControlInv, RoundInv, RunsInRound
<1>9. RegulatorInv'
    <2>1. priority' \in [ControlThreads -> Nat]
        BY <1>6 DEF ControlTypes
    <2>2. SharesTold'
        BY <1>1, <1>4, <2>1, Recalculated
    <2>3. SP_Tr = Len(threadList) /\ Len(threadList) \in Nat /\ Len(threadList') \in Nat
        BY <1>2, <1>4 DEF ControlInv, RegulatorInv
    <2> QED
        BY <1>1, <2>2, <2>3 DEF RegulatorInv
<1> QED
    BY <1>4, <1>6, <1>7, <1>8, <1>9 DEF ControlInv, RoundInv

LEMMA InitControlInv ==
    ASSUME Control!Init
    PROVE  ControlInv
<1>1. /\ threadList = <<Main>> /\ SP_Tr = 1 /\ priority \in [ControlThreads -> {0}]
      /\ alfa = [t \in ControlThreads |-> IF t = Main THEN 1 ELSE 0] /\ curInRound = Main /\ ctlCur = Main
      /\ ctlFlags = [t \in ControlThreads |-> {"DETACHED"}] /\ ctlAt = [t \in ControlThreads \union {Idle} |-> "code"]
      /\ Main \in ControlThreads /\ Main # Idle
    BY ControlConstants DEF Control!Init
<1>2. threadList \in Seq(ControlThreads) /\ DOMAIN threadList = 1 .. 1 /\ Len(threadList) = 1 /\ threadList[1] = Main
    BY <1>1
<1>3. ControlTypes
    <2>1. priority \in [ControlThreads -> Nat]
        BY <1>1
    <2>2. ctlFlags \in [ControlThreads -> SUBSET ControlFlags]
        BY <1>1 DEF ControlFlags
    <2>3. ctlAt \in [ControlThreads \union {Idle} -> {"code", "yield", "reap"}]
        BY <1>1
    <2> QED
        BY <1>2, <2>1, <2>2, <2>3 DEF ControlTypes
<1>4. IsInjective(threadList)
    BY <1>2 DEF IsInjective
<1>5. MainIsLast
    <2>1. threadList # <<>>
        BY <1>2
    <2>2. "DELETED" \notin ctlFlags[Main]
        BY <1>1
    <2> QED
        BY <1>2, <2>1, <2>2 DEF MainIsLast
<1>6. ReapersLive
    BY <1>1 DEF ReapersLive
<1>7. RunsInRound
    BY <1>1, <1>2 DEF RunsInRound, Contains
<1>8. SharesTold
    <2>1. \A t : Contains(threadList, t) => t = Main
        BY <1>2 DEF Contains
    <2>2. alfa[Main] = 1 /\ ShareOf(Main) = 1
        BY <1>1 DEF ShareOf
    <2> QED
        BY <2>1, <2>2 DEF SharesTold
<1> QED
    BY <1>1, <1>2, <1>3, <1>4, <1>5, <1>6, <1>7, <1>8 DEF ControlInv, RoundInv, RegulatorInv

LEMMA NextControlInv ==
    ASSUME ControlInv, [Control!Next]_(Control!vars)
    PROVE  ControlInv'
<1>t. ctlAt \in [ControlThreads \union {Idle} -> {"code", "yield", "reap"}]
    BY DEF ControlInv, RoundInv, ControlTypes
<1>1. CASE UNCHANGED Control!vars
    <2>1. UNCHANGED <<threadList, SP_Tr, alfa, priority, ctlFlags, ctlCur, curInRound, ctlAt>>
        BY <1>1 DEF Control!vars, Control!listVars
    <2> QED
        BY <1>t, <2>1, ControlQuietStep
<1>2. CASE Control!AuxTimer
    <2>1. UNCHANGED <<threadList, SP_Tr, alfa, priority, ctlFlags, ctlAt>> /\ Control!IRQfindNextThread
        BY <1>2 DEF Control!AuxTimer, Control!listVars
    <2> QED
        BY <1>t, <2>1, ControlQuietStep
<1>3. CASE \E woken \in SUBSET ControlThreads \ {{}} : Control!Tick(woken)
    BY <1>3, ControlTickStep
<1>4. CASE Control!idleThread
    <2>1. UNCHANGED <<threadList, SP_Tr, alfa, priority, ctlFlags, ctlCur, curInRound>>
          /\ ctlAt' = [ctlAt EXCEPT ![Idle] = "reap"]
        BY <1>4 DEF Control!idleThread, Control!listVars
    <2>2. ctlAt' \in [ControlThreads \union {Idle} -> {"code", "yield", "reap"}] /\ \A t \in ControlThreads : ctlAt'[t] = ctlAt[t]
        BY <1>t, <2>1, ControlConstants
    <2> QED
        BY <2>1, <2>2, ControlQuietStep
<1>5. ASSUME NEW c \in ControlThreads \union {Idle}, Control!restartKernel(c) PROVE ControlInv'
    <2>1. /\ UNCHANGED <<threadList, SP_Tr, alfa, priority, ctlFlags, ctlCur, curInRound>>
          /\ ctlAt' = [ctlAt EXCEPT ![c] = IF ctlSkew THEN "yield" ELSE "code"]
        BY <1>5 DEF Control!restartKernel, Control!listVars
    <2>2. /\ ctlAt' \in [ControlThreads \union {Idle} -> {"code", "yield", "reap"}]
          /\ \A t \in ControlThreads : ctlAt'[t] = "reap" => ctlAt[t] = "reap"
        BY <1>t, <2>1
    <2> QED
        BY <2>1, <2>2, ControlQuietStep
<1>6. ASSUME NEW c \in ControlThreads \union {Idle}, Control!yield(c) PROVE ControlInv'
    <2>1. /\ UNCHANGED <<threadList, SP_Tr, alfa, priority, ctlFlags>> /\ Control!IRQfindNextThread
          /\ ctlAt' = [ctlAt EXCEPT ![c] = "code"]
        BY <1>6 DEF Control!yield, Control!listVars
    <2>2. /\ ctlAt' \in [ControlThreads \union {Idle} -> {"code", "yield", "reap"}]
          /\ \A t \in ControlThreads : ctlAt'[t] = "reap" => ctlAt[t] = "reap"
        BY <1>t, <2>1
    <2> QED
        BY <2>1, <2>2, ControlQuietStep
<1>7. ASSUME NEW c \in ControlThreads \union {Idle}, Control!reap(c) PROVE ControlInv'
    BY <1>7, ControlReapStep
<1>8. ASSUME NEW t \in ControlThreads, Control!Device(t) PROVE ControlInv'
    <2>1. /\ Control!SetFlags(t, ctlFlags[t] \ {"WAIT"}) /\ UNCHANGED ctlAt
          /\ UNCHANGED <<ctlCur, curInRound>> \/ Control!IRQfindNextThread
        BY <1>8 DEF Control!Device
    <2> QED
        BY <2>1, ControlWakeStep
<1>9. ASSUME NEW c \in ControlThreads, NEW t \in ControlThreads, NEW p \in Control!Requested,
             NEW options \in {{}, {"DETACHED"}}, Control!create(c, t, p, options)
      PROVE  ControlInv'
    BY <1>9, ControlCreateStep
<1>10. ASSUME NEW c \in ControlThreads, NEW p \in 0 .. ControlPriority, Control!setPriority(c, p) PROVE ControlInv'
    BY <1>10, ControlPriorityStep
<1>11. ASSUME NEW c \in ControlThreads, Control!wait(c) \/ Control!sleep(c) \/ Control!threadReturns(c)
       PROVE  ControlInv'
    BY <1>11, ControlStopStep DEF Control!wait, Control!sleep, Control!threadReturns
<1>12. ASSUME NEW c \in ControlThreads, Control!pauseKernel(c) PROVE ControlInv'
    <2>1. UNCHANGED <<threadList, SP_Tr, alfa, priority, ctlFlags, ctlCur, curInRound, ctlAt>>
        BY <1>12 DEF Control!pauseKernel, Control!listVars
    <2> QED
        BY <1>t, <2>1, ControlQuietStep
<1>13. ASSUME NEW c \in ControlThreads, NEW t \in ControlThreads, Control!wakeup(c, t) PROVE ControlInv'
    <2>1. Control!SetFlags(t, ctlFlags[t] \ {"WAIT"}) /\ UNCHANGED <<ctlAt, ctlCur, curInRound>>
        BY <1>13 DEF Control!wakeup
    <2> QED
        BY <2>1, ControlWakeStep
<1>14. ASSUME NEW c \in ControlThreads, NEW t \in ControlThreads, Control!join(c, t) PROVE ControlInv'
    BY <1>14, ControlJoinStep
<1> QED
    BY <1>1, <1>2, <1>3, <1>4, <1>5, <1>6, <1>7, <1>8, <1>9, <1>10, <1>11, <1>12, <1>13, <1>14
       DEF Control!Next

LEMMA ControlInvMeans ==
    ASSUME ControlInv
    PROVE  Control!PlaceInRound /\ Control!RegulatorsAgree
<1>1. threadList \in Seq(ControlThreads)
    BY DEF ControlInv, RoundInv, ControlTypes
<1>2. Control!PlaceInRound
    BY DEF ControlInv, RoundInv, MainIsLast, RunsInRound, Control!PlaceInRound, Control!Listed,
           Control!Contains, Contains, Control!IsInjective, IsInjective, Control!Last, Control!Deleted
<1>3. \A t : t \in Control!ToSet(threadList) <=> Contains(threadList, t)
    <2>1. \A t : t \in ToSet(threadList) <=> Contains(threadList, t)
        BY <1>1, ListMembers
    <2> QED
        BY <2>1 DEF Control!ToSet, ToSet
<1>4. Control!RegulatorsAgree
    BY <1>3 DEF ControlInv, RegulatorInv, SharesTold, ShareOf, Control!RegulatorsAgree, Control!Ready,
                Control!Share
<1> QED
    BY <1>2, <1>4

(* PlaceInRound, for any threads: the pointer into the round never names a *)
(* thread that PKremoveDeadThreads has freed, and that the running thread  *)
(* is never freed, whoever joins it and whenever it ends.                  *)
THEOREM RoundKeepsItsPlace == Control!Spec => []PlaceInRound
<1>1. Control!Init => ControlInv
    BY InitControlInv
<1>2. ControlInv /\ [Control!Next]_(Control!vars) => ControlInv'
    BY NextControlInv
<1>3. ControlInv => PlaceInRound
    BY ControlInvMeans DEF PlaceInRound
<1> QED
    BY <1>1, <1>2, <1>3, PTL DEF Control!Spec

(* RegulatorsAgree, for any threads and priorities: whatever changes who   *)
(* is ready, or who there is, tells the regulators.                        *)
THEOREM RegulatorsAreTold == Control!Spec => []RegulatorsAgree
<1>1. Control!Init => ControlInv
    BY InitControlInv
<1>2. ControlInv /\ [Control!Next]_(Control!vars) => ControlInv'
    BY NextControlInv
<1>3. ControlInv => RegulatorsAgree
    BY ControlInvMeans DEF RegulatorsAgree
<1> QED
    BY <1>1, <1>2, <1>3, PTL DEF Control!Spec

=============================================================================
