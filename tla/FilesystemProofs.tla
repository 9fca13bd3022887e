-------------------------- MODULE FilesystemProofs --------------------------
(* Proofs about Filesystem, for any threads, files, sizes and length of the *)
(* table.                                                                   *)
EXTENDS Filesystem, TLAPS, FiniteSetTheorems, WellFoundedInduction

-----------------------------------------------------------------------------
(* The table.                                                               *)

(* A set of numbers up to L that is not empty has a least one: of the sets  *)
(* of smaller members, one is minimal for inclusion.                        *)
LEMMA LeastNumber ==
    ASSUME NEW L \in Nat, NEW S \in SUBSET (0 .. L), S # {}
    PROVE  \E m \in S : \A n \in S : m <= n
<1> DEFINE Smaller(m) == {n \in S : n < m}
           Family == {Smaller(m) : m \in S}
<1>1. IsFiniteSet(S) /\ S \subseteq Nat
    <2>1. IsFiniteSet(0 .. L)
        BY FS_Interval
    <2>2. IsFiniteSet(S)
        BY <2>1, FS_Subset
    <2> QED
        BY <2>2
<1>2. Family \subseteq FiniteSubsetsOf(S)
    BY <1>1, FS_Subset DEF FiniteSubsetsOf
<1>3. PICK A \in Family : \A B \in Family : ~(<<B, A>> \in StrictSubsetOrdering(S))
    <2>1. Family # {} /\ IsWellFoundedOn(StrictSubsetOrdering(S), FiniteSubsetsOf(S))
        BY FS_StrictSubsetOrderingWellFounded
    <2> HIDE DEF Family
    <2> QED
        BY <1>2, <2>1, WFMin
<1>4. PICK m \in S : A = Smaller(m)
    OBVIOUS
<1>5. SUFFICES ASSUME NEW n \in S, n < m PROVE FALSE
    BY <1>1
<1>6. (\A x \in S : x < n => x < m) /\ ~(n < n)
    BY <1>1, <1>5
<1>7. Smaller(n) \subseteq A /\ n \in A /\ n \notin Smaller(n)
    BY <1>4, <1>5, <1>6, Zenon
<1>8. <<Smaller(n), A>> \in StrictSubsetOrdering(S)
    BY <1>4, <1>7 DEF StrictSubsetOrdering
<1> QED
    BY <1>3, <1>8

(* Going on from one slot to the next, around the end.                      *)
LEMMA SlotsGoRound ==
    /\ Slot \subseteq Nat
    /\ \A s \in Slot : Following(s) \in Slot
    /\ \A s, o \in Slot : Following(s) = Following(o) => s = o
    /\ \A s \in Slot : \E o \in Slot : Following(o) = s
    /\ \A s, o \in Slot : Probes(s, o) \in 0 .. MaxOpenFiles
    /\ \A s \in Slot : Probes(s, s) = 0
    /\ \A s, o \in Slot : Following(o) # s => Probes(s, Following(o)) = Probes(s, o) + 1
<1>1. MaxOpenFiles \in Nat \ {0}
    BY FilesystemAssumption
<1>2. \A s \in Slot : \E o \in Slot : Following(o) = s
    <2>1. SUFFICES ASSUME NEW s \in Slot PROVE \E o \in Slot : Following(o) = s
        OBVIOUS
    <2>2. CASE s = 0
        <3>1. MaxOpenFiles - 1 \in Slot /\ Following(MaxOpenFiles - 1) = s
            BY <1>1, <2>2 DEF Slot, Following
        <3> QED
            BY <3>1
    <2>3. CASE s # 0
        <3>1. s - 1 \in Slot /\ Following(s - 1) = s
            BY <1>1, <2>1, <2>3 DEF Slot, Following
        <3> QED
            BY <3>1
    <2> QED
        BY <2>2, <2>3
<1> QED
    BY <1>1, <1>2 DEF Slot, Following, Probes

LEMMA HashInTable == \A fd \in Nat : Hash(fd) \in Slot
BY FilesystemAssumption DEF Hash, Slot

LEMMA NearestIn ==
    ASSUME NEW from \in Slot, NEW S \in SUBSET Slot, S # {}
    PROVE  Nearest(from, S) \in S
<1> DEFINE D == {Probes(from, s) : s \in S}
<1>1. D \subseteq 0 .. MaxOpenFiles /\ D # {}
    <2>1. \A s \in Slot : Probes(from, s) \in 0 .. MaxOpenFiles
        BY SlotsGoRound
    <2> QED
        BY <2>1
<1>2. PICK m \in D : \A n \in D : m <= n
    <2> HIDE DEF D
    <2> QED
        BY <1>1, LeastNumber, FilesystemAssumption DEF Slot
<1>3. PICK s \in S : m = Probes(from, s)
    BY <1>2
<1>4. \A o \in S : Probes(from, s) <= Probes(from, o)
    BY <1>2, <1>3
<1> QED
    BY <1>3, <1>4, Zenon DEF Nearest

(* What the two searches find.                                              *)
LEMMA FindsSlot ==
    ASSUME NEW fd \in Nat, findSlot(fd) # -1
    PROVE  findSlot(fd) \in Slot /\ ~isEmpty(findSlot(fd)) /\ files[findSlot(fd)].fd = fd
<1> DEFINE S == {s \in Slot : ~isEmpty(s) /\ files[s].fd = fd}
<1>1. S # {} /\ findSlot(fd) = Nearest(Hash(fd), S)
    BY DEF findSlot
<1>2. findSlot(fd) \in S
    BY <1>1, HashInTable, NearestIn
<1> QED
    BY <1>2

LEMMA FindsEmpty ==
    ASSUME fileDescriptorCounter \in Nat, emptySlot # -1
    PROVE  emptySlot \in Slot /\ isEmpty(emptySlot)
<1> DEFINE S == {s \in Slot : isEmpty(s)}
<1>1. S # {} /\ emptySlot = Nearest(Hash(fileDescriptorCounter), S)
    BY DEF emptySlot
<1>2. emptySlot \in S
    BY <1>1, HashInTable, NearestIn
<1> QED
    BY <1>2

(* A slot that is in use has its object, which has the number of the        *)
(* descriptor.                                                              *)
LEMMA ObjectOf ==
    ASSUME TypeOK, TableExact, NEW fd \in Given, findSlot(fd) # -1
    PROVE  /\ findSlot(fd) \in Slot /\ ~isEmpty(findSlot(fd))
           /\ fd \in Nat /\ Object(fd) = fd /\ Object(fd) \in DOMAIN fil
<1>1. fd \in Nat
    BY DEF TypeOK, Given
<1>2. findSlot(fd) \in Slot /\ ~isEmpty(findSlot(fd)) /\ files[findSlot(fd)].fd = fd
    BY <1>1, FindsSlot
<1> QED
    BY <1>1, <1>2 DEF TableExact, Object

(* The slots that freeSlot moves follow on the one that becomes free, so    *)
(* that each is moved into one that is moved itself or is free.             *)
LEMMA MovedFollow ==
    ASSUME NEW s \in Slot, NEW o \in Slot, Following(o) \in Moved(s)
    PROVE  o = s \/ o \in Moved(s)
<1>1. SUFFICES ASSUME o # s, NEW p \in Slot \ {s}, Probes(s, p) <= Probes(s, o)
               PROVE  ~isEmpty(p) /\ Hash(files[p].fd) = Hash(files[s].fd)
    BY DEF Moved
<1>2. Following(o) \in Slot \ {s}
    BY DEF Moved
<1>3. Probes(s, p) <= Probes(s, Following(o))
    <2>1. Probes(s, Following(o)) = Probes(s, o) + 1
        BY <1>2, SlotsGoRound
    <2>2. Probes(s, p) \in 0 .. MaxOpenFiles /\ Probes(s, o) \in 0 .. MaxOpenFiles
        BY SlotsGoRound
    <2> QED
        BY <1>1, <2>1, <2>2, FilesystemAssumption
<1> QED
    BY <1>1, <1>2, <1>3 DEF Moved

LEMMA MovedInUse ==
    ASSUME NEW s \in Slot, NEW o \in Moved(s)
    PROVE  o \in Slot \ {s} /\ ~isEmpty(o)
<1>1. o \in Slot \ {s}
    BY DEF Moved
<1>2. Probes(s, o) <= Probes(s, o)
    <2>1. Probes(s, o) \in 0 .. MaxOpenFiles
        BY <1>1, SlotsGoRound
    <2> QED
        BY <2>1, FilesystemAssumption
<1> QED
    BY <1>1, <1>2 DEF Moved

(* After freeSlot every entry but the one freed is in exactly one slot.     *)
LEMMA FreeSlotExact ==
    ASSUME TypeOK, NEW s \in Slot, freeSlot(s)
    PROVE  /\ files' \in [Slot -> [fd : 0 .. MaxFd, fptr : 0 .. MaxFd]]
           /\ \E From \in [Slot -> Slot] :
                /\ \A o, q \in Slot : From[o] = From[q] => o = q \/ files'[o].fptr = 0
                                                            \/ files'[q].fptr = 0
                /\ \A o \in Slot :
                    files'[o].fptr # 0 => From[o] # s /\ files'[o] = files[From[o]]
           /\ \A p \in Slot \ {s} : ~isEmpty(p) => \E o \in Slot : files'[o] = files[p]
<1> DEFINE From == [o \in Slot |-> IF Following(o) \in Moved(s) THEN Following(o) ELSE o]
<1>1. From \in [Slot -> Slot]
    BY SlotsGoRound
<1>2. \A o \in Slot :
        /\ Following(o) \in Moved(s) => files'[o] = files[Following(o)]
        /\ Following(o) \notin Moved(s) /\ o \in Moved(s) \union {s} =>
                files'[o] = [files[o] EXCEPT !.fptr = 0]
        /\ Following(o) \notin Moved(s) /\ o \notin Moved(s) \union {s} => files'[o] = files[o]
    BY DEF freeSlot
<1>3. files' \in [Slot -> [fd : 0 .. MaxFd, fptr : 0 .. MaxFd]]
    <2>1. DOMAIN files' = Slot /\ files' = [o \in Slot |-> files'[o]]
        BY DEF freeSlot
    <2>2. \A o \in Slot : files[o] \in [fd : 0 .. MaxFd, fptr : 0 .. MaxFd] /\ Following(o) \in Slot
        BY SlotsGoRound DEF TypeOK
    <2>3. ASSUME NEW o \in Slot
          PROVE  files'[o] \in [fd : 0 .. MaxFd, fptr : 0 .. MaxFd]
        <3>1. \A e \in [fd : 0 .. MaxFd, fptr : 0 .. MaxFd] :
                [e EXCEPT !.fptr = 0] \in [fd : 0 .. MaxFd, fptr : 0 .. MaxFd]
            BY FilesystemAssumption
        <3>2. \/ files'[o] = files[Following(o)]
              \/ files'[o] = [files[o] EXCEPT !.fptr = 0]
              \/ files'[o] = files[o]
            BY <1>2
        <3> QED
            BY <2>2, <3>1, <3>2
    <2> QED
        BY <2>1, <2>3
<1>4. \A o \in Slot : files'[o].fptr # 0 =>
        From[o] # s /\ files'[o] = files[From[o]] /\ (From[o] = o => o \notin Moved(s))
    <2>1. SUFFICES ASSUME NEW o \in Slot, files'[o].fptr # 0
                   PROVE  /\ From[o] # s /\ files'[o] = files[From[o]]
                          /\ From[o] = o => o \notin Moved(s)
        OBVIOUS
    <2>2. CASE Following(o) \in Moved(s)
        <3>1. From[o] = Following(o) /\ Following(o) # s /\ files'[o] = files[Following(o)]
            BY <1>2, <2>2, MovedInUse
        <3>2. ASSUME Following(o) = o PROVE FALSE
            BY <2>2, <3>2, MovedInUse, SlotsGoRound, FilesystemAssumption DEF Slot
        <3> QED
            BY <3>1, <3>2
    <2>3. CASE Following(o) \notin Moved(s)
        <3>1. files[o] \in [fd : 0 .. MaxFd, fptr : 0 .. MaxFd] /\ From[o] = o
            BY <2>3 DEF TypeOK
        <3> HIDE DEF From
        <3>2. o \notin Moved(s) \union {s}
            BY <1>2, <2>1, <2>3, <3>1
        <3> QED
            BY <1>2, <2>3, <3>1, <3>2
    <2> QED
        BY <2>2, <2>3
<1>5. \A o, q \in Slot : From[o] = From[q] => o = q \/ files'[o].fptr = 0 \/ files'[q].fptr = 0
    <2>1. SUFFICES ASSUME NEW o \in Slot, NEW q \in Slot, From[o] = From[q], o # q,
                          files'[o].fptr # 0, files'[q].fptr # 0
                   PROVE  FALSE
        OBVIOUS
    <2>2. (From[o] = o => o \notin Moved(s)) /\ (From[q] = q => q \notin Moved(s))
        BY <1>4, <2>1
    <2>3. \A u \in Slot : From[u] = u \/ (From[u] = Following(u) /\ From[u] \in Moved(s))
        OBVIOUS
    <2> HIDE DEF From
    <2>4. Following(o) # Following(q)
        BY <2>1, SlotsGoRound
    <2> QED
        BY <2>1, <2>2, <2>3, <2>4
<1>6. \A p \in Slot \ {s} : ~isEmpty(p) => \E o \in Slot : files'[o] = files[p]
    <2>1. SUFFICES ASSUME NEW p \in Slot \ {s} PROVE \E o \in Slot : files'[o] = files[p]
        OBVIOUS
    <2>2. CASE p \in Moved(s)
        <3>1. PICK o \in Slot : Following(o) = p
            BY SlotsGoRound
        <3> QED
            BY <1>2, <2>2, <3>1
    <2>3. CASE p \notin Moved(s)
        <3>1. Following(p) \notin Moved(s)
            BY <2>3, MovedFollow
        <3> QED
            BY <1>2, <2>3, <3>1
    <2> QED
        BY <2>2, <2>3
<1> HIDE DEF From
<1> QED
    BY <1>1, <1>3, <1>4, <1>5, <1>6

(* So closing a file leaves the table exact.                                *)
LEMMA CloseExact ==
    ASSUME TypeOK, TableExact, NEW s \in Slot, ~isEmpty(s), freeSlot(s),
           fil' = Without({files[s].fptr})
    PROVE  TableExact'
<1>1. PICK From \in [Slot -> Slot] :
        /\ \A o, q \in Slot : From[o] = From[q] => o = q \/ files'[o].fptr = 0
                                                    \/ files'[q].fptr = 0
        /\ \A o \in Slot : files'[o].fptr # 0 => From[o] # s /\ files'[o] = files[From[o]]
    BY FreeSlotExact
<1>2. \A p \in Slot \ {s} : ~isEmpty(p) => \E o \in Slot : files'[o] = files[p]
    BY FreeSlotExact
<1>3. \A o \in Slot : files'[o].fptr # 0 => files'[o].fptr = files'[o].fd
    BY <1>1 DEF TableExact, isEmpty
<1>4. \A o, q \in Slot : files'[o].fptr # 0 /\ files'[o].fptr = files'[q].fptr => o = q
    BY <1>1 DEF TableExact, isEmpty
<1>5. DOMAIN fil' = {files'[o].fptr : o \in {p \in Slot : files'[p].fptr # 0}}
    <2>1. DOMAIN fil' = DOMAIN fil \ {files[s].fptr}
        BY DEF Without
    <2>2. DOMAIN fil = {files[o].fptr : o \in {p \in Slot : files[p].fptr # 0}}
        BY DEF TableExact, isEmpty
    <2>3. ASSUME NEW x \in DOMAIN fil'
          PROVE  x \in {files'[o].fptr : o \in {p \in Slot : files'[p].fptr # 0}}
        <3>1. PICK p \in Slot : files[p].fptr # 0 /\ x = files[p].fptr
            BY <2>1, <2>2
        <3>2. p # s
            BY <2>1, <3>1
        <3>3. PICK o \in Slot : files'[o] = files[p]
            BY <1>2, <3>1, <3>2 DEF isEmpty
        <3> QED
            BY <3>1, <3>3
    <2>4. ASSUME NEW o \in Slot, files'[o].fptr # 0
          PROVE  files'[o].fptr \in DOMAIN fil'
        <3>1. From[o] \in Slot /\ From[o] # s /\ files'[o] = files[From[o]]
            BY <1>1, <2>4
        <3>2. files[From[o]].fptr # files[s].fptr
            BY <2>4, <3>1 DEF TableExact, isEmpty
        <3> QED
            BY <2>1, <2>2, <2>4, <3>1, <3>2
    <2> QED
        BY <2>3, <2>4
<1> QED
    BY <1>3, <1>4, <1>5 DEF TableExact, isEmpty

-----------------------------------------------------------------------------
(* What holds in every state.                                               *)

(* Descriptors and mounts are numbered upwards, and what FatFs does with an *)
(* object of the mount in force respects what is promised of the file.      *)
ObjectsGood ==
    /\ \A o \in DOMAIN fil : o < fileDescriptorCounter /\ fil[o].id <= fsid
    /\ \A o \in DOMAIN fil : validate(o) =>
        /\ fil[o].fsize >= acked[fil[o].name]
        /\ fil[o].FA__WRITTEN => fil[o].FA_WRITE

(* A file that is written is open once.                                     *)
WriterAlone ==
    \A o, p \in DOMAIN fil :
        validate(o) /\ validate(p) /\ fil[o].name = fil[p].name /\ fil[o].FA_WRITE => o = p

(* Neither the disk nor what FatFs has of it in memory is behind.           *)
DirectoryGood == \A f \in File : dir[f] >= acked[f] /\ disk[f] >= acked[f]

(* The mutex is held between two steps to sync what was written.            *)
SyncHolds ==
    /\ \A t \in Thread : at[t] = "sync" <=> fsMutex = t
    /\ fsMutex = NoThread => writing = 0
    /\ fsMutex # NoThread =>
        writing \in DOMAIN fil /\ fil[writing].FA_WRITE /\ fil[writing].FA__WRITTEN

IInv == TypeOK /\ TableExact /\ ObjectsGood /\ WriterAlone /\ DirectoryGood /\ SyncHolds

-----------------------------------------------------------------------------
(* What the operations share.                                               *)

LEMMA TableKept ==
    ASSUME TableExact, UNCHANGED files, DOMAIN fil' = DOMAIN fil
    PROVE  TableExact'
BY DEF TableExact, isEmpty

(* A step of a thread that does not hold the mutex, and does not take it.   *)
LEMMA MutexKept ==
    ASSUME TypeOK, SyncHolds, NEW t \in Thread, NEW c, at[t] # "sync", c # "sync",
           at' = [at EXCEPT ![t] = c], UNCHANGED <<fsMutex, writing>>,
           fsMutex = NoThread \/ fil' = fil
    PROVE  SyncHolds'
<1>1. at \in [Thread -> {"code", "passed", "mount", "mounted", "sync"}]
    BY DEF TypeOK
<1>2. \A u \in Thread : at'[u] = "sync" <=> at[u] = "sync"
    BY <1>1
<1> QED
    BY <1>2 DEF SyncHolds

(* An object is used: it keeps its name, mount and rights and its size does *)
(* not shrink.                                                              *)
LEMMA ObjectUsed ==
    ASSUME IInv, NEW o \in DOMAIN fil, DOMAIN fil' = DOMAIN fil,
           \A p \in DOMAIN fil : p # o => fil'[p] = fil[p],
           fil'[o] \in FIL, fil'[o].name = fil[o].name, fil'[o].id = fil[o].id,
           fil'[o].FA_WRITE = fil[o].FA_WRITE, fil'[o].fsize >= fil[o].fsize,
           fil'[o].FA__WRITTEN => fil[o].FA__WRITTEN \/ fil[o].FA_WRITE,
           UNCHANGED <<fileDescriptorCounter, files, fatfs, acked>>
    PROVE  /\ \A p \in DOMAIN fil' : fil'[p] \in FIL
           /\ TableExact' /\ ObjectsGood' /\ WriterAlone'
<1>1. \A p \in DOMAIN fil' : fil'[p] \in FIL
    BY DEF IInv, TypeOK
<1>2. TableExact'
    BY TableKept DEF IInv
<1>3. \A p \in DOMAIN fil : validate(p)' <=> validate(p)
    BY DEF validate, fatfs
<1>4. \A p \in DOMAIN fil : fil'[p].name = fil[p].name /\ fil'[p].id = fil[p].id
                            /\ fil'[p].FA_WRITE = fil[p].FA_WRITE
    OBVIOUS
<1>5. \A p \in DOMAIN fil : validate(p) =>
        /\ fil'[p].fsize >= acked[fil[p].name]
        /\ fil'[p].FA__WRITTEN => fil[p].FA_WRITE
    <2>1. SUFFICES ASSUME NEW p \in DOMAIN fil, validate(p)
                   PROVE  /\ fil'[p].fsize >= acked[fil[p].name]
                          /\ fil'[p].FA__WRITTEN => fil[p].FA_WRITE
        OBVIOUS
    <2>2. /\ fil[p].fsize >= acked[fil[p].name]
          /\ fil[p].FA__WRITTEN => fil[p].FA_WRITE
        BY <2>1 DEF IInv, ObjectsGood
    <2>3. CASE p # o
        BY <2>2, <2>3
    <2>4. CASE p = o
        <3>1. fil[o].fsize \in Int /\ fil'[o].fsize \in Int /\ acked[fil[o].name] \in Int
            BY FilesystemAssumption DEF IInv, TypeOK, FIL, Sizes, NoFile
        <3> QED
            BY <2>2, <2>4, <3>1
    <2> QED
        BY <2>3, <2>4
<1>6. ObjectsGood'
    BY <1>3, <1>4, <1>5 DEF IInv, ObjectsGood, fatfs
<1>7. WriterAlone'
    BY <1>3, <1>4 DEF IInv, WriterAlone
<1> QED
    BY <1>1, <1>2, <1>6, <1>7

(* Objects are gone, or are of a mount that is over; no promise is made.    *)
LEMMA ObjectsGone ==
    ASSUME IInv, DOMAIN fil' \subseteq DOMAIN fil, \A o \in DOMAIN fil' : fil'[o] = fil[o],
           \/ UNCHANGED <<fs_type, fsid>>
           \/ ~fs_type' /\ fsid' = fsid
           \/ fsid' \in Int /\ fsid' > fsid,
           fileDescriptorCounter' \in Int, fileDescriptorCounter' >= fileDescriptorCounter,
           acked' \in [File -> Sizes],
           \A f \in File : acked'[f] = acked[f] \/ acked'[f] = NoFile
    PROVE  /\ \A o \in DOMAIN fil' : fil'[o] \in FIL
           /\ ObjectsGood' /\ WriterAlone'
<1>1. \A o \in DOMAIN fil' : o \in DOMAIN fil /\ fil'[o] = fil[o] /\ fil'[o] \in FIL
    BY DEF IInv, TypeOK
<1>2. fsid \in Int /\ fsid' \in Int /\ fileDescriptorCounter \in Int
    BY FilesystemAssumption DEF IInv, TypeOK
<1>3. \A o \in DOMAIN fil' : o \in Int /\ fil[o].id \in Int /\ fil[o].name \in File
                            /\ fil[o].fsize \in Nat
    BY <1>1, FilesystemAssumption DEF IInv, TypeOK, FIL
<1>4. ASSUME NEW o \in DOMAIN fil', validate(o)'
      PROVE  validate(o)
    <2>1. fs_type' /\ fil[o].id = fsid'
        BY <1>1, <1>4 DEF validate
    <2>2. fil[o].id <= fsid
        BY <1>1 DEF IInv, ObjectsGood
    <2>3. ~(fsid' > fsid)
        BY <1>2, <1>3, <2>1, <2>2
    <2>4. fs_type' = fs_type /\ fsid' = fsid
        BY <2>1, <2>3
    <2>5. fs_type /\ fil[o].id = fsid
        BY <2>1, <2>4, Zenon
    <2> QED
        BY <2>5 DEF validate
<1>5. ObjectsGood'
    <2>1. \A o \in DOMAIN fil' : o < fileDescriptorCounter' /\ fil'[o].id <= fsid'
        BY <1>1, <1>2, <1>3 DEF IInv, ObjectsGood
    <2>2. ASSUME NEW o \in DOMAIN fil', validate(o)'
          PROVE  /\ fil'[o].fsize >= acked'[fil'[o].name]
                 /\ fil'[o].FA__WRITTEN => fil'[o].FA_WRITE
        <3>1. /\ fil[o].fsize >= acked[fil[o].name]
              /\ fil[o].FA__WRITTEN => fil[o].FA_WRITE
            BY <1>1, <1>4, <2>2 DEF IInv, ObjectsGood
        <3> QED
            BY <1>1, <1>3, <3>1 DEF NoFile
    <2> QED
        BY <2>1, <2>2 DEF ObjectsGood
<1>6. WriterAlone'
    BY <1>1, <1>4 DEF IInv, WriterAlone
<1> QED
    BY <1>1, <1>5, <1>6

(* The directory, in memory and on the disk, after one entry of it is       *)
(* written, or not.                                                         *)
LEMMA EntryWritten ==
    ASSUME IInv, NEW f \in File, NEW size \in Sizes,
           dir' \in {dir, [dir EXCEPT ![f] = size]}, disk' \in {disk, dir'},
           acked' \in [File -> Sizes], size >= acked'[f],
           \A g \in File : acked'[g] = acked[g] \/ acked'[g] = NoFile
                          \/ (g = f /\ dir'[f] = size /\ disk' = dir')
    PROVE  dir' \in [File -> Sizes] /\ disk' \in [File -> Sizes] /\ DirectoryGood'
<1>1. dir' \in [File -> Sizes] /\ disk' \in [File -> Sizes]
    BY DEF IInv, TypeOK
<1>2. Sizes \subseteq Int /\ \A n \in Sizes : n >= NoFile
    BY FilesystemAssumption DEF Sizes, NoFile
<1>3. ASSUME NEW g \in File
      PROVE  dir'[g] >= acked'[g] /\ disk'[g] >= acked'[g]
    <2>1. dir[g] \in Sizes /\ disk[g] \in Sizes /\ acked[g] \in Sizes /\ dir'[g] \in Sizes
          /\ disk'[g] \in Sizes /\ acked'[g] \in Sizes
        BY <1>1 DEF IInv, TypeOK
    <2>2. dir[g] >= acked[g] /\ disk[g] >= acked[g]
        BY DEF IInv, DirectoryGood
    <2>3. dir'[g] = dir[g] \/ (g = f /\ dir'[g] = size)
        BY DEF IInv, TypeOK
    <2>4. disk'[g] = disk[g] \/ disk'[g] = dir'[g]
        OBVIOUS
    <2>5. CASE acked'[g] = NoFile
        BY <1>2, <2>1, <2>5
    <2>6. CASE acked'[g] = acked[g]
        BY <1>2, <2>1, <2>2, <2>3, <2>4, <2>6
    <2>7. CASE g = f /\ dir'[f] = size /\ disk' = dir'
        BY <2>7
    <2> QED
        BY <2>5, <2>6, <2>7
<1> QED
    BY <1>1, <1>3 DEF DirectoryGood

-----------------------------------------------------------------------------
(* One lemma for each kind of step.                                         *)

LEMMA InitIInv == Init => IInv
<1>1. SUFFICES ASSUME Init PROVE IInv
    OBVIOUS
<1>2. /\ \A s \in Slot : isEmpty(s)
      /\ DOMAIN fil = {}
      /\ NoFile \in Sizes
    BY <1>1 DEF Init, Booted, isEmpty, Sizes
<1>3. TypeOK
    <2>1. files \in [Slot -> [fd : 0 .. MaxFd, fptr : 0 .. MaxFd]] /\ 3 \in 3 .. MaxFd
          /\ 0 \in 0 .. MaxMounts
        BY <1>1, FilesystemAssumption DEF Init, Booted
    <2>2. dir \in [File -> Sizes] /\ disk \in [File -> Sizes] /\ acked \in [File -> Sizes]
        BY <1>1, <1>2 DEF Init
    <2>3. at \in [Thread -> {"code", "passed", "mount", "mounted", "sync"}]
        BY <1>1 DEF Init, Booted
    <2>4. /\ mounted \in BOOLEAN /\ fileDescriptorCounter = 3 /\ fs_type \in BOOLEAN
          /\ fsid = 0 /\ fsMutex = NoThread /\ writing = 0
        BY <1>1 DEF Init, Booted
    <2> QED
        BY <1>2, <2>1, <2>2, <2>3, <2>4 DEF TypeOK
<1>4. TableExact
    BY <1>2 DEF TableExact
<1>5. ObjectsGood /\ WriterAlone
    BY <1>2 DEF ObjectsGood, WriterAlone
<1>6. DirectoryGood
    BY <1>1 DEF Init, DirectoryGood, NoFile
<1>7. SyncHolds
    BY <1>1, FilesystemAssumption DEF Init, Booted, SyncHolds
<1> QED
    BY <1>3, <1>4, <1>5, <1>6, <1>7 DEF IInv

(* Steps that change neither the files nor the disk.                        *)
LEMMA QuietStep ==
    ASSUME IInv, NEW t \in Thread, NEW c \in {"code", "passed", "mount", "mounted"},
           at[t] # "sync", at' = [at EXCEPT ![t] = c], mounted' \in BOOLEAN,
           UNCHANGED <<fileDescriptorCounter, files, fil, fatfs, dir, disk,
                       fsMutex, writing, acked>>
    PROVE  IInv'
<1>1. TypeOK'
    BY DEF IInv, TypeOK, fatfs
<1>2. TableExact' /\ ObjectsGood' /\ WriterAlone' /\ DirectoryGood'
    BY DEF IInv, TableExact, isEmpty, ObjectsGood, WriterAlone, DirectoryGood, validate, fatfs
<1>3. SyncHolds'
    BY MutexKept DEF IInv
<1> QED
    BY <1>1, <1>2, <1>3 DEF IInv

LEMMA MountStep ==
    ASSUME IInv, NEW t \in Thread, mountWork(t)
    PROVE  IInv'
<1>1. /\ fs_type' \in BOOLEAN /\ fsid' \in 0 .. MaxMounts
      /\ (~fs_type' /\ fsid' = fsid) \/ (fsid' \in Int /\ fsid' > fsid)
      /\ UNCHANGED <<files, fil, fileDescriptorCounter, acked, disk, mounted, fsMutex, writing>>
      /\ dir' = disk /\ at[t] = "mount" /\ fsMutex = NoThread
    <2>1. /\ UNCHANGED <<files, fil, fileDescriptorCounter, acked, disk, mounted, fsMutex, writing>>
          /\ dir' = disk /\ at[t] = "mount" /\ fsMutex = NoThread
        BY DEF mountWork
    <2>2. fsid \in 0 .. MaxMounts
        BY DEF IInv, TypeOK
    <2>3. CASE fsid < MaxMounts /\ fs_type' = TRUE /\ fsid' = fsid + 1
        BY <2>1, <2>2, <2>3, FilesystemAssumption
    <2>4. CASE fs_type' = FALSE /\ fsid' = fsid
        BY <2>1, <2>2, <2>4
    <2> QED
        BY <2>3, <2>4 DEF mountWork
<1>2. PICK c \in {"code", "mounted"} : at' = [at EXCEPT ![t] = c]
    BY DEF mountWork
<1>3. fileDescriptorCounter \in Int /\ acked \in [File -> Sizes]
    BY DEF IInv, TypeOK
<1>4. ObjectsGood' /\ WriterAlone'
    BY <1>1, <1>3, ObjectsGone
<1>5. TypeOK'
    BY <1>1, <1>2 DEF IInv, TypeOK
<1>6. TableExact' /\ DirectoryGood'
    BY <1>1, TableKept DEF IInv, DirectoryGood
<1>7. SyncHolds'
    BY <1>1, <1>2, MutexKept DEF IInv
<1> QED
    BY <1>4, <1>5, <1>6, <1>7 DEF IInv

(* umount closes every file there is, and each sync may fail.               *)
LEMMA UmountStep ==
    ASSUME IInv, NEW t \in Thread, umount(t)
    PROVE  IInv'
<1>1. /\ fsMutex = NoThread /\ mounted' = FALSE
      /\ UNCHANGED <<fileDescriptorCounter, fatfs, fsMutex, at, writing, acked>>
      /\ files' = [s \in Slot |-> [files[s] EXCEPT !.fptr = 0]]
      /\ fil' = Without({files[s].fptr : s \in Slot})
    BY DEF umount
<1>2. DOMAIN fil' = {}
    BY <1>1 DEF IInv, TableExact, Without
<1>3. files' \in [Slot -> [fd : 0 .. MaxFd, fptr : 0 .. MaxFd]] /\ \A s \in Slot : files'[s].fptr = 0
    BY <1>1, FilesystemAssumption DEF IInv, TypeOK
<1>4. PICK synced \in SUBSET {o \in DOMAIN fil : validate(o) /\ fil[o].FA__WRITTEN} :
        /\ dir' = [f \in File |->
                    IF \E o \in synced : fil[o].name = f
                    THEN fil[CHOOSE o \in synced : fil[o].name = f].fsize
                    ELSE dir[f]]
        /\ disk' \in {disk, dir'}
    BY DEF umount
<1>5. ASSUME NEW f \in File
      PROVE  dir'[f] \in Sizes /\ dir'[f] >= acked[f]
    <2>1. CASE \E o \in synced : fil[o].name = f
        <3>1. PICK o \in synced : fil[o].name = f /\ dir'[f] = fil[o].fsize
            BY <1>4, <2>1
        <3>2. fil[o] \in FIL /\ fil[o].fsize >= acked[f]
            BY <1>4, <3>1 DEF IInv, TypeOK, ObjectsGood
        <3> QED
            BY <3>1, <3>2 DEF FIL, Sizes
    <2>2. CASE ~\E o \in synced : fil[o].name = f
        BY <1>4, <2>2 DEF IInv, TypeOK, DirectoryGood
    <2> QED
        BY <2>1, <2>2
<1>6. /\ dir' \in [File -> Sizes] /\ disk' \in [File -> Sizes]
      /\ DirectoryGood'
    BY <1>1, <1>4, <1>5 DEF IInv, TypeOK, DirectoryGood
<1>7. writing = 0
    BY <1>1 DEF IInv, SyncHolds
<1>8. TypeOK'
    BY <1>1, <1>2, <1>3, <1>6, <1>7 DEF IInv, TypeOK, fatfs
<1>9. TableExact' /\ ObjectsGood' /\ WriterAlone'
    BY <1>2, <1>3 DEF TableExact, isEmpty, ObjectsGood, WriterAlone
<1>10. SyncHolds'
    BY <1>1 DEF IInv, SyncHolds
<1> QED
    BY <1>6, <1>8, <1>9, <1>10 DEF IInv

(* The power fails: all is as after booting, but for the disk.              *)
LEMMA PowerFailureStep ==
    ASSUME IInv, PowerFailure
    PROVE  IInv'
<1>1. DOMAIN fil' = {} /\ \A s \in Slot : files'[s].fptr = 0
    BY DEF PowerFailure
<1>2. TypeOK'
    <2>1. files' \in [Slot -> [fd : 0 .. MaxFd, fptr : 0 .. MaxFd]] /\ 3 \in 3 .. MaxFd
          /\ 0 \in 0 .. MaxMounts
        BY FilesystemAssumption DEF PowerFailure
    <2>2. /\ dir' \in [File -> Sizes] /\ disk' \in [File -> Sizes] /\ acked' \in [File -> Sizes]
        BY DEF PowerFailure, IInv, TypeOK
    <2>3. at' \in [Thread -> {"code", "passed", "mount", "mounted", "sync"}]
        BY DEF PowerFailure
    <2>4. /\ mounted' \in BOOLEAN /\ fileDescriptorCounter' = 3 /\ fs_type' \in BOOLEAN
          /\ fsid' = 0 /\ fsMutex' = NoThread /\ writing' = 0
        BY DEF PowerFailure
    <2> QED
        BY <1>1, <2>1, <2>2, <2>3, <2>4 DEF TypeOK
<1>3. TableExact' /\ ObjectsGood' /\ WriterAlone'
    BY <1>1 DEF TableExact, isEmpty, ObjectsGood, WriterAlone
<1>4. DirectoryGood'
    BY DEF PowerFailure, IInv, DirectoryGood
<1>5. SyncHolds'
    BY FilesystemAssumption DEF PowerFailure, SyncHolds
<1> QED
    BY <1>2, <1>3, <1>4, <1>5 DEF IInv

(* FatFs changes the position, the size and the flags of an object.         *)
Changed(F, ptr, size, w, e) ==
    [F EXCEPT !.fptr = ptr, !.fsize = size, !.FA__WRITTEN = w, !.FA__ERROR = e]

(* An operation that changes an object and nothing else.                    *)
LEMMA UseStep ==
    ASSUME IInv, NEW t \in Thread, Body(t), NEW o \in DOMAIN fil, DOMAIN fil' = DOMAIN fil,
           \A p \in DOMAIN fil : p # o => fil'[p] = fil[p],
           fil'[o] \in FIL, fil'[o].name = fil[o].name, fil'[o].id = fil[o].id,
           fil'[o].FA_WRITE = fil[o].FA_WRITE, fil'[o].fsize >= fil[o].fsize,
           fil'[o].FA__WRITTEN => fil[o].FA__WRITTEN \/ fil[o].FA_WRITE,
           UNCHANGED <<fileDescriptorCounter, files, fatfs, dir, disk, acked>>
    PROVE  IInv'
<1>1. /\ \A p \in DOMAIN fil' : fil'[p] \in FIL
      /\ TableExact' /\ ObjectsGood' /\ WriterAlone'
    BY ObjectUsed
<1>2. TypeOK'
    BY <1>1 DEF IInv, TypeOK, fatfs, Body
<1>3. DirectoryGood'
    BY DEF IInv, DirectoryGood
<1>4. SyncHolds'
    BY MutexKept DEF IInv, Body
<1> QED
    BY <1>1, <1>2, <1>3, <1>4 DEF IInv

LEMMA DiskErrorStep ==
    ASSUME IInv, NEW t \in Thread, NEW fd \in Given, diskError(t, fd)
    PROVE  IInv'
<1> DEFINE o == Object(fd)
<1>1. o \in DOMAIN fil /\ Body(t) /\ fil' = [fil EXCEPT ![o].FA__ERROR = TRUE]
    BY ObjectOf DEF IInv, diskError, Usable
<1>2. fil[o] \in FIL
    BY <1>1 DEF IInv, TypeOK
<1>3. UNCHANGED <<fileDescriptorCounter, files, fatfs, dir, disk, acked>>
    BY DEF diskError
<1> HIDE DEF o
<1>4. /\ DOMAIN fil' = DOMAIN fil /\ \A p \in DOMAIN fil : p # o => fil'[p] = fil[p]
      /\ fil'[o] = [fil[o] EXCEPT !.FA__ERROR = TRUE]
    BY <1>1
<1>5. /\ fil[o].fptr \in 0 .. MaxSize /\ fil[o].fsize \in 0 .. MaxSize
      /\ fil[o].FA__WRITTEN \in BOOLEAN
    BY <1>2 DEF FIL
<1>6. PICK e \in BOOLEAN : e = TRUE
    OBVIOUS
<1>7. fil'[o] = Changed(fil[o], fil[o].fptr, fil[o].fsize, fil[o].FA__WRITTEN, e)
    BY <1>2, <1>4, <1>6 DEF FIL, Changed
<1>8. /\ fil'[o] \in FIL /\ fil'[o].name = fil[o].name /\ fil'[o].id = fil[o].id
      /\ fil'[o].FA_WRITE = fil[o].FA_WRITE /\ fil'[o].fsize = fil[o].fsize
      /\ fil'[o].FA__WRITTEN = fil[o].FA__WRITTEN
    <2>1. fil'[o] \in FIL
        BY <1>2, <1>5, <1>7 DEF Changed, FIL
    <2>2. fil'[o].name = fil[o].name
        BY <1>2, <1>5, <1>7 DEF Changed, FIL
    <2>3. fil'[o].id = fil[o].id
        BY <1>2, <1>5, <1>7 DEF Changed, FIL
    <2>4. fil'[o].FA_WRITE = fil[o].FA_WRITE
        BY <1>2, <1>5, <1>7 DEF Changed, FIL
    <2>5. fil'[o].fsize = fil[o].fsize
        BY <1>2, <1>5, <1>7 DEF Changed, FIL
    <2>6. fil'[o].FA__WRITTEN = fil[o].FA__WRITTEN
        BY <1>2, <1>5, <1>7 DEF Changed, FIL
    <2> QED
        BY <2>1, <2>2, <2>3, <2>4, <2>5, <2>6
<1>9. fil'[o].fsize >= fil[o].fsize /\ (fil'[o].FA__WRITTEN => fil[o].FA__WRITTEN)
    BY <1>5, <1>8, FilesystemAssumption
<1> QED
    BY <1>1, <1>3, <1>4, <1>8, <1>9, UseStep

LEMMA ReadStep ==
    ASSUME IInv, NEW t \in Thread, NEW fd \in Given, readFile(t, fd)
    PROVE  IInv'
<1> DEFINE o == Object(fd)
<1>1. /\ o \in DOMAIN fil /\ Body(t) /\ fil[o].fptr < fil[o].fsize
      /\ fil' = [fil EXCEPT ![o].fptr = @ + 1]
    BY ObjectOf DEF IInv, readFile, Usable
<1>2. fil[o] \in FIL
    BY <1>1 DEF IInv, TypeOK
<1>3. UNCHANGED <<fileDescriptorCounter, files, fatfs, dir, disk, acked>>
    BY DEF readFile
<1> HIDE DEF o
<1>4. /\ DOMAIN fil' = DOMAIN fil /\ \A p \in DOMAIN fil : p # o => fil'[p] = fil[p]
      /\ fil'[o] = [fil[o] EXCEPT !.fptr = fil[o].fptr + 1]
    BY <1>1
<1>5. fil[o].fptr + 1 \in 0 .. MaxSize
    BY <1>1, <1>2, FilesystemAssumption DEF FIL
<1>6. /\ fil'[o] \in FIL /\ fil'[o].name = fil[o].name /\ fil'[o].id = fil[o].id
      /\ fil'[o].FA_WRITE = fil[o].FA_WRITE /\ fil'[o].fsize >= fil[o].fsize
      /\ fil'[o].FA__WRITTEN = fil[o].FA__WRITTEN
    BY <1>2, <1>4, <1>5 DEF FIL
<1> QED
    BY <1>1, <1>3, <1>4, <1>6, UseStep

(* Seeking makes a file longer only if it may be written.                   *)
LEMMA SeekStep ==
    ASSUME IInv, NEW t \in Thread, NEW fd \in Given, NEW offset \in 0 .. MaxSize,
           lseekFile(t, fd, offset)
    PROVE  IInv'
<1> DEFINE o == Object(fd)
<1>1. o \in DOMAIN fil /\ Body(t)
    BY ObjectOf DEF IInv, lseekFile, Usable
<1>2. fil[o] \in FIL
    BY <1>1 DEF IInv, TypeOK
<1>3. UNCHANGED <<fileDescriptorCounter, files, fatfs, dir, disk, acked>>
    BY DEF lseekFile
<1>4. PICK there \in (IF offset <= fil[o].fsize THEN {offset}
                      ELSE IF fil[o].FA_WRITE THEN fil[o].fsize .. offset ELSE {fil[o].fsize}) :
        fil' = [fil EXCEPT
            ![o].fptr = there,
            ![o].fsize = IF there > fil[o].fsize THEN there ELSE fil[o].fsize,
            ![o].FA__WRITTEN = fil[o].FA__WRITTEN \/ there > fil[o].fsize]
    BY DEF lseekFile
<1> HIDE DEF o
<1>5. there \in 0 .. MaxSize /\ (there > fil[o].fsize => fil[o].FA_WRITE)
    BY <1>2, FilesystemAssumption DEF FIL
<1> DEFINE longer == there > fil[o].fsize
           size == IF longer THEN there ELSE fil[o].fsize
<1>6. size \in 0 .. MaxSize /\ size >= fil[o].fsize
    BY <1>2, <1>5, FilesystemAssumption DEF FIL
<1>7. /\ DOMAIN fil' = DOMAIN fil /\ \A p \in DOMAIN fil : p # o => fil'[p] = fil[p]
      /\ fil'[o] = [fil[o] EXCEPT !.fptr = there, !.fsize = size,
                                  !.FA__WRITTEN = fil[o].FA__WRITTEN \/ longer]
    BY <1>1, <1>4
<1> HIDE DEF longer, size
<1>8. PICK e \in BOOLEAN : e = fil[o].FA__ERROR
    BY <1>2 DEF FIL
<1>9. PICK w \in BOOLEAN : w = (fil[o].FA__WRITTEN \/ longer)
    OBVIOUS
<1>10. fil'[o] = Changed(fil[o], there, size, w, e)
    BY <1>2, <1>7, <1>8, <1>9 DEF FIL, Changed
<1>11. /\ fil'[o] \in FIL /\ fil'[o].name = fil[o].name /\ fil'[o].id = fil[o].id
       /\ fil'[o].FA_WRITE = fil[o].FA_WRITE /\ fil'[o].fsize = size
       /\ fil'[o].FA__WRITTEN = w
    <2>0. there \in 0 .. MaxSize /\ size \in 0 .. MaxSize
        BY <1>5, <1>6
    <2>1. fil'[o] \in FIL
        BY <1>2, <2>0, <1>10 DEF Changed, FIL
    <2>2. fil'[o].name = fil[o].name
        BY <1>2, <2>0, <1>10 DEF Changed, FIL
    <2>3. fil'[o].id = fil[o].id
        BY <1>2, <2>0, <1>10 DEF Changed, FIL
    <2>4. fil'[o].FA_WRITE = fil[o].FA_WRITE
        BY <1>2, <2>0, <1>10 DEF Changed, FIL
    <2>5. fil'[o].fsize = size
        BY <1>2, <2>0, <1>10 DEF Changed, FIL
    <2>6. fil'[o].FA__WRITTEN = w
        BY <1>2, <2>0, <1>10 DEF Changed, FIL
    <2> QED
        BY <2>1, <2>2, <2>3, <2>4, <2>5, <2>6
<1>12. fil'[o].FA__WRITTEN => fil[o].FA__WRITTEN \/ fil[o].FA_WRITE
    BY <1>5, <1>9, <1>11 DEF longer
<1> QED
    BY <1>1, <1>3, <1>6, <1>7, <1>11, <1>12, UseStep

(* Writing: the object is longer or not, and waits to be synced.            *)
LEMMA WriteStep ==
    ASSUME IInv, NEW t \in Thread, NEW fd \in Given, writeFile(t, fd)
    PROVE  IInv'
<1> DEFINE o == Object(fd)
<1>1. o \in DOMAIN fil
    BY ObjectOf DEF IInv, writeFile, Usable
<1>2. fil[o] \in FIL
    BY <1>1 DEF IInv, TypeOK
<1>3. PICK n \in {0, 1} :
        /\ fil[o].fptr + n <= MaxSize
        /\ fil' = [fil EXCEPT
                ![o].fptr = fil[o].fptr + n,
                ![o].fsize = IF fil[o].fptr + n > fil[o].fsize THEN fil[o].fptr + n ELSE fil[o].fsize,
                ![o].FA__WRITTEN = TRUE]
    BY DEF writeFile
<1>4. /\ at[t] = "passed" /\ fsMutex = NoThread /\ fil[o].FA_WRITE
      /\ writing' = o /\ fsMutex' = t /\ at' = [at EXCEPT ![t] = "sync"]
      /\ UNCHANGED <<mounted, fileDescriptorCounter, files, fatfs, dir, disk, acked>>
    BY DEF writeFile
<1> HIDE DEF o
<1> DEFINE there == fil[o].fptr + n
           size == IF there > fil[o].fsize THEN there ELSE fil[o].fsize
<1>5. there \in 0 .. MaxSize /\ size \in 0 .. MaxSize /\ size >= fil[o].fsize
    BY <1>2, <1>3, FilesystemAssumption DEF FIL
<1>6. /\ DOMAIN fil' = DOMAIN fil /\ \A p \in DOMAIN fil : p # o => fil'[p] = fil[p]
      /\ fil'[o] = [fil[o] EXCEPT !.fptr = there, !.fsize = size, !.FA__WRITTEN = TRUE]
    BY <1>1, <1>3
<1> HIDE DEF there, size
<1>7. /\ fil'[o] \in FIL /\ fil'[o].name = fil[o].name /\ fil'[o].id = fil[o].id
      /\ fil'[o].FA_WRITE = fil[o].FA_WRITE /\ fil'[o].fsize = size
      /\ fil'[o].FA__WRITTEN = TRUE
    <2>1. fil'[o] \in FIL
        BY <1>2, <1>5, <1>6 DEF FIL
    <2>2. fil'[o].name = fil[o].name
        BY <1>2, <1>5, <1>6 DEF FIL
    <2>3. fil'[o].id = fil[o].id
        BY <1>2, <1>5, <1>6 DEF FIL
    <2>4. fil'[o].FA_WRITE = fil[o].FA_WRITE
        BY <1>2, <1>5, <1>6 DEF FIL
    <2>5. fil'[o].fsize = size
        BY <1>2, <1>5, <1>6 DEF FIL
    <2>6. fil'[o].FA__WRITTEN = TRUE
        BY <1>2, <1>5, <1>6 DEF FIL
    <2> QED
        BY <2>1, <2>2, <2>3, <2>4, <2>5, <2>6
<1>8. /\ \A p \in DOMAIN fil' : fil'[p] \in FIL
      /\ TableExact' /\ ObjectsGood' /\ WriterAlone'
    BY <1>1, <1>4, <1>5, <1>6, <1>7, ObjectUsed
<1>9. TypeOK'
    BY <1>1, <1>4, <1>6, <1>8 DEF IInv, TypeOK, fatfs
<1>10. DirectoryGood'
    BY <1>4 DEF IInv, DirectoryGood
<1>11. SyncHolds'
    <2>1. \A u \in Thread : at'[u] = "sync" <=> u = t
        BY <1>4, FilesystemAssumption DEF IInv, TypeOK, SyncHolds
    <2>2. writing' \in DOMAIN fil' /\ fil'[writing'].FA_WRITE /\ fil'[writing'].FA__WRITTEN
        BY <1>1, <1>4, <1>6, <1>7
    <2> QED
        BY <1>4, <2>1, <2>2, FilesystemAssumption DEF SyncHolds
<1> QED
    BY <1>8, <1>9, <1>10, <1>11 DEF IInv

(* A sync, done or not, is of what FatFs knows of an object.                *)
LEMMA Synced ==
    ASSUME IInv, NEW o \in DOMAIN fil, SyncOk(o) \/ SyncFails(o), acked' = acked
    PROVE  dir' \in [File -> Sizes] /\ disk' \in [File -> Sizes] /\ DirectoryGood'
<1>1. fil[o] \in FIL /\ acked \in [File -> Sizes]
    BY DEF IInv, TypeOK
<1>2. fil[o].name \in File /\ fil[o].fsize \in Sizes
    BY <1>1 DEF FIL, Sizes
<1>3. CASE UNCHANGED <<dir, disk>>
    BY <1>3 DEF IInv, TypeOK, DirectoryGood
<1>4. CASE validate(o) /\ dir' \in {dir, Entry(o)} /\ disk' \in {disk, dir'}
    <2>1. fil[o].fsize >= acked'[fil[o].name]
        BY <1>4 DEF IInv, ObjectsGood
    <2> QED
        BY <1>1, <1>2, <1>4, <2>1, EntryWritten DEF Entry
<1> QED
    BY <1>3, <1>4 DEF SyncOk, SyncFails

(* The sync of writeFile.  If it succeeds the file is safe as it is: no     *)
(* other object knows another size of it.                                   *)
LEMMA WriteSyncStep ==
    ASSUME IInv, NEW t \in Thread, writeSync(t)
    PROVE  IInv'
<1> DEFINE o == writing
<1>1. /\ at[t] = "sync" /\ writing' = 0 /\ fsMutex' = NoThread
      /\ at' = [at EXCEPT ![t] = "code"]
      /\ UNCHANGED <<mounted, fileDescriptorCounter, files, fatfs>>
    BY DEF writeSync
<1>2. fsMutex = t /\ o \in DOMAIN fil /\ fil[o].FA_WRITE /\ fil[o].FA__WRITTEN
    BY <1>1, FilesystemAssumption DEF IInv, SyncHolds
<1>3. fil[o] \in FIL
    BY <1>2 DEF IInv, TypeOK
<1>4. PICK left \in BOOLEAN : fil' = [fil EXCEPT ![o].FA__WRITTEN = left]
    <2>1. PICK synced \in BOOLEAN : synced = FALSE
        OBVIOUS
    <2> QED
        BY <2>1 DEF writeSync
<1>5. SyncHolds'
    <2>1. \A u \in Thread : at'[u] # "sync"
        BY <1>1, <1>2, FilesystemAssumption DEF IInv, TypeOK, SyncHolds
    <2> QED
        BY <1>1, <2>1, FilesystemAssumption DEF SyncHolds
<1> HIDE DEF o
<1>6. /\ DOMAIN fil' = DOMAIN fil /\ \A p \in DOMAIN fil : p # o => fil'[p] = fil[p]
      /\ fil'[o] = [fil[o] EXCEPT !.FA__WRITTEN = left]
    BY <1>2, <1>4
<1>7. /\ fil'[o] \in FIL /\ fil'[o].name = fil[o].name /\ fil'[o].id = fil[o].id
      /\ fil'[o].FA_WRITE = fil[o].FA_WRITE /\ fil'[o].fsize = fil[o].fsize
    <2>1. fil'[o] \in FIL
        BY <1>3, <1>6 DEF FIL
    <2>2. fil'[o].name = fil[o].name /\ fil'[o].id = fil[o].id
        BY <1>3, <1>6 DEF FIL
    <2>3. fil'[o].FA_WRITE = fil[o].FA_WRITE
        BY <1>3, <1>6 DEF FIL
    <2>4. fil'[o].fsize = fil[o].fsize
        BY <1>3, <1>6 DEF FIL
    <2> QED
        BY <2>1, <2>2, <2>3, <2>4
<1>8. TableExact'
    BY <1>1, <1>6, TableKept DEF IInv
<1>9. CASE SyncFails(o) /\ UNCHANGED acked
    <2>1. fil'[o].fsize >= fil[o].fsize
        BY <1>3, <1>7, FilesystemAssumption DEF FIL
    <2>2. /\ \A p \in DOMAIN fil' : fil'[p] \in FIL
          /\ ObjectsGood' /\ WriterAlone'
        BY <1>1, <1>2, <1>6, <1>7, <1>9, <2>1, ObjectUsed
    <2>3. dir' \in [File -> Sizes] /\ disk' \in [File -> Sizes] /\ DirectoryGood'
        BY <1>2, <1>9, Synced
    <2>4. TypeOK'
        BY <1>1, <1>6, <1>9, <2>2, <2>3 DEF IInv, TypeOK, fatfs
    <2> QED
        BY <1>5, <1>8, <2>2, <2>3, <2>4 DEF IInv
<1>10. CASE SyncOk(o) /\ acked' = [acked EXCEPT ![fil[o].name] = fil[o].fsize]
    <2> DEFINE f == fil[o].name
               size == fil[o].fsize
    <2>1. validate(o) /\ dir' = [dir EXCEPT ![f] = size] /\ disk' = dir'
        BY <1>2, <1>10 DEF SyncOk, Entry
    <2>2. f \in File /\ size \in Sizes /\ size \in Int
        BY <1>3, FilesystemAssumption DEF FIL, Sizes
    <2>3. /\ acked' \in [File -> Sizes] /\ acked'[f] = size /\ dir'[f] = size
          /\ \A g \in File : g # f => acked'[g] = acked[g]
        BY <1>10, <2>1, <2>2 DEF IInv, TypeOK
    <2>4. \A p \in DOMAIN fil : validate(p)' <=> validate(p)
        BY <1>1, <1>6, <1>7 DEF validate, fatfs
    <2>5. \A p \in DOMAIN fil : fil'[p].name = fil[p].name /\ fil'[p].id = fil[p].id
                                /\ fil'[p].FA_WRITE = fil[p].FA_WRITE
        BY <1>6, <1>7
    <2>6. WriterAlone'
        BY <1>6, <2>4, <2>5 DEF IInv, WriterAlone
    <2>7. ObjectsGood'
        <3>1. \A p \in DOMAIN fil' : p < fileDescriptorCounter' /\ fil'[p].id <= fsid'
            BY <1>1, <1>6, <2>5 DEF IInv, ObjectsGood, fatfs
        <3>2. ASSUME NEW p \in DOMAIN fil', validate(p)'
              PROVE  /\ fil'[p].fsize >= acked'[fil'[p].name]
                     /\ fil'[p].FA__WRITTEN => fil'[p].FA_WRITE
            <4>1. CASE p = o
                <5>1. fil'[o].fsize = size /\ fil'[o].name = f /\ acked'[f] = size
                    BY <1>7, <2>3
                <5>2. fil'[o].fsize >= acked'[fil'[o].name]
                    BY <2>2, <5>1
                <5>3. fil'[o].FA_WRITE
                    BY <1>2, <1>7
                <5> QED
                    BY <4>1, <5>2, <5>3
            <4>2. CASE p # o
                <5>1. validate(p) /\ fil[p].name # f /\ fil[p].name \in File
                    BY <1>2, <1>6, <2>1, <2>4, <3>2, <4>2 DEF IInv, WriterAlone, TypeOK, FIL
                <5>2. fil'[p] = fil[p] /\ acked'[fil[p].name] = acked[fil[p].name]
                    BY <1>6, <2>3, <4>2, <5>1
                <5> QED
                    BY <1>6, <5>1, <5>2 DEF IInv, ObjectsGood
            <4> QED
                BY <4>1, <4>2
        <3> QED
            BY <3>1, <3>2 DEF ObjectsGood
    <2>8. dir' \in [File -> Sizes] /\ disk' \in [File -> Sizes] /\ DirectoryGood'
        <3>1. size >= acked'[f]
            BY <2>2, <2>3
        <3> HIDE DEF f, size
        <3> QED
            BY <2>1, <2>2, <2>3, <3>1, EntryWritten
    <2>9. \A p \in DOMAIN fil' : fil'[p] \in FIL
        BY <1>6, <1>7 DEF IInv, TypeOK
    <2>10. TypeOK'
        BY <1>1, <1>6, <2>3, <2>8, <2>9 DEF IInv, TypeOK, fatfs
    <2> QED
        BY <1>5, <1>8, <2>6, <2>7, <2>8, <2>10 DEF IInv
<1> QED
    BY <1>9, <1>10 DEF writeSync, o

LEMMA CloseStep ==
    ASSUME IInv, NEW t \in Thread, NEW fd \in Given, closeFile(t, fd)
    PROVE  IInv'
<1> DEFINE s == findSlot(fd)
           o == Object(fd)
<1>1. s \in Slot /\ ~isEmpty(s) /\ o \in DOMAIN fil /\ o = files[s].fptr
    BY ObjectOf DEF IInv, closeFile, Object
<1>2. /\ Body(t) /\ (SyncOk(o) \/ SyncFails(o)) /\ fil' = Without({o}) /\ freeSlot(s)
      /\ UNCHANGED <<fileDescriptorCounter, fatfs, acked>>
    BY DEF closeFile
<1> HIDE DEF s, o
<1>3. TableExact'
    BY <1>1, <1>2, CloseExact DEF IInv
<1>4. files' \in [Slot -> [fd : 0 .. MaxFd, fptr : 0 .. MaxFd]]
    BY <1>1, <1>2, FreeSlotExact DEF IInv
<1>5. DOMAIN fil' \subseteq DOMAIN fil /\ \A p \in DOMAIN fil' : fil'[p] = fil[p]
    BY <1>2 DEF Without
<1>6. /\ \A p \in DOMAIN fil' : fil'[p] \in FIL
      /\ ObjectsGood' /\ WriterAlone'
    <2>1. fileDescriptorCounter' \in Int /\ fileDescriptorCounter' >= fileDescriptorCounter
          /\ acked' \in [File -> Sizes]
        BY <1>2, FilesystemAssumption DEF IInv, TypeOK
    <2> QED
        BY <1>2, <1>5, <2>1, ObjectsGone DEF fatfs
<1>7. dir' \in [File -> Sizes] /\ disk' \in [File -> Sizes] /\ DirectoryGood'
    BY <1>1, <1>2, Synced
<1>8. fsMutex = NoThread /\ writing' = 0
    BY <1>2 DEF Body, IInv, SyncHolds
<1>9. TypeOK'
    BY <1>2, <1>4, <1>5, <1>6, <1>7, <1>8 DEF IInv, TypeOK, fatfs, Body
<1>10. SyncHolds'
    BY <1>2, MutexKept DEF IInv, Body
<1> QED
    BY <1>3, <1>6, <1>7, <1>9, <1>10 DEF IInv

(* Mounting by itself makes the objects of earlier mounts no better.        *)
LEMMA AutoMounted ==
    ASSUME TypeOK, auto_mount \/ UNCHANGED fatfs
    PROVE  /\ fs_type' \in BOOLEAN /\ fsid' \in 0 .. MaxMounts
           /\ UNCHANGED <<fs_type, fsid>> \/ (fsid' \in Int /\ fsid' > fsid)
<1>1. fs_type \in BOOLEAN /\ fsid \in 0 .. MaxMounts
    BY DEF TypeOK
<1>2. CASE UNCHANGED fatfs
    BY <1>1, <1>2 DEF fatfs
<1>3. CASE fsid < MaxMounts /\ fs_type' = TRUE /\ fsid' = fsid + 1
    <2>1. fsid' \in 0 .. MaxMounts /\ fsid' \in Int /\ fsid' > fsid
        BY <1>1, <1>3, FilesystemAssumption
    <2> QED
        BY <1>3, <2>1
<1> QED
    BY <1>2, <1>3 DEF auto_mount

LEMMA UnlinkStep ==
    ASSUME IInv, NEW t \in Thread, NEW f \in File, unlink(t, f)
    PROVE  IInv'
<1>1. /\ Body(t) /\ auto_mount
      /\ dir' = [dir EXCEPT ![f] = NoFile] /\ disk' \in {disk, dir'}
      /\ acked' = [acked EXCEPT ![f] = NoFile]
      /\ UNCHANGED <<fileDescriptorCounter, files, fil>>
    BY DEF unlink
<1>2. NoFile \in Sizes /\ NoFile \in Int
    BY DEF Sizes, NoFile
<1>3. /\ acked' \in [File -> Sizes] /\ acked'[f] = NoFile
      /\ \A g \in File : acked'[g] = acked[g] \/ acked'[g] = NoFile
    BY <1>1, <1>2 DEF IInv, TypeOK
<1>4. /\ fs_type' \in BOOLEAN /\ fsid' \in 0 .. MaxMounts
      /\ UNCHANGED <<fs_type, fsid>> \/ (fsid' \in Int /\ fsid' > fsid)
    BY <1>1, AutoMounted DEF IInv
<1>5. /\ \A p \in DOMAIN fil' : fil'[p] \in FIL
      /\ ObjectsGood' /\ WriterAlone'
    <2>1. fileDescriptorCounter' \in Int /\ fileDescriptorCounter' >= fileDescriptorCounter
        BY <1>1, FilesystemAssumption DEF IInv, TypeOK
    <2> QED
        BY <1>1, <1>3, <1>4, <2>1, ObjectsGone
<1>6. dir' \in [File -> Sizes] /\ disk' \in [File -> Sizes] /\ DirectoryGood'
    <2>1. NoFile >= acked'[f]
        BY <1>2, <1>3
    <2> QED
        BY <1>1, <1>2, <1>3, <2>1, EntryWritten
<1>7. TypeOK'
    BY <1>1, <1>3, <1>4, <1>5, <1>6 DEF IInv, TypeOK, Body
<1>8. TableExact'
    BY <1>1, TableKept DEF IInv
<1>9. SyncHolds'
    BY <1>1, MutexKept DEF IInv, Body
<1> QED
    BY <1>5, <1>6, <1>7, <1>8, <1>9 DEF IInv

(* The size that f_open gives the entry of a file is no less than what is   *)
(* promised of it, or it is emptied on purpose.                             *)
LEMMA OpenedEnough ==
    ASSUME IInv, NEW f \in File, NEW mode \in Mode
    PROVE  /\ Opened(f, mode) \in Sizes
           /\ ~Creates(f, mode) => Opened(f, mode) >= acked[f]
           /\ mode # "w" => Opened(f, mode) >= acked[f]
           /\ Opened(f, mode) >= NoFile
<1>1. dir[f] \in Sizes /\ acked[f] \in Sizes /\ dir[f] >= acked[f]
    BY DEF IInv, TypeOK, DirectoryGood
<1>2. 0 \in Sizes /\ \A n \in Sizes : n \in Int /\ n >= -1
    BY FilesystemAssumption DEF Sizes, NoFile
<1> QED
    BY <1>1, <1>2 DEF Opened, Creates, NoFile

LEMMA OpenFailsStep ==
    ASSUME IInv, NEW t \in Thread, NEW f \in File, NEW mode \in Mode, openFails(t, f, mode)
    PROVE  IInv'
<1>1. /\ Body(t) /\ fileDescriptorCounter < MaxFd
      /\ fileDescriptorCounter' = fileDescriptorCounter + 1
      /\ UNCHANGED fil
    BY DEF openFails
<1>2. fileDescriptorCounter \in 3 .. MaxFd /\ fileDescriptorCounter \in Nat
      /\ fileDescriptorCounter' \in 3 .. MaxFd /\ fileDescriptorCounter' >= fileDescriptorCounter
      /\ fileDescriptorCounter' \in Int
    BY <1>1, FilesystemAssumption DEF IInv, TypeOK
<1>3. SyncHolds'
    BY <1>1, MutexKept DEF IInv, Body
<1>4. CASE UNCHANGED <<files, fatfs, dir, disk, acked>>
    <2>1. /\ \A p \in DOMAIN fil' : fil'[p] \in FIL
          /\ ObjectsGood' /\ WriterAlone'
        BY <1>1, <1>2, <1>4, ObjectsGone DEF IInv, TypeOK, fatfs
    <2>2. TypeOK'
        BY <1>1, <1>2, <1>4 DEF IInv, TypeOK, fatfs, Body
    <2>3. TableExact' /\ DirectoryGood'
        BY <1>1, <1>4, TableKept DEF IInv, DirectoryGood
    <2> QED
        BY <1>3, <2>1, <2>2, <2>3 DEF IInv
<1>5. CASE /\ emptySlot # -1
           /\ files' = [files EXCEPT ![emptySlot].fd = fileDescriptorCounter]
           /\ auto_mount \/ UNCHANGED fatfs
           /\ dir' \in {dir, [dir EXCEPT ![f] = Opened(f, mode)]}
           /\ disk' \in {disk, dir'}
           /\ acked' = IF mode = "w" THEN [acked EXCEPT ![f] = NoFile] ELSE acked
    <2> DEFINE e == emptySlot
    <2>1. e \in Slot /\ isEmpty(e)
        BY <1>2, <1>5, FindsEmpty
    <2>2. /\ files' = [files EXCEPT ![e].fd = fileDescriptorCounter]
          /\ auto_mount \/ UNCHANGED fatfs
        BY <1>5
    <2> HIDE DEF e
    <2>3. files' \in [Slot -> [fd : 0 .. MaxFd, fptr : 0 .. MaxFd]]
        <3>1. fileDescriptorCounter \in 0 .. MaxFd /\ files[e] \in [fd : 0 .. MaxFd, fptr : 0 .. MaxFd]
            BY <1>2, <2>1, FilesystemAssumption DEF IInv, TypeOK
        <3> QED
            BY <2>1, <2>2, <3>1 DEF IInv, TypeOK
    <2>4. TableExact'
        <3>1. \A s \in Slot : files'[s].fptr = files[s].fptr /\ (s # e => files'[s] = files[s])
            BY <2>1, <2>2, <2>3 DEF IInv, TypeOK
        <3> QED
            BY <1>1, <2>1, <3>1 DEF IInv, TableExact, isEmpty
    <2>5. /\ fs_type' \in BOOLEAN /\ fsid' \in 0 .. MaxMounts
          /\ UNCHANGED <<fs_type, fsid>> \/ (fsid' \in Int /\ fsid' > fsid)
        BY <2>2, AutoMounted DEF IInv
    <2>6. NoFile \in Sizes /\ NoFile \in Int
        BY DEF Sizes, NoFile
    <2>7. /\ acked' \in [File -> Sizes]
          /\ mode = "w" => acked'[f] = NoFile
          /\ mode # "w" => acked'[f] = acked[f]
          /\ \A g \in File : acked'[g] = acked[g] \/ acked'[g] = NoFile
        BY <1>5, <2>6 DEF IInv, TypeOK
    <2>8. /\ \A p \in DOMAIN fil' : fil'[p] \in FIL
          /\ ObjectsGood' /\ WriterAlone'
        BY <1>1, <1>2, <2>5, <2>7, ObjectsGone
    <2>9. dir' \in [File -> Sizes] /\ disk' \in [File -> Sizes] /\ DirectoryGood'
        <3>1. Opened(f, mode) \in Sizes /\ Opened(f, mode) >= acked'[f]
            BY <2>7, OpenedEnough
        <3> QED
            BY <1>5, <2>7, <3>1, EntryWritten
    <2>10. TypeOK'
        BY <1>1, <1>2, <2>3, <2>5, <2>7, <2>8, <2>9 DEF IInv, TypeOK, Body
    <2> QED
        BY <1>3, <2>4, <2>8, <2>9, <2>10 DEF IInv
<1> QED
    BY <1>4, <1>5 DEF openFails

LEMMA OpenStep ==
    ASSUME IInv, NEW t \in Thread, NEW f \in File, NEW mode \in Mode, openFile(t, f, mode)
    PROVE  IInv'
<1> DEFINE e == emptySlot
           c == fileDescriptorCounter
           New == [name |-> f, id |-> fsid', FA_READ |-> mode \in {"r", "r+"},
                   FA_WRITE |-> mode # "r", FA__WRITTEN |-> FALSE, FA__ERROR |-> FALSE,
                   fsize |-> Opened(f, mode),
                   fptr |-> IF mode = "a" THEN Opened(f, mode) ELSE 0]
<1>1. /\ Body(t) /\ c < MaxFd /\ fileDescriptorCounter' = c + 1 /\ auto_mount
      /\ MayOpen(f, mode) /\ Opened(f, mode) # NoFile
      /\ files' = [files EXCEPT ![e] = [fd |-> c, fptr |-> c]]
      /\ fil' = [o \in DOMAIN fil \union {c} |-> IF o # c THEN fil[o] ELSE New]
      /\ dir' = [dir EXCEPT ![f] = Opened(f, mode)]
    BY DEF openFile, Found
<1>2. \/ Creates(f, mode) /\ disk' = dir' /\ acked' = [acked EXCEPT ![f] = 0]
      \/ ~Creates(f, mode) /\ UNCHANGED <<disk, acked>>
    BY DEF openFile
<1>3. /\ c \in 3 .. MaxFd /\ c \in Nat /\ c # 0 /\ c \in 0 .. MaxFd
      /\ fileDescriptorCounter' \in 3 .. MaxFd
    BY <1>1, FilesystemAssumption DEF IInv, TypeOK
<1>4. e \in Slot /\ isEmpty(e)
    BY <1>3, FindsEmpty DEF openFile
<1>5. c \notin DOMAIN fil
    <2>1. ~(c < c)
        BY <1>3
    <2> QED
        BY <2>1 DEF IInv, ObjectsGood
<1>6. Opened(f, mode) \in 0 .. MaxSize
    BY <1>1, OpenedEnough DEF Sizes
<1>7. /\ fs_type' \in BOOLEAN /\ fsid' \in 0 .. MaxMounts
      /\ UNCHANGED <<fs_type, fsid>> \/ (fsid' \in Int /\ fsid' > fsid)
    BY <1>1, AutoMounted DEF IInv
<1>8. /\ New \in FIL /\ New.name = f /\ New.id = fsid' /\ New.fsize = Opened(f, mode)
      /\ (New.FA_WRITE => mode # "r") /\ ~New.FA__WRITTEN
    <2>1. (IF mode = "a" THEN Opened(f, mode) ELSE 0) \in 0 .. MaxSize
        BY <1>6, FilesystemAssumption
    <2>2. New \in FIL
        BY <1>6, <1>7, <2>1 DEF FIL
    <2>3. New.name = f /\ New.id = fsid' /\ New.fsize = Opened(f, mode)
        OBVIOUS
    <2>4. New.FA_WRITE => mode # "r"
        OBVIOUS
    <2>5. ~New.FA__WRITTEN
        OBVIOUS
    <2> QED
        BY <2>2, <2>3, <2>4, <2>5
<1> HIDE DEF e, c, New
<1>9. /\ DOMAIN fil' = DOMAIN fil \union {c} /\ fil'[c] = New
      /\ \A o \in DOMAIN fil : o # c /\ fil'[o] = fil[o]
    BY <1>1, <1>5
<1>10. \A o \in DOMAIN fil : o \in Int /\ o < c /\ fil[o] \in FIL /\ fil[o].id \in Int
                            /\ fil[o].id <= fsid
    BY FilesystemAssumption DEF IInv, TypeOK, ObjectsGood, FIL, c
<1>11. \A o \in DOMAIN fil : validate(o)' => validate(o)
    <2>1. SUFFICES ASSUME NEW o \in DOMAIN fil, validate(o)' PROVE validate(o)
        OBVIOUS
    <2>2. fs_type' /\ fil[o].id = fsid'
        BY <1>9, <2>1 DEF validate
    <2>3. ~(fsid' > fsid)
        BY <1>7, <1>10, <2>2 DEF IInv, TypeOK
    <2>4. fs_type' = fs_type /\ fsid' = fsid
        BY <1>7, <2>3
    <2>5. fs_type /\ fil[o].id = fsid
        BY <2>2, <2>4, Zenon
    <2> QED
        BY <2>5 DEF validate
<1>12. acked' \in [File -> Sizes] /\ Opened(f, mode) >= acked'[f]
       /\ \A g \in File : g # f => acked'[g] = acked[g]
    <2>1. CASE Creates(f, mode) /\ acked' = [acked EXCEPT ![f] = 0]
        <3>1. 0 \in Sizes /\ Opened(f, mode) = 0
            BY <2>1, FilesystemAssumption DEF Sizes, Opened
        <3> QED
            BY <2>1, <3>1 DEF IInv, TypeOK
    <2>2. CASE ~Creates(f, mode) /\ acked' = acked
        BY <2>2, OpenedEnough DEF IInv, TypeOK
    <2> QED
        BY <1>2, <2>1, <2>2
<1>13. \A o \in DOMAIN fil : validate(o)' /\ fil[o].name = f =>
        mode = "r" /\ ~fil[o].FA_WRITE /\ acked'[f] = acked[f]
    BY <1>1, <1>2, <1>11 DEF MayOpen, Creates
<1>14. ObjectsGood'
    <2>1. \A o \in DOMAIN fil' : o < fileDescriptorCounter' /\ fil'[o].id <= fsid'
        <3>1. fileDescriptorCounter' = c + 1
            BY <1>1 DEF c
        <3>2. fsid \in Int /\ fsid' \in Int /\ fsid <= fsid'
            BY <1>7, FilesystemAssumption DEF IInv, TypeOK
        <3> QED
            BY <1>3, <1>8, <1>9, <1>10, <3>1, <3>2
    <2>2. ASSUME NEW o \in DOMAIN fil', validate(o)'
          PROVE  /\ fil'[o].fsize >= acked'[fil'[o].name]
                 /\ fil'[o].FA__WRITTEN => fil'[o].FA_WRITE
        <3>1. CASE o = c
            BY <1>8, <1>9, <1>12, <3>1
        <3>2. CASE o \in DOMAIN fil
            <4>1. /\ fil[o].fsize >= acked[fil[o].name]
                  /\ fil[o].FA__WRITTEN => fil[o].FA_WRITE
                BY <1>11, <2>2, <3>2 DEF IInv, ObjectsGood
            <4>2. fil[o].name \in File
                BY <1>10, <3>2 DEF FIL
            <4>3. acked'[fil[o].name] = acked[fil[o].name]
                BY <1>12, <1>13, <2>2, <3>2, <4>2
            <4> QED
                BY <1>9, <3>2, <4>1, <4>3
        <3> QED
            BY <1>9, <3>1, <3>2
    <2> QED
        BY <2>1, <2>2 DEF ObjectsGood
<1>15. WriterAlone'
    <2>1. SUFFICES ASSUME NEW o \in DOMAIN fil', NEW p \in DOMAIN fil', validate(o)', validate(p)',
                          fil'[o].name = fil'[p].name, fil'[o].FA_WRITE, o # p
                   PROVE  FALSE
        BY DEF WriterAlone
    <2>2. CASE o \in DOMAIN fil /\ p \in DOMAIN fil
        BY <1>9, <1>11, <2>1, <2>2 DEF IInv, WriterAlone
    <2>3. CASE o = c /\ p \in DOMAIN fil
        BY <1>8, <1>9, <1>13, <2>1, <2>3
    <2>4. CASE o \in DOMAIN fil /\ p = c
        BY <1>8, <1>9, <1>13, <2>1, <2>4
    <2> QED
        BY <1>9, <2>1, <2>2, <2>3, <2>4
<1>16. files' \in [Slot -> [fd : 0 .. MaxFd, fptr : 0 .. MaxFd]]
    BY <1>1, <1>3, <1>4 DEF IInv, TypeOK
<1>17. TableExact'
    <2>1. /\ files'[e].fd = c /\ files'[e].fptr = c
          /\ \A s \in Slot : s # e => files'[s] = files[s]
        BY <1>1, <1>4 DEF IInv, TypeOK
    <2>2. \A s \in Slot : files[s].fptr # 0 => files[s].fptr \in DOMAIN fil
        BY DEF IInv, TableExact, isEmpty
    <2>3. \A s \in Slot : files'[s].fptr # 0 => files'[s].fptr = files'[s].fd
        BY <2>1 DEF IInv, TableExact, isEmpty
    <2>4. \A s, o \in Slot : files'[s].fptr # 0 /\ files'[s].fptr = files'[o].fptr => s = o
        BY <1>3, <1>5, <2>1, <2>2 DEF IInv, TableExact, isEmpty
    <2>5. DOMAIN fil' = {files'[s].fptr : s \in {o \in Slot : files'[o].fptr # 0}}
        <3>1. DOMAIN fil = {files[s].fptr : s \in {o \in Slot : files[o].fptr # 0}}
            BY DEF IInv, TableExact, isEmpty
        <3>2. {o \in Slot : files'[o].fptr # 0} = {o \in Slot : files[o].fptr # 0} \union {e}
            BY <1>3, <1>4, <2>1
        <3>3. \A s \in Slot : files[s].fptr # 0 => files'[s] = files[s]
            BY <1>4, <2>1 DEF isEmpty
        <3> QED
            BY <1>9, <2>1, <3>1, <3>2, <3>3
    <2> QED
        BY <2>3, <2>4, <2>5 DEF TableExact, isEmpty
<1>18. dir' \in [File -> Sizes] /\ disk' \in [File -> Sizes] /\ DirectoryGood'
    <2>1. /\ Opened(f, mode) \in Sizes /\ disk' \in {disk, dir'}
          /\ dir'[f] = Opened(f, mode)
          /\ acked' = acked \/ disk' = dir'
        BY <1>1, <1>2, OpenedEnough DEF IInv, TypeOK
    <2> QED
        BY <1>1, <1>12, <2>1, EntryWritten
<1>19. TypeOK'
    <2>1. DOMAIN fil' \subseteq 3 .. MaxFd /\ \A o \in DOMAIN fil' : fil'[o] \in FIL
        BY <1>3, <1>8, <1>9, <1>10 DEF IInv, TypeOK
    <2>2. writing' \in {0} \union DOMAIN fil'
        BY <1>1, <1>9 DEF Body, IInv, TypeOK
    <2>3. fileDescriptorCounter' \in 3 .. MaxFd
        BY <1>3
    <2> QED
        BY <1>1, <1>7, <1>12, <1>16, <1>18, <2>1, <2>2, <2>3 DEF IInv, TypeOK, Body
<1>20. SyncHolds'
    BY <1>1, MutexKept DEF IInv, Body
<1> QED
    BY <1>14, <1>15, <1>17, <1>18, <1>19, <1>20 DEF IInv

-----------------------------------------------------------------------------
(* Each step keeps the invariant.                                           *)
LEMMA IInvInductive == IInv /\ [Next]_vars => IInv'
<1>1. SUFFICES ASSUME IInv, [Next]_vars PROVE IInv'
    OBVIOUS
<1>2. CASE UNCHANGED vars
    <2>1. UNCHANGED <<mounted, fileDescriptorCounter, files, fil, fs_type, fsid, dir, disk,
                      fsMutex, at, writing, acked>>
        BY <1>2 DEF vars, fatfs
    <2> QED
        BY <1>1, <2>1 DEF IInv, TypeOK, TableExact, isEmpty, ObjectsGood, WriterAlone,
                          DirectoryGood, SyncHolds, validate
<1>3. ASSUME NEW t \in Thread, mountTest(t) \/ mountDone(t) \/ isMounted(t) \/ refused(t)
      PROVE  IInv'
    <2>1. mounted' \in BOOLEAN /\ at[t] # "sync"
        BY <1>1, <1>3 DEF IInv, TypeOK, mountTest, mountDone, isMounted, refused, Body
    <2>2. PICK c \in {"code", "passed", "mount", "mounted"} : at' = [at EXCEPT ![t] = c]
        BY <1>3 DEF mountTest, mountDone, isMounted, refused, Body
    <2>3. UNCHANGED <<fileDescriptorCounter, files, fil, fatfs, dir, disk,
                      fsMutex, writing, acked>>
        BY <1>3 DEF mountTest, mountDone, isMounted, refused, Body
    <2> QED
        BY <1>1, <2>1, <2>2, <2>3, QuietStep
<1>4. ASSUME NEW t \in Thread, mountWork(t) \/ umount(t) \/ writeSync(t)
      PROVE  IInv'
    BY <1>1, <1>4, MountStep, UmountStep, WriteSyncStep
<1>5. ASSUME NEW t \in Thread, NEW f \in File, unlink(t, f)
      PROVE  IInv'
    BY <1>1, <1>5, UnlinkStep
<1>6. ASSUME NEW t \in Thread, NEW f \in File, NEW mode \in Mode,
             openFails(t, f, mode) \/ openFile(t, f, mode)
      PROVE  IInv'
    BY <1>1, <1>6, OpenFailsStep, OpenStep
<1>7. ASSUME NEW t \in Thread, NEW fd \in Given,
             readFile(t, fd) \/ writeFile(t, fd) \/ diskError(t, fd) \/ closeFile(t, fd)
      PROVE  IInv'
    BY <1>1, <1>7, ReadStep, WriteStep, DiskErrorStep, CloseStep
<1>8. ASSUME NEW t \in Thread, NEW fd \in Given, NEW offset \in 0 .. MaxSize,
             lseekFile(t, fd, offset)
      PROVE  IInv'
    BY <1>1, <1>8, SeekStep
<1>9. CASE PowerFailure
    BY <1>1, <1>9, PowerFailureStep
<1> QED
    BY <1>1, <1>2, <1>3, <1>4, <1>5, <1>6, <1>7, <1>8, <1>9 DEF Next

(* Table, cache and disk agree in every reachable state.                    *)
THEOREM Invariant == Spec => []IInv
<1>1. Init => IInv
    BY InitIInv
<1>2. IInv /\ [Next]_vars => IInv'
    BY IInvInductive
<1> QED
    BY <1>1, <1>2, PTL DEF Spec

(* Every variable keeps its type.                                           *)
THEOREM TypeCorrect == Spec => []TypeOK
<1>1. IInv => TypeOK
    BY DEF IInv
<1> QED
    BY <1>1, Invariant, PTL

(* The table and the heap agree, for any length of the table: what freeSlot *)
(* moves is neither lost nor doubled.                                       *)
THEOREM TableIsExact == Spec => []TableExact
<1>1. IInv => TableExact
    BY DEF IInv
<1> QED
    BY <1>1, Invariant, PTL

(* What writeFile said it has written is on the disk, whatever failures of  *)
(* the power and of the disk there were.                                    *)
THEOREM WritesAreSafe == Spec => []WrittenIsSafe
<1>1. IInv => WrittenIsSafe
    BY DEF IInv, DirectoryGood, WrittenIsSafe
<1> QED
    BY <1>1, Invariant, PTL

-----------------------------------------------------------------------------
(* The table implements DescriptorTable: what the searches find makes it    *)
(* the identity on the objects there are.                                   *)
Abstract == [fd \in {fd \in Given : findSlot(fd) # -1} |-> Object(fd)]

LEMMA NoDescriptors == [fd \in {} |-> fd] = << >>
OBVIOUS

LEMMA AbstractIs == IInv => Abstract = [fd \in DOMAIN fil |-> fd]
<1>1. SUFFICES ASSUME IInv PROVE Abstract = [fd \in DOMAIN fil |-> fd]
    OBVIOUS
<1>2. ASSUME NEW fd \in DOMAIN fil
      PROVE  fd \in Given /\ findSlot(fd) # -1
    <2>1. fd \in Given /\ fd \in Nat
        BY <1>1, FilesystemAssumption DEF IInv, TypeOK, ObjectsGood, Given
    <2> DEFINE S == {s \in Slot : ~isEmpty(s) /\ files[s].fd = fd}
    <2>2. PICK s \in Slot : ~isEmpty(s) /\ files[s].fptr = fd
        BY <1>1 DEF IInv, TableExact
    <2>3. s \in S
        BY <1>1, <2>2 DEF IInv, TableExact
    <2>4. Nearest(Hash(fd), S) \in S
        BY <2>1, <2>3, HashInTable, NearestIn
    <2>5. Nearest(Hash(fd), S) # -1
        BY <2>4, SlotsGoRound
    <2> QED
        BY <2>1, <2>3, <2>5 DEF findSlot
<1>3. ASSUME NEW fd \in Given, findSlot(fd) # -1
      PROVE  fd \in DOMAIN fil /\ Object(fd) = fd
    BY <1>1, <1>3, ObjectOf DEF IInv
<1>4. {fd \in Given : findSlot(fd) # -1} = DOMAIN fil
    BY <1>2, <1>3
<1> QED
    BY <1>3, <1>4 DEF Abstract

LEMMA TableInit == Init => Table!Init
<1>1. SUFFICES ASSUME Init PROVE Table!Init
    OBVIOUS
<1>2. DOMAIN fil = {} /\ fileDescriptorCounter = 3
    BY <1>1 DEF Init, Booted
<1>3. Abstract = << >>
    BY <1>1, <1>2, InitIInv, AbstractIs, NoDescriptors
<1> QED
    BY <1>2, <1>3 DEF Table!Init, Abstract

LEMMA TableStep == IInv /\ [Next]_vars => [Table!Next]_(Table!vars)
<1>1. SUFFICES ASSUME IInv, [Next]_vars PROVE [Table!Next]_(Table!vars)
    OBVIOUS
<1>2. /\ Abstract = [fd \in DOMAIN fil |-> fd]
      /\ Abstract' = [fd \in DOMAIN fil' |-> fd]
    <2>1. IInv'
        BY <1>1, IInvInductive
    <2>2. (IInv => Abstract = [fd \in DOMAIN fil |-> fd])'
        BY AbstractIs, PTL
    <2> QED
        BY <1>1, <2>1, <2>2, AbstractIs
<1>3. fileDescriptorCounter \notin DOMAIN fil
    <2>1. \A o \in DOMAIN fil : o < fileDescriptorCounter
        BY <1>1 DEF IInv, ObjectsGood
    <2>2. ~(fileDescriptorCounter < fileDescriptorCounter)
        BY <1>1 DEF IInv, TypeOK
    <2> QED
        BY <2>1, <2>2
<1> DEFINE Silent == UNCHANGED fileDescriptorCounter /\ DOMAIN fil' = DOMAIN fil
           Refused == fileDescriptorCounter' = fileDescriptorCounter + 1 /\ DOMAIN fil' = DOMAIN fil
           Opens == /\ fileDescriptorCounter' = fileDescriptorCounter + 1
                     /\ DOMAIN fil' = DOMAIN fil \union {fileDescriptorCounter}
           Closed == /\ UNCHANGED fileDescriptorCounter
                     /\ \E fd \in DOMAIN fil : DOMAIN fil' = DOMAIN fil \ {fd}
           Emptied == fileDescriptorCounter' \in {fileDescriptorCounter, 3} /\ DOMAIN fil' = {}
<1>4. Silent \/ Refused \/ Opens \/ Closed \/ Emptied
    <2>1. CASE UNCHANGED vars
        BY <2>1 DEF vars
    <2>2. ASSUME NEW t \in Thread,
                 mountTest(t) \/ mountWork(t) \/ mountDone(t) \/ isMounted(t) \/ refused(t)
          PROVE  Silent
        BY <2>2 DEF mountTest, mountWork, mountDone, isMounted, refused
    <2>3. ASSUME NEW t \in Thread, writeSync(t)
          PROVE  Silent
        BY <2>3 DEF writeSync
    <2>4. ASSUME NEW t \in Thread, umount(t)
          PROVE  Emptied
        BY <1>1, <2>4 DEF umount, IInv, TableExact, Without
    <2>5. ASSUME NEW t \in Thread, NEW f \in File, unlink(t, f)
          PROVE  Silent
        BY <2>5 DEF unlink
    <2>6. ASSUME NEW t \in Thread, NEW f \in File, NEW mode \in Mode, openFails(t, f, mode)
          PROVE  Refused
        BY <2>6 DEF openFails
    <2>7. ASSUME NEW t \in Thread, NEW f \in File, NEW mode \in Mode, openFile(t, f, mode)
          PROVE  Opens
        BY <2>7 DEF openFile
    <2>8. ASSUME NEW t \in Thread, NEW fd \in Given, readFile(t, fd)
          PROVE  Silent
        BY <2>8 DEF readFile
    <2>9. ASSUME NEW t \in Thread, NEW fd \in Given, writeFile(t, fd)
          PROVE  Silent
        BY <2>9 DEF writeFile
    <2>10. ASSUME NEW t \in Thread, NEW fd \in Given, diskError(t, fd)
           PROVE  Silent
        BY <2>10 DEF diskError
    <2>11. ASSUME NEW t \in Thread, NEW fd \in Given, NEW offset \in 0 .. MaxSize,
                  lseekFile(t, fd, offset)
           PROVE  Silent
        BY <2>11 DEF lseekFile
    <2>12. ASSUME NEW t \in Thread, NEW fd \in Given, closeFile(t, fd)
           PROVE  Closed
        BY <1>1, <2>12, ObjectOf DEF closeFile, Without, IInv
    <2>13. CASE PowerFailure
        BY <2>13 DEF PowerFailure
    <2> HIDE DEF Silent, Refused, Opens, Closed, Emptied
    <2> QED
        BY <1>1, <2>1, <2>2, <2>3, <2>4, <2>5, <2>6, <2>7, <2>8, <2>9, <2>10, <2>11,
           <2>12, <2>13 DEF Next, Silent, Emptied
<1>5. CASE Silent
    BY <1>2, <1>5 DEF Table!vars, Abstract
<1>6. CASE Refused
    <2>1. Table!Refuse
        BY <1>2, <1>6 DEF Table!Refuse, Abstract
    <2> QED
        BY <2>1 DEF Table!Next
<1>7. CASE Opens
    <2>1. Table!Open
        BY <1>2, <1>3, <1>7 DEF Table!Open, Abstract
    <2> QED
        BY <2>1 DEF Table!Next
<1>8. CASE Closed
    <2>1. PICK fd \in DOMAIN fil : DOMAIN fil' = DOMAIN fil \ {fd}
        BY <1>8
    <2>2. fd \in DOMAIN Abstract /\ Table!Close(fd)
        BY <1>2, <1>8, <2>1 DEF Table!Close, Abstract
    <2> QED
        BY <2>2 DEF Table!Next, Abstract
<1>9. CASE Emptied
    <2>1. Abstract' = << >>
        BY <1>2, <1>9, NoDescriptors
    <2>2. Table!CloseAll
        BY <1>9, <2>1 DEF Table!CloseAll, Abstract
    <2> QED
        BY <2>2 DEF Table!Next
<1> HIDE DEF Silent, Refused, Opens, Closed, Emptied
<1> QED
    BY <1>4, <1>5, <1>6, <1>7, <1>8, <1>9

(* The table with its hashing, probing and moving implements a function     *)
(* from the open descriptors to their files, for any length of it.          *)
THEOREM TableImplementsDescriptors == Spec => Descriptors
<1>1. Init => Table!Init
    BY TableInit
<1>2. IInv /\ [Next]_vars => [Table!Next]_(Table!vars)
    BY TableStep
<1> QED
    BY <1>1, <1>2, Invariant, PTL DEF Spec, Descriptors, Table!Spec

=============================================================================
