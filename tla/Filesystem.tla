------------------------------ MODULE Filesystem ------------------------------
(***************************************************************************)
(* The file system layer of the kernel (kernel/filesystem/filesystem.cpp): *)
(* the table of open files, mounting and unmounting, and what of FatFs     *)
(* (ff.c) decides which file object is still good and what is on the disk. *)
(*                                                                         *)
(* Every operation first tests isMounted, without a lock, and then does    *)
(* its work with fsMutex locked: two steps, between which other threads    *)
(* run.  Writing is one step more, for the power may fail between the      *)
(* write and the sync.  Of the contents of a file the model keeps its      *)
(* size, in units that a call reads or writes.                             *)
(***************************************************************************)
EXTENDS Integers

CONSTANTS
    Thread, NoThread,
    File,           \* the names of files
    MaxOpenFiles,   \* MAX_OPEN_FILES
    MaxFd,          \* bound on fileDescriptorCounter
    MaxMounts,      \* bound on fsid between two power failures
    MaxSize         \* bound on the size of a file

ASSUME FilesystemAssumption ==
    /\ NoThread \notin Thread
    /\ MaxOpenFiles \in Nat \ {0}
    /\ MaxFd \in Nat /\ MaxFd >= 3 /\ MaxMounts \in Nat /\ MaxSize \in Nat

Slot == 0 .. MaxOpenFiles - 1
NoFile == -1

VARIABLES
    mounted, fileDescriptorCounter,
    files,      \* the table: per slot fd and fptr, the FIL object, 0 if none
    fil,        \* the FIL objects that are allocated, each named by the descriptor
                \* it was made for
    fs_type,    \* FatFs has mounted the disk
    fsid,       \* the number of the last mount
    dir,        \* the sizes in the directory, as FatFs sees them
    disk,       \* and as they are on the disk
    fsMutex,    \* who has it between two steps
    at,         \* "code", "passed" (its test of isMounted), "mount", "mounted"
    writing,    \* the FIL object that writeFile is about to sync
    acked       \* history: the size the successful operations promise

fatfs == <<fs_type, fsid>>
vars == <<mounted, fileDescriptorCounter, files, fil, fatfs, dir, disk,
          fsMutex, at, writing, acked>>

Sizes == {NoFile} \union 0 .. MaxSize

Booted ==
    /\ mounted = FALSE
    /\ fileDescriptorCounter = 3
    /\ files = [s \in Slot |-> [fd |-> 0, fptr |-> 0]]
    /\ fil = << >>
    /\ fs_type = FALSE
    /\ fsid = 0
    /\ fsMutex = NoThread
    /\ at = [t \in Thread |-> "code"]
    /\ writing = 0

Init ==
    /\ Booted
    /\ disk = [f \in File |-> NoFile]
    /\ dir = disk
    /\ acked = disk

-----------------------------------------------------------------------------
(* The table of open files.  A descriptor belongs in the slot it hashes    *)
(* to, or else in the next that is free, around the end of the table.      *)
isEmpty(s) == files[s].fptr = 0
Following(s) == IF s + 1 = MaxOpenFiles THEN 0 ELSE s + 1
Probes(from, s) == IF s >= from THEN s - from ELSE s - from + MaxOpenFiles
Nearest(from, S) == CHOOSE s \in S : \A o \in S : Probes(from, s) <= Probes(from, o)
Hash(fd) == fd % MaxOpenFiles

(* Faulty variant of emptySlot, which the model does not use: it shows that *)
(* a property can fail.  So do those below.                                *)
emptySlotHashed == Hash(fileDescriptorCounter)      \* empty or not

findSlot(fd) ==
    LET S == {s \in Slot : ~isEmpty(s) /\ files[s].fd = fd}
    IN IF S = {} THEN -1 ELSE Nearest(Hash(fd), S)

emptySlot ==
    LET S == {s \in Slot : isEmpty(s)}
    IN IF S = {} THEN -1 ELSE Nearest(Hash(fileDescriptorCounter), S)

(* The slots behind s that follow each other with files of the same hash:  *)
(* freeSlot moves each of them one slot back.                              *)
Moved(s) ==
    {o \in Slot \ {s} : \A p \in Slot \ {s} :
        Probes(s, p) <= Probes(s, o) =>
            ~isEmpty(p) /\ Hash(files[p].fd) = Hash(files[s].fd)}

(* Faulty variant of freeSlot: the last one moved stays where it was, too. *)
freeSlotLeft(s) ==
    files' = [o \in Slot |->
        IF Following(o) \in Moved(s) THEN files[Following(o)]
        ELSE IF Moved(s) = {} /\ o = s THEN [files[o] EXCEPT !.fptr = 0]
        ELSE files[o]]

freeSlot(s) ==
    files' = [o \in Slot |->
        IF Following(o) \in Moved(s) THEN files[Following(o)]
        ELSE IF o \in Moved(s) \union {s} THEN [files[o] EXCEPT !.fptr = 0]
        ELSE files[o]]

Without(objects) == [o \in DOMAIN fil \ objects |-> fil[o]]

-----------------------------------------------------------------------------
(* FatFs.  An object is good while the mount it was opened under is the    *)
(* one in force.                                                           *)
validate(o) == fs_type /\ fil[o].id = fsid

(* f_sync writes the entry of a changed file, by way of the sector of the  *)
(* directory that FatFs has in memory.  If the disk fails the sector has   *)
(* been changed or not, and it may have got to the disk all the same.      *)
Entry(o) == [dir EXCEPT ![fil[o].name] = fil[o].fsize]

(* Faulty variant of SyncOk: leaves the sector in memory.                  *)
SyncCached(o) ==
    /\ validate(o)
    /\ dir' = (IF fil[o].FA__WRITTEN THEN Entry(o) ELSE dir)
    /\ UNCHANGED disk

SyncOk(o) ==
    /\ validate(o)
    /\ IF fil[o].FA__WRITTEN
       THEN dir' = Entry(o) /\ disk' = dir'
       ELSE UNCHANGED <<dir, disk>>

SyncFails(o) ==
    IF validate(o) /\ fil[o].FA__WRITTEN
    THEN dir' \in {dir, Entry(o)} /\ disk' \in {disk, dir'}
    ELSE UNCHANGED <<dir, disk>>

(* auto_mount: nothing to do when the disk is mounted.                     *)
auto_mount ==
    \/ fs_type /\ UNCHANGED fatfs
    \/ ~fs_type /\ fsid < MaxMounts /\ fs_type' = TRUE /\ fsid' = fsid + 1

-----------------------------------------------------------------------------
(* mount: the test, the work, and the note that it is done, after unlock.  *)
mountTest(t) ==
    /\ at[t] = "code"
    /\ ~mounted
    /\ at' = [at EXCEPT ![t] = "mount"]
    /\ UNCHANGED <<mounted, fileDescriptorCounter, files, fil, fatfs, dir, disk,
                   fsMutex, writing, acked>>

(* f_mount forgets the mount before and what it had in memory of the disk, *)
(* and f_opendir makes the new one, if the disk works.                     *)
mountWork(t) ==
    /\ at[t] = "mount"
    /\ fsMutex = NoThread
    /\ \/ /\ fsid < MaxMounts
          /\ fs_type' = TRUE
          /\ fsid' = fsid + 1
          /\ at' = [at EXCEPT ![t] = "mounted"]
       \/ /\ fs_type' = FALSE
          /\ at' = [at EXCEPT ![t] = "code"]
          /\ UNCHANGED fsid
    /\ dir' = disk
    /\ UNCHANGED <<mounted, fileDescriptorCounter, files, fil, disk,
                   fsMutex, writing, acked>>

mountDone(t) ==
    /\ at[t] = "mounted"
    /\ mounted' = TRUE
    /\ at' = [at EXCEPT ![t] = "code"]
    /\ UNCHANGED <<fileDescriptorCounter, files, fil, fatfs, dir, disk,
                   fsMutex, writing, acked>>

(* umount closes what is open; f_close syncs, or fails to.                 *)
umount(t) ==
    /\ at[t] = "code"
    /\ fsMutex = NoThread
    /\ mounted
    /\ mounted' = FALSE
    /\ \E synced \in SUBSET {o \in DOMAIN fil : validate(o) /\ fil[o].FA__WRITTEN} :
        /\ dir' = [f \in File |->
                    IF \E o \in synced : fil[o].name = f
                    THEN fil[CHOOSE o \in synced : fil[o].name = f].fsize
                    ELSE dir[f]]
        /\ disk' \in {disk, dir'}
    /\ files' = [s \in Slot |-> [files[s] EXCEPT !.fptr = 0]]
    /\ fil' = Without({files[s].fptr : s \in Slot})
    /\ UNCHANGED <<fileDescriptorCounter, fatfs, fsMutex, at, writing, acked>>

-----------------------------------------------------------------------------
(* Every other operation starts with this test...                          *)
isMounted(t) ==
    /\ at[t] = "code"
    /\ mounted
    /\ at' = [at EXCEPT ![t] = "passed"]
    /\ UNCHANGED <<mounted, fileDescriptorCounter, files, fil, fatfs, dir, disk,
                   fsMutex, writing, acked>>

(* ... and goes on with the mutex locked, to its return.                   *)
Body(t) ==
    /\ at[t] = "passed"
    /\ fsMutex = NoThread
    /\ at' = [at EXCEPT ![t] = "code"]
    /\ UNCHANGED <<mounted, fsMutex, writing>>

(* openFile.  The user opens a file for writing once at a time, as the     *)
(* class asks.  "w" truncates it, "a" goes to its end, both create it;     *)
(* "r" and "r+" want it to exist.                                          *)
Mode == {"r", "r+", "w", "a"}

MayOpen(f, mode) ==
    \A o \in DOMAIN fil : validate(o) /\ fil[o].name = f => mode = "r" /\ ~fil[o].FA_WRITE

Creates(f, mode) == mode = "w" \/ (mode = "a" /\ dir[f] = NoFile)
Opened(f, mode) == IF Creates(f, mode) THEN 0 ELSE dir[f]

Found(f, mode) == Opened(f, mode) # NoFile

(* No slot, no memory, no such file, or the disk fails: what f_open has    *)
(* done by then stays done, but its object is gone again.                  *)
openFails(t, f, mode) ==
    /\ Body(t)
    /\ MayOpen(f, mode)
    /\ fileDescriptorCounter < MaxFd
    /\ fileDescriptorCounter' = fileDescriptorCounter + 1
    /\ IF emptySlot = -1
       THEN UNCHANGED <<files, fatfs, dir, disk, acked>>
       ELSE /\ files' = [files EXCEPT ![emptySlot].fd = fileDescriptorCounter]
            /\ auto_mount \/ UNCHANGED fatfs
            /\ dir' \in {dir, [dir EXCEPT ![f] = Opened(f, mode)]}
            /\ disk' \in {disk, dir'}
            /\ acked' = IF mode = "w" THEN [acked EXCEPT ![f] = NoFile] ELSE acked
    /\ UNCHANGED fil

openFile(t, f, mode) ==
    /\ Body(t)
    /\ MayOpen(f, mode)
    /\ fileDescriptorCounter < MaxFd
    /\ fileDescriptorCounter' = fileDescriptorCounter + 1
    /\ emptySlot # -1
    /\ auto_mount
    /\ Found(f, mode)
    /\ files' = [files EXCEPT ![emptySlot] =
                    [fd |-> fileDescriptorCounter, fptr |-> fileDescriptorCounter]]
    /\ fil' = [o \in DOMAIN fil \union {fileDescriptorCounter} |->
                IF o # fileDescriptorCounter THEN fil[o]
                ELSE [name |-> f, id |-> fsid', FA_READ |-> mode \in {"r", "r+"},
                      FA_WRITE |-> mode # "r",
                      FA__WRITTEN |-> FALSE, FA__ERROR |-> FALSE,
                      fsize |-> Opened(f, mode),
                      fptr |-> IF mode = "a" THEN Opened(f, mode) ELSE 0]]
    /\ dir' = [dir EXCEPT ![f] = Opened(f, mode)]
    /\ IF Creates(f, mode)
       THEN disk' = dir' /\ acked' = [acked EXCEPT ![f] = 0]
       ELSE UNCHANGED <<disk, acked>>

(* The descriptor is not open, or the file may not be used like that.      *)
refused(t) ==
    /\ Body(t)
    /\ UNCHANGED <<fileDescriptorCounter, files, fil, fatfs, dir, disk, acked>>

Given == 3 .. fileDescriptorCounter - 1
Object(fd) == files[findSlot(fd)].fptr

Usable(fd) ==
    /\ findSlot(fd) # -1
    /\ validate(Object(fd))
    /\ ~fil[Object(fd)].FA__ERROR

(* The disk fails in the course of f_read, f_write or f_lseek: the object  *)
(* is of no further use.                                                   *)
diskError(t, fd) ==
    /\ Body(t)
    /\ Usable(fd)
    /\ fil' = [fil EXCEPT ![Object(fd)].FA__ERROR = TRUE]
    /\ UNCHANGED <<fileDescriptorCounter, files, fatfs, dir, disk, acked>>

readFile(t, fd) ==
    /\ Body(t)
    /\ Usable(fd)
    /\ LET F == fil[Object(fd)] IN
       /\ F.FA_READ
       /\ F.fptr < F.fsize
       /\ fil' = [fil EXCEPT ![Object(fd)].fptr = @ + 1]
    /\ UNCHANGED <<fileDescriptorCounter, files, fatfs, dir, disk, acked>>

(* Every whence gives an offset; f_lseek does not go beyond the end of a   *)
(* file that is only read, nor of one that cannot grow.                    *)
lseekFile(t, fd, offset) ==
    /\ Body(t)
    /\ Usable(fd)
    /\ LET F == fil[Object(fd)]
           within == IF offset <= F.fsize THEN {offset}
                     ELSE IF F.FA_WRITE THEN F.fsize .. offset ELSE {F.fsize}
       IN \E there \in within :
            fil' = [fil EXCEPT
                ![Object(fd)].fptr = there,
                ![Object(fd)].fsize = IF there > F.fsize THEN there ELSE F.fsize,
                ![Object(fd)].FA__WRITTEN = F.FA__WRITTEN \/ there > F.fsize]
    /\ UNCHANGED <<fileDescriptorCounter, files, fatfs, dir, disk, acked>>

(* writeFile: f_write, which writes nothing on a full disk, ...            *)
writeFile(t, fd) ==
    /\ at[t] = "passed"
    /\ fsMutex = NoThread
    /\ Usable(fd)
    /\ LET F == fil[Object(fd)] IN
       /\ F.FA_WRITE
       /\ \E n \in {0, 1} :
            /\ F.fptr + n <= MaxSize
            /\ fil' = [fil EXCEPT
                    ![Object(fd)].fptr = F.fptr + n,
                    ![Object(fd)].fsize = IF F.fptr + n > F.fsize THEN F.fptr + n ELSE F.fsize,
                    ![Object(fd)].FA__WRITTEN = TRUE]
       /\ writing' = Object(fd)
    /\ fsMutex' = t
    /\ at' = [at EXCEPT ![t] = "sync"]
    /\ UNCHANGED <<mounted, fileDescriptorCounter, files, fatfs, dir, disk, acked>>

(* ... and f_sync, with the mutex still locked.                            *)
writeSync(t) ==
    /\ at[t] = "sync"
    /\ \/ /\ SyncOk(writing)
          /\ fil' = [fil EXCEPT ![writing].FA__WRITTEN = FALSE]
          /\ acked' = [acked EXCEPT ![fil[writing].name] = fil[writing].fsize]
       \/ /\ SyncFails(writing)
          /\ \E left \in BOOLEAN :
                /\ ~left => dir' = Entry(writing)
                /\ fil' = [fil EXCEPT ![writing].FA__WRITTEN = left]
          /\ UNCHANGED acked
    /\ writing' = 0
    /\ fsMutex' = NoThread
    /\ at' = [at EXCEPT ![t] = "code"]
    /\ UNCHANGED <<mounted, fileDescriptorCounter, files, fatfs>>

(* closeFile frees the slot whether or not f_close succeeds.               *)
closeFile(t, fd) ==
    /\ Body(t)
    /\ findSlot(fd) # -1
    /\ SyncOk(Object(fd)) \/ SyncFails(Object(fd))
    /\ fil' = Without({Object(fd)})
    /\ freeSlot(findSlot(fd))
    /\ UNCHANGED <<fileDescriptorCounter, fatfs, acked>>

(* unlink, of a file that is not open.                                     *)
unlink(t, f) ==
    /\ Body(t)
    /\ auto_mount
    /\ \A o \in DOMAIN fil : validate(o) => fil[o].name # f
    /\ dir' = [dir EXCEPT ![f] = NoFile]
    /\ disk' \in {disk, dir'}
    /\ acked' = [acked EXCEPT ![f] = NoFile]
    /\ UNCHANGED <<fileDescriptorCounter, files, fil>>

-----------------------------------------------------------------------------
(* The power fails, or the disk is pulled and the board reset: what is on  *)
(* the disk is all that is left.                                           *)
PowerFailure ==
    /\ mounted' = FALSE
    /\ fileDescriptorCounter' = 3
    /\ files' = [s \in Slot |-> [fd |-> 0, fptr |-> 0]]
    /\ fil' = << >>
    /\ fs_type' = FALSE
    /\ fsid' = 0
    /\ dir' = disk
    /\ fsMutex' = NoThread
    /\ at' = [t \in Thread |-> "code"]
    /\ writing' = 0
    /\ UNCHANGED <<disk, acked>>

Next ==
    \/ \E t \in Thread :
        \/ mountTest(t) \/ mountWork(t) \/ mountDone(t) \/ umount(t)
        \/ isMounted(t) \/ refused(t) \/ writeSync(t)
        \/ \E f \in File :
            \/ unlink(t, f)
            \/ \E mode \in Mode : openFails(t, f, mode) \/ openFile(t, f, mode)
        \/ \E fd \in Given :
            \/ readFile(t, fd) \/ writeFile(t, fd) \/ diskError(t, fd) \/ closeFile(t, fd)
            \/ \E offset \in 0 .. MaxSize : lseekFile(t, fd, offset)
    \/ PowerFailure

Spec == Init /\ [][Next]_vars

-----------------------------------------------------------------------------
(* What FatFs keeps of a file that is open.                                *)
FIL == [name : File, id : 0 .. MaxMounts, FA_READ : BOOLEAN, FA_WRITE : BOOLEAN,
        FA__WRITTEN : BOOLEAN, FA__ERROR : BOOLEAN,
        fsize : 0 .. MaxSize, fptr : 0 .. MaxSize]

TypeOK ==
    /\ mounted \in BOOLEAN
    /\ fileDescriptorCounter \in 3 .. MaxFd
    /\ files \in [Slot -> [fd : 0 .. MaxFd, fptr : 0 .. MaxFd]]
    /\ DOMAIN fil \subseteq 3 .. MaxFd
    /\ \A o \in DOMAIN fil : fil[o] \in FIL
    /\ fs_type \in BOOLEAN
    /\ fsid \in 0 .. MaxMounts
    /\ dir \in [File -> Sizes] /\ disk \in [File -> Sizes]
    /\ fsMutex \in Thread \union {NoThread}
    /\ at \in [Thread -> {"code", "passed", "mount", "mounted", "sync"}]
    /\ writing \in {0} \union DOMAIN fil
    /\ acked \in [File -> Sizes]

(* The table and the heap agree: a slot in use has the object that was     *)
(* made for its descriptor, no two slots have the same one, and no object  *)
(* is left that no slot has.  freeSlot moves entries about to keep it so.  *)
TableExact ==
    /\ \A s \in Slot : ~isEmpty(s) => files[s].fptr = files[s].fd
    /\ \A s, o \in Slot : ~isEmpty(s) /\ files[s].fptr = files[o].fptr => s = o
    /\ DOMAIN fil = {files[s].fptr : s \in {o \in Slot : ~isEmpty(o)}}

(* miosix_settings.h:74 "After each write operation the filesystem is      *)
(* synced so that a power failure happens data is not lost": what          *)
(* writeFile has said is written is on the disk, over failures of power    *)
(* and disk, unmounting and mounting.                                      *)
WrittenIsSafe == \A f \in File : disk[f] >= acked[f]

(* The descriptors are those of DescriptorTable: the table with its        *)
(* hashing, probing and compaction does what a function would.             *)
Table == INSTANCE DescriptorTable WITH
    table <- [fd \in {fd \in Given : findSlot(fd) # -1} |-> Object(fd)],
    given <- fileDescriptorCounter

Descriptors == Table!Spec

=============================================================================
