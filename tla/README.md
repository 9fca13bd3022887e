# A specification of BITS Fonera

BITS Fonera shows on a wall display whether a place is open, and lets people
change that with a button. A *board* (STM32F4, Miosix kernel) has the display,
the button and a thermometer; a serial line connects it to a *Fonera* router on
which the daemon *bitsd* runs; bitsd is a client of a *server* on the network.
The repository holds the kernel (`src/bits_miosix/miosix`), the firmware
(`src/bits_miosix/main.cpp`, `misc_drivers.cpp`), the daemon (`src/bitsd`), a
flash tool and scripts.

This directory holds TLA+ models of the parts where the order of events
decides whether the program is right, TLC configurations that check them on
small instances, and TLAPS proofs of the most important results for every
instance. `PROJECT.json` lists the components, runs, mutants, the lines each
definition models, the findings, the hazards and the theorems.

    tlc -workers 2 -config MCPriorityMutex.cfg MCPriorityMutex
    tlapm PriorityMutexProofs.tla

## 1. Inventory

How the parts interact: bitsd and the server exchange lines over TCP; bitsd and
the firmware exchange lines over the serial port; the firmware's threads share
a `Queue`, the console and the C library's streams; those are built on the
kernel's `Mutex`, `Queue` and threads; and all kernel objects synchronise by
disabling interrupts (`FastInterruptDisableLock`) or by pausing the scheduler
(`PauseKernelLock`), which makes the body of most operations atomic. What is
hard is what happens *between* two such bodies: in the waiting loops of `lock`,
`get`, `put` and `join`, in the two critical sections of `join`, between two
calls of `Console::write`, and between two machines.

| Component (source) | State | Operations | What is hard | What makes it correct |
|---|---|---|---|---|
| **Mutex** (`kernel/sync.cpp`, `sync.h`; `Thread::setPriority` in `kernel.cpp`) | owner, recursion depth, heap of waiters; per thread priority, saved priority, list of held mutexes, mutex waited for | lock, tryLock, unlock, setPriority | waiting loop with the kernel restarted, stray wakeups, direct handoff, priority inheritance along a chain of owners, a heap whose keys change | mutual exclusion; no lost handoff; owner lists and waiters agree; the heap stays ordered; a handoff goes to the highest priority; inheritance ends |
| **Queue** (`kernel/sync.h`) | ring, two positions, a count, the one registered sleeper | get, put, waitUntil..., IRQget, IRQput (with and without hppw), reset | thread against interrupt, wrap around at the limits, lost wakeups, reset under a sleeper | a bounded FIFO; a sleeper is registered; nobody stays blocked on something possible |
| **Threads, priority scheduler** (`kernel.cpp`, `kernel.h`, `scheduler/priority`) | circular list per priority, running thread, flags, the join union, `exist_deleted` | create, setPriority, wait, wakeup, return, detach, join, the switch, the idle thread's freeing | join sleeps in the middle; memory is freed and used again under the same address; two joins; a detach during a join | lists agree with priorities; nothing in use is freed; nothing dead is kept for ever; a join takes a result once, from a thread that has ended; turns rotate |
| **Board firmware** (`main.cpp`, `misc_drivers.cpp`, `console.cpp`, `_read`, `_write`) | keys queue, receive queue, the line read so far, the display | button polling, reports of keys and temperature, reading, echoing and obeying commands | reports and echoes mix on one line; queues of fixed size that drop | see the system |
| **bitsd** (`bitsd/src`) | connection, retry index, read buffers | connect, retry, socketRead, serialRead, the translations of `bitsd.cpp` | a connection that dies silently, what is lost when it does, two sources of the same status | a dead connection is noticed |
| **The system** (all of these) | the two wires and the network | | changes at both ends cross; messages lost | display and server agree when all is quiet; keys are taken in order; reports are understood |
| **Kernel time** (`kernel.cpp`: sleep, tick, pauseKernel; `Timer` in `sync.cpp`) | sleeping list, 64 bit tick, `tick_skew`, nesting counts | sleep, sleepUntil, the tick, pauseKernel, restartKernel, getTick, Timer | ticks that come while the kernel is paused; equality test on the wakeup time; torn reads | nobody sleeps past its time; nesting is balanced; getTick never goes back |
| **Condition variables, FastMutex, pthread** (`sync.cpp`, `pthread.cpp`, `pthread_private.h`) | owner, recursion depth and list of a mutex; list of a condition variable; per thread its waiting flags | lock, tryLock, unlock, wait, signal, broadcast, `pthread_once` | the list elements are on the stacks of threads that stray wakeups may let run; unlock, sleep and lock again in `wait`; a recursive mutex in `wait` | nobody sleeps where no unlock or signal looks; the mutex excludes also through `wait`; who asks gets it |
| **Static guards, malloc lock** (`syscalls.cpp`) | one guard per static object: 0, 1 or the thread that constructs | `__cxa_guard_acquire`, release, abort | two threads at first use, of different priorities; a constructor that throws or asks for its own object; `__malloc_lock` pauses the kernel (`syscalls.cpp:420-432`), which is `pauseKernel` of `KernelTime` | constructed once, used only when finished, and nobody held up for ever |
| **BufferQueue, player** (`kernel/buffer_queue.h`, `examples/sad_trombone/player.cpp`) | ring of buffers, positions, a count; `enobuf`, the sleeping thread | get a buffer to write or to read, give it back; the loop of the thread, the DMA, the end of a transfer | waiting is left to the user: a thread and an interrupt each test what the other is about to change; the DMA stops by itself | the sound is played in order and without a gap; the DMA is started again; `play` returns |
| **EDF scheduler** (`scheduler/edf`, `kernel.cpp`) | one list in order of deadlines, `tick_skew` | create, setPriority, wait, sleep, return, join, pause; what wakes another thread: wakeup, detach, the operations of mutexes, condition variables and queues, drivers, the tick | no tick switches unless it wakes a sleeper, so each operation must call the scheduler itself, and several do not | the list stays in order; the closest deadline runs, where an operation sees to it |
| **Control scheduler** (`scheduler/control`, `kernel.cpp`) | one list, the place in the round, the share of every thread and the length of the round | the same, the auxiliary timer, freeing | a pointer into a list from which threads are freed; sums kept by hooks in many places | the place is in the list; the regulators are told what is true; everybody gets a turn |
| **File system** (`kernel/filesystem`: `filesystem.cpp` over `ff.c`) | table of open files, descriptors, mounts, `fsMutex`; directory in memory and on the disk | mount, umount, open, read, write, lseek, close, unlink | a test outside of the lock; a hashed table that closes its gaps; a disk that fails and power that fails at any step | what a write has promised is on the disk; a descriptor leads to its file and no other; nothing leaks |
| **Ports, boot, drivers** (`miosix/arch`) | registers | context switch, clocks, GPIO, UARTs, DMA | assembler and hardware | what the kernel assumes of them |
| **mxgui** (`bits_miosix/mxgui`) | one display under one mutex | drawing | sequential | |
| **stm32flash** (`stm32flash/src`) | position in the file and in the flash, retries, the chip | erase, read a block, write, verify, write again, close | arithmetic of pages and lengths in bytes, a cell or a line that fails, retries that repeat a write | success means that the file is in the flash; an error has a reason; the run ends |
| **Scripts** (`bitsd-scripts`, `misc-scripts`) | | network setup, presence detection | external programs | |

The hazards, each at its line, are in `PROJECT.json`; each has the properties
that would catch it going wrong, or says why none covers it. Where the code itself
goes wrong, a property that holds can only say what is right beside that case; its
premise then names the case, and the hazard's note says that it is not covered there.

## 2. Plan

Modules, most important behaviour first:

1. `PriorityMutex` over `AbstractMutex` - done, proved.
2. `RingQueue` over `BoundedFifo` - done, proved.
3. `KernelThreads` - done, proved.
4. `BitsSystem` = `Board` + `Daemon` over `SerialLine` - done, safety proved.
5. `KernelTime`: sleeping list, ticks while paused, nesting, `getTick` - done,
   proved.
6. `Monitor`: `FastMutex` with condition variables, over `AbstractMutex` - done,
   proved; `StaticGuard`: static objects and `pthread_once` - done, safety proved.
7. `Flasher`: stm32flash from erase to close - done, safety proved.
8. `Filesystem` over `DescriptorTable` - done, proved.
9. `EdfScheduler` and `ControlScheduler`, beside `KernelThreads` - done,
   safety proved.
10. `Player` over `BufferQueue` - done, safety proved.

Left for later, in this order:

* An abstract specification of a scheduler, a choice among the ready threads of
  a list, that all three implement: their list, choice and freeing are proved apart.
* The serial driver with DMA of the other boards, on `RingQueue`.

A run is added only for a question that none of the present ones asks.

## 3. The modules and the code

**Atomicity.** A body that runs with interrupts off or the scheduler paused is
one action. Where the code restarts the scheduler to wait (`RestartKernelLock`,
`FastInterruptEnableLock` and then `Thread::yield`), the action ends, and the
next turn of the waiting loop is an action that needs the thread to be awake.
`wakeup` may be called on any thread by any other, so every model has an action
for a stray wakeup: this is what the `while` loops of the code are there for.

**Data.** A `std::vector` kept as a heap is a set with the key each member was
last ordered by; a linked list whose order does not matter is a set; text on
the serial line is a sequence of pieces that one call of `Console::write` sends.
Identifiers keep the names of the source.

**Faulty variants.** Each component holds, apart, a few small variants of its
definitions (`...Never`, `...Always`, `...Kept`) that make a plausible mistake.
The model does not use them. `PROJECT.json` pairs each with the property that
it must break, so that no property holds whatever the code does.

### Mutex: `PriorityMutex`, `AbstractMutex`, `PriorityMutexProofs`

One action per outcome of `PKlock` (`TakeFree`, `TakeAgain`, `LockOwned`,
`LockContended`), `PKtryLock`, `PKunlock` (`UnlockNotOwner`, `UnlockAgain`,
`UnlockLast`), and `setPriority`; `WaitLoop` is one turn of the loop of
`PKlock`. The inheritance walk (`Walk`) is the smallest set closed under "the
owner of the mutex it waits for", and a walk that would not end gives the status
"hung", because it runs with the scheduler paused. Locking a plain mutex twice
and unlocking one that is not owned call `errorHandler`, which reboots (the
second case falls through to the default one in `error.cpp`).

Clients come in three kinds (`nesting`): those that hold one mutex at a time,
those that nest in a fixed order and unlock what they hold, and those that do
anything. Most properties hold for all; `NeverStuck` is about the second kind and
`InheritsHighest` about the first, and the run `mutex_nested` shows why.

### Queue: `RingQueue`, `BoundedFifo`, `QueuesProofs`

`Turn` is the body of a blocking operation from its start, or from the return of
`yield`, to the next `yield` or the end; `IRQput`, `IRQget` and `reset` are
actions. One getter and one putter, as the class requires, each of which may be
a thread or an interrupt. `Content` reads the ring as a sequence: with it
`RingQueue` implements `BoundedFifo`. `hppw` is modelled for what it says about
the caller's flag; without a waiting thread `CompareWaiting` is any outcome,
because the code then reads through a null pointer.

### Threads: `KernelThreads`, `ThreadLists`, `SchedulersProofs`

A thread is a slot of memory, which `malloc` may use again after it is freed:
`births` tells the uses apart and bounds them. Circular lists are sequences
starting at the head; `Switch` is `IRQfindNextThread` at a tick or a yield;
`Link`, `Unlink`, `Rotate` and `Reaped` are the list operations (`Keeping` of
`ThreadLists` is what taking elements out of a list leaves, for all three
schedulers), `FirstReady` is where the search of the scheduler stops. `join` is three
actions: its beginning, the return of its yield (`joinResumes`), and the second
critical section that frees (`joinReaps`). `create` is tried with priorities out of range as
well; `setPriority` is not, because it reports such a priority and then uses it.
Clients either join only threads they created, once ("owned"), or share the
join and the detach of a thread ("shared"). `terminate` only sets a flag that
nothing in the kernel reads, and is left out. The theorems are in
`SchedulersProofs`, with those of the two schedulers below.

### The system: `SerialLine`, `Board`, `Daemon`, `BitsSystem`, `BitsSystemProofs`

`Board` has an action per step of `keybThread`, `keyboardThread` (`getKey`,
`printKey`, `write`), `tempThread`, the receive interrupt, and `main` (`fgets`
echoes, `obey` draws). A `printf` is three calls of `Console::write`, a newline,
the text and a newline (`_write` cuts at newlines), and another thread may
write between them. That one `printf` is not mixed with another one is a
property of the C library, whose streams have locks; it is outside of the
repository and assumed.

`Daemon` has an action per handler and one per way round the loop of `main`. A
handler runs to its end before another (one thread calls `io.run`). An error
destroys the object with its buffers. A connection that broke is either reset,
which the pending read reports, or silent, which only a write notices. The
server is not in the repository: it has a status, tells changes, may greet whoever
connects with it (`greets`), and takes what it is sent.

`BitsSystem` puts both on the wires, and keeps a history of what can have
disturbed the last change (`trouble`): two changes that crossed, a broken
connection, characters dropped by the receive queue. Leaving out any of the
three makes `Agreement` false, which says what the program does not guarantee:
crossed changes leave display and server opposite until the next change.

### Time: `KernelTime`, `KernelTimeProofs`

`Tick` is `IRQtickInterrupt` with `IRQwakeThreads`, and comes whenever the
processor's flag allows. What runs with interrupts off (`pauseKernel`, the
body of `sleep`) is one action; `restartKernel` goes on with interrupts enabled
after it has counted down, so its test of `tick_skew`, the assignment and the yield
are actions of their own (`restarted`, `owes`, `yields`), and so is each load
of a word by `getTick`, in either order. `yields` is also the yield of `sleep`: a
tick that comes before it switches away a thread that is already in the list.
Which ready thread the scheduler takes is left open (`KernelThreads` says it).

The clients keep two rules that the code relies on: with the kernel started,
`pauseKernel` and `restartKernel` are not called with interrupts disabled,
because they enable them without a look at the nesting, and nobody sleeps or
yields with the kernel paused. `promised`, `called` and `missed` are histories.
`usleep` is modelled in whole milliseconds; its busy wait takes less than one.

### Monitors: `Monitor`, `MonitorProofs`

`FastMutex` is `pthread_mutex_t`, and `ConditionVariable` with a `FastMutex` is
`pthread_cond_t`; one module stands for both. `IRQdoMutexLock` and
`IRQdoMutexUnlock` are operators that `Lock`, `TryLock`, `Unlock`, `CondWait` and
`CondReturns` use as the code does. `LockLoop` is one turn of
`while(mutex->owner!=p)`, after a handoff or a stray wakeup. A wakeup clears
`WAIT` and not `WAIT_COND`, so it ends no `wait`. Clients hold one mutex at a time,
unlock what they own, and use the condition variable with one mutex at a time, as
its documentation asks; they may wait with a mutex that they have locked
several times, which the code then unlocks once.

`held` is a history of what the clients see: a lock counts when `lock`, `tryLock` or
`wait` returns to its caller, until the caller's `unlock` or `wait`. No body reads it
or derives it from `owner`, so a thread that left a waiting loop without owning the
mutex would be a second one inside. A lock that is granted and the end of a waiting loop
are `Enter` of `AbstractMutex`, and so is the return of `wait` when it finds the
mutex free; `wait` itself is `Leave`.

### Things done once: `StaticGuard`, `MonitorProofs`

`acquire` is one turn of the loop of `__cxa_guard_acquire`: it takes the guard,
finds the object built, finds that it is itself the constructing thread (which
exits), or yields. Because it yields to whatever the scheduler takes, the
search of the priority scheduler is part of the model (`FindNext`); threads block for
reasons of their own and are woken. `pthread_once` runs its function in the
first caller; later callers return at once.

### Flashing: `Flasher`, `FlasherProofs`

The module starts where the boot ROM has answered, and has an action per step of
`main` (`check`, `erase`, `load`, `write`, `verify...`, `advance`, `close`) and one per
way that it fails. The chip is modelled with it: a cell takes a value when it
is erased, may fail to, and is spoilt when written over something else; the ROM
refuses a command whose checksum is not where the length says. A byte of the
file is its offset, so that a byte in a wrong place is seen. Lengths and page
numbers are bytes in the code: `Told` and `FirstPage` cut them as it does, with
`BufferSize` and `PageByte` values instead of 256.

### File system: `Filesystem`, `DescriptorTable`, `FilesystemProofs`

Every operation of the layer tests `isMounted`, then locks `fsMutex` and works:
two actions (`isMounted`, and the operation, by way of `Body`), between which
others run. `mount` is three, because it notes that it is done after it has
unlocked (`filesystem.cpp:68-70`). `writeFile` is two with the mutex held
between them, the write and the sync, because the power may fail there
(`PowerFailure`, external); everything that was in memory is gone then. Of FatFs
the module has what decides whether an object is still good (`validate`, the
number of the mount), the sizes in the directory as FatFs sees them (`dir`) and
as they are on the disk (`disk`), and what a failing disk may leave of a sync
(`SyncFails`). Contents are sizes, in units that a call reads or writes.

The clients keep two rules: a file is open for writing once at a time and not
for reading beside it (`filesystem.h:103-105`), and what is removed is not open.
The board has the layer configured off (`miosix_settings.h:72`); it is modelled
as it is when configured on. A card that is changed while mounted is not
modelled. `DescriptorTable` is what the C library expects of descriptors: the
table with its hashing, probing and gaps closed (`findSlot`, `emptySlot`,
`freeSlot`) implements a function from the descriptors that are open.

### Deadlines: `EdfScheduler`, `SchedulersProofs`

`Add` puts a thread in its place in the list, `FindNext` is
`IRQfindNextThread`. Every operation of the kernel that makes a thread ready or
changes a deadline is an action, and the yield that follows it, if one does, another
one, because it runs with interrupts enabled. In this scheduler `Tick` switches only
when it wakes a sleeper, so the module is about whether each operation calls the
scheduler when it must. `create`, `wakeup` and, if the woken thread has the closer deadline,
`signal` (both kinds of condition variables) and `unlock` (`Mutex`) yield; `fastUnlock`
(`FastMutex`, pthread), `queueOperation`, `detach`, `PKwakeup` and `setPriority` do
not. `overlooked` is a history: the threads with a closer deadline that such an
operation has made ready, or that one with the kernel paused has, until the
scheduler next looks; whatever yields lets it look. Mutexes, queues and joins are
here as the scheduler sees them: any sleeping thread may be the one that is waked
(`WAIT` stands for the three flags of such a sleep), an owner may be given any waiting
thread's deadline (`inherit`), and an unlock may leave it any deadline, its own or
inherited, but one that is later only as far as the front of the heap explains it.
Deadlines out of range are tried in `create`, which refuses them.

### Rounds: `ControlScheduler`, `SchedulersProofs`

`Place` is where `curInRound` points, and the next thread is the first ready one
behind it, or else of a new round. `PKremoveDeadThreads` is as it is in the
code, which passes over the neighbour of a thread it frees (`RunBefore`).
`IRQrecalculateAlfa` is called where the code calls it, at every change of a
flag, a priority or the list. What the regulators do with the shares, the
lengths of bursts, is left out; `AuxTimer` may therefore end a burst at any time.

### Sounds: `BufferQueue`, `Player`, `QueuesProofs`

`BufferQueue` has the calls of the class as operators, with its count in a byte;
`Player` calls them, as the thread of `play`, the start of the DMA
(`dmaRefill`) and the interrupt at the end of a transfer (`dmaHandler`), which
starts the next. The code has a build for an I2S converter and one for the DAC,
which differ in the silence they play (`Builds`). A part of the sound is its
number, silence 0; buffers begin with anything in them. The thread fills the last
part and does not give it to the queue, as in the code (see 5); `PlaysSound` claims
nothing of it, and a player that gives it to the queue would have the property too.

### Modules that put alternatives side by side

`Schedulers`, `Queues` and `MCMutexes` hold models that are alternatives in
the code: a kernel is built with one of the three schedulers, a driver uses one
of the two queues, a client one of the two classes of mutexes. The alternative is
chosen in the initial state, and the state of the others stays as it is there; so
each behaviour is one of the model it chose, and fairness is that of this model.

## 4. The runs

| Run | Instance | What it shows |
|---|---|---|
| `mutex` | 3 threads, 2 mutexes (1 recursive), priorities 0..2, depth 1, every kind of client | `WaitersAccounted`, `PriorityRestored`, `HandoffToHighest` for all clients; `InheritsHighest` and `NeverStuck` for disciplined ones; `MutualExclusion`: it implements `AbstractMutex` |
| `mutex_nested` | the same without recursion, ordered nesting | *Violation*: the walk lowers an owner below its own priority (`sync.h:146-148` says it inherits only what is higher) |
| `mutexes` | 3 threads, a plain and a recursive mutex, depth 1; `FastMutex` with one condition variable, or `Mutex` with ordered nesting | `FastMutex`: `SleepersListed`, nobody sleeps where nobody looks; `MutualExclusion`, it implements `AbstractMutex`; `LockReturns`, first in, first out gives everybody the mutex. `Mutex`: `ContendedMutexMoves`, it goes to its waiters, and a handoff is completed |
| `queues` | ring of 3, 3 elements; 2 buffers, a sound of 4 parts, both builds of the player | `Queue`: FIFO (`KeepsOrder`), `SleeperRegistered`, `NeverStarved`. `BufferQueue` with the player: `PlaysSound`, `EnobufTells`, `PlayReturns` |
| `schedulers` | main and 2 slots; slots used twice, 2 priorities, both kinds of clients; 3 deadlines under EDF | Priorities: `ListsAgree`, `NothingFreedInUse`, `NoLeak`, `JoinTakesResult` for all clients, `OwnerWillBeWoken` for owned threads. EDF: `EarliestRuns`. Control: `PlaceInRound` |
| `schedulers_live` | slots used once, owned; main and one slot, 2 priorities, under control | `PriorityRoundRobin`: the turn comes round; `EveryRound`: with new threads in front of the list as well; `RegulatorsAgree` |
| `system` | keys queue 1, receive queue 2, 2 presses, 1 change at the server, 1 break | `Agreement`, `KeysInOrder`, `ReportsUnderstood` |
| `system_live` | temperatures, 1 press, 1 break | `DeadLinkNoticed` |
| `time` | 2 threads and the code before the start, 5 ticks, words of 2 values, both nestings to 2, sleeps of 0, 1 and 2 ticks | `NoTickLost`, `NobodyOversleeps`, `SleepsAtLeast`, `GetTickExact` |
| `guard` | 3 threads, one of higher priority, 1 constructor that throws | *Violation*: a thread that waits for a static object may wait for ever (`syscalls.cpp:226-227`) |
| `flash` | 5 pages of 8 bytes, blocks of 8, page numbers of 4 values, 2 retries, 10 sizes around the limits, 4 first pages, 3 kinds of chip | `DoneMeansProgrammed`, `FailsForAReason`, `Ends` |
| `files` | 2 threads, 1 file of size 0 or 1, a table of 2 slots, 3 descriptors and 2 mounts between two power failures | `WrittenIsSafe`; `TableExact`; `Descriptors`: the table implements `DescriptorTable` |

The type invariants of `PriorityMutex`, `RingQueue`, `KernelTime`,
`KernelThreads`, `Monitor`, `StaticGuard`, `Flasher`, `Filesystem` and `BitsSystem`, and
`HeapFresh`, `InterruptsBalanced` and `WakesOnTime`, are proved (6) and therefore not
in a run.

**Why these bounds.** Three threads are the fewest with an owner, a front of the
heap and another waiter, and with two mutexes the fewest for a chain of
inheritance; three priorities put one strictly between. The kernel walks no
longer structure that behaves differently from these. A ring of three has an
inner place, and three elements tell order from loss. Main and two threads are
enough for two joiners of one thread, a memory that is reused while somebody
holds its address, and two threads of equal priority in one list; a second use
of a slot is the first one that can be mistaken. In the system the queues are
made as small as their tests allow (the code has 3 and 32) so that they
overflow; two presses give both keys and an order; one change and one break
meet every state of the rest. The receive queue counts pieces, of one command
two. Five ticks let both halves of a tick of two-valued words change while one
`getTick` reads, and two sleepers meet, pass and follow each other in the list; the
second nesting is the first that must not enable or switch. A monitor needs an
owner, a thread in the list and one in `wait`; two mutexes show that they do not
mix, and depth 1 is the first that `wait` leaves locked. The flash has a page
before, in and behind what is written and one more page than a page number can
name; a block is a page, and the sizes are those at, before and behind a block, a
multiple of four and the end of the flash; with two retries the bound is
reached by a cell that fails and by one that recovers. Two slots of the table
are enough for a descriptor that is not where it hashes to, and for one that is
moved back when the other is closed; of three descriptors two have the same hash; a
second mount makes the objects of the first one bad. Under EDF two deadlines
before that of the idle thread and one behind it give every order of three threads.
Two buffers are what the player has; a sound of four parts goes round them
twice. `LineLimit` bounds the lines the daemon has not read; it delays the board,
which in reality waits in `serialWriteImpl` for the UART.

**Deadlock** is checked where the system cannot stop. `mutex` stops at a reboot, a
hung kernel or a deadlock of undisciplined clients; `time` at a reboot; `system`
without temperatures stops when the bounded environment has done its part;
`mutexes` stops at a reboot or when everybody waits for a signal; `guard` at an exit;
`flash` when the process has gone; `files` where its bounds on descriptors and mounts are
reached.
`NeverStuck` and the liveness properties speak of the rest.

**Fairness.** A thread that is ready runs in the end: the scheduler is
strictly by priority, so this assumes that the threads above it block, as its
users must arrange; within one priority `PriorityRoundRobin` shows it from the code of
the scheduler (`WF` of the switch: the tick goes on). Clients leave critical
sections (`SF`: they run again and again, interrupted by others); nothing is
assumed about who locks. In `schedulers_live`, `PriorityRoundRobin` has the premise that
threads stop being inserted right behind the head of the list: without it TLC
shows a ready thread passed over for ever. Under the control scheduler the auxiliary
timer runs freely, and whoever pauses the kernel restarts it. In `Player` a thread
that is ready runs in the end, and a transfer of the DMA ends. In `BitsSystem` the threads of the
board and the handlers of the daemon run in the end, and what the network holds
arrives; nobody has to press the button, and the connection need not break.
In `Monitor` a thread in a waiting loop runs in the end and clients leave critical
sections; nobody has to signal, and `LockReturns` has the premise that nobody
sleeps in `wait` with the mutex locked. In `StaticGuard` the tick goes on and
what a thread waits for comes; a thread that gets to run again and again gets
its work done, which includes that it waits for something now and then. That
is all one can ask of the threads above, and the violation needs only the thread
that yields. In `Flasher` the process is not stopped from outside.

## 5. What the models found

Shown by a run:

* With nested mutexes `PKlock` sets each owner on the chain to the priority of
  the new waiter even if its own is higher (`mutex_nested`).
* A thread that waits for a static object under construction yields in a loop.
  If the constructing thread has a lower priority it never runs again
  (`guard`).

Kernel, met while modelling; the models have the behaviour:

* `IRQput(elem,hppw)` and `IRQget(elem,hppw)` read a priority through a null
  `waiting` and may set `hppw` though nobody was woken, against
  `sync.h:697-699`. `testsuite.cpp:1338` notes that these overloads are not
  tested. The serial interrupt uses the first.
* Of two joins the one that waited may be the one that fails
  (`kernel.h:622-624` says that it is the later one).
* A thread in join may sleep for ever if others join or detach the same thread
  and its memory is used again; with owned threads it cannot
  (`OwnerWillBeWoken`). The documentation advises against sharing.
* `usleep(1000)` returns at once, neither sleeping nor waiting
  (`unistd.cpp:52,57`), and the board's tick is a millisecond. `SleepsAtLeast` is
  checked without that argument, and proved under the assumption that names it.
* `ConditionVariable::wait` unlocks once: with a recursive mutex locked twice its
  caller sleeps with the mutex locked, and whoever is to signal may never get
  it. `sync.h:394` says "Unlock the mutex and wait".
* `FastMutex::tryLock` of a recursive mutex by its owner counts up and succeeds;
  `sync.h:99` says that it fails.
* A second caller of `pthread_once` may return before the function has finished.
* `Thread::sleep` links a `SleepData` that goes out of scope before the yield
  (`kernel.cpp:366`); it works as long as the compiler leaves its place alone.
* The retry index of bitsd only grows: after the first long outage every later
  one begins with the longest delay.

* Under EDF, where no tick repairs it, several operations let a thread run on in front
  of one with a closer deadline; `tick_interrupt.h:64-65` says that preemption
  happens when a thread with a closer deadline appears. `overlooked` names the threads:
  * `setPriority` never yields: it asks whether the kernel is running
    (`kernel.cpp:438`) while it has paused it itself (`kernel.cpp:413`).
  * `FastMutex::unlock` and `pthread_mutex_unlock` never yield: the test for a closer
    deadline is under `#ifndef SCHED_TYPE_EDF` (`pthread_private.h:117`), while
    `pthread_private.h:94-95` says that it is made "only if EDF scheduler is selected".
  * `put`, `get` and `reset` of a `Queue` from a thread wake the thread that sleeps there
    (`sync.h:583-624`, `sync.h:722-755`), `detach` the one that joins
    (`kernel.cpp:490-498`), and `PKwakeup` any (`kernel.cpp:473-478`), without a yield.
  * A thread that is created, or woken, while the kernel is paused does not run when
    it is restarted (`kernel.cpp:142`, `kernel.cpp:336`, `edf_scheduler.cpp:109`).
* `PKremoveDeadThreads` of the control scheduler steps over the thread behind one
  it has freed (`control_scheduler.cpp:101-114`): of two dead neighbours the second
  stays until another thread dies, against `kernel.cpp:541-542`.
* `BufferQueue::IRQbufferEmptied` tests `--cnt<0` on an unsigned char
  (`buffer_queue.h:140`), which is never true: emptied once too often, the queue
  has 255 filled buffers, against `buffer_queue.h:167`. The player does not do so.
* The player fills the last buffer of a sound and does not play it
  (`player.cpp:335,423`), against `player.h:45` and `player.h:57`, which call it valid,
  `player.h:139`, by which the file is played to its end, and the wait to "Play last
  buffer" (`player.cpp:339`). `PlaysSound` claims nothing of that buffer.

File system, met while modelling; the model has the behaviour:

* Every operation tests `isMounted` before it locks (`filesystem.cpp:97,100`): an open
  that has passed the test when `umount` runs opens its file afterwards, on a
  disk that `filesystem.h:84-86` says may be removed.
* Two threads that mount at the same time both mount (`filesystem.cpp:59,70`), the second
  over the open files of the first; `filesystem.h:78` says that it is refused.
* `lseekFile` returns the offset that was asked for (`filesystem.cpp:233-235`) when `f_lseek` has gone only
  to the end of a file opened for reading, or as far as a full disk lets it;
  `filesystem.h:161-162` says that it returns the position.

stm32flash, met while modelling; the premises of the properties name them:

* A file that fits the flash but not what is left behind `-s` is cut, and "Done"
  is said (`Fitting`).
* The extended erase ignores `-s` and names one page more than asked (`PagesNamed`);
  on the ultra low power chips 0xFF pages become 0xF8.
* `-e 0` fails on a chip with the regular erase (`NoPages`); from page 255 on its loop
  never ends (`NumberWraps`), and a first page above 255 is cut to a byte
  (`FirstPage`).
* A last block of 255 bytes cannot be written (`Told`).
* `binary_read` asks for ever for the rest of a file that has become shorter.

## 6. Proofs

All proofs are checked by TLAPS, for every set of threads, mutexes, priorities
and elements and every size. Assumptions are those named in the modules: threads
are a finite set that is not empty, mutexes are numbers (the order of nesting), the null values
are not members of the sets they stand beside, sizes are natural numbers.

`PriorityMutexProofs`. The inductive invariant is `IInv` = `TypeOK`, 
`OwnerListAgree`, `WaitersAccounted` and `HeldAgree`, which ties the history of
critical sections to owner and recursion depth. None of the four is inductive
alone: that a thread handed a mutex is awake needs that it is queued where
`mutexWaiting` says; that a priority is taken from a non empty set needs the
lists. The steps are one lemma per conjunct and one step per action. From
`IInv`: `TypeCorrect`, `OwnerListsCorrect`, `NoLostHandoff`, and
`MutexImplementsAbstract`, where a lock or the end of the waiting loop maps to
`Enter`, a recursive lock to `Reenter`, an unlock to `Leave` and the rest to
stutters. On top of it, `HeapsStayOrdered` (every waiter whose priority the walk
changes is in a heap the walk rebuilds), `HandoffCorrect` (the front of a heap
that is in order has the highest priority) and `InheritanceTemporary` (the walk
only touches threads that own a mutex, so their saved priority is what they
asked for). `InheritsCorrect` adds for clients with one mutex at a time that whoever
waits holds none (`OneAtATime`), so that the walk stops at the first owner, and that
a priority is the highest of what its owner asked for and its waiters have
(`Lent`); a thread that gets a mutex inherits nothing, because it was the front of
an ordered heap. `OrderedNestingIsSafe` adds for clients that nest in order that a
thread only waits above what it holds (`WaitsAbove`): in a finite set of threads one
waits for the highest mutex (`ChainEnds`), and its owner cannot wait, so the walk ends
and somebody runs.

`QueuesProofs`. Of `Queue` the invariant is `TypeOK`, `CountAgrees` (the put position is
the get position advanced by the count) and `SleeperRegistered`: without the
count neither the tests of `isEmpty` and `isFull` nor the types of the count
after a put can be justified. `NoLostWakeup` is the invariant itself;
`QueueImplementsFifo` shows that `Insert` appends to `Content` and `Remove`
takes its head, by lemmas about sequences, and that a reset clears it.

Of the player the invariant is `PlayerInv`. `Heard(i)` is what the i-th buffer of a
play is to be, `Given` how many the thread has passed to the queue. What was played, and
after it the buffers in the queue from the reader's place on, are the first `Given` of
these (`SoFar`, `InQueue`, `GoesOn`); a buffer that is being filled is behind the
filled ones and is not the one the DMA reads (`Apart`, which is where the
two places wrap); and the thread goes on while the DMA is idle only when nothing is
queued (`Told`), so that at the end of a build without trailing silence an idle DMA
has played everything. Given this, `DmaTells` and `SoundIsPlayed` hold for
any number of buffers up to 255, length of the sound, and build whose trailing
silence is none or fills the queue (`PlayerAssumption`; both builds of the code do).

`KernelTimeProofs` has two invariants. `FlagsInv` adds to the flags that a paused
kernel never switches, so that a missed tick is always owed by the running
thread, and that this thread still has its look at `tick_skew` before it: from
it `InterruptsCorrect` and `MissedTicksRepaid`. `ReadInv` says that the words a thread
has loaded fit four ticks `l1`, `h1`, `l2`, `h2` between its call and now, those
of `b` not before those of `a`. When `a = b`, the low word gives `l1 <= v` because
`l1 <= h2`, and `v <= l2` because `h1 <= l2`: `GetTickCorrect`, for words of any size
and any number of interruptions.

Of sleep the same module shows that the list is ordered, without doubles, and
agrees with the SLEEP flags, all times being to come. That it has no doubles
needs that a sleeping thread does not run its own code, which comes from the
yield of `sleep` being the first thing such a thread does (`SleepersYield`), and that a
yield with the kernel paused, which would return at once, does not happen
(`FlagsInv`). From it `NobodyLeftAsleep`, `SleepersWokenOnTime` and `TypeCorrect`.
`SleepsLongEnough` adds that a thread with ticks still promised is in the list, at a
time not before them (`PromiseInv`); it assumes `NotExactlyOne`, because
`usleep(1000)` with the board's ticks of a millisecond keeps no promise.

`SchedulersProofs`. Of `KernelThreads` the invariant is `Base` (types, lists without doubles that
agree with the priorities, and a running thread that is in one) and `Threads`, eight
statements about those `Live` (in a list), `Dead`, `Detached` and `Asleep` in join.
None of the properties is inductive alone. That no memory in use is freed
needs that the thread in `joinData` is in a join of exactly this thread
(`JoinerKept`), and that a thread that has ended is in its own code (`DeadInCode`),
so that it was joined by nobody it should have woken. That nothing is forgotten
needs that a dead thread which is detached is marked or about to be freed
(`FreedSoon`). That a join takes a result needs that the union holds one only after
the end (`ResultOfDead`, `DeadHasResult`). That an owner wakes needs that nobody
takes the thread it joins from it (`OwnerKnown`, `OwnerWoken`, `SleeperInJoin`).
`KeepingList` says that taking elements out of a list keeps the rest, their order
and the last one if it stays. The list lemmas (`LinkList`, `UnlinkList`, `RotateList`,
`SurvivorsList`) say what
`Link`, `Unlink`, `Rotate` and `Reaped` do to the members of a list and that nobody is
doubled; the choice of the first ready thread needs that a set of numbers has a
least one (`LeastExists`), from the well-foundedness of strict inclusion. From it
`ListsCorrect`, `MemorySafe`, `NothingLeaks`, `OwnersWake` and `JoinsTakeResults`.

Of `EdfScheduler`: `EarliestRuns` is not inductive, because its second half says
nothing while the kernel is paused or a yield is to come. `Closest` says it there too: while
the running thread is in its code, also with the kernel paused, no listed ready thread has a
closer deadline, unless a tick came (`edfSkew`, after which `restartKernel` yields)
or it is in `overlooked`. An unlock that puts the deadline off yields, because the deadline
before was one that it inherited, at the latest from the thread it wakes. It also needs that whoever pauses the kernel goes on in its code,
so that no yield is made in vain (`PausedByCode`). `AddedList` says that `Add` keeps the order and
adds one thread, `OrderKept` that taking threads out keeps it, and `FirstIs` that the
first ready thread of an ordered list has the least deadline: `ClosestDeadlineRuns`.

Of `ControlScheduler` the invariant is `ControlInv`. That `PKremoveDeadThreads` ends, and leaves a list
that is not empty, needs that the main thread is the last of the list and never dead
(`MainIsLast`). That it does not free the running thread needs that a thread which is about
to free others has not ended (`ReapersLive`). `HeadOfList` and `LiveSurvive` say that
both walks free dead threads only and keep the last. `Recalculated` says that `IRQrecalculateAlfa`
leaves true shares whatever they were before; a join, which alone changes flags without it, changes
those of a thread that is dead already (`SharesStay`). From it `RoundKeepsItsPlace` and
`RegulatorsAreTold`.

`BitsSystemProofs`. The way of a press has six stages (`Stage`): decoded, on the
line, in a `printf` that goes on, in hand, in the queue, and still to come. `InOrder` says that
a press that is further on was made earlier, and that each stage that holds several is rising;
each action moves numbers from a stage to the next, or loses them. That the line from the daemon
carries no numbers (`CommandsUnnumbered`) and that what is left of a `printf` is the end of a report
(`OutputIsReport`) is needed for the echo and for the pieces that follow. `ReportsBeginLines`
says that a report no echo came into begins a line, on the wire or when it is
about to be sent; the daemon reads by lines, so `ReportsUnderstood` follows. From it
`PressesInOrder` and `ArrivedIsUnderstood`.

`BoardAndServerAgree` needs the way back. `Told` is what the display will show when all
that is under way has arrived: the last status on its way to the daemon, else the last
command in the stream of lines to the board (`Stream`: on the wire, in the receive queue
and in the line `fgets` is reading), else what it shows. `Settled` is what the
server will hold. While there is no trouble they say the same, statuses are under way in
one direction at most, and the stream is commands with their newlines (`OnTheWay`); when a
step breaks one of these, it is one of the three that `trouble` names (`Undisturbed`). When the
system is quiet both are what is there now. `TypeCorrect` needs both invariants.

`MonitorProofs`. `SleepersListed` becomes inductive with `Counts` (a recursion count
only where somebody owns a recursive mutex) and `OneMutex` (a thread in `lock` or
`wait` holds no other). Lemmas about lists without doubles say what `Append` and
`Tail` do to their members. `NobodyLost` is the invariant. `MutexImplementsAbstract` is
about the history `held`, and so needs `HeldInv`: whoever is inside by what `lock` and `wait`
have returned is the owner, as often as the recursion count says, but for an owner whose
`lock` or `wait` has still to return. This is where the tests of the waiting loops are needed:
a thread that leaves one (`LoopMoves`) is the owner and nobody else is inside. Each action
then changes one place of `held`, by at most one.

In the same module, of `StaticGuard`: `BuiltOnceBeforeUse` and `RunOnce` with the types are
inductive, and need nothing of the scheduler: `GuardSafe` and `OnceSafe`.

`FlasherProofs`. The invariant ties the place in the flash to the place in the file
(`Position`, with `addr` a multiple of what the ROM takes unless the file has
ended), says that what lies before it is written (`Written`), and that without
`-v` the cells behind it are still erased (`StillErased`); the last two for the
runs that `DoneMeansProgrammed` speaks of (`Watched`). Retries disturb none of it,
because they write the same block. Sizes of pages, blocks and flash are arbitrary.
`ErrorsHaveReasons` needs the converse, that nothing goes wrong without a reason: all blocks but
the last are whole (`WholeBlocks`), and as long as nothing failed and the pages were erased
the flash behind the blocks is erased and before it as the file is (`AsItShouldBe`), so that
no comparison fails. It needs that the ROM takes addresses that are multiples of at most 4
(`FlashAssumption`), as otherwise the code's padding to 4 bytes would not do.

`FilesystemProofs`. `SlotsGoRound` says that `Following` is one to one on the slots and
that each step round the table is one probe more; so the slots that `freeSlot` moves
are contiguous (`MovedFollow`), every one is moved into one that is moved itself or is
freed, and every entry but the freed one is in exactly one slot afterwards
(`FreeSlotExact`): `TableIsExact`. What the searches find comes from the least number of a
finite set, as above. `WritesAreSafe` needs, beside `WrittenIsSafe`, that the directory in
memory is not behind (`DirectoryGood`, because a later sync writes it back), that no good object
is shorter than its file is promised to be (`ObjectsGood`), and that a file which is written is
open once (`WriterAlone`, from the rule of the clients), as otherwise another object could be synced
with an older size; objects of earlier mounts are never good again because mounts are
numbered upwards. `SyncHolds` says what the mutex protects between the write and
the sync. It assumes of a failed sync what `SyncFails` says, no more.
`TableImplementsDescriptors`: because the object of a slot has the number of its
descriptor, what the searches find makes the table the identity on the objects
(`AbstractIs`), and each action changes their set as one of `DescriptorTable` does.

Every safety and step property of the runs that hold is proved. Only model-checked is all liveness,
`Ends`, `PlayReturns`, `DeadLinkNoticed`, `ContendedMutexMoves`, `LockReturns`,
`NeverStarved`, `PriorityRoundRobin` and `EveryRound`: fairness and ENABLED are outside
of what the prover does. The theorems about `Player`, `EdfScheduler` and `ControlScheduler` are about
the specifications of these modules; in a run they are one of the alternatives.

## 7. Not modelled

* `Timer` and `sleep(seconds)`: arithmetic on what `getTick` and `Thread::sleep` give.
* A condition variable with a `Mutex`: its `lock` and `unlock` are those of
  `PriorityMutex`, its list that of `Monitor`. `pthread_create`, `join` and `detach`:
  thin calls of what `KernelThreads` has; that `pthread_join` tests `exists` before it
  calls the method is the same window as that of `join` on memory used again.
* `BufferQueue::IRQreset`, which does what the constructor does and is called by
  the testsuite only, and what the player does with samples.
* The numbers of the control scheduler's regulators (`IRQrunRegulator`), and its limit of
  64 threads in the variant with fixed point numbers.
* Of the file system: `stat`, `fstat`, `mkdir` and `Directory`, which change nothing that the
  rest depends on; the contents of files, clusters and sectors of the FAT; a card changed while mounted.
* Ports, boot and drivers: registers and assembler, of which the models assume
  that interrupts stay off when disabled and that the tick comes.
* mxgui, the temperature conversion, base64, configuration and log: sequential
  code on data nothing else depends on.
* stm32flash: reading the flash into a file, unprotecting it, the dialogue of
  `stm32_init`, the hex parser and the options, which are parsing and formatting;
  `Flasher` enumerates the options that they give.
* Scripts: external programs and long delays. CMSIS, the FAT chains of FatFs,
  PNG++, fonts, the other examples:
  vendored or generated, and most of the lines of the repository.
