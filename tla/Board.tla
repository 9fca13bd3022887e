--------------------------------- MODULE Board ---------------------------------
(***************************************************************************)
(* The firmware of the board (bits_miosix/main.cpp, misc_drivers.cpp) down *)
(* to the console driver and the part of the C library interface that      *)
(* writes and echoes (console.cpp, kernel/syscalls.cpp).                   *)
(*                                                                         *)
(* Its threads are keybThread, which polls the button, keyboardThread and  *)
(* tempThread, which print reports, and main, which reads, echoes and      *)
(* obeys commands.  The interrupt of the serial port fills rxQueue.        *)
(***************************************************************************)
EXTENDS SerialLine

CONSTANTS
    KeyQueueSize,   \* of Keyboard::keyPressed, 3 in the code
    RxQueueSize,    \* of rxQueue in pieces, 32 characters in the code
    Temperatures,   \* FALSE when tempThread is left out
    MaxPresses,     \* bound on the presses of the button
    LineLimit       \* bound on the lines the daemon has not read yet

ASSUME BoardAssumption ==
    /\ {KeyQueueSize, RxQueueSize, LineLimit} \subseteq Nat \ {0}
    /\ MaxPresses \in Nat

VARIABLES
    presses,     \* presses so far; the parity is keybThread's value
    keyPressed,  \* the queue between keybThread and keyboardThread
    key,         \* the press keyboardThread has in hand, or 0
    output,      \* what is left of the printf in progress
    rxQueue,     \* characters received and not read
    line,        \* what fgets has read so far
    display,     \* "open" or "closed" if the display says so, or "none"
    hit          \* history: presses with an echo between "\n" and "-->"

boardVars == <<presses, keyPressed, key, output, rxQueue, line, display, hit>>
reportVars == <<presses, keyPressed, key, output>>
commandVars == <<rxQueue, line, display>>

BoardInit ==
    /\ toBoard = <<>> /\ fromBoard = <<>>
    /\ presses = 0
    /\ keyPressed = <<>>
    /\ key = 0
    /\ output = <<>>
    /\ rxQueue = <<>>
    /\ line = <<>>
    /\ display = "none"
    /\ hit = {}

(* Faulty variants of the definitions below, with the mistake each makes.  *)
(* They are not part of the model: they show that a property can fail.     *)
ReportUnguarded(piece) == <<piece, Newline>>          \* no leading "\n"
TakenKept(queue) == queue                             \* element not removed

-----------------------------------------------------------------------------
(* A rising edge seen by keybThread.  The result of IRQput is not used:    *)
(* the key is lost if the queue is full, and value changes all the same.   *)
keybThread ==
    /\ presses < MaxPresses
    /\ presses' = presses + 1
    /\ keyPressed' = IF Len(keyPressed) < KeyQueueSize
                     THEN Append(keyPressed, presses + 1) ELSE keyPressed
    /\ UNCHANGED <<toBoard, fromBoard, key, output, commandVars, hit>>

Taken(queue) == Tail(queue)

getKey ==
    /\ key = 0
    /\ keyPressed # <<>>
    /\ key' = Head(keyPressed)
    /\ keyPressed' = Taken(keyPressed)
    /\ UNCHANGED <<toBoard, fromBoard, presses, output, commandVars, hit>>

(* The calls of Console::write that _write makes for one printf.           *)
Report(piece) == <<Newline, piece, Newline>>

(* printf takes the lock of stdout and gives it back when all is written.  *)
printKey ==
    /\ key # 0
    /\ output = <<>>
    /\ output' = Report(Key(key))
    /\ key' = 0
    /\ UNCHANGED <<toBoard, fromBoard, presses, keyPressed, commandVars, hit>>

tempThread ==
    /\ Temperatures
    /\ output = <<>>
    /\ output' = Report(Temperature)
    /\ UNCHANGED <<toBoard, fromBoard, presses, keyPressed, key, commandVars, hit>>

(* The line has room for a piece: a newline would not be one too many.     *)
Room(piece) == EndsLine(piece) => Len(SelectSeq(fromBoard, EndsLine)) < LineLimit

write ==
    /\ output # <<>>
    /\ Room(Head(output))
    /\ fromBoard' = Append(fromBoard, Head(output))
    /\ output' = Tail(output)
    /\ UNCHANGED <<toBoard, presses, keyPressed, key, commandVars, hit>>

-----------------------------------------------------------------------------
(* The result of IRQput is not used here either.                           *)
serialIrqImpl ==
    /\ toBoard # <<>>
    /\ toBoard' = Tail(toBoard)
    /\ rxQueue' = IF Len(rxQueue) < RxQueueSize
                  THEN Append(rxQueue, Head(toBoard)) ELSE rxQueue
    /\ UNCHANGED <<fromBoard, reportVars, line, display, hit>>

LineComplete == line # <<>> /\ EndsLine(Last(line))

(* fgets reads and echoes one piece, unless it has the end of a line.  The *)
(* character between readChar and its echo counts as not yet read.         *)
fgets ==
    /\ ~LineComplete
    /\ rxQueue # <<>>
    /\ Room(Head(rxQueue))
    /\ rxQueue' = Tail(rxQueue)
    /\ fromBoard' = Append(fromBoard, Head(rxQueue))
    /\ line' = Append(line, Head(rxQueue))
    /\ hit' = IF output # <<>> /\ output[1][2] # 0 THEN hit \union {output[1][2]} ELSE hit
    /\ UNCHANGED <<toBoard, reportVars, display>>

(* strcmp of the line, without its end, with a command.                    *)
Obeys(text, command) == text = <<Text(command)>>

obey ==
    /\ LineComplete
    /\ LET text == SubSeq(line, 1, Len(line) - 1)
       IN display' = IF Obeys(text, "open") THEN "open"
                     ELSE IF Obeys(text, "closed") THEN "closed" ELSE display
    /\ line' = <<>>
    /\ UNCHANGED <<toBoard, fromBoard, reportVars, rxQueue, hit>>

=============================================================================
