-------------------------------- MODULE Daemon --------------------------------
(***************************************************************************)
(* bitsd, the daemon on the Fonera (bitsd/src/main.cpp, core.cpp,          *)
(* bitsd.cpp): the loop of main that connects again after every error, and *)
(* the handlers that translate between the socket and the serial port.     *)
(*                                                                         *)
(* The server is not part of the repository.  It is modelled from what     *)
(* bitsd exchanges with it: it has a status, 1 when the place is open,     *)
(* sends it when it changes, and takes the status that bitsd sends.        *)
(*                                                                         *)
(* The handlers run one at a time in io.run.  A handler that throws, or an *)
(* operation that ends in error, destroys the Bitsd object, its buffers    *)
(* and its connection.                                                     *)
(***************************************************************************)
EXTENDS SerialLine

CONSTANTS
    RetryMax,    \* number of retryPeriods, 9 in the code
    MaxUpdates,  \* bound on the changes of status made at the server
    MaxBreaks    \* bound on the times the connection breaks

ASSUME DaemonAssumption ==
    /\ RetryMax \in Nat \ {0}
    /\ MaxUpdates \in Nat /\ MaxBreaks \in Nat

VARIABLES
    link,       \* "down" while main sleeps, "up", or broken and not yet
                \* noticed: "reset" by the other end, or "silent"
    r,          \* the index in retryPeriods
    written,    \* something was written since a silent break
    toDaemon,   \* statuses on their way to the daemon
    toServer,   \* and to the server
    status,     \* the status the server has
    greets,     \* the server sends it to whoever connects; never changed
    updates, breaks,   \* counters for the bounds
    decoded,    \* history: presses the daemon has obeyed, in order
    unread      \* history: presses it has read and not understood

daemonVars == <<link, r, written, toDaemon, toServer, status, greets, updates,
                breaks, decoded, unread>>

Statuses == {"0", "1"}
Connected == link # "down"

DaemonInit ==
    /\ link = "down"
    /\ r = 0
    /\ written = FALSE
    /\ toDaemon = <<>> /\ toServer = <<>>
    /\ status \in Statuses
    /\ greets \in BOOLEAN
    /\ updates = 0 /\ breaks = 0
    /\ decoded = <<>> /\ unread = {}

(* Faulty variants of the definitions below, with the mistake each makes.  *)
(* They are not part of the model: they show that a property can fail.     *)
TemperatureToLog(text) == FALSE                       \* "temperature" not sent
tcpWriteNothing(messages) == UNCHANGED <<toServer, written>>   \* not sent

-----------------------------------------------------------------------------
(* run: the serial port is opened, and then the socket; what the board has *)
(* sent in between is kept.  A failure of either is another round in main. *)
connect ==
    /\ ~Connected
    /\ link' = "up"
    /\ toDaemon' = IF greets THEN <<status>> ELSE <<>>
    /\ UNCHANGED <<wires, r, written, toServer, status, greets, updates, breaks, decoded, unread>>

(* main catches the exception; the last period is used for ever.           *)
NextRetry == IF r < RetryMax THEN r + 1 ELSE r

cannotConnect ==
    /\ ~Connected
    /\ r' = NextRetry
    /\ UNCHANGED <<wires, link, written, toDaemon, toServer, status, greets, updates, breaks, decoded, unread>>

(* How the end of the connection comes to bitsd: to the pending read, or   *)
(* if it only stopped carrying packets to a write that is never answered.  *)
Notices == link = "reset" \/ (link = "silent" /\ written)

disconnected ==
    /\ Notices
    /\ link' = "down"
    /\ r' = NextRetry
    /\ written' = FALSE
    /\ toDaemon' = <<>>
    /\ fromBoard' = <<>>
    /\ UNCHANGED <<toBoard, toServer, status, greets, updates, breaks, decoded, unread>>

(* tcpWrite and serialWrite.                                               *)
tcpWrite(messages) ==
    /\ toServer' = IF link = "up" THEN toServer \o messages ELSE toServer
    /\ written' = (written \/ link = "silent")

serialWrite(command) == toBoard' = toBoard \o <<Text(command), Newline>>

CommandFor(s) == IF s = "1" THEN "open" ELSE "closed"

(* socketRead and onTcpMessage of a status.                                *)
socketRead ==
    /\ Connected
    /\ toDaemon # <<>>
    /\ serialWrite(CommandFor(Head(toDaemon)))
    /\ toDaemon' = Tail(toDaemon)
    /\ UNCHANGED <<fromBoard, link, r, written, toServer, status, greets, updates, breaks, decoded, unread>>

-----------------------------------------------------------------------------
LineEnd == SelectInSeq(fromBoard, EndsLine)
Message == SubSeq(fromBoard, 1, LineEnd - 1)
Rest(wire) == SubSeq(wire, LineEnd + 1, Len(wire))

(* "-->" and a letter at the beginning of the message.                     *)
Starts(text, letter) == text # <<>> /\ Head(text)[1] = letter
SendsTemperature(text) == Starts(text, "T")
StatusFor(letter) == IF letter = "A" THEN "1" ELSE "0"

(* The presses in a message whose report is not at its beginning.          *)
Missed(text) == {text[i][2] : i \in 2 .. Len(text)} \ {0}

(* serialRead and onSerialMessage.  An empty line, an echo of a command    *)
(* and unknown data have no effect.                                        *)
serialRead ==
    /\ Connected
    /\ LineEnd # 0
    /\ fromBoard' = Rest(fromBoard)
    /\ \/ \E letter \in {"A", "C"} :
            /\ Starts(Message, letter)
            /\ serialWrite(CommandFor(StatusFor(letter)))
            /\ tcpWrite(<<StatusFor(letter)>>)
            /\ decoded' = Append(decoded, Head(Message)[2])
       \/ /\ SendsTemperature(Message)
          /\ tcpWrite(<<>>)
          /\ UNCHANGED <<toBoard, decoded>>
       \/ /\ ~(Starts(Message, "A") \/ Starts(Message, "C") \/ SendsTemperature(Message))
          /\ UNCHANGED <<toBoard, toServer, written, decoded>>
    /\ unread' = unread \union Missed(Message)
    /\ UNCHANGED <<link, r, toDaemon, status, greets, updates, breaks>>

(* What the board sends while the port is closed is lost.                  *)
portClosed ==
    /\ ~Connected
    /\ fromBoard # <<>>
    /\ fromBoard' = Tail(fromBoard)
    /\ UNCHANGED <<toBoard, daemonVars>>

-----------------------------------------------------------------------------
(* The server and the network.                                             *)
serverUpdate ==
    /\ updates < MaxUpdates
    /\ \E s \in Statuses \ {status} :
        /\ status' = s
        /\ toDaemon' = IF link = "up" THEN Append(toDaemon, s) ELSE toDaemon
    /\ updates' = updates + 1
    /\ UNCHANGED <<wires, link, r, written, toServer, greets, breaks, decoded, unread>>

serverReceives ==
    /\ toServer # <<>>
    /\ status' = Head(toServer)
    /\ toServer' = Tail(toServer)
    /\ UNCHANGED <<wires, link, r, written, toDaemon, greets, updates, breaks, decoded, unread>>

(* What has not arrived yet never does.                                    *)
linkBreaks ==
    /\ link = "up"
    /\ breaks < MaxBreaks
    /\ link' \in {"reset", "silent"}
    /\ toServer' = <<>>
    /\ \E n \in 0 .. Len(toDaemon) : toDaemon' = SubSeq(toDaemon, 1, n)
    /\ breaks' = breaks + 1
    /\ UNCHANGED <<wires, r, written, status, greets, updates, decoded, unread>>

=============================================================================
