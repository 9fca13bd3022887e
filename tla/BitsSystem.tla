------------------------------ MODULE BitsSystem ------------------------------
(***************************************************************************)
(* The whole of it: the board on the wall, the daemon on the Fonera and    *)
(* the server, with people who press the button of the board, change the   *)
(* status at the server, and break the connection.                         *)
(***************************************************************************)
EXTENDS Board, Daemon

VARIABLE trouble   \* history: why board and server may disagree

vars == <<wires, boardVars, daemonVars, trouble>>

Quiet ==
    /\ toServer = <<>> /\ toDaemon = <<>> /\ toBoard = <<>>
    /\ rxQueue = <<>> /\ line = <<>>

(* A status is on its way to both sides, or the server tells it again.     *)
Begins ==
    \/ updates' # updates
    \/ decoded' # decoded
    \/ ~Connected /\ toDaemon' # <<>>

Crosses ==
    \/ updates' # updates /\ toServer # <<>>
    \/ decoded' # decoded /\ toDaemon # <<>>

Disturbances ==
    {t \in {"crossed", "link", "overflow"} :
        CASE t = "crossed"  -> Crosses
          [] t = "link"     -> \/ breaks' # breaks
                               \/ link # "up" /\ (updates' # updates \/ decoded' # decoded)
          [] t = "overflow" -> toBoard' # toBoard /\ toBoard # <<>>
                               /\ Len(toBoard') < Len(toBoard) /\ rxQueue' = rxQueue}

Noted ==
    trouble' = Disturbances \union (IF Begins /\ Quiet THEN {} ELSE trouble)

Init ==
    /\ BoardInit
    /\ DaemonInit
    /\ trouble = {"link"}

OnBoard(action) == action /\ UNCHANGED daemonVars /\ Noted
OnDaemon(action) == action /\ UNCHANGED boardVars /\ Noted

Next ==
    \/ OnBoard(keybThread) \/ OnBoard(getKey) \/ OnBoard(printKey)
    \/ OnBoard(tempThread) \/ OnBoard(write)
    \/ OnBoard(serialIrqImpl) \/ OnBoard(fgets) \/ OnBoard(obey)
    \/ OnDaemon(connect) \/ OnDaemon(cannotConnect) \/ OnDaemon(disconnected)
    \/ OnDaemon(socketRead) \/ OnDaemon(serialRead) \/ OnDaemon(portClosed)
    \/ OnDaemon(serverUpdate) \/ OnDaemon(serverReceives) \/ OnDaemon(linkBreaks)

Spec == Init /\ [][Next]_vars

(* The threads of the board have one priority and share its processor, and *)
(* tempThread wakes up every two minutes; io.run calls the handler of what *)
(* is ready; the network and the server deliver.  Nobody needs to press    *)
(* the button, change the status or break the connection.                  *)
FairSpec ==
    /\ Spec
    /\ WF_vars(OnBoard(getKey)) /\ WF_vars(OnBoard(printKey))
    /\ WF_vars(OnBoard(tempThread)) /\ WF_vars(OnBoard(write))
    /\ WF_vars(OnBoard(serialIrqImpl))
    /\ WF_vars(OnBoard(fgets)) /\ WF_vars(OnBoard(obey))
    /\ WF_vars(OnDaemon(connect)) /\ WF_vars(OnDaemon(disconnected))
    /\ WF_vars(OnDaemon(portClosed))
    /\ WF_vars(OnDaemon(socketRead)) /\ WF_vars(OnDaemon(serialRead))
    /\ WF_vars(OnDaemon(serverReceives))

-----------------------------------------------------------------------------
TypeOK ==
    /\ {toBoard, fromBoard, output, rxQueue, line} \subseteq Seq(Pieces(1 .. presses))
    /\ presses \in 0 .. MaxPresses
    /\ keyPressed \in Seq(1 .. presses) /\ Len(keyPressed) <= KeyQueueSize
    /\ key \in 0 .. presses
    /\ Len(rxQueue) <= RxQueueSize
    /\ display \in {"none", "open", "closed"}
    /\ link \in {"down", "up", "reset", "silent"}
    /\ r \in 0 .. RetryMax
    /\ {toDaemon, toServer} \subseteq Seq(Statuses)
    /\ status \in Statuses
    /\ greets \in BOOLEAN /\ written \in BOOLEAN
    /\ updates \in 0 .. MaxUpdates /\ breaks \in 0 .. MaxBreaks
    /\ decoded \in Seq(1 .. presses) /\ unread \subseteq 1 .. presses
    /\ hit \subseteq 1 .. presses
    /\ trouble \subseteq {"crossed", "link", "overflow"}

(* When the last change of status, made at the button or at the server,    *)
(* has reached everyone, the display says what the server says, unless the *)
(* changes crossed, the connection broke, or the board lost characters.    *)
Agreement ==
    Quiet /\ trouble = {} => display = (IF status = "1" THEN "open" ELSE "closed")

(* The daemon takes the presses of the button in their order, none twice,  *)
(* whatever reports, echoes and disconnections do to the lines it reads.   *)
KeysInOrder ==
    \A i, j \in DOMAIN decoded : i < j => decoded[i] < decoded[j]

(* main.cpp:45: the report of a key begins with a newline, so that the     *)
(* echo of a command before it does not spoil it: a report that arrives is *)
(* understood unless an echo came between its newline and its text.        *)
ReportsUnderstood == unread \subseteq hit

(* core.cpp:73-76: bitsd does not ask for keepalive.  It notices all the   *)
(* same that the connection is dead, because the board sends a temperature *)
(* every two minutes, and connects again.                                  *)
DeadLinkNoticed == link = "silent" ~> link = "up"

=============================================================================
