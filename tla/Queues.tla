-------------------------------- MODULE Queues --------------------------------
(* The two queues between a thread and an interrupt, side by side: Queue    *)
(* with users that do anything, and BufferQueue with the player of sounds.  *)
(* A behaviour is about one of the two.                                     *)
EXTENDS RingQueue

CONSTANTS Sample, NumBuf, NoBuffer, Builds, Parts     \* of Player

VARIABLES
    class,      \* "Queue" or "BufferQueue"
    buf, putAt, getAt, cnt, writing, reading, stopped,
    build, at, phase, nth, enobuf, sleeping, played

playerVars == <<buf, putAt, getAt, cnt, writing, reading, stopped,
                build, at, phase, nth, enobuf, sleeping, played>>

Player == INSTANCE Player WITH
    Item <- Sample, asleep <- sleeping

ASSUME PlayerAssumption == Player!PlayerAssumption

QueuesInit ==
    /\ class \in {"Queue", "BufferQueue"}
    /\ Init
    /\ class = "BufferQueue" => \A p \in 0 .. Size - 1 : buffer[p] = CHOOSE x \in Item : TRUE
    /\ Player!Init
    /\ class = "Queue" => build = (CHOOSE x \in Builds : TRUE) /\ \A p \in DOMAIN buf : buf[p] = 0

QueuesNext ==
    \/ class = "Queue" /\ Next /\ UNCHANGED <<class, playerVars>>
    \/ class = "BufferQueue" /\ Player!Next /\ UNCHANGED <<class, vars>>

QueuesSpec == QueuesInit /\ [][QueuesNext]_<<class, vars, playerVars>>

QueuesFairSpec ==
    /\ QueuesSpec
    /\ \/ class = "Queue" /\ \A u \in User : WF_vars(Resume(u))
       \/ class = "BufferQueue" /\ Player!Fairness

-----------------------------------------------------------------------------
(* See Player for what these say.                                           *)
PlaysSound == Player!PlaysSound
EnobufTells == Player!EnobufTells
PlayReturns == Player!PlayReturns

=============================================================================
