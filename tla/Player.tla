-------------------------------- MODULE Player --------------------------------
(***************************************************************************)
(* Playing a sound (examples/sad_trombone/player.cpp), which uses          *)
(* BufferQueue: a thread that decodes into buffers, the DMA that sends     *)
(* them to the converter, and the interrupt at the end of each transfer.   *)
(*                                                                         *)
(* The thread runs with interrupts enabled but for the calls of the queue, *)
(* so the interrupt may come anywhere between them.  The DMA goes from     *)
(* buffer to buffer by itself until there is none: enobuf is how it leaves *)
(* word, and the thread has to start it again.  There is a build for the   *)
(* DAC and one for an I2S converter; they differ in what they play before  *)
(* and after the sound.                                                    *)
(***************************************************************************)
EXTENDS BufferQueue

CONSTANTS
    Builds,     \* how many buffers each build plays before and after the sound
    Parts       \* how many buffers the sound fills, the last one in part; the
                \* items are these, from 1, and 0, silence

(* BufferQueue has at least two buffers and counts them in a byte.  A      *)
(* build that plays silence behind the sound plays as much as the queue    *)
(* has room for.                                                           *)
PlayerAssumption ==
    /\ NumBuf \in 2 .. 255 /\ NoBuffer \notin Buffer
    /\ Parts \in Nat \ {0} /\ 0 .. Parts \subseteq Item
    /\ \A b \in Builds : b.leading \in Nat \ {0} /\ b.trailing \in {0} \union {n \in Nat : n >= NumBuf}

VARIABLES
    build,
    at,         \* "idle", outside of play, and in it, what comes next: "check" of
                \* enobuf, "refill", "get", "fill", "filled", "end"
    phase, nth, \* it is about the nth buffer of the "lead", the "sound", the "trail"
    enobuf,
    asleep,     \* the WAIT flag of the thread
    played      \* history: what this call has sent to the converter

queueVars == <<buf, putAt, getAt, cnt, writing, reading, stopped>>
threadVars == <<build, at, phase, nth>>
allVars == <<queueVars, threadVars, enobuf, asleep, played>>

Init ==
    /\ Constructed
    /\ writing = NoBuffer /\ reading = NoBuffer
    /\ stopped = FALSE
    /\ build \in Builds
    /\ at = "idle" /\ phase = "lead" /\ nth = 1
    /\ enobuf = TRUE
    /\ asleep = FALSE
    /\ played = << >>

-----------------------------------------------------------------------------
(* The thread.                                                             *)
Runs(place) == at = place /\ ~asleep

play ==
    /\ Runs("idle")
    /\ buf' \in [Buffer -> Item]
    /\ putAt' = 0 /\ getAt' = 0 /\ cnt' = 0
    /\ at' = "get" /\ phase' = "lead" /\ nth' = 1
    /\ played' = << >>
    /\ UNCHANGED <<writing, reading, stopped, build, enobuf, asleep>>

checkEnobufKept ==               \* faulty: enobuf=false forgotten
    /\ Runs("check")
    /\ at' = IF enobuf THEN "refill" ELSE "get"
    /\ UNCHANGED <<queueVars, build, phase, nth, enobuf, asleep, played>>

checkEnobuf ==
    /\ Runs("check")
    /\ enobuf' = FALSE
    /\ at' = IF enobuf THEN "refill" ELSE "get"
    /\ UNCHANGED <<queueVars, build, phase, nth, asleep, played>>

dmaRefill ==
    /\ Runs("refill")
    /\ IRQgetReadableBuffer
    /\ enobuf' = (enobuf \/ reading' = NoBuffer)
    /\ at' = "get"
    /\ UNCHANGED <<buf, putAt, getAt, cnt, writing, stopped, build, phase, nth, asleep,
                   played>>

(* A turn of the loop in getWritableBuffer.                                *)
getWritableBuffer ==
    /\ Runs("get")
    /\ IRQgetWritableBuffer
    /\ IF Writable = NoBuffer
       THEN asleep' = TRUE /\ UNCHANGED at
       ELSE at' = "fill" /\ UNCHANGED asleep
    /\ UNCHANGED <<buf, putAt, getAt, cnt, reading, stopped, build, phase, nth, enobuf,
                   played>>

(* The sound is over when the part that was just filled is the last one.   *)
SoundOver == phase = "sound" /\ nth = Parts
AfterSoundEnd == "end"           \* faulty: no silence behind the sound
AfterSound == IF build.trailing > 0 THEN "get" ELSE "end"

(* The loop of play ends before bufferFilled, and the buffer with the last *)
(* part is not given to the queue, against what player.h and the comment   *)
(* at player.cpp:339 say (see PlaysSound).                                 *)
fillStereoBuffer ==
    /\ Runs("fill")
    /\ buf' = [buf EXCEPT ![writing] = IF phase = "sound" THEN nth ELSE 0]
    /\ IF SoundOver
       THEN /\ writing' = NoBuffer
            /\ at' = AfterSound /\ phase' = "trail" /\ nth' = 1
       ELSE at' = "filled" /\ UNCHANGED <<writing, phase, nth>>
    /\ UNCHANGED <<putAt, getAt, cnt, reading, stopped, build, enobuf, asleep, played>>

InPhase(p) ==
    CASE p = "lead" -> build.leading [] p = "sound" -> Parts [] p = "trail" -> build.trailing

bufferFilled ==
    /\ Runs("filled")
    /\ IRQbufferFilled
    /\ IF nth < InPhase(phase)
       THEN /\ at' = IF phase = "sound" THEN "check" ELSE "get"
            /\ nth' = nth + 1 /\ UNCHANGED phase
       ELSE /\ at' = IF phase = "lead" THEN "check" ELSE "end"
            /\ phase' = "sound" /\ nth' = 1
    /\ UNCHANGED <<reading, build, enobuf, asleep, played>>

(* atomicTestAndWaitUntil(enobuf,true), and what play does before it       *)
(* returns.                                                                *)
playReturns ==
    /\ Runs("end")
    /\ IF enobuf THEN at' = "idle" /\ UNCHANGED asleep
                 ELSE asleep' = TRUE /\ UNCHANGED at
    /\ UNCHANGED <<queueVars, build, phase, nth, enobuf, played>>

-----------------------------------------------------------------------------
AwakeStill == asleep            \* faulty: the interrupt forgets IRQwakeup
Awake == FALSE

(* The end of a transfer: I2SdmaHandlerImpl, DACdmaHandlerImpl.            *)
dmaHandler ==
    /\ reading # NoBuffer
    /\ IRQbufferEmptied
    /\ played' = Append(played, buf[reading])
    /\ reading' = Readable'
    /\ enobuf' = (enobuf \/ reading' = NoBuffer)
    /\ asleep' = Awake
    /\ UNCHANGED <<writing, threadVars>>

(* Another thread calls wakeup() on the thread.                            *)
SpuriousWakeup ==
    /\ asleep
    /\ asleep' = FALSE
    /\ UNCHANGED <<queueVars, threadVars, enobuf, played>>

ThreadStep ==
    \/ checkEnobuf \/ dmaRefill \/ getWritableBuffer \/ fillStereoBuffer
    \/ bufferFilled \/ playReturns

Next == play \/ ThreadStep \/ dmaHandler \/ SpuriousWakeup

Spec == Init /\ [][Next]_allVars

(* A ready thread runs in the end, and a transfer ends.                    *)
Fairness == WF_allVars(ThreadStep) /\ WF_allVars(dmaHandler)

FairSpec == Spec /\ Fairness

-----------------------------------------------------------------------------
(* What is heard is the sound in its order between the silences, without a *)
(* gap, a repetition or a buffer that was still being filled: every part   *)
(* before the last one is heard, and all that is to be heard of the sound  *)
(* has been when play shuts the converter down, which the I2S build does   *)
(* before it waits for enobuf: player.cpp:427 "Trailing blank audio, so as *)
(* to be sure audio is played to the end".                                 *)
(*                                                                         *)
(* Of the last part nothing is claimed.  It should be heard: it is "the    *)
(* last valif buffer" (player.h:45, 57) of a file that is played until it  *)
(* "has coompleted playing" (player.h:139), and player.cpp:339 waits to    *)
(* "Play last buffer"; but the loops leave without giving it to the queue  *)
(* (player.cpp:335, 423).  A player that gives it to the queue has the     *)
(* property too, with last = Parts.                                        *)
Silence(n) == [i \in 1 .. n |-> 0]
Sound(n) == Silence(build.leading) \o [i \in 1 .. n |-> i]

PlaysUpTo(last) ==
    LET all == Sound(last) \o Silence(build.trailing)
    IN /\ Len(played) <= Len(all) /\ played = SubSeq(all, 1, Len(played))
       /\ at = "end" /\ (build.trailing > 0 \/ enobuf) => Len(played) >= Len(Sound(last))

PlaysSound == \E last \in {Parts - 1, Parts} : PlaysUpTo(last)

(* enobuf tells whether the DMA is at work, except to the thread that is   *)
(* about to start it: the buffers are deleted, and the converter is shut   *)
(* down, when it is not.                                                   *)
EnobufTells == at # "refill" => (enobuf <=> reading = NoBuffer)

(* player.h:139 of play: "Play an audio file, returning after the file has *)
(* coompleted playing": it does return.                                    *)
PlayReturns == at # "idle" ~> at = "idle"

=============================================================================
