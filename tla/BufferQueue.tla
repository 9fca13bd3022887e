------------------------------ MODULE BufferQueue ------------------------------
(***************************************************************************)
(* miosix::BufferQueue<T,size,numbuf> (kernel/buffer_queue.h), the buffers *)
(* that a thread fills while an interrupt, or a DMA transfer, empties      *)
(* others.  Unlike Queue it gives away the buffer itself: between the call *)
(* that gets a buffer and the one that says it is filled, or emptied, its  *)
(* user works on it with interrupts enabled.                               *)
(*                                                                         *)
(* The calls are parts of the actions of their user, Player.  What is in a *)
(* buffer, with its actual size, is one item of the model.                 *)
(***************************************************************************)
EXTENDS Integers, Sequences

CONSTANTS
    Item, NoBuffer,
    NumBuf      \* the template parameter numbuf

Buffer == 0 .. NumBuf - 1

VARIABLES
    buf,        \* what is in the buffers
    putAt, getAt,   \* put and get
    cnt,
    writing,    \* the buffer the writer has, NoBuffer if none
    reading,    \* the buffer the reader has
    stopped     \* errorHandler was called

(* The constructor; IRQreset is the same.  The memory is not initialised.  *)
Constructed ==
    /\ buf \in [Buffer -> Item]
    /\ putAt = 0 /\ getAt = 0 /\ cnt = 0

-----------------------------------------------------------------------------
Following(position) == (position + 1) % NumBuf
Writable == IF cnt = NumBuf THEN NoBuffer ELSE putAt
Readable == IF cnt = 0 THEN NoBuffer ELSE getAt

IRQgetWritableBuffer == writing' = Writable

IRQgetReadableBuffer == reading' = Readable

(* cnt is an unsigned char.                                                *)
IRQbufferFilled ==
    /\ cnt' = (cnt + 1) % 256
    /\ IF cnt' > NumBuf
       THEN stopped' = TRUE /\ UNCHANGED putAt
       ELSE putAt' = Following(putAt) /\ UNCHANGED stopped
    /\ writing' = NoBuffer
    /\ UNCHANGED <<buf, getAt>>

(* The test of cnt against 0 is of an unsigned char: it never stops.       *)
IRQbufferEmptied ==
    /\ cnt' = (cnt + 255) % 256
    /\ getAt' = Following(getAt)
    /\ UNCHANGED <<buf, putAt, stopped>>

=============================================================================
