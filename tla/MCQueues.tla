-------------------------------- MODULE MCQueues --------------------------------
(* The two queues for model checking: the player in its two builds, with    *)
(* the two buffers these have and a sound of three buffers and a bit.       *)
EXTENDS Queues

CONSTANTS getter, putter, a, b, c

ThreeItems == {a, b, c}
FiveSamples == 0 .. 4
NoBuf == -1
BothBuilds == {[leading |-> 1, trailing |-> 2], [leading |-> 2, trailing |-> 0]}

=============================================================================
