--------------------------------- MODULE MCRelay --------------------------------
EXTENDS Relay

Sends(r, e, f, size, n) == [reads |-> r, ends |-> e, further |-> f, pipe |-> size, pauses |-> n]

(* One unit in every frame: with backpressure, and with a longer pipe.       *)
(* Frames of two reads, which inflate the window until the read loop blocks,  *)
(* and messages over three frames, two of which may end in one: those leak    *)
(* credit, and inflate the window as well.                                    *)
OneUnit == Sends({1}, {1}, {0}, 1, 1)
OneUnitQueued == Sends({1}, {1}, {0}, 2, 0)
BigFrames == Sends({2}, {1}, {0}, 1, 0)
UnevenMessages == Sends({1}, {2}, {2}, 1, 0)
AnyHost == {OneUnit, OneUnitQueued, BigFrames, UnevenMessages}

(* What inflates the server's window and what inflates the browser's.       *)
BigOrSmall == Sends({1, 2}, {1}, {0}, 1, 0)
PackedMessages == Sends({1}, {1, 2}, {0}, 1, 0)
Inflating == {BigOrSmall, PackedMessages}

(* One message to a frame or to two frames. *)
LongMessages == Sends({1}, {1}, {0, 1}, 1, 0)
Spanning == {LongMessages}
=============================================================================
