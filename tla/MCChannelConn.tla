----------------------------- MODULE MCChannelConn ------------------------------
EXTENDS ChannelConn

Of(arrive, write, r, w) ==
    [arrive |-> arrive, write |-> write, chans |-> [d \in Deadlines |-> IF d = "read" THEN r ELSE w]]

(* One direction to the full and then the other, and both at a small load. *)
MCLoads == {Of(4, 0, 3, 0), Of(0, 4, 0, 2), Of(2, 1, 1, 1)}

(* Two writes and a deadline that passes. *)
OneWrite == {Of(0, 2, 0, 1)}
=============================================================================
