------------------------------- MODULE ByteStream -------------------------------
(***************************************************************************)
(* What the two users of a tunnel, the RFB handshake and the pumps, rely   *)
(* on when they take a Channel for a net.Conn: bytes come out once, in     *)
(* order and without a gap, EOF comes after the last of them, and a Write  *)
(* reports no byte that was not sent.  Bytes are numbered from 1 in each   *)
(* direction, so a position stands for everything before it.               *)
(***************************************************************************)
EXTENDS Integers

VARIABLES
    arrived,      \* bytes the source has delivered
    from, to,     \* the last Read returned the bytes from+1 .. to
    eof,          \* a Read has reported io.EOF
    ended,        \* the source will deliver no more
    closed,       \* Close was called: from then on bytes may be lost
    sunk,         \* bytes the sink has accepted
    reported      \* bytes Write has counted

streamVars == <<arrived, from, to, eof, ended, closed, sunk, reported>>

Init ==
    /\ arrived = 0 /\ from = 0 /\ to = 0 /\ sunk = 0 /\ reported = 0
    /\ eof = FALSE /\ ended = FALSE /\ closed = FALSE

Arrive ==
    /\ arrived' \in Nat /\ arrived' > arrived
    /\ ~eof
    /\ UNCHANGED <<from, to, eof, ended, closed, sunk, reported>>

(* A Read of n bytes starts where the one before it stopped. *)
Return ==
    /\ to' \in to..arrived /\ from' = to
    /\ ~eof
    /\ UNCHANGED <<arrived, eof, ended, closed, sunk, reported>>

EndOfFile ==
    /\ closed \/ (ended /\ to = arrived)
    /\ eof' = TRUE
    /\ UNCHANGED <<arrived, from, to, ended, closed, sunk, reported>>

SourceEnds ==
    /\ ended' = TRUE
    /\ UNCHANGED <<arrived, from, to, eof, closed, sunk, reported>>

Close ==
    /\ closed' = TRUE
    /\ UNCHANGED <<arrived, from, to, eof, ended, sunk, reported>>

Sink ==
    /\ sunk' \in Nat /\ sunk' > sunk
    /\ UNCHANGED <<arrived, from, to, eof, ended, closed, reported>>

Report ==
    /\ reported' \in reported..sunk
    /\ UNCHANGED <<arrived, from, to, eof, ended, closed, sunk>>

Next == Arrive \/ Return \/ EndOfFile \/ SourceEnds \/ Close \/ Sink \/ Report

Spec == Init /\ [][Next]_streamVars
=============================================================================
