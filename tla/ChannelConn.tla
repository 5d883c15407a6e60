------------------------------ MODULE ChannelConn -------------------------------
(***************************************************************************)
(* internal/transport/channel.go and deadline.go: the net.Conn over one    *)
(* credit channel.  A Read and a Write (readMu and writeMu admit one of    *)
(* each), the read pump and the write pump, the two deadlines with their   *)
(* timers, and whoever calls SetDeadline, Close and the credit channel's   *)
(* own Close meanwhile.                                                    *)
(*                                                                         *)
(* Bytes are numbered from 1 in each direction, so a run of bytes is a     *)
(* position and a length.  A deadline's channels are numbered as they are  *)
(* made; a goroutine parked in a select holds the number it captured.      *)
(***************************************************************************)
EXTENDS Integers

CONSTANTS
    MaxPayload,   \* bytes of one frame, c.maxPayload and the longest the source delivers
    ReadSizes,    \* len(b) of the calls of Read
    WriteSizes,   \* len(b) of the calls of Write
    Loads         \* bounds: of each a behaviour takes one, see Load

Deadlines == {"read", "write"}

(* The two directions share nothing but Close, so an instance need not load *)
(* both to the full at once.  arrive: bytes the source delivers; write:     *)
(* bytes the callers hand to Write; chans: channels each deadline makes, 0  *)
(* if it is never set.                                                      *)
Load == [arrive : Nat, write : Nat, chans : [Deadlines -> Nat]]

ASSUME ConnAssumption ==
    /\ MaxPayload \in Nat \ {0}
    /\ ReadSizes \subseteq Nat /\ WriteSizes \subseteq Nat \ {0}
    /\ Loads \subseteq Load

VARIABLES
    load,        \* the bounds of this behaviour
    cancel,      \* per deadline: the number of the channel d.cancel is
    shut,        \* per deadline: the channels that have been closed
    timer,       \* per deadline: d.timer
    firing,      \* per deadline: channels an AfterFunc is about to close
    due,         \* per deadline: history, the time that was set has passed
    waitOn,      \* per deadline: the channel a parked caller captured, or 0
    sawDue,      \* per deadline: history, it was due at some point of this select
    rpump,       \* the read pump: in Recv, handing a payload over, or gone
    hand,        \* bytes of the payload it hands over, the last that arrived
    arrived,     \* bytes Recv has returned
    ended,       \* the credit channel is closed
    readAt, readLen,  \* readBuf: the readLen bytes after position readAt
    from, to, eof,    \* history: the last Read returned from+1 .. to; io.EOF was returned
    writer,      \* the caller of Write: idle, offering a chunk, or awaiting its done
    left, total, \* its bytes not yet counted, and counted
    ack,         \* what the done channel of the chunk being awaited holds
    wpump,       \* the write pump: idle, in Send, about to send on done, or gone
    chunk,       \* bytes of its request
    result,      \* what Send returned
    orphan,      \* the Write that made the request has returned
    sunk, counted, written, \* history: bytes Send took, Writes reported, callers passed
    abandoned,   \* history: Writes that returned while a chunk was under way
    closed       \* c.closed is closed

deadlineVars == <<cancel, shut, timer, firing, due>>
selectVars == <<waitOn, sawDue>>
sourceVars == <<rpump, hand, arrived>>
readVars == <<readAt, readLen, from, to, eof>>
writeVars == <<writer, left, total, counted, written, abandoned>>
sinkVars == <<wpump, chunk, result, sunk>>
handoffVars == <<ack, orphan>>
vars == <<load, deadlineVars, selectVars, sourceVars, readVars, ended, closed,
          writeVars, sinkVars, handoffVars>>

AtMost(n, m) == IF n <= m THEN n ELSE m

Init ==
    /\ load \in Loads
    /\ cancel = [d \in Deadlines |-> 1] /\ shut = [d \in Deadlines |-> {}]
    /\ timer = [d \in Deadlines |-> "none"] /\ firing = [d \in Deadlines |-> {}]
    /\ due = [d \in Deadlines |-> FALSE]
    /\ waitOn = [d \in Deadlines |-> 0] /\ sawDue = [d \in Deadlines |-> FALSE]
    /\ rpump = "recv" /\ hand = 0 /\ arrived = 0 /\ ended = FALSE
    /\ readAt = 0 /\ readLen = 0 /\ from = 0 /\ to = 0 /\ eof = FALSE
    /\ writer = "idle" /\ left = 0 /\ total = 0 /\ ack = "none"
    /\ wpump = "idle" /\ chunk = 0 /\ result = "none" /\ orphan = FALSE
    /\ sunk = 0 /\ counted = 0 /\ written = 0 /\ abandoned = 0
    /\ closed = FALSE

-----------------------------------------------------------------------------
(* The deadlines.  set runs under d.mu and is one step, taken when what it  *)
(* waits for is there: the close of a timer that has already fired.         *)

NoteDue(d) ==
    /\ due' = [due EXCEPT ![d] = TRUE]
    /\ sawDue' = [sawDue EXCEPT ![d] = @ \/ waitOn[d] # 0]

(* Variants: every set makes a fresh channel, and none does.                *)
MintAlways(d) == cancel[d] + 1
MintNever(d) == cancel[d]

(* The fresh channel replaces one that has expired, and only such a one.    *)
Mint(d) == IF cancel[d] \in shut[d] THEN cancel[d] + 1 ELSE cancel[d]

Arm(d, when) ==
    /\ cancel' = [cancel EXCEPT ![d] = Mint(d)]
    /\ Mint(d) <= load.chans[d]  \* bound
    /\ \/ /\ when = "past"
          /\ shut' = [shut EXCEPT ![d] = @ \cup {Mint(d)}]
          /\ timer' = [timer EXCEPT ![d] = "none"]
          /\ NoteDue(d)
       \/ /\ when = "zero"
          /\ timer' = [timer EXCEPT ![d] = "none"]
          /\ due' = [due EXCEPT ![d] = FALSE]
          /\ UNCHANGED <<shut, sawDue>>
       \/ /\ when = "future"
          /\ timer' = [timer EXCEPT ![d] = "armed"]
          /\ due' = [due EXCEPT ![d] = FALSE]
          /\ UNCHANGED <<shut, sawDue>>
    /\ UNCHANGED <<load, firing, waitOn, sourceVars, readVars, ended, closed,
                   writeVars, sinkVars, handoffVars>>

(* Variant: set does not wait for a timer that has fired to have closed.    *)
SetNoDrain(d, when) == Arm(d, when)

Set(d, when) ==
    /\ timer[d] = "fired" => cancel[d] \in shut[d]
    /\ Arm(d, when)

(* The runtime starts the AfterFunc: Stop returns false from here on.       *)
TimerFires(d) ==
    /\ timer[d] = "armed"
    /\ timer' = [timer EXCEPT ![d] = "fired"]
    /\ firing' = [firing EXCEPT ![d] = @ \cup {cancel[d]}]
    /\ NoteDue(d)
    /\ UNCHANGED <<load, cancel, shut, waitOn, sourceVars, readVars, ended, closed,
                   writeVars, sinkVars, handoffVars>>

CloseCancel(d) ==
    \E c \in firing[d] :
        /\ shut' = [shut EXCEPT ![d] = @ \cup {c}]
        /\ firing' = [firing EXCEPT ![d] = @ \ {c}]
        /\ UNCHANGED <<load, cancel, timer, due, selectVars, sourceVars, readVars, ended,
                       closed, writeVars, sinkVars, handoffVars>>

(* A select evaluates wait() as it is entered. *)
Park(d) ==
    /\ waitOn' = [waitOn EXCEPT ![d] = cancel[d]]
    /\ sawDue' = [sawDue EXCEPT ![d] = due[d]]

Leave(d) ==
    /\ waitOn' = [waitOn EXCEPT ![d] = 0]
    /\ sawDue' = [sawDue EXCEPT ![d] = FALSE]

Expired(d) == waitOn[d] \in shut[d]

-----------------------------------------------------------------------------
(* The read side.  An empty payload is skipped and changes nothing.         *)

notRead == <<load, deadlineVars, ended, closed, writeVars, sinkVars, handoffVars>>

Recv(n) ==
    /\ rpump = "recv" /\ arrived + n <= load.arrive  \* bound
    /\ rpump' = "hand" /\ hand' = n /\ arrived' = arrived + n
    /\ UNCHANGED <<readVars, selectVars, notRead>>

RecvEOF ==
    /\ rpump = "recv" /\ ended
    /\ rpump' = "done"
    /\ UNCHANGED <<hand, arrived, readVars, selectVars, notRead>>

(* The pump's select chose closed: the payload in its hand is lost.         *)
ReadPumpQuits ==
    /\ rpump = "hand" /\ closed
    /\ rpump' = "done" /\ hand' = 0
    /\ UNCHANGED <<arrived, readVars, selectVars, notRead>>

(* Variants: the rest of the payload is dropped, and n is len(b) however    *)
(* short the payload.                                                       *)
CopyOutDropsRest(at, len, size) ==
    LET n == AtMost(size, len) IN
    /\ readAt' = at + n /\ readLen' = 0
    /\ from' = at /\ to' = at + n /\ eof' = eof

CopyOutAll(at, len, size) ==
    /\ readAt' = at + size /\ readLen' = len - size
    /\ from' = at /\ to' = at + size /\ eof' = eof

(* copy(b, readBuf) of a readBuf of len bytes after position at.            *)
CopyOut(at, len, size) ==
    LET n == AtMost(size, len) IN
    /\ readAt' = at + n /\ readLen' = len - n
    /\ from' = at /\ to' = at + n /\ eof' = eof

ReadBuffered(size) ==
    /\ waitOn["read"] = 0 /\ readLen > 0
    /\ CopyOut(readAt, readLen, size)
    /\ UNCHANGED <<sourceVars, selectVars, notRead>>

(* With c.closed closed the call returns ErrClosed and changes nothing.     *)
ReadParks ==
    /\ waitOn["read"] = 0 /\ readLen = 0 /\ ~closed
    /\ Park("read")
    /\ UNCHANGED <<sourceVars, readVars, notRead>>

ReadTakes(size) ==
    /\ waitOn["read"] # 0 /\ rpump = "hand"
    /\ rpump' = "recv" /\ hand' = 0 /\ arrived' = arrived
    /\ CopyOut(arrived - hand, hand, size)
    /\ Leave("read")
    /\ UNCHANGED notRead

ReadEOF ==
    /\ waitOn["read"] # 0 /\ rpump = "done"
    /\ eof' = TRUE
    /\ Leave("read")
    /\ UNCHANGED <<sourceVars, readAt, readLen, from, to, notRead>>

(* A timeout or ErrClosed. *)
ReadFails ==
    /\ waitOn["read"] # 0
    /\ Expired("read") \/ closed
    /\ Leave("read")
    /\ UNCHANGED <<sourceVars, readVars, notRead>>

-----------------------------------------------------------------------------
(* The write side: splitPayload cuts off MaxPayload bytes at a time.        *)

notWrite == <<load, deadlineVars, sourceVars, readVars, ended, closed>>

WriteCall(n) ==
    /\ writer = "idle" /\ written + n <= load.write  \* bound
    /\ writer' = "offer" /\ left' = n /\ written' = written + n
    /\ Park("write")
    /\ UNCHANGED <<total, counted, abandoned, sinkVars, handoffVars, notWrite>>

Chunk == AtMost(left, MaxPayload)

HandOver ==
    /\ writer = "offer" /\ wpump = "idle"
    /\ writer' = "await"
    /\ wpump' = "send" /\ chunk' = Chunk
    /\ Park("write")
    /\ UNCHANGED <<left, total, counted, written, abandoned, result, sunk, handoffVars, notWrite>>

(* sink.Send: it may fail at any time, and waits for credit for as long as  *)
(* the host grants none and the credit channel is open.                     *)
SendReturns(r) ==
    /\ wpump = "send"
    /\ wpump' = "reply" /\ result' = r
    /\ sunk' = IF r = "ok" THEN sunk + chunk ELSE sunk
    /\ UNCHANGED <<chunk, writeVars, selectVars, handoffVars, notWrite>>

(* Variant: done is unbuffered, so a Write must be there to receive.        *)
ReplyUnbuffered ==
    /\ wpump = "reply" /\ ~orphan
    /\ wpump' = "idle" /\ chunk' = 0 /\ result' = "none" /\ orphan' = FALSE
    /\ ack' = result
    /\ UNCHANGED <<sunk, writeVars, selectVars, notWrite>>

(* done has room for one error, so nobody need be there to receive it.      *)
Reply ==
    /\ wpump = "reply"
    /\ wpump' = "idle" /\ chunk' = 0 /\ result' = "none" /\ orphan' = FALSE
    /\ ack' = IF orphan THEN ack ELSE result
    /\ UNCHANGED <<sunk, writeVars, selectVars, notWrite>>

WritePumpQuits ==
    /\ wpump = "idle" /\ closed
    /\ wpump' = "done"
    /\ UNCHANGED <<chunk, result, sunk, writeVars, selectVars, handoffVars, notWrite>>

(* Write returns n: the bytes it counted before.                            *)
WriteReturns(n) ==
    /\ writer' = "idle" /\ left' = 0 /\ total' = 0
    /\ counted' = counted + n
    /\ Leave("write")

ChunkDone ==
    /\ writer = "await" /\ ack = "ok"
    /\ ack' = "none"
    /\ \/ /\ left > Chunk
          /\ writer' = "offer" /\ left' = left - Chunk /\ total' = total + Chunk
          /\ counted' = counted
          /\ Park("write")
       \/ /\ left = Chunk
          /\ WriteReturns(total + Chunk)
    /\ UNCHANGED <<orphan, written, abandoned, sinkVars, notWrite>>

ChunkFails ==
    /\ writer = "await" /\ ack = "err"
    /\ ack' = "none"
    /\ WriteReturns(total)
    /\ UNCHANGED <<orphan, written, abandoned, sinkVars, notWrite>>

OfferFails ==
    /\ writer = "offer"
    /\ Expired("write") \/ closed
    /\ WriteReturns(total)
    /\ UNCHANGED <<handoffVars, written, abandoned, sinkVars, notWrite>>

(* Variant: the deadline is looked at for the handover only.                *)
AwaitFailsOnClose ==
    /\ writer = "await"
    /\ closed
    /\ ack' = "none" /\ orphan' = (wpump \in {"send", "reply"}) /\ abandoned' = abandoned + 1
    /\ WriteReturns(total)
    /\ UNCHANGED <<written, sinkVars, notWrite>>

(* The chunk stays with the pump, which sends it or has sent it.            *)
AwaitFails ==
    /\ writer = "await"
    /\ Expired("write") \/ closed
    /\ ack' = "none" /\ orphan' = (wpump \in {"send", "reply"}) /\ abandoned' = abandoned + 1
    /\ WriteReturns(total)
    /\ UNCHANGED <<written, sinkVars, notWrite>>

-----------------------------------------------------------------------------
(* CloseChannel closes the credit channel first and then this one; the      *)
(* pumps of internal/relay call only the second.                            *)

Close ==
    /\ ~closed /\ closed' = TRUE
    /\ UNCHANGED <<load, deadlineVars, selectVars, sourceVars, readVars, ended,
                   writeVars, sinkVars, handoffVars>>

CloseSource ==
    /\ ~ended /\ ended' = TRUE
    /\ UNCHANGED <<load, deadlineVars, selectVars, sourceVars, readVars, closed,
                   writeVars, sinkVars, handoffVars>>

Leaving == (\E size \in ReadSizes : ReadTakes(size)) \/ ReadEOF \/ ReadFails
Writing == HandOver \/ ChunkDone \/ ChunkFails \/ OfferFails \/ AwaitFails

Next ==
    \/ \E d \in Deadlines :
        \/ \E when \in {"past", "zero", "future"} : Set(d, when)
        \/ TimerFires(d) \/ CloseCancel(d)
    \/ \E n \in 1..MaxPayload : Recv(n)
    \/ RecvEOF \/ ReadPumpQuits \/ ReadParks \/ Leaving
    \/ \E size \in ReadSizes : ReadBuffered(size)
    \/ \E n \in WriteSizes : WriteCall(n)
    \/ \E r \in {"ok", "err"} : SendReturns(r)
    \/ Writing \/ Reply \/ WritePumpQuits
    \/ Close \/ CloseSource

(* Every goroutine that can move does, and an armed timer fires.  Nothing   *)
(* makes a caller call, the source deliver or the host grant credit; a Send *)
(* is sure to return only once the credit channel is closed.                *)
Fairness ==
    /\ \A d \in Deadlines : WF_vars(TimerFires(d)) /\ WF_vars(CloseCancel(d))
    /\ WF_vars(RecvEOF) /\ WF_vars(ReadPumpQuits) /\ WF_vars(Leaving)
    /\ WF_vars(Writing) /\ WF_vars(Reply) /\ WF_vars(WritePumpQuits)
    /\ WF_vars(ended /\ SendReturns("err"))

Spec == Init /\ [][Next]_vars /\ Fairness

-----------------------------------------------------------------------------
(* Every variable keeps to its values. *)
TypeOK ==
    /\ load \in Loads
    /\ cancel \in [Deadlines -> Nat \ {0}] /\ waitOn \in [Deadlines -> Nat]
    /\ shut \in [Deadlines -> SUBSET Nat] /\ firing \in [Deadlines -> SUBSET Nat]
    /\ timer \in [Deadlines -> {"none", "armed", "fired"}]
    /\ due \in [Deadlines -> BOOLEAN] /\ sawDue \in [Deadlines -> BOOLEAN]
    /\ rpump \in {"recv", "hand", "done"} /\ hand \in 0..MaxPayload /\ arrived \in Nat
    /\ readAt \in Nat /\ readLen \in Nat /\ from \in Nat /\ to \in Nat
    /\ eof \in BOOLEAN /\ ended \in BOOLEAN /\ closed \in BOOLEAN
    /\ writer \in {"idle", "offer", "await"} /\ left \in Nat /\ total \in Nat
    /\ ack \in {"none", "ok", "err"} /\ result \in {"none", "ok", "err"}
    /\ wpump \in {"idle", "send", "reply", "done"} /\ chunk \in 0..MaxPayload
    /\ orphan \in BOOLEAN
    /\ sunk \in Nat /\ counted \in Nat /\ written \in Nat /\ abandoned \in Nat

(* A caller parked in a select times out on a deadline that has passed,     *)
(* however often it was set since the caller captured its channel, and on   *)
(* no other: if the deadline is due that channel is closed or its timer's   *)
(* goroutine is about to close it (property 1 of deadline.go's comment),    *)
(* and if it is, a deadline was due at some point of this very wait.        *)
TimeoutsExact ==
    \A d \in Deadlines : waitOn[d] # 0 =>
        /\ due[d] => waitOn[d] \in shut[d] \cup firing[d]
        /\ waitOn[d] \in shut[d] \cup firing[d] => sawDue[d]

(* No channel is closed twice, which would panic: set and the timer it      *)
(* replaces never both close d.cancel.                                      *)
NoDoubleClose == \A d \in Deadlines : firing[d] \cap shut[d] = {}

(* channel.go:153-155 - Write's count "reflects exactly how many bytes were   *)
(* fully handed off before" a deadline or Close aborted it: a chunk that Send *)
(* has taken while neither had come is counted in the end.                    *)
HandedOff == writer = "await" /\ (ack = "ok" \/ (wpump = "reply" /\ result = "ok"))
Aborted == closed \/ due["write"] \/ Expired("write")

CountsWhatWasHandedOff ==
    \A n \in UNION {0..l.write : l \in Loads} :
        (HandedOff /\ ~Aborted /\ counted + total = n) ~> counted + total > n

(* A passed deadline ends the select of whoever is parked on it, unless it  *)
(* is set anew first; and a caller left on a channel that has been replaced *)
(* leaves in any case.                                                      *)
ExpiredUnparks ==
    \A d \in Deadlines :
        (waitOn[d] # 0 /\ due[d]) ~> (waitOn[d] = 0 \/ (waitOn[d] = cancel[d] /\ ~due[d]))

(* Close ends a parked Read and a parked Write, and with the credit channel *)
(* closed as well both pumps end: no goroutine is left behind.              *)
CloseReleases ==
    /\ \A d \in Deadlines : closed ~> waitOn[d] = 0
    /\ (closed /\ ended) ~> (rpump = "done" /\ wpump = "done")

(* The channel is the byte stream its users take it for.                    *)
Stream == INSTANCE ByteStream WITH reported <- counted + total

ImplementsByteStream == Stream!Spec
=============================================================================
