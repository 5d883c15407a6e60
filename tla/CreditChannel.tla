----------------------------- MODULE CreditChannel -----------------------------
(***************************************************************************)
(* One CreditChannel of internal/transport/credit.go: the goroutines that  *)
(* call Send, TrySend, Recv, GrantCredit and Close, the process's single   *)
(* read loop that calls receiveCreditGrant and deliverData for each frame  *)
(* of stdin, and the host at the other end of the pipes.                   *)
(*                                                                         *)
(* A step is what a goroutine does between two points where another can    *)
(* run: a critical section of c.mu, one Encode, one channel operation.     *)
(* Data frames are numbered by the host; their bytes do not matter here.   *)
(***************************************************************************)
EXTENDS Integers, Sequences, FiniteSets

CONSTANTS
    Senders,        \* goroutines that call Send and TrySend
    InitialCredit,  \* the purpose's window, 4 or 8 in open.go
    RecvCap,        \* capacity of recvCh, 64 in NewCreditChannel
    GrantSizes,     \* the credit a kind=0x03 frame may carry, either way
    MaxGranted,     \* bound: credit the host grants in one behaviour
    MaxPipe,        \* bound: frames in stdin at once
    MaxSent         \* bound: data frames the host sends in one behaviour

ASSUME CreditAssumption ==
    /\ IsFiniteSet(Senders)
    /\ InitialCredit \in Nat
    /\ RecvCap \in Nat \ {0}
    /\ GrantSizes \subseteq Nat
    /\ MaxGranted \in Nat /\ MaxPipe \in Nat /\ MaxSent \in Nat

VARIABLES
    sendCred, isClosed,   \* the fields c.mu guards
    done,                 \* c.done has been closed
    recvCh,               \* the buffered channel of received payloads
    sender,               \* where each sender is, see SenderPlaces
    closer,               \* where the one effective call of Close is
    granter,              \* credit a GrantCredit past its closed check will encode, or 0
    reader,               \* the goroutine that calls Recv: "recv", or "eof" once it got ok == false
    readLoop,             \* the data frame deliverData is blocked on, or 0
    stdin,                \* frames the host has written and the read loop has not read
    hostCred,             \* credit the host still has towards this plugin
    hostGranted, hostSent,\* what the host has written, for the two bounds
    txWire,               \* data frames this channel has encoded
    credReceived,         \* credit receiveCreditGrant has accepted
    received, atClose     \* payloads Recv has returned; those buffered or returned when done closed

txVars   == <<sendCred, sender, txWire>>
rxVars   == <<recvCh, reader, readLoop, received>>
hostVars == <<hostGranted, hostSent>>
closeVars == <<isClosed, done, closer, atClose>>
pipeVars == <<stdin, hostCred, credReceived>>
notTx == <<rxVars, hostVars, closeVars, granter, pipeVars>>   \* what a sender leaves alone
vars == <<txVars, rxVars, hostVars, closeVars, granter, pipeVars>>

(* "lock": about to take c.mu in Send; "waiting": parked in cond.Wait;      *)
(* "encode": holds one unit of credit; "refund": its Encode failed.         *)
SenderPlaces == {"idle", "lock", "waiting", "encode", "refund"}
At(place) == {s \in Senders : sender[s] = place}

Data(i) == [kind |-> "data", seq |-> i]
Credit(n) == [kind |-> "credit", n |-> n]
Frames == [kind : {"data"}, seq : 1..MaxSent] \cup [kind : {"credit"}, n : GrantSizes]

Init ==
    /\ sendCred = InitialCredit /\ isClosed = FALSE /\ done = FALSE
    /\ recvCh = <<>> /\ received = <<>> /\ atClose = <<>>
    /\ sender = [s \in Senders |-> "idle"]
    /\ closer = "idle" /\ granter = 0 /\ reader = "recv" /\ readLoop = 0
    /\ stdin = <<>> /\ hostCred = InitialCredit
    /\ hostGranted = 0 /\ hostSent = 0 /\ txWire = 0 /\ credReceived = 0

-----------------------------------------------------------------------------
(* The sender side.  A payload longer than maxPayload is refused before any *)
(* state is read, so only payloads that fit are modelled.                   *)

Goto(s, place) == sender' = [sender EXCEPT ![s] = place]

SendCall(s) ==
    /\ sender[s] = "idle"
    /\ Goto(s, "lock")
    /\ UNCHANGED <<sendCred, txWire, notTx>>

(* Variant: "if" for the "for" around cond.Wait, so a woken sender takes    *)
(* credit that another has already used.                                    *)
SendTakeUnchecked(s) ==
    /\ sender[s] = "lock" /\ ~isClosed
    /\ sendCred' = sendCred - 1
    /\ Goto(s, "encode")
    /\ UNCHANGED <<txWire, notTx>>

SendTake(s) ==
    /\ sender[s] = "lock" /\ ~isClosed /\ sendCred > 0
    /\ sendCred' = sendCred - 1
    /\ Goto(s, "encode")
    /\ UNCHANGED <<txWire, notTx>>

SendWait(s) ==
    /\ sender[s] = "lock" /\ ~isClosed /\ sendCred <= 0
    /\ Goto(s, "waiting")
    /\ UNCHANGED <<sendCred, txWire, notTx>>

SendClosed(s) ==
    /\ sender[s] = "lock" /\ isClosed
    /\ Goto(s, "idle")
    /\ UNCHANGED <<sendCred, txWire, notTx>>

(* Variant: TrySend encodes without taking credit. *)
TrySendFree(s) ==
    /\ sender[s] = "idle" /\ ~isClosed
    /\ txWire' = txWire + 1
    /\ txWire < InitialCredit + MaxGranted + 2  \* bound
    /\ UNCHANGED <<sendCred, sender, notTx>>

(* TrySend when it succeeds; ErrClosed and ErrNoCredit change nothing. *)
TrySend(s) ==
    /\ sender[s] = "idle" /\ ~isClosed /\ sendCred > 0
    /\ sendCred' = sendCred - 1
    /\ Goto(s, "encode")
    /\ UNCHANGED <<txWire, notTx>>

EncodeOK(s) ==
    /\ sender[s] = "encode"
    /\ txWire' = txWire + 1
    /\ Goto(s, "idle")
    /\ UNCHANGED <<sendCred, notTx>>

EncodeFails(s) ==
    /\ sender[s] = "encode"
    /\ Goto(s, "refund")
    /\ UNCHANGED <<sendCred, txWire, notTx>>

(* Variants: a failed Encode whose credit is not given back, and one that  *)
(* gives it back and tells nobody.                                         *)
RefundForgotten(s) ==
    /\ sender[s] = "refund"
    /\ Goto(s, "idle")
    /\ UNCHANGED <<sendCred, txWire, notTx>>

RefundSilent(s) ==
    /\ sender[s] = "refund"
    /\ sendCred' = sendCred + 1
    /\ Goto(s, "idle")
    /\ UNCHANGED <<txWire, notTx>>

(* cond.Signal moves one parked sender, if there is one, back to the lock. *)
Refund(s) ==
    /\ sender[s] = "refund"
    /\ sendCred' = sendCred + 1
    /\ \/ At("waiting") = {} /\ Goto(s, "idle")
       \/ \E t \in At("waiting") : sender' = [sender EXCEPT ![s] = "idle", ![t] = "lock"]
    /\ UNCHANGED <<txWire, notTx>>

(* cond.Broadcast *)
WakeAll == sender' = [s \in Senders |-> IF sender[s] = "waiting" THEN "lock" ELSE sender[s]]

-----------------------------------------------------------------------------
(* The read loop of cmd/xqs-vnc/main.go, by way of HandleChannelFrame: one  *)
(* frame at a time, and a blocked deliverData holds up every frame behind.  *)

ReceiveCreditGrant ==
    /\ readLoop = 0 /\ stdin # <<>> /\ Head(stdin).kind = "credit"
    /\ stdin' = Tail(stdin)
    /\ IF Head(stdin).n <= 0
         THEN UNCHANGED <<sendCred, sender, credReceived>>
         ELSE /\ sendCred' = sendCred + Head(stdin).n
              /\ credReceived' = credReceived + Head(stdin).n
              /\ WakeAll
    /\ UNCHANGED <<txWire, rxVars, hostVars, closeVars, granter, hostCred>>

DeliverCall ==
    /\ readLoop = 0 /\ stdin # <<>> /\ Head(stdin).kind = "data"
    /\ stdin' = Tail(stdin)
    /\ readLoop' = Head(stdin).seq
    /\ UNCHANGED <<txVars, recvCh, reader, received, hostVars, closeVars, granter, hostCred, credReceived>>

(* Both cases of deliverData's select: with done closed and room in recvCh   *)
(* Go may take either.                                                       *)
DeliverEnqueue ==
    /\ readLoop # 0 /\ Len(recvCh) < RecvCap
    /\ recvCh' = Append(recvCh, readLoop)
    /\ readLoop' = 0
    /\ UNCHANGED <<txVars, reader, received, hostVars, closeVars, granter, pipeVars>>

(* Variant: a full buffer drops the frame instead of blocking. *)
DeliverDropWhenFull ==
    /\ readLoop # 0 /\ (done \/ Len(recvCh) = RecvCap)
    /\ readLoop' = 0
    /\ UNCHANGED <<txVars, recvCh, reader, received, hostVars, closeVars, granter, pipeVars>>

DeliverDrop ==
    /\ readLoop # 0 /\ done
    /\ readLoop' = 0
    /\ UNCHANGED <<txVars, recvCh, reader, received, hostVars, closeVars, granter, pipeVars>>

-----------------------------------------------------------------------------
(* The receiver side. *)

RecvPayload ==
    /\ reader = "recv" /\ recvCh # <<>>
    /\ received' = Append(received, Head(recvCh))
    /\ recvCh' = Tail(recvCh)
    /\ UNCHANGED <<txVars, reader, readLoop, hostVars, closeVars, granter, pipeVars>>

(* Variant: no inner select, the end wins over buffered payloads. *)
RecvEOFUndrained ==
    /\ reader = "recv" /\ done
    /\ reader' = "eof"
    /\ UNCHANGED <<txVars, recvCh, readLoop, received, hostVars, closeVars, granter, pipeVars>>

RecvEOF ==
    /\ reader = "recv" /\ done /\ recvCh = <<>>
    /\ reader' = "eof"
    /\ UNCHANGED <<txVars, recvCh, readLoop, received, hostVars, closeVars, granter, pipeVars>>

(* GrantCredit reads isClosed under the lock and encodes after it. *)
GrantCheck(n) ==
    /\ granter = 0 /\ n > 0 /\ ~isClosed
    /\ hostCred + n <= MaxSent                  \* bound: more could not be spent
    /\ granter' = n
    /\ UNCHANGED <<txVars, rxVars, hostVars, closeVars, stdin, hostCred, credReceived>>

GrantEncode ==
    /\ granter # 0
    /\ granter' = 0
    /\ hostCred' \in {hostCred, hostCred + granter}   \* a failed Encode, or the host's window grows
    /\ UNCHANGED <<txVars, rxVars, hostVars, closeVars, stdin, credReceived>>

-----------------------------------------------------------------------------
(* Close, under closeOnce: mark under the lock, close done, broadcast. *)

CloseMark ==
    /\ closer = "idle"
    /\ isClosed' = TRUE /\ closer' = "marked"
    /\ UNCHANGED <<txVars, rxVars, hostVars, done, atClose, granter, pipeVars>>

CloseDone ==
    /\ closer = "marked"
    /\ done' = TRUE /\ closer' = "broadcast"
    /\ atClose' = received \o recvCh
    /\ UNCHANGED <<txVars, rxVars, hostVars, isClosed, granter, pipeVars>>

(* Variant: no Broadcast. *)
CloseSilent ==
    /\ closer = "broadcast"
    /\ closer' = "closed"
    /\ UNCHANGED <<txVars, rxVars, hostVars, isClosed, done, atClose, granter, pipeVars>>

CloseBroadcast ==
    /\ closer = "broadcast"
    /\ closer' = "closed"
    /\ WakeAll
    /\ UNCHANGED <<sendCred, txWire, rxVars, hostVars, isClosed, done, atClose, granter, pipeVars>>

-----------------------------------------------------------------------------
(* The host keeps to the credit it was given, and grants what it likes. *)

HostGrant(n) ==
    /\ hostGranted + n <= MaxGranted
    /\ Len(stdin) < MaxPipe
    /\ hostGranted' = hostGranted + n
    /\ stdin' = Append(stdin, Credit(n))
    /\ UNCHANGED <<txVars, rxVars, hostSent, closeVars, granter, hostCred, credReceived>>

HostData ==
    /\ hostCred > 0 /\ hostSent < MaxSent /\ Len(stdin) < MaxPipe
    /\ hostSent' = hostSent + 1
    /\ hostCred' = hostCred - 1
    /\ stdin' = Append(stdin, Data(hostSent + 1))
    /\ UNCHANGED <<txVars, rxVars, hostGranted, closeVars, granter, credReceived>>

Sender(s) == \/ SendTake(s) \/ SendWait(s) \/ SendClosed(s)
             \/ EncodeOK(s) \/ EncodeFails(s) \/ Refund(s)
ReadLoop == ReceiveCreditGrant \/ DeliverCall \/ DeliverEnqueue \/ DeliverDrop
Reader == RecvPayload \/ RecvEOF
CloseRest == CloseDone \/ CloseBroadcast

Next ==
    \/ \E s \in Senders : SendCall(s) \/ TrySend(s) \/ Sender(s)
    \/ ReadLoop \/ Reader \/ GrantEncode \/ CloseMark \/ CloseRest \/ HostData
    \/ \E n \in GrantSizes : GrantCheck(n) \/ HostGrant(n)

Spec == Init /\ [][Next]_vars

(* The Go scheduler runs every goroutine that is able to run; nobody has to *)
(* call Send, TrySend, GrantCredit or Close, and the host owes us nothing.  *)
Fairness ==
    /\ \A s \in Senders : WF_vars(Sender(s))
    /\ WF_vars(ReadLoop) /\ WF_vars(Reader) /\ WF_vars(CloseRest)

LiveSpec == Spec /\ Fairness

-----------------------------------------------------------------------------
(* Properties. *)

TypeOK ==
    /\ sendCred \in Nat /\ txWire \in Nat /\ credReceived \in Nat
    /\ hostCred \in Nat /\ hostGranted \in Nat /\ hostSent \in 0..MaxSent
    /\ isClosed \in BOOLEAN /\ done \in BOOLEAN
    /\ sender \in [Senders -> SenderPlaces]
    /\ closer \in {"idle", "marked", "broadcast", "closed"}
    /\ granter \in Nat /\ reader \in {"recv", "eof"} /\ readLoop \in 0..MaxSent
    /\ recvCh \in Seq(1..MaxSent) /\ Len(recvCh) <= RecvCap
    /\ received \in Seq(1..MaxSent) /\ atClose \in Seq(1..MaxSent)
    /\ stdin \in Seq(Frames)

(* credit.go:165-183 - every unit of credit is in the window, in the hands   *)
(* of one sender, or spent on one frame, whatever fails or closes meanwhile: *)
(* none is lost by a failed Encode and none is used twice.                   *)
InFlight == At("encode") \cup At("refund")
CreditConserved ==
    sendCred + Cardinality(InFlight) + txWire = InitialCredit + credReceived

(* credit.go:161-164, 177-180, 225-228, 304-308 - no wake-up is lost: while   *)
(* a Send is parked, either Close has still to broadcast or as many senders   *)
(* are on their way to the lock as there are units of credit to take.         *)
NoLostWakeup ==
    At("waiting") # {} =>
        \/ closer \in {"marked", "broadcast"}
        \/ closer = "idle" /\ sendCred <= Cardinality(At("lock"))

(* credit.go:270-297 - until Close, every data frame the host sent is         *)
(* returned by Recv once and in order: what was returned, what is buffered,   *)
(* what deliverData holds and what the pipe holds are frames 1 to hostSent.   *)
Taken == Len(received) + Len(recvCh) + IF readLoop = 0 THEN 0 ELSE 1
DataAt == {i \in DOMAIN stdin : stdin[i].kind = "data"}
InOrderUntilClose == ~done =>
    /\ \A i \in DOMAIN received : received[i] = i
    /\ \A i \in DOMAIN recvCh : recvCh[i] = Len(received) + i
    /\ readLoop \in {0, Taken} /\ Taken <= hostSent
    /\ {stdin[i].seq : i \in DataAt} = (Taken + 1)..hostSent
    /\ \A i, j \in DataAt : i < j => stdin[i].seq < stdin[j].seq

(* credit.go:299-301 - Recv reports the end only "after draining anything     *)
(* already buffered": nothing that was in the buffer at Close is lost.        *)
DrainedBeforeEOF ==
    reader = "eof" => Len(received) >= Len(atClose) /\ SubSeq(received, 1, Len(atClose)) = atClose

(* credit.go:299-301 - Close "unblocks any Send parked on exhausted credit",  *)
(* the read loop blocked on a full buffer, and the Recv of a drained channel. *)
CloseReleasesAll ==
    closer = "marked" ~> (At("waiting") = {} /\ readLoop = 0 /\ reader = "eof")

(* credit.go:8-20 - the channel keeps the sender's side of the contract: each *)
(* data frame spends credit that has arrived, and only grants add to it.      *)
Contract == INSTANCE FlowControl WITH budget <- InitialCredit + credReceived, spent <- txWire
KeepsContract == Contract!Spec
================================================================================
