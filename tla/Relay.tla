--------------------------------- MODULE Relay ---------------------------------
(***************************************************************************)
(* The two pumps of internal/relay/pump.go between the tcp-relay and the   *)
(* embed-stream channel, with what they share: the process's one read loop, *)
(* the receive buffers, the credit windows and the backpressure gate of    *)
(* internal/session/backpressure.go.  It starts when doHandshakes returns.  *)
(*                                                                         *)
(* A data frame carries the number of units it holds: for tcp-relay the     *)
(* Reads of 32 KiB it takes to consume it, for embed-stream the client      *)
(* messages that end in it.  A unit is what a pump forwards and grants one  *)
(* frame of credit for; a frame costs one credit whatever it holds.         *)
(***************************************************************************)
EXTENDS Integers, Sequences, FiniteSets

CONSTANTS
    TcpCredit,    \* TCPRelayInitialCredit, 4
    EmbedCredit,  \* EmbedStreamInitialCredit, 8
    Ungranted,    \* embed-stream frames read without a grant: version, choice, ClientInit, 3
    RecvCap,      \* payloads a channel buffers: recvCh's 64 and the one readPump holds
    Hosts,        \* hosts, of which a behaviour has one: see Host
    ReadOnly,     \* the session's readOnly field
    MaxCred       \* bound: credit the host keeps count of

(* What a host does.  reads: 32 KiB reads a tcp-relay frame of its may take, *)
(* 1..32; ends: client messages that may end in an embed-stream frame in      *)
(* which any does; further: frames a message may need beyond the one it       *)
(* begins in; pipe: frames the pipe to the plugin's stdin holds; pauses:      *)
(* bound, times it signals backpressure.                                      *)
Host == [reads : SUBSET (Nat \ {0}), ends : SUBSET (Nat \ {0}), further : SUBSET Nat,
         pipe : Nat \ {0}, pauses : Nat]

ASSUME RelayAssumption ==
    /\ TcpCredit \in Nat \ {0} /\ EmbedCredit \in Nat \ {0}
    /\ Ungranted \in 1..EmbedCredit
    /\ RecvCap \in Nat \ {0}
    /\ MaxCred \in Nat /\ 2 * TcpCredit <= MaxCred /\ EmbedCredit - Ungranted <= MaxCred
    /\ Hosts \subseteq Host
    /\ ReadOnly \in BOOLEAN

Channels == {"tcp", "embed"}
Other(c) == IF c = "tcp" THEN "embed" ELSE "tcp"

VARIABLES
    host,       \* the host of this behaviour
    hostCred,   \* per channel, the data frames the host may still send
    stdin,      \* frames and notifications the host has written, not yet read
    recvQ,      \* per channel, payloads delivered and not yet read, as units
    pump,       \* where the pump that reads channel c is
    left,       \* units of the payload in hand still to forward (readBuf)
    sendCred,   \* per channel, credit the plugin holds as a sender
    hostQ,      \* per channel, frames the plugin sent and the host has not drained
    gate,       \* backpressureGate: 0 for nil, else the number of the gate
    waitGate,   \* the gate WaitForReadClearance is parked on
    pauses, hostPaused,  \* backpressure signals sent; no resume sent since the last
    msgLeft,    \* frames the browser has still to send of the message it began
    closed      \* runPump has closed both Channels

hostVars == <<pauses, hostPaused, msgLeft>>
vars == <<host, hostCred, stdin, recvQ, pump, left, sendCred, hostQ, gate, waitGate, hostVars, closed>>

Data(c, u) == [kind |-> "data", ch |-> c, units |-> u]
Credit(c) == [kind |-> "credit", ch |-> c]
Pause == [kind |-> "pause"]
Resume == [kind |-> "resume"]

PumpPlaces == {"clientInit", "initWrite", "gate", "waitGate", "read", "write", "grant", "ended"}

(* doHandshakes: rfb.Handshake has read some of the first TcpCredit frames    *)
(* without granting, then the batch is granted; Frontshake has read all but   *)
(* the last of the ungranted embed-stream frames, ClientInit is on its way.   *)
(* The gate is the session's: a pause of the relay before a reconnect may     *)
(* still stand, its resume not sent.                                          *)
Init ==
    /\ host \in Hosts
    /\ \E used \in 0..TcpCredit :
          hostCred = [c \in Channels |-> IF c = "tcp" THEN 2 * TcpCredit - used ELSE EmbedCredit - Ungranted]
    /\ stdin = <<Data("embed", 0)>>
    /\ recvQ = [c \in Channels |-> <<>>]
    /\ pump = [c \in Channels |-> IF c = "tcp" THEN "gate" ELSE "clientInit"]
    /\ left = [c \in Channels |-> 0]
    /\ sendCred = [c \in Channels |-> IF c = "tcp" THEN TcpCredit ELSE EmbedCredit]
    /\ hostQ = [c \in Channels |-> 0]
    /\ hostPaused \in BOOLEAN /\ gate = IF hostPaused THEN 1 ELSE 0
    /\ waitGate = 0 /\ pauses = 0
    /\ msgLeft = 0 /\ closed = FALSE

Move(c, place) == pump' = [pump EXCEPT ![c] = place]

-----------------------------------------------------------------------------
(* The host writes one frame or notification; a full pipe makes it wait. *)
HostWrites(f) == Len(stdin) < host.pipe /\ stdin' = Append(stdin, f)

(* The host: the VNC server's bytes, the browser's messages, credit, signals. *)

HostData(c, u) ==
    /\ hostCred[c] > 0
    /\ hostCred' = [hostCred EXCEPT ![c] = @ - 1]
    /\ HostWrites(Data(c, u))
    /\ UNCHANGED <<host, recvQ, pump, left, sendCred, hostQ, gate, waitGate, pauses, hostPaused, closed>>

ServerSends == \E r \in host.reads : HostData("tcp", r) /\ UNCHANGED msgLeft

(* u messages end in the frame, and one that has not ended needs k more.      *)
MessageFrame(u, k) == HostData("embed", u) /\ msgLeft' = k

BrowserStarts ==
    /\ msgLeft = 0
    /\ \E u \in {0} \cup host.ends, k \in host.further : u + k > 0 /\ MessageFrame(u, k)

BrowserGoesOn ==
    \/ msgLeft > 1 /\ MessageFrame(0, msgLeft - 1)
    \/ msgLeft = 1 /\ \E u \in host.ends, k \in host.further : MessageFrame(u, k)

HostDrains(c) ==
    /\ hostQ[c] > 0
    /\ hostQ' = [hostQ EXCEPT ![c] = @ - 1]
    /\ HostWrites(Credit(c))
    /\ UNCHANGED <<host, hostCred, recvQ, pump, left, sendCred, gate, waitGate, hostVars, closed>>

HostPauses ==
    /\ ~hostPaused /\ pauses < host.pauses
    /\ hostPaused' = TRUE /\ pauses' = pauses + 1
    /\ HostWrites(Pause)
    /\ UNCHANGED <<host, hostCred, recvQ, pump, left, sendCred, hostQ, gate, waitGate, msgLeft, closed>>

HostResumes ==
    /\ hostPaused
    /\ hostPaused' = FALSE
    /\ HostWrites(Resume)
    /\ UNCHANGED <<host, hostCred, recvQ, pump, left, sendCred, hostQ, gate, waitGate, pauses, msgLeft, closed>>

-----------------------------------------------------------------------------
(* The read loop: one frame at a time.  deliverData blocks while the buffer   *)
(* of its channel is full, and everything behind the frame waits with it.     *)

Incoming(kind) == stdin # <<>> /\ Head(stdin).kind = kind /\ stdin' = Tail(stdin)
HasRoom(c) == Len(recvQ[c]) < RecvCap

DeliverData ==
    /\ Incoming("data")
    /\ LET f == Head(stdin) IN
         /\ HasRoom(f.ch)
         /\ recvQ' = [recvQ EXCEPT ![f.ch] = Append(@, f.units)]
    /\ UNCHANGED <<host, hostCred, pump, left, sendCred, hostQ, gate, waitGate, hostVars, closed>>

ReadCredit ==
    /\ Incoming("credit")
    /\ sendCred' = [sendCred EXCEPT ![Head(stdin).ch] = @ + 1]
    /\ UNCHANGED <<host, hostCred, recvQ, pump, left, hostQ, gate, waitGate, hostVars, closed>>

(* setBackpressure(true) arms a fresh gate unless one is armed; the bound on  *)
(* pauses numbers them.                                                       *)
ReadPause ==
    /\ Incoming("pause")
    /\ gate' = IF gate = 0 THEN waitGate + 1 ELSE gate
    /\ UNCHANGED <<host, hostCred, recvQ, pump, left, sendCred, hostQ, waitGate, hostVars, closed>>

(* setBackpressure(false) closes the gate and forgets it. *)
ReadResume ==
    /\ Incoming("resume")
    /\ gate' = 0
    /\ UNCHANGED <<host, hostCred, recvQ, pump, left, sendCred, hostQ, waitGate, hostVars, closed>>

-----------------------------------------------------------------------------
(* The coupling policy of coupling.go, for a channel that has a window. *)

PolicyGrant(remaining, requested) ==
    LET half == IF EmbedCredit \div 2 = 0 THEN 1 ELSE EmbedCredit \div 2 IN
    IF requested <= 0 \/ remaining <= 0 THEN 0
    ELSE IF remaining >= half THEN requested
    ELSE (requested * remaining) \div EmbedCredit

(* Variant: the policy's answer is used as it is, 0 included. *)
CouplingGrantRaw(remaining) == PolicyGrant(remaining, 1)

CouplingGrant(remaining) ==
    LET extra == PolicyGrant(remaining, 1) IN IF extra > 1 THEN extra ELSE 1

-----------------------------------------------------------------------------
(* The pumps.  Pump c reads channel c and writes Other(c). *)

CheckGate ==
    /\ pump["tcp"] = "gate"
    /\ IF gate = 0 THEN Move("tcp", "read") /\ UNCHANGED waitGate
                   ELSE Move("tcp", "waitGate") /\ waitGate' = gate
    /\ UNCHANGED <<host, hostCred, stdin, recvQ, left, sendCred, hostQ, gate, hostVars, closed>>

GateCloses ==
    /\ pump["tcp"] = "waitGate" /\ gate # waitGate
    /\ Move("tcp", "gate")
    /\ UNCHANGED <<host, hostCred, stdin, recvQ, left, sendCred, hostQ, gate, waitGate, hostVars, closed>>

(* ClientInit goes through as one byte, and no credit is granted for it. *)
ReadClientInit ==
    /\ ~closed /\ pump["embed"] = "clientInit" /\ recvQ["embed"] # <<>>
    /\ recvQ' = [recvQ EXCEPT !["embed"] = Tail(@)]
    /\ Move("embed", "initWrite")
    /\ UNCHANGED <<host, hostCred, stdin, left, sendCred, hostQ, gate, waitGate, hostVars, closed>>

(* Decide: an input message of a read-only session is consumed, not written;  *)
(* everything else is forwarded.                                              *)
Decide(c) == {"write"} \cup IF ReadOnly /\ c = "embed" THEN {"grant"} ELSE {}

(* A payload with no unit in it is the middle of a client message: FilterOnce *)
(* consumes it and reads on.  Read looks at closed before it waits.           *)
TakePayload(c) ==
    /\ ~closed /\ pump[c] = "read" /\ left[c] = 0 /\ recvQ[c] # <<>>
    /\ recvQ' = [recvQ EXCEPT ![c] = Tail(@)]
    /\ left' = [left EXCEPT ![c] = Head(recvQ[c])]
    /\ \/ Head(recvQ[c]) = 0 /\ UNCHANGED pump
       \/ Head(recvQ[c]) > 0 /\ \E place \in Decide(c) : Move(c, place)
    /\ UNCHANGED <<host, hostCred, stdin, sendCred, hostQ, gate, waitGate, hostVars, closed>>

TakeRest(c) ==
    /\ pump[c] = "read" /\ left[c] > 0
    /\ \E place \in Decide(c) : Move(c, place)
    /\ UNCHANGED <<host, hostCred, stdin, recvQ, left, sendCred, hostQ, gate, waitGate, hostVars, closed>>

(* Variants: a write that does not wait for credit, and one that does not     *)
(* account for the frame it sends.                                            *)
WriteUnchecked(c) ==
    /\ pump[c] \in {"write", "initWrite"}
    /\ sendCred' = [sendCred EXCEPT ![Other(c)] = @ - 1]
    /\ hostQ' = [hostQ EXCEPT ![Other(c)] = @ + 1]
    /\ Move(c, IF pump[c] = "write" THEN "grant" ELSE "read")
    /\ UNCHANGED <<host, hostCred, stdin, recvQ, left, gate, waitGate, hostVars, closed>>

WriteUncounted(c) ==
    /\ pump[c] \in {"write", "initWrite"}
    /\ sendCred[Other(c)] > 0
    /\ hostQ' = [hostQ EXCEPT ![Other(c)] = @ + 1]
    /\ Move(c, IF pump[c] = "write" THEN "grant" ELSE "read")
    /\ UNCHANGED <<host, hostCred, stdin, recvQ, left, sendCred, gate, waitGate, hostVars, closed>>

Write(c) ==
    /\ pump[c] \in {"write", "initWrite"}
    /\ sendCred[Other(c)] > 0
    /\ sendCred' = [sendCred EXCEPT ![Other(c)] = @ - 1]
    /\ hostQ' = [hostQ EXCEPT ![Other(c)] = @ + 1]
    /\ Move(c, IF pump[c] = "write" THEN "grant" ELSE "read")
    /\ UNCHANGED <<host, hostCred, stdin, recvQ, left, gate, waitGate, hostVars, closed>>

GrantAmount(c) == IF c = "tcp" THEN CouplingGrant(sendCred["embed"]) ELSE 1

(* Variant: a dropped or forwarded message is not granted back. *)
GrantTcpOnly(c) ==
    /\ pump[c] = "grant"
    /\ hostCred' = IF c = "tcp" THEN [hostCred EXCEPT ![c] = IF @ < MaxCred THEN @ + 1 ELSE @] ELSE hostCred
    /\ left' = [left EXCEPT ![c] = @ - 1]
    /\ Move(c, IF c = "tcp" THEN "gate" ELSE "read")
    /\ UNCHANGED <<host, stdin, recvQ, sendCred, hostQ, gate, waitGate, hostVars, closed>>

(* Variant: two frames of credit for every chunk, while the window is full. *)
GrantGenerous(c) ==
    /\ pump[c] = "grant"
    /\ hostCred' = [hostCred EXCEPT ![c] = IF @ + 2 <= MaxCred THEN @ + 2 ELSE MaxCred]
    /\ left' = [left EXCEPT ![c] = @ - 1]
    /\ Move(c, IF c = "tcp" THEN "gate" ELSE "read")
    /\ UNCHANGED <<host, stdin, recvQ, sendCred, hostQ, gate, waitGate, hostVars, closed>>

Grant(c) ==
    /\ pump[c] = "grant"
    /\ hostCred' = [hostCred EXCEPT ![c] =
          IF @ + GrantAmount(c) <= MaxCred THEN @ + GrantAmount(c) ELSE MaxCred]
    /\ left' = [left EXCEPT ![c] = @ - 1]
    /\ Move(c, IF c = "tcp" THEN "gate" ELSE "read")
    /\ UNCHANGED <<host, stdin, recvQ, sendCred, hostQ, gate, waitGate, hostVars, closed>>

(* The stream ends, a message is unknown, a write fails. *)
PumpFails(c) ==
    /\ pump[c] \notin {"ended", "gate", "waitGate", "grant"}
    /\ Move(c, "ended")
    /\ UNCHANGED <<host, hostCred, stdin, recvQ, left, sendCred, hostQ, gate, waitGate, hostVars, closed>>

(* runPump: the first result closes both Channels. *)
CloseBoth ==
    /\ ~closed /\ \E c \in Channels : pump[c] = "ended"
    /\ closed' = TRUE
    /\ UNCHANGED <<host, hostCred, stdin, recvQ, pump, left, sendCred, hostQ, gate, waitGate, hostVars>>

(* Variant: Close does not reach a Write that waits for credit. *)
PumpUnblocksReaders(c) ==
    /\ closed /\ pump[c] \in {"clientInit", "waitGate", "read"}
    /\ Move(c, "ended")
    /\ UNCHANGED <<host, hostCred, stdin, recvQ, left, sendCred, hostQ, gate, waitGate, hostVars, closed>>

(* Read, Write and WaitForReadClearance all return once their Channel closes. *)
PumpUnblocks(c) ==
    /\ closed /\ pump[c] \in {"clientInit", "initWrite", "waitGate", "read", "write"}
    /\ Move(c, "ended")
    /\ UNCHANGED <<host, hostCred, stdin, recvQ, left, sendCred, hostQ, gate, waitGate, hostVars, closed>>

-----------------------------------------------------------------------------
HostFrames == ServerSends \/ BrowserStarts \/ BrowserGoesOn
ReadLoop == DeliverData \/ ReadCredit \/ ReadPause \/ ReadResume
Forward(c) == TakePayload(c) \/ TakeRest(c) \/ Write(c) \/ Grant(c)
Pump(c) == \/ Forward(c) \/ PumpUnblocks(c)
           \/ c = "tcp" /\ (CheckGate \/ GateCloses)
           \/ c = "embed" /\ ReadClientInit

Next ==
    \/ HostFrames \/ HostPauses \/ HostResumes \/ ReadLoop \/ CloseBoth
    \/ \E c \in Channels : HostDrains(c) \/ Pump(c) \/ PumpFails(c)

Spec == Init /\ [][Next]_vars

(* The goroutines run; the host drains what it is sent, ends a message it has *)
(* begun, lifts the backpressure it asked for, and has more from the server.  *)
(* Strong where a write waits for room in the pipe: the host's writers take   *)
(* turns at it.                                                               *)
Fairness ==
    /\ WF_vars(ReadLoop) /\ WF_vars(CloseBoth) /\ SF_vars(HostResumes)
    /\ \A c \in Channels : WF_vars(Pump(c)) /\ SF_vars(HostDrains(c))
    /\ SF_vars(ServerSends) /\ WF_vars(BrowserGoesOn)

LiveSpec == Spec /\ Fairness

-----------------------------------------------------------------------------
(* Properties. *)

TypeOK ==
    /\ host \in Hosts
    /\ hostCred \in [Channels -> 0..MaxCred] /\ sendCred \in [Channels -> Nat]
    /\ hostQ \in [Channels -> Nat] /\ left \in [Channels -> Nat]
    /\ pump \in [Channels -> PumpPlaces]
    /\ recvQ \in [Channels -> Seq(Nat)] /\ \A c \in Channels : Len(recvQ[c]) <= RecvCap
    /\ gate \in Nat /\ waitGate \in Nat /\ pauses \in 0..host.pauses
    /\ msgLeft \in Nat /\ hostPaused \in BOOLEAN /\ closed \in BOOLEAN

(* What the host must keep to for a grant never to exceed the frames it is   *)
(* for: one unit to a frame at most.  Nothing in the plugin makes it.         *)
OneUnitFrames == host.reads \subseteq {1} /\ host.ends \subseteq {1}
WholeMessages == host.further \subseteq {0}

(* credit.go:292-297, dispatch of every frame - while a frame holds one unit  *)
(* at most, the read loop never waits for a pump: the buffer of an open       *)
(* channel has room for every frame the host had credit to send.              *)
ReadLoopNeverWaits ==
    OneUnitFrames /\ stdin # <<>> /\ Head(stdin).kind = "data" => HasRoom(Head(stdin).ch)

(* coupling.go:24-25 - the plugin's credit on a channel, what the host has    *)
(* still to drain and what is on its way back make up the window.             *)
CreditsInStdin(c) == Cardinality({i \in DOMAIN stdin : stdin[i] = Credit(c)})
SendWindowConserved == \A c \in Channels :
    sendCred[c] + hostQ[c] + CreditsInStdin(c) = IF c = "tcp" THEN TcpCredit ELSE EmbedCredit

(* coupling.go:60-67 - the picture never "freezes permanently": while the     *)
(* relay is up, chunks of the server's stream go on reaching the browser.     *)
PictureNeverFreezes == []<>(closed \/ pump["tcp"] = "ended" \/ pump["tcp"] = "grant")

(* The same for a host that puts no more than one unit into a frame.          *)
PictureFlows == OneUnitFrames => PictureNeverFreezes

(* pump.go:262-265 - credit for input is "granted back promptly after each    *)
(* consumed message": a browser that has used its credit up gets more.        *)
InputNeverFreezes == hostCred["embed"] = 0 ~> (hostCred["embed"] > 0 \/ closed)

(* The same for a host that puts exactly one message into a frame.            *)
InputFlows == OneUnitFrames /\ WholeMessages => InputNeverFreezes

(* pump.go:199-205 - when either direction ends the other ends too, whatever  *)
(* it is blocked on: a read, a write without credit, the backpressure gate.   *)
BothPumpsEnd == (\E c \in Channels : pump[c] = "ended") ~> (\A c \in Channels : pump[c] = "ended")
================================================================================
