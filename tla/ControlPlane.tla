------------------------------ MODULE ControlPlane ------------------------------
(***************************************************************************)
(* The process between the host's pipe and its channels: main's read loop  *)
(* with the Dispatcher and the router, the RPC client of ipc/client.go, the *)
(* lifecycle handler, and the Registry of transport/credit.go, while        *)
(* goroutines open and close channels (transport/open.go).                  *)
(*                                                                         *)
(* A call here is a channel.open: the other calls take the same path and    *)
(* register nothing.  A data frame stands for every frame of a channel; its *)
(* buffer has room (Relay is about when it has none).  Notifications that   *)
(* change nothing here, and what the session does with its own, are left    *)
(* out.                                                                     *)
(***************************************************************************)
EXTENDS Integers, Sequences, FiniteSets

CONSTANTS
    Callers,    \* goroutines that open channels, one at a time each
    MaxCalls,   \* bound: calls made in one behaviour, and channels opened
    MaxFrames,  \* bound: data frames the host sends on one channel
    MaxAsks,    \* bound: requests the host sends
    MaxPipe     \* bound: frames on stdin, written and not read

ASSUME ControlPlaneAssumption ==
    /\ IsFiniteSet(Callers) /\ MaxCalls \in Nat
    /\ MaxFrames \in Nat /\ MaxAsks \in Nat /\ MaxPipe \in Nat

VARIABLES
    idSeq, pending,          \* Client: ids used; id -> the caller whose response channel it is
    pc, call, answer, chan,  \* a caller: place, id, buffered response, channel it has been given
    registered, gen, closed, \* Registry: ids, times `registered` was replaced; channels closed here
    loop, frame, seen,       \* the read loop: place, channel of the frame in hand, gen it waits on
    stdin,                   \* frames the host has written
    asked, closing,          \* requests and channel.close notifications on their way to the host
    owner,                   \* the call each channel was allocated for
    hostOpen, hostGone,      \* channels the host holds open; the host has closed its pipes
    asks, answered,          \* requests the host sent, responses it got
    sent, got,               \* per channel, data frames sent by the host, delivered to the channel
    gaveUp                   \* history: ids of calls that timed out

client == <<idSeq, pending, pc, call, answer, chan, gaveUp>>
registry == <<registered, gen, closed>>
reader == <<loop, frame, seen>>
hostSide == <<asked, closing, owner, hostOpen, hostGone, asks, sent>>
replies == <<answered, got>>
vars == <<client, registry, reader, hostSide, replies, stdin>>

Unanswered == -1
Refused == 0                  \* an error response; channels are numbered from 1
Ids == 1..MaxCalls
Chans == 1..MaxCalls

InCall == {"sending", "waiting", "returning"}     \* Call has not run its deferred delete
Holding == {"register", "open", "notify"}         \* OpenChannel has the channel's id
Exited == {"exit0", "exit1"}

Response(id, ch) == [kind |-> "response", id |-> id, chan |-> ch]
Data(ch) == [kind |-> "data", chan |-> ch]
Request(m) == [kind |-> "request", method |-> m]
Broken == [kind |-> "broken"]
Frames == {Response(id, ch) : id \in Ids, ch \in Chans \cup {Refused}}
            \cup {Data(ch) : ch \in Chans} \cup {Request(m) : m \in {"ping", "shutdown"}} \cup {Broken}

Init ==
    /\ idSeq = 0 /\ pending = [i \in {} |-> 0]
    /\ pc = [c \in Callers |-> "idle"] /\ call = [c \in Callers |-> 0]
    /\ answer = [c \in Callers |-> Unanswered] /\ chan = [c \in Callers |-> Refused]
    /\ registered = {} /\ gen = 0 /\ closed = {}
    /\ loop = "decode" /\ frame = 0 /\ seen = 0
    /\ stdin = <<>> /\ asked = {} /\ closing = {}
    /\ owner = <<>> /\ hostOpen = {} /\ hostGone = FALSE
    /\ asks = 0 /\ answered = 0
    /\ sent = [ch \in Chans |-> 0] /\ got = [ch \in Chans |-> 0]
    /\ gaveUp = {}

Running == loop \notin Exited
Step(c, from, to) == Running /\ pc[c] = from /\ pc' = [pc EXCEPT ![c] = to]
Write(f) == ~hostGone /\ Running /\ Len(stdin) < MaxPipe /\ stdin' = Append(stdin, f)

-----------------------------------------------------------------------------
(* Client.Call, on the goroutine that runs OpenChannel *)

(* Variant: the id is the number of calls outstanding. *)
NextIDReused == Cardinality(DOMAIN pending) + 1

NextID == idSeq + 1

CallStart(c) ==
    /\ Step(c, "idle", "sending")
    /\ idSeq < MaxCalls /\ idSeq' = idSeq + 1
    /\ call' = [call EXCEPT ![c] = NextID]
    /\ answer' = [answer EXCEPT ![c] = Unanswered]
    /\ pending' = [i \in DOMAIN pending \cup {NextID} |-> IF i = NextID THEN c ELSE pending[i]]
    /\ UNCHANGED <<chan, gaveUp, registry, reader, hostSide, replies, stdin>>

CallSend(c) ==
    /\ Step(c, "sending", "waiting")
    /\ ~hostGone
    /\ asked' = asked \cup {[id |-> call[c], by |-> c]}
    /\ UNCHANGED <<idSeq, pending, call, answer, chan, gaveUp, registry, reader, replies, stdin,
                   closing, owner, hostOpen, hostGone, asks, sent>>

CallSendFails(c) ==
    /\ Step(c, "sending", "returning")
    /\ hostGone
    /\ UNCHANGED <<idSeq, pending, call, answer, chan, gaveUp, registry, reader, hostSide, replies, stdin>>

(* Two cases of one select: both may be ready. *)
CallAnswered(c) ==
    /\ Step(c, "waiting", "returning")
    /\ answer[c] # Unanswered /\ chan' = [chan EXCEPT ![c] = answer[c]]
    /\ UNCHANGED <<idSeq, pending, call, answer, gaveUp, registry, reader, hostSide, replies, stdin>>

CallTimesOut(c) ==
    /\ Step(c, "waiting", "returning")
    /\ gaveUp' = gaveUp \cup {call[c]}
    /\ UNCHANGED <<idSeq, pending, call, answer, chan, registry, reader, hostSide, replies, stdin>>

Forget(id) == pending' = [i \in DOMAIN pending \ {id} |-> pending[i]]
AfterCall(c) == IF chan[c] = Refused THEN "idle" ELSE "register"

(* Variant: only a call that succeeded removes its entry. *)
CallReturnsLeaky(c) ==
    /\ Step(c, "returning", AfterCall(c))
    /\ IF chan[c] = Refused THEN UNCHANGED pending ELSE Forget(call[c])
    /\ UNCHANGED <<idSeq, call, answer, chan, gaveUp, registry, reader, hostSide, replies, stdin>>

(* Variant: OpenChannel goes on after an error. *)
CallReturnsUnchecked(c) ==
    /\ Step(c, "returning", "register")
    /\ Forget(call[c])
    /\ UNCHANGED <<idSeq, call, answer, chan, gaveUp, registry, reader, hostSide, replies, stdin>>

CallReturns(c) ==
    /\ Step(c, "returning", AfterCall(c))
    /\ Forget(call[c])
    /\ answer' = [answer EXCEPT ![c] = Unanswered]
    /\ UNCHANGED <<idSeq, call, chan, gaveUp, registry, reader, hostSide, replies, stdin>>

(* Variant: a waiting read loop is not told. *)
RegisterSilently(c) ==
    /\ Step(c, "register", "open")
    /\ registered' = registered \cup {chan[c]}
    /\ UNCHANGED <<idSeq, pending, call, answer, chan, gaveUp, gen, closed, reader, hostSide, replies, stdin>>

Register(c) ==
    /\ Step(c, "register", "open")
    /\ registered' = registered \cup {chan[c]} /\ gen' = gen + 1
    /\ UNCHANGED <<idSeq, pending, call, answer, chan, gaveUp, closed, reader, hostSide, replies, stdin>>

(* CloseChannel closes here first and tells the host after it. *)
CloseLocally(c) ==
    /\ Step(c, "open", "notify")
    /\ closed' = closed \cup {chan[c]}
    /\ UNCHANGED <<idSeq, pending, call, answer, chan, gaveUp, registered, gen, reader, hostSide, replies, stdin>>

(* Variant: the host is not told. *)
NotifyForgotten(c) ==
    /\ Step(c, "notify", "idle")
    /\ chan' = [chan EXCEPT ![c] = Refused]
    /\ UNCHANGED <<idSeq, pending, call, answer, gaveUp, registry, reader, hostSide, replies, stdin>>

(* Notify: no answer is awaited; when it fails, CloseChannel is done all the same. *)
Notify(ch) == closing' = IF hostGone THEN closing ELSE closing \cup {ch}

NotifyClose(c) ==
    /\ Step(c, "notify", "idle")
    /\ chan' = [chan EXCEPT ![c] = Refused]
    /\ Notify(chan[c])
    /\ UNCHANGED <<idSeq, pending, call, answer, gaveUp, registry, reader, replies, stdin,
                   asked, owner, hostOpen, hostGone, asks, sent>>

-----------------------------------------------------------------------------
(* The read loop of main: Decode, Dispatch, and the handlers it calls itself *)

Read(f) == loop = "decode" /\ stdin # <<>> /\ f = Head(stdin) /\ stdin' = Tail(stdin)

(* Client.Deliver: the caller still pending under this id, its buffer of one free *)
Awaited(f) == f.id \in DOMAIN pending /\ answer[pending[f.id]] = Unanswered

Deliver(f) == answer' = IF Awaited(f) THEN [answer EXCEPT ![pending[f.id]] = f.chan] ELSE answer

ReadResponse == \E f \in Frames :
    /\ Read(f) /\ f.kind = "response"
    /\ Deliver(f)
    /\ UNCHANGED <<idSeq, pending, pc, call, chan, gaveUp, registry, reader, hostSide, replies>>

(* lifecycle.Handler answers before it closes `shutdown`, which main looks at after Dispatch; *)
(* "ping" is every other request, the ones no handler knows included.                       *)
Respond == IF hostGone THEN UNCHANGED answered ELSE answered' = answered + 1
AfterDispatch(m) == IF hostGone THEN "exit1" ELSE IF m = "shutdown" THEN "exit0" ELSE "decode"

ReadRequest == \E f \in Frames :
    /\ Read(f) /\ f.kind = "request"
    /\ Respond /\ loop' = AfterDispatch(f.method)
    /\ UNCHANGED <<client, registry, frame, seen, hostSide, got>>

ReadData == \E f \in Frames :
    /\ Read(f) /\ f.kind = "data"
    /\ loop' = "lookup" /\ frame' = f.chan
    /\ UNCHANGED <<client, registry, seen, hostSide, replies>>

(* A ProtocolViolationError of Decode, Dispatch or HandleChannelFrame, or no JSON-RPC. *)
ReadBroken ==
    /\ Read(Broken) /\ loop' = "exit1"
    /\ UNCHANGED <<client, registry, frame, seen, hostSide, replies>>

(* The host may have gone between two frames or inside one. *)
ReadEOF ==
    /\ loop = "decode" /\ stdin = <<>> /\ hostGone
    /\ loop' \in Exited
    /\ UNCHANGED <<client, registry, frame, seen, hostSide, replies, stdin>>

(* Registry.awaitChannel: look up and remember the broadcast channel under one lock. *)
RouteFrame ==
    /\ loop = "lookup" /\ frame \in registered
    /\ loop' = "decode" /\ frame' = 0
    /\ got' = IF frame \in closed THEN got ELSE [got EXCEPT ![frame] = @ + 1]
    /\ UNCHANGED <<client, registry, seen, hostSide, answered, stdin>>

(* Variant: a frame of a channel not yet registered is dropped. *)
AwaitDropped ==
    /\ loop = "lookup" /\ frame \notin registered
    /\ loop' = "decode" /\ frame' = 0
    /\ UNCHANGED <<client, registry, seen, hostSide, replies, stdin>>

Await ==
    /\ loop = "lookup" /\ frame \notin registered
    /\ loop' = "await" /\ seen' = gen
    /\ UNCHANGED <<client, registry, frame, hostSide, replies, stdin>>

AwaitWakes ==
    /\ loop = "await" /\ gen # seen
    /\ loop' = "lookup"
    /\ UNCHANGED <<client, registry, frame, seen, hostSide, replies, stdin>>

(* Some goroutine of the plugin has been given channel ch and is about to register it. *)
Arriving(ch) == \E c \in Callers :
    \/ pc[c] = "waiting" /\ answer[c] = ch
    \/ pc[c] \in {"returning", "register"} /\ chan[c] = ch

(* Variant: the wait has no time-out. *)
GraceNever == FALSE /\ UNCHANGED vars

(* The 2 s are longer than what a runnable goroutine needs to take its next steps. *)
GraceExpires ==
    /\ loop = "await" /\ gen = seen /\ ~Arriving(frame)
    /\ loop' = "exit1"
    /\ UNCHANGED <<client, registry, frame, seen, hostSide, replies, stdin>>

-----------------------------------------------------------------------------
(* The host answers in any order, allocates channel ids from a counter, and may *)
(* send on a channel from the moment it has written the response.               *)

HostOpens == \E r \in asked :
    /\ Len(owner) < MaxCalls
    /\ Write(Response(r.id, Len(owner) + 1))
    /\ asked' = asked \ {r}
    /\ owner' = Append(owner, r)
    /\ hostOpen' = hostOpen \cup {Len(owner) + 1}
    /\ UNCHANGED <<client, registry, reader, replies, closing, hostGone, asks, sent>>

HostRefuses == \E r \in asked :
    /\ Write(Response(r.id, Refused))
    /\ asked' = asked \ {r}
    /\ UNCHANGED <<client, registry, reader, replies, closing, owner, hostOpen, hostGone, asks, sent>>

HostSends == \E ch \in hostOpen :
    /\ Write(Data(ch))
    /\ sent[ch] < MaxFrames
    /\ sent' = [sent EXCEPT ![ch] = @ + 1]
    /\ UNCHANGED <<client, registry, reader, replies, asked, closing, owner, hostOpen, hostGone, asks>>

HostAsks == \E m \in {"ping", "shutdown"} :
    /\ Write(Request(m))
    /\ asks < MaxAsks /\ asks' = asks + 1
    /\ UNCHANGED <<client, registry, reader, replies, asked, closing, owner, hostOpen, hostGone, sent>>

HostBreaks ==
    /\ Write(Broken)
    /\ UNCHANGED <<client, registry, reader, replies, hostSide>>

HostCloses == \E ch \in closing :
    /\ Running /\ ~hostGone
    /\ closing' = closing \ {ch} /\ hostOpen' = hostOpen \ {ch}
    /\ UNCHANGED <<client, registry, reader, replies, asked, owner, hostGone, asks, sent, stdin>>

HostGoes ==
    /\ Running /\ ~hostGone /\ hostGone' = TRUE
    /\ UNCHANGED <<client, registry, reader, replies, asked, closing, owner, hostOpen, asks, sent, stdin>>

CallSteps(c) == CallSend(c) \/ CallSendFails(c) \/ CallAnswered(c) \/ CallTimesOut(c) \/ CallReturns(c)
OpenSteps(c) == CallStart(c) \/ Register(c) \/ CloseLocally(c) \/ NotifyClose(c)
LoopSteps == ReadResponse \/ ReadRequest \/ ReadData \/ ReadBroken \/ ReadEOF
                \/ RouteFrame \/ Await \/ AwaitWakes \/ GraceExpires
HostSteps == HostOpens \/ HostRefuses \/ HostSends \/ HostAsks \/ HostBreaks \/ HostCloses \/ HostGoes

Next == (\E c \in Callers : CallSteps(c) \/ OpenSteps(c)) \/ LoopSteps \/ HostSteps

Spec == Init /\ [][Next]_vars

(* The scheduler runs what can run, and every timer fires; nobody has to open or close   *)
(* a channel, and the host owes nothing.                                               *)
Fairness == WF_vars(LoopSteps) /\ \A c \in Callers : WF_vars(CallSteps(c)) /\ WF_vars(Register(c))

LiveSpec == Spec /\ Fairness

-----------------------------------------------------------------------------
(* State of the right shape; only channels the host has allocated are registered or closed. *)
TypeOK ==
    /\ idSeq \in 0..MaxCalls
    /\ DOMAIN pending \subseteq Ids /\ \A i \in DOMAIN pending : pending[i] \in Callers
    /\ pc \in [Callers -> InCall \cup Holding \cup {"idle"}]
    /\ call \in [Callers -> Ids \cup {0}]
    /\ answer \in [Callers -> Chans \cup {Refused, Unanswered}]
    /\ chan \in [Callers -> Chans \cup {Refused}]
    /\ registered \subseteq Chans /\ closed \subseteq registered
    /\ gen \in Nat /\ seen \in Nat
    /\ loop \in {"decode", "lookup", "await"} \cup Exited
    /\ frame \in Chans \cup {0}
    /\ stdin \in Seq(Frames)
    /\ asked \subseteq [id : Ids, by : Callers] /\ owner \in Seq([id : Ids, by : Callers])
    /\ closing \subseteq Chans /\ hostOpen \subseteq Chans /\ hostGone \in BOOLEAN
    /\ asks \in 0..MaxAsks /\ answered \in Nat
    /\ sent \in [Chans -> 0..MaxFrames] /\ got \in [Chans -> Nat]
    /\ gaveUp \subseteq Ids

(* A goroutine that Call gives a channel holds the one the host allocated for its own call, *)
(* and nobody else's: responses come late, in any order, after calls that timed out.        *)
AnswerReachesItsCaller == \A c \in Callers :
    chan[c] # Refused => chan[c] \in 1..Len(owner) /\ owner[chan[c]] = [id |-> call[c], by |-> c]

(* The deferred delete of Call: the pending map holds the calls under way, each under its   *)
(* own caller, and nothing else, whichever way they end.                                   *)
PendingIsUnderWay ==
    /\ DOMAIN pending = {call[c] : c \in {d \in Callers : pc[d] \in InCall}}
    /\ \A c \in Callers : pc[c] \in InCall => pending[call[c]] = c

InHand(ch) == IF frame = ch THEN 1 ELSE 0
OnStdin(ch) == Cardinality({i \in DOMAIN stdin : stdin[i] = Data(ch)})

(* No frame of a channel is lost, the first one included, which the host may send before    *)
(* Register has run, until the plugin closes that channel itself.                           *)
EveryFrameArrives == \A ch \in Chans \ closed : sent[ch] = got[ch] + InHand(ch) + OnStdin(ch)

(* HandleChannelFrame reports a channel as not open, which ends the process, only when the   *)
(* call that opened it had timed out: never for one that is merely slow to be registered.    *)
KilledOnlyAfterTimeout == loop = "exit1" /\ frame # 0 => owner[frame].id \in gaveUp

OnItsWay(ch) ==
    \/ \E c \in Callers : chan[c] = ch \/ (pc[c] = "waiting" /\ answer[c] = ch)
    \/ \E i \in DOMAIN stdin : stdin[i].kind = "response" /\ stdin[i].chan = ch

(* A channel the host holds open is held by some goroutine or its response is on the way,    *)
(* until channel.close is under way for it; only a call that timed out can leak one.         *)
NoSilentLeak == \A ch \in hostOpen :
    OnItsWay(ch) \/ ch \in closing \/ hostGone \/ owner[ch].id \in gaveUp

(* client.go:139-142: a response that comes after its call has timed out is "a harmless drop, *)
(* not a protocol violation".  The process must not end for a channel the host did open.      *)
LateAnswerHarmless == ~(loop = "exit1" /\ frame # 0)

(* Every request the host sends is answered or the process ends, though the one read loop    *)
(* stops for channels that nobody will ever register.                                       *)
RequestsAnswered == asks > answered ~> (asks = answered \/ ~Running)
================================================================================
