-------------------------------- MODULE Session --------------------------------
(***************************************************************************)
(* One Session of internal/session, from session.connect to the last       *)
(* goroutine that works for it: orchestrate, one goroutine per relay that   *)
(* StartRelay started (the pump, then ReportRelayEnded with its reconnect   *)
(* loop), and the read loop when session.disconnect arrives.                *)
(*                                                                         *)
(* A step is a critical section of s.mu, a Call with its answer, or a       *)
(* CloseChannel; between two steps every other goroutine may run.           *)
(***************************************************************************)
EXTENDS Integers, FiniteSets

CONSTANTS
    MaxRelays,    \* bound: relays started in one behaviour
    MaxAttempts   \* bound: attempts one run of reconnect makes in its 30 s window

ASSUME SessionAssumption == MaxRelays \in Nat /\ MaxAttempts \in Nat \ {0}

Orchestrate == 0
Relays == 1..MaxRelays
ReadLoop == MaxRelays + 1
Goroutines == 0..(MaxRelays + 1)

States == {"connecting", "ready", "error"}
Nil == 0                                    \* channels are numbered from 1 by the host

VARIABLES
    pc,                        \* where each goroutine is
    tcp, embed,                \* its local channel variables: tcpCh and embedCh, tcp and embed
    attempt,                   \* attempts made in its current run of reconnect
    state, torndown,           \* fields of Session
    tcpChannel, embedChannel,  \* fields of Session
    cleared,                   \* the password buffer has been zeroed
    relays,                    \* relays started so far
    open, opened,              \* channels open that somebody knows; channels ever opened
    lost,                      \* channels open that a recovered panic left to nobody
    hostState,                 \* the last session.updateState on the wire
    hostEnded,                 \* the host has ended the session and sent session.disconnect
    raced                      \* some goroutine was connecting when Teardown took its snapshot

locals == <<tcp, embed, attempt>>
fields == <<state, torndown, tcpChannel, embedChannel, cleared>>
channels == <<open, lost, opened>>
host == <<hostState, hostEnded>>
vars == <<pc, locals, fields, channels, host, relays, raced>>

SetAt == [connecting |-> "setConnecting", ready |-> "setReady", error |-> "setError"]
ReportAt == [connecting |-> "reportConnecting", ready |-> "reportReady", error |-> "reportError"]

(* From the torndown check of an attempt to the assignment of the channels. *)
ConnectingAt == {"setConnecting", "reportConnecting", "closeSnapshot", "closeTcp", "closeEmbed",
                 "openTcp", "openEmbed", "abandonTcp", "assign"}
ConnectedAt == {"register", "startRelay"}
ReportingAt == {"setReady", "reportReady", "setError", "reportError"}
EndedAt == {"ended", "loop", "checkTorndown", "backoff"}
TeardownAt == {"teardown", "clearPassword", "teardownTcp", "teardownEmbed"}
Places == {"idle", "done", "panic", "pump"}
            \cup ConnectingAt \cup ConnectedAt \cup ReportingAt \cup EndedAt \cup TeardownAt

Init ==
    /\ pc = [g \in Goroutines |-> "idle"]
    /\ tcp = [g \in Goroutines |-> Nil] /\ embed = [g \in Goroutines |-> Nil]
    /\ attempt = [g \in Goroutines |-> 0]
    /\ state = "connecting" /\ hostState = "connecting"
    /\ torndown = FALSE /\ cleared = FALSE
    /\ tcpChannel = Nil /\ embedChannel = Nil
    /\ open = {} /\ lost = {} /\ opened = 0 /\ relays = 0
    /\ hostEnded = FALSE /\ raced = FALSE

Goto(g, place) == pc' = [pc EXCEPT ![g] = place]
Step(g, from, to) == pc[g] = from /\ Goto(g, to)

(* handleConnect has stored the session and answered {"accepted":true}. *)
HandleConnect ==
    /\ Step(Orchestrate, "idle", "setConnecting")
    /\ UNCHANGED <<locals, fields, channels, host, relays, raced>>

-----------------------------------------------------------------------------
(* updateState: the field under s.mu, then the Call, not under it. *)

(* Variant: reconnect does not return after it has reported ready. *)
AfterReportLoops(g, st) ==
    CASE st = "connecting" -> IF g = Orchestrate THEN "openTcp" ELSE "closeSnapshot"
      [] st = "ready" -> IF g = Orchestrate THEN "done" ELSE "loop"
      [] st = "error" -> IF g = Orchestrate THEN "done" ELSE "teardown"

AfterReport(g, st) ==
    CASE st = "connecting" -> IF g = Orchestrate THEN "openTcp" ELSE "closeSnapshot"
      [] st = "ready" -> "done"
      [] st = "error" -> IF g = Orchestrate THEN "done" ELSE "teardown"

UpdateStateSet(g) == \E st \in States :
    /\ Step(g, SetAt[st], ReportAt[st])
    /\ state' = st
    /\ UNCHANGED <<locals, torndown, tcpChannel, embedChannel, cleared, channels, host, relays, raced>>

UpdateStateCall(g) == \E st \in States :
    /\ Step(g, ReportAt[st], AfterReport(g, st))
    /\ hostState' = st
    /\ UNCHANGED <<locals, fields, channels, hostEnded, relays, raced>>

-----------------------------------------------------------------------------
(* connectAndRelay, on the orchestrate goroutine or in the reconnect loop.  *)
(* A host that has ended the session opens no more channels for it.         *)

(* Where a failed connectAndRelay returns to. *)
Failed(g) == IF g = Orchestrate THEN "setError" ELSE "backoff"

OpenTcp(g) ==
    /\ Step(g, "openTcp", "openEmbed")
    /\ ~hostEnded
    /\ opened' = opened + 1 /\ open' = open \cup {opened + 1}
    /\ tcp' = [tcp EXCEPT ![g] = opened + 1]
    /\ UNCHANGED <<embed, attempt, fields, lost, host, relays, raced>>

OpenTcpFails(g) ==
    /\ Step(g, "openTcp", Failed(g))
    /\ UNCHANGED <<locals, fields, channels, host, relays, raced>>

OpenEmbed(g) ==
    /\ Step(g, "openEmbed", "assign")
    /\ ~hostEnded
    /\ opened' = opened + 1 /\ open' = open \cup {opened + 1}
    /\ embed' = [embed EXCEPT ![g] = opened + 1]
    /\ UNCHANGED <<tcp, attempt, fields, lost, host, relays, raced>>

(* Variant: the tcp-relay channel is forgotten when embed-stream fails. *)
OpenEmbedFailsLeaky(g) ==
    /\ Step(g, "openEmbed", Failed(g))
    /\ UNCHANGED <<locals, fields, channels, host, relays, raced>>

OpenEmbedFails(g) ==
    /\ Step(g, "openEmbed", "abandonTcp")
    /\ UNCHANGED <<locals, fields, channels, host, relays, raced>>

(* transport.CloseChannel of c, which may be nil *)
Close(g, from, c, to) ==
    /\ Step(g, from, to)
    /\ open' = open \ {c}
    /\ UNCHANGED <<locals, fields, opened, lost, host, relays, raced>>

AbandonTcp(g) == Close(g, "abandonTcp", tcp[g], Failed(g))

(* Variant: the session never learns of its channels. *)
AssignForgotten(g) ==
    /\ Step(g, "assign", "register")
    /\ UNCHANGED <<locals, fields, channels, host, relays, raced>>

Assign(g) ==
    /\ Step(g, "assign", "register")
    /\ tcpChannel' = tcp[g] /\ embedChannel' = embed[g]
    /\ UNCHANGED <<locals, state, torndown, cleared, channels, host, relays, raced>>

RegisterEmbed(g) ==
    /\ pc[g] = "register"
    /\ \/ Goto(g, "startRelay")
       \/ Goto(g, Failed(g))
    /\ UNCHANGED <<locals, fields, channels, host, relays, raced>>

(* Variant: the password is dropped once the first handshake is over. *)
StartRelayForgetting(g) ==
    /\ pc[g] = "startRelay"
    /\ relays < MaxRelays
    /\ cleared' = TRUE
    /\ {tcp[g], embed[g]} \subseteq open
    /\ relays' = relays + 1
    /\ pc' = [pc EXCEPT ![g] = "setReady", ![relays + 1] = "pump"]
    /\ tcp' = [tcp EXCEPT ![relays + 1] = tcp[g]]
    /\ embed' = [embed EXCEPT ![relays + 1] = embed[g]]
    /\ UNCHANGED <<attempt, state, torndown, tcpChannel, embedChannel, channels, host, raced>>

(* StartRelay handshakes on both channels, and starts the relay goroutine.  *)
StartRelay(g) ==
    /\ pc[g] = "startRelay"
    /\ relays < MaxRelays
    /\ {tcp[g], embed[g]} \subseteq open
    /\ relays' = relays + 1
    /\ pc' = [pc EXCEPT ![g] = "setReady", ![relays + 1] = "pump"]
    /\ tcp' = [tcp EXCEPT ![relays + 1] = tcp[g]]
    /\ embed' = [embed EXCEPT ![relays + 1] = embed[g]]
    /\ UNCHANGED <<attempt, fields, channels, host, raced>>

StartRelayFails(g) ==
    /\ Step(g, "startRelay", Failed(g))
    /\ UNCHANGED <<locals, fields, channels, host, relays, raced>>

(* What g has still to close, or to assign to the session. *)
Held(g) == CASE pc[g] \in {"closeTcp", "assign"} -> {tcp[g], embed[g]}
             [] pc[g] \in {"openEmbed", "abandonTcp"} -> {tcp[g]}
             [] pc[g] = "closeEmbed" -> {embed[g]}
             [] OTHER -> {}

(* Anywhere in orchestrate but in updateState, which "never panics itself".   *)
(* Only orchestrate recovers: a panic on a relay goroutine ends the process.  *)
(* The local variables of connectAndRelay are gone, and with them what it     *)
(* had opened and not assigned.                                               *)
PanicAt == {"openTcp", "openEmbed", "abandonTcp", "assign", "register", "startRelay"}
Panic ==
    /\ \E place \in PanicAt : Step(Orchestrate, place, "panic")
    /\ open' = open \ Held(Orchestrate) /\ lost' = lost \cup (open \cap Held(Orchestrate))
    /\ UNCHANGED <<locals, fields, opened, host, relays, raced>>

(* Variant: recovered and logged, but not reported. *)
RecoverSilently ==
    /\ Step(Orchestrate, "panic", "done")
    /\ cleared' = TRUE
    /\ UNCHANGED <<locals, state, torndown, tcpChannel, embedChannel, channels, host, relays, raced>>

Recover ==
    /\ Step(Orchestrate, "panic", "setError")
    /\ cleared' = TRUE
    /\ UNCHANGED <<locals, state, torndown, tcpChannel, embedChannel, channels, host, relays, raced>>

-----------------------------------------------------------------------------
(* The relay goroutine: ReportRelayEnded and reconnect. *)

(* The server closes, a message desynchronises the stream, a channel fails.  *)
PumpEnds(g) ==
    /\ Step(g, "pump", "ended")
    /\ UNCHANGED <<locals, fields, channels, host, relays, raced>>

ReportRelayEnded(g) ==
    /\ Step(g, "ended", IF torndown THEN "done" ELSE "loop")
    /\ UNCHANGED <<locals, fields, channels, host, relays, raced>>

(* Variant: a loop without a deadline. *)
InWindowAlways(g) ==
    /\ Step(g, "loop", "checkTorndown")
    /\ attempt' = [attempt EXCEPT ![g] = @ + 1]
    /\ UNCHANGED <<tcp, embed, fields, channels, host, relays, raced>>

(* The head of the loop: time.Now().Before(deadline). *)
InWindow(g) ==
    /\ Step(g, "loop", "checkTorndown")
    /\ attempt[g] < MaxAttempts
    /\ attempt' = [attempt EXCEPT ![g] = @ + 1]
    /\ UNCHANGED <<tcp, embed, fields, channels, host, relays, raced>>

(* The window outlasts at least one attempt. *)
WindowElapsed(g) ==
    /\ Step(g, "loop", "setError")
    /\ attempt[g] > 0
    /\ UNCHANGED <<locals, fields, channels, host, relays, raced>>

(* torndown makes reconnect return false, and its caller reports the error. *)
CheckTorndown(g) ==
    /\ Step(g, "checkTorndown", IF torndown THEN "setError" ELSE "setConnecting")
    /\ UNCHANGED <<locals, fields, channels, host, relays, raced>>

CloseSnapshot(g) ==
    /\ Step(g, "closeSnapshot", "closeTcp")
    /\ tcp' = [tcp EXCEPT ![g] = tcpChannel] /\ embed' = [embed EXCEPT ![g] = embedChannel]
    /\ tcpChannel' = Nil /\ embedChannel' = Nil
    /\ UNCHANGED <<attempt, state, torndown, cleared, channels, host, relays, raced>>

CloseTcp(g) == Close(g, "closeTcp", tcp[g], "closeEmbed")
CloseEmbed(g) == Close(g, "closeEmbed", embed[g], "openTcp")

Backoff(g) ==
    /\ Step(g, "backoff", "loop")
    /\ UNCHANGED <<locals, fields, channels, host, relays, raced>>

-----------------------------------------------------------------------------
(* Teardown, on the read loop for session.disconnect or at the end of       *)
(* ReportRelayEnded.                                                        *)

HostDisconnect ==
    /\ pc[Orchestrate] # "idle" /\ ~hostEnded
    /\ hostEnded' = TRUE
    /\ UNCHANGED <<pc, locals, fields, channels, hostState, relays, raced>>

HandleDisconnect ==
    /\ hostEnded /\ Step(ReadLoop, "idle", "teardown")
    /\ UNCHANGED <<locals, fields, channels, host, relays, raced>>

TeardownAgain(g) ==
    /\ torndown /\ Step(g, "teardown", "done")
    /\ UNCHANGED <<locals, fields, channels, host, relays, raced>>

TeardownFirst(g) ==
    /\ ~torndown /\ Step(g, "teardown", "clearPassword")
    /\ torndown' = TRUE
    /\ tcp' = [tcp EXCEPT ![g] = tcpChannel] /\ embed' = [embed EXCEPT ![g] = embedChannel]
    /\ raced' = \E w \in Goroutines : pc[w] \in ConnectingAt
    /\ UNCHANGED <<attempt, state, tcpChannel, embedChannel, cleared, channels, host, relays>>

ClearPassword(g) ==
    /\ Step(g, "clearPassword", "teardownTcp")
    /\ cleared' = TRUE
    /\ UNCHANGED <<locals, state, torndown, tcpChannel, embedChannel, channels, host, relays, raced>>

(* Variant: the tcp-relay channel is left to the host. *)
TeardownTcpSkipped(g) == Close(g, "teardownTcp", Nil, "teardownEmbed")
TeardownTcp(g) == Close(g, "teardownTcp", tcp[g], "teardownEmbed")
TeardownEmbed(g) == Close(g, "teardownEmbed", embed[g], "done")

-----------------------------------------------------------------------------
UpdateState(g) == UpdateStateSet(g) \/ UpdateStateCall(g)

ConnectAndRelay(g) ==
    \/ OpenTcp(g) \/ OpenTcpFails(g) \/ OpenEmbed(g) \/ OpenEmbedFails(g) \/ AbandonTcp(g)
    \/ Assign(g) \/ RegisterEmbed(g) \/ StartRelay(g) \/ StartRelayFails(g)

Reconnect(g) ==
    \/ ReportRelayEnded(g) \/ InWindow(g) \/ WindowElapsed(g) \/ CheckTorndown(g)
    \/ CloseSnapshot(g) \/ CloseTcp(g) \/ CloseEmbed(g) \/ Backoff(g)

Teardown(g) ==
    TeardownAgain(g) \/ TeardownFirst(g) \/ ClearPassword(g) \/ TeardownTcp(g) \/ TeardownEmbed(g)

Run(g) == UpdateState(g) \/ ConnectAndRelay(g) \/ Reconnect(g) \/ Teardown(g)

Next ==
    \/ HandleConnect \/ Panic \/ Recover \/ HostDisconnect \/ HandleDisconnect
    \/ \E g \in Goroutines : Run(g)
    \/ \E g \in Relays : PumpEnds(g)

Spec == Init /\ [][Next]_vars

(* Every Call is answered or times out after 30 s, the handshakes have a     *)
(* deadline of 15 s, the backoff is a timer, the read loop reads on; a pump  *)
(* ends when one of its channels has been closed under it.                   *)
Fairness ==
    /\ \A g \in Goroutines : WF_vars(Run(g))
    /\ WF_vars(Recover) /\ WF_vars(HandleDisconnect)
    /\ \A g \in Relays : WF_vars(PumpEnds(g) /\ ~({tcp[g], embed[g]} \subseteq open))

LiveSpec == Spec /\ Fairness

-----------------------------------------------------------------------------
(* Properties. *)

TypeOK ==
    /\ pc \in [Goroutines -> Places]
    /\ tcp \in [Goroutines -> Nat] /\ embed \in [Goroutines -> Nat]
    /\ attempt \in [Goroutines -> 0..MaxAttempts]
    /\ state \in States /\ hostState \in States
    /\ tcpChannel \in Nat /\ embedChannel \in Nat
    /\ opened \in Nat /\ open \cup lost \subseteq 1..opened
    /\ relays \in 0..MaxRelays
    /\ torndown \in BOOLEAN /\ cleared \in BOOLEAN /\ hostEnded \in BOOLEAN /\ raced \in BOOLEAN

(* reconnect.go:25-27 - "so there is no recursion": at any moment one         *)
(* goroutine at most drives the session, from its first connect through the   *)
(* pump to the last attempt; a second one is at most reporting the success    *)
(* that made it hand over.  So no two connect attempts or pumps overlap.      *)
DrivingAt == {"panic", "pump"} \cup ConnectingAt \cup ConnectedAt \cup EndedAt
Driving == {g \in Goroutines : pc[g] \in DrivingAt}
OneDriver == \A g, h \in Driving : g = h

(* reconnect.go:64-80, lifecycle.go:202-206 - until Teardown, an open channel *)
(* is the session's, or is held by the goroutine that is about to assign or   *)
(* close it: no failed attempt leaves a channel that nobody will close.  What *)
(* a panic leaves to nobody is out of open, in lost.                          *)
NoOrphanWhileAlive ==
    ~torndown => \A c \in open : c \in {tcpChannel, embedChannel} \/ \E g \in Driving : c \in Held(g)

(* teardown.go:42-71 - when Teardown and every other goroutine have come to   *)
(* rest, no channel is open but one lost to a panic, except when Teardown met *)
(* a connect attempt that had not assigned its channels yet.                  *)
AtRest == \A g \in Goroutines : pc[g] \in {"idle", "done", "pump"}
TeardownClosesUnlessRaced == torndown /\ ~raced /\ AtRest => open = {}

(* teardown.go:115-123, lifecycle.go:149-158 - a handshake that starts while  *)
(* the session is alive, the tenth reconnect included, finds the password.    *)
HandshakeHasPassword ==
    \A g \in Goroutines : pc[g] = "startRelay" /\ ~torndown => ~cleared

(* lifecycle.go:144-147 - the tab never hangs in "connecting" forever: the    *)
(* host hears ready or error, or the session is torn down.                    *)
TabLeavesConnecting == (hostState = "connecting" /\ pc[Orchestrate] # "idle")
                            ~> (hostState # "connecting" \/ torndown)

(* reconnect.go:27 - "torndown, which stops the loop": after Teardown every   *)
(* goroutine of the session ends, unless it raced with a connect attempt.     *)
TeardownStopsAll == torndown ~> (raced \/ \A g \in Goroutines : pc[g] \in {"idle", "done"})

(* teardown.go:11-13 - Teardown is "safe to call ... concurrently with        *)
(* orchestrate() still running".                                              *)
TeardownClosesAll == torndown /\ AtRest => open = {}

(* teardown.go:85-89 - "a clean, user-initiated disconnect must never be      *)
(* retroactively reported as a relay error": no relay goroutine turns to      *)
(* reporting an error once Teardown has begun.                                *)
NoErrorAfterTeardown ==
    [][\A g \in Relays : pc[g] # "setError" /\ pc'[g] = "setError" => ~torndown]_vars
================================================================================
