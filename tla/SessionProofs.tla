----------------------------- MODULE SessionProofs -----------------------------
(***************************************************************************)
(* What Session keeps for any number of relays and reconnect attempts: its *)
(* types, that one goroutine at a time drives the session, that until      *)
(* Teardown somebody is left to close every open channel, that a handshake *)
(* finds the password, and that Teardown, unless it raced, closes all.     *)
(***************************************************************************)
EXTENDS Session, TLAPS

USE SessionAssumption

-----------------------------------------------------------------------------
(* Types. *)

LEMMA GoroutineNumbers ==
    /\ Orchestrate \in Goroutines /\ ReadLoop \in Goroutines
    /\ \A g \in Relays : g \in Goroutines /\ g # Orchestrate
    /\ \A n \in Nat : n < MaxRelays => n + 1 \in Relays
BY DEF Orchestrate, ReadLoop, Goroutines, Relays

(* A step of one goroutine to a place that exists. *)
LEMMA StepType ==
    ASSUME TypeOK, NEW g \in Goroutines, NEW from, NEW to \in Places, Step(g, from, to)
    PROVE  pc' \in [Goroutines -> Places]
BY DEF TypeOK, Step, Goto

LEMMA PlacesExist ==
    /\ "idle" \in Places /\ "done" \in Places /\ "panic" \in Places /\ "pump" \in Places
    /\ ConnectingAt \subseteq Places /\ ConnectedAt \subseteq Places /\ ReportingAt \subseteq Places
    /\ EndedAt \subseteq Places /\ TeardownAt \subseteq Places
BY DEF Places

LEMMA UpdateStateType ==
    ASSUME TypeOK, NEW g \in Goroutines, UpdateState(g)
    PROVE  TypeOK'
<1>1. CASE UpdateStateSet(g)
  <2>1. PICK st \in States : Step(g, SetAt[st], ReportAt[st]) /\ state' = st
    BY <1>1 DEF UpdateStateSet
  <2>2. ReportAt[st] \in Places
    BY PlacesExist DEF States, ReportAt, ConnectingAt, ReportingAt
  <2>3. pc' \in [Goroutines -> Places]
    BY <2>1, <2>2, StepType
  <2>4. QED
    BY <1>1, <2>1, <2>3 DEF UpdateStateSet, TypeOK, locals, channels, host
<1>2. CASE UpdateStateCall(g)
  <2>1. PICK st \in States : Step(g, ReportAt[st], AfterReport(g, st)) /\ hostState' = st
    BY <1>2 DEF UpdateStateCall
  <2>2. AfterReport(g, st) \in Places
    BY PlacesExist DEF States, AfterReport, ConnectingAt, TeardownAt
  <2>3. pc' \in [Goroutines -> Places]
    BY <2>1, <2>2, StepType
  <2>4. QED
    BY <1>2, <2>1, <2>3 DEF UpdateStateCall, TypeOK, locals, fields, channels
<1>3. QED
  BY <1>1, <1>2 DEF UpdateState

LEMMA FailedExists == \A g \in Goroutines : Failed(g) \in Places
BY PlacesExist DEF Failed, ReportingAt, EndedAt

(* Every Close of a channel, wherever it is called. *)
LEMMA CloseTypeOK ==
    ASSUME TypeOK, NEW g \in Goroutines, NEW from, NEW c, NEW to \in Places, Close(g, from, c, to)
    PROVE  TypeOK'
<1>1. pc' \in [Goroutines -> Places]
  BY StepType DEF Close
<1>2. QED
  BY <1>1 DEF Close, TypeOK, locals, fields, host

LEMMA ConnectAndRelayType ==
    ASSUME TypeOK, NEW g \in Goroutines, ConnectAndRelay(g)
    PROVE  TypeOK'
<1> USE PlacesExist, FailedExists DEF ConnectingAt, ConnectedAt, ReportingAt
<1>1. CASE OpenTcp(g)
  <2>1. pc' \in [Goroutines -> Places]
    BY <1>1, StepType DEF OpenTcp
  <2>2. opened' \in Nat /\ open' \cup lost' \subseteq 1..opened' /\ tcp' \in [Goroutines -> Nat]
    BY <1>1 DEF OpenTcp, TypeOK
  <2>3. QED
    BY <1>1, <2>1, <2>2 DEF OpenTcp, TypeOK, fields, host
<1>2. CASE OpenEmbed(g)
  <2>1. pc' \in [Goroutines -> Places]
    BY <1>2, StepType DEF OpenEmbed
  <2>2. opened' \in Nat /\ open' \cup lost' \subseteq 1..opened' /\ embed' \in [Goroutines -> Nat]
    BY <1>2 DEF OpenEmbed, TypeOK
  <2>3. QED
    BY <1>2, <2>1, <2>2 DEF OpenEmbed, TypeOK, fields, host
<1>3. CASE OpenTcpFails(g) \/ OpenEmbedFails(g) \/ StartRelayFails(g)
  <2>1. pc' \in [Goroutines -> Places]
    BY <1>3, StepType DEF OpenTcpFails, OpenEmbedFails, StartRelayFails
  <2>2. QED
    BY <1>3, <2>1 DEF OpenTcpFails, OpenEmbedFails, StartRelayFails, TypeOK, locals, fields, channels, host
<1>4. CASE AbandonTcp(g)
  BY <1>4, CloseTypeOK DEF AbandonTcp
<1>5. CASE Assign(g)
  <2>1. pc' \in [Goroutines -> Places]
    BY <1>5, StepType DEF Assign
  <2>2. QED
    BY <1>5, <2>1 DEF Assign, TypeOK, locals, channels, host
<1>6. CASE RegisterEmbed(g)
  <2>1. pc' \in [Goroutines -> Places]
    BY <1>6 DEF RegisterEmbed, Goto, TypeOK
  <2>2. QED
    BY <1>6, <2>1 DEF RegisterEmbed, TypeOK, locals, fields, channels, host
<1>7. CASE StartRelay(g)
  <2>1. relays + 1 \in Relays /\ relays' = relays + 1
    BY <1>7, GoroutineNumbers DEF StartRelay, TypeOK
  <2>2. pc' \in [Goroutines -> Places]
    BY <1>7 DEF StartRelay, TypeOK
  <2>3. tcp' \in [Goroutines -> Nat] /\ embed' \in [Goroutines -> Nat]
    BY <1>7 DEF StartRelay, TypeOK
  <2>4. relays' \in 0..MaxRelays
    BY <2>1 DEF Relays
  <2>5. QED
    BY <1>7, <2>2, <2>3, <2>4 DEF StartRelay, TypeOK, fields, channels, host
<1>8. QED
  BY <1>1, <1>2, <1>3, <1>4, <1>5, <1>6, <1>7 DEF ConnectAndRelay

LEMMA ReconnectType ==
    ASSUME TypeOK, NEW g \in Goroutines, Reconnect(g)
    PROVE  TypeOK'
<1> USE PlacesExist DEF EndedAt, ConnectingAt, ReportingAt
<1>1. CASE ReportRelayEnded(g) \/ WindowElapsed(g) \/ CheckTorndown(g) \/ Backoff(g)
  <2>1. pc' \in [Goroutines -> Places]
    BY <1>1, StepType DEF ReportRelayEnded, WindowElapsed, CheckTorndown, Backoff
  <2>2. QED
    BY <1>1, <2>1 DEF ReportRelayEnded, WindowElapsed, CheckTorndown, Backoff, TypeOK, locals, fields, channels, host
<1>2. CASE InWindow(g)
  <2>1. pc' \in [Goroutines -> Places]
    BY <1>2, StepType DEF InWindow
  <2>2. attempt' \in [Goroutines -> 0..MaxAttempts]
    BY <1>2 DEF InWindow, TypeOK
  <2>3. QED
    BY <1>2, <2>1, <2>2 DEF InWindow, TypeOK, fields, channels, host
<1>3. CASE CloseSnapshot(g)
  <2>1. pc' \in [Goroutines -> Places]
    BY <1>3, StepType DEF CloseSnapshot
  <2>2. QED
    BY <1>3, <2>1 DEF CloseSnapshot, TypeOK, channels, host, Nil
<1>4. CASE CloseTcp(g) \/ CloseEmbed(g)
  BY <1>4, CloseTypeOK DEF CloseTcp, CloseEmbed
<1>5. QED
  BY <1>1, <1>2, <1>3, <1>4 DEF Reconnect

LEMMA TeardownType ==
    ASSUME TypeOK, NEW g \in Goroutines, Teardown(g)
    PROVE  TypeOK'
<1> USE PlacesExist DEF TeardownAt
<1>1. CASE TeardownAgain(g)
  <2>1. pc' \in [Goroutines -> Places]
    BY <1>1, StepType DEF TeardownAgain
  <2>2. QED
    BY <1>1, <2>1 DEF TeardownAgain, TypeOK, locals, fields, channels, host
<1>2. CASE TeardownFirst(g)
  <2>1. pc' \in [Goroutines -> Places]
    BY <1>2, StepType DEF TeardownFirst
  <2>2. tcp' \in [Goroutines -> Nat] /\ embed' \in [Goroutines -> Nat]
    BY <1>2 DEF TeardownFirst, TypeOK
  <2>3. raced' \in BOOLEAN
    BY <1>2, Zenon DEF TeardownFirst
  <2>4. QED
    BY <1>2, <2>1, <2>2, <2>3 DEF TeardownFirst, TypeOK, channels, host
<1>3. CASE ClearPassword(g)
  <2>1. pc' \in [Goroutines -> Places]
    BY <1>3, StepType DEF ClearPassword
  <2>2. QED
    BY <1>3, <2>1 DEF ClearPassword, TypeOK, locals, channels, host
<1>4. CASE TeardownTcp(g) \/ TeardownEmbed(g)
  BY <1>4, CloseTypeOK DEF TeardownTcp, TeardownEmbed
<1>5. QED
  BY <1>1, <1>2, <1>3, <1>4 DEF Teardown

LEMMA OutsideType ==
    ASSUME TypeOK,
           HandleConnect \/ Panic \/ Recover \/ HostDisconnect \/ HandleDisconnect \/ \E g \in Relays : PumpEnds(g)
    PROVE  TypeOK'
<1> USE PlacesExist, GoroutineNumbers DEF TeardownAt, EndedAt, ReportingAt, ConnectingAt
<1>1. CASE HandleConnect \/ HandleDisconnect
  <2>1. pc' \in [Goroutines -> Places]
    BY <1>1, StepType DEF HandleConnect, HandleDisconnect
  <2>2. QED
    BY <1>1, <2>1 DEF HandleConnect, HandleDisconnect, TypeOK, locals, fields, channels, host
<1>a. CASE Panic
  <2>1. pc' \in [Goroutines -> Places]
    BY <1>a, StepType DEF Panic
  <2>2. open' \cup lost' \subseteq 1..opened /\ opened' = opened
    BY <1>a DEF Panic, TypeOK
  <2>3. QED
    BY <1>a, <2>1, <2>2 DEF Panic, TypeOK, locals, fields, host
<1>2. CASE Recover
  <2>1. pc' \in [Goroutines -> Places]
    BY <1>2, StepType DEF Recover
  <2>2. QED
    BY <1>2, <2>1 DEF Recover, TypeOK, locals, channels, host
<1>3. CASE HostDisconnect
  BY <1>3 DEF HostDisconnect, TypeOK, locals, fields, channels
<1>4. ASSUME NEW g \in Relays, PumpEnds(g)
      PROVE  TypeOK'
  <2>1. pc' \in [Goroutines -> Places]
    BY <1>4, StepType DEF PumpEnds
  <2>2. QED
    BY <1>4, <2>1 DEF PumpEnds, TypeOK, locals, fields, channels, host
<1>5. QED
  BY <1>1, <1>a, <1>2, <1>3, <1>4

LEMMA TypeInit ==
    ASSUME Init
    PROVE  TypeOK
<1>1. /\ pc \in [Goroutines -> Places] /\ tcp \in [Goroutines -> Nat] /\ embed \in [Goroutines -> Nat]
      /\ attempt \in [Goroutines -> 0..MaxAttempts]
  BY PlacesExist DEF Init, Nil
<1>2. /\ state \in States /\ hostState \in States /\ tcpChannel \in Nat /\ embedChannel \in Nat
      /\ opened \in Nat /\ open \cup lost \subseteq 1..opened /\ relays \in 0..MaxRelays
  BY DEF Init, Nil, States
<1>3. torndown \in BOOLEAN /\ cleared \in BOOLEAN /\ hostEnded \in BOOLEAN /\ raced \in BOOLEAN
  BY Zenon DEF Init
<1>4. QED
  BY <1>1, <1>2, <1>3 DEF TypeOK

LEMMA TypeStep ==
    ASSUME TypeOK, [Next]_vars
    PROVE  TypeOK'
<1>1. CASE UNCHANGED vars
  BY <1>1 DEF vars, locals, fields, channels, host, TypeOK
<1>2. CASE Next
  BY <1>2, OutsideType, UpdateStateType, ConnectAndRelayType, ReconnectType, TeardownType DEF Next, Run
<1>3. QED
  BY <1>1, <1>2

(* lifecycle.go:79-109 - the session's fields and every goroutine's locals    *)
(* keep their types; an open channel is one the host has opened.              *)
THEOREM SessionTypeCorrect == Spec => []TypeOK
BY TypeInit, TypeStep, PTL DEF Spec

-----------------------------------------------------------------------------
(* One driver.  A goroutine that is not driving the session starts to in two *)
(* ways only: orchestrate, before which nobody drives, and a relay goroutine *)
(* that StartRelay starts, whose caller stops driving in the same step.      *)

DriverInv == OneDriver /\ (pc[Orchestrate] = "idle" => Driving = {})

(* A step of g that does not make it a driver, unless it was one. *)
LEMMA StepKeepsDriver ==
    ASSUME TypeOK, DriverInv, NEW g \in Goroutines, NEW from, NEW to \in Places, Step(g, from, to),
           to # "idle", to \in DrivingAt => from \in DrivingAt
    PROVE  DriverInv'
<1>1. pc[g] = from /\ pc' \in [Goroutines -> Places] /\ pc'[g] = to
  BY DEF TypeOK, Step, Goto
<1>2. \A h \in Goroutines : h # g => pc'[h] = pc[h]
  BY DEF TypeOK, Step, Goto
<1>3. Driving' \subseteq Driving
  BY <1>1, <1>2 DEF Driving
<1>4. pc'[Orchestrate] = "idle" => pc[Orchestrate] = "idle"
  BY <1>1, <1>2, GoroutineNumbers
<1>5. OneDriver'
  BY <1>3 DEF DriverInv, OneDriver
<1>6. pc'[Orchestrate] = "idle" => Driving' = {}
  BY <1>3, <1>4 DEF DriverInv
<1>7. QED
  BY <1>5, <1>6 DEF DriverInv

(* connectAndRelay hands the session over to the relay goroutine. *)
LEMMA StartRelayHandsOver ==
    ASSUME TypeOK, DriverInv, NEW g \in Goroutines, StartRelay(g)
    PROVE  DriverInv'
<1>1. /\ pc[g] = "startRelay" /\ relays + 1 \in Relays
      /\ pc' = [pc EXCEPT ![g] = "setReady", ![relays + 1] = "pump"]
  BY GoroutineNumbers DEF StartRelay, TypeOK
<1>2. g \in Driving
  BY <1>1 DEF Driving, DrivingAt, ConnectedAt
<1>3. \A h \in Driving : h = g
  BY <1>2 DEF DriverInv, OneDriver
<1>4. \A h \in Goroutines : h # g /\ h # relays + 1 => pc'[h] = pc[h]
  BY <1>1 DEF TypeOK
<1>5. g # relays + 1 => pc'[g] = "setReady"
  BY <1>1, GoroutineNumbers DEF TypeOK
<1>6. "setReady" \notin DrivingAt
  BY DEF DrivingAt, ConnectingAt, ConnectedAt, EndedAt
<1>7. \A h \in Driving' : h = relays + 1
  BY <1>3, <1>4, <1>5, <1>6 DEF Driving
<1>8. OneDriver'
  BY <1>7 DEF OneDriver
<1>9. pc'[Orchestrate] # "idle"
  <2>1. Orchestrate # relays + 1 /\ Orchestrate \in Goroutines
    BY <1>1, GoroutineNumbers
  <2>2. g # Orchestrate => pc[Orchestrate] # "idle"
    BY <1>2 DEF DriverInv
  <2>3. QED
    BY <1>4, <1>5, <2>1, <2>2
<1>10. QED
  BY <1>8, <1>9 DEF DriverInv

LEMMA UpdateStateDriver ==
    ASSUME TypeOK, DriverInv, NEW g \in Goroutines, UpdateState(g)
    PROVE  DriverInv'
<1> USE PlacesExist DEF DrivingAt, ConnectingAt, ConnectedAt, EndedAt, ReportingAt, TeardownAt
<1>1. ASSUME NEW st \in States, Step(g, SetAt[st], ReportAt[st])
      PROVE  DriverInv'
  <2>1. /\ ReportAt[st] \in Places /\ ReportAt[st] # "idle"
        /\ ReportAt[st] \in DrivingAt => SetAt[st] \in DrivingAt
    BY DEF States, SetAt, ReportAt
  <2>2. QED
    BY <1>1, <2>1, StepKeepsDriver
<1>2. ASSUME NEW st \in States, Step(g, ReportAt[st], AfterReport(g, st))
      PROVE  DriverInv'
  <2>1. /\ AfterReport(g, st) \in Places /\ AfterReport(g, st) # "idle"
        /\ AfterReport(g, st) \in DrivingAt => ReportAt[st] \in DrivingAt
    BY DEF States, AfterReport, ReportAt
  <2>2. QED
    BY <1>2, <2>1, StepKeepsDriver
<1>3. QED
  BY <1>1, <1>2 DEF UpdateState, UpdateStateSet, UpdateStateCall

LEMMA ConnectAndRelayDriver ==
    ASSUME TypeOK, DriverInv, NEW g \in Goroutines, ConnectAndRelay(g)
    PROVE  DriverInv'
<1> USE PlacesExist, FailedExists DEF DrivingAt, ConnectingAt, ConnectedAt, ReportingAt, EndedAt
<1>0. Failed(g) # "idle" /\ Failed(g) \in {"setError", "backoff"}
  BY DEF Failed
<1>1. CASE OpenTcp(g) \/ OpenTcpFails(g)
  BY <1>0, <1>1, StepKeepsDriver DEF OpenTcp, OpenTcpFails
<1>2. CASE OpenEmbed(g) \/ OpenEmbedFails(g)
  BY <1>0, <1>2, StepKeepsDriver DEF OpenEmbed, OpenEmbedFails
<1>3. CASE AbandonTcp(g)
  BY <1>0, <1>3, StepKeepsDriver DEF AbandonTcp, Close
<1>4. CASE Assign(g) \/ StartRelayFails(g)
  BY <1>0, <1>4, StepKeepsDriver DEF Assign, StartRelayFails
<1>5. CASE RegisterEmbed(g)
  <2>1. Step(g, "register", "startRelay") \/ Step(g, "register", Failed(g))
    BY <1>5 DEF RegisterEmbed, Step
  <2>2. QED
    BY <1>0, <2>1, StepKeepsDriver
<1>6. CASE StartRelay(g)
  BY <1>6, StartRelayHandsOver
<1>7. QED
  BY <1>1, <1>2, <1>3, <1>4, <1>5, <1>6 DEF ConnectAndRelay

LEMMA ReconnectDriver ==
    ASSUME TypeOK, DriverInv, NEW g \in Goroutines, Reconnect(g)
    PROVE  DriverInv'
<1> USE PlacesExist DEF DrivingAt, ConnectingAt, ConnectedAt, ReportingAt, EndedAt
<1>1. CASE ReportRelayEnded(g) \/ WindowElapsed(g) \/ CheckTorndown(g)
  BY <1>1, StepKeepsDriver DEF ReportRelayEnded, WindowElapsed, CheckTorndown
<1>2. CASE InWindow(g) \/ Backoff(g) \/ CloseSnapshot(g)
  BY <1>2, StepKeepsDriver DEF InWindow, Backoff, CloseSnapshot
<1>3. CASE CloseTcp(g) \/ CloseEmbed(g)
  BY <1>3, StepKeepsDriver DEF CloseTcp, CloseEmbed, Close
<1>4. QED
  BY <1>1, <1>2, <1>3 DEF Reconnect

LEMMA TeardownDriver ==
    ASSUME TypeOK, DriverInv, NEW g \in Goroutines, Teardown(g)
    PROVE  DriverInv'
<1> USE PlacesExist DEF DrivingAt, ConnectingAt, ConnectedAt, EndedAt, TeardownAt
<1>1. CASE TeardownAgain(g) \/ TeardownFirst(g) \/ ClearPassword(g)
  BY <1>1, StepKeepsDriver DEF TeardownAgain, TeardownFirst, ClearPassword
<1>2. CASE TeardownTcp(g) \/ TeardownEmbed(g)
  BY <1>2, StepKeepsDriver DEF TeardownTcp, TeardownEmbed, Close
<1>3. QED
  BY <1>1, <1>2 DEF Teardown

LEMMA OutsideDriver ==
    ASSUME TypeOK, DriverInv,
           HandleConnect \/ Panic \/ Recover \/ HostDisconnect \/ HandleDisconnect \/ \E g \in Relays : PumpEnds(g)
    PROVE  DriverInv'
<1> USE PlacesExist, GoroutineNumbers DEF ConnectingAt, ConnectedAt, ReportingAt, EndedAt, TeardownAt
<1>1. CASE HandleConnect
  <2>1. Driving = {} /\ pc' = [pc EXCEPT ![Orchestrate] = "setConnecting"]
    BY <1>1 DEF HandleConnect, Step, Goto, DriverInv
  <2>2. \A h \in Driving' : h = Orchestrate
    BY <2>1 DEF Driving, TypeOK
  <2>3. pc'[Orchestrate] # "idle"
    BY <2>1 DEF TypeOK
  <2>4. QED
    BY <2>2, <2>3 DEF DriverInv, OneDriver
<1>2. CASE Panic \/ Recover
  BY <1>2, StepKeepsDriver DEF Panic, PanicAt, Recover, DrivingAt, ConnectingAt, ConnectedAt
<1>3. CASE HandleDisconnect
  BY <1>3, StepKeepsDriver DEF HandleDisconnect, DrivingAt
<1>4. CASE HostDisconnect
  BY <1>4 DEF HostDisconnect, DriverInv, OneDriver, Driving
<1>5. ASSUME NEW g \in Relays, PumpEnds(g)
      PROVE  DriverInv'
  BY <1>5, StepKeepsDriver DEF PumpEnds, DrivingAt
<1>6. QED
  BY <1>1, <1>2, <1>3, <1>4, <1>5

LEMMA DriverStep ==
    ASSUME TypeOK, DriverInv, [Next]_vars
    PROVE  DriverInv'
<1>1. CASE UNCHANGED vars
  BY <1>1 DEF vars, DriverInv, OneDriver, Driving
<1>2. CASE Next
  BY <1>2, OutsideDriver, UpdateStateDriver, ConnectAndRelayDriver, ReconnectDriver, TeardownDriver DEF Next, Run
<1>3. QED
  BY <1>1, <1>2

LEMMA DriverInit ==
    ASSUME Init
    PROVE  DriverInv
<1>1. \A g \in Goroutines : pc[g] = "idle"
  BY DEF Init
<1>2. Driving = {}
  BY <1>1 DEF Driving, DrivingAt, ConnectingAt, ConnectedAt, EndedAt
<1>3. QED
  BY <1>2 DEF DriverInv, OneDriver

LEMMA DriverAlways == Spec => []DriverInv
BY DriverInit, DriverStep, SessionTypeCorrect, PTL DEF Spec

(* reconnect.go:25-27 - "so there is no recursion": at any moment one         *)
(* goroutine at most drives the session, however often relays end.            *)
THEOREM OneDriverSafety == Spec => []OneDriver
<1>1. DriverInv => OneDriver
  BY DEF DriverInv
<1>2. QED
  BY <1>1, DriverAlways, PTL

-----------------------------------------------------------------------------
(* No orphan.  Held(g) is what the driver g still has to close or to assign, *)
(* step by step; a connect attempt begins with the session holding nothing,  *)
(* so that Assign forgets no channel.                                        *)

HeldAt == {"closeTcp", "closeEmbed", "openEmbed", "abandonTcp", "assign"}

(* From where the session's own channels are nil until Assign. *)
EmptyHandedAt == {"closeTcp", "closeEmbed", "openTcp", "openEmbed", "abandonTcp", "assign"}
FreshAt == {"idle", "setConnecting", "reportConnecting"}
NeverOrchestrate == EndedAt \cup {"pump", "closeSnapshot", "closeTcp", "closeEmbed"}

Covered(c) == c \in {tcpChannel, embedChannel} \/ \E g \in Driving : c \in Held(g)

OrphanInv ==
    /\ ~torndown => \A c \in open : Covered(c)
    /\ \A g \in Goroutines : pc[g] \in EmptyHandedAt => tcpChannel = Nil /\ embedChannel = Nil
    /\ pc[Orchestrate] \in FreshAt => tcpChannel = Nil /\ embedChannel = Nil
    /\ pc[Orchestrate] \notin NeverOrchestrate

LEMMA OrphanInvImplies ==
    ASSUME OrphanInv
    PROVE  NoOrphanWhileAlive
BY DEF OrphanInv, Covered, NoOrphanWhileAlive

(* Nil is no open channel. *)
LEMMA NilNotOpen ==
    ASSUME TypeOK
    PROVE  Nil \notin open
BY DEF TypeOK, Nil

(* The facts about the place of each goroutine that every step needs. *)
LEMMA StepMoves ==
    ASSUME TypeOK, NEW g \in Goroutines, NEW from, NEW to, Step(g, from, to)
    PROVE  /\ pc[g] = from /\ pc'[g] = to
           /\ \A h \in Goroutines : h # g => pc'[h] = pc[h]
BY DEF TypeOK, Step, Goto

(* While g drives, only g can hold a channel, and nobody else is connecting. *)
LEMMA OnlyDriverHolds ==
    ASSUME DriverInv, NEW g \in Driving
    PROVE  /\ \A c : Covered(c) => c \in {tcpChannel, embedChannel} \cup Held(g)
           /\ \A h \in Goroutines : h # g => pc[h] \notin EmptyHandedAt
           /\ pc[Orchestrate] \in FreshAt => g = Orchestrate
<1>1. \A h \in Driving : h = g
  BY DEF DriverInv, OneDriver
<1>2. EmptyHandedAt \subseteq DrivingAt
  BY DEF EmptyHandedAt, DrivingAt, ConnectingAt
<1>3. pc[Orchestrate] \in FreshAt => Orchestrate \in Driving
  <2>1. pc[Orchestrate] # "idle"
    BY DEF DriverInv
  <2>2. QED
    BY <2>1, GoroutineNumbers DEF FreshAt, Driving, DrivingAt, ConnectingAt
<1>4. QED
  BY <1>1, <1>2, <1>3 DEF Covered, Driving

(* A step between two places where nothing is held, that changes no channel. *)
LEMMA QuietStep ==
    ASSUME TypeOK, OrphanInv, NEW g \in Goroutines, NEW from, NEW to, Step(g, from, to),
           UNCHANGED <<tcp, embed, tcpChannel, embedChannel, open>>,
           torndown => torndown',
           from \notin HeldAt,
           to \in EmptyHandedAt => g = Orchestrate /\ from \in FreshAt,
           to \in FreshAt => from \in FreshAt \/ g # Orchestrate,
           to \in NeverOrchestrate => g # Orchestrate
    PROVE  OrphanInv'
<1>1. pc[g] = from /\ pc'[g] = to /\ \A h \in Goroutines : h # g => pc'[h] = pc[h]
  BY StepMoves
<1>2. ASSUME ~torndown', NEW c \in open'
      PROVE  Covered(c)'
  <2>1. Covered(c)
    BY <1>2 DEF OrphanInv
  <2>2. ASSUME NEW h \in Driving, c \in Held(h)
        PROVE  h \in Driving' /\ c \in Held(h)'
    <3>1. h # g
      BY <1>1, <2>2 DEF Held, HeldAt
    <3>2. pc'[h] = pc[h] /\ h \in Goroutines
      BY <1>1, <3>1 DEF Driving
    <3>3. QED
      BY <2>2, <3>2 DEF Driving, Held
  <2>3. QED
    BY <2>1, <2>2 DEF Covered
<1>3. /\ \A h \in Goroutines : pc'[h] \in EmptyHandedAt => tcpChannel' = Nil /\ embedChannel' = Nil
      /\ pc'[Orchestrate] \in FreshAt => tcpChannel' = Nil /\ embedChannel' = Nil
      /\ pc'[Orchestrate] \notin NeverOrchestrate
  BY <1>1, GoroutineNumbers DEF OrphanInv
<1>4. QED
  BY <1>2, <1>3 DEF OrphanInv

(* A step of the driver: what it leaves open the session or it still holds. *)
LEMMA DriverMove ==
    ASSUME TypeOK, DriverInv, OrphanInv, NEW g \in Driving, NEW from, NEW to, Step(g, from, to),
           ~torndown' => \A c \in open' : \/ c \in {tcpChannel', embedChannel'}
                                          \/ to \in DrivingAt /\ c \in Held(g)',
           \/ tcpChannel' = Nil /\ embedChannel' = Nil
           \/ to \notin EmptyHandedAt \cup FreshAt,
           to \in NeverOrchestrate => g # Orchestrate
    PROVE  OrphanInv'
<1>1. /\ g \in Goroutines /\ pc[g] = from /\ pc'[g] = to
      /\ \A h \in Goroutines : h # g => pc'[h] = pc[h]
  BY StepMoves DEF Driving
<1>2. ~torndown' => \A c \in open' : Covered(c)'
  <2>1. to \in DrivingAt => g \in Driving'
    BY <1>1 DEF Driving
  <2>2. QED
    BY <2>1 DEF Covered
<1>3. \A h \in Goroutines : pc'[h] \in EmptyHandedAt => tcpChannel' = Nil /\ embedChannel' = Nil
  BY <1>1, OnlyDriverHolds
<1>4. pc'[Orchestrate] \in FreshAt => tcpChannel' = Nil /\ embedChannel' = Nil
  BY <1>1, OnlyDriverHolds, GoroutineNumbers
<1>5. pc'[Orchestrate] \notin NeverOrchestrate
  BY <1>1, GoroutineNumbers DEF OrphanInv
<1>6. QED
  BY <1>2, <1>3, <1>4, <1>5 DEF OrphanInv

LEMMA UpdateStateOrphan ==
    ASSUME TypeOK, OrphanInv, NEW g \in Goroutines, UpdateState(g)
    PROVE  OrphanInv'
<1> USE DEF HeldAt, EmptyHandedAt, FreshAt, NeverOrchestrate, EndedAt
<1>0. UNCHANGED <<tcp, embed, tcpChannel, embedChannel, open, torndown>>
  BY DEF UpdateState, UpdateStateSet, UpdateStateCall, locals, fields, channels
<1>1. ASSUME NEW st \in States, Step(g, SetAt[st], ReportAt[st])
      PROVE  OrphanInv'
  <2>1. /\ SetAt[st] \notin HeldAt /\ ReportAt[st] \notin EmptyHandedAt /\ ReportAt[st] \notin NeverOrchestrate
        /\ ReportAt[st] \in FreshAt => SetAt[st] \in FreshAt
    BY DEF States, SetAt, ReportAt
  <2>2. QED
    BY <1>0, <1>1, <2>1, QuietStep
<1>2. ASSUME NEW st \in States, Step(g, ReportAt[st], AfterReport(g, st))
      PROVE  OrphanInv'
  <2>1. /\ ReportAt[st] \notin HeldAt
        /\ AfterReport(g, st) \in EmptyHandedAt => g = Orchestrate /\ ReportAt[st] \in FreshAt
        /\ AfterReport(g, st) \notin FreshAt
        /\ AfterReport(g, st) \in NeverOrchestrate => g # Orchestrate
    BY DEF States, ReportAt, AfterReport
  <2>2. QED
    BY <1>0, <1>2, <2>1, QuietStep
<1>3. QED
  BY <1>1, <1>2 DEF UpdateState, UpdateStateSet, UpdateStateCall

(* A driver is at the place its step starts from. *)
LEMMA AtDriving ==
    ASSUME NEW g \in Goroutines, pc[g] \in DrivingAt
    PROVE  g \in Driving
BY DEF Driving

LEMMA ConnectAndRelayOrphan ==
    ASSUME TypeOK, DriverInv, OrphanInv, NEW g \in Goroutines, ConnectAndRelay(g)
    PROVE  OrphanInv'
<1> USE DEF HeldAt, EmptyHandedAt, FreshAt, NeverOrchestrate, EndedAt
<1>0. /\ Failed(g) \notin EmptyHandedAt \cup FreshAt
      /\ Failed(g) \in NeverOrchestrate => g # Orchestrate
  BY DEF Failed
<1>1. CASE OpenTcp(g)
  <2>1. Step(g, "openTcp", "openEmbed") /\ UNCHANGED <<tcpChannel, embedChannel, torndown>>
    BY <1>1 DEF OpenTcp, fields
  <2>2. pc[g] = "openTcp" /\ pc'[g] = "openEmbed"
    BY <2>1, StepMoves
  <2>3. g \in Driving /\ "openEmbed" \in DrivingAt
    BY <2>2 DEF Driving, DrivingAt, ConnectingAt
  <2>4. tcpChannel = Nil /\ embedChannel = Nil /\ Held(g) = {}
    BY <2>2 DEF OrphanInv, Held
  <2>5. ~torndown => open = {}
    BY <2>3, <2>4, OnlyDriverHolds, NilNotOpen DEF OrphanInv
  <2>6. open' = open \cup {opened + 1} /\ tcp'[g] = opened + 1
    BY <1>1 DEF OpenTcp, TypeOK
  <2>7. ~torndown' => \A c \in open' : c \in Held(g)'
    BY <2>1, <2>2, <2>5, <2>6 DEF Held
  <2>8. QED
    BY <2>1, <2>3, <2>4, <2>7, DriverMove
<1>2. CASE OpenEmbed(g)
  <2>1. Step(g, "openEmbed", "assign") /\ UNCHANGED <<tcp, tcpChannel, embedChannel, torndown>>
    BY <1>2 DEF OpenEmbed, fields
  <2>2. pc[g] = "openEmbed" /\ pc'[g] = "assign"
    BY <2>1, StepMoves
  <2>3. g \in Driving /\ "assign" \in DrivingAt
    BY <2>2 DEF Driving, DrivingAt, ConnectingAt
  <2>4. tcpChannel = Nil /\ embedChannel = Nil /\ Held(g) = {tcp[g]}
    BY <2>2 DEF OrphanInv, Held
  <2>5. ~torndown => open \subseteq {tcp[g]}
    BY <2>3, <2>4, OnlyDriverHolds, NilNotOpen DEF OrphanInv
  <2>6. open' = open \cup {opened + 1} /\ embed'[g] = opened + 1
    BY <1>2 DEF OpenEmbed, TypeOK
  <2>7. ~torndown' => \A c \in open' : c \in Held(g)'
    BY <2>1, <2>2, <2>5, <2>6 DEF Held
  <2>8. QED
    BY <2>1, <2>3, <2>4, <2>7, DriverMove
<1>3. CASE OpenEmbedFails(g)
  <2>1. Step(g, "openEmbed", "abandonTcp") /\ UNCHANGED <<tcp, tcpChannel, embedChannel, torndown, open>>
    BY <1>3 DEF OpenEmbedFails, locals, fields, channels
  <2>2. pc[g] = "openEmbed" /\ pc'[g] = "abandonTcp"
    BY <2>1, StepMoves
  <2>3. g \in Driving /\ "abandonTcp" \in DrivingAt
    BY <2>2 DEF Driving, DrivingAt, ConnectingAt
  <2>4. tcpChannel = Nil /\ embedChannel = Nil /\ Held(g) = {tcp[g]} /\ Held(g)' = {tcp[g]}
    BY <2>1, <2>2 DEF OrphanInv, Held
  <2>5. ~torndown' => \A c \in open' : c \in Held(g)'
    BY <2>1, <2>3, <2>4, OnlyDriverHolds, NilNotOpen DEF OrphanInv
  <2>6. QED
    BY <2>1, <2>3, <2>4, <2>5, DriverMove
<1>4. CASE AbandonTcp(g)
  <2>1. /\ Step(g, "abandonTcp", Failed(g)) /\ open' = open \ {tcp[g]}
        /\ UNCHANGED <<tcpChannel, embedChannel, torndown>>
    BY <1>4 DEF AbandonTcp, Close, fields
  <2>2. pc[g] = "abandonTcp"
    BY <2>1, StepMoves
  <2>3. g \in Driving
    BY <2>2 DEF Driving, DrivingAt, ConnectingAt
  <2>4. Held(g) = {tcp[g]}
    BY <2>2 DEF Held
  <2>5. ~torndown' => \A c \in open' : c \in {tcpChannel', embedChannel'}
    BY <2>1, <2>3, <2>4, OnlyDriverHolds DEF OrphanInv
  <2>6. QED
    BY <1>0, <2>1, <2>3, <2>5, DriverMove
<1>5. CASE Assign(g)
  <2>1. /\ Step(g, "assign", "register") /\ tcpChannel' = tcp[g] /\ embedChannel' = embed[g]
        /\ UNCHANGED <<open, torndown>>
    BY <1>5 DEF Assign, channels
  <2>2. pc[g] = "assign"
    BY <2>1, StepMoves
  <2>3. g \in Driving
    BY <2>2 DEF Driving, DrivingAt, ConnectingAt
  <2>4. tcpChannel = Nil /\ embedChannel = Nil /\ Held(g) = {tcp[g], embed[g]}
    BY <2>2 DEF OrphanInv, Held
  <2>5. ~torndown' => \A c \in open' : c \in {tcpChannel', embedChannel'}
    BY <2>1, <2>3, <2>4, OnlyDriverHolds, NilNotOpen DEF OrphanInv
  <2>6. QED
    BY <2>1, <2>3, <2>5, DriverMove
<1>6. CASE RegisterEmbed(g)
  <2>1. /\ Step(g, "register", "startRelay") \/ Step(g, "register", Failed(g))
        /\ UNCHANGED <<tcp, embed, tcpChannel, embedChannel, open, torndown>>
    BY <1>6 DEF RegisterEmbed, Step, locals, fields, channels
  <2>2. QED
    BY <1>0, <2>1, QuietStep
<1>7. CASE OpenTcpFails(g) \/ StartRelayFails(g)
  <2>1. /\ Step(g, "openTcp", Failed(g)) \/ Step(g, "startRelay", Failed(g))
        /\ UNCHANGED <<tcp, embed, tcpChannel, embedChannel, open, torndown>>
    BY <1>7 DEF OpenTcpFails, StartRelayFails, locals, fields, channels
  <2>2. QED
    BY <1>0, <2>1, QuietStep
<1>8. CASE StartRelay(g)
  <2>1. /\ pc[g] = "startRelay" /\ relays + 1 \in Relays
        /\ pc' = [pc EXCEPT ![g] = "setReady", ![relays + 1] = "pump"]
        /\ UNCHANGED <<tcpChannel, embedChannel, open, torndown>>
    BY <1>8, GoroutineNumbers DEF StartRelay, TypeOK, fields, channels
  <2>2. g \in Driving /\ Held(g) = {}
    BY <2>1 DEF Driving, DrivingAt, ConnectedAt, Held
  <2>3. ~torndown' => \A c \in open' : Covered(c)'
    BY <2>1, <2>2, OnlyDriverHolds DEF OrphanInv, Covered
  <2>4. \A h \in Goroutines : pc'[h] \in {"setReady", "pump", pc[h]}
    BY <2>1 DEF TypeOK
  <2>5. Orchestrate # relays + 1 /\ pc'[Orchestrate] \in {"setReady", pc[Orchestrate]}
    BY <2>1, GoroutineNumbers DEF TypeOK
  <2>6. /\ \A h \in Goroutines : pc'[h] \in EmptyHandedAt => tcpChannel' = Nil /\ embedChannel' = Nil
        /\ pc'[Orchestrate] \in FreshAt => tcpChannel' = Nil /\ embedChannel' = Nil
        /\ pc'[Orchestrate] \notin NeverOrchestrate
    BY <2>1, <2>4, <2>5 DEF OrphanInv
  <2>7. QED
    BY <2>3, <2>6 DEF OrphanInv
<1>9. QED
  BY <1>1, <1>2, <1>3, <1>4, <1>5, <1>6, <1>7, <1>8 DEF ConnectAndRelay

LEMMA ReconnectOrphan ==
    ASSUME TypeOK, DriverInv, OrphanInv, NEW g \in Goroutines, Reconnect(g)
    PROVE  OrphanInv'
<1> USE DEF HeldAt, EmptyHandedAt, FreshAt, NeverOrchestrate, EndedAt
<1>0. pc[g] \in NeverOrchestrate => g # Orchestrate
  BY DEF OrphanInv
<1>1. CASE ReportRelayEnded(g) \/ WindowElapsed(g) \/ CheckTorndown(g)
  <2>1. /\ \/ Step(g, "ended", "done") \/ Step(g, "ended", "loop") \/ Step(g, "loop", "setError")
           \/ Step(g, "checkTorndown", "setError") \/ Step(g, "checkTorndown", "setConnecting")
        /\ UNCHANGED <<tcp, embed, tcpChannel, embedChannel, open, torndown>>
    BY <1>1 DEF ReportRelayEnded, WindowElapsed, CheckTorndown, locals, fields, channels
  <2>2. g # Orchestrate
    BY <1>0, <2>1, StepMoves
  <2>3. QED
    BY <2>1, <2>2, QuietStep
<1>2. CASE InWindow(g) \/ Backoff(g)
  <2>1. /\ Step(g, "loop", "checkTorndown") \/ Step(g, "backoff", "loop")
        /\ UNCHANGED <<tcp, embed, tcpChannel, embedChannel, open, torndown>>
    BY <1>2 DEF InWindow, Backoff, locals, fields, channels
  <2>2. g # Orchestrate
    BY <1>0, <2>1, StepMoves
  <2>3. QED
    BY <2>1, <2>2, QuietStep
<1>3. CASE CloseSnapshot(g)
  <2>1. /\ Step(g, "closeSnapshot", "closeTcp") /\ tcpChannel' = Nil /\ embedChannel' = Nil
        /\ tcp'[g] = tcpChannel /\ embed'[g] = embedChannel /\ UNCHANGED <<open, torndown>>
    BY <1>3 DEF CloseSnapshot, TypeOK, channels
  <2>2. pc[g] = "closeSnapshot" /\ pc'[g] = "closeTcp"
    BY <2>1, StepMoves
  <2>3. g \in Driving /\ "closeTcp" \in DrivingAt /\ g # Orchestrate
    BY <1>0, <2>2 DEF Driving, DrivingAt, ConnectingAt
  <2>4. Held(g) = {} /\ Held(g)' = {tcpChannel, embedChannel}
    BY <2>1, <2>2 DEF Held
  <2>5. ~torndown' => \A c \in open' : c \in Held(g)'
    BY <2>1, <2>3, <2>4, OnlyDriverHolds DEF OrphanInv
  <2>6. QED
    BY <2>1, <2>3, <2>5, DriverMove
<1>4. CASE CloseTcp(g)
  <2>1. /\ Step(g, "closeTcp", "closeEmbed") /\ open' = open \ {tcp[g]}
        /\ UNCHANGED <<tcp, embed, tcpChannel, embedChannel, torndown>>
    BY <1>4 DEF CloseTcp, Close, locals, fields
  <2>2. pc[g] = "closeTcp" /\ pc'[g] = "closeEmbed"
    BY <2>1, StepMoves
  <2>3. g \in Driving /\ "closeEmbed" \in DrivingAt /\ g # Orchestrate
    BY <1>0, <2>2 DEF Driving, DrivingAt, ConnectingAt
  <2>4. Held(g) = {tcp[g], embed[g]} /\ Held(g)' = {embed[g]} /\ tcpChannel = Nil /\ embedChannel = Nil
    BY <2>1, <2>2 DEF Held, OrphanInv
  <2>5. ~torndown' => \A c \in open' : c \in {tcpChannel', embedChannel'} \/ c \in Held(g)'
    BY <2>1, <2>3, <2>4, OnlyDriverHolds DEF OrphanInv
  <2>6. QED
    BY <2>1, <2>3, <2>4, <2>5, DriverMove
<1>5. CASE CloseEmbed(g)
  <2>1. /\ Step(g, "closeEmbed", "openTcp") /\ open' = open \ {embed[g]}
        /\ UNCHANGED <<tcpChannel, embedChannel, torndown>>
    BY <1>5 DEF CloseEmbed, Close, fields
  <2>2. pc[g] = "closeEmbed" /\ pc'[g] = "openTcp"
    BY <2>1, StepMoves
  <2>3. g \in Driving /\ g # Orchestrate
    BY <1>0, <2>2 DEF Driving, DrivingAt, ConnectingAt
  <2>4. Held(g) = {embed[g]} /\ tcpChannel = Nil /\ embedChannel = Nil
    BY <2>2 DEF Held, OrphanInv
  <2>5. ~torndown' => \A c \in open' : c \in {tcpChannel', embedChannel'}
    BY <2>1, <2>3, <2>4, OnlyDriverHolds DEF OrphanInv
  <2>6. QED
    BY <2>1, <2>3, <2>4, <2>5, DriverMove
<1>6. QED
  BY <1>1, <1>2, <1>3, <1>4, <1>5 DEF Reconnect

(* Teardown takes nothing from anybody while torndown is unset, and once it  *)
(* is set only the places of the goroutines matter.                          *)
LEMMA TornDownStep ==
    ASSUME TypeOK, OrphanInv, NEW g \in Goroutines, NEW from, NEW to, Step(g, from, to), torndown',
           UNCHANGED <<tcpChannel, embedChannel>>,
           to \notin EmptyHandedAt \cup FreshAt \cup NeverOrchestrate
    PROVE  OrphanInv'
<1>1. pc'[g] = to /\ \A h \in Goroutines : h # g => pc'[h] = pc[h]
  BY StepMoves
<1>2. QED
  BY <1>1, GoroutineNumbers DEF OrphanInv

(* The places after the first step of Teardown are reached with torndown set. *)
TornDownAt == {"clearPassword", "teardownTcp", "teardownEmbed"}
TeardownInv == \A g \in Goroutines : pc[g] \in TornDownAt => torndown

LEMMA TeardownOrphan ==
    ASSUME TypeOK, TeardownInv, OrphanInv, NEW g \in Goroutines, Teardown(g)
    PROVE  OrphanInv'
<1> USE DEF EmptyHandedAt, FreshAt, NeverOrchestrate, EndedAt, TornDownAt
<1>1. CASE TeardownAgain(g)
  BY <1>1, TornDownStep DEF TeardownAgain, fields
<1>2. CASE TeardownFirst(g)
  BY <1>2, TornDownStep DEF TeardownFirst
<1>3. CASE ClearPassword(g)
  <2>1. Step(g, "clearPassword", "teardownTcp") /\ UNCHANGED <<tcpChannel, embedChannel, torndown>>
    BY <1>3 DEF ClearPassword
  <2>2. QED
    BY <2>1, StepMoves, TornDownStep DEF TeardownInv
<1>4. CASE TeardownTcp(g) \/ TeardownEmbed(g)
  <2>1. /\ Step(g, "teardownTcp", "teardownEmbed") \/ Step(g, "teardownEmbed", "done")
        /\ UNCHANGED <<tcpChannel, embedChannel, torndown>>
    BY <1>4 DEF TeardownTcp, TeardownEmbed, Close, fields
  <2>2. QED
    BY <2>1, StepMoves, TornDownStep DEF TeardownInv
<1>5. QED
  BY <1>1, <1>2, <1>3, <1>4 DEF Teardown

LEMMA OutsideOrphan ==
    ASSUME TypeOK, DriverInv, OrphanInv,
           HandleConnect \/ Panic \/ Recover \/ HostDisconnect \/ HandleDisconnect \/ \E g \in Relays : PumpEnds(g)
    PROVE  OrphanInv'
<1> USE GoroutineNumbers DEF HeldAt, EmptyHandedAt, FreshAt, NeverOrchestrate, EndedAt
<1>1. CASE HandleConnect \/ Recover
  <2>1. /\ Step(Orchestrate, "idle", "setConnecting") \/ Step(Orchestrate, "panic", "setError")
        /\ UNCHANGED <<tcp, embed, tcpChannel, embedChannel, open, torndown>>
    BY <1>1 DEF HandleConnect, Recover, locals, fields, channels
  <2>2. QED
    BY <2>1, QuietStep
<1>a. CASE Panic
  <2>1. PICK place \in PanicAt : Step(Orchestrate, place, "panic")
    BY <1>a DEF Panic
  <2>2. open' = open \ Held(Orchestrate) /\ UNCHANGED <<tcpChannel, embedChannel, torndown>>
    BY <1>a DEF Panic, fields
  <2>3. Orchestrate \in Driving
    BY <2>1, StepMoves DEF PanicAt, Driving, DrivingAt, ConnectingAt, ConnectedAt
  <2>4. ~torndown' => \A c \in open' : c \in {tcpChannel', embedChannel'}
    BY <2>2, <2>3, OnlyDriverHolds DEF OrphanInv
  <2>5. QED
    BY <2>1, <2>2, <2>3, <2>4, DriverMove
<1>2. CASE HandleDisconnect
  BY <1>2, QuietStep DEF HandleDisconnect, locals, fields, channels
<1>3. CASE HostDisconnect
  BY <1>3 DEF HostDisconnect, OrphanInv, Covered, Held, Driving, locals, fields, channels
<1>4. ASSUME NEW g \in Relays, PumpEnds(g)
      PROVE  OrphanInv'
  BY <1>4, QuietStep DEF PumpEnds, locals, fields, channels
<1>5. QED
  BY <1>1, <1>a, <1>2, <1>3, <1>4

LEMMA OrphanStep ==
    ASSUME TypeOK, DriverInv, TeardownInv, OrphanInv, [Next]_vars
    PROVE  OrphanInv'
<1>1. CASE UNCHANGED vars
  BY <1>1 DEF vars, locals, fields, channels, host, OrphanInv, Covered, Held, Driving
<1>2. CASE Next
  BY <1>2, OutsideOrphan, UpdateStateOrphan, ConnectAndRelayOrphan, ReconnectOrphan, TeardownOrphan DEF Next, Run
<1>3. QED
  BY <1>1, <1>2

(* torndown is never unset, and is set before Teardown goes on. *)
LEMMA StepKeepsTeardown ==
    ASSUME TypeOK, TeardownInv, NEW g \in Goroutines, NEW from, NEW to, Step(g, from, to),
           torndown => torndown',
           to \in TornDownAt => from \in TornDownAt \/ torndown'
    PROVE  TeardownInv'
BY StepMoves DEF TeardownInv

LEMMA TeardownInvStep ==
    ASSUME TypeOK, TeardownInv, [Next]_vars
    PROVE  TeardownInv'
<1> USE GoroutineNumbers DEF TornDownAt
<1>1. ASSUME NEW g \in Goroutines, UpdateState(g)
      PROVE  TeardownInv'
  <2>1. torndown' = torndown
    BY <1>1 DEF UpdateState, UpdateStateSet, UpdateStateCall, fields
  <2>2. ASSUME NEW st \in States, Step(g, SetAt[st], ReportAt[st]) \/ Step(g, ReportAt[st], AfterReport(g, st))
        PROVE  TeardownInv'
    <3>1. ReportAt[st] \notin TornDownAt /\ AfterReport(g, st) \notin TornDownAt
      BY DEF States, ReportAt, AfterReport
    <3>2. QED
      BY <2>1, <2>2, <3>1, StepKeepsTeardown
  <2>3. QED
    BY <1>1, <2>2 DEF UpdateState, UpdateStateSet, UpdateStateCall
<1>2. ASSUME NEW g \in Goroutines, ConnectAndRelay(g), ~StartRelay(g)
      PROVE  TeardownInv'
  <2>1. torndown' = torndown
    BY <1>2 DEF ConnectAndRelay, OpenTcp, OpenTcpFails, OpenEmbed, OpenEmbedFails, AbandonTcp, Close, Assign,
                RegisterEmbed, StartRelayFails, fields
  <2>2. Failed(g) \notin TornDownAt
    BY DEF Failed
  <2>3. CASE OpenTcp(g) \/ OpenTcpFails(g) \/ OpenEmbed(g) \/ OpenEmbedFails(g)
    BY <2>1, <2>2, <2>3, StepKeepsTeardown DEF OpenTcp, OpenTcpFails, OpenEmbed, OpenEmbedFails
  <2>4. CASE AbandonTcp(g) \/ Assign(g) \/ StartRelayFails(g)
    BY <2>1, <2>2, <2>4, StepKeepsTeardown DEF AbandonTcp, Close, Assign, StartRelayFails
  <2>5. CASE RegisterEmbed(g)
    <3>1. Step(g, "register", "startRelay") \/ Step(g, "register", Failed(g))
      BY <2>5 DEF RegisterEmbed, Step
    <3>2. QED
      BY <2>1, <2>2, <3>1, StepKeepsTeardown
  <2>6. QED
    BY <1>2, <2>3, <2>4, <2>5 DEF ConnectAndRelay
<1>3. ASSUME NEW g \in Goroutines, StartRelay(g)
      PROVE  TeardownInv'
  <2>1. torndown' = torndown /\ \A h \in Goroutines : pc'[h] \in {"setReady", "pump", pc[h]}
    BY <1>3 DEF StartRelay, TypeOK, fields
  <2>2. QED
    BY <2>1 DEF TeardownInv
<1>4. ASSUME NEW g \in Goroutines, Reconnect(g)
      PROVE  TeardownInv'
  <2>1. torndown' = torndown
    BY <1>4 DEF Reconnect, ReportRelayEnded, InWindow, WindowElapsed, CheckTorndown, CloseSnapshot, CloseTcp, CloseEmbed,
                Close, Backoff, fields
  <2>2. CASE ReportRelayEnded(g) \/ InWindow(g) \/ WindowElapsed(g) \/ CheckTorndown(g) \/ Backoff(g)
    BY <2>1, <2>2, StepKeepsTeardown DEF ReportRelayEnded, InWindow, WindowElapsed, CheckTorndown, Backoff
  <2>3. CASE CloseSnapshot(g) \/ CloseTcp(g) \/ CloseEmbed(g)
    BY <2>1, <2>3, StepKeepsTeardown DEF CloseSnapshot, CloseTcp, CloseEmbed, Close
  <2>4. QED
    BY <1>4, <2>2, <2>3 DEF Reconnect
<1>5. ASSUME NEW g \in Goroutines, Teardown(g)
      PROVE  TeardownInv'
  <2>1. CASE TeardownAgain(g)
    BY <2>1, StepKeepsTeardown DEF TeardownAgain, fields
  <2>2. CASE TeardownFirst(g)
    BY <2>2, StepKeepsTeardown DEF TeardownFirst
  <2>3. CASE ClearPassword(g)
    <3>1. Step(g, "clearPassword", "teardownTcp") /\ torndown' = torndown
      BY <2>3 DEF ClearPassword
    <3>2. QED
      BY <3>1, StepKeepsTeardown
  <2>4. CASE TeardownTcp(g) \/ TeardownEmbed(g)
    BY <2>4, StepKeepsTeardown DEF TeardownTcp, TeardownEmbed, Close, fields
  <2>5. QED
    BY <1>5, <2>1, <2>2, <2>3, <2>4 DEF Teardown
<1>6. CASE HandleConnect \/ Panic \/ Recover \/ HandleDisconnect
  BY <1>6, StepKeepsTeardown DEF HandleConnect, Panic, PanicAt, Recover, HandleDisconnect, fields
<1>7. ASSUME NEW g \in Relays, PumpEnds(g)
      PROVE  TeardownInv'
  BY <1>7, StepKeepsTeardown DEF PumpEnds, fields
<1>8. CASE HostDisconnect \/ UNCHANGED vars
  BY <1>8 DEF HostDisconnect, vars, fields, TeardownInv
<1>9. QED
  BY <1>1, <1>2, <1>3, <1>4, <1>5, <1>6, <1>7, <1>8 DEF Next, Run

LEMMA OrphanInit ==
    ASSUME Init
    PROVE  TeardownInv /\ OrphanInv
<1>1. /\ \A g \in Goroutines : pc[g] = "idle"
      /\ open = {} /\ tcpChannel = Nil /\ embedChannel = Nil
  BY DEF Init
<1>2. TeardownInv
  BY <1>1 DEF TeardownInv, TornDownAt
<1>3. OrphanInv
  BY <1>1, GoroutineNumbers DEF OrphanInv, NeverOrchestrate, EndedAt
<1>4. QED
  BY <1>2, <1>3

(* reconnect.go:64-80, lifecycle.go:202-206 - until Teardown, an open channel *)
(* is the session's, or is held by the goroutine that is about to assign or   *)
(* close it, through every failed attempt of every reconnect.                 *)
THEOREM NoOrphanSafety == Spec => []NoOrphanWhileAlive
<1>1. Init => TeardownInv /\ OrphanInv
  BY OrphanInit
<1>2. TypeOK /\ DriverInv /\ TeardownInv /\ OrphanInv /\ [Next]_vars => TeardownInv' /\ OrphanInv'
  BY TeardownInvStep, OrphanStep
<1>3. OrphanInv => NoOrphanWhileAlive
  BY OrphanInvImplies
<1>4. QED
  BY <1>1, <1>2, <1>3, SessionTypeCorrect, DriverAlways, PTL DEF Spec
-----------------------------------------------------------------------------
(* Who comes after whom.  Besides StartRelay, a goroutine at work goes from   *)
(* one place to another; it does not wake anybody, does not start to drive,   *)
(* and starts to connect only where it has seen torndown unset.               *)

LEMMA RunMoves ==
    ASSUME TypeOK, NEW g \in Goroutines, Run(g), ~StartRelay(g)
    PROVE  /\ UNCHANGED <<relays, hostEnded>>
           /\ \E from, to \in Places :
                 /\ Step(g, from, to)
                 /\ from # "idle" /\ to # "idle"
                 /\ to \in DrivingAt => from \in DrivingAt
                 /\ to \in ConnectingAt => from \in ConnectingAt \/ ~torndown
<1> USE PlacesExist DEF DrivingAt, ConnectingAt, ConnectedAt, EndedAt, ReportingAt, TeardownAt
<1>1. UNCHANGED <<relays, hostEnded>>
  BY DEF Run, UpdateState, UpdateStateSet, UpdateStateCall, ConnectAndRelay, OpenTcp, OpenTcpFails, OpenEmbed,
         OpenEmbedFails, AbandonTcp, Close, Assign, RegisterEmbed, StartRelayFails, Reconnect, ReportRelayEnded,
         InWindow, WindowElapsed, CheckTorndown, CloseSnapshot, CloseTcp, CloseEmbed, Backoff, Teardown,
         TeardownAgain, TeardownFirst, ClearPassword, TeardownTcp, TeardownEmbed, host
<1>2. ASSUME NEW from \in Places, NEW to \in Places, Step(g, from, to), from # "idle", to # "idle",
             to \in DrivingAt => from \in DrivingAt, to \in ConnectingAt => from \in ConnectingAt \/ ~torndown
      PROVE  \E f, t \in Places : /\ Step(g, f, t)
                                  /\ f # "idle" /\ t # "idle"
                                  /\ t \in DrivingAt => f \in DrivingAt
                                  /\ t \in ConnectingAt => f \in ConnectingAt \/ ~torndown
  BY <1>2
<1>3. ASSUME NEW st \in States, Step(g, SetAt[st], ReportAt[st])
      PROVE  \E f, t \in Places : /\ Step(g, f, t)
                                  /\ f # "idle" /\ t # "idle"
                                  /\ t \in DrivingAt => f \in DrivingAt
                                  /\ t \in ConnectingAt => f \in ConnectingAt \/ ~torndown
  <2>1. /\ SetAt[st] \in Places /\ ReportAt[st] \in Places /\ SetAt[st] # "idle" /\ ReportAt[st] # "idle"
        /\ ReportAt[st] \in DrivingAt => SetAt[st] \in DrivingAt
        /\ ReportAt[st] \in ConnectingAt => SetAt[st] \in ConnectingAt
    BY DEF States, SetAt, ReportAt
  <2>2. QED
    BY <1>2, <1>3, <2>1
<1>4. ASSUME NEW st \in States, Step(g, ReportAt[st], AfterReport(g, st))
      PROVE  \E f, t \in Places : /\ Step(g, f, t)
                                  /\ f # "idle" /\ t # "idle"
                                  /\ t \in DrivingAt => f \in DrivingAt
                                  /\ t \in ConnectingAt => f \in ConnectingAt \/ ~torndown
  <2>1. /\ ReportAt[st] \in Places /\ AfterReport(g, st) \in Places
        /\ ReportAt[st] # "idle" /\ AfterReport(g, st) # "idle"
        /\ AfterReport(g, st) \in DrivingAt => ReportAt[st] \in DrivingAt
        /\ AfterReport(g, st) \in ConnectingAt => ReportAt[st] \in ConnectingAt
    BY DEF States, AfterReport, ReportAt
  <2>2. QED
    BY <1>2, <1>4, <2>1
<1>5. CASE UpdateState(g)
  BY <1>1, <1>3, <1>4, <1>5 DEF UpdateState, UpdateStateSet, UpdateStateCall
<1>6. Failed(g) \in {"setError", "backoff"}
  BY DEF Failed
<1>7. CASE ConnectAndRelay(g)
  <2>1. \/ Step(g, "openTcp", "openEmbed") \/ Step(g, "openTcp", Failed(g)) \/ Step(g, "openEmbed", "assign")
        \/ Step(g, "openEmbed", "abandonTcp") \/ Step(g, "abandonTcp", Failed(g)) \/ Step(g, "assign", "register")
        \/ Step(g, "register", "startRelay") \/ Step(g, "register", Failed(g)) \/ Step(g, "startRelay", Failed(g))
    BY <1>7 DEF ConnectAndRelay, OpenTcp, OpenTcpFails, OpenEmbed, OpenEmbedFails, AbandonTcp, Close, Assign,
                RegisterEmbed, StartRelayFails, Step
  <2>2. QED
    BY <1>1, <1>2, <1>6, <2>1
<1>8. CASE Reconnect(g)
  <2>1. \/ Step(g, "ended", "done") \/ Step(g, "ended", "loop") \/ Step(g, "loop", "checkTorndown")
        \/ Step(g, "loop", "setError") \/ Step(g, "checkTorndown", "setError")
        \/ ~torndown /\ Step(g, "checkTorndown", "setConnecting")
        \/ Step(g, "closeSnapshot", "closeTcp") \/ Step(g, "closeTcp", "closeEmbed")
        \/ Step(g, "closeEmbed", "openTcp") \/ Step(g, "backoff", "loop")
    BY <1>8 DEF Reconnect, ReportRelayEnded, InWindow, WindowElapsed, CheckTorndown, CloseSnapshot, CloseTcp,
                CloseEmbed, Close, Backoff
  <2>2. QED
    BY <1>1, <1>2, <2>1
<1>9. CASE Teardown(g)
  <2>1. \/ Step(g, "teardown", "done") \/ Step(g, "teardown", "clearPassword") \/ Step(g, "clearPassword", "teardownTcp")
        \/ Step(g, "teardownTcp", "teardownEmbed") \/ Step(g, "teardownEmbed", "done")
    BY <1>9 DEF Teardown, TeardownAgain, TeardownFirst, ClearPassword, TeardownTcp, TeardownEmbed, Close
  <2>2. QED
    BY <1>1, <1>2, <2>1
<1>10. QED
  BY <1>5, <1>7, <1>8, <1>9 DEF Run
(* Nobody works for the session before session.connect, nor a relay before    *)
(* StartRelay starts it.                                                      *)
StartedInv ==
    /\ pc[Orchestrate] = "idle" => ~hostEnded /\ ~torndown /\ \A g \in Goroutines : pc[g] = "idle"
    /\ \A g \in Relays : g > relays => pc[g] = "idle"

LEMMA StartedInit ==
    ASSUME Init
    PROVE  StartedInv
BY GoroutineNumbers DEF Init, StartedInv

LEMMA StartedStep ==
    ASSUME TypeOK, StartedInv, [Next]_vars
    PROVE  StartedInv'
<1> USE GoroutineNumbers
<1>1. ASSUME NEW g \in Goroutines, NEW from, NEW to, Step(g, from, to),
             from # "idle", to # "idle", UNCHANGED <<relays, hostEnded>>
      PROVE  StartedInv'
  <2>1. pc[g] # "idle" /\ pc'[g] # "idle" /\ \A h \in Goroutines : h # g => pc'[h] = pc[h]
    BY <1>1, StepMoves
  <2>2. pc[Orchestrate] # "idle" /\ pc'[Orchestrate] # "idle"
    BY <2>1 DEF StartedInv
  <2>3. \A r \in Relays : r > relays' => pc'[r] = "idle"
    BY <1>1, <2>1 DEF StartedInv
  <2>4. QED
    BY <2>2, <2>3 DEF StartedInv
<1>2. ASSUME NEW g \in Goroutines, Run(g), ~StartRelay(g)
      PROVE  StartedInv'
  BY <1>1, <1>2, RunMoves
<1>3. ASSUME NEW g \in Goroutines, StartRelay(g)
      PROVE  StartedInv'
  <2>1. /\ pc[g] = "startRelay" /\ relays' = relays + 1 /\ relays + 1 \in Relays
        /\ pc' = [pc EXCEPT ![g] = "setReady", ![relays + 1] = "pump"]
    BY <1>3 DEF StartRelay, TypeOK
  <2>2. pc[Orchestrate] # "idle"
    BY <2>1 DEF StartedInv
  <2>3. pc'[Orchestrate] # "idle"
    BY <2>1, <2>2 DEF TypeOK
  <2>4. \A r \in Relays : r > relays' => pc'[r] = "idle"
    <3>1. ASSUME NEW r \in Relays, r > relays'
          PROVE  pc'[r] = "idle"
      <4>1. r > relays /\ r # relays + 1
        BY <2>1, <3>1 DEF TypeOK, Relays
      <4>2. pc[r] = "idle" /\ r # g
        BY <2>1, <4>1 DEF StartedInv
      <4>3. QED
        BY <2>1, <4>1, <4>2 DEF TypeOK
    <3>2. QED
      BY <3>1
  <2>5. QED
    BY <2>3, <2>4 DEF StartedInv
<1>4. CASE HandleConnect \/ HandleDisconnect
  <2>1. \/ Step(Orchestrate, "idle", "setConnecting")
        \/ hostEnded /\ Step(ReadLoop, "idle", "teardown")
    BY <1>4 DEF HandleConnect, HandleDisconnect
  <2>2. UNCHANGED <<relays, hostEnded>>
    BY <1>4 DEF HandleConnect, HandleDisconnect, host
  <2>3. pc'[Orchestrate] # "idle"
    <3>1. Orchestrate # ReadLoop
      BY SessionAssumption DEF Orchestrate, ReadLoop
    <3>2. QED
      BY <2>1, <3>1, StepMoves DEF StartedInv
  <2>4. \A r \in Relays : r > relays' => pc'[r] = "idle"
    <3>1. ReadLoop \notin Relays /\ Orchestrate \notin Relays
      BY SessionAssumption DEF ReadLoop, Orchestrate, Relays
    <3>2. QED
      BY <2>1, <2>2, <3>1, StepMoves DEF StartedInv
  <2>5. QED
    BY <2>3, <2>4 DEF StartedInv
<1>5. CASE Panic \/ Recover
  BY <1>1, <1>5 DEF Panic, PanicAt, Recover, host
<1>6. CASE HostDisconnect
  BY <1>6 DEF HostDisconnect, StartedInv
<1>7. ASSUME NEW g \in Relays, PumpEnds(g)
      PROVE  StartedInv'
  BY <1>1, <1>7 DEF PumpEnds, host
<1>8. CASE UNCHANGED vars
  BY <1>8 DEF vars, host, fields, StartedInv
<1>9. QED
  BY <1>2, <1>3, <1>4, <1>5, <1>6, <1>7, <1>8 DEF Next

-----------------------------------------------------------------------------
(* The password.  It is zeroed by Teardown, or by the recovered orchestrate,  *)
(* which was the one driver and ends: nobody is left to connect again.        *)

PasswordInv == cleared /\ ~torndown => Driving = {} /\ pc[Orchestrate] # "idle"

LEMMA PasswordStep ==
    ASSUME TypeOK, DriverInv, TeardownInv, StartedInv, PasswordInv, [Next]_vars
    PROVE  PasswordInv'
<1> USE GoroutineNumbers
<1>1. ASSUME NEW g \in Goroutines, NEW from, NEW to, Step(g, from, to), from # "idle", to # "idle",
             to \in DrivingAt => from \in DrivingAt, torndown => torndown', cleared' = cleared
      PROVE  PasswordInv'
  <2>1. pc[g] = from /\ pc'[g] = to /\ \A h \in Goroutines : h # g => pc'[h] = pc[h]
    BY <1>1, StepMoves
  <2>2. Driving' \subseteq Driving
    BY <1>1, <2>1 DEF Driving
  <2>3. pc[Orchestrate] # "idle" => pc'[Orchestrate] # "idle"
    BY <1>1, <2>1
  <2>4. QED
    BY <1>1, <2>2, <2>3 DEF PasswordInv
<1>2. ASSUME NEW g \in Goroutines, Run(g), ~StartRelay(g)
      PROVE  PasswordInv'
  <2>1. CASE ClearPassword(g)
    <3>1. pc[g] = "clearPassword" /\ torndown' = torndown
      BY <2>1, StepMoves DEF ClearPassword
    <3>2. torndown
      BY <3>1 DEF TeardownInv, TornDownAt
    <3>3. QED
      BY <3>1, <3>2 DEF PasswordInv
  <2>2. CASE ~ClearPassword(g)
    <3>1. cleared' = cleared /\ (torndown => torndown')
      <4>1. CASE UpdateState(g)
        BY <4>1 DEF UpdateState, UpdateStateSet, UpdateStateCall, fields
      <4>2. CASE ConnectAndRelay(g)
        BY <1>2, <4>2 DEF ConnectAndRelay, OpenTcp, OpenTcpFails, OpenEmbed, OpenEmbedFails, AbandonTcp, Close,
                          Assign, RegisterEmbed, StartRelayFails, fields
      <4>3. CASE Reconnect(g)
        BY <4>3 DEF Reconnect, ReportRelayEnded, InWindow, WindowElapsed, CheckTorndown, CloseSnapshot, CloseTcp,
                    CloseEmbed, Close, Backoff, fields
      <4>4. CASE TeardownFirst(g)
        BY <4>4 DEF TeardownFirst
      <4>5. CASE TeardownAgain(g) \/ TeardownTcp(g) \/ TeardownEmbed(g)
        BY <4>5 DEF TeardownAgain, TeardownTcp, TeardownEmbed, Close, fields
      <4>6. QED
        BY <1>2, <2>2, <4>1, <4>2, <4>3, <4>4, <4>5 DEF Run, Teardown
    <3>2. QED
      BY <1>1, <1>2, <3>1, RunMoves
  <2>3. QED
    BY <2>1, <2>2
<1>3. ASSUME NEW g \in Goroutines, StartRelay(g)
      PROVE  PasswordInv'
  <2>1. g \in Driving
    BY <1>3 DEF StartRelay, Driving, DrivingAt, ConnectedAt
  <2>2. UNCHANGED <<cleared, torndown>>
    BY <1>3 DEF StartRelay, fields
  <2>3. QED
    BY <2>1, <2>2 DEF PasswordInv
<1>4. CASE HandleConnect
  BY <1>4, StepMoves DEF HandleConnect, fields, PasswordInv
<1>5. CASE HandleDisconnect
  <2>1. Step(ReadLoop, "idle", "teardown") /\ UNCHANGED <<cleared, torndown>>
    BY <1>5 DEF HandleDisconnect, fields
  <2>2. Driving' \subseteq Driving
    BY <2>1, StepMoves DEF Driving, DrivingAt, ConnectingAt, ConnectedAt, EndedAt
  <2>3. pc[Orchestrate] # "idle" => pc'[Orchestrate] # "idle"
    BY <2>1, StepMoves
  <2>4. QED
    BY <2>1, <2>2, <2>3 DEF PasswordInv
<1>6. CASE Recover
  <2>1. Step(Orchestrate, "panic", "setError")
    BY <1>6 DEF Recover
  <2>2. /\ pc[Orchestrate] = "panic" /\ pc'[Orchestrate] = "setError"
        /\ \A h \in Goroutines : h # Orchestrate => pc'[h] = pc[h]
    BY <2>1, StepMoves
  <2>3. Orchestrate \in Driving /\ \A h \in Driving : h = Orchestrate
    BY <2>2 DEF Driving, DrivingAt, DriverInv, OneDriver
  <2>4. "setError" \notin DrivingAt
    BY DEF DrivingAt, ConnectingAt, ConnectedAt, EndedAt
  <2>5. Driving' = {}
    BY <2>2, <2>3, <2>4 DEF Driving
  <2>6. QED
    BY <2>2, <2>5 DEF PasswordInv
<1>7. CASE Panic
  BY <1>1, <1>7 DEF Panic, PanicAt, fields, DrivingAt, ConnectingAt, ConnectedAt
<1>8. ASSUME NEW g \in Relays, PumpEnds(g)
      PROVE  PasswordInv'
  BY <1>1, <1>8 DEF PumpEnds, fields, DrivingAt
<1>9. CASE HostDisconnect \/ UNCHANGED vars
  BY <1>9 DEF HostDisconnect, vars, fields, PasswordInv, Driving
<1>10. QED
  BY <1>2, <1>3, <1>4, <1>5, <1>6, <1>7, <1>8, <1>9 DEF Next

(* What the three invariants above hold together with. *)
LEMMA EndInvariants == Spec => [](TeardownInv /\ StartedInv /\ PasswordInv)
<1>1. Init => TeardownInv /\ StartedInv /\ PasswordInv
  <2>1. Init => ~cleared
    BY DEF Init
  <2>2. QED
    BY <2>1, OrphanInit, StartedInit DEF PasswordInv
<1>2. TypeOK /\ DriverInv /\ TeardownInv /\ StartedInv /\ PasswordInv /\ [Next]_vars
         => TeardownInv' /\ StartedInv' /\ PasswordInv'
  BY TeardownInvStep, StartedStep, PasswordStep
<1>3. QED
  BY <1>1, <1>2, SessionTypeCorrect, DriverAlways, PTL DEF Spec

(* teardown.go:115-123, lifecycle.go:149-158 - a handshake that starts while  *)
(* the session is alive, in whichever reconnect, finds the password.          *)
THEOREM HandshakePassword == Spec => []HandshakeHasPassword
<1>1. ASSUME PasswordInv, NEW g \in Goroutines, pc[g] = "startRelay", ~torndown
      PROVE  ~cleared
  <2>1. g \in Driving
    BY <1>1 DEF Driving, DrivingAt, ConnectedAt
  <2>2. QED
    BY <1>1, <2>1 DEF PasswordInv
<1>2. PasswordInv => HandshakeHasPassword
  BY <1>1 DEF HandshakeHasPassword
<1>3. QED
  BY <1>2, EndInvariants, PTL
-----------------------------------------------------------------------------
(* The channels.  When Teardown met no connect attempt, what was open is what *)
(* it took, nobody can connect again, and it closes the two in turn.          *)

Closing(g) == CASE pc[g] \in {"clearPassword", "teardownTcp"} -> {tcp[g], embed[g]}
                [] pc[g] = "teardownEmbed" -> {embed[g]}
                [] OTHER -> {}

UnracedInv ==
    torndown /\ ~raced =>
        /\ \A g \in Goroutines : pc[g] \notin ConnectingAt
        /\ open = {} \/ \E g \in Goroutines : open \subseteq Closing(g)

(* A step outside Teardown that opens nothing. *)
LEMMA UnracedQuiet ==
    ASSUME TypeOK, UnracedInv, NEW g \in Goroutines, NEW from, NEW to, Step(g, from, to),
           from \notin TornDownAt,
           to \in ConnectingAt => from \in ConnectingAt \/ ~torndown,
           UNCHANGED <<torndown, raced>>,
           torndown /\ ~raced => UNCHANGED <<tcp, embed>> /\ open' \subseteq open
    PROVE  UnracedInv'
<1> SUFFICES ASSUME torndown, ~raced
             PROVE  /\ \A h \in Goroutines : pc'[h] \notin ConnectingAt
                    /\ open' = {} \/ \E h \in Goroutines : open' \subseteq Closing(h)'
  BY DEF UnracedInv
<1>1. pc[g] = from /\ pc'[g] = to /\ \A h \in Goroutines : h # g => pc'[h] = pc[h]
  BY StepMoves
<1>2. \A h \in Goroutines : pc'[h] \notin ConnectingAt
  BY <1>1 DEF UnracedInv
<1>3. ASSUME NEW h \in Goroutines, open \subseteq Closing(h), open' # {}
      PROVE  open' \subseteq Closing(h)'
  <2>1. h # g
    BY <1>1, <1>3 DEF Closing, TornDownAt
  <2>2. QED
    BY <1>1, <1>3, <2>1 DEF Closing
<1>4. QED
  BY <1>2, <1>3 DEF UnracedInv

(* What a goroutine does outside Teardown when it is not connecting. *)
LEMMA OutsideTeardownQuiet ==
    ASSUME TypeOK, NEW g \in Goroutines, UpdateState(g) \/ ConnectAndRelay(g) \/ Reconnect(g), ~StartRelay(g)
    PROVE  /\ pc[g] \notin TornDownAt
           /\ UNCHANGED <<torndown, raced>>
           /\ pc[g] \notin ConnectingAt => UNCHANGED <<tcp, embed>> /\ open' \subseteq open
<1> USE DEF TornDownAt, ConnectingAt
<1>1. CASE UpdateState(g)
  <2>1. UNCHANGED <<torndown, raced, tcp, embed, open>>
    BY <1>1 DEF UpdateState, UpdateStateSet, UpdateStateCall, locals, fields, channels
  <2>2. \E st \in States : pc[g] = SetAt[st] \/ pc[g] = ReportAt[st]
    BY <1>1 DEF UpdateState, UpdateStateSet, UpdateStateCall, Step
  <2>3. pc[g] \notin TornDownAt
    BY <2>2 DEF States, SetAt, ReportAt
  <2>4. QED
    BY <2>1, <2>3
<1>2. CASE OpenTcp(g) \/ OpenTcpFails(g) \/ OpenEmbed(g) \/ OpenEmbedFails(g)
  BY <1>2 DEF OpenTcp, OpenTcpFails, OpenEmbed, OpenEmbedFails, Step, locals, fields, channels
<1>3. CASE AbandonTcp(g) \/ Assign(g) \/ RegisterEmbed(g) \/ StartRelayFails(g)
  BY <1>3 DEF AbandonTcp, Close, Assign, RegisterEmbed, StartRelayFails, Step, locals, fields, channels
<1>4. CASE ReportRelayEnded(g) \/ InWindow(g) \/ WindowElapsed(g) \/ CheckTorndown(g) \/ Backoff(g)
  BY <1>4 DEF ReportRelayEnded, InWindow, WindowElapsed, CheckTorndown, Backoff, Step, locals, fields, channels
<1>5. CASE CloseSnapshot(g) \/ CloseTcp(g) \/ CloseEmbed(g)
  BY <1>5 DEF CloseSnapshot, CloseTcp, CloseEmbed, Close, Step, locals, fields
<1>6. QED
  BY <1>1, <1>2, <1>3, <1>4, <1>5 DEF ConnectAndRelay, Reconnect

LEMMA TeardownUnraced ==
    ASSUME TypeOK, OrphanInv, UnracedInv, NEW g \in Goroutines, Teardown(g)
    PROVE  UnracedInv'
<1> USE DEF TornDownAt, ConnectingAt
<1>1. CASE TeardownAgain(g)
  <2>1. /\ Step(g, "teardown", "done")
        /\ UNCHANGED <<torndown, raced, tcp, embed, open>>
    BY <1>1 DEF TeardownAgain, locals, fields, channels
  <2>2. QED
    BY <2>1, UnracedQuiet
<1>2. CASE TeardownFirst(g)
  <2>1. /\ Step(g, "teardown", "clearPassword") /\ ~torndown /\ UNCHANGED open
        /\ tcp'[g] = tcpChannel /\ embed'[g] = embedChannel
        /\ raced' = \E w \in Goroutines : pc[w] \in ConnectingAt
    BY <1>2 DEF TeardownFirst, TypeOK, channels
  <2>2. pc'[g] = "clearPassword" /\ \A h \in Goroutines : h # g => pc'[h] = pc[h]
    BY <2>1, StepMoves
  <2>3. SUFFICES ASSUME \A w \in Goroutines : pc[w] \notin ConnectingAt
                 PROVE  /\ \A h \in Goroutines : pc'[h] \notin ConnectingAt
                        /\ \E h \in Goroutines : open' \subseteq Closing(h)'
    BY <2>1, Zenon DEF UnracedInv
  <2>4. \A h \in Goroutines : pc'[h] \notin ConnectingAt
    BY <2>2, <2>3
  <2>5. \A h \in Goroutines : Held(h) = {}
    BY <2>3 DEF Held
  <2>6. open \subseteq {tcpChannel, embedChannel}
    BY <2>1, <2>5 DEF OrphanInv, Covered, Driving
  <2>7. Closing(g)' = {tcpChannel, embedChannel}
    BY <2>1, <2>2 DEF Closing
  <2>8. QED
    BY <2>1, <2>4, <2>6, <2>7
<1>3. ASSUME NEW from, NEW to, Step(g, from, to), to \notin ConnectingAt,
             UNCHANGED <<torndown, raced, tcp, embed>>, open' \subseteq open,
             open \subseteq Closing(g) => open' \subseteq Closing(g)'
      PROVE  UnracedInv'
  <2>1. pc'[g] = to /\ \A h \in Goroutines : h # g => pc'[h] = pc[h]
    BY <1>3, StepMoves
  <2>2. \A h \in Goroutines : h # g => Closing(h)' = Closing(h)
    BY <1>3, <2>1 DEF Closing
  <2>3. \A h \in Goroutines : open \subseteq Closing(h) => open' \subseteq Closing(h)'
    BY <1>3, <2>2
  <2>4. QED
    BY <1>3, <2>1, <2>3 DEF UnracedInv
<1>4. CASE ClearPassword(g)
  <2>1. /\ Step(g, "clearPassword", "teardownTcp")
        /\ UNCHANGED <<torndown, raced, tcp, embed, open>>
    BY <1>4 DEF ClearPassword, locals, channels
  <2>2. Closing(g)' = Closing(g)
    BY <2>1, StepMoves DEF Closing
  <2>3. QED
    BY <1>3, <2>1, <2>2
<1>5. CASE TeardownTcp(g)
  <2>1. /\ Step(g, "teardownTcp", "teardownEmbed") /\ open' = open \ {tcp[g]}
        /\ UNCHANGED <<torndown, raced, tcp, embed>>
    BY <1>5 DEF TeardownTcp, Close, locals, fields
  <2>2. Closing(g) = {tcp[g], embed[g]} /\ Closing(g)' = {embed[g]}
    BY <2>1, StepMoves DEF Closing
  <2>3. QED
    BY <1>3, <2>1, <2>2
<1>6. CASE TeardownEmbed(g)
  <2>1. /\ Step(g, "teardownEmbed", "done") /\ open' = open \ {embed[g]}
        /\ UNCHANGED <<torndown, raced, tcp, embed>>
    BY <1>6 DEF TeardownEmbed, Close, locals, fields
  <2>2. Closing(g) = {embed[g]}
    BY <2>1, StepMoves DEF Closing
  <2>3. open \subseteq Closing(g) => open' = {}
    BY <2>1, <2>2
  <2>4. QED
    BY <1>3, <2>1, <2>3
<1>7. QED
  BY <1>1, <1>2, <1>4, <1>5, <1>6 DEF Teardown

LEMMA UnracedStep ==
    ASSUME TypeOK, StartedInv, OrphanInv, UnracedInv, [Next]_vars
    PROVE  UnracedInv'
<1> USE GoroutineNumbers
<1>1. ASSUME NEW g \in Goroutines, UpdateState(g) \/ ConnectAndRelay(g) \/ Reconnect(g), ~StartRelay(g)
      PROVE  UnracedInv'
  <2>1. PICK from, to \in Places : Step(g, from, to) /\ (to \in ConnectingAt => from \in ConnectingAt \/ ~torndown)
    BY <1>1, RunMoves DEF Run
  <2>2. pc[g] = from
    BY <2>1, StepMoves
  <2>3. torndown /\ ~raced => pc[g] \notin ConnectingAt
    BY DEF UnracedInv
  <2>4. QED
    BY <1>1, <2>1, <2>2, <2>3, OutsideTeardownQuiet, UnracedQuiet
<1>2. ASSUME NEW g \in Goroutines, StartRelay(g)
      PROVE  UnracedInv'
  <2>1. /\ pc[g] = "startRelay" /\ relays + 1 \in Relays /\ relays + 1 > relays
        /\ pc' = [pc EXCEPT ![g] = "setReady", ![relays + 1] = "pump"]
        /\ UNCHANGED <<torndown, raced, open>>
        /\ \A h \in Goroutines : h # relays + 1 => tcp'[h] = tcp[h] /\ embed'[h] = embed[h]
    BY <1>2 DEF StartRelay, TypeOK, fields, channels
  <2>2. pc[relays + 1] = "idle"
    BY <2>1 DEF StartedInv
  <2>3. \A h \in Goroutines : pc'[h] \in {"setReady", "pump", pc[h]}
    BY <2>1 DEF TypeOK
  <2>4. \A h \in Goroutines : pc'[h] \in ConnectingAt => pc[h] \in ConnectingAt
    BY <2>3 DEF ConnectingAt
  <2>5. ASSUME NEW h \in Goroutines, open \subseteq Closing(h), open # {}
        PROVE  open' \subseteq Closing(h)'
    <3>1. h # g /\ h # relays + 1
      BY <2>1, <2>2, <2>5 DEF Closing
    <3>2. pc'[h] = pc[h]
      BY <2>1, <3>1 DEF TypeOK
    <3>3. QED
      BY <2>1, <2>5, <3>1, <3>2 DEF Closing
  <2>6. QED
    BY <2>1, <2>4, <2>5 DEF UnracedInv
<1>3. CASE HandleConnect
  <2>1. Step(Orchestrate, "idle", "setConnecting") /\ UNCHANGED <<torndown, raced, tcp, embed, open>>
    BY <1>3 DEF HandleConnect, locals, fields, channels
  <2>2. ~torndown
    BY <2>1, StepMoves DEF StartedInv
  <2>3. QED
    BY <2>1, <2>2, UnracedQuiet DEF TornDownAt
<1>4. CASE HandleDisconnect
  <2>1. Step(ReadLoop, "idle", "teardown") /\ UNCHANGED <<torndown, raced, tcp, embed, open>>
    BY <1>4 DEF HandleDisconnect, locals, fields, channels
  <2>2. QED
    BY <2>1, UnracedQuiet DEF TornDownAt, ConnectingAt
<1>5. CASE Recover
  <2>1. Step(Orchestrate, "panic", "setError") /\ UNCHANGED <<torndown, raced, tcp, embed, open>>
    BY <1>5 DEF Recover, locals, channels
  <2>2. QED
    BY <2>1, UnracedQuiet DEF TornDownAt, ConnectingAt
<1>a. CASE Panic
  <2>1. PICK place \in PanicAt : Step(Orchestrate, place, "panic")
    BY <1>a DEF Panic
  <2>2. open' \subseteq open /\ UNCHANGED <<torndown, raced, tcp, embed>>
    BY <1>a DEF Panic, locals, fields
  <2>3. QED
    BY <2>1, <2>2, UnracedQuiet DEF PanicAt, TornDownAt, ConnectingAt
<1>6. ASSUME NEW g \in Relays, PumpEnds(g)
      PROVE  UnracedInv'
  <2>1. Step(g, "pump", "ended") /\ UNCHANGED <<torndown, raced, tcp, embed, open>>
    BY <1>6 DEF PumpEnds, locals, fields, channels
  <2>2. QED
    BY <2>1, UnracedQuiet DEF TornDownAt, ConnectingAt
<1>7. CASE HostDisconnect \/ UNCHANGED vars
  BY <1>7 DEF HostDisconnect, vars, locals, fields, channels, UnracedInv, Closing
<1>8. QED
  BY <1>1, <1>2, <1>3, <1>4, <1>5, <1>a, <1>6, <1>7, TeardownUnraced DEF Next, Run

(* teardown.go:42-71 - when Teardown and everybody else have come to rest, no *)
(* channel is open, unless Teardown met a connect attempt on its way to       *)
(* assigning its channels.                                                    *)
THEOREM TeardownCloses == Spec => []TeardownClosesUnlessRaced
<1>1. Init => OrphanInv /\ UnracedInv
  BY OrphanInit DEF Init, UnracedInv
<1>2. TypeOK /\ DriverInv /\ TeardownInv /\ StartedInv /\ OrphanInv /\ UnracedInv /\ [Next]_vars
         => OrphanInv' /\ UnracedInv'
  BY OrphanStep, UnracedStep
<1>3. UnracedInv => TeardownClosesUnlessRaced
  BY DEF UnracedInv, TeardownClosesUnlessRaced, AtRest, Closing
<1>4. QED
  BY <1>1, <1>2, <1>3, EndInvariants, SessionTypeCorrect, DriverAlways, PTL DEF Spec
================================================================================
