------------------------------- MODULE RelayProofs -------------------------------
(***************************************************************************)
(* What Relay keeps for windows, buffers, frames and messages of any size: *)
(* its types, that the credit the plugin holds as a sender, what the host   *)
(* has still to drain and the grants on their way make up the window, and   *)
(* that the read loop never waits for a pump while no frame holds more than *)
(* one unit.                                                                *)
(***************************************************************************)
EXTENDS Relay, QueueCounts

USE RelayAssumption

-----------------------------------------------------------------------------
(* Types. *)

Frames == {Data(c, u) : c \in Channels, u \in Nat} \cup {Credit(c) : c \in Channels} \cup {Pause, Resume}

(* What a host may be, and that it stays the same one.                        *)
LEMMA HostFields ==
    ASSUME host \in Hosts
    PROVE  /\ host.reads \subseteq Nat \ {0} /\ host.ends \subseteq Nat \ {0} /\ host.further \subseteq Nat
           /\ host.pipe \in Nat \ {0} /\ host.pauses \in Nat
BY DEF Host

LEMMA SameHost == [Next]_vars => host' = host
BY DEF Next, HostFrames, ReadLoop, Pump, Forward, ServerSends, BrowserStarts, BrowserGoesOn, MessageFrame, HostData,
       HostPauses, HostResumes, HostDrains, DeliverData, ReadCredit, ReadPause, ReadResume, CheckGate, GateCloses,
       ReadClientInit, TakePayload, TakeRest, Write, Grant, PumpFails, CloseBoth, PumpUnblocks, vars

(* TypeOK says nothing of stdin, nor that a pump has a unit in hand to        *)
(* forward, which its last step takes off.                                    *)
TypeInv ==
    /\ TypeOK
    /\ stdin \in Seq(Frames)
    /\ \A c \in Channels : pump[c] \in {"write", "grant"} => left[c] > 0

LEMMA FrameShapes ==
    /\ \A f \in Frames : f.kind = "data" => f.ch \in Channels /\ f.units \in Nat
    /\ \A f \in Frames : f.kind = "credit" => f.ch \in Channels /\ f = Credit(f.ch)
    /\ \A f \in Frames : f.kind # "credit" => \A c : f # Credit(c)
    /\ \A c \in Channels, u \in Nat : Data(c, u) \in Frames /\ Data(c, u).kind # "credit"
    /\ \A c \in Channels : Credit(c) \in Frames
    /\ Pause \in Frames /\ Resume \in Frames /\ Pause.kind # "credit" /\ Resume.kind # "credit"
    /\ \A c, d \in Channels : Credit(c) = Credit(d) => c = d
<1>1. ASSUME NEW f \in Frames
      PROVE  \/ \E c \in Channels, u \in Nat : f = Data(c, u)
             \/ \E c \in Channels : f = Credit(c)
             \/ f = Pause \/ f = Resume
  BY DEF Frames
<1>2. ASSUME NEW f \in Frames, f.kind = "data"
      PROVE  f.ch \in Channels /\ f.units \in Nat
  BY <1>1, <1>2 DEF Data, Credit, Pause, Resume
<1>3. ASSUME NEW f \in Frames, f.kind = "credit"
      PROVE  f.ch \in Channels /\ f = Credit(f.ch)
  BY <1>1, <1>3 DEF Data, Credit, Pause, Resume
<1>4. \A f \in Frames : f.kind # "credit" => \A c : f # Credit(c)
  BY DEF Credit
<1>5. /\ \A c \in Channels, u \in Nat : Data(c, u) \in Frames /\ Data(c, u).kind # "credit"
      /\ \A c \in Channels : Credit(c) \in Frames
      /\ Pause \in Frames /\ Resume \in Frames /\ Pause.kind # "credit" /\ Resume.kind # "credit"
  BY DEF Frames, Data, Pause, Resume
<1>6. \A c, d \in Channels : Credit(c) = Credit(d) => c = d
  BY DEF Credit
<1>7. QED
  BY <1>2, <1>3, <1>4, <1>5, <1>6

LEMMA FieldTypes ==
    ASSUME TypeInv
    PROVE  /\ hostCred \in [Channels -> 0..MaxCred] /\ left \in [Channels -> Nat]
           /\ recvQ \in [Channels -> Seq(Nat)]
           /\ sendCred \in [Channels -> Nat] /\ hostQ \in [Channels -> Nat]
BY DEF TypeInv, TypeOK

LEMMA OtherChannel == \A c \in Channels : Other(c) \in Channels /\ Other(c) # c /\ Other(Other(c)) = c
BY DEF Channels, Other

(* Every notification has a grant in it, whatever the policy says. *)
LEMMA GrantAtLeastOne ==
    ASSUME TypeInv, NEW c \in Channels
    PROVE  GrantAmount(c) \in Nat \ {0}
<1>1. ASSUME NEW r \in Nat
      PROVE  PolicyGrant(r, 1) \in Int
  <2>1. EmbedCredit \in Nat /\ EmbedCredit > 0 /\ (1 * r) \div EmbedCredit \in Int
    BY <1>1
  <2>2. QED
    BY <2>1 DEF PolicyGrant
<1>2. \A r \in Nat : CouplingGrant(r) \in Nat \ {0}
  BY <1>1 DEF CouplingGrant
<1>3. sendCred["embed"] \in Nat
  BY DEF TypeInv, TypeOK, Channels
<1>4. QED
  BY <1>2, <1>3 DEF GrantAmount

LEMMA InitTypes == Init => TypeInv
<1> SUFFICES ASSUME Init PROVE TypeInv
  OBVIOUS
<1>1. PICK used \in 0..TcpCredit :
        hostCred = [c \in Channels |-> IF c = "tcp" THEN 2 * TcpCredit - used ELSE EmbedCredit - Ungranted]
  BY DEF Init
<1>2. 2 * TcpCredit - used \in 0..MaxCred /\ EmbedCredit - Ungranted \in 0..MaxCred
  OBVIOUS
<1>3. hostCred \in [Channels -> 0..MaxCred] /\ sendCred \in [Channels -> Nat]
  BY <1>1, <1>2 DEF Init
<1>a. host \in Hosts
  BY DEF Init
<1>4. stdin \in Seq(Frames)
  <2>1. Data("embed", 0) \in Frames
    BY FrameShapes DEF Channels
  <2>2. QED
    BY <2>1 DEF Init
<1>5. /\ hostQ \in [Channels -> Nat] /\ left \in [Channels -> Nat] /\ pump \in [Channels -> PumpPlaces]
      /\ recvQ \in [Channels -> Seq(Nat)] /\ \A c \in Channels : Len(recvQ[c]) <= RecvCap
      /\ \A c \in Channels : pump[c] \notin {"write", "grant"}
  BY DEF Init, PumpPlaces
<1>6. /\ gate \in Nat /\ waitGate \in Nat /\ pauses \in 0..host.pauses
      /\ msgLeft \in Nat /\ hostPaused \in BOOLEAN /\ closed \in BOOLEAN
  <2>1. hostPaused \in BOOLEAN /\ closed \in BOOLEAN
    BY Zenon DEF Init
  <2>2. gate = 0 \/ gate = 1
    BY DEF Init
  <2>3. waitGate \in Nat /\ pauses \in 0..host.pauses /\ msgLeft \in Nat
    BY <1>a, HostFields DEF Init
  <2>4. QED
    BY <2>1, <2>2, <2>3
<1>7. QED
  BY <1>3, <1>a, <1>4, <1>5, <1>6 DEF TypeInv, TypeOK

LEMMA WriteType ==
    ASSUME TypeInv, NEW f \in Frames, HostWrites(f)
    PROVE  stdin' \in Seq(Frames)
BY DEF TypeInv, HostWrites

LEMMA ReadType ==
    ASSUME TypeInv, NEW k, Incoming(k)
    PROVE  /\ stdin' \in Seq(Frames) /\ stdin # <<>> /\ stdin' = Tail(stdin)
           /\ Head(stdin) \in Frames /\ Head(stdin).kind = k
BY DEF TypeInv, Incoming

(* The messages that end in a browser's frame, and what is left of the next.  *)
LEMMA BrowserFrames ==
    ASSUME TypeInv, BrowserStarts \/ BrowserGoesOn
    PROVE  \E u \in Nat, k \in Nat : MessageFrame(u, k) /\ u \in {0} \cup host.ends
<1>1. host.ends \subseteq Nat /\ host.further \subseteq Nat /\ msgLeft \in Nat
  BY HostFields DEF TypeInv, TypeOK
<1>2. CASE BrowserStarts
  BY <1>1, <1>2 DEF BrowserStarts
<1>3. CASE msgLeft > 1 /\ MessageFrame(0, msgLeft - 1)
  BY <1>1, <1>3
<1>4. CASE \E u \in host.ends, k \in host.further : MessageFrame(u, k)
  BY <1>1, <1>4
<1>5. QED
  BY <1>2, <1>3, <1>4 DEF BrowserGoesOn

(* What the host does. *)
LEMMA HostTypes ==
    ASSUME TypeInv,
           HostFrames \/ HostPauses \/ HostResumes \/ \E c \in Channels : HostDrains(c)
    PROVE  TypeInv'
<1> USE FrameShapes
<1>1. ASSUME NEW c \in Channels, NEW u \in Nat, HostData(c, u), msgLeft' \in Nat
      PROVE  TypeInv'
  <2>1. Data(c, u) \in Frames
    OBVIOUS
  <2>2. stdin' \in Seq(Frames)
    BY <1>1, <2>1, WriteType DEF HostData
  <2>3. hostCred' \in [Channels -> 0..MaxCred]
    BY <1>1 DEF HostData, TypeInv, TypeOK
  <2>4. QED
    BY <1>1, <2>2, <2>3 DEF HostData, TypeInv, TypeOK
<1>2. CASE ServerSends
  <2>1. PICK r \in host.reads : HostData("tcp", r) /\ UNCHANGED msgLeft
    BY <1>2 DEF ServerSends
  <2>2. msgLeft' \in Nat /\ r \in Nat /\ "tcp" \in Channels
    BY <2>1, HostFields DEF TypeInv, TypeOK, Channels
  <2>3. QED
    BY <1>1, <2>1, <2>2
<1>3. CASE BrowserStarts \/ BrowserGoesOn
  <2>1. PICK u \in Nat, k \in Nat : MessageFrame(u, k)
    BY <1>3, BrowserFrames
  <2>2. HostData("embed", u) /\ msgLeft' \in Nat /\ "embed" \in Channels
    BY <2>1 DEF MessageFrame, Channels
  <2>3. QED
    BY <1>1, <2>2
<1>4. CASE HostPauses
  <2>1. stdin' \in Seq(Frames)
    BY <1>4, WriteType DEF HostPauses
  <2>2. pauses' \in 0..host.pauses /\ hostPaused' \in BOOLEAN
    BY <1>4, HostFields DEF HostPauses, TypeInv, TypeOK
  <2>3. QED
    BY <1>4, <2>1, <2>2 DEF HostPauses, TypeInv, TypeOK
<1>5. CASE HostResumes
  <2>1. stdin' \in Seq(Frames)
    BY <1>5, WriteType DEF HostResumes
  <2>2. QED
    BY <1>5, <2>1 DEF HostResumes, TypeInv, TypeOK
<1>6. ASSUME NEW c \in Channels, HostDrains(c)
      PROVE  TypeInv'
  <2>1. stdin' \in Seq(Frames)
    BY <1>6, WriteType DEF HostDrains
  <2>2. hostQ' \in [Channels -> Nat]
    BY <1>6 DEF HostDrains, TypeInv, TypeOK
  <2>3. QED
    BY <1>6, <2>1, <2>2 DEF HostDrains, hostVars, TypeInv, TypeOK
<1>7. QED
  BY <1>2, <1>3, <1>4, <1>5, <1>6 DEF HostFrames

LEMMA ReadLoopTypes ==
    ASSUME TypeInv, ReadLoop
    PROVE  TypeInv'
<1>1. CASE DeliverData
  <2>1. stdin' \in Seq(Frames) /\ Head(stdin).ch \in Channels /\ Head(stdin).units \in Nat
    BY <1>1, ReadType, FrameShapes DEF DeliverData
  <2>2. recvQ' \in [Channels -> Seq(Nat)] /\ \A c \in Channels : Len(recvQ'[c]) <= RecvCap
    BY <1>1, <2>1 DEF DeliverData, HasRoom, TypeInv, TypeOK
  <2>3. QED
    BY <1>1, <2>1, <2>2 DEF DeliverData, hostVars, TypeInv, TypeOK
<1>2. CASE ReadCredit
  <2>1. stdin' \in Seq(Frames) /\ Head(stdin).ch \in Channels
    BY <1>2, ReadType, FrameShapes DEF ReadCredit
  <2>2. sendCred' \in [Channels -> Nat]
    BY <1>2, <2>1 DEF ReadCredit, TypeInv, TypeOK
  <2>3. QED
    BY <1>2, <2>1, <2>2 DEF ReadCredit, hostVars, TypeInv, TypeOK
<1>3. CASE ReadPause \/ ReadResume
  <2>1. stdin' \in Seq(Frames) /\ gate' \in Nat
    BY <1>3, ReadType DEF ReadPause, ReadResume, TypeInv, TypeOK
  <2>2. QED
    BY <1>3, <2>1 DEF ReadPause, ReadResume, hostVars, TypeInv, TypeOK
<1>4. QED
  BY <1>1, <1>2, <1>3 DEF ReadLoop

(* A pump goes to another place and touches nothing but what the step says. *)
LEMMA MoveType ==
    ASSUME TypeInv, NEW c \in Channels, NEW place \in PumpPlaces, Move(c, place)
    PROVE  /\ pump' \in [Channels -> PumpPlaces] /\ pump'[c] = place
           /\ \A d \in Channels : d # c => pump'[d] = pump[d]
BY DEF TypeInv, TypeOK, Move

LEMMA DecidePlaces == \A c \in Channels : Decide(c) \subseteq {"write", "grant"} /\ Decide(c) \subseteq PumpPlaces
BY DEF Decide, PumpPlaces

LEMMA PumpTypes ==
    ASSUME TypeInv, CloseBoth \/ \E c \in Channels : Pump(c) \/ PumpFails(c)
    PROVE  TypeInv'
<1> USE DEF PumpPlaces
<1>1. ASSUME NEW c \in Channels, TakePayload(c)
      PROVE  TypeInv'
  <2>1. recvQ[c] \in Seq(Nat) /\ recvQ[c] # <<>> /\ Len(recvQ[c]) <= RecvCap
    BY <1>1 DEF TakePayload, TypeInv, TypeOK
  <2>2. Head(recvQ[c]) \in Nat /\ Tail(recvQ[c]) \in Seq(Nat) /\ Len(Tail(recvQ[c])) <= RecvCap
    BY <2>1
  <2>3. recvQ' \in [Channels -> Seq(Nat)] /\ \A d \in Channels : Len(recvQ'[d]) <= RecvCap
    BY <1>1, <2>2 DEF TakePayload, TypeInv, TypeOK
  <2>4. left' \in [Channels -> Nat] /\ left'[c] = Head(recvQ[c]) /\ \A d \in Channels : d # c => left'[d] = left[d]
    BY <1>1, <2>2 DEF TakePayload, TypeInv, TypeOK
  <2>5. /\ pump' \in [Channels -> PumpPlaces]
        /\ (pump'[c] \in {"write", "grant"} /\ Head(recvQ[c]) # 0) \/ pump'[c] = "read"
        /\ \A d \in Channels : d # c => pump'[d] = pump[d]
    <3>1. CASE UNCHANGED pump
      BY <1>1, <3>1 DEF TakePayload, TypeInv, TypeOK
    <3>2. CASE Head(recvQ[c]) > 0 /\ \E place \in Decide(c) : Move(c, place)
      BY <3>2, DecidePlaces, MoveType
    <3>3. QED
      BY <1>1, <3>1, <3>2 DEF TakePayload
  <2>6. \A d \in Channels : pump'[d] \in {"write", "grant"} => left'[d] > 0
    <3> SUFFICES ASSUME NEW d \in Channels, pump'[d] \in {"write", "grant"}
                 PROVE  left'[d] > 0
      OBVIOUS
    <3>1. CASE d # c
      <4>1. pump'[d] = pump[d] /\ left'[d] = left[d]
        BY <2>4, <2>5, <3>1
      <4>2. QED
        BY <4>1 DEF TypeInv
    <3>2. CASE d = c
      <4>1. left'[d] = Head(recvQ[c]) /\ Head(recvQ[c]) # 0
        BY <2>4, <2>5, <3>2
      <4>2. QED
        BY <2>2, <4>1
    <3>3. QED
      BY <3>1, <3>2
  <2>7. QED
    BY <1>1, <2>3, <2>4, <2>5, <2>6 DEF TakePayload, hostVars, TypeInv, TypeOK
<1>2. ASSUME NEW c \in Channels, TakeRest(c)
      PROVE  TypeInv'
  <2>1. /\ pump' \in [Channels -> PumpPlaces] /\ left[c] > 0
        /\ \A d \in Channels : d # c => pump'[d] = pump[d]
    BY <1>2, DecidePlaces, MoveType DEF TakeRest
  <2>2. QED
    BY <1>2, <2>1 DEF TakeRest, hostVars, TypeInv, TypeOK
<1>3. ASSUME NEW c \in Channels, Write(c)
      PROVE  TypeInv'
  <2>1. /\ pump' \in [Channels -> PumpPlaces]
        /\ pump'[c] = "read" \/ (pump'[c] = "grant" /\ pump[c] = "write")
        /\ \A d \in Channels : d # c => pump'[d] = pump[d]
    <3>1. \/ pump[c] = "write" /\ Move(c, "grant")
          \/ pump[c] = "initWrite" /\ Move(c, "read")
      BY <1>3 DEF Write
    <3>2. CASE pump[c] = "write" /\ Move(c, "grant")
      BY <3>2, MoveType
    <3>3. CASE Move(c, "read")
      BY <3>3, MoveType
    <3>4. QED
      BY <3>1, <3>2, <3>3
  <2>2. sendCred' \in [Channels -> Nat] /\ hostQ' \in [Channels -> Nat]
    BY <1>3, OtherChannel DEF Write, TypeInv, TypeOK
  <2>3. \A d \in Channels : pump'[d] \in {"write", "grant"} => left[d] > 0
    BY <2>1 DEF TypeInv
  <2>4. QED
    BY <1>3, <2>1, <2>2, <2>3 DEF Write, hostVars, TypeInv, TypeOK
<1>4. ASSUME NEW c \in Channels, Grant(c)
      PROVE  TypeInv'
  <2>1. /\ pump' \in [Channels -> PumpPlaces] /\ pump'[c] \in {"gate", "read"}
        /\ \A d \in Channels : d # c => pump'[d] = pump[d]
    BY <1>4, MoveType DEF Grant
  <2>2. hostCred[c] + GrantAmount(c) \in Nat
    BY GrantAtLeastOne DEF TypeInv, TypeOK
  <2>3. hostCred' \in [Channels -> 0..MaxCred]
    BY <1>4, <2>2 DEF Grant, TypeInv, TypeOK
  <2>4. left[c] > 0
    BY <1>4 DEF Grant, TypeInv
  <2>5. left' \in [Channels -> Nat] /\ \A d \in Channels : d # c => left'[d] = left[d]
    BY <1>4, <2>4 DEF Grant, TypeInv, TypeOK
  <2>6. \A d \in Channels : pump'[d] \in {"write", "grant"} => left'[d] > 0
    BY <2>1, <2>5 DEF TypeInv
  <2>7. QED
    BY <1>4, <2>1, <2>3, <2>5, <2>6 DEF Grant, hostVars, TypeInv, TypeOK
<1>5. ASSUME NEW c \in Channels, PumpUnblocks(c) \/ PumpFails(c)
      PROVE  TypeInv'
  <2>1. /\ pump' \in [Channels -> PumpPlaces] /\ pump'[c] = "ended"
        /\ \A d \in Channels : d # c => pump'[d] = pump[d]
    BY <1>5, MoveType DEF PumpUnblocks, PumpFails
  <2>2. QED
    BY <1>5, <2>1 DEF PumpUnblocks, PumpFails, hostVars, TypeInv, TypeOK
<1>6. CASE CheckGate \/ GateCloses
  <2>1. /\ pump' \in [Channels -> PumpPlaces] /\ waitGate' \in Nat
        /\ pump'["tcp"] \in {"read", "waitGate", "gate"}
        /\ \A d \in Channels : d # "tcp" => pump'[d] = pump[d]
    BY <1>6 DEF CheckGate, GateCloses, Move, Channels, TypeInv, TypeOK
  <2>2. QED
    BY <1>6, <2>1 DEF CheckGate, GateCloses, hostVars, TypeInv, TypeOK
<1>7. CASE ReadClientInit
  <2>1. recvQ' \in [Channels -> Seq(Nat)] /\ \A d \in Channels : Len(recvQ'[d]) <= RecvCap
    <3>1. recvQ["embed"] \in Seq(Nat) /\ recvQ["embed"] # <<>> /\ Len(recvQ["embed"]) <= RecvCap
      BY <1>7 DEF ReadClientInit, Channels, TypeInv, TypeOK
    <3>2. Tail(recvQ["embed"]) \in Seq(Nat) /\ Len(Tail(recvQ["embed"])) <= RecvCap
      BY <3>1
    <3>3. QED
      BY <1>7, <3>2 DEF ReadClientInit, Channels, TypeInv, TypeOK
  <2>2. /\ pump' \in [Channels -> PumpPlaces] /\ pump'["embed"] = "initWrite"
        /\ \A d \in Channels : d # "embed" => pump'[d] = pump[d]
    BY <1>7 DEF ReadClientInit, Move, Channels, TypeInv, TypeOK
  <2>3. QED
    BY <1>7, <2>1, <2>2 DEF ReadClientInit, hostVars, TypeInv, TypeOK
<1>8. CASE CloseBoth
  BY <1>8 DEF CloseBoth, hostVars, TypeInv, TypeOK
<1>9. QED
  BY <1>1, <1>2, <1>3, <1>4, <1>5, <1>6, <1>7, <1>8 DEF Pump, Forward

LEMMA StepTypes == TypeInv /\ [Next]_vars => TypeInv'
<1> SUFFICES ASSUME TypeInv, [Next]_vars PROVE TypeInv'
  OBVIOUS
<1>1. CASE UNCHANGED vars
  BY <1>1 DEF vars, hostVars, TypeInv, TypeOK
<1>2. QED
  BY <1>1, HostTypes, ReadLoopTypes, PumpTypes DEF Next

LEMMA TypesAlways == Spec => []TypeInv
BY InitTypes, StepTypes, PTL DEF Spec

(* pump.go:223-305, credit.go:182-252 - the shared state keeps its types; a   *)
(* receive buffer never holds more than its capacity, and no grant or write   *)
(* takes a count below zero.                                                  *)
THEOREM RelayTypeCorrect == Spec => []TypeOK
<1>1. TypeInv => TypeOK
  BY DEF TypeInv
<1>2. QED
  BY <1>1, TypesAlways, PTL

-----------------------------------------------------------------------------
(* The window of the plugin as a sender.  A unit of credit is with the         *)
(* plugin, then with the frame the host has to drain, then on stdin.           *)

Window(c) == IF c = "tcp" THEN TcpCredit ELSE EmbedCredit

LEMMA CreditsType ==
    ASSUME TypeInv, NEW c
    PROVE  CreditsInStdin(c) = Cardinality(OccursAt(Credit(c), stdin)) /\ CreditsInStdin(c) \in Nat
<1>1. stdin \in Seq(Frames) /\ DOMAIN stdin = 1..Len(stdin)
  BY DEF TypeInv
<1>2. QED
  BY <1>1, OccursFinite DEF CreditsInStdin, OccursAt

LEMMA CreditsTypeNext ==
    ASSUME stdin' \in Seq(Frames), NEW c
    PROVE  CreditsInStdin(c)' = Cardinality(OccursAt(Credit(c), stdin')) /\ CreditsInStdin(c)' \in Nat
<1>1. DOMAIN stdin' = 1..Len(stdin')
  OBVIOUS
<1>2. QED
  BY <1>1, OccursFinite DEF CreditsInStdin, OccursAt

LEMMA WriteCounts ==
    ASSUME TypeInv, NEW f \in Frames, HostWrites(f), NEW c
    PROVE  CreditsInStdin(c)' = CreditsInStdin(c) + One(f = Credit(c))
<1>1. stdin \in Seq(Frames) /\ stdin' = Append(stdin, f) /\ stdin' \in Seq(Frames)
  BY WriteType DEF TypeInv, HostWrites
<1>2. Cardinality(OccursAt(Credit(c), stdin')) = Cardinality(OccursAt(Credit(c), stdin)) + One(f = Credit(c))
  BY <1>1, OccursAppend
<1>3. QED
  BY <1>1, <1>2, CreditsType, CreditsTypeNext

LEMMA ReadCounts ==
    ASSUME TypeInv, NEW k, Incoming(k), NEW c
    PROVE  CreditsInStdin(c) = CreditsInStdin(c)' + One(Head(stdin) = Credit(c))
<1>1. stdin \in Seq(Frames) /\ stdin # <<>> /\ stdin' = Tail(stdin) /\ stdin' \in Seq(Frames)
  BY ReadType DEF TypeInv
<1>2. Cardinality(OccursAt(Credit(c), stdin)) = Cardinality(OccursAt(Credit(c), stdin')) + One(Head(stdin) = Credit(c))
  BY <1>1, OccursTail
<1>3. QED
  BY <1>1, <1>2, CreditsType, CreditsTypeNext

LEMMA WindowInit == Init => SendWindowConserved
<1> SUFFICES ASSUME Init, NEW c \in Channels
             PROVE  sendCred[c] + hostQ[c] + CreditsInStdin(c) = Window(c)
  BY DEF SendWindowConserved, Window
<1>1. OccursAt(Credit(c), stdin) = {}
  BY FrameShapes DEF Init, OccursAt, Data, Credit
<1>2. CreditsInStdin(c) = 0
  BY <1>1, InitTypes, CreditsType, FS_EmptySet
<1>3. QED
  BY <1>2 DEF Init, Window

(* A step that moves no credit of the plugin's. *)
LEMMA WindowKept ==
    ASSUME SendWindowConserved, UNCHANGED <<sendCred, hostQ>>,
           \A c \in Channels : CreditsInStdin(c)' = CreditsInStdin(c)
    PROVE  SendWindowConserved'
BY DEF SendWindowConserved

LEMMA WindowStep ==
    ASSUME TypeInv, SendWindowConserved, [Next]_vars
    PROVE  SendWindowConserved'
<1>0. \A c \in Channels : /\ sendCred[c] + hostQ[c] + CreditsInStdin(c) = Window(c)
                          /\ sendCred[c] \in Nat /\ hostQ[c] \in Nat /\ CreditsInStdin(c) \in Nat
  <2>1. \A c \in Channels : sendCred[c] \in Nat /\ hostQ[c] \in Nat
    BY FieldTypes
  <2>2. QED
    BY <2>1, CreditsType DEF SendWindowConserved, Window
<1>1. ASSUME NEW d \in Channels, HostDrains(d)
      PROVE  SendWindowConserved'
  <2> SUFFICES ASSUME NEW c \in Channels
               PROVE  sendCred'[c] + hostQ'[c] + CreditsInStdin(c)' = Window(c)
    BY DEF SendWindowConserved, Window
  <2>1. Credit(d) \in Frames /\ (Credit(d) = Credit(c) <=> d = c)
    BY FrameShapes
  <2>2. CreditsInStdin(c)' = CreditsInStdin(c) + One(d = c)
    BY <1>1, <2>1, WriteCounts DEF HostDrains, One
  <2>3. UNCHANGED sendCred /\ hostQ'[c] = hostQ[c] - One(d = c)
    <3>1. hostQ \in [Channels -> Nat]
      BY FieldTypes
    <3>2. UNCHANGED sendCred /\ hostQ' = [hostQ EXCEPT ![d] = @ - 1]
      BY <1>1 DEF HostDrains
    <3>3. QED
      BY <3>1, <3>2 DEF One
  <2>4. One(d = c) \in Nat
    BY DEF One
  <2>5. QED
    BY <1>0, <2>2, <2>3, <2>4
<1>2. CASE ReadCredit
  <2> SUFFICES ASSUME NEW c \in Channels
               PROVE  sendCred'[c] + hostQ'[c] + CreditsInStdin(c)' = Window(c)
    BY DEF SendWindowConserved, Window
  <2>1. PICK d \in Channels : d = Head(stdin).ch /\ Head(stdin) = Credit(d)
    BY <1>2, ReadType, FrameShapes DEF ReadCredit
  <2>2. Head(stdin) = Credit(c) <=> d = c
    BY <2>1, FrameShapes
  <2>3. CreditsInStdin(c) = CreditsInStdin(c)' + One(d = c)
    BY <1>2, <2>2, ReadCounts DEF ReadCredit, One
  <2>4. UNCHANGED hostQ /\ sendCred'[c] = sendCred[c] + One(d = c)
    <3>1. sendCred \in [Channels -> Nat]
      BY FieldTypes
    <3>2. UNCHANGED hostQ /\ sendCred' = [sendCred EXCEPT ![d] = @ + 1]
      BY <1>2, <2>1 DEF ReadCredit
    <3>3. QED
      BY <3>1, <3>2 DEF One
  <2>5. One(d = c) \in Nat /\ CreditsInStdin(c)' \in Nat
    BY <1>2, ReadType, CreditsTypeNext DEF ReadCredit, One
  <2>6. QED
    BY <1>0, <2>3, <2>4, <2>5
<1>3. ASSUME NEW d \in Channels, Write(d)
      PROVE  SendWindowConserved'
  <2> SUFFICES ASSUME NEW c \in Channels
               PROVE  sendCred'[c] + hostQ'[c] + CreditsInStdin(c)' = Window(c)
    BY DEF SendWindowConserved, Window
  <2>1. CreditsInStdin(c)' = CreditsInStdin(c)
    BY <1>3 DEF Write, CreditsInStdin
  <2>2. sendCred'[c] = sendCred[c] - One(Other(d) = c) /\ hostQ'[c] = hostQ[c] + One(Other(d) = c)
    <3>1. PICK o \in Channels : o = Other(d)
      BY OtherChannel
    <3>2. /\ sendCred' = [sendCred EXCEPT ![o] = @ - 1] /\ hostQ' = [hostQ EXCEPT ![o] = @ + 1]
          /\ sendCred \in [Channels -> Nat] /\ hostQ \in [Channels -> Nat]
      BY <1>3, <3>1, FieldTypes DEF Write
    <3>3. sendCred'[c] = sendCred[c] - One(o = c) /\ hostQ'[c] = hostQ[c] + One(o = c)
      BY <3>2 DEF One
    <3>4. QED
      BY <3>1, <3>3
  <2>3. One(Other(d) = c) \in Nat
    BY DEF One
  <2>4. QED
    BY <1>0, <2>1, <2>2, <2>3
<1>4. ASSUME NEW f \in Frames, HostWrites(f), f.kind # "credit", UNCHANGED <<sendCred, hostQ>>
      PROVE  SendWindowConserved'
  <2>1. \A c \in Channels : CreditsInStdin(c)' = CreditsInStdin(c)
    BY <1>0, <1>4, WriteCounts, FrameShapes DEF One
  <2>2. QED
    BY <1>4, <2>1, WindowKept
<1>5. ASSUME NEW c \in Channels, NEW u \in Nat, HostData(c, u)
      PROVE  SendWindowConserved'
  BY <1>4, <1>5, FrameShapes DEF HostData
<1>6. CASE HostFrames
  <2>1. CASE ServerSends
    <3>1. PICK r \in host.reads : HostData("tcp", r)
      BY <2>1 DEF ServerSends
    <3>2. r \in Nat /\ "tcp" \in Channels
      BY HostFields DEF Channels, TypeInv, TypeOK
    <3>3. QED
      BY <1>5, <3>1, <3>2
  <2>2. CASE BrowserStarts \/ BrowserGoesOn
    <3>1. PICK u \in Nat : HostData("embed", u)
      BY <2>2, BrowserFrames DEF MessageFrame
    <3>2. QED
      BY <1>5, <3>1 DEF Channels
  <2>3. QED
    BY <1>6, <2>1, <2>2 DEF HostFrames
<1>7. CASE HostPauses \/ HostResumes
  BY <1>4, <1>7, FrameShapes DEF HostPauses, HostResumes
<1>8. CASE DeliverData \/ ReadPause \/ ReadResume
  <2>1. PICK k : Incoming(k) /\ k # "credit"
    BY <1>8 DEF DeliverData, ReadPause, ReadResume
  <2>2. \A c \in Channels : CreditsInStdin(c)' = CreditsInStdin(c)
    <3>1. ASSUME NEW c \in Channels
          PROVE  CreditsInStdin(c)' = CreditsInStdin(c)
      <4>1. Head(stdin) # Credit(c)
        BY <2>1, ReadType, FrameShapes
      <4>2. CreditsInStdin(c) = CreditsInStdin(c)' + 0
        BY <2>1, <4>1, ReadCounts DEF One
      <4>3. CreditsInStdin(c)' \in Nat
        BY <2>1, ReadType, CreditsTypeNext
      <4>4. QED
        BY <4>2, <4>3
    <3>2. QED
      BY <3>1
  <2>3. UNCHANGED <<sendCred, hostQ>>
    BY <1>8 DEF DeliverData, ReadPause, ReadResume
  <2>4. QED
    BY <2>2, <2>3, WindowKept
<1>9. ASSUME UNCHANGED <<sendCred, hostQ, stdin>>
      PROVE  SendWindowConserved'
  BY <1>9 DEF SendWindowConserved, CreditsInStdin
<1>10. ASSUME NEW c \in Channels, Pump(c) \/ PumpFails(c), ~Write(c)
       PROVE  UNCHANGED <<sendCred, hostQ, stdin>>
  BY <1>10 DEF Pump, Forward, TakePayload, TakeRest, Grant, PumpUnblocks, CheckGate, GateCloses, ReadClientInit,
               PumpFails
<1>11. CASE CloseBoth \/ UNCHANGED vars
  BY <1>9, <1>11 DEF CloseBoth, vars
<1>12. QED
  BY <1>1, <1>2, <1>3, <1>6, <1>7, <1>8, <1>9, <1>10, <1>11 DEF Next, ReadLoop

(* coupling.go:24-25 - whatever the host and the pumps do, the plugin's       *)
(* credit on a channel, what the host has still to drain and what is on its   *)
(* way back make up the window: no write overdraws it, no grant is lost.      *)
THEOREM SendWindow == Spec => []SendWindowConserved
<1>1. TypeInv /\ SendWindowConserved /\ [Next]_vars => SendWindowConserved'
  BY WindowStep
<1>2. QED
  BY <1>1, WindowInit, TypesAlways, PTL DEF Spec

-----------------------------------------------------------------------------
(* The window of the host as a sender, and why the read loop finds room.      *)
(* Credit becomes a frame on stdin, a payload in the buffer, units in the     *)
(* pump's hand and credit again.  No step makes two of one while no frame     *)
(* holds more than one unit, which OneUnit says of channel c; nothing in the  *)
(* plugin makes a host keep to it, and RelayInflatedWindows shows the rest.   *)

DataOf(c) == {f \in Frames : f.kind = "data" /\ f.ch = c}
DataInStdin(c) == Cardinality(OccursIn(DataOf(c), stdin))
Most(c) == IF c = "tcp" THEN 2 * TcpCredit ELSE EmbedCredit - Ungranted + 1

OneUnit(c) == IF c = "tcp" THEN host.reads \subseteq {1} ELSE host.ends \subseteq {1}

SingleUnits(c) ==
    /\ \A i \in 1..Len(stdin) : stdin[i] \in DataOf(c) => stdin[i].units <= 1
    /\ \A i \in 1..Len(recvQ[c]) : recvQ[c][i] <= 1

HostWindow(c) ==
    /\ SingleUnits(c)
    /\ hostCred[c] + DataInStdin(c) + Len(recvQ[c]) + left[c] <= Most(c)

LEMMA DataCounted ==
    ASSUME TypeInv, NEW c
    PROVE  DataInStdin(c) \in Nat
BY OccursInFinite DEF TypeInv, DataInStdin

LEMMA DataCountedNext ==
    ASSUME stdin' \in Seq(Frames), NEW c
    PROVE  DataInStdin(c)' = Cardinality(OccursIn(DataOf(c), stdin')) /\ DataInStdin(c)' \in Nat
BY OccursInFinite DEF DataInStdin

LEMMA WriteCountsData ==
    ASSUME TypeInv, NEW f \in Frames, HostWrites(f), NEW c
    PROVE  /\ DataInStdin(c)' = DataInStdin(c) + One(f \in DataOf(c))
           /\ Len(stdin') = Len(stdin) + 1 /\ Len(stdin) \in Nat /\ stdin'[Len(stdin) + 1] = f
           /\ \A i \in 1..Len(stdin) : stdin'[i] = stdin[i]
<1>1. stdin \in Seq(Frames) /\ stdin' = Append(stdin, f) /\ stdin' \in Seq(Frames)
  BY WriteType DEF TypeInv, HostWrites
<1>2. Cardinality(OccursIn(DataOf(c), stdin')) = Cardinality(OccursIn(DataOf(c), stdin)) + One(f \in DataOf(c))
  BY <1>1, OccursInAppend
<1>3. /\ Len(stdin') = Len(stdin) + 1 /\ Len(stdin) \in Nat /\ stdin'[Len(stdin) + 1] = f
      /\ \A i \in 1..Len(stdin) : stdin'[i] = stdin[i]
  BY <1>1
<1>4. QED
  BY <1>1, <1>2, <1>3, DataCountedNext DEF DataInStdin

LEMMA ReadCountsData ==
    ASSUME TypeInv, NEW k, Incoming(k), NEW c
    PROVE  /\ DataInStdin(c) = DataInStdin(c)' + One(Head(stdin) \in DataOf(c)) /\ DataInStdin(c)' \in Nat
           /\ Len(stdin') = Len(stdin) - 1 /\ Len(stdin) \in Nat \ {0} /\ Head(stdin) = stdin[1]
           /\ \A i \in 1..Len(stdin') : stdin'[i] = stdin[i + 1]
<1>1. stdin \in Seq(Frames) /\ stdin # <<>> /\ stdin' = Tail(stdin) /\ stdin' \in Seq(Frames)
  BY ReadType DEF TypeInv
<1>2. Cardinality(OccursIn(DataOf(c), stdin)) = Cardinality(OccursIn(DataOf(c), stdin')) + One(Head(stdin) \in DataOf(c))
  BY <1>1, OccursInTail
<1>3. /\ Len(stdin') = Len(stdin) - 1 /\ Len(stdin) \in Nat \ {0} /\ Head(stdin) = stdin[1]
      /\ \A i \in 1..Len(stdin') : stdin'[i] = stdin[i + 1]
  BY <1>1
<1>4. QED
  BY <1>1, <1>2, <1>3, DataCountedNext DEF DataInStdin

(* A chunk or a message is granted back as one frame (pump.go:246, 303). *)
LEMMA GrantIsOne ==
    ASSUME TypeInv, NEW c \in Channels
    PROVE  GrantAmount(c) = 1
<1>1. ASSUME NEW r \in Nat
      PROVE  PolicyGrant(r, 1) \in {0, 1}
  <2> DEFINE half == IF EmbedCredit \div 2 = 0 THEN 1 ELSE EmbedCredit \div 2
  <2>1. half \in Nat /\ half <= EmbedCredit
    OBVIOUS
  <2>2. CASE r = 0 \/ r >= half
    BY <1>1, <2>1, <2>2 DEF PolicyGrant
  <2>3. CASE r > 0 /\ r < half
    <3>1. (1 * r) \div EmbedCredit = 0
      BY <1>1, <2>1, <2>3
    <3>2. QED
      BY <1>1, <2>3, <3>1 DEF PolicyGrant
  <2>4. QED
    BY <1>1, <2>1, <2>2, <2>3
<1>2. sendCred["embed"] \in Nat
  BY FieldTypes DEF Channels
<1>3. CouplingGrant(sendCred["embed"]) = 1
  BY <1>1, <1>2 DEF CouplingGrant
<1>4. QED
  BY <1>3 DEF GrantAmount

LEMMA HostWindowInit ==
    ASSUME Init, NEW c \in Channels
    PROVE  HostWindow(c)
<1>1. PICK used \in 0..TcpCredit :
        hostCred = [d \in Channels |-> IF d = "tcp" THEN 2 * TcpCredit - used ELSE EmbedCredit - Ungranted]
  BY DEF Init
<1>2. /\ stdin = <<Data("embed", 0)>> /\ Len(stdin) = 1 /\ stdin[1] = Data("embed", 0)
      /\ recvQ[c] = <<>> /\ left[c] = 0 /\ Len(recvQ[c]) = 0
  BY DEF Init
<1>3. Data("embed", 0) \in Frames /\ Data("embed", 0).ch = "embed" /\ Data("embed", 0).kind = "data"
      /\ Data("embed", 0).units = 0
  BY FrameShapes DEF Channels, Data
<1>4. OccursIn(DataOf(c), stdin) = IF c = "embed" THEN {1} ELSE {}
  BY <1>2, <1>3 DEF OccursIn, DataOf
<1>5. DataInStdin(c) = IF c = "embed" THEN 1 ELSE 0
  BY <1>4, FS_EmptySet, FS_Singleton DEF DataInStdin
<1>6. SingleUnits(c)
  BY <1>2, <1>3 DEF SingleUnits
<1>7. QED
  BY <1>1, <1>2, <1>5, <1>6 DEF HostWindow, Most, Channels

(* Frames the host writes on channel c, one unit of credit each. *)
LEMMA HostDataKeepsWindow ==
    ASSUME TypeInv, NEW c \in Channels, HostWindow(c), NEW d \in Channels, NEW u \in Nat, HostData(d, u),
           d = c => u <= 1
    PROVE  HostWindow(c)'
<1> DEFINE f == Data(d, u)
<1>1. f \in Frames /\ HostWrites(f) /\ f.units = u /\ (f \in DataOf(c) <=> d = c)
  BY FrameShapes DEF HostData, DataOf, Data
<1>2. /\ DataInStdin(c)' = DataInStdin(c) + One(d = c)
      /\ Len(stdin') = Len(stdin) + 1 /\ Len(stdin) \in Nat /\ stdin'[Len(stdin) + 1] = f
      /\ \A i \in 1..Len(stdin) : stdin'[i] = stdin[i]
  BY <1>1, WriteCountsData DEF One
<1>3. UNCHANGED <<recvQ, left>> /\ hostCred'[c] = hostCred[c] - One(d = c)
  <2>1. hostCred \in [Channels -> 0..MaxCred]
    BY FieldTypes
  <2>2. UNCHANGED <<recvQ, left>> /\ hostCred' = [hostCred EXCEPT ![d] = @ - 1]
    BY DEF HostData
  <2>3. QED
    BY <2>1, <2>2 DEF One
<1>4. SingleUnits(c)'
  <2>1. \A i \in 1..Len(stdin') : stdin'[i] \in DataOf(c) => stdin'[i].units <= 1
    <3> SUFFICES ASSUME NEW i \in 1..Len(stdin'), stdin'[i] \in DataOf(c)
                 PROVE  stdin'[i].units <= 1
      OBVIOUS
    <3>1. CASE i \in 1..Len(stdin)
      BY <1>2, <3>1 DEF HostWindow, SingleUnits
    <3>2. CASE i = Len(stdin) + 1
      BY <1>1, <1>2, <3>2
    <3>3. QED
      BY <1>2, <3>1, <3>2
  <2>2. QED
    BY <1>3, <2>1 DEF HostWindow, SingleUnits
<1>5. hostCred[c] \in Nat /\ left[c] \in Nat /\ Len(recvQ[c]) \in Nat /\ DataInStdin(c) \in Nat /\ One(d = c) \in Nat
  BY DataCounted, FieldTypes DEF One
<1>6. QED
  BY <1>2, <1>3, <1>4, <1>5 DEF HostWindow, Most

(* Whatever else is written or read leaves the data frames as they are. *)
LEMMA OthersKeepWindow ==
    ASSUME TypeInv, NEW c \in Channels, HostWindow(c), UNCHANGED <<hostCred, recvQ, left>>,
           \/ \E f \in Frames : f.kind # "data" /\ HostWrites(f)
           \/ \E k : k # "data" /\ Incoming(k)
           \/ UNCHANGED stdin
    PROVE  HostWindow(c)'
<1>1. CASE UNCHANGED stdin
  BY <1>1 DEF HostWindow, SingleUnits, DataInStdin, Most
<1>2. ASSUME NEW f \in Frames, f.kind # "data", HostWrites(f)
      PROVE  HostWindow(c)'
  <2>1. f \notin DataOf(c)
    BY <1>2 DEF DataOf
  <2>2. /\ DataInStdin(c)' = DataInStdin(c)
        /\ Len(stdin') = Len(stdin) + 1 /\ Len(stdin) \in Nat /\ stdin'[Len(stdin) + 1] = f
        /\ \A i \in 1..Len(stdin) : stdin'[i] = stdin[i]
    BY <1>2, <2>1, WriteCountsData, DataCounted DEF One
  <2>3. SingleUnits(c)'
    BY <2>1, <2>2 DEF HostWindow, SingleUnits
  <2>4. QED
    BY <2>2, <2>3 DEF HostWindow, Most
<1>3. ASSUME NEW k, k # "data", Incoming(k)
      PROVE  HostWindow(c)'
  <2>1. Head(stdin) \notin DataOf(c)
    BY <1>3, ReadType DEF DataOf
  <2>2. /\ DataInStdin(c)' = DataInStdin(c)
        /\ Len(stdin') = Len(stdin) - 1 /\ Len(stdin) \in Nat \ {0}
        /\ \A i \in 1..Len(stdin') : stdin'[i] = stdin[i + 1]
    BY <1>3, <2>1, ReadCountsData, DataCounted DEF One
  <2>3. SingleUnits(c)'
    <3>1. \A i \in 1..Len(stdin') : i + 1 \in 1..Len(stdin)
      BY <2>2
    <3>2. QED
      BY <2>2, <3>1 DEF HostWindow, SingleUnits
  <2>4. QED
    BY <2>2, <2>3 DEF HostWindow, Most
<1>4. QED
  BY <1>1, <1>2, <1>3

LEMMA TailOf ==
    ASSUME NEW q \in Seq(Nat), q # <<>>
    PROVE  /\ Len(Tail(q)) = Len(q) - 1 /\ Len(q) \in Nat \ {0} /\ Head(q) = q[1] /\ Head(q) \in Nat
           /\ \A i \in 1..Len(Tail(q)) : Tail(q)[i] = q[i + 1] /\ i + 1 \in 1..Len(q)
OBVIOUS

LEMMA AppendTo ==
    ASSUME NEW q \in Seq(Nat), NEW u \in Nat
    PROVE  /\ Len(Append(q, u)) = Len(q) + 1 /\ Len(q) \in Nat /\ Append(q, u)[Len(q) + 1] = u
           /\ \A i \in 1..Len(q) : Append(q, u)[i] = q[i]
OBVIOUS

(* deliverData moves a frame from stdin to its channel's buffer. *)
LEMMA DeliveryKeepsWindow ==
    ASSUME TypeInv, NEW c \in Channels, HostWindow(c), DeliverData
    PROVE  HostWindow(c)'
<1> DEFINE f == Head(stdin)
<1>1. f \in Frames /\ f.kind = "data" /\ f.ch \in Channels /\ f.units \in Nat /\ (f \in DataOf(c) <=> f.ch = c)
  BY ReadType, FrameShapes DEF DeliverData, DataOf
<1>2. /\ DataInStdin(c) = DataInStdin(c)' + One(f.ch = c) /\ DataInStdin(c)' \in Nat
      /\ Len(stdin') = Len(stdin) - 1 /\ Len(stdin) \in Nat \ {0} /\ f = stdin[1]
      /\ \A i \in 1..Len(stdin') : stdin'[i] = stdin[i + 1]
  BY <1>1, ReadCountsData DEF DeliverData, One
<1>3. /\ recvQ[c] \in Seq(Nat) /\ UNCHANGED <<hostCred, left>>
      /\ recvQ'[c] = IF f.ch = c THEN Append(recvQ[c], f.units) ELSE recvQ[c]
  <2>1. recvQ \in [Channels -> Seq(Nat)]
    BY FieldTypes
  <2>2. UNCHANGED <<hostCred, left>> /\ recvQ' = [recvQ EXCEPT ![f.ch] = Append(@, f.units)]
    BY DEF DeliverData
  <2>3. QED
    BY <1>1, <2>1, <2>2
<1>4. /\ Len(recvQ'[c]) = Len(recvQ[c]) + One(f.ch = c) /\ Len(recvQ[c]) \in Nat
      /\ \A i \in 1..Len(recvQ[c]) : recvQ'[c][i] = recvQ[c][i]
      /\ f.ch = c => recvQ'[c][Len(recvQ[c]) + 1] = f.units
  <2>1. CASE f.ch = c
    BY <1>1, <1>3, <2>1, AppendTo DEF One
  <2>2. CASE f.ch # c
    BY <1>3, <2>2 DEF One
  <2>3. QED
    BY <2>1, <2>2
<1>5. f.ch = c => f.units <= 1
  BY <1>1, <1>2 DEF HostWindow, SingleUnits
<1>6. \A i \in 1..Len(stdin') : stdin'[i] \in DataOf(c) => stdin'[i].units <= 1
  <2>1. \A i \in 1..Len(stdin') : i + 1 \in 1..Len(stdin)
    BY <1>2
  <2>2. QED
    BY <1>2, <2>1 DEF HostWindow, SingleUnits
<1>7. \A i \in 1..Len(recvQ'[c]) : recvQ'[c][i] <= 1
  <2> SUFFICES ASSUME NEW i \in 1..Len(recvQ'[c])
               PROVE  recvQ'[c][i] <= 1
    OBVIOUS
  <2>1. CASE i \in 1..Len(recvQ[c])
    BY <1>4, <2>1 DEF HostWindow, SingleUnits
  <2>2. CASE i = Len(recvQ[c]) + 1 /\ f.ch = c
    BY <1>4, <1>5, <2>2
  <2>3. i \in 1..Len(recvQ[c]) \/ (i = Len(recvQ[c]) + 1 /\ f.ch = c)
    <3>1. CASE f.ch = c
      BY <1>4, <3>1 DEF One
    <3>2. CASE f.ch # c
      BY <1>4, <3>2 DEF One
    <3>3. QED
      BY <3>1, <3>2
  <2>4. QED
    BY <2>1, <2>2, <2>3
<1>8. hostCred[c] \in Nat /\ left[c] \in Nat /\ One(f.ch = c) \in Nat
  BY FieldTypes DEF One
<1>9. SingleUnits(c)'
  BY <1>6, <1>7 DEF SingleUnits
<1>10. hostCred'[c] + DataInStdin(c)' + Len(recvQ'[c]) + left'[c] = hostCred[c] + DataInStdin(c) + Len(recvQ[c]) + left[c]
  BY <1>2, <1>3, <1>4, <1>8
<1>11. QED
  BY <1>9, <1>10 DEF HostWindow, Most

LEMMA SumStays ==
    ASSUME NEW h \in Nat, NEW n \in Nat, NEW q \in Nat, NEW l \in Nat, NEW m \in Nat, h + n + q + l <= m,
           NEW h2 \in Int, NEW q2 \in Int, NEW l2 \in Int, h2 + q2 + l2 <= h + q + l
    PROVE  h2 + n + q2 + l2 <= m
OBVIOUS

(* A step of a pump that adds no more to one place than it takes elsewhere.   *)
LEMMA WindowMoves ==
    ASSUME TypeInv, NEW c \in Channels, HostWindow(c), SingleUnits(c)', UNCHANGED stdin,
           NEW h \in Int, NEW q \in Int, NEW l \in Int,
           h = hostCred'[c], q = Len(recvQ'[c]), l = left'[c],
           h + q + l <= hostCred[c] + Len(recvQ[c]) + left[c]
    PROVE  HostWindow(c)'
<1>1. DataInStdin(c)' = DataInStdin(c) /\ Most(c)' = Most(c)
  BY DEF DataInStdin, Most
<1>2. hostCred[c] \in Nat /\ Len(recvQ[c]) \in Nat /\ left[c] \in Nat /\ DataInStdin(c) \in Nat /\ Most(c) \in Nat
  BY FieldTypes, DataCounted DEF Most
<1>3. hostCred[c] + DataInStdin(c) + Len(recvQ[c]) + left[c] <= Most(c)
  BY DEF HostWindow
<1>4. h + DataInStdin(c) + q + l <= Most(c)
  BY <1>2, <1>3, SumStays
<1>5. hostCred'[c] + DataInStdin(c)' + Len(recvQ'[c]) + left'[c] <= Most(c)'
  BY <1>1, <1>4
<1>6. QED
  BY <1>5 DEF HostWindow

(* The pump takes a payload of at most one unit, and gives one frame of       *)
(* credit for it; the ClientInit and a message's middle give none.            *)
LEMMA PumpKeepsWindow ==
    ASSUME TypeInv, NEW c \in Channels, HostWindow(c), NEW d \in Channels,
           TakePayload(d) \/ Grant(d) \/ (d = "embed" /\ ReadClientInit)
    PROVE  HostWindow(c)'
<1>0. /\ hostCred \in [Channels -> 0..MaxCred] /\ left \in [Channels -> Nat] /\ recvQ \in [Channels -> Seq(Nat)]
      /\ hostCred[c] \in Nat /\ left[c] \in Nat /\ recvQ[c] \in Seq(Nat) /\ Len(recvQ[c]) \in Nat
  BY FieldTypes
<1>1. UNCHANGED stdin
  BY DEF TakePayload, Grant, ReadClientInit
<1>2. \A i \in 1..Len(stdin') : stdin'[i] \in DataOf(c) => stdin'[i].units <= 1
  BY <1>1 DEF HostWindow, SingleUnits
<1> DEFINE Same == recvQ'[c] = recvQ[c] /\ left'[c] = left[c] /\ hostCred'[c] = hostCred[c]
<1>a. ASSUME Same
      PROVE  HostWindow(c)'
  <2>1. SingleUnits(c)'
    BY <1>2, <1>a DEF HostWindow, SingleUnits
  <2>2. QED
    BY <1>0, <1>1, <1>a, <2>1, WindowMoves
<1>3. ASSUME recvQ'[c] = Tail(recvQ[c]), recvQ[c] # <<>>
      PROVE  /\ Len(recvQ'[c]) = Len(recvQ[c]) - 1 /\ Head(recvQ[c]) \in Nat /\ Head(recvQ[c]) <= 1
             /\ SingleUnits(c)'
  <2>1. /\ Len(recvQ'[c]) = Len(recvQ[c]) - 1 /\ Len(recvQ[c]) \in Nat \ {0}
        /\ Head(recvQ[c]) = recvQ[c][1] /\ Head(recvQ[c]) \in Nat
        /\ \A i \in 1..Len(recvQ'[c]) : recvQ'[c][i] = recvQ[c][i + 1] /\ i + 1 \in 1..Len(recvQ[c])
    BY <1>0, <1>3, TailOf
  <2>2. \A i \in 1..Len(recvQ[c]) : recvQ[c][i] <= 1
    BY DEF HostWindow, SingleUnits
  <2>3. \A i \in 1..Len(recvQ'[c]) : recvQ'[c][i] <= 1
    BY <2>1, <2>2
  <2>4. Head(recvQ[c]) <= 1
    BY <2>1, <2>2
  <2>5. QED
    BY <1>2, <2>1, <2>3, <2>4 DEF SingleUnits
<1>4. CASE TakePayload(d)
  <2>1. /\ recvQ' = [recvQ EXCEPT ![d] = Tail(@)] /\ left' = [left EXCEPT ![d] = Head(recvQ[d])]
        /\ UNCHANGED hostCred /\ recvQ[d] # <<>> /\ left[d] = 0
    BY <1>4 DEF TakePayload
  <2>2. CASE d = c
    <3>1. /\ recvQ[c] # <<>> /\ recvQ'[c] = Tail(recvQ[c]) /\ hostCred'[c] = hostCred[c]
          /\ left[c] = 0 /\ left'[c] = Head(recvQ[c])
      BY <1>0, <2>1, <2>2
    <3>2. /\ Len(recvQ'[c]) = Len(recvQ[c]) - 1 /\ Head(recvQ[c]) \in Nat /\ Head(recvQ[c]) <= 1
          /\ SingleUnits(c)'
      BY <1>3, <3>1
    <3>3. QED
      BY <1>0, <1>1, <3>1, <3>2, WindowMoves
  <2>3. CASE d # c
    <3>1. Same
      BY <1>0, <2>1, <2>3
    <3>2. QED
      BY <1>a, <3>1
  <2>4. QED
    BY <2>2, <2>3
<1>5. CASE Grant(d)
  <2>1. /\ UNCHANGED recvQ /\ left' = [left EXCEPT ![d] = @ - 1]
        /\ hostCred' = [hostCred EXCEPT ![d] = IF @ + GrantAmount(d) <= MaxCred THEN @ + GrantAmount(d) ELSE MaxCred]
    BY <1>5 DEF Grant
  <2>2. CASE d = c
    <3>1. GrantAmount(c) = 1 /\ left[c] > 0
      BY <1>5, <2>2, GrantIsOne DEF Grant, TypeInv
    <3>2. hostCred'[c] = (IF hostCred[c] + 1 <= MaxCred THEN hostCred[c] + 1 ELSE MaxCred) /\ left'[c] = left[c] - 1
      BY <1>0, <2>1, <2>2, <3>1
    <3>3. hostCred'[c] <= hostCred[c] + 1 /\ hostCred'[c] \in Int /\ left'[c] \in Int
      BY <1>0, <3>2
    <3>4. Len(recvQ'[c]) = Len(recvQ[c]) /\ SingleUnits(c)'
      BY <1>2, <2>1 DEF HostWindow, SingleUnits
    <3>5. hostCred'[c] + Len(recvQ'[c]) + left'[c] <= hostCred[c] + Len(recvQ[c]) + left[c]
      BY <1>0, <3>2, <3>3, <3>4
    <3>6. QED
      BY <1>0, <1>1, <3>3, <3>4, <3>5, WindowMoves
  <2>3. CASE d # c
    <3>1. Same
      BY <1>0, <2>1, <2>3
    <3>2. QED
      BY <1>a, <3>1
  <2>4. QED
    BY <2>2, <2>3
<1>6. CASE d = "embed" /\ ReadClientInit
  <2>1. recvQ["embed"] # <<>> /\ recvQ' = [recvQ EXCEPT !["embed"] = Tail(@)] /\ UNCHANGED <<hostCred, left>>
    BY <1>6 DEF ReadClientInit
  <2>2. CASE c = "embed"
    <3>1. recvQ[c] # <<>> /\ recvQ'[c] = Tail(recvQ[c]) /\ hostCred'[c] = hostCred[c] /\ left'[c] = left[c]
      BY <1>0, <2>1, <2>2
    <3>2. Len(recvQ'[c]) = Len(recvQ[c]) - 1 /\ SingleUnits(c)'
      BY <1>3, <3>1
    <3>3. QED
      BY <1>0, <1>1, <3>1, <3>2, WindowMoves
  <2>3. CASE c # "embed"
    <3>1. Same
      BY <1>0, <2>1, <2>3
    <3>2. QED
      BY <1>a, <3>1
  <2>4. QED
    BY <2>2, <2>3
<1>7. QED
  BY <1>4, <1>5, <1>6

LEMMA HostWindowStep ==
    ASSUME TypeInv, NEW c \in Channels, HostWindow(c), [Next]_vars, OneUnit(c)
    PROVE  HostWindow(c)'
<1>1. CASE HostFrames
  <2>1. CASE ServerSends
    <3>1. PICK r \in host.reads : HostData("tcp", r)
      BY <2>1 DEF ServerSends
    <3>2. r \in Nat /\ "tcp" \in Channels /\ (c = "tcp" => r <= 1)
      BY HostFields DEF Channels, TypeInv, TypeOK, OneUnit
    <3>3. QED
      BY <3>1, <3>2, HostDataKeepsWindow
  <2>2. CASE BrowserStarts \/ BrowserGoesOn
    <3>1. PICK u \in Nat : HostData("embed", u) /\ u \in {0} \cup host.ends
      BY <2>2, BrowserFrames DEF MessageFrame
    <3>2. "embed" = c => u <= 1
      BY <3>1 DEF OneUnit
    <3>3. QED
      BY <3>1, <3>2, HostDataKeepsWindow DEF Channels
  <2>3. QED
    BY <1>1, <2>1, <2>2 DEF HostFrames
<1>2. CASE HostPauses \/ HostResumes \/ \E d \in Channels : HostDrains(d)
  <2>1. UNCHANGED <<hostCred, recvQ, left>>
    BY <1>2 DEF HostPauses, HostResumes, HostDrains
  <2>2. \E f \in Frames : f.kind # "data" /\ HostWrites(f)
    <3>1. \A d \in Channels : Credit(d) \in Frames /\ Credit(d).kind # "data"
      BY FrameShapes DEF Credit
    <3>2. Pause \in Frames /\ Pause.kind # "data" /\ Resume \in Frames /\ Resume.kind # "data"
      BY FrameShapes DEF Pause, Resume
    <3>3. QED
      BY <1>2, <3>1, <3>2 DEF HostPauses, HostResumes, HostDrains
  <2>3. QED
    BY <2>1, <2>2, OthersKeepWindow
<1>3. CASE DeliverData
  BY <1>3, DeliveryKeepsWindow
<1>4. CASE ReadCredit \/ ReadPause \/ ReadResume
  <2>1. UNCHANGED <<hostCred, recvQ, left>> /\ \E k : k # "data" /\ Incoming(k)
    BY <1>4 DEF ReadCredit, ReadPause, ReadResume
  <2>2. QED
    BY <2>1, OthersKeepWindow
<1>5. ASSUME NEW d \in Channels, Pump(d) \/ PumpFails(d)
      PROVE  HostWindow(c)'
  <2>1. CASE TakePayload(d) \/ Grant(d) \/ (d = "embed" /\ ReadClientInit)
    BY <2>1, PumpKeepsWindow
  <2>2. CASE ~(TakePayload(d) \/ Grant(d) \/ (d = "embed" /\ ReadClientInit))
    <3>1. UNCHANGED <<hostCred, recvQ, left, stdin>>
      BY <1>5, <2>2 DEF Pump, Forward, TakeRest, Write, PumpUnblocks, CheckGate, GateCloses, PumpFails
    <3>2. QED
      BY <3>1, OthersKeepWindow
  <2>3. QED
    BY <2>1, <2>2
<1>6. CASE CloseBoth \/ UNCHANGED vars
  <2>1. UNCHANGED <<hostCred, recvQ, left, stdin>>
    BY <1>6 DEF CloseBoth, vars
  <2>2. QED
    BY <2>1, OthersKeepWindow
<1>7. QED
  BY <1>1, <1>2, <1>3, <1>4, <1>5, <1>6 DEF Next, ReadLoop

(* The buffer of a channel whose frames cannot fill it. *)
LEMMA RoomForHead ==
    ASSUME TypeInv, NEW c \in Channels, HostWindow(c), Most(c) <= RecvCap,
           stdin # <<>>, Head(stdin).kind = "data", Head(stdin).ch = c
    PROVE  HasRoom(c)
<1>1. stdin \in Seq(Frames) /\ Len(stdin) \in Nat \ {0} /\ Head(stdin) = stdin[1] /\ Head(stdin) \in Frames
  BY DEF TypeInv
<1>2. 1 \in OccursIn(DataOf(c), stdin)
  BY <1>1 DEF OccursIn, DataOf
<1>3. IsFiniteSet(OccursIn(DataOf(c), stdin)) /\ DataInStdin(c) \in Nat
  BY <1>1, OccursInFinite DEF DataInStdin
<1>4. DataInStdin(c) # 0
  BY <1>2, <1>3, FS_EmptySet DEF DataInStdin
<1>5. hostCred[c] \in Nat /\ left[c] \in Nat /\ Len(recvQ[c]) \in Nat /\ Most(c) \in Nat
  BY FieldTypes DEF Most
<1>6. QED
  BY <1>3, <1>4, <1>5 DEF HostWindow, HasRoom

OneUnitWindow(c) == OneUnit(c) => HostWindow(c)

LEMMA OneUnitWindowsAlways == Spec => [](\A c \in Channels : OneUnitWindow(c))
<1> DEFINE Windows == \A c \in Channels : OneUnitWindow(c)
<1>1. Init => Windows
  BY HostWindowInit DEF OneUnitWindow
<1>2. TypeInv /\ Windows /\ [Next]_vars => Windows'
  BY HostWindowStep, SameHost DEF OneUnitWindow, OneUnit
<1>3. QED
  BY <1>1, <1>2, TypesAlways, PTL DEF Spec

(* credit.go:292-297 - for every window and every buffer that holds what the  *)
(* handshake's grants allow, deliverData never blocks while the host puts no  *)
(* more than one unit into a frame: the condition is in the property, and     *)
(* nothing in the plugin makes a host keep to it.  open.go's windows, 4 and   *)
(* 8, leave that much room in the 64 payloads of recvCh.                      *)
THEOREM ReadLoopRuns ==
    ASSUME 2 * TcpCredit <= RecvCap, EmbedCredit - Ungranted < RecvCap
    PROVE  Spec => []ReadLoopNeverWaits
<1>1. TypeInv /\ (\A c \in Channels : OneUnitWindow(c)) => ReadLoopNeverWaits
  <2> SUFFICES ASSUME TypeInv, \A c \in Channels : OneUnitWindow(c),
                      OneUnitFrames, stdin # <<>>, Head(stdin).kind = "data"
               PROVE  HasRoom(Head(stdin).ch)
    BY DEF ReadLoopNeverWaits
  <2>1. Head(stdin) \in Frames
    BY DEF TypeInv
  <2>2. Head(stdin).ch \in Channels
    BY <2>1, FrameShapes
  <2>3. \A c \in Channels : HostWindow(c) /\ Most(c) <= RecvCap
    BY DEF Most, OneUnitWindow, OneUnit, OneUnitFrames, Channels
  <2>4. QED
    BY <2>2, <2>3, RoomForHead
<1>2. QED
  BY <1>1, OneUnitWindowsAlways, TypesAlways, PTL

(* pump.go:287-304 - the embed stream's half by itself: while no more than    *)
(* one client message ends in an embed-stream frame of the host, the read     *)
(* loop never blocks on the browser's frames, whatever the frames of          *)
(* tcp-relay hold.  With several to a frame the window inflates and it does.  *)
EmbedHasRoom ==
    host.ends \subseteq {1} /\ stdin # <<>> /\ Head(stdin) \in DataOf("embed") => HasRoom("embed")
THEOREM EmbedNeverBlocks ==
    ASSUME EmbedCredit - Ungranted < RecvCap
    PROVE  Spec => []EmbedHasRoom
<1>1. "embed" \in Channels /\ Most("embed") <= RecvCap
  BY DEF Channels, Most
<1>2. TypeInv /\ (\A c \in Channels : OneUnitWindow(c)) => EmbedHasRoom
  BY <1>1, RoomForHead DEF EmbedHasRoom, OneUnitWindow, OneUnit, DataOf
<1>3. QED
  BY <1>2, OneUnitWindowsAlways, TypesAlways, PTL
================================================================================
