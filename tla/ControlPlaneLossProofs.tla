------------------------- MODULE ControlPlaneLossProofs -------------------------
(***************************************************************************)
(* What ControlPlane does not lose, for any number of goroutines, calls and *)
(* frames: a channel the host holds open is on its way, held, about to be  *)
(* closed, or its call gave up; and every frame of a channel not closed     *)
(* here is on stdin, in the read loop's hand, or delivered.                *)
(***************************************************************************)
EXTENDS ControlPlaneProofs, QueueCounts

-----------------------------------------------------------------------------
(* Channels.  A registered channel that the host holds open has a goroutine, *)
(* or is being closed: NotifyClose forgets it in the step that tells the host.*)

HeldBySome(ch) == \E c \in Callers : chan[c] = ch

HeldInv ==
    /\ registered \subseteq 1..Len(owner)
    /\ \A ch \in registered \cap hostOpen : HeldBySome(ch) \/ ch \in closing \/ hostGone

(* A goroutine's step. *)
LEMMA HeldCallers ==
    ASSUME TypeInv, AnswerMatch, HeldInv, NEW c \in Callers, CallSteps(c) \/ OpenSteps(c)
    PROVE  HeldInv'
<1> USE DEF TypeInv
<1>1. UNCHANGED <<owner, hostOpen, hostGone>> /\ closing \subseteq closing'
  BY DEF CallSteps, OpenSteps, CallStart, CallSend, CallSendFails, CallAnswered, CallTimesOut, CallReturns,
         Register, CloseLocally, NotifyClose, Notify, hostSide
<1>2. CASE Register(c)
  <2>1. pc[c] = "register" /\ registered' = registered \cup {chan[c]} /\ UNCHANGED chan
    BY <1>2 DEF Register, Step
  <2>2. chan[c] \in 1..Len(owner)
    <3>1. chan[c] # Refused /\ chan[c] \in Chans \cup {Refused}
      BY <2>1 DEF HoldInv, Holding, TypeOK
    <3>2. QED
      BY <3>1 DEF AnswerMatch, Given
  <2>3. HeldBySome(chan[c])'
    BY <2>1 DEF HeldBySome
  <2>4. QED
    BY <1>1, <2>1, <2>2, <2>3 DEF HeldInv, HeldBySome
<1>3. CASE CallAnswered(c)
  <2>1. chan[c] = Refused /\ UNCHANGED registered /\ \A d \in Callers : d # c => chan'[d] = chan[d]
    BY <1>3 DEF CallAnswered, Step, HoldInv, TypeOK, registry
  <2>2. \A ch \in registered : HeldBySome(ch) => HeldBySome(ch)'
    BY <2>1 DEF HeldBySome, HeldInv, Refused
  <2>3. QED
    BY <1>1, <2>1, <2>2 DEF HeldInv
<1>4. CASE NotifyClose(c)
  <2>1. UNCHANGED registered /\ Notify(chan[c]) /\ \A d \in Callers : d # c => chan'[d] = chan[d]
    BY <1>4 DEF NotifyClose, TypeOK, registry
  <2>2. chan[c] \in closing' \/ hostGone
    BY <2>1 DEF Notify
  <2>3. \A ch \in registered : HeldBySome(ch) => HeldBySome(ch)' \/ ch = chan[c]
    BY <2>1 DEF HeldBySome
  <2>4. QED
    BY <1>1, <2>1, <2>2, <2>3 DEF HeldInv
<1>5. CASE CallStart(c) \/ CallSend(c) \/ CallSendFails(c) \/ CallTimesOut(c) \/ CallReturns(c) \/ CloseLocally(c)
  <2>1. UNCHANGED <<registered, chan>>
    BY <1>5 DEF CallStart, CallSend, CallSendFails, CallTimesOut, CallReturns, CloseLocally, registry
  <2>2. QED
    BY <1>1, <2>1 DEF HeldInv, HeldBySome
<1>6. QED
  BY <1>2, <1>3, <1>4, <1>5 DEF CallSteps, OpenSteps

LEMMA HeldStep ==
    ASSUME TypeInv, AnswerMatch, HeldInv, [Next]_vars
    PROVE  HeldInv'
<1>1. CASE HostOpens
  <2>1. PICK r \in asked : owner' = Append(owner, r) /\ hostOpen' = hostOpen \cup {Len(owner) + 1}
    BY <1>1 DEF HostOpens
  <2>2. UNCHANGED <<registered, chan, closing, hostGone>>
    BY <1>1 DEF HostOpens, client, registry
  <2>3. Len(owner) \in Nat /\ Len(owner') = Len(owner) + 1
    BY <2>1, OwnerKept DEF TypeInv, TypeOK
  <2>4. Len(owner) + 1 \notin registered
    BY <2>3 DEF HeldInv
  <2>5. QED
    BY <2>1, <2>2, <2>3, <2>4 DEF HeldInv, HeldBySome
<1>2. CASE HostCloses
  <2>1. /\ UNCHANGED <<owner, registered, chan, hostGone>>
        /\ \E ch \in closing : closing' = closing \ {ch} /\ hostOpen' = hostOpen \ {ch}
    BY <1>2 DEF HostCloses, client, registry
  <2>2. QED
    BY <2>1 DEF HeldInv, HeldBySome
<1>3. CASE HostGoes
  BY <1>3 DEF HostGoes, client, registry, HeldInv
<1>4. CASE HostRefuses \/ HostSends \/ HostAsks \/ HostBreaks \/ LoopSteps \/ UNCHANGED vars
  <2>1. UNCHANGED <<owner, registered, chan, hostOpen, closing, hostGone>>
    BY <1>4 DEF HostRefuses, HostSends, HostAsks, HostBreaks, LoopSteps, ReadResponse, ReadRequest, ReadData, ReadBroken,
                ReadEOF, RouteFrame, Await, AwaitWakes, GraceExpires, vars, client, registry, hostSide
  <2>2. QED
    BY <2>1 DEF HeldInv, HeldBySome
<1>5. QED
  BY <1>1, <1>2, <1>3, <1>4, HeldCallers DEF Next, HostSteps

(* A channel the host holds open is held by some goroutine or its response is on the way,   *)
(* until channel.close is under way for it; only a call that timed out can leak one.        *)
THEOREM LeakSafety == Spec => []NoSilentLeak
<1>1. Init => HeldInv
  BY DEF Init, HeldInv
<1>2. IInv /\ HeldInv /\ [Next]_vars => HeldInv'
  BY HeldStep DEF IInv, AnswerInv
<1>3. IInv /\ HeldInv => NoSilentLeak
  <2> SUFFICES ASSUME IInv, HeldInv, NEW ch \in hostOpen
               PROVE  OnItsWay(ch) \/ ch \in closing \/ hostGone \/ owner[ch].id \in gaveUp
    BY DEF NoSilentLeak
  <2>1. Safe(ch)
    BY DEF IInv, KnownInv, WayInv
  <2>2. CASE ch \in registered
    BY <2>2 DEF HeldInv, HeldBySome, OnItsWay
  <2>3. CASE Arriving(ch)
    BY <2>3 DEF Arriving, OnItsWay
  <2>4. CASE Coming(ch)
    <3>1. PICK i \in 1..Len(stdin) : stdin[i] = Response(owner[ch].id, ch)
      BY <2>4 DEF Coming, Ahead
    <3>2. stdin[i].kind = "response" /\ stdin[i].chan = ch
      BY <3>1 DEF Response
    <3>3. i \in DOMAIN stdin
      BY <3>1 DEF IInv, TypeInv, TypeOK
    <3>4. QED
      BY <3>2, <3>3 DEF OnItsWay
  <2>5. QED
    BY <2>1, <2>2, <2>3, <2>4 DEF Safe
<1>4. QED
  BY <1>1, <1>2, <1>3, InvariantAlways, PTL DEF Spec

-----------------------------------------------------------------------------
(* Frames.  stdin is a queue of which the read loop takes the first frame    *)
(* into its hand, and out of its hand only to deliver it.                    *)

LEMMA OnStdinType ==
    ASSUME TypeOK, NEW ch
    PROVE  OnStdin(ch) = Cardinality(OccursAt(Data(ch), stdin)) /\ OnStdin(ch) \in Nat
<1>1. stdin \in Seq(Frames) /\ DOMAIN stdin = 1..Len(stdin)
  BY DEF TypeOK
<1>2. QED
  BY <1>1, OccursFinite DEF OnStdin, OccursAt

LEMMA OnStdinTypeNext ==
    ASSUME TypeOK', NEW ch
    PROVE  OnStdin(ch)' = Cardinality(OccursAt(Data(ch), stdin')) /\ OnStdin(ch)' \in Nat
<1>1. stdin' \in Seq(Frames) /\ DOMAIN stdin' = 1..Len(stdin')
  BY DEF TypeOK
<1>2. QED
  BY <1>1, OccursFinite DEF OnStdin, OccursAt

LEMMA WriteCounts ==
    ASSUME TypeOK, TypeOK', NEW f \in Frames, Write(f), NEW ch
    PROVE  OnStdin(ch)' = OnStdin(ch) + One(f = Data(ch))
<1>1. stdin \in Seq(Frames) /\ stdin' = Append(stdin, f)
  BY DEF Write, TypeOK
<1>2. Cardinality(OccursAt(Data(ch), stdin')) = Cardinality(OccursAt(Data(ch), stdin)) + One(f = Data(ch))
  BY <1>1, OccursAppend
<1>3. QED
  BY <1>2, OnStdinType, OnStdinTypeNext

LEMMA ReadCounts ==
    ASSUME TypeOK, TypeOK', NEW f, Read(f), NEW ch
    PROVE  OnStdin(ch) = OnStdin(ch)' + One(f = Data(ch))
<1>1. stdin \in Seq(Frames) /\ stdin # <<>> /\ f = Head(stdin) /\ stdin' = Tail(stdin)
  BY DEF Read, TypeOK
<1>2. Cardinality(OccursAt(Data(ch), stdin)) = Cardinality(OccursAt(Data(ch), stdin')) + One(f = Data(ch))
  BY <1>1, OccursTail
<1>3. QED
  BY <1>2, OnStdinType, OnStdinTypeNext

LEMMA DataFrames ==
    /\ \A f \in Frames : f.kind = "data" => f = Data(f.chan)
    /\ \A a, b \in Chans : Data(a) = Data(b) => a = b
    /\ \A id, a, b : Response(id, a) # Data(b)
    /\ \A m, b : Request(m) # Data(b)
    /\ \A b : Broken # Data(b) /\ Data(b).kind = "data"
<1>1. /\ \A a, b : Data(a) = Data(b) => a = b
      /\ \A id, a, b : Response(id, a) # Data(b)
      /\ \A m, b : Request(m) # Data(b)
      /\ \A b : Broken # Data(b) /\ Data(b).kind = "data" /\ Data(b).chan = b
  BY DEF Data, Response, Request, Broken
<1>2. ASSUME NEW f \in Frames, f.kind = "data"
      PROVE  f = Data(f.chan)
  <2>1. \/ \E id \in Ids, ch \in Chans \cup {Refused} : f = Response(id, ch)
        \/ \E ch \in Chans : f = Data(ch)
        \/ \E m \in {"ping", "shutdown"} : f = Request(m)
        \/ f = Broken
    BY DEF Frames
  <2>2. PICK ch \in Chans : f = Data(ch)
    BY <1>2, <2>1 DEF Response, Request, Broken
  <2>3. QED
    BY <1>1, <2>2
<1>3. QED
  BY <1>1, <1>2

LEMMA ArrivesInit == Init => EveryFrameArrives
<1> SUFFICES ASSUME Init, NEW ch \in Chans
             PROVE  sent[ch] = got[ch] + InHand(ch) + OnStdin(ch)
  BY DEF EveryFrameArrives
<1>1. TypeOK
  BY InitTypes DEF TypeInv
<1>2. stdin = <<>> /\ frame = 0 /\ ch # 0
  BY DEF Init, Chans
<1>3. OccursAt(Data(ch), stdin) = {}
  BY <1>2 DEF OccursAt
<1>4. OnStdin(ch) = 0
  BY <1>1, <1>3, OnStdinType, FS_EmptySet
<1>5. QED
  BY <1>2, <1>4 DEF Init, InHand

LEMMA ArrivesLoop ==
    ASSUME TypeOK, TypeOK', KnownInv, EveryFrameArrives, LoopSteps
    PROVE  EveryFrameArrives'
<1>1. UNCHANGED <<sent, closed>>
  BY DEF LoopSteps, ReadResponse, ReadRequest, ReadData, ReadBroken, ReadEOF, RouteFrame, Await, AwaitWakes,
         GraceExpires, registry, hostSide
<1> SUFFICES ASSUME NEW ch \in Chans, ch \notin closed
             PROVE  sent'[ch] = got'[ch] + InHand(ch)' + OnStdin(ch)'
  BY <1>1 DEF EveryFrameArrives
<1>2. /\ sent[ch] = got[ch] + InHand(ch) + OnStdin(ch) /\ got[ch] \in Nat
      /\ OnStdin(ch) \in Nat /\ OnStdin(ch)' \in Nat /\ ch # 0
  <2>1. OnStdin(ch) \in Nat /\ OnStdin(ch)' \in Nat
    BY OnStdinType, OnStdinTypeNext
  <2>2. got[ch] \in Nat
    BY DEF TypeOK
  <2>3. ch # 0
    BY DEF Chans
  <2>4. QED
    BY <2>1, <2>2, <2>3 DEF EveryFrameArrives
<1>3. CASE ReadResponse \/ ReadRequest \/ ReadBroken
  <2>1. UNCHANGED <<got, frame>> /\ \E f : Read(f) /\ f # Data(ch)
    BY <1>3, DataFrames DEF ReadResponse, ReadRequest, ReadBroken, replies, reader
  <2>2. OnStdin(ch)' = OnStdin(ch)
    BY <1>2, <2>1, ReadCounts DEF One
  <2>3. QED
    BY <1>1, <1>2, <2>1, <2>2 DEF InHand
<1>4. CASE ReadData
  <2>1. PICK f \in Frames : Read(f) /\ f.kind = "data" /\ frame' = f.chan /\ UNCHANGED got
    BY <1>4 DEF ReadData, replies
  <2>2. frame = 0
    BY <2>1 DEF Read, KnownInv
  <2>3. f = Data(ch) <=> f.chan = ch
    BY <2>1, DataFrames DEF Data
  <2>4. OnStdin(ch) = OnStdin(ch)' + One(f.chan = ch)
    BY <2>1, <2>3, ReadCounts DEF One
  <2>5. QED
    BY <1>1, <1>2, <2>1, <2>2, <2>4 DEF InHand, One
<1>5. CASE RouteFrame
  <2>1. /\ frame' = 0 /\ UNCHANGED stdin
        /\ got' = IF frame \in closed THEN got ELSE [got EXCEPT ![frame] = @ + 1]
    BY <1>5 DEF RouteFrame
  <2>2. OnStdin(ch)' = OnStdin(ch)
    BY <2>1 DEF OnStdin
  <2>3. got'[ch] = got[ch] + InHand(ch)
    BY <1>2, <2>1 DEF InHand, TypeOK
  <2>4. QED
    BY <1>1, <1>2, <2>1, <2>2, <2>3 DEF InHand
<1>6. CASE ReadEOF \/ Await \/ AwaitWakes \/ GraceExpires
  <2>1. UNCHANGED <<got, frame, stdin>>
    BY <1>6 DEF ReadEOF, Await, AwaitWakes, GraceExpires, replies
  <2>2. QED
    BY <1>1, <1>2, <2>1 DEF InHand, OnStdin
<1>7. QED
  BY <1>3, <1>4, <1>5, <1>6 DEF LoopSteps

LEMMA ArrivesHost ==
    ASSUME TypeOK, TypeOK', EveryFrameArrives, HostSteps
    PROVE  EveryFrameArrives'
<1>1. UNCHANGED <<got, frame, closed>>
  BY DEF HostSteps, HostOpens, HostRefuses, HostSends, HostAsks, HostBreaks, HostCloses, HostGoes, registry, reader, replies
<1> SUFFICES ASSUME NEW ch \in Chans, ch \notin closed
             PROVE  sent'[ch] = got'[ch] + InHand(ch)' + OnStdin(ch)'
  BY <1>1 DEF EveryFrameArrives
<1>2. /\ sent[ch] = got[ch] + InHand(ch) + OnStdin(ch) /\ got[ch] \in Nat /\ sent[ch] \in Nat
      /\ OnStdin(ch) \in Nat /\ InHand(ch) \in Nat /\ InHand(ch)' = InHand(ch)
  <2>1. OnStdin(ch) \in Nat
    BY OnStdinType
  <2>2. got[ch] \in Nat /\ sent[ch] \in Nat
    BY DEF TypeOK
  <2>3. InHand(ch) \in Nat /\ InHand(ch)' = InHand(ch)
    BY <1>1 DEF InHand
  <2>4. QED
    BY <2>1, <2>2, <2>3 DEF EveryFrameArrives
<1>3. CASE HostSends
  <2>1. PICK h \in hostOpen : Write(Data(h)) /\ sent' = [sent EXCEPT ![h] = @ + 1]
    BY <1>3 DEF HostSends
  <2>2. h \in Chans /\ Data(h) \in Frames
    BY FrameShapes DEF TypeOK
  <2>3. Data(h) = Data(ch) <=> h = ch
    BY <2>2, DataFrames
  <2>4. OnStdin(ch)' = OnStdin(ch) + One(h = ch)
    BY <2>1, <2>2, <2>3, WriteCounts DEF One
  <2>5. sent'[ch] = sent[ch] + One(h = ch)
    BY <2>1, <2>2 DEF TypeOK, One
  <2>6. QED
    BY <1>1, <1>2, <2>4, <2>5 DEF One
<1>4. CASE HostOpens \/ HostRefuses \/ HostAsks \/ HostBreaks
  <2>1. UNCHANGED sent /\ \E f : Write(f) /\ f # Data(ch)
    BY <1>4, DataFrames DEF HostOpens, HostRefuses, HostAsks, HostBreaks, hostSide
  <2>2. PICK f : Write(f) /\ f # Data(ch)
    BY <2>1
  <2>3. f \in Frames
    <3>1. Len(stdin') \in 1..Len(stdin') /\ stdin'[Len(stdin')] = f
      BY <2>2, WriteShape
    <3>2. QED
      BY <3>1, ElementType DEF TypeOK
  <2>4. OnStdin(ch)' = OnStdin(ch)
    BY <1>2, <2>2, <2>3, WriteCounts DEF One
  <2>5. QED
    BY <1>1, <1>2, <2>1, <2>4
<1>5. CASE HostCloses \/ HostGoes
  <2>1. UNCHANGED <<sent, stdin>>
    BY <1>5 DEF HostCloses, HostGoes
  <2>2. QED
    BY <1>1, <1>2, <2>1 DEF OnStdin
<1>6. QED
  BY <1>3, <1>4, <1>5 DEF HostSteps

LEMMA ArrivesStep ==
    ASSUME TypeOK, TypeOK', KnownInv, EveryFrameArrives, [Next]_vars
    PROVE  EveryFrameArrives'
<1>1. ASSUME NEW c \in Callers, CallSteps(c) \/ OpenSteps(c)
      PROVE  EveryFrameArrives'
  <2>1. UNCHANGED <<sent, got, frame, stdin>> /\ closed \subseteq closed'
    BY <1>1 DEF CallSteps, OpenSteps, CallStart, CallSend, CallSendFails, CallAnswered, CallTimesOut, CallReturns,
                Register, CloseLocally, NotifyClose, registry, reader, hostSide, replies
  <2>2. QED
    BY <2>1 DEF EveryFrameArrives, InHand, OnStdin
<1>2. CASE UNCHANGED vars
  BY <1>2 DEF vars, registry, reader, hostSide, replies, EveryFrameArrives, InHand, OnStdin
<1>3. QED
  BY <1>1, <1>2, ArrivesLoop, ArrivesHost DEF Next

(* No frame of a channel is lost, the first one included, which the host may send before   *)
(* Register has run, until the plugin closes that channel itself.                          *)
THEOREM FrameSafety == Spec => []EveryFrameArrives
<1>1. IInv /\ IInv' /\ EveryFrameArrives /\ [Next]_vars => EveryFrameArrives'
  BY ArrivesStep DEF IInv, TypeInv
<1>2. QED
  BY <1>1, ArrivesInit, InvariantAlways, PTL DEF Spec
================================================================================
