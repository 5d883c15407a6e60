--------------------------- MODULE ControlPlaneProofs ---------------------------
(***************************************************************************)
(* What ControlPlane keeps for any number of goroutines, calls and frames:  *)
(* its types, that the pending map holds the calls under way, that every     *)
(* response reaches the goroutine that asked for it, and that the process   *)
(* dies for a frame of an unknown channel only if its opener had given up.  *)
(***************************************************************************)
EXTENDS ControlPlane, TLAPS

USE ControlPlaneAssumption

-----------------------------------------------------------------------------
(* Types. *)

(* What a goroutine's place says of the channel it holds. *)
HoldInv == \A c \in Callers :
    /\ pc[c] \in Holding => chan[c] # Refused
    /\ pc[c] \in {"idle", "sending", "waiting"} => chan[c] = Refused
    /\ pc[c] = "open" => chan[c] \in registered
    /\ pc[c] # "idle" => call[c] \in Ids

TypeInv == TypeOK /\ HoldInv

LEMMA FrameShapes ==
    /\ \A f \in Frames : f.kind = "response" => f.id \in Ids /\ f.chan \in Chans \cup {Refused}
    /\ \A f \in Frames : f.kind = "data" => f.chan \in Chans
    /\ \A id \in Ids, ch \in Chans \cup {Refused} : Response(id, ch) \in Frames
    /\ \A ch \in Chans : Data(ch) \in Frames
    /\ Request("ping") \in Frames /\ Request("shutdown") \in Frames /\ Broken \in Frames
<1>1. ASSUME NEW f \in Frames
      PROVE  \/ \E id \in Ids, ch \in Chans \cup {Refused} : f = Response(id, ch)
             \/ \E ch \in Chans : f = Data(ch)
             \/ \E m \in {"ping", "shutdown"} : f = Request(m)
             \/ f = Broken
  BY DEF Frames
<1>2. ASSUME NEW f \in Frames, f.kind = "response"
      PROVE  f.id \in Ids /\ f.chan \in Chans \cup {Refused}
  BY <1>1, <1>2 DEF Response, Data, Request, Broken
<1>3. ASSUME NEW f \in Frames, f.kind = "data"
      PROVE  f.chan \in Chans
  BY <1>1, <1>3 DEF Response, Data, Request, Broken
<1>4. /\ \A id \in Ids, ch \in Chans \cup {Refused} : Response(id, ch) \in Frames
      /\ \A ch \in Chans : Data(ch) \in Frames
      /\ Request("ping") \in Frames /\ Request("shutdown") \in Frames /\ Broken \in Frames
  BY DEF Frames
<1>5. QED
  BY <1>2, <1>3, <1>4

LEMMA InitTypes == Init => TypeInv
<1> SUFFICES ASSUME Init PROVE TypeInv
  OBVIOUS
<1>1. DOMAIN pending = {}
  BY DEF Init
<1>2. stdin \in Seq(Frames) /\ owner \in Seq([id : Ids, by : Callers])
  BY DEF Init
<1>3. sent \in [Chans -> 0..MaxFrames] /\ got \in [Chans -> Nat]
  BY DEF Init
<1>4. /\ pc \in [Callers -> InCall \cup Holding \cup {"idle"}] /\ call \in [Callers -> Ids \cup {0}]
      /\ answer \in [Callers -> Chans \cup {Refused, Unanswered}] /\ chan \in [Callers -> Chans \cup {Refused}]
  BY DEF Init
<1>5. /\ idSeq \in 0..MaxCalls /\ DOMAIN pending \subseteq Ids
      /\ \A i \in DOMAIN pending : pending[i] \in Callers
      /\ registered \subseteq Chans /\ closed \subseteq registered
      /\ closing \subseteq Chans /\ hostOpen \subseteq Chans /\ gaveUp \subseteq Ids
      /\ asked \subseteq [id : Ids, by : Callers] /\ asks \in 0..MaxAsks
  BY <1>1 DEF Init
<1>6. TypeOK
  BY <1>2, <1>3, <1>4, <1>5 DEF Init, TypeOK
<1>7. HoldInv
  BY DEF Init, HoldInv, Holding
<1>8. QED
  BY <1>6, <1>7 DEF TypeInv

LEMMA CallerTypes ==
    ASSUME TypeInv, NEW c \in Callers, CallSteps(c) \/ OpenSteps(c)
    PROVE  TypeInv'
<1> USE DEF TypeInv, TypeOK, HoldInv, Step, Holding, InCall, Ids, Chans, Refused, Unanswered,
            registry, reader, hostSide, replies
<1>1. CASE CallStart(c)
  <2>1. NextID \in Ids /\ idSeq' \in 0..MaxCalls
    BY <1>1 DEF CallStart, NextID
  <2>2. /\ DOMAIN pending' = DOMAIN pending \cup {NextID}
        /\ \A i \in DOMAIN pending' : pending'[i] \in Callers
    BY <1>1 DEF CallStart
  <2>3. QED
    BY <1>1, <2>1, <2>2 DEF CallStart
<1>2. CASE CallSend(c)
  <2>1. asked' \subseteq [id : Ids, by : Callers]
    BY <1>2 DEF CallSend
  <2>2. QED
    BY <1>2, <2>1 DEF CallSend
<1>3. CASE CallSendFails(c)
  BY <1>3 DEF CallSendFails
<1>4. CASE CallAnswered(c)
  BY <1>4 DEF CallAnswered
<1>5. CASE CallTimesOut(c)
  BY <1>5 DEF CallTimesOut
<1>6. CASE CallReturns(c)
  <2>1. DOMAIN pending' = DOMAIN pending \ {call[c]} /\ \A i \in DOMAIN pending' : pending'[i] \in Callers
    BY <1>6 DEF CallReturns, Forget
  <2>2. AfterCall(c) \in {"idle", "register"} /\ (AfterCall(c) = "idle" <=> chan[c] = Refused)
    BY DEF AfterCall
  <2>3. HoldInv'
    BY <1>6, <2>2 DEF CallReturns
  <2>4. QED
    BY <1>6, <2>1, <2>2, <2>3 DEF CallReturns
<1>7. CASE Register(c)
  <2>1. chan[c] \in Chans /\ registered' \subseteq Chans /\ closed' \subseteq registered'
    BY <1>7 DEF Register
  <2>2. HoldInv'
    BY <1>7, <2>1 DEF Register
  <2>3. pc' \in [Callers -> InCall \cup Holding \cup {"idle"}] /\ gen' \in Nat
    BY <1>7 DEF Register
  <2>4. TypeOK'
    BY <1>7, <2>1, <2>3 DEF Register
  <2>5. QED
    BY <2>2, <2>4 DEF TypeInv
<1>8. CASE CloseLocally(c)
  BY <1>8 DEF CloseLocally
<1>9. CASE NotifyClose(c)
  BY <1>9 DEF NotifyClose, Notify
<1>10. QED
  BY <1>1, <1>2, <1>3, <1>4, <1>5, <1>6, <1>7, <1>8, <1>9 DEF CallSteps, OpenSteps

LEMMA LoopTypes ==
    ASSUME TypeInv, LoopSteps
    PROVE  TypeInv'
<1> USE DEF TypeInv, TypeOK, HoldInv, Exited, client, registry, hostSide, replies
<1>1. ASSUME NEW f \in Frames, Read(f)
      PROVE  stdin' \in Seq(Frames)
  BY <1>1 DEF Read
<1>2. CASE ReadResponse
  <2>1. PICK f \in Frames : Read(f) /\ f.kind = "response" /\ Deliver(f)
    BY <1>2 DEF ReadResponse
  <2>2. answer' \in [Callers -> Chans \cup {Refused, Unanswered}]
    BY <2>1, FrameShapes DEF Deliver, Awaited
  <2>3. QED
    BY <1>1, <1>2, <2>1, <2>2 DEF ReadResponse, reader
<1>3. CASE ReadRequest
  BY <1>1, <1>3 DEF ReadRequest, Respond, AfterDispatch
<1>4. CASE ReadData
  BY <1>1, <1>4, FrameShapes DEF ReadData
<1>5. CASE ReadBroken
  BY <1>1, <1>5, FrameShapes DEF ReadBroken
<1>6. CASE ReadEOF
  BY <1>6 DEF ReadEOF
<1>7. CASE RouteFrame
  BY <1>7 DEF RouteFrame
<1>8. CASE Await
  BY <1>8 DEF Await
<1>9. CASE AwaitWakes
  BY <1>9 DEF AwaitWakes
<1>10. CASE GraceExpires
  BY <1>10 DEF GraceExpires
<1>11. QED
  BY <1>2, <1>3, <1>4, <1>5, <1>6, <1>7, <1>8, <1>9, <1>10 DEF LoopSteps

LEMMA HostTypes ==
    ASSUME TypeInv, HostSteps
    PROVE  TypeInv'
<1> USE DEF TypeInv, TypeOK, HoldInv, client, registry, reader, replies
<1>1. ASSUME NEW f \in Frames, Write(f)
      PROVE  stdin' \in Seq(Frames)
  BY <1>1 DEF Write
<1>2. CASE HostOpens
  <2>1. PICK r \in asked : /\ Len(owner) < MaxCalls /\ Write(Response(r.id, Len(owner) + 1))
                           /\ asked' = asked \ {r} /\ owner' = Append(owner, r)
                           /\ hostOpen' = hostOpen \cup {Len(owner) + 1}
    BY <1>2 DEF HostOpens
  <2>2. Len(owner) + 1 \in Chans /\ r \in [id : Ids, by : Callers]
    BY <2>1 DEF Chans
  <2>3. Response(r.id, Len(owner) + 1) \in Frames
    BY <2>2, FrameShapes
  <2>4. stdin' \in Seq(Frames)
    BY <1>1, <2>1, <2>3
  <2>5. owner' \in Seq([id : Ids, by : Callers])
    BY <2>1, <2>2
  <2>6. QED
    BY <1>2, <2>1, <2>2, <2>4, <2>5 DEF HostOpens
<1>3. CASE HostRefuses
  <2>1. PICK r \in asked : Write(Response(r.id, Refused)) /\ asked' = asked \ {r}
    BY <1>3 DEF HostRefuses
  <2>2. stdin' \in Seq(Frames)
    BY <1>1, <2>1, FrameShapes
  <2>3. QED
    BY <1>3, <2>1, <2>2 DEF HostRefuses
<1>4. CASE HostSends
  BY <1>1, <1>4, FrameShapes DEF HostSends
<1>5. CASE HostAsks
  BY <1>1, <1>5, FrameShapes DEF HostAsks
<1>6. CASE HostBreaks
  BY <1>1, <1>6, FrameShapes DEF HostBreaks, hostSide
<1>7. CASE HostCloses
  BY <1>7 DEF HostCloses
<1>8. CASE HostGoes
  BY <1>8 DEF HostGoes
<1>9. QED
  BY <1>2, <1>3, <1>4, <1>5, <1>6, <1>7, <1>8 DEF HostSteps

LEMMA StepTypes == TypeInv /\ [Next]_vars => TypeInv'
<1> SUFFICES ASSUME TypeInv, [Next]_vars PROVE TypeInv'
  OBVIOUS
<1>1. CASE UNCHANGED vars
  BY <1>1 DEF vars, client, registry, reader, hostSide, replies, TypeInv, TypeOK, HoldInv
<1>2. CASE Next
  BY <1>2, CallerTypes, LoopTypes, HostTypes DEF Next
<1>3. QED
  BY <1>1, <1>2

(* Every field keeps its type; only channels that Register has seen are ever closed. *)
THEOREM ControlPlaneTypeCorrect == Spec => []TypeOK
<1>1. Spec => []TypeInv
  BY InitTypes, StepTypes, PTL DEF Spec
<1>2. TypeInv => TypeOK
  BY DEF TypeInv
<1>3. QED
  BY <1>1, <1>2, PTL

-----------------------------------------------------------------------------
(* The pending map.  Ids are fresh, so no two calls under way share one. *)

FreshIds == \A c \in Callers :
    /\ call[c] \in 0..idSeq
    /\ \A d \in Callers : call[c] = call[d] => c = d \/ call[c] = 0

PendingMatch ==
    /\ \A i \in DOMAIN pending : pc[pending[i]] \in InCall /\ call[pending[i]] = i
    /\ \A c \in Callers : pc[c] \in InCall => call[c] \in DOMAIN pending /\ pending[call[c]] = c

PendingInv == FreshIds /\ PendingMatch

LEMMA InitPending == Init => PendingInv
<1> SUFFICES ASSUME Init PROVE PendingInv
  OBVIOUS
<1>1. DOMAIN pending = {}
  BY DEF Init
<1>2. QED
  BY <1>1 DEF Init, PendingInv, FreshIds, PendingMatch, InCall

LEMMA StartPending ==
    ASSUME TypeInv, PendingInv, NEW c \in Callers, CallStart(c)
    PROVE  PendingInv'
<1> USE DEF TypeInv, TypeOK, CallStart, Step, NextID
<1>1. FreshIds'
  BY DEF PendingInv, FreshIds
<1>2. /\ DOMAIN pending' = DOMAIN pending \cup {NextID}
      /\ pending'[NextID] = c
      /\ \A i \in DOMAIN pending : i # NextID => pending'[i] = pending[i]
  OBVIOUS
<1>3. NextID \notin DOMAIN pending
  BY DEF PendingInv, FreshIds, PendingMatch
<1>4. \A i \in DOMAIN pending : pending[i] # c
  BY DEF PendingInv, PendingMatch, InCall
<1>5. \A d \in Callers \ {c} : pc'[d] = pc[d] /\ call'[d] = call[d]
  OBVIOUS
<1>6. pc'[c] = "sending" /\ call'[c] = NextID
  OBVIOUS
<1>7. PendingMatch'
  BY <1>2, <1>3, <1>4, <1>5, <1>6 DEF PendingInv, PendingMatch, InCall
<1>8. QED
  BY <1>1, <1>7 DEF PendingInv

LEMMA ReturnPending ==
    ASSUME TypeInv, PendingInv, NEW c \in Callers, CallReturns(c)
    PROVE  PendingInv'
<1> USE DEF TypeInv, TypeOK, CallReturns, Step
<1>1. FreshIds'
  BY DEF PendingInv, FreshIds
<1>2. /\ DOMAIN pending' = DOMAIN pending \ {call[c]}
      /\ \A i \in DOMAIN pending' : pending'[i] = pending[i]
  BY DEF Forget
<1>3. pc[c] \in InCall /\ pc'[c] \notin InCall
  BY DEF InCall, AfterCall
<1>4. \A d \in Callers \ {c} : pc'[d] = pc[d]
  OBVIOUS
<1>5. \A i \in DOMAIN pending' : pending[i] # c
  BY <1>2 DEF PendingInv, PendingMatch
<1>6. \A d \in Callers \ {c} : pc[d] \in InCall => call[d] # call[c]
  BY <1>3 DEF PendingInv, PendingMatch
<1>7. PendingMatch'
  BY <1>2, <1>3, <1>4, <1>5, <1>6 DEF PendingInv, PendingMatch
<1>8. QED
  BY <1>1, <1>7 DEF PendingInv

(* All other steps leave the map and the ids alone and move no goroutine into or out of Call. *)
LEMMA OtherPending ==
    ASSUME TypeInv, PendingInv, [Next]_vars,
           UNCHANGED <<idSeq, pending, call>>,
           \A c \in Callers : pc'[c] \in InCall <=> pc[c] \in InCall
    PROVE  PendingInv'
<1>1. FreshIds'
  BY DEF PendingInv, FreshIds
<1>2. \A i \in DOMAIN pending : pending[i] \in Callers
  BY DEF TypeInv, TypeOK
<1>3. PendingMatch'
  BY <1>2 DEF PendingInv, PendingMatch
<1>4. QED
  BY <1>1, <1>3 DEF PendingInv

LEMMA StepPending == TypeInv /\ PendingInv /\ [Next]_vars => PendingInv'
<1> SUFFICES ASSUME TypeInv, PendingInv, [Next]_vars PROVE PendingInv'
  OBVIOUS
<1> USE DEF TypeInv, TypeOK
<1>1. CASE UNCHANGED vars
  BY <1>1, OtherPending DEF vars, client
<1>2. ASSUME NEW c \in Callers, CallSteps(c) \/ OpenSteps(c)
      PROVE  PendingInv'
  <2>1. CASE CallStart(c)
    BY <2>1, StartPending
  <2>2. CASE CallReturns(c)
    BY <2>2, ReturnPending
  <2>3. CASE CallSend(c) \/ CallSendFails(c) \/ CallAnswered(c) \/ CallTimesOut(c)
    <3>1. UNCHANGED <<idSeq, pending, call>> /\ \A d \in Callers : pc'[d] \in InCall <=> pc[d] \in InCall
      BY <2>3 DEF CallSend, CallSendFails, CallAnswered, CallTimesOut, Step, InCall
    <3>2. QED
      BY <3>1, OtherPending
  <2>4. CASE Register(c) \/ CloseLocally(c) \/ NotifyClose(c)
    <3>1. UNCHANGED <<idSeq, pending, call>> /\ \A d \in Callers : pc'[d] \in InCall <=> pc[d] \in InCall
      BY <2>4 DEF Register, CloseLocally, NotifyClose, Step, InCall
    <3>2. QED
      BY <3>1, OtherPending
  <2>5. QED
    BY <1>2, <2>1, <2>2, <2>3, <2>4 DEF CallSteps, OpenSteps
<1>3. CASE LoopSteps
  <2>1. UNCHANGED <<idSeq, pending, call, pc>>
    BY <1>3 DEF LoopSteps, ReadResponse, ReadRequest, ReadData, ReadBroken, ReadEOF,
                RouteFrame, Await, AwaitWakes, GraceExpires, client
  <2>2. QED
    BY <2>1, OtherPending
<1>4. CASE HostSteps
  <2>1. UNCHANGED client
    BY <1>4 DEF HostSteps, HostOpens, HostRefuses, HostSends, HostAsks, HostBreaks, HostCloses, HostGoes
  <2>2. QED
    BY <2>1, OtherPending DEF client
<1>5. QED
  BY <1>1, <1>2, <1>3, <1>4 DEF Next

(* However calls end, answered, refused, timed out or unsent, their entries go with them. *)
THEOREM PendingSafety == Spec => []PendingIsUnderWay
<1>1. Init => TypeInv /\ PendingInv
  BY InitTypes, InitPending
<1>2. TypeInv /\ PendingInv /\ [Next]_vars => (TypeInv /\ PendingInv)'
  BY StepTypes, StepPending
<1>3. ASSUME TypeInv, PendingInv
      PROVE  PendingIsUnderWay
  <2>1. \A i \in DOMAIN pending : pending[i] \in Callers /\ pc[pending[i]] \in InCall /\ i = call[pending[i]]
    BY <1>3 DEF TypeInv, TypeOK, PendingInv, PendingMatch
  <2>2. \A c \in Callers : pc[c] \in InCall => call[c] \in DOMAIN pending /\ pending[call[c]] = c
    BY <1>3 DEF PendingInv, PendingMatch
  <2>3. DOMAIN pending = {call[c] : c \in {d \in Callers : pc[d] \in InCall}}
    BY <2>1, <2>2
  <2>4. QED
    BY <2>2, <2>3 DEF PendingIsUnderWay
<1>4. QED
  BY <1>1, <1>2, <1>3, PTL DEF Spec

-----------------------------------------------------------------------------
(* Responses.  Whatever carries the id of a call, on its way to the host or   *)
(* back, belongs to that call's goroutine, if it belongs to one at all.       *)

Mine(r) == r.id <= idSeq /\ \A c \in Callers : call[c] = r.id => c = r.by

RequestMatch ==
    /\ \A r \in asked : Mine(r)
    /\ \A k \in 1..Len(owner) : Mine(owner[k])

ResponseMatch == \A i \in 1..Len(stdin) :
    stdin[i].kind = "response" /\ stdin[i].chan # Refused =>
        stdin[i].chan \in 1..Len(owner) /\ owner[stdin[i].chan].id = stdin[i].id

Given(c, ch) == ch \in 1..Len(owner) /\ owner[ch] = [id |-> call[c], by |-> c]

AnswerMatch == \A c \in Callers :
    /\ answer[c] \in Chans => Given(c, answer[c])
    /\ chan[c] \in Chans => Given(c, chan[c])

AnswerInv == RequestMatch /\ ResponseMatch /\ AnswerMatch

LEMMA InitAnswers == Init => AnswerInv
<1> SUFFICES ASSUME Init PROVE AnswerInv
  OBVIOUS
<1>1. Len(owner) = 0 /\ Len(stdin) = 0 /\ asked = {}
  BY DEF Init
<1>2. QED
  BY <1>1 DEF Init, AnswerInv, RequestMatch, ResponseMatch, AnswerMatch, Chans, Refused, Unanswered

LEMMA ElementType ==
    ASSUME NEW S, NEW s \in Seq(S)
    PROVE  \A k \in 1..Len(s) : s[k] \in S
OBVIOUS

LEMMA OwnerType ==
    ASSUME TypeOK
    PROVE  \A k \in 1..Len(owner) : owner[k] \in [id : Ids, by : Callers]
BY ElementType DEF TypeOK

LEMMA OwnerKept ==
    ASSUME TypeOK, NEW r, owner' = Append(owner, r)
    PROVE  /\ Len(owner') = Len(owner) + 1 /\ owner'[Len(owner) + 1] = r
           /\ \A k \in 1..Len(owner) : owner'[k] = owner[k]
BY DEF TypeOK

LEMMA RequestStep ==
    ASSUME TypeInv, PendingInv, RequestMatch, Next
    PROVE  RequestMatch'
<1> USE DEF TypeInv, TypeOK
<1>1. ASSUME UNCHANGED <<idSeq, call, asked, owner>>
      PROVE  RequestMatch'
  BY <1>1 DEF RequestMatch, Mine
<1>2. ASSUME NEW c \in Callers, CallStart(c)
      PROVE  RequestMatch'
  <2>1. /\ idSeq' = idSeq + 1 /\ call'[c] = idSeq + 1 /\ UNCHANGED <<asked, owner>>
        /\ \A d \in Callers \ {c} : call'[d] = call[d]
    BY <1>2 DEF CallStart, NextID, hostSide
  <2>2. ASSUME NEW r \in [id : Ids, by : Callers], Mine(r)
        PROVE  Mine(r)'
    BY <2>1, <2>2 DEF Mine, Ids
  <2>3. \A k \in 1..Len(owner) : owner[k] \in [id : Ids, by : Callers]
    BY OwnerType
  <2>4. QED
    BY <2>1, <2>2, <2>3 DEF RequestMatch
<1>3. ASSUME NEW c \in Callers, CallSend(c)
      PROVE  RequestMatch'
  <2>1. asked' = asked \cup {[id |-> call[c], by |-> c]} /\ UNCHANGED <<idSeq, call, owner>>
    BY <1>3 DEF CallSend
  <2>2. call[c] \in Ids
    BY <1>3 DEF CallSend, Step, HoldInv
  <2>3. Mine([id |-> call[c], by |-> c])
    BY <2>2 DEF Mine, PendingInv, FreshIds, Ids
  <2>4. QED
    BY <2>1, <2>3 DEF RequestMatch, Mine
<1>4. CASE HostOpens
  <2>1. PICK r \in asked : asked' = asked \ {r} /\ owner' = Append(owner, r) /\ UNCHANGED <<idSeq, call>>
    BY <1>4 DEF HostOpens, client
  <2>2. \A k \in 1..Len(owner') : owner'[k] = r \/ (k \in 1..Len(owner) /\ owner'[k] = owner[k])
    BY <2>1, OwnerKept
  <2>3. QED
    BY <2>1, <2>2 DEF RequestMatch, Mine
<1>5. CASE HostRefuses
  <2>1. asked' \subseteq asked /\ UNCHANGED <<idSeq, call, owner>>
    BY <1>5 DEF HostRefuses, client
  <2>2. QED
    BY <2>1 DEF RequestMatch, Mine
<1>6. ASSUME NEW c \in Callers, \/ CallSendFails(c) \/ CallAnswered(c) \/ CallTimesOut(c) \/ CallReturns(c)
                                \/ Register(c) \/ CloseLocally(c) \/ NotifyClose(c)
      PROVE  RequestMatch'
  BY <1>1, <1>6 DEF CallSendFails, CallAnswered, CallTimesOut, CallReturns, Register, CloseLocally,
                    NotifyClose, hostSide
<1>7. CASE LoopSteps
  BY <1>1, <1>7 DEF LoopSteps, ReadResponse, ReadRequest, ReadData, ReadBroken, ReadEOF,
                    RouteFrame, Await, AwaitWakes, GraceExpires, client, hostSide
<1>8. CASE HostSends \/ HostAsks \/ HostBreaks \/ HostCloses \/ HostGoes
  BY <1>1, <1>8 DEF HostSends, HostAsks, HostBreaks, HostCloses, HostGoes, client, hostSide
<1>9. QED
  BY <1>2, <1>3, <1>4, <1>5, <1>6, <1>7, <1>8 DEF Next, CallSteps, OpenSteps, HostSteps

LEMMA ReadShift ==
    ASSUME TypeOK, NEW f, Read(f)
    PROVE  /\ 1 \in 1..Len(stdin) /\ f = stdin[1] /\ Len(stdin') = Len(stdin) - 1
           /\ \A i \in 1..Len(stdin') : i + 1 \in 1..Len(stdin) /\ stdin'[i] = stdin[i + 1]
BY DEF Read, TypeOK

LEMMA WriteShape ==
    ASSUME TypeOK, NEW f, Write(f)
    PROVE  /\ Len(stdin) \in Nat /\ Len(stdin') = Len(stdin) + 1 /\ stdin'[Len(stdin) + 1] = f
           /\ \A i \in 1..Len(stdin) : stdin'[i] = stdin[i]
BY DEF Write, TypeOK

(* A frame added at the end, or taken from the front, leaves the others matched. *)
LEMMA ResponsesShrink ==
    ASSUME TypeOK, ResponseMatch, UNCHANGED owner, NEW f, Read(f)
    PROVE  ResponseMatch'
BY ReadShift DEF ResponseMatch

LEMMA ResponsesGrow ==
    ASSUME TypeOK, ResponseMatch, NEW f, Write(f),
           Len(owner) \in Nat, Len(owner') \in Nat, Len(owner) <= Len(owner'),
           \A k \in 1..Len(owner) : owner'[k] = owner[k],
           f.kind = "response" /\ f.chan # Refused => f.chan \in 1..Len(owner') /\ owner'[f.chan].id = f.id
    PROVE  ResponseMatch'
<1>1. \A i \in 1..Len(stdin') : stdin'[i] = f \/ (i \in 1..Len(stdin) /\ stdin'[i] = stdin[i])
  BY WriteShape
<1>2. QED
  BY <1>1 DEF ResponseMatch

LEMMA ResponseStep ==
    ASSUME TypeInv, ResponseMatch, Next
    PROVE  ResponseMatch'
<1> USE DEF TypeInv
<1>1. Len(owner) \in Nat
  BY DEF TypeOK
<1>2. ASSUME UNCHANGED <<stdin, owner>>
      PROVE  ResponseMatch'
  BY <1>2 DEF ResponseMatch
<1>3. ASSUME NEW c \in Callers, CallSteps(c) \/ OpenSteps(c)
      PROVE  ResponseMatch'
  BY <1>2, <1>3 DEF CallSteps, OpenSteps, CallStart, CallSend, CallSendFails, CallAnswered, CallTimesOut,
                    CallReturns, Register, CloseLocally, NotifyClose, hostSide
<1>4. CASE ReadResponse \/ ReadRequest \/ ReadData \/ ReadBroken
  BY <1>4, ResponsesShrink DEF ReadResponse, ReadRequest, ReadData, ReadBroken, hostSide
<1>5. CASE ReadEOF \/ RouteFrame \/ Await \/ AwaitWakes \/ GraceExpires
  BY <1>2, <1>5 DEF ReadEOF, RouteFrame, Await, AwaitWakes, GraceExpires, hostSide
<1>6. CASE HostOpens
  <2>1. PICK r \in asked : Write(Response(r.id, Len(owner) + 1)) /\ owner' = Append(owner, r)
    BY <1>6 DEF HostOpens
  <2>2. QED
    BY <1>1, <2>1, OwnerKept, ResponsesGrow DEF Response
<1>7. CASE HostRefuses
  <2>1. PICK r \in asked : Write(Response(r.id, Refused)) /\ UNCHANGED owner
    BY <1>7 DEF HostRefuses
  <2>2. QED
    BY <1>1, <2>1, ResponsesGrow DEF Response
<1>8. CASE HostSends \/ HostAsks \/ HostBreaks
  <2>1. PICK f \in Frames : Write(f) /\ f.kind # "response" /\ UNCHANGED owner
    BY <1>8, FrameShapes DEF HostSends, HostAsks, HostBreaks, hostSide, Data, Request, Broken, TypeOK
  <2>2. QED
    BY <1>1, <2>1, ResponsesGrow
<1>9. CASE HostCloses \/ HostGoes
  BY <1>2, <1>9 DEF HostCloses, HostGoes
<1>10. QED
  BY <1>3, <1>4, <1>5, <1>6, <1>7, <1>8, <1>9 DEF Next, LoopSteps, HostSteps

LEMMA AnswerStep ==
    ASSUME TypeInv, PendingInv, AnswerInv, Next
    PROVE  AnswerMatch'
<1> USE DEF TypeInv, AnswerInv
<1>1. ASSUME UNCHANGED <<call, answer, chan, owner>>
      PROVE  AnswerMatch'
  BY <1>1 DEF AnswerMatch, Given
<1>2. ASSUME NEW c \in Callers, CallStart(c)
      PROVE  AnswerMatch'
  <2>1. chan[c] = Refused
    BY <1>2 DEF CallStart, Step, HoldInv
  <2>2. /\ answer'[c] = Unanswered /\ UNCHANGED <<chan, owner>>
        /\ \A d \in Callers \ {c} : answer'[d] = answer[d] /\ call'[d] = call[d]
    BY <1>2 DEF CallStart, hostSide, TypeOK
  <2>3. QED
    BY <2>1, <2>2 DEF AnswerMatch, Given, Refused, Unanswered, Chans
<1>3. ASSUME NEW c \in Callers, CallAnswered(c)
      PROVE  AnswerMatch'
  <2>1. /\ chan'[c] = answer[c] /\ UNCHANGED <<answer, call, owner>>
        /\ \A d \in Callers \ {c} : chan'[d] = chan[d]
    BY <1>3 DEF CallAnswered, hostSide, TypeOK
  <2>2. QED
    BY <2>1 DEF AnswerMatch, Given
<1>4. ASSUME NEW c \in Callers, CallReturns(c)
      PROVE  AnswerMatch'
  <2>1. /\ answer'[c] = Unanswered /\ UNCHANGED <<chan, call, owner>>
        /\ \A d \in Callers \ {c} : answer'[d] = answer[d]
    BY <1>4 DEF CallReturns, hostSide, TypeOK
  <2>2. QED
    BY <2>1 DEF AnswerMatch, Given, Unanswered, Chans
<1>5. ASSUME NEW c \in Callers, NotifyClose(c)
      PROVE  AnswerMatch'
  <2>1. /\ chan'[c] = Refused /\ UNCHANGED <<answer, call, owner>>
        /\ \A d \in Callers \ {c} : chan'[d] = chan[d]
    BY <1>5 DEF NotifyClose, TypeOK
  <2>2. QED
    BY <2>1 DEF AnswerMatch, Given, Refused, Chans
<1>6. CASE ReadResponse
  <2>1. PICK f \in Frames : Read(f) /\ f.kind = "response" /\ Deliver(f)
    BY <1>6 DEF ReadResponse
  <2>2. UNCHANGED <<call, chan, owner>>
    BY <1>6 DEF ReadResponse, hostSide
  <2>3. CASE ~Awaited(f)
    BY <1>1, <2>1, <2>2, <2>3 DEF Deliver
  <2>4. CASE Awaited(f)
    <3> DEFINE c == pending[f.id]
    <3>1. c \in Callers /\ call[c] = f.id
      BY <2>4 DEF Awaited, PendingInv, PendingMatch, TypeOK
    <3>2. answer' = [answer EXCEPT ![c] = f.chan]
      BY <2>1, <2>4 DEF Deliver
    <3>3. ASSUME f.chan \in Chans
          PROVE  Given(c, f.chan)
      <4>1. f = stdin[1] /\ 1 \in 1..Len(stdin)
        BY <2>1, ReadShift
      <4>2. f.chan \in 1..Len(owner) /\ owner[f.chan].id = f.id
        <5>1. f.chan # Refused
          BY <3>3 DEF Refused, Chans
        <5>2. QED
          BY <2>1, <4>1, <5>1 DEF ResponseMatch
      <4>3. owner[f.chan].by = c
        BY <3>1, <4>2 DEF RequestMatch, Mine
      <4>4. owner[f.chan] \in [id : Ids, by : Callers]
        BY <4>2, OwnerType
      <4>5. QED
        BY <3>1, <4>2, <4>3, <4>4 DEF Given
    <3>4. answer'[c] = f.chan /\ \A d \in Callers \ {c} : answer'[d] = answer[d]
      BY <3>1, <3>2 DEF TypeOK
    <3>5. QED
      BY <2>2, <3>3, <3>4 DEF AnswerMatch, Given
  <2>5. QED
    BY <2>3, <2>4
<1>7. CASE HostOpens
  <2>1. PICK r \in asked : owner' = Append(owner, r)
    BY <1>7 DEF HostOpens
  <2>2. \A c \in Callers, k \in Nat : Given(c, k) => Given(c, k)'
    BY <1>7, <2>1, OwnerKept DEF HostOpens, client, Given
  <2>3. QED
    BY <1>7, <2>2 DEF HostOpens, client, AnswerMatch, Chans
<1>8. ASSUME NEW c \in Callers, \/ CallSend(c) \/ CallSendFails(c) \/ CallTimesOut(c)
                                \/ Register(c) \/ CloseLocally(c)
      PROVE  AnswerMatch'
  BY <1>1, <1>8 DEF CallSend, CallSendFails, CallTimesOut, Register, CloseLocally, hostSide
<1>9. CASE LoopSteps
  BY <1>1, <1>6, <1>9 DEF LoopSteps, ReadRequest, ReadData, ReadBroken, ReadEOF,
                          RouteFrame, Await, AwaitWakes, GraceExpires, client, hostSide
<1>10. CASE HostRefuses \/ HostSends \/ HostAsks \/ HostBreaks \/ HostCloses \/ HostGoes
  BY <1>1, <1>10 DEF HostRefuses, HostSends, HostAsks, HostBreaks, HostCloses, HostGoes, client, hostSide
<1>11. QED
  BY <1>2, <1>3, <1>4, <1>5, <1>7, <1>8, <1>9, <1>10 DEF Next, CallSteps, OpenSteps, HostSteps

LEMMA AnswerInvStep ==
    ASSUME TypeInv, PendingInv, AnswerInv, [Next]_vars
    PROVE  AnswerInv'
<1>1. CASE Next
  BY <1>1, RequestStep, ResponseStep, AnswerStep DEF AnswerInv
<1>2. CASE UNCHANGED vars
  BY <1>2 DEF vars, client, hostSide, AnswerInv, RequestMatch, Mine, ResponseMatch, AnswerMatch, Given
<1>3. QED
  BY <1>1, <1>2

(* Late responses, responses out of order, and calls that gave up never give a goroutine *)
(* the channel of another call: the pending map and the fresh ids see to it.             *)
THEOREM AnswerSafety == Spec => []AnswerReachesItsCaller
<1> DEFINE IInv == TypeInv /\ PendingInv /\ AnswerInv
<1>1. Init => IInv
  BY InitTypes, InitPending, InitAnswers
<1>2. IInv /\ [Next]_vars => IInv'
  BY StepTypes, StepPending, AnswerInvStep
<1>3. IInv => AnswerReachesItsCaller
  BY DEF TypeInv, TypeOK, AnswerInv, AnswerMatch, Given, AnswerReachesItsCaller
<1>4. QED
  BY <1>1, <1>2, <1>3, PTL DEF Spec

-----------------------------------------------------------------------------
(* Each request has one response at most, and a call waits for it until it   *)
(* comes or the call gives up.                                               *)

Waits(id, c) == pc[c] = "waiting" /\ call[c] = id /\ answer[c] = Unanswered
IsReply(i, id) == stdin[i].kind = "response" /\ stdin[i].id = id

NewCall(c) ==
    /\ answer[c] = Unanswered
    /\ \A r \in asked : r.id # call[c]
    /\ \A i \in 1..Len(stdin) : ~IsReply(i, call[c])

OpenRequest(r) ==
    /\ r.id \in gaveUp \/ Waits(r.id, r.by)
    /\ \A s \in asked : s.id = r.id => s = r
    /\ \A i \in 1..Len(stdin) : ~IsReply(i, r.id)

OneReply == \A i, j \in 1..Len(stdin) :
    stdin[i].kind = "response" =>
        stdin[i].id \in 1..idSeq /\ (stdin[j].kind = "response" /\ stdin[j].id = stdin[i].id => i = j)

OnceInv ==
    /\ \A c \in Callers : pc[c] = "sending" => NewCall(c)
    /\ \A r \in asked : OpenRequest(r)
    /\ OneReply

LEMMA InitOnce == Init => OnceInv
<1> SUFFICES ASSUME Init PROVE OnceInv
  OBVIOUS
<1>1. Len(stdin) = 0 /\ asked = {}
  BY DEF Init
<1>2. QED
  BY <1>1 DEF Init, OnceInv, OneReply

LEMMA OnceCallers ==
    ASSUME TypeInv, PendingInv, RequestMatch, OnceInv, NEW c \in Callers, CallSteps(c) \/ OpenSteps(c)
    PROVE  OnceInv'
<1> USE DEF TypeInv, IsReply
<1>1. CASE CallStart(c)
  <2>1. /\ idSeq' = idSeq + 1 /\ call'[c] = idSeq + 1 /\ answer'[c] = Unanswered
        /\ pc[c] = "idle" /\ UNCHANGED <<asked, stdin, gaveUp>>
        /\ \A d \in Callers \ {c} : pc'[d] = pc[d] /\ call'[d] = call[d] /\ answer'[d] = answer[d]
    BY <1>1 DEF CallStart, Step, NextID, hostSide, TypeOK
  <2>2. idSeq \in Nat /\ \A r \in asked : r.id \in Ids /\ r.by \in Callers
    BY DEF TypeOK
  <2>3. OneReply'
    BY <2>1, <2>2 DEF OnceInv, OneReply
  <2>4. NewCall(c)'
    BY <2>1, <2>2 DEF NewCall, RequestMatch, Mine, OnceInv, OneReply, Ids
  <2>5. \A r \in asked : OpenRequest(r)'
    BY <2>1, <2>2 DEF OnceInv, OpenRequest, Waits
  <2>6. \A d \in Callers \ {c} : pc[d] = "sending" => NewCall(d)'
    BY <2>1 DEF OnceInv, NewCall
  <2>7. QED
    BY <2>1, <2>3, <2>4, <2>5, <2>6 DEF OnceInv
<1>2. CASE CallSend(c)
  <2>1. /\ pc[c] = "sending" /\ pc'[c] = "waiting" /\ UNCHANGED <<stdin, gaveUp, idSeq, call, answer>>
        /\ asked' = asked \cup {[id |-> call[c], by |-> c]}
        /\ \A d \in Callers \ {c} : pc'[d] = pc[d]
    BY <1>2 DEF CallSend, Step, TypeOK
  <2>2. call[c] # 0 /\ NewCall(c)
    BY <2>1 DEF HoldInv, Ids, OnceInv
  <2>3. OneReply'
    BY <2>1 DEF OnceInv, OneReply
  <2>4. OpenRequest([id |-> call[c], by |-> c])'
    BY <2>1, <2>2 DEF OpenRequest, NewCall, Waits
  <2>5. \A r \in asked : OpenRequest(r)'
    BY <2>1, <2>2 DEF OnceInv, OpenRequest, NewCall, Waits, TypeOK
  <2>6. \A d \in Callers \ {c} : pc[d] = "sending" => NewCall(d)'
    BY <2>1, <2>2 DEF OnceInv, NewCall, PendingInv, FreshIds
  <2>7. QED
    BY <2>1, <2>3, <2>4, <2>5, <2>6 DEF OnceInv
<1>3. ASSUME UNCHANGED <<asked, stdin, idSeq, call>>, gaveUp \subseteq gaveUp', pc'[c] # "sending",
             \A r \in asked : Waits(r.id, c) /\ r.by = c => r.id \in gaveUp',
             \A d \in Callers \ {c} : pc'[d] = pc[d] /\ answer'[d] = answer[d]
      PROVE  OnceInv'
  <2>1. OneReply'
    BY <1>3 DEF OnceInv, OneReply
  <2>2. \A r \in asked : OpenRequest(r)'
    BY <1>3 DEF OnceInv, OpenRequest, Waits, TypeOK
  <2>3. \A d \in Callers \ {c} : pc[d] = "sending" => NewCall(d)'
    BY <1>3 DEF OnceInv, NewCall
  <2>4. QED
    BY <1>3, <2>1, <2>2, <2>3 DEF OnceInv
<1>4. CASE CallSendFails(c) \/ CallAnswered(c) \/ Register(c) \/ CloseLocally(c)
  BY <1>3, <1>4 DEF CallSendFails, CallAnswered, Register, CloseLocally, Step, Waits, hostSide, TypeOK
<1>5. CASE CallTimesOut(c)
  BY <1>3, <1>5 DEF CallTimesOut, Step, Waits, hostSide, TypeOK
<1>6. CASE CallReturns(c)
  BY <1>3, <1>6 DEF CallReturns, AfterCall, Step, Waits, hostSide, TypeOK
<1>7. CASE NotifyClose(c)
  BY <1>3, <1>7 DEF NotifyClose, Step, Waits, TypeOK
<1>8. QED
  BY <1>1, <1>2, <1>4, <1>5, <1>6, <1>7 DEF CallSteps, OpenSteps

(* Taking a frame from the front of stdin disturbs none of this by itself. *)
LEMMA OnceRead ==
    ASSUME TypeOK, OnceInv, NEW f, Read(f), UNCHANGED <<idSeq, asked, pc, call, gaveUp>>,
           \A c \in Callers : answer'[c] = answer[c] \/ (IsReply(1, call[c]) /\ pc[c] \in InCall)
    PROVE  OnceInv'
<1> USE DEF IsReply
<1>1. \A i \in 1..Len(stdin') : i + 1 \in 1..Len(stdin) /\ stdin'[i] = stdin[i + 1]
  BY ReadShift
<1>2. OneReply'
  BY <1>1 DEF OnceInv, OneReply
<1>3. \A c \in Callers : pc[c] = "sending" => NewCall(c)'
  BY <1>1, ReadShift DEF OnceInv, NewCall
<1>4. ASSUME NEW r \in asked
      PROVE  OpenRequest(r)'
  <2>1. r.by \in Callers
    BY DEF TypeOK
  <2>2. Waits(r.id, r.by) => Waits(r.id, r.by)'
    BY <2>1, ReadShift DEF OnceInv, OpenRequest, Waits
  <2>3. \A i \in 1..Len(stdin') : ~IsReply(i, r.id)'
    BY <1>1 DEF OnceInv, OpenRequest
  <2>4. QED
    BY <2>2, <2>3 DEF OnceInv, OpenRequest
<1>5. QED
  BY <1>2, <1>3, <1>4 DEF OnceInv

LEMMA OnceLoop ==
    ASSUME TypeInv, PendingInv, OnceInv, LoopSteps
    PROVE  OnceInv'
<1> USE DEF TypeInv
<1>1. CASE ReadResponse
  <2>1. PICK f \in Frames : Read(f) /\ f.kind = "response" /\ Deliver(f)
    BY <1>1 DEF ReadResponse
  <2>2. \A c \in Callers : answer'[c] = answer[c] \/ (IsReply(1, call[c]) /\ pc[c] \in InCall)
    BY <2>1, ReadShift DEF Deliver, Awaited, PendingInv, PendingMatch, IsReply, TypeOK
  <2>3. QED
    BY <1>1, <2>1, <2>2, OnceRead DEF ReadResponse, hostSide
<1>2. CASE ReadRequest \/ ReadData \/ ReadBroken
  BY <1>2, OnceRead DEF ReadRequest, ReadData, ReadBroken, client, hostSide
<1>3. CASE ReadEOF \/ RouteFrame \/ Await \/ AwaitWakes \/ GraceExpires
  <2>1. UNCHANGED <<idSeq, pc, call, answer, gaveUp, asked, stdin>>
    BY <1>3 DEF ReadEOF, RouteFrame, Await, AwaitWakes, GraceExpires, client, hostSide
  <2>2. QED
    BY <2>1 DEF OnceInv, OneReply, NewCall, OpenRequest, Waits, IsReply
<1>4. QED
  BY <1>1, <1>2, <1>3 DEF LoopSteps

(* A frame that answers no request, or a response to one that is then no longer open. *)
LEMMA OnceWrite ==
    ASSUME TypeInv, RequestMatch, OnceInv, NEW f, Write(f), UNCHANGED client, asked' \subseteq asked,
           f.kind = "response" => \E r \in asked : f.id = r.id /\ asked' = asked \ {r}
    PROVE  OnceInv'
<1> USE DEF TypeInv, IsReply
<1>1. \A i \in 1..Len(stdin') : \/ stdin'[i] = f /\ i = Len(stdin) + 1
                                \/ i \in 1..Len(stdin) /\ stdin'[i] = stdin[i]
  BY WriteShape
<1>2. UNCHANGED <<idSeq, pc, call, answer, gaveUp>>
  BY DEF client
<1>3. \A r \in asked : r.id \in 1..idSeq
  BY DEF RequestMatch, Mine, TypeOK, Ids
<1>4. OneReply'
  <2>1. CASE f.kind = "response"
    <3>1. f.id \in 1..idSeq /\ \A i \in 1..Len(stdin) : ~IsReply(i, f.id)
      BY <1>3, <2>1 DEF OnceInv, OpenRequest
    <3>2. QED
      BY <1>1, <1>2, <3>1 DEF OnceInv, OneReply
  <2>2. CASE f.kind # "response"
    BY <1>1, <1>2, <2>2 DEF OnceInv, OneReply
  <2>3. QED
    BY <2>1, <2>2
<1>5. \A c \in Callers : pc[c] = "sending" => NewCall(c)'
  BY <1>1, <1>2 DEF OnceInv, NewCall
<1>6. \A r \in asked' : OpenRequest(r)'
  BY <1>1, <1>2 DEF OnceInv, OpenRequest, Waits
<1>7. QED
  BY <1>2, <1>4, <1>5, <1>6 DEF OnceInv

LEMMA HostWrites ==
    ASSUME HostSends \/ HostAsks \/ HostBreaks
    PROVE  \E f : Write(f) /\ f.kind # "response"
<1>1. CASE HostSends
  <2>1. PICK ch \in hostOpen : Write(Data(ch))
    BY <1>1 DEF HostSends
  <2>2. Data(ch).kind = "data"
    BY DEF Data
  <2>3. QED
    BY <2>1, <2>2
<1>2. CASE HostAsks
  <2>1. PICK m \in {"ping", "shutdown"} : Write(Request(m))
    BY <1>2 DEF HostAsks
  <2>2. Request(m).kind = "request"
    BY DEF Request
  <2>3. QED
    BY <2>1, <2>2
<1>3. CASE HostBreaks
  <2>1. Write(Broken) /\ Broken.kind = "broken"
    BY <1>3 DEF HostBreaks, Broken
  <2>2. QED
    BY <2>1
<1>4. QED
  BY <1>1, <1>2, <1>3

LEMMA OtherWrites ==
    ASSUME HostRefuses \/ HostSends \/ HostAsks \/ HostBreaks
    PROVE  \E f : Write(f) /\ (f.kind = "data" => f.chan \in hostOpen)
<1>1. CASE HostRefuses
  <2>1. PICK r \in asked : Write(Response(r.id, Refused))
    BY <1>1 DEF HostRefuses
  <2>2. Response(r.id, Refused).kind # "data"
    BY DEF Response
  <2>3. QED
    BY <2>1, <2>2
<1>2. CASE HostSends
  <2>1. PICK ch \in hostOpen : Write(Data(ch))
    BY <1>2 DEF HostSends
  <2>2. Data(ch).chan = ch
    BY DEF Data
  <2>3. QED
    BY <2>1, <2>2
<1>3. CASE HostAsks
  <2>1. PICK m \in {"ping", "shutdown"} : Write(Request(m))
    BY <1>3 DEF HostAsks
  <2>2. Request(m).kind # "data"
    BY DEF Request
  <2>3. QED
    BY <2>1, <2>2
<1>4. CASE HostBreaks
  <2>1. Write(Broken) /\ Broken.kind # "data"
    BY <1>4 DEF HostBreaks, Broken
  <2>2. QED
    BY <2>1
<1>5. QED
  BY <1>1, <1>2, <1>3, <1>4

LEMMA OnceHost ==
    ASSUME TypeInv, RequestMatch, OnceInv, HostSteps
    PROVE  OnceInv'
<1>1. CASE HostOpens
  <2>1. PICK r \in asked : Write(Response(r.id, Len(owner) + 1)) /\ asked' = asked \ {r}
    BY <1>1 DEF HostOpens
  <2>2. QED
    BY <1>1, <2>1, OnceWrite DEF HostOpens, Response
<1>2. CASE HostRefuses
  <2>1. PICK r \in asked : Write(Response(r.id, Refused)) /\ asked' = asked \ {r}
    BY <1>2 DEF HostRefuses
  <2>2. QED
    BY <1>2, <2>1, OnceWrite DEF HostRefuses, Response
<1>3. CASE HostSends \/ HostAsks \/ HostBreaks
  <2>1. PICK f : Write(f) /\ f.kind # "response"
    BY <1>3, HostWrites
  <2>2. UNCHANGED asked /\ UNCHANGED client
    BY <1>3 DEF HostSends, HostAsks, HostBreaks, hostSide
  <2>3. QED
    BY <2>1, <2>2, OnceWrite
<1>4. CASE HostCloses \/ HostGoes
  <2>1. UNCHANGED <<idSeq, pc, call, answer, gaveUp, asked, stdin>>
    BY <1>4 DEF HostCloses, HostGoes, client
  <2>2. QED
    BY <2>1 DEF OnceInv, OneReply, NewCall, OpenRequest, Waits, IsReply
<1>5. QED
  BY <1>1, <1>2, <1>3, <1>4 DEF HostSteps

LEMMA OnceStep == TypeInv /\ PendingInv /\ RequestMatch /\ OnceInv /\ [Next]_vars => OnceInv'
<1> SUFFICES ASSUME TypeInv, PendingInv, RequestMatch, OnceInv, [Next]_vars PROVE OnceInv'
  OBVIOUS
<1>1. CASE UNCHANGED vars
  <2>1. UNCHANGED <<idSeq, pc, call, answer, gaveUp, asked, stdin>>
    BY <1>1 DEF vars, client, hostSide
  <2>2. QED
    BY <2>1 DEF OnceInv, OneReply, NewCall, OpenRequest, Waits, IsReply
<1>2. QED
  BY <1>1, OnceCallers, OnceLoop, OnceHost DEF Next

-----------------------------------------------------------------------------
(* The way of a channel's id from the host to the Registry: ahead of the       *)
(* channel's own frames on stdin, then with its caller, who is waiting for it. *)

KnownInv ==
    /\ hostOpen \subseteq 1..Len(owner)
    /\ \A i \in 1..Len(stdin) : stdin[i].kind = "data" => stdin[i].chan \in 1..Len(owner)
    /\ frame \in 0..Len(owner)
    /\ loop = "decode" => frame = 0
    /\ loop \in {"lookup", "await"} => frame # 0
    /\ seen <= gen
    /\ loop = "await" /\ gen = seen => frame \notin registered

Ahead(i, ch) ==
    /\ stdin[i] = Response(owner[ch].id, ch)
    /\ \A j \in 1..Len(stdin) : stdin[j].kind = "data" /\ stdin[j].chan = ch => i < j

Coming(ch) ==
    /\ frame # ch
    /\ Waits(owner[ch].id, owner[ch].by)
    /\ \E i \in 1..Len(stdin) : Ahead(i, ch)

Safe(ch) == owner[ch].id \in gaveUp \/ ch \in registered \/ Arriving(ch) \/ Coming(ch)

WayInv == \A ch \in 1..Len(owner) : Safe(ch)

LEMMA InitWay == Init => KnownInv /\ WayInv /\ KilledOnlyAfterTimeout
<1> SUFFICES ASSUME Init PROVE KnownInv /\ WayInv /\ KilledOnlyAfterTimeout
  OBVIOUS
<1>1. Len(owner) = 0 /\ Len(stdin) = 0
  BY DEF Init
<1>2. QED
  BY <1>1 DEF Init, KnownInv, WayInv, KilledOnlyAfterTimeout

(* What the read loop does with the frame it takes. *)
Taken(f) ==
    \/ frame' = frame /\ loop' \in {"decode"} \cup Exited
    \/ f.kind = "data" /\ frame' = f.chan /\ loop' = "lookup"

LEMMA OtherReads ==
    ASSUME ReadRequest \/ ReadData \/ ReadBroken
    PROVE  \E f : Read(f) /\ f.kind # "response" /\ Taken(f)
<1>1. CASE ReadRequest
  <2>1. PICK f \in Frames : Read(f) /\ f.kind = "request" /\ loop' = AfterDispatch(f.method)
    BY <1>1 DEF ReadRequest
  <2>2. Taken(f)
    BY <1>1, <2>1 DEF AfterDispatch, Exited, ReadRequest, Taken
  <2>3. QED
    BY <2>1, <2>2
<1>2. CASE ReadData
  <2>1. PICK f \in Frames : Read(f) /\ f.kind = "data" /\ loop' = "lookup" /\ frame' = f.chan
    BY <1>2 DEF ReadData
  <2>2. Taken(f)
    BY <2>1 DEF Taken
  <2>3. QED
    BY <2>1, <2>2
<1>3. CASE ReadBroken
  <2>1. Read(Broken) /\ Broken.kind # "response" /\ Taken(Broken)
    BY <1>3 DEF ReadBroken, Exited, Taken, Broken
  <2>2. QED
    BY <2>1
<1>4. QED
  BY <1>1, <1>2, <1>3

LEMMA LoopReads ==
    ASSUME ReadResponse \/ ReadRequest \/ ReadData \/ ReadBroken
    PROVE  \E f : Read(f) /\ Taken(f)
<1>1. CASE ReadResponse
  <2>1. PICK f \in Frames : Read(f)
    BY <1>1 DEF ReadResponse
  <2>2. Taken(f)
    BY <1>1, <2>1 DEF ReadResponse, reader, Read, Taken
  <2>3. QED
    BY <2>1, <2>2
<1>2. QED
  BY <1>1, OtherReads

LEMMA KnownStep ==
    ASSUME TypeInv, KnownInv, Next
    PROVE  KnownInv'
<1> USE DEF TypeInv
<1>1. Len(owner) \in Nat /\ gen \in Nat /\ seen \in Nat
  BY DEF TypeOK
<1>2. ASSUME UNCHANGED <<hostOpen, owner, stdin, frame, loop, seen, gen, registered>>
      PROVE  KnownInv'
  BY <1>2 DEF KnownInv
<1>3. ASSUME NEW c \in Callers, Register(c)
      PROVE  KnownInv'
  BY <1>1, <1>3 DEF Register, reader, hostSide, KnownInv
<1>4. ASSUME NEW c \in Callers, CallSteps(c) \/ CallStart(c) \/ CloseLocally(c) \/ NotifyClose(c)
      PROVE  KnownInv'
  BY <1>2, <1>4 DEF CallSteps, CallStart, CallSend, CallSendFails, CallAnswered, CallTimesOut, CallReturns,
                    CloseLocally, NotifyClose, registry, reader, hostSide
<1>5. CASE ReadResponse \/ ReadRequest \/ ReadData \/ ReadBroken
  <2>1. PICK f : Read(f) /\ Taken(f)
    BY <1>5, LoopReads
  <2>2. UNCHANGED <<hostOpen, owner, seen, gen, registered>>
    BY <1>5 DEF ReadResponse, ReadRequest, ReadData, ReadBroken, registry, reader, hostSide
  <2>3. \A i \in 1..Len(stdin') : stdin'[i].kind = "data" => stdin'[i].chan \in 1..Len(owner)
    BY <2>1, ReadShift DEF KnownInv
  <2>4. frame' \in 0..Len(owner) /\ (loop' = "decode" => frame' = 0) /\ (loop' = "lookup" => frame' # 0)
    BY <1>1, <2>1, ReadShift DEF KnownInv, Read, Exited, Taken
  <2>5. loop' # "await"
    BY <2>1 DEF Exited, Taken
  <2>6. QED
    BY <2>2, <2>3, <2>4, <2>5 DEF KnownInv
<1>6. CASE ReadEOF \/ RouteFrame \/ Await \/ AwaitWakes \/ GraceExpires
  <2>1. UNCHANGED <<hostOpen, owner, gen, registered>>
    BY <1>6 DEF ReadEOF, RouteFrame, Await, AwaitWakes, GraceExpires, registry, hostSide
  <2>2. \A i \in 1..Len(stdin') : stdin'[i].kind = "data" => stdin'[i].chan \in 1..Len(owner)
    BY <1>6 DEF ReadEOF, RouteFrame, Await, AwaitWakes, GraceExpires, KnownInv
  <2>3. /\ frame' \in 0..Len(owner) /\ (loop' = "decode" => frame' = 0)
        /\ (loop' \in {"lookup", "await"} => frame' # 0)
    BY <1>1, <1>6 DEF ReadEOF, RouteFrame, Await, AwaitWakes, GraceExpires, Exited, KnownInv
  <2>4. seen' <= gen /\ (loop' = "await" /\ gen = seen' => frame' \notin registered)
    BY <1>1, <1>6 DEF ReadEOF, RouteFrame, Await, AwaitWakes, GraceExpires, Exited, KnownInv
  <2>5. QED
    BY <2>1, <2>2, <2>3, <2>4 DEF KnownInv
<1>7. CASE HostOpens
  <2>1. PICK r \in asked : /\ Write(Response(r.id, Len(owner) + 1)) /\ owner' = Append(owner, r)
                           /\ hostOpen' = hostOpen \cup {Len(owner) + 1}
                           /\ UNCHANGED <<frame, loop, seen, gen, registered>>
    BY <1>7 DEF HostOpens, registry, reader
  <2>2. Len(owner') = Len(owner) + 1
    BY <2>1, OwnerKept
  <2>3. \A i \in 1..Len(stdin') : stdin'[i].kind = "data" => i \in 1..Len(stdin) /\ stdin'[i] = stdin[i]
    BY <2>1, WriteShape DEF Response
  <2>4. \A k : k \in 1..Len(owner) => k \in 1..Len(owner')
    BY <1>1, <2>2
  <2>5. Len(owner) + 1 \in 1..Len(owner') /\ frame' \in 0..Len(owner')
    BY <1>1, <2>1, <2>2 DEF KnownInv
  <2>6. hostOpen' \subseteq 1..Len(owner')
    BY <2>1, <2>4, <2>5 DEF KnownInv
  <2>7. \A i \in 1..Len(stdin') : stdin'[i].kind = "data" => stdin'[i].chan \in 1..Len(owner')
    BY <2>3, <2>4 DEF KnownInv
  <2>8. QED
    BY <2>1, <2>5, <2>6, <2>7 DEF KnownInv
<1>8. CASE HostRefuses \/ HostSends \/ HostAsks \/ HostBreaks
  <2>1. UNCHANGED <<hostOpen, owner, frame, loop, seen, gen, registered>>
    BY <1>8 DEF HostRefuses, HostSends, HostAsks, HostBreaks, registry, reader, hostSide
  <2>2. PICK f : Write(f) /\ (f.kind = "data" => f.chan \in hostOpen)
    BY <1>8, OtherWrites
  <2>3. \A i \in 1..Len(stdin') : stdin'[i] = f \/ (i \in 1..Len(stdin) /\ stdin'[i] = stdin[i])
    BY <2>2, WriteShape
  <2>4. QED
    BY <2>1, <2>2, <2>3 DEF KnownInv
<1>9. CASE HostCloses \/ HostGoes
  <2>1. hostOpen' \subseteq hostOpen /\ UNCHANGED <<owner, stdin, frame, loop, seen, gen, registered>>
    BY <1>9 DEF HostCloses, HostGoes, registry, reader
  <2>2. QED
    BY <2>1 DEF KnownInv
<1>10. QED
  BY <1>3, <1>4, <1>5, <1>6, <1>7, <1>8, <1>9 DEF Next, OpenSteps, LoopSteps, HostSteps

(* A goroutine's step: whoever holds an id passes it on, registers it or gives up. *)
LEMMA WayCallers ==
    ASSUME TypeInv, AnswerMatch, WayInv, NEW c \in Callers, CallSteps(c) \/ OpenSteps(c)
    PROVE  WayInv'
<1> USE DEF TypeInv
<1>1. UNCHANGED <<owner, stdin, frame>> /\ gaveUp \subseteq gaveUp' /\ registered \subseteq registered'
  BY DEF CallSteps, OpenSteps, CallStart, CallSend, CallSendFails, CallAnswered, CallTimesOut, CallReturns,
         Register, CloseLocally, NotifyClose, hostSide, reader, registry
<1>2. \A d \in Callers \ {c} : pc'[d] = pc[d] /\ call'[d] = call[d] /\ answer'[d] = answer[d] /\ chan'[d] = chan[d]
  BY DEF CallSteps, OpenSteps, CallStart, CallSend, CallSendFails, CallAnswered, CallTimesOut, CallReturns,
         Register, CloseLocally, NotifyClose, Step, TypeOK
<1>3. ASSUME NEW ch \in 1..Len(owner), pc[c] = "waiting", answer[c] = ch
      PROVE  Safe(ch)'
  <2>1. ch \in Chans /\ ch # Unanswered
    <3>1. Len(owner) \in Nat /\ answer[c] \in Chans \cup {Refused, Unanswered}
      BY DEF TypeOK
    <3>2. ch # Refused /\ ch # Unanswered
      BY <3>1 DEF Refused, Unanswered
    <3>3. QED
      BY <1>3, <3>1, <3>2
  <2>2. CASE CallAnswered(c)
    <3>1. pc'[c] = "returning" /\ chan'[c] = ch
      BY <1>3, <2>2 DEF CallAnswered, Step, TypeOK
    <3>2. QED
      BY <3>1 DEF Safe, Arriving
  <2>3. CASE CallTimesOut(c)
    <3>1. owner[ch] = [id |-> call[c], by |-> c]
      BY <1>3, <2>1 DEF AnswerMatch, Given
    <3>2. owner'[ch].id = call[c] /\ call[c] \in gaveUp'
      BY <1>1, <2>3, <3>1 DEF CallTimesOut
    <3>3. QED
      BY <3>2 DEF Safe
  <2>4. QED
    BY <1>3, <2>2, <2>3 DEF CallSteps, OpenSteps, CallStart, CallSend, CallSendFails, CallReturns,
                            Register, CloseLocally, NotifyClose, Step
<1>4. ASSUME NEW ch \in 1..Len(owner), pc[c] \in {"returning", "register"}, chan[c] = ch
      PROVE  Safe(ch)'
  <2>1. ch # Refused
    BY DEF Refused
  <2>2. CASE CallReturns(c)
    BY <1>4, <2>1, <2>2 DEF CallReturns, AfterCall, Step, Safe, Arriving, TypeOK
  <2>3. CASE Register(c)
    BY <1>4, <2>3 DEF Register, Safe
  <2>4. QED
    BY <1>4, <2>2, <2>3 DEF CallSteps, OpenSteps, CallStart, CallSend, CallSendFails, CallAnswered,
                            CallTimesOut, CloseLocally, NotifyClose, Step
<1>5. ASSUME NEW ch \in 1..Len(owner), Coming(ch), owner[ch].by = c
      PROVE  Safe(ch)'
  <2>1. pc[c] = "waiting" /\ call[c] = owner[ch].id /\ answer[c] = Unanswered
    BY <1>5 DEF Coming, Waits
  <2>2. CallTimesOut(c)
    BY <2>1 DEF CallSteps, OpenSteps, CallStart, CallSend, CallSendFails, CallAnswered, CallReturns,
                Register, CloseLocally, NotifyClose, Step
  <2>3. QED
    BY <1>1, <2>1, <2>2 DEF CallTimesOut, Safe
<1>6. ASSUME NEW ch \in 1..Len(owner), Coming(ch), owner[ch].by # c
      PROVE  Safe(ch)'
  <2>1. owner[ch].by \in Callers
    BY OwnerType
  <2>2. Waits(owner[ch].id, owner[ch].by)'
    BY <1>1, <1>2, <1>6, <2>1 DEF Coming, Waits
  <2>3. QED
    BY <1>1, <1>6, <2>2 DEF Coming, Ahead, Safe
<1>7. ASSUME NEW ch \in 1..Len(owner), Arriving(ch)
      PROVE  Safe(ch)'
  <2>1. PICK d \in Callers : \/ pc[d] = "waiting" /\ answer[d] = ch
                             \/ pc[d] \in {"returning", "register"} /\ chan[d] = ch
    BY <1>7 DEF Arriving
  <2>2. CASE d = c
    BY <1>3, <1>4, <2>1, <2>2
  <2>3. CASE d # c
    BY <1>2, <2>1, <2>3 DEF Safe, Arriving
  <2>4. QED
    BY <2>2, <2>3
<1>8. QED
  BY <1>1, <1>5, <1>6, <1>7 DEF WayInv, Safe

(* A frame taken from the front: the responses behind it move up, with their channels' frames. *)
LEMMA AheadShift ==
    ASSUME TypeOK, NEW f, Read(f), UNCHANGED owner, NEW ch \in 1..Len(owner), NEW i \in 1..Len(stdin),
           Ahead(i, ch), i # 1
    PROVE  i - 1 \in 1..Len(stdin') /\ Ahead(i - 1, ch)'
<1>1. Len(stdin) \in Nat /\ Len(stdin') = Len(stdin) - 1
  BY ReadShift DEF TypeOK
<1>2. i - 1 \in 1..Len(stdin') /\ stdin'[i - 1] = stdin[i]
  BY <1>1, ReadShift
<1>3. ASSUME NEW j \in 1..Len(stdin'), stdin'[j].kind = "data", stdin'[j].chan = ch
      PROVE  i - 1 < j
  <2>1. j + 1 \in 1..Len(stdin) /\ stdin'[j] = stdin[j + 1]
    BY ReadShift
  <2>2. i < j + 1
    BY <1>3, <2>1 DEF Ahead
  <2>3. QED
    BY <2>2, <1>1
<1>4. QED
  BY <1>2, <1>3 DEF Ahead

LEMMA WayLoop ==
    ASSUME TypeInv, PendingInv, ResponseMatch, KnownInv, OnceInv, WayInv, LoopSteps
    PROVE  WayInv'
<1> USE DEF TypeInv
<1>1. UNCHANGED <<owner, gaveUp, registered, pc, call, chan>>
  BY DEF LoopSteps, ReadResponse, ReadRequest, ReadData, ReadBroken, ReadEOF, RouteFrame, Await, AwaitWakes,
         GraceExpires, client, registry, hostSide
<1>2. CASE ReadEOF \/ RouteFrame \/ Await \/ AwaitWakes \/ GraceExpires
  <2>1. UNCHANGED <<answer, stdin>> /\ (frame' = frame \/ frame' = 0)
    BY <1>2 DEF ReadEOF, RouteFrame, Await, AwaitWakes, GraceExpires, client
  <2>2. QED
    BY <1>1, <2>1 DEF WayInv, Safe, Arriving, Coming, Waits, Ahead
<1>3. CASE ReadRequest \/ ReadData \/ ReadBroken
  <2>1. PICK f : Read(f) /\ f.kind # "response" /\ Taken(f)
    BY <1>3, OtherReads
  <2>2. UNCHANGED answer
    BY <1>3 DEF ReadRequest, ReadData, ReadBroken, client
  <2>3. ASSUME NEW ch \in 1..Len(owner), Coming(ch)
        PROVE  Coming(ch)'
    <3>1. PICK i \in 1..Len(stdin) : Ahead(i, ch)
      BY <2>3 DEF Coming
    <3>2. i # 1
      BY <2>1, <3>1, ReadShift DEF Ahead, Response
    <3>3. i - 1 \in 1..Len(stdin') /\ Ahead(i - 1, ch)'
      BY <1>1, <2>1, <3>1, <3>2, AheadShift
    <3>4. frame' # ch
      BY <2>1, <2>3, <3>1, ReadShift DEF Taken, Coming, Ahead
    <3>5. QED
      BY <1>1, <2>2, <2>3, <3>3, <3>4 DEF Coming, Waits
  <2>4. QED
    BY <1>1, <2>2, <2>3 DEF WayInv, Safe, Arriving
<1>4. CASE ReadResponse
  <2>1. PICK f \in Frames : Read(f) /\ f.kind = "response" /\ Deliver(f)
    BY <1>4 DEF ReadResponse
  <2>2. frame' = frame
    BY <1>4 DEF ReadResponse, reader
  <2>3. \A c \in Callers : answer[c] # Unanswered => answer'[c] = answer[c]
    BY <2>1 DEF Deliver, Awaited, TypeOK
  <2>4. ASSUME NEW ch \in 1..Len(owner), Coming(ch)
        PROVE  Safe(ch)'
    <3> DEFINE c == owner[ch].by
    <3>1. c \in Callers /\ pc[c] = "waiting" /\ call[c] = owner[ch].id /\ answer[c] = Unanswered /\ frame # ch
      BY <2>4, OwnerType DEF Coming, Waits
    <3>2. PICK i \in 1..Len(stdin) : Ahead(i, ch)
      BY <2>4 DEF Coming
    <3>3. CASE i = 1
      <4>1. f.id = call[c] /\ f.chan = ch
        BY <2>1, <3>1, <3>2, <3>3, ReadShift DEF Ahead, Response
      <4>2. call[c] \in DOMAIN pending /\ pending[call[c]] = c
        BY <3>1 DEF PendingInv, PendingMatch, InCall
      <4>3. answer' = [answer EXCEPT ![c] = ch]
        BY <2>1, <3>1, <4>1, <4>2 DEF Deliver, Awaited
      <4>4. answer'[c] = ch
        BY <3>1, <4>3 DEF TypeOK
      <4>5. QED
        BY <1>1, <3>1, <4>4 DEF Safe, Arriving
    <3>4. CASE i # 1
      <4>1. i - 1 \in 1..Len(stdin') /\ Ahead(i - 1, ch)'
        BY <1>1, <2>1, <3>2, <3>4, AheadShift
      <4>2. f = stdin[1] /\ 1 \in 1..Len(stdin)
        BY <2>1, ReadShift
      <4>3. stdin[i].kind = "response" /\ stdin[i].id = call[c]
        BY <3>1, <3>2 DEF Ahead, Response
      <4>4. f.id # call[c]
        BY <2>1, <3>4, <4>2, <4>3 DEF OnceInv, OneReply
      <4>5. answer'[c] = answer[c]
        BY <2>1, <3>1, <4>4 DEF Deliver, Awaited, PendingInv, PendingMatch, TypeOK
      <4>6. QED
        BY <1>1, <2>2, <3>1, <4>1, <4>5 DEF Safe, Coming, Waits
    <3>5. QED
      BY <3>3, <3>4
  <2>5. ASSUME NEW ch \in 1..Len(owner), Arriving(ch)
        PROVE  Arriving(ch)'
    <3>1. ch # Unanswered
      BY DEF Unanswered, TypeOK
    <3>2. QED
      BY <1>1, <2>3, <2>5, <3>1 DEF Arriving
  <2>6. QED
    BY <1>1, <2>4, <2>5 DEF WayInv, Safe
<1>5. QED
  BY <1>2, <1>3, <1>4 DEF LoopSteps

(* A frame added at the end: nothing overtakes, and data of a channel follows its response. *)
LEMMA AheadKept ==
    ASSUME TypeOK, NEW f, Write(f), NEW ch \in 1..Len(owner), owner'[ch] = owner[ch],
           NEW i \in 1..Len(stdin), Ahead(i, ch)
    PROVE  i \in 1..Len(stdin') /\ Ahead(i, ch)'
<1>1. Len(stdin) \in Nat /\ Len(stdin') = Len(stdin) + 1
  BY WriteShape
<1>2. i \in 1..Len(stdin') /\ stdin'[i] = stdin[i]
  BY <1>1, WriteShape
<1>3. ASSUME NEW j \in 1..Len(stdin'), stdin'[j].kind = "data", stdin'[j].chan = ch
      PROVE  i < j
  <2>1. CASE j \in 1..Len(stdin)
    BY <1>3, <2>1, WriteShape DEF Ahead
  <2>2. CASE j \notin 1..Len(stdin)
    BY <1>1, <2>2
  <2>3. QED
    BY <2>1, <2>2
<1>4. QED
  BY <1>2, <1>3 DEF Ahead

LEMMA WayKept ==
    ASSUME TypeInv, WayInv, NEW f, Write(f), UNCHANGED <<client, registered, frame>>,
           \A k \in 1..Len(owner) : owner'[k] = owner[k]
    PROVE  \A ch \in 1..Len(owner) : Safe(ch)'
<1> SUFFICES ASSUME NEW ch \in 1..Len(owner) PROVE Safe(ch)'
  OBVIOUS
<1>1. UNCHANGED <<pc, call, answer, chan, gaveUp>>
  BY DEF client
<1>2. CASE Coming(ch)
  <2>1. PICK i \in 1..Len(stdin) : Ahead(i, ch)
    BY <1>2 DEF Coming
  <2>2. i \in 1..Len(stdin') /\ Ahead(i, ch)'
    BY <2>1, AheadKept DEF TypeInv
  <2>3. QED
    BY <1>1, <1>2, <2>2 DEF Coming, Waits, Safe
<1>3. CASE ~Coming(ch)
  BY <1>1, <1>3 DEF WayInv, Safe, Arriving
<1>4. QED
  BY <1>2, <1>3

LEMMA WayHost ==
    ASSUME TypeInv, KnownInv, OnceInv, WayInv, HostSteps
    PROVE  WayInv'
<1> USE DEF TypeInv
<1>1. UNCHANGED <<client, registered, frame>>
  BY DEF HostSteps, HostOpens, HostRefuses, HostSends, HostAsks, HostBreaks, HostCloses, HostGoes, registry, reader
<1>2. CASE HostOpens
  <2>1. PICK r \in asked : Write(Response(r.id, Len(owner) + 1)) /\ owner' = Append(owner, r)
    BY <1>2 DEF HostOpens
  <2>2. PICK new, m : new = Len(owner) + 1 /\ m = Len(stdin) + 1
    OBVIOUS
  <2>3. /\ Len(owner) \in Nat /\ Len(owner') = new /\ owner'[new] = r
        /\ \A k \in 1..Len(owner) : owner'[k] = owner[k]
    BY <2>2, <2>1, OwnerKept DEF TypeOK
  <2>4. \A ch \in 1..Len(owner) : Safe(ch)'
    BY <1>1, <2>1, <2>3, WayKept
  <2>5. m \in 1..Len(stdin') /\ stdin'[m] = Response(r.id, new) /\ Len(stdin') = m
    BY <2>2, <2>1, WriteShape
  <2>6. ASSUME NEW j \in 1..Len(stdin'), stdin'[j].kind = "data"
        PROVE  stdin'[j].chan # new
    <3>1. j \in 1..Len(stdin) /\ stdin'[j] = stdin[j]
      BY <2>1, <2>6, WriteShape DEF Response
    <3>2. stdin[j].chan \in 1..Len(owner)
      BY <2>6, <3>1 DEF KnownInv
    <3>3. QED
      BY <2>2, <2>3, <3>1, <3>2
  <2>7. \A j \in 1..Len(stdin') : stdin'[j].kind = "data" => stdin'[j].chan # new
    BY <2>6
  <2>8. Ahead(m, new)'
    BY <2>3, <2>5, <2>7 DEF Ahead
  <2>9. r.id \in gaveUp \/ Waits(r.id, r.by)
    BY DEF OnceInv, OpenRequest
  <2>10. frame' # new
    BY <1>1, <2>2, <2>3 DEF KnownInv
  <2>11. Safe(new)'
    BY <1>1, <2>3, <2>5, <2>8, <2>9, <2>10 DEF Safe, Coming, Waits, client
  <2>12. \A ch \in 1..Len(owner') : ch \in 1..Len(owner) \/ ch = new
    BY <2>2, <2>3
  <2>13. QED
    BY <2>4, <2>11, <2>12 DEF WayInv
<1>3. CASE HostRefuses \/ HostSends \/ HostAsks \/ HostBreaks
  <2>1. PICK f : Write(f)
    BY <1>3, OtherWrites
  <2>2. UNCHANGED owner
    BY <1>3 DEF HostRefuses, HostSends, HostAsks, HostBreaks, hostSide
  <2>3. QED
    BY <1>1, <2>1, <2>2, WayKept DEF WayInv
<1>4. CASE HostCloses \/ HostGoes
  <2>1. UNCHANGED <<owner, stdin>>
    BY <1>4 DEF HostCloses, HostGoes
  <2>2. QED
    BY <1>1, <2>1 DEF client, WayInv, Safe, Arriving, Coming, Waits, Ahead
<1>5. QED
  BY <1>2, <1>3, <1>4 DEF HostSteps

LEMMA WayStep ==
    ASSUME TypeInv, PendingInv, AnswerInv, OnceInv, KnownInv, WayInv, [Next]_vars
    PROVE  KnownInv' /\ WayInv'
<1>1. CASE Next
  BY <1>1, KnownStep, WayCallers, WayLoop, WayHost DEF Next, AnswerInv
<1>2. CASE UNCHANGED vars
  <2>1. UNCHANGED <<pc, call, answer, chan, gaveUp, registered, gen, loop, frame, seen, stdin, owner, hostOpen>>
    BY <1>2 DEF vars, client, registry, reader, hostSide
  <2>2. QED
    BY <2>1 DEF KnownInv, WayInv, Safe, Arriving, Coming, Waits, Ahead
<1>3. QED
  BY <1>1, <1>2

LEMMA GaveUpGrows ==
    ASSUME TypeOK, [Next]_vars
    PROVE  gaveUp \subseteq gaveUp' /\ \A k \in 1..Len(owner) : owner'[k] = owner[k]
<1>1. CASE HostOpens
  <2>1. PICK r \in asked : owner' = Append(owner, r)
    BY <1>1 DEF HostOpens
  <2>2. QED
    BY <1>1, <2>1, OwnerKept DEF HostOpens, client
<1>2. CASE LoopSteps
  BY <1>2 DEF LoopSteps, ReadResponse, ReadRequest, ReadData, ReadBroken, ReadEOF, RouteFrame, Await, AwaitWakes,
              GraceExpires, client, hostSide
<1>3. ASSUME NEW c \in Callers, CallSteps(c) \/ OpenSteps(c)
      PROVE  gaveUp \subseteq gaveUp' /\ UNCHANGED owner
  BY <1>3 DEF CallSteps, OpenSteps, CallStart, CallSend, CallSendFails, CallAnswered, CallTimesOut, CallReturns,
              Register, CloseLocally, NotifyClose, hostSide
<1>4. CASE HostRefuses \/ HostSends \/ HostAsks \/ HostBreaks \/ HostCloses \/ HostGoes
  BY <1>4 DEF HostRefuses, HostSends, HostAsks, HostBreaks, HostCloses, HostGoes, client, hostSide
<1>5. CASE UNCHANGED vars
  BY <1>5 DEF vars, client, hostSide
<1>6. QED
  BY <1>1, <1>2, <1>3, <1>4, <1>5 DEF Next, HostSteps

(* A process that ends with a frame in hand ends in HandleChannelFrame. *)
LEMMA LoopDies ==
    ASSUME TypeInv, KnownInv, [Next]_vars, loop' = "exit1", frame' # 0
    PROVE  (loop = "exit1" /\ frame' = frame) \/ GraceExpires
<1>1. CASE LoopSteps
  BY <1>1 DEF LoopSteps, ReadResponse, ReadRequest, ReadData, ReadBroken, ReadEOF, RouteFrame, Await, AwaitWakes,
              Read, reader, KnownInv
<1>2. ASSUME NEW c \in Callers, CallSteps(c) \/ OpenSteps(c)
      PROVE  UNCHANGED reader
  BY <1>2 DEF CallSteps, OpenSteps, CallStart, CallSend, CallSendFails, CallAnswered, CallTimesOut, CallReturns,
              Register, CloseLocally, NotifyClose
<1>3. CASE HostSteps
  BY <1>3 DEF HostSteps, HostOpens, HostRefuses, HostSends, HostAsks, HostBreaks, HostCloses, HostGoes, reader
<1>4. CASE UNCHANGED vars
  BY <1>4 DEF vars, reader
<1>5. QED
  BY <1>1, <1>2, <1>3, <1>4 DEF Next, reader

(* The wait can only run out for a channel whose call gave up. *)
LEMMA KillStep ==
    ASSUME TypeInv, KnownInv, WayInv, KilledOnlyAfterTimeout, [Next]_vars
    PROVE  KilledOnlyAfterTimeout'
<1>1. SUFFICES ASSUME loop' = "exit1", frame' # 0
               PROVE  owner'[frame'].id \in gaveUp'
  BY DEF KilledOnlyAfterTimeout
<1>2. gaveUp \subseteq gaveUp' /\ \A k \in 1..Len(owner) : owner'[k] = owner[k]
  BY GaveUpGrows DEF TypeInv
<1>3. CASE loop = "exit1" /\ frame' = frame
  <2>1. frame \in 1..Len(owner)
    BY <1>1, <1>3 DEF KnownInv, TypeInv, TypeOK
  <2>2. QED
    BY <1>1, <1>2, <1>3, <2>1 DEF KilledOnlyAfterTimeout
<1>4. CASE GraceExpires
  <2>1. loop = "await" /\ gen = seen /\ ~Arriving(frame) /\ frame' = frame
    BY <1>4 DEF GraceExpires
  <2>2. frame \in 1..Len(owner)
    BY <1>1, <2>1 DEF KnownInv, TypeInv, TypeOK
  <2>3. owner[frame].id \in gaveUp
    BY <2>1, <2>2 DEF WayInv, Safe, Coming, KnownInv
  <2>4. QED
    BY <1>2, <2>1, <2>2, <2>3
<1>5. (loop = "exit1" /\ frame' = frame) \/ GraceExpires
  BY <1>1, LoopDies
<1>6. QED
  BY <1>3, <1>4, <1>5

(* Everything above, which holds together. *)
IInv == TypeInv /\ PendingInv /\ AnswerInv /\ OnceInv /\ KnownInv /\ WayInv /\ KilledOnlyAfterTimeout

LEMMA InvariantAlways == Spec => []IInv
<1>1. Init => IInv
  BY InitTypes, InitPending, InitAnswers, InitOnce, InitWay DEF IInv
<1>2. IInv /\ [Next]_vars => IInv'
  <2> SUFFICES ASSUME IInv, [Next]_vars PROVE IInv'
    OBVIOUS
  <2>1. TypeInv' /\ PendingInv'
    BY StepTypes, StepPending DEF IInv
  <2>2. AnswerInv'
    BY AnswerInvStep DEF IInv
  <2>3. OnceInv'
    BY OnceStep DEF IInv, AnswerInv
  <2>4. KnownInv' /\ WayInv' /\ KilledOnlyAfterTimeout'
    BY WayStep, KillStep DEF IInv
  <2>5. QED
    BY <2>1, <2>2, <2>3, <2>4 DEF IInv
<1>3. QED
  BY <1>1, <1>2, PTL DEF Spec

(* HandleChannelFrame ends the process for no channel that is merely slow to be registered. *)
THEOREM KillSafety == Spec => []KilledOnlyAfterTimeout
<1>1. IInv => KilledOnlyAfterTimeout
  BY DEF IInv
<1>2. QED
  BY <1>1, InvariantAlways, PTL
================================================================================
