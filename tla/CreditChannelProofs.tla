-------------------------- MODULE CreditChannelProofs --------------------------
(***************************************************************************)
(* What CreditChannel keeps for every set of senders, window, buffer and   *)
(* bound: its types, its credit, its wake-ups, what Recv returns before    *)
(* the end and in which order until Close, and FlowControl's contract.     *)
(***************************************************************************)
EXTENDS CreditChannel, FiniteSetTheorems, SequenceTheorems, TLAPS

USE CreditAssumption

-----------------------------------------------------------------------------
(* Types. *)

(* What the read loop takes from stdin is a data frame or a grant. *)
LEMMA HeadOfPipe ==
    ASSUME TypeOK, stdin # <<>>
    PROVE  /\ Head(stdin) \in Frames
           /\ Head(stdin).kind = "data" => Head(stdin).seq \in 1..MaxSent
           /\ Head(stdin).kind = "credit" => Head(stdin).n \in Nat
           /\ Tail(stdin) \in Seq(Frames)
<1>1. stdin \in Seq(Frames)
  BY DEF TypeOK
<1>2. Head(stdin) \in Frames /\ Tail(stdin) \in Seq(Frames)
  BY <1>1, HeadTailProperties
<1>3. QED
  BY <1>2 DEF Frames

(* Broadcast moves a goroutine from one place to another (credit.go:228). *)
LEMMA WakeAllType ==
    ASSUME TypeOK, WakeAll
    PROVE  sender' \in [Senders -> SenderPlaces]
BY DEF TypeOK, WakeAll, SenderPlaces

(* A sender's step leaves everything of the wrong type alone. *)
LEMMA SenderStepType ==
    ASSUME TypeOK, NEW s \in Senders, SendCall(s) \/ TrySend(s) \/ Sender(s)
    PROVE  TypeOK'
<1>1. CASE SendCall(s)
  BY <1>1 DEF TypeOK, SendCall, Goto, SenderPlaces, notTx, rxVars, hostVars, closeVars, pipeVars
<1>2. CASE TrySend(s)
  BY <1>2 DEF TypeOK, TrySend, Goto, SenderPlaces, notTx, rxVars, hostVars, closeVars, pipeVars
<1>3. CASE SendTake(s)
  BY <1>3 DEF TypeOK, SendTake, Goto, SenderPlaces, notTx, rxVars, hostVars, closeVars, pipeVars
<1>4. CASE SendWait(s)
  BY <1>4 DEF TypeOK, SendWait, Goto, SenderPlaces, notTx, rxVars, hostVars, closeVars, pipeVars
<1>5. CASE SendClosed(s)
  BY <1>5 DEF TypeOK, SendClosed, Goto, SenderPlaces, notTx, rxVars, hostVars, closeVars, pipeVars
<1>6. CASE EncodeOK(s)
  BY <1>6 DEF TypeOK, EncodeOK, Goto, SenderPlaces, notTx, rxVars, hostVars, closeVars, pipeVars
<1>7. CASE EncodeFails(s)
  BY <1>7 DEF TypeOK, EncodeFails, Goto, SenderPlaces, notTx, rxVars, hostVars, closeVars, pipeVars
<1>8. CASE Refund(s)
  <2>1. sender' \in [Senders -> SenderPlaces]
    BY <1>8 DEF TypeOK, Refund, Goto, At, SenderPlaces
  <2>2. sendCred' \in Nat
    BY <1>8 DEF TypeOK, Refund
  <2>3. QED
    BY <1>8, <2>1, <2>2 DEF TypeOK, Refund, notTx, rxVars, hostVars, closeVars, pipeVars
<1>9. QED
  BY <1>1, <1>2, <1>3, <1>4, <1>5, <1>6, <1>7, <1>8 DEF Sender

LEMMA ReadLoopType ==
    ASSUME TypeOK, ReadLoop
    PROVE  TypeOK'
<1>1. CASE ReceiveCreditGrant
  <2>1. stdin # <<>> /\ Head(stdin).kind = "credit"
    BY <1>1 DEF ReceiveCreditGrant
  <2>2. /\ stdin' = Tail(stdin) /\ sendCred' \in Nat /\ credReceived' \in Nat
        /\ sender' \in [Senders -> SenderPlaces]
    BY <1>1, <2>1, HeadOfPipe, WakeAllType DEF ReceiveCreditGrant, TypeOK
  <2>3. stdin' \in Seq(Frames)
    BY <2>1, <2>2, HeadOfPipe
  <2>4. QED
    BY <1>1, <2>2, <2>3 DEF ReceiveCreditGrant, TypeOK, rxVars, hostVars, closeVars
<1>2. CASE DeliverCall
  <2>1. stdin' \in Seq(Frames) /\ readLoop' \in 0..MaxSent
    BY <1>2, HeadOfPipe DEF DeliverCall
  <2>2. QED
    BY <1>2, <2>1 DEF DeliverCall, TypeOK, txVars, hostVars, closeVars
<1>3. CASE DeliverEnqueue
  <2>1. readLoop \in 1..MaxSent
    BY <1>3 DEF DeliverEnqueue, TypeOK
  <2>2. recvCh' \in Seq(1..MaxSent) /\ Len(recvCh') <= RecvCap
    BY <1>3, <2>1, AppendProperties, LenProperties DEF DeliverEnqueue, TypeOK
  <2>3. QED
    BY <1>3, <2>2 DEF DeliverEnqueue, TypeOK, txVars, hostVars, closeVars, pipeVars
<1>4. CASE DeliverDrop
  BY <1>4 DEF DeliverDrop, TypeOK, txVars, hostVars, closeVars, pipeVars
<1>5. QED
  BY <1>1, <1>2, <1>3, <1>4 DEF ReadLoop

LEMMA ReaderType ==
    ASSUME TypeOK, Reader
    PROVE  TypeOK'
<1>1. CASE RecvPayload
  <2>1. /\ recvCh' \in Seq(1..MaxSent) /\ Len(recvCh') <= RecvCap
        /\ Head(recvCh) \in 1..MaxSent
    BY <1>1, HeadTailProperties, LenProperties DEF RecvPayload, TypeOK
  <2>2. received' \in Seq(1..MaxSent)
    BY <1>1, <2>1, AppendProperties DEF RecvPayload, TypeOK
  <2>3. QED
    BY <1>1, <2>1, <2>2 DEF RecvPayload, TypeOK, txVars, hostVars, closeVars, pipeVars
<1>2. CASE RecvEOF
  BY <1>2 DEF RecvEOF, TypeOK, txVars, hostVars, closeVars, pipeVars
<1>3. QED
  BY <1>1, <1>2 DEF Reader

LEMMA CloseType ==
    ASSUME TypeOK, CloseMark \/ CloseRest
    PROVE  TypeOK'
<1>1. CASE CloseMark
  BY <1>1 DEF CloseMark, TypeOK, txVars, rxVars, hostVars, pipeVars
<1>2. CASE CloseDone
  <2>1. atClose' \in Seq(1..MaxSent)
    BY <1>2, ConcatProperties DEF CloseDone, TypeOK
  <2>2. QED
    BY <1>2, <2>1 DEF CloseDone, TypeOK, txVars, rxVars, hostVars, pipeVars
<1>3. CASE CloseBroadcast
  BY <1>3, WakeAllType DEF CloseBroadcast, TypeOK, rxVars, hostVars, pipeVars
<1>4. QED
  BY <1>1, <1>2, <1>3 DEF CloseRest

(* Credit on its way to the host, and what the host writes. *)
LEMMA HostType ==
    ASSUME TypeOK, GrantEncode \/ HostData \/ \E n \in GrantSizes : GrantCheck(n) \/ HostGrant(n)
    PROVE  TypeOK'
<1>1. CASE GrantEncode
  BY <1>1 DEF GrantEncode, TypeOK, txVars, rxVars, hostVars, closeVars
<1>2. CASE HostData
  <2>1. Data(hostSent + 1) \in Frames
    BY <1>2 DEF HostData, TypeOK, Data, Frames
  <2>2. stdin' \in Seq(Frames)
    BY <1>2, <2>1, AppendProperties DEF HostData, TypeOK
  <2>3. QED
    BY <1>2, <2>2 DEF HostData, TypeOK, txVars, rxVars, closeVars
<1>3. ASSUME NEW n \in GrantSizes, GrantCheck(n)
      PROVE  TypeOK'
  BY <1>3 DEF GrantCheck, TypeOK, txVars, rxVars, hostVars, closeVars
<1>4. ASSUME NEW n \in GrantSizes, HostGrant(n)
      PROVE  TypeOK'
  <2>1. Credit(n) \in Frames
    BY DEF Credit, Frames
  <2>2. stdin' \in Seq(Frames)
    BY <1>4, <2>1, AppendProperties DEF HostGrant, TypeOK
  <2>3. QED
    BY <1>4, <2>2 DEF HostGrant, TypeOK, txVars, rxVars, closeVars
<1>5. QED
  BY <1>1, <1>2, <1>3, <1>4

(* Only a sender, a grant and Close's broadcast touch the sending side. *)
LEMMA OthersLeaveTx ==
    ASSUME [Next]_vars
    PROVE  \/ \E s \in Senders : SendCall(s) \/ TrySend(s) \/ Sender(s)
           \/ ReceiveCreditGrant \/ CloseBroadcast
           \/ UNCHANGED <<sendCred, sender, txWire, credReceived>>
<1>1. CASE DeliverCall \/ DeliverEnqueue \/ DeliverDrop \/ Reader
  BY <1>1 DEF DeliverCall, DeliverEnqueue, DeliverDrop, Reader, RecvPayload, RecvEOF, txVars, pipeVars
<1>2. CASE GrantEncode \/ HostData \/ \E n \in GrantSizes : GrantCheck(n) \/ HostGrant(n)
  BY <1>2 DEF GrantEncode, HostData, GrantCheck, HostGrant, txVars
<1>3. CASE CloseMark \/ CloseDone
  BY <1>3 DEF CloseMark, CloseDone, txVars, pipeVars
<1>4. CASE UNCHANGED vars
  BY <1>4 DEF vars, txVars, pipeVars
<1>5. QED
  BY <1>1, <1>2, <1>3, <1>4 DEF Next, ReadLoop, CloseRest

LEMMA TypeStep ==
    ASSUME TypeOK, [Next]_vars
    PROVE  TypeOK'
<1>1. CASE UNCHANGED vars
  BY <1>1 DEF TypeOK, vars, txVars, rxVars, hostVars, closeVars, pipeVars
<1>2. CASE Next
  BY <1>2, SenderStepType, ReadLoopType, ReaderType, CloseType, HostType DEF Next
<1>3. QED
  BY <1>1, <1>2

LEMMA TypeInit ==
    ASSUME Init
    PROVE  TypeOK
<1>1. <<>> \in Seq(1..MaxSent) /\ <<>> \in Seq(Frames) /\ Len(<<>>) = 0
  BY EmptySeq
<1>2. sender \in [Senders -> SenderPlaces]
  BY DEF Init, SenderPlaces
<1>3. /\ recvCh \in Seq(1..MaxSent) /\ Len(recvCh) <= RecvCap /\ received \in Seq(1..MaxSent)
      /\ atClose \in Seq(1..MaxSent) /\ stdin \in Seq(Frames)
  <2>1. recvCh = <<>> /\ received = <<>> /\ atClose = <<>> /\ stdin = <<>>
    BY DEF Init
  <2>2. QED
    BY <1>1, <2>1
<1>4. /\ sendCred \in Nat /\ txWire \in Nat /\ credReceived \in Nat
      /\ hostCred \in Nat /\ hostGranted \in Nat /\ hostSent \in 0..MaxSent
      /\ granter \in Nat /\ readLoop \in 0..MaxSent
  <2>1. /\ sendCred = InitialCredit /\ hostCred = InitialCredit /\ txWire = 0 /\ credReceived = 0
        /\ hostGranted = 0 /\ hostSent = 0 /\ granter = 0 /\ readLoop = 0
    BY DEF Init
  <2>2. QED
    BY <2>1
<1>5. isClosed \in BOOLEAN /\ done \in BOOLEAN /\ closer = "idle" /\ reader = "recv"
  BY Zenon DEF Init
<1>6. QED
  BY <1>2, <1>3, <1>4, <1>5 DEF TypeOK

(* credit.go:101-147 - the fields keep their types; in particular the credit *)
(* of a channel never goes below zero, and recvCh never holds more than      *)
(* RecvCap payloads.                                                         *)
THEOREM TypeCorrect == Spec => []TypeOK
BY TypeInit, TypeStep, PTL DEF Spec

-----------------------------------------------------------------------------
(* Counting senders. *)

LEMMA PlacesFinite ==
    /\ IsFiniteSet(InFlight) /\ Cardinality(InFlight) \in Nat
    /\ IsFiniteSet(At("lock")) /\ Cardinality(At("lock")) \in Nat
<1>1. InFlight \in SUBSET Senders /\ At("lock") \in SUBSET Senders
  BY DEF InFlight, At
<1>2. IsFiniteSet(InFlight) /\ IsFiniteSet(At("lock"))
  BY <1>1, FS_Subset
<1>3. QED
  BY <1>2, FS_CardinalityType

LEMMA AddOne ==
    ASSUME NEW S, IsFiniteSet(S), NEW x, x \notin S
    PROVE  Cardinality(S \cup {x}) = Cardinality(S) + 1
BY FS_AddElement

LEMMA DropOne ==
    ASSUME NEW S, IsFiniteSet(S), NEW x \in S
    PROVE  Cardinality(S \ {x}) = Cardinality(S) - 1
BY FS_RemoveElement

(* What each step of a sender does to the set of senders that hold a unit of *)
(* credit.  Between taking a unit and spending or refunding it a sender is   *)
(* in InFlight, and nobody else's step takes it out.                         *)
LEMMA InFlightMoves ==
    ASSUME TypeOK, NEW s \in Senders
    PROVE  /\ SendCall(s) \/ SendWait(s) \/ SendClosed(s) \/ EncodeFails(s) => InFlight' = InFlight
           /\ SendTake(s) \/ TrySend(s) => s \notin InFlight /\ InFlight' = InFlight \cup {s}
           /\ EncodeOK(s) \/ Refund(s) => s \in InFlight /\ InFlight' = InFlight \ {s}
<1> USE DEF TypeOK, InFlight, At, Goto
<1>1. ASSUME SendCall(s) \/ SendWait(s) \/ SendClosed(s) \/ EncodeFails(s)
      PROVE  InFlight' = InFlight
  BY <1>1 DEF SendCall, SendWait, SendClosed, EncodeFails
<1>2. ASSUME SendTake(s) \/ TrySend(s)
      PROVE  s \notin InFlight /\ InFlight' = InFlight \cup {s}
  BY <1>2 DEF SendTake, TrySend
<1>3. ASSUME EncodeOK(s)
      PROVE  s \in InFlight /\ InFlight' = InFlight \ {s}
  BY <1>3 DEF EncodeOK
<1>4. ASSUME Refund(s)
      PROVE  s \in InFlight /\ InFlight' = InFlight \ {s}
  <2>1. CASE sender' = [sender EXCEPT ![s] = "idle"]
    BY <1>4, <2>1 DEF Refund
  <2>2. CASE \E t \in At("waiting") : sender' = [sender EXCEPT ![s] = "idle", ![t] = "lock"]
    <3>1. PICK t \in At("waiting") : sender' = [sender EXCEPT ![s] = "idle", ![t] = "lock"]
      BY <2>2
    <3>2. sender[t] = "waiting" /\ sender[s] = "refund"
      BY <1>4, <3>1 DEF Refund
    <3>3. QED
      BY <3>1, <3>2
  <2>3. QED
    BY <1>4, <2>1, <2>2 DEF Refund
<1>5. QED
  BY <1>1, <1>2, <1>3, <1>4

LEMMA InFlightAfterWakeAll ==
    ASSUME TypeOK, WakeAll
    PROVE  InFlight' = InFlight
BY DEF TypeOK, WakeAll, InFlight, At

-----------------------------------------------------------------------------
(* Credit. *)

LEMMA CreditStep ==
    ASSUME TypeOK, CreditConserved, [Next]_vars
    PROVE  CreditConserved'
<1> USE PlacesFinite
<1>1. ASSUME NEW s \in Senders, SendCall(s) \/ SendWait(s) \/ SendClosed(s) \/ EncodeFails(s)
      PROVE  CreditConserved'
  <2>1. InFlight' = InFlight
    BY <1>1, InFlightMoves
  <2>2. UNCHANGED <<sendCred, txWire, credReceived>>
    BY <1>1 DEF SendCall, SendWait, SendClosed, EncodeFails, notTx, pipeVars
  <2>3. QED
    BY <2>1, <2>2 DEF CreditConserved
<1>2. ASSUME NEW s \in Senders, SendTake(s) \/ TrySend(s)
      PROVE  CreditConserved'
  <2>1. Cardinality(InFlight') = Cardinality(InFlight) + 1
    BY <1>2, InFlightMoves, AddOne
  <2>2. sendCred' = sendCred - 1 /\ UNCHANGED <<txWire, credReceived>>
    BY <1>2 DEF SendTake, TrySend, notTx, pipeVars
  <2>3. QED
    BY <2>1, <2>2 DEF CreditConserved, TypeOK
<1>3. ASSUME NEW s \in Senders, EncodeOK(s) \/ Refund(s)
      PROVE  CreditConserved'
  <2>1. Cardinality(InFlight') = Cardinality(InFlight) - 1
    BY <1>3, InFlightMoves, DropOne
  <2>2. /\ EncodeOK(s) => txWire' = txWire + 1 /\ UNCHANGED <<sendCred, credReceived>>
        /\ Refund(s) => sendCred' = sendCred + 1 /\ UNCHANGED <<txWire, credReceived>>
    BY DEF EncodeOK, Refund, notTx, pipeVars
  <2>3. QED
    BY <1>3, <2>1, <2>2 DEF CreditConserved, TypeOK
<1>4. CASE ReceiveCreditGrant
  <2>1. CASE UNCHANGED <<sendCred, sender, credReceived>>
    BY <1>4, <2>1 DEF ReceiveCreditGrant, CreditConserved, InFlight, At
  <2>2. CASE ~(UNCHANGED <<sendCred, sender, credReceived>>)
    <3>1. Head(stdin).n \in Nat
      BY <1>4, HeadOfPipe DEF ReceiveCreditGrant
    <3>2. /\ sendCred' = sendCred + Head(stdin).n
          /\ credReceived' = credReceived + Head(stdin).n
          /\ WakeAll /\ txWire' = txWire
      BY <1>4, <2>2 DEF ReceiveCreditGrant
    <3>3. InFlight' = InFlight
      BY <3>2, InFlightAfterWakeAll
    <3>4. sendCred \in Nat /\ credReceived \in Nat /\ txWire \in Nat
      BY DEF TypeOK
    <3>5. QED
      BY <3>1, <3>2, <3>3, <3>4 DEF CreditConserved
  <2>3. QED
    BY <2>1, <2>2
<1>5. CASE CloseBroadcast
  <2>1. InFlight' = InFlight
    BY <1>5, InFlightAfterWakeAll DEF CloseBroadcast
  <2>2. QED
    BY <1>5, <2>1 DEF CloseBroadcast, CreditConserved, pipeVars
<1>6. ASSUME UNCHANGED <<sendCred, sender, txWire, credReceived>>
      PROVE  CreditConserved'
  BY <1>6 DEF CreditConserved, InFlight, At
<1>7. \/ \E s \in Senders : SendCall(s) \/ TrySend(s) \/ Sender(s)
      \/ ReceiveCreditGrant \/ CloseBroadcast
      \/ UNCHANGED <<sendCred, sender, txWire, credReceived>>
  BY OthersLeaveTx
<1>8. QED
  BY <1>1, <1>2, <1>3, <1>4, <1>5, <1>6, <1>7 DEF Sender

(* credit.go:165-183 - every unit of credit is in the window, in the hands   *)
(* of one sender, or spent on one frame, whatever fails or closes meanwhile. *)
THEOREM CreditSafety == Spec => []CreditConserved
<1>1. Init => CreditConserved
  <2> SUFFICES ASSUME Init PROVE CreditConserved
    OBVIOUS
  <2>2. \A s \in Senders : sender[s] = "idle"
    BY DEF Init
  <2>3. InFlight = {}
    BY <2>2 DEF InFlight, At
  <2>4. Cardinality(InFlight) = 0
    BY <2>3, FS_EmptySet
  <2>5. sendCred = InitialCredit /\ txWire = 0 /\ credReceived = 0
    BY DEF Init
  <2>6. QED
    BY <2>4, <2>5 DEF CreditConserved
<1>2. TypeOK /\ CreditConserved /\ [Next]_vars => CreditConserved'
  BY CreditStep
<1>3. QED
  BY <1>1, <1>2, TypeCorrect, PTL DEF Spec

-----------------------------------------------------------------------------
(* The contract. *)

LEMMA ContractStep ==
    ASSUME TypeOK, CreditConserved, [Next]_vars
    PROVE  [Contract!Next]_<<InitialCredit + credReceived, txWire>>
<1> USE PlacesFinite
<1> DEFINE Stutter == UNCHANGED <<credReceived, txWire>>
<1>0. sendCred \in Nat /\ credReceived \in Nat /\ txWire \in Nat
  BY DEF TypeOK
<1>1. ASSUME NEW s \in Senders, EncodeOK(s)
      PROVE  Contract!Spend
  <2>1. Cardinality(InFlight) # 0
    BY <1>1, InFlightMoves, FS_EmptySet
  <2>2. txWire < InitialCredit + credReceived
    BY <1>0, <2>1 DEF CreditConserved
  <2>3. QED
    BY <1>1, <2>2 DEF EncodeOK, notTx, pipeVars, Contract!Spend
<1>2. ASSUME NEW s \in Senders, SendCall(s) \/ TrySend(s) \/ Sender(s), ~EncodeOK(s)
      PROVE  Stutter
  BY <1>2 DEF SendCall, TrySend, Sender, SendTake, SendWait, SendClosed, EncodeFails, Refund, notTx, pipeVars
<1>3. CASE ReceiveCreditGrant
  <2>1. txWire' = txWire
    BY <1>3 DEF ReceiveCreditGrant
  <2>2. CASE credReceived' = credReceived
    BY <2>1, <2>2
  <2>3. CASE credReceived' # credReceived
    <3>1. Head(stdin).n \in Nat /\ Head(stdin).n > 0 /\ credReceived' = credReceived + Head(stdin).n
      BY <1>3, <2>3, HeadOfPipe DEF ReceiveCreditGrant
    <3>2. Contract!Grant
      BY <1>0, <2>1, <3>1 DEF Contract!Grant
    <3>3. QED
      BY <3>2 DEF Contract!Next
  <2>4. QED
    BY <2>2, <2>3
<1>4. CASE CloseBroadcast
  BY <1>4 DEF CloseBroadcast, pipeVars
<1>5. QED
  BY <1>1, <1>2, <1>3, <1>4, OthersLeaveTx DEF Contract!Next

(* credit.go:8-20 - the channel keeps the sender's side of the contract: each *)
(* data frame spends credit that has arrived, and only grants add to it.      *)
THEOREM Refinement == Spec => KeepsContract
<1>1. Init => Contract!Init
  <2> SUFFICES ASSUME Init PROVE Contract!Init
    OBVIOUS
  <2>1. credReceived = 0 /\ txWire = 0
    BY DEF Init
  <2>2. QED
    BY <2>1 DEF Contract!Init
<1>2. TypeOK /\ CreditConserved /\ [Next]_vars => [Contract!Next]_<<InitialCredit + credReceived, txWire>>
  BY ContractStep
<1>3. QED
  BY <1>1, <1>2, TypeCorrect, CreditSafety, PTL DEF Spec, KeepsContract, Contract!Spec

-----------------------------------------------------------------------------
(* Wake-ups.  NoLostWakeup is not inductive by itself: a sender may only     *)
(* park while c.closed is unset, and only closed being unset until Close     *)
(* marks it says that the Broadcast of Close is still to come.               *)

ClosedIffMarked == (closer = "idle") <=> ~isClosed
WakeInv == NoLostWakeup /\ ClosedIffMarked

(* What each step of a sender does to those parked and those about to lock. *)
LEMMA LockMoves ==
    ASSUME TypeOK, NEW s \in Senders
    PROVE  /\ SendCall(s) => /\ s \notin At("lock") /\ At("lock")' = At("lock") \cup {s}
                             /\ At("waiting")' = At("waiting")
           /\ SendTake(s) \/ SendClosed(s) => /\ s \in At("lock") /\ At("lock")' = At("lock") \ {s}
                                              /\ At("waiting")' = At("waiting")
           /\ TrySend(s) \/ EncodeOK(s) \/ EncodeFails(s) => /\ At("lock")' = At("lock")
                                                             /\ At("waiting")' = At("waiting")
<1> USE DEF TypeOK, At, Goto
<1>1. ASSUME SendCall(s)
      PROVE  s \notin At("lock") /\ At("lock")' = At("lock") \cup {s} /\ At("waiting")' = At("waiting")
  BY <1>1 DEF SendCall
<1>2. ASSUME SendTake(s) \/ SendClosed(s)
      PROVE  s \in At("lock") /\ At("lock")' = At("lock") \ {s} /\ At("waiting")' = At("waiting")
  BY <1>2 DEF SendTake, SendClosed
<1>3. ASSUME TrySend(s) \/ EncodeOK(s) \/ EncodeFails(s)
      PROVE  At("lock")' = At("lock") /\ At("waiting")' = At("waiting")
  BY <1>3 DEF TrySend, EncodeOK, EncodeFails
<1>4. QED
  BY <1>1, <1>2, <1>3

(* Signal with a sender parked: that one is on its way to the lock. *)
LEMMA RefundWakes ==
    ASSUME TypeOK, NEW s \in Senders, Refund(s)
    PROVE  \/ At("waiting") = {} /\ At("waiting")' = {}
           \/ \E t \in At("waiting") : t \notin At("lock") /\ At("lock")' = At("lock") \cup {t}
<1>1. CASE At("waiting") = {} /\ Goto(s, "idle")
  BY <1>1 DEF TypeOK, At, Goto
<1>2. CASE \E t \in At("waiting") : sender' = [sender EXCEPT ![s] = "idle", ![t] = "lock"]
  <2>1. PICK t \in At("waiting") : sender' = [sender EXCEPT ![s] = "idle", ![t] = "lock"]
    BY <1>2
  <2>2. sender[t] = "waiting" /\ sender[s] = "refund" /\ t \in Senders
    BY <2>1 DEF Refund, At
  <2>3. t \notin At("lock") /\ At("lock")' = At("lock") \cup {t}
    BY <2>1, <2>2 DEF TypeOK, At
  <2>4. QED
    BY <2>1, <2>3
<1>3. QED
  BY <1>1, <1>2 DEF Refund

LEMMA NobodyAfterWakeAll ==
    ASSUME TypeOK, WakeAll
    PROVE  At("waiting")' = {}
BY DEF TypeOK, WakeAll, At

LEMMA SenderLeavesClose ==
    ASSUME NEW s \in Senders, SendCall(s) \/ TrySend(s) \/ Sender(s)
    PROVE  UNCHANGED <<isClosed, closer>>
BY DEF SendCall, TrySend, Sender, SendTake, SendWait, SendClosed, EncodeOK, EncodeFails, Refund, notTx, closeVars

LEMMA ClosedIffMarkedStep ==
    ASSUME ClosedIffMarked, [Next]_vars
    PROVE  ClosedIffMarked'
<1>1. CASE CloseMark
  BY <1>1 DEF CloseMark, ClosedIffMarked
<1>2. CASE CloseRest
  BY <1>2 DEF CloseRest, CloseDone, CloseBroadcast, ClosedIffMarked
<1>3. ASSUME NEW s \in Senders, SendCall(s) \/ TrySend(s) \/ Sender(s)
      PROVE  ClosedIffMarked'
  BY <1>3, SenderLeavesClose DEF ClosedIffMarked
<1>4. CASE ReadLoop \/ Reader
  BY <1>4 DEF ReadLoop, ReceiveCreditGrant, DeliverCall, DeliverEnqueue, DeliverDrop, Reader, RecvPayload, RecvEOF,
              closeVars, ClosedIffMarked
<1>5. CASE GrantEncode \/ HostData \/ \E n \in GrantSizes : GrantCheck(n) \/ HostGrant(n)
  BY <1>5 DEF GrantEncode, HostData, GrantCheck, HostGrant, closeVars, ClosedIffMarked
<1>6. CASE UNCHANGED vars
  BY <1>6 DEF vars, closeVars, ClosedIffMarked
<1>7. QED
  BY <1>1, <1>2, <1>3, <1>4, <1>5, <1>6 DEF Next

(* A step that touches no sender leaves Close where it is, or marks, or      *)
(* closes done; or it is the Broadcast, which finds nobody parked.           *)
LEMMA CloserSteps ==
    ASSUME TypeOK, [Next]_vars
    PROVE  closer' = closer \/ closer' \in {"marked", "broadcast"} \/ At("waiting")' = {}
<1>1. CASE CloseMark \/ CloseRest
  BY <1>1, NobodyAfterWakeAll DEF CloseMark, CloseRest, CloseDone, CloseBroadcast
<1>2. CASE \E s \in Senders : SendCall(s) \/ TrySend(s) \/ Sender(s)
  BY <1>2, SenderLeavesClose
<1>3. CASE ReadLoop \/ Reader
  BY <1>3 DEF ReadLoop, ReceiveCreditGrant, DeliverCall, DeliverEnqueue, DeliverDrop, Reader, RecvPayload, RecvEOF, closeVars
<1>4. CASE GrantEncode \/ HostData \/ \E n \in GrantSizes : GrantCheck(n) \/ HostGrant(n)
  BY <1>4 DEF GrantEncode, HostData, GrantCheck, HostGrant, closeVars
<1>5. CASE UNCHANGED vars
  BY <1>5 DEF vars, closeVars
<1>6. QED
  BY <1>1, <1>2, <1>3, <1>4, <1>5 DEF Next

LEMMA NoLostWakeupStep ==
    ASSUME TypeOK, WakeInv, [Next]_vars
    PROVE  NoLostWakeup'
<1> USE PlacesFinite
<1>0. sendCred \in Nat
  BY DEF TypeOK
<1>1. ASSUME NEW s \in Senders, SendCall(s)
      PROVE  NoLostWakeup'
  <2>1. Cardinality(At("lock")') = Cardinality(At("lock")) + 1 /\ At("waiting")' = At("waiting")
    BY <1>1, LockMoves, AddOne
  <2>2. UNCHANGED <<sendCred, closer>>
    BY <1>1, SenderLeavesClose DEF SendCall
  <2>3. QED
    BY <1>0, <2>1, <2>2 DEF WakeInv, NoLostWakeup
<1>2. ASSUME NEW s \in Senders, SendTake(s)
      PROVE  NoLostWakeup'
  <2>1. Cardinality(At("lock")') = Cardinality(At("lock")) - 1 /\ At("waiting")' = At("waiting")
    BY <1>2, LockMoves, DropOne
  <2>2. sendCred' = sendCred - 1 /\ closer' = closer
    BY <1>2, SenderLeavesClose DEF SendTake, Sender
  <2>3. QED
    BY <1>0, <2>1, <2>2 DEF WakeInv, NoLostWakeup
<1>3. ASSUME NEW s \in Senders, SendWait(s)
      PROVE  NoLostWakeup'
  <2>1. sendCred' = 0 /\ closer' = "idle"
    BY <1>0, <1>3, SenderLeavesClose DEF SendWait, Sender, WakeInv, ClosedIffMarked
  <2>2. Cardinality(At("lock")') \in Nat
    <3>1. At("lock")' \in SUBSET Senders
      BY DEF At
    <3>2. QED
      BY <3>1, FS_Subset, FS_CardinalityType
  <2>3. QED
    BY <2>1, <2>2 DEF NoLostWakeup
<1>4. ASSUME NEW s \in Senders, SendClosed(s)
      PROVE  NoLostWakeup'
  <2>1. At("waiting")' = At("waiting")
    BY <1>4, LockMoves
  <2>2. closer # "idle" /\ closer' = closer
    BY <1>4, SenderLeavesClose DEF SendClosed, Sender, WakeInv, ClosedIffMarked
  <2>3. QED
    BY <2>1, <2>2 DEF WakeInv, NoLostWakeup
<1>5. ASSUME NEW s \in Senders, TrySend(s) \/ EncodeOK(s) \/ EncodeFails(s)
      PROVE  NoLostWakeup'
  <2>1. At("lock")' = At("lock") /\ At("waiting")' = At("waiting")
    BY <1>5, LockMoves
  <2>2. sendCred' \in {sendCred, sendCred - 1} /\ closer' = closer
    BY <1>5, SenderLeavesClose DEF TrySend, EncodeOK, EncodeFails, Sender
  <2>3. QED
    BY <1>0, <2>1, <2>2 DEF WakeInv, NoLostWakeup
<1>6. ASSUME NEW s \in Senders, Refund(s)
      PROVE  NoLostWakeup'
  <2>1. sendCred' = sendCred + 1 /\ closer' = closer
    BY <1>6, SenderLeavesClose DEF Refund, Sender
  <2>2. CASE At("waiting") = {} /\ At("waiting")' = {}
    BY <2>2 DEF NoLostWakeup
  <2>3. ASSUME NEW t \in At("waiting"), t \notin At("lock"), At("lock")' = At("lock") \cup {t}
        PROVE  NoLostWakeup'
    <3>1. Cardinality(At("lock")') = Cardinality(At("lock")) + 1
      BY <2>3, AddOne
    <3>2. QED
      BY <1>0, <2>1, <3>1 DEF WakeInv, NoLostWakeup
  <2>4. QED
    BY <1>6, <2>2, <2>3, RefundWakes
<1>7. CASE ReceiveCreditGrant
  <2>1. CASE WakeAll
    BY <2>1, NobodyAfterWakeAll DEF NoLostWakeup
  <2>2. CASE ~WakeAll
    BY <1>7, <2>2 DEF ReceiveCreditGrant, closeVars, WakeInv, NoLostWakeup, At
  <2>3. QED
    BY <2>1, <2>2
<1>8. CASE CloseBroadcast
  BY <1>8, NobodyAfterWakeAll DEF CloseBroadcast, NoLostWakeup
<1>9. CASE UNCHANGED <<sendCred, sender, txWire, credReceived>>
  <2>1. closer' = closer \/ closer' \in {"marked", "broadcast"} \/ At("waiting")' = {}
    BY CloserSteps
  <2>2. QED
    BY <1>9, <2>1 DEF WakeInv, NoLostWakeup, At
<1>10. QED
  BY <1>1, <1>2, <1>3, <1>4, <1>5, <1>6, <1>7, <1>8, <1>9, OthersLeaveTx DEF Sender

(* credit.go:161-164, 177-180, 225-228, 304-308 - no wake-up is lost: while   *)
(* a Send is parked, either Close has still to broadcast or as many senders   *)
(* are on their way to the lock as there are units of credit to take.         *)
THEOREM WakeupSafety == Spec => []NoLostWakeup
<1>1. Init => WakeInv
  <2> SUFFICES ASSUME Init PROVE WakeInv
    OBVIOUS
  <2>1. \A s \in Senders : sender[s] = "idle"
    BY DEF Init
  <2>2. At("waiting") = {}
    BY <2>1 DEF At
  <2>3. ClosedIffMarked
    BY Zenon DEF Init, ClosedIffMarked
  <2>4. QED
    BY <2>2, <2>3 DEF WakeInv, NoLostWakeup
<1>2. TypeOK /\ WakeInv /\ [Next]_vars => WakeInv'
  BY NoLostWakeupStep, ClosedIffMarkedStep DEF WakeInv
<1>3. WakeInv => NoLostWakeup
  BY DEF WakeInv
<1>4. QED
  BY <1>1, <1>2, <1>3, TypeCorrect, PTL DEF Spec

-----------------------------------------------------------------------------
(* What Recv returns before the end.  The part of received \o recvCh that    *)
(* was there when done closed stays where it is: Recv moves the border,      *)
(* deliverData adds behind it, nothing is taken away.                        *)

StartsWith(b, a) == Len(a) <= Len(b) /\ \A i \in 1..Len(a) : a[i] = b[i]

DrainInv ==
    /\ closer \in {"idle", "marked"} => ~done
    /\ done => StartsWith(received \o recvCh, atClose)
    /\ reader = "eof" => done /\ StartsWith(received, atClose)

Payloads == 1..MaxSent

LEMMA StartsWithItself ==
    ASSUME NEW a \in Seq(Payloads)
    PROVE  StartsWith(a, a)
BY LenProperties DEF StartsWith

LEMMA StartsWithLonger ==
    ASSUME NEW a \in Seq(Payloads), NEW b \in Seq(Payloads), NEW c \in Seq(Payloads), NEW x \in Payloads,
           StartsWith(b \o c, a)
    PROVE  StartsWith(b \o Append(c, x), a)
<1>1. Append(c, x) \in Seq(Payloads)
  BY AppendProperties
<1>2. Len(b \o c) = Len(b) + Len(c) /\ Len(b \o Append(c, x)) = Len(b) + Len(c) + 1
  BY <1>1, ConcatProperties, AppendProperties, LenProperties
<1>3. Len(a) \in Nat /\ Len(b) \in Nat /\ Len(c) \in Nat
  BY LenProperties
<1>4. ASSUME NEW i \in 1..(Len(b) + Len(c))
      PROVE  (b \o Append(c, x))[i] = (b \o c)[i]
  <2>1. (b \o c)[i] = IF i <= Len(b) THEN b[i] ELSE c[i - Len(b)]
    BY ConcatProperties
  <2>2. i \in 1..(Len(b) + Len(Append(c, x)))
    BY <1>3, AppendProperties
  <2>3. (b \o Append(c, x))[i] = IF i <= Len(b) THEN b[i] ELSE Append(c, x)[i - Len(b)]
    BY <1>1, <2>2, ConcatProperties
  <2>4. i > Len(b) => i - Len(b) \in 1..Len(c)
    BY <1>3
  <2>5. QED
    BY <2>1, <2>3, <2>4, AppendProperties
<1>5. QED
  BY <1>2, <1>3, <1>4 DEF StartsWith

(* Recv moves a payload from one side of the border to the other. *)
LEMMA RecvMovesBorder ==
    ASSUME NEW b \in Seq(Payloads), NEW c \in Seq(Payloads), c # <<>>
    PROVE  Append(b, Head(c)) \o Tail(c) = b \o c
<1> DEFINE l == Append(b, Head(c)) \o Tail(c)
<1>1. /\ Head(c) \in Payloads /\ Tail(c) \in Seq(Payloads) /\ Len(Tail(c)) = Len(c) - 1 /\ Head(c) = c[1]
      /\ \A i \in 1..Len(Tail(c)) : Tail(c)[i] = c[i + 1]
  BY HeadTailProperties
<1>2. /\ Append(b, Head(c)) \in Seq(Payloads) /\ Len(Append(b, Head(c))) = Len(b) + 1
      /\ \A i \in 1..Len(b) : Append(b, Head(c))[i] = b[i]
      /\ Append(b, Head(c))[Len(b) + 1] = c[1]
  BY <1>1, AppendProperties
<1>3. Len(b) \in Nat /\ Len(c) \in Nat \ {0}
  BY LenProperties, EmptySeq
<1>4. l \in Seq(Payloads) /\ Len(l) = Len(b) + Len(c)
  BY <1>1, <1>2, <1>3, ConcatProperties
<1>5. b \o c \in Seq(Payloads) /\ Len(b \o c) = Len(b) + Len(c)
  BY ConcatProperties
<1>6. ASSUME NEW i \in 1..(Len(b) + Len(c))
      PROVE  l[i] = (b \o c)[i]
  <2>1. (b \o c)[i] = IF i <= Len(b) THEN b[i] ELSE c[i - Len(b)]
    BY ConcatProperties
  <2>2. i \in 1..(Len(Append(b, Head(c))) + Len(Tail(c)))
    BY <1>1, <1>2, <1>3
  <2>3. l[i] = IF i <= Len(b) + 1 THEN Append(b, Head(c))[i] ELSE Tail(c)[i - (Len(b) + 1)]
    BY <1>1, <1>2, <2>2, ConcatProperties
  <2>4. CASE i <= Len(b)
    BY <1>2, <1>3, <2>1, <2>3, <2>4
  <2>5. CASE i = Len(b) + 1
    BY <1>2, <1>3, <2>1, <2>3, <2>5
  <2>6. CASE i > Len(b) + 1
    <3>1. i - (Len(b) + 1) \in 1..Len(Tail(c)) /\ i - (Len(b) + 1) + 1 = i - Len(b)
      BY <1>1, <1>3, <2>6
    <3>2. Tail(c)[i - (Len(b) + 1)] = c[i - Len(b)]
      BY <1>1, <3>1
    <3>3. QED
      BY <1>3, <2>1, <2>3, <2>6, <3>2
  <2>7. QED
    BY <1>3, <2>4, <2>5, <2>6
<1>7. QED
  BY <1>4, <1>5, <1>6, SeqEqual

(* Only the reader, deliverData and Close can disturb DrainInv. *)
LEMMA OthersLeaveDrain ==
    ASSUME [Next]_vars
    PROVE  \/ DeliverEnqueue \/ Reader \/ CloseMark \/ CloseDone \/ CloseBroadcast
           \/ UNCHANGED <<closer, done, atClose, received, recvCh, reader>>
<1>1. ASSUME NEW s \in Senders, SendCall(s) \/ TrySend(s) \/ Sender(s)
      PROVE  UNCHANGED <<closer, done, atClose, received, recvCh, reader>>
  BY <1>1 DEF SendCall, TrySend, Sender, SendTake, SendWait, SendClosed, EncodeOK, EncodeFails, Refund,
              notTx, closeVars, rxVars
<1>2. CASE ReceiveCreditGrant \/ DeliverCall \/ DeliverDrop
  BY <1>2 DEF ReceiveCreditGrant, DeliverCall, DeliverDrop, closeVars, rxVars
<1>3. CASE GrantEncode \/ HostData \/ \E n \in GrantSizes : GrantCheck(n) \/ HostGrant(n)
  BY <1>3 DEF GrantEncode, HostData, GrantCheck, HostGrant, closeVars, rxVars
<1>4. CASE UNCHANGED vars
  BY <1>4 DEF vars, closeVars, rxVars
<1>5. QED
  BY <1>1, <1>2, <1>3, <1>4 DEF Next, ReadLoop, CloseRest

LEMMA DrainStep ==
    ASSUME TypeOK, DrainInv, [Next]_vars
    PROVE  DrainInv'
<1>0. received \in Seq(Payloads) /\ recvCh \in Seq(Payloads) /\ atClose \in Seq(Payloads)
  BY DEF TypeOK, Payloads
<1>1. CASE DeliverEnqueue
  <2>1. readLoop \in Payloads /\ recvCh' = Append(recvCh, readLoop)
    BY <1>1 DEF DeliverEnqueue, TypeOK, Payloads
  <2>2. UNCHANGED <<closer, done, atClose, received, reader>>
    BY <1>1 DEF DeliverEnqueue, closeVars
  <2>3. done => StartsWith(received \o recvCh', atClose)
    BY <1>0, <2>1, StartsWithLonger DEF DrainInv
  <2>4. QED
    BY <2>2, <2>3 DEF DrainInv, StartsWith
<1>2. CASE RecvPayload
  <2>1. received' \o recvCh' = received \o recvCh
    BY <1>0, <1>2, RecvMovesBorder DEF RecvPayload
  <2>2. reader' = "recv" /\ UNCHANGED <<closer, done, atClose>>
    BY <1>2 DEF RecvPayload, closeVars
  <2>3. QED
    BY <2>1, <2>2 DEF DrainInv, StartsWith
<1>3. CASE RecvEOF
  <2>1. done /\ UNCHANGED <<closer, done, atClose, received, recvCh>>
    BY <1>3 DEF RecvEOF, closeVars
  <2>2. received \o recvCh = received
    BY <1>0, <1>3, ConcatEmptySeq DEF RecvEOF
  <2>3. QED
    BY <2>1, <2>2 DEF DrainInv, StartsWith
<1>4. CASE CloseMark
  BY <1>4 DEF CloseMark, rxVars, DrainInv, StartsWith
<1>5. CASE CloseDone
  <2>1. StartsWith(received \o recvCh, received \o recvCh)
    BY <1>0, ConcatProperties, StartsWithItself
  <2>2. atClose' = received \o recvCh /\ closer' = "broadcast" /\ UNCHANGED <<received, recvCh, reader>>
    BY <1>5 DEF CloseDone, rxVars
  <2>3. reader # "eof" /\ done'
    BY <1>5 DEF CloseDone, DrainInv
  <2>4. QED
    BY <2>1, <2>2, <2>3 DEF DrainInv, StartsWith
<1>6. CASE CloseBroadcast
  BY <1>6 DEF CloseBroadcast, rxVars, DrainInv, StartsWith
<1>7. CASE UNCHANGED <<closer, done, atClose, received, recvCh, reader>>
  BY <1>7 DEF DrainInv, StartsWith
<1>8. QED
  BY <1>1, <1>2, <1>3, <1>4, <1>5, <1>6, <1>7, OthersLeaveDrain DEF Reader

(* credit.go:299-301 - Recv reports the end only "after draining anything     *)
(* already buffered": nothing that was in the buffer at Close is lost.        *)
THEOREM DrainSafety == Spec => []DrainedBeforeEOF
<1>1. Init => DrainInv
  <2> SUFFICES ASSUME Init PROVE DrainInv
    OBVIOUS
  <2>1. ~done /\ reader = "recv"
    BY Zenon DEF Init
  <2>2. QED
    BY <2>1 DEF DrainInv
<1>2. TypeOK /\ DrainInv /\ [Next]_vars => DrainInv'
  BY DrainStep
<1>3. TypeOK /\ DrainInv => DrainedBeforeEOF
  <2> SUFFICES ASSUME TypeOK, DrainInv, reader = "eof"
               PROVE  SubSeq(received, 1, Len(atClose)) = atClose /\ Len(received) >= Len(atClose)
    BY DEF DrainedBeforeEOF
  <2>1. received \in Seq(Payloads) /\ atClose \in Seq(Payloads)
    BY DEF TypeOK, Payloads
  <2>2. Len(received) \in Nat /\ Len(atClose) \in Nat
    BY <2>1, LenProperties
  <2>3. Len(atClose) <= Len(received) /\ \A i \in 1..Len(atClose) : atClose[i] = received[i]
    BY DEF DrainInv, StartsWith
  <2>4. \A i \in 1..Len(atClose) : received[i] \in Payloads
    BY <2>1, <2>2, <2>3, ElementOfSeq
  <2> DEFINE front == SubSeq(received, 1, Len(atClose))
  <2>5. /\ front \in Seq(Payloads)
        /\ Len(front) = IF 1 <= Len(atClose) THEN Len(atClose) - 1 + 1 ELSE 0
        /\ \A i \in 1..(Len(atClose) - 1 + 1) : front[i] = received[1 + i - 1]
    BY <2>2, <2>4, SubSeqProperties
  <2>6. Len(front) = Len(atClose) /\ \A i \in 1..Len(atClose) : front[i] = atClose[i]
    BY <2>2, <2>3, <2>5
  <2>7. front = atClose
    BY <2>1, <2>5, <2>6, SeqEqual
  <2>8. QED
    BY <2>2, <2>3, <2>7
<1>4. QED
  BY <1>1, <1>2, <1>3, TypeCorrect, PTL DEF Spec

-----------------------------------------------------------------------------
(* The order of the data frames until Close.  What is behind Close no longer *)
(* matters, so every step but those of HostData and of the read loop and the *)
(* reader leaves the frames where they are.                                  *)

OrderVars == <<received, recvCh, readLoop, stdin, hostSent, done>>

LEMMA OthersLeaveOrder ==
    ASSUME [Next]_vars
    PROVE  \/ HostData \/ ReceiveCreditGrant \/ DeliverCall \/ DeliverEnqueue \/ RecvPayload
           \/ \E n \in GrantSizes : HostGrant(n)
           \/ done'
           \/ UNCHANGED OrderVars
<1> USE DEF OrderVars
<1>1. ASSUME NEW s \in Senders, SendCall(s) \/ TrySend(s) \/ Sender(s)
      PROVE  UNCHANGED OrderVars
  BY <1>1 DEF SendCall, TrySend, Sender, SendTake, SendWait, SendClosed, EncodeOK, EncodeFails, Refund,
              notTx, closeVars, rxVars, hostVars, pipeVars
<1>2. CASE DeliverDrop \/ CloseDone
  BY <1>2 DEF DeliverDrop, CloseDone, closeVars
<1>3. CASE RecvEOF \/ CloseMark \/ CloseBroadcast \/ GrantEncode \/ \E n \in GrantSizes : GrantCheck(n)
  BY <1>3 DEF RecvEOF, CloseMark, CloseBroadcast, GrantEncode, GrantCheck, closeVars, rxVars, hostVars, pipeVars
<1>4. CASE UNCHANGED vars
  BY <1>4 DEF vars, closeVars, rxVars, hostVars, pipeVars
<1>5. QED
  BY <1>1, <1>2, <1>3, <1>4 DEF Next, ReadLoop, Reader, CloseRest

(* The data frames behind a frame that is taken off the pipe. *)
LEMMA DataBehind ==
    ASSUME TypeOK, stdin # <<>>, stdin' = Tail(stdin)
    PROVE  /\ DataAt \subseteq 1..Len(stdin) /\ stdin[1] = Head(stdin)
           /\ \A i \in DataAt : stdin[i].seq \in 1..MaxSent
           /\ \A i \in DataAt' : i + 1 \in DataAt /\ stdin'[i] = stdin[i + 1] /\ i \in Nat \ {0}
           /\ \A i \in DataAt : i = 1 \/ (i - 1 \in DataAt' /\ stdin'[i - 1] = stdin[i])
<1>1. stdin \in Seq(Frames) /\ DOMAIN stdin = 1..Len(stdin) /\ Len(stdin) \in Nat \ {0}
  BY EmptySeq, LenProperties DEF TypeOK
<1>2. /\ stdin' \in Seq(Frames) /\ DOMAIN stdin' = 1..(Len(stdin) - 1) /\ stdin[1] = Head(stdin)
      /\ \A i \in 1..(Len(stdin) - 1) : stdin'[i] = stdin[i + 1]
  BY <1>1, HeadTailProperties, LenProperties
<1>3. \A i \in DataAt : stdin[i].seq \in 1..MaxSent
  BY <1>1, ElementOfSeq DEF DataAt, Frames
<1>4. ASSUME NEW i \in DataAt'
      PROVE  i + 1 \in DataAt /\ stdin'[i] = stdin[i + 1] /\ i \in Nat \ {0}
  <2>1. i \in 1..(Len(stdin) - 1) /\ stdin'[i].kind = "data"
    BY <1>2 DEF DataAt
  <2>2. i + 1 \in 1..Len(stdin) /\ stdin'[i] = stdin[i + 1]
    BY <1>1, <1>2, <2>1
  <2>3. QED
    BY <1>1, <2>1, <2>2 DEF DataAt
<1>5. ASSUME NEW i \in DataAt, i # 1
      PROVE  i - 1 \in DataAt' /\ stdin'[i - 1] = stdin[i]
  <2>1. i \in 1..Len(stdin) /\ stdin[i].kind = "data"
    BY <1>1 DEF DataAt
  <2>2. i - 1 \in 1..(Len(stdin) - 1) /\ stdin'[i - 1] = stdin[i]
    BY <1>1, <1>2, <1>5, <2>1
  <2>3. QED
    BY <1>2, <2>1, <2>2 DEF DataAt
<1>6. QED
  BY <1>1, <1>2, <1>3, <1>4, <1>5 DEF DataAt

(* A frame written to the pipe comes behind all of it. *)
LEMMA DataAppended ==
    ASSUME TypeOK, NEW f \in Frames, stdin' = Append(stdin, f)
    PROVE  /\ \A i \in DataAt : i <= Len(stdin) /\ stdin'[i] = stdin[i] /\ stdin[i].seq \in 1..MaxSent /\ i \in Nat
           /\ stdin'[Len(stdin) + 1] = f /\ Len(stdin) \in Nat
           /\ DataAt' = DataAt \cup IF f.kind = "data" THEN {Len(stdin) + 1} ELSE {}
<1>1. stdin \in Seq(Frames) /\ DOMAIN stdin = 1..Len(stdin) /\ Len(stdin) \in Nat
  BY LenProperties DEF TypeOK
<1>2. /\ DOMAIN stdin' = 1..(Len(stdin) + 1) /\ stdin'[Len(stdin) + 1] = f
      /\ \A i \in 1..Len(stdin) : stdin'[i] = stdin[i]
  BY <1>1, AppendProperties, LenProperties
<1>3. \A i \in DataAt : stdin[i].seq \in 1..MaxSent /\ i \in 1..Len(stdin)
  BY <1>1, ElementOfSeq DEF DataAt, Frames
<1>4. \A i : i \in 1..(Len(stdin) + 1) <=> i \in 1..Len(stdin) \/ i = Len(stdin) + 1
  BY <1>1
<1>5. DataAt' = DataAt \cup IF f.kind = "data" THEN {Len(stdin) + 1} ELSE {}
  BY <1>1, <1>2, <1>4 DEF DataAt
<1>6. QED
  BY <1>1, <1>2, <1>3, <1>5

(* deliverData and Recv move the first frames along; the pipe keeps the rest. *)
LEMMA FramesMove ==
    ASSUME TypeOK, InOrderUntilClose, ~done, DeliverEnqueue \/ RecvPayload
    PROVE  InOrderUntilClose'
<1>1. /\ received \in Seq(Payloads) /\ recvCh \in Seq(Payloads)
      /\ DOMAIN received = 1..Len(received) /\ DOMAIN recvCh = 1..Len(recvCh)
      /\ Len(received) \in Nat /\ Len(recvCh) \in Nat
  BY LenProperties DEF TypeOK, Payloads
<1>2. UNCHANGED <<stdin, hostSent, done>>
  BY DEF DeliverEnqueue, RecvPayload, closeVars, hostVars, pipeVars
<1>3. DataAt' = DataAt
  BY <1>2 DEF DataAt
<1>4. CASE DeliverEnqueue
  <2>1. readLoop \in Payloads /\ recvCh' = Append(recvCh, readLoop) /\ readLoop' = 0 /\ UNCHANGED received
    BY <1>4 DEF DeliverEnqueue, TypeOK, Payloads
  <2>2. /\ Len(recvCh') = Len(recvCh) + 1 /\ DOMAIN recvCh' = 1..(Len(recvCh) + 1)
        /\ recvCh'[Len(recvCh) + 1] = readLoop
        /\ \A i \in 1..Len(recvCh) : recvCh'[i] = recvCh[i]
    BY <1>1, <2>1, AppendProperties, LenProperties
  <2>3. Taken' = Taken /\ readLoop = Len(received) + Len(recvCh) + 1
    <3>1. readLoop # 0
      BY <2>1 DEF Payloads
    <3>2. Taken = Len(received) + Len(recvCh) + 1
      BY <3>1 DEF Taken
    <3>3. Taken' = Len(received) + (Len(recvCh) + 1) + 0
      BY <2>1, <2>2 DEF Taken
    <3>4. readLoop = Taken
      BY <3>1 DEF InOrderUntilClose
    <3>5. QED
      BY <1>1, <3>2, <3>3, <3>4
  <2>4. \A i \in DOMAIN recvCh' : recvCh'[i] = Len(received) + i
    BY <1>1, <2>2, <2>3 DEF InOrderUntilClose
  <2>5. QED
    BY <1>2, <1>3, <2>1, <2>3, <2>4 DEF InOrderUntilClose
<1>5. CASE RecvPayload
  <2>1. recvCh # <<>> /\ received' = Append(received, Head(recvCh)) /\ recvCh' = Tail(recvCh) /\ UNCHANGED readLoop
    BY <1>5 DEF RecvPayload
  <2>2. /\ Head(recvCh) \in Payloads /\ Head(recvCh) = recvCh[1] /\ recvCh' \in Seq(Payloads)
        /\ Len(recvCh') = Len(recvCh) - 1 /\ DOMAIN recvCh' = 1..(Len(recvCh) - 1) /\ Len(recvCh) > 0
        /\ \A i \in 1..(Len(recvCh) - 1) : recvCh'[i] = recvCh[i + 1]
    BY <1>1, <2>1, HeadTailProperties, LenProperties, EmptySeq
  <2>3. /\ Len(received') = Len(received) + 1 /\ DOMAIN received' = 1..(Len(received) + 1)
        /\ received'[Len(received) + 1] = recvCh[1]
        /\ \A i \in 1..Len(received) : received'[i] = received[i]
    BY <1>1, <2>1, <2>2, AppendProperties, LenProperties
  <2>4. Taken' = Taken
    BY <1>1, <2>1, <2>2, <2>3 DEF Taken
  <2>5. \A i \in DOMAIN received' : received'[i] = i
    BY <1>1, <2>2, <2>3 DEF InOrderUntilClose
  <2>6. ASSUME NEW i \in DOMAIN recvCh'
        PROVE  recvCh'[i] = Len(received') + i
    <3>1. i \in 1..(Len(recvCh) - 1) /\ i + 1 \in DOMAIN recvCh
      BY <1>1, <2>2
    <3>2. recvCh[i + 1] = Len(received) + (i + 1)
      BY <3>1 DEF InOrderUntilClose
    <3>3. QED
      BY <1>1, <2>2, <2>3, <3>1, <3>2
  <2>7. QED
    BY <1>2, <1>3, <2>1, <2>4, <2>5, <2>6 DEF InOrderUntilClose
<1>6. QED
  BY <1>4, <1>5

(* The read loop takes a frame off the pipe: a grant, or the data frame that *)
(* is next in order.                                                         *)
LEMMA FramesTaken ==
    ASSUME TypeOK, InOrderUntilClose, ~done, ReceiveCreditGrant \/ DeliverCall
    PROVE  InOrderUntilClose'
<1>1. Len(received) \in Nat /\ Len(recvCh) \in Nat /\ hostSent \in Nat
  BY LenProperties DEF TypeOK, Payloads
<1>2. stdin # <<>> /\ stdin' = Tail(stdin) /\ readLoop = 0 /\ UNCHANGED <<received, recvCh, hostSent, done>>
  BY DEF ReceiveCreditGrant, DeliverCall, rxVars, closeVars, hostVars
<1>3. /\ DataAt \subseteq 1..Len(stdin) /\ stdin[1] = Head(stdin)
      /\ \A i \in DataAt : stdin[i].seq \in 1..MaxSent
      /\ \A i \in DataAt' : i + 1 \in DataAt /\ stdin'[i] = stdin[i + 1] /\ i \in Nat \ {0}
      /\ \A i \in DataAt : i = 1 \/ (i - 1 \in DataAt' /\ stdin'[i - 1] = stdin[i])
  BY <1>2, DataBehind
<1>4. /\ Taken \in Nat /\ Taken = Len(received) + Len(recvCh)
      /\ {stdin[i].seq : i \in DataAt} = (Taken + 1)..hostSent
      /\ \A i, j \in DataAt : i < j => stdin[i].seq < stdin[j].seq
  BY <1>1, <1>2 DEF Taken, InOrderUntilClose
<1>5. \A i, j \in DataAt' : i < j => stdin'[i].seq < stdin'[j].seq
  <2> SUFFICES ASSUME NEW i \in DataAt', NEW j \in DataAt', i < j
               PROVE  stdin'[i].seq < stdin'[j].seq
    OBVIOUS
  <2>1. i + 1 \in DataAt /\ j + 1 \in DataAt /\ i + 1 < j + 1
    BY <1>3
  <2>2. QED
    BY <1>3, <1>4, <2>1
<1>6. CASE ReceiveCreditGrant
  <2>1. 1 \notin DataAt /\ readLoop' = 0
    BY <1>3, <1>6 DEF ReceiveCreditGrant, rxVars, DataAt
  <2>2. {stdin'[i].seq : i \in DataAt'} = {stdin[i].seq : i \in DataAt}
    <3>1. \A i \in DataAt' : \E j \in DataAt : stdin'[i] = stdin[j]
      BY <1>3
    <3>2. \A j \in DataAt : \E i \in DataAt' : stdin'[i] = stdin[j]
      BY <1>3, <2>1
    <3>3. QED
      BY <3>1, <3>2
  <2>3. Taken' = Taken
    BY <1>2, <2>1 DEF Taken
  <2>4. QED
    BY <1>2, <1>4, <1>5, <2>1, <2>2, <2>3 DEF InOrderUntilClose
<1>7. CASE DeliverCall
  <2>1. 1 \in DataAt /\ readLoop' = stdin[1].seq
    <3>1. stdin \in Seq(Frames) /\ Len(stdin) \in Nat \ {0} /\ DOMAIN stdin = 1..Len(stdin)
      BY <1>2, EmptySeq, LenProperties DEF TypeOK
    <3>2. QED
      BY <1>3, <1>7, <3>1 DEF DeliverCall, DataAt
  <2>2. stdin[1].seq \in (Taken + 1)..hostSent
    BY <1>4, <2>1
  <2>3. ASSUME NEW i \in DataAt, i # 1
        PROVE  stdin[1].seq < stdin[i].seq
    <3>1. 1 < i
      BY <1>3, <2>3
    <3>2. QED
      BY <1>4, <2>1, <3>1
  <2>4. stdin[1].seq = Taken + 1
    <3>1. Taken + 1 \in (Taken + 1)..hostSent
      BY <1>1, <1>4, <2>2
    <3>2. PICK i \in DataAt : stdin[i].seq = Taken + 1
      BY <1>4, <3>1
    <3>3. QED
      BY <1>3, <1>4, <2>1, <2>2, <2>3, <3>2
  <2>5. Taken' = Taken + 1 /\ readLoop' = Taken'
    BY <1>1, <1>2, <1>4, <2>1, <2>4 DEF Taken
  <2>6. {stdin'[i].seq : i \in DataAt'} = (Taken + 2)..hostSent
    <3>1. ASSUME NEW i \in DataAt'
          PROVE  stdin'[i].seq \in (Taken + 2)..hostSent
      <4>1. i + 1 \in DataAt /\ i + 1 # 1 /\ stdin'[i] = stdin[i + 1]
        BY <1>3
      <4>2. stdin[i + 1].seq \in (Taken + 1)..hostSent /\ stdin[1].seq < stdin[i + 1].seq
        BY <1>4, <2>3, <4>1
      <4>3. QED
        BY <1>1, <1>4, <2>4, <4>1, <4>2
    <3>2. ASSUME NEW k \in (Taken + 2)..hostSent
          PROVE  \E i \in DataAt' : stdin'[i].seq = k
      <4>1. k \in (Taken + 1)..hostSent /\ k # Taken + 1
        BY <1>1, <1>4
      <4>2. PICK i \in DataAt : stdin[i].seq = k
        BY <1>4, <4>1
      <4>3. i # 1
        BY <2>4, <4>1, <4>2
      <4>4. QED
        BY <1>3, <4>2, <4>3
    <3>3. QED
      BY <3>1, <3>2
  <2>7. Taken' <= hostSent /\ (Taken' + 1)..hostSent = (Taken + 2)..hostSent
    BY <1>1, <1>4, <2>2, <2>5
  <2>8. QED
    BY <1>2, <1>4, <1>5, <2>5, <2>6, <2>7 DEF InOrderUntilClose
<1>8. QED
  BY <1>6, <1>7

(* The host writes the next data frame, or a grant, behind what is there. *)
LEMMA FramesWritten ==
    ASSUME TypeOK, InOrderUntilClose, ~done, HostData \/ \E n \in GrantSizes : HostGrant(n)
    PROVE  InOrderUntilClose'
<1>1. Len(received) \in Nat /\ Len(recvCh) \in Nat /\ hostSent \in Nat /\ Taken \in Nat
  BY LenProperties DEF TypeOK, Payloads, Taken
<1>2. UNCHANGED <<received, recvCh, readLoop, done>>
  BY DEF HostData, HostGrant, rxVars, closeVars
<1>3. Taken' = Taken
  BY <1>2 DEF Taken
<1>4. /\ {stdin[i].seq : i \in DataAt} = (Taken + 1)..hostSent /\ Taken <= hostSent
      /\ \A i, j \in DataAt : i < j => stdin[i].seq < stdin[j].seq
  BY DEF InOrderUntilClose
<1>5. CASE HostData
  <2> DEFINE f == Data(hostSent + 1)
             n == Len(stdin) + 1
  <2>1. f \in Frames /\ f.kind = "data" /\ f.seq = hostSent + 1 /\ stdin' = Append(stdin, f) /\ hostSent' = hostSent + 1
    BY <1>1, <1>5 DEF HostData, Data, Frames
  <2>2. /\ \A i \in DataAt : i <= Len(stdin) /\ stdin'[i] = stdin[i] /\ stdin[i].seq \in 1..MaxSent /\ i \in Nat
        /\ stdin'[n] = f /\ Len(stdin) \in Nat /\ DataAt' = DataAt \cup {n}
    BY <2>1, DataAppended
  <2>3. \A i \in DataAt : stdin[i].seq \in (Taken + 1)..hostSent
    BY <1>4
  <2>4. {stdin'[i].seq : i \in DataAt'} = (Taken + 1)..(hostSent + 1)
    <3>1. {stdin'[i].seq : i \in DataAt'} = {stdin[i].seq : i \in DataAt} \cup {hostSent + 1}
      BY <2>1, <2>2
    <3>2. (Taken + 1)..(hostSent + 1) = (Taken + 1)..hostSent \cup {hostSent + 1}
      BY <1>1, <1>4
    <3>3. QED
      BY <1>4, <3>1, <3>2
  <2>5. \A i, j \in DataAt' : i < j => stdin'[i].seq < stdin'[j].seq
    <3> SUFFICES ASSUME NEW i \in DataAt', NEW j \in DataAt', i < j
                 PROVE  stdin'[i].seq < stdin'[j].seq
      OBVIOUS
    <3>1. i \in DataAt
      BY <2>2
    <3>2. CASE j \in DataAt
      BY <1>4, <2>2, <3>1, <3>2
    <3>3. CASE j = n
      <4>1. stdin'[i] = stdin[i] /\ stdin[i].seq \in (Taken + 1)..hostSent
        BY <2>2, <2>3, <3>1
      <4>2. stdin'[j].seq = hostSent + 1
        BY <2>1, <2>2, <3>3
      <4>3. stdin[i].seq < hostSent + 1
        BY <1>1, <4>1
      <4>4. QED
        BY <4>1, <4>2, <4>3
    <3>4. QED
      BY <2>2, <3>2, <3>3
  <2>6. Taken' <= hostSent'
    BY <1>1, <1>3, <1>4, <2>1
  <2>7. {stdin'[i].seq : i \in DataAt'} = (Taken' + 1)..hostSent'
    BY <1>3, <2>1, <2>4
  <2>8. QED
    BY <1>2, <1>3, <2>5, <2>6, <2>7 DEF InOrderUntilClose
<1>6. ASSUME NEW k \in GrantSizes, HostGrant(k)
      PROVE  InOrderUntilClose'
  <2>1. Credit(k) \in Frames /\ Credit(k).kind # "data" /\ stdin' = Append(stdin, Credit(k)) /\ UNCHANGED hostSent
    BY <1>6 DEF HostGrant, Credit, Frames
  <2>2. DataAt' = DataAt /\ \A i \in DataAt : stdin'[i] = stdin[i]
    BY <2>1, DataAppended
  <2>3. {stdin'[i].seq : i \in DataAt'} = {stdin[i].seq : i \in DataAt}
    BY <2>2
  <2>4. QED
    BY <1>2, <1>3, <1>4, <2>1, <2>2, <2>3 DEF InOrderUntilClose
<1>7. QED
  BY <1>5, <1>6

LEMMA OrderStep ==
    ASSUME TypeOK, InOrderUntilClose, [Next]_vars
    PROVE  InOrderUntilClose'
<1>1. done => done'
  BY DEF Next, vars, SendCall, TrySend, Sender, SendTake, SendWait, SendClosed, EncodeOK, EncodeFails, Refund, notTx,
         ReadLoop, ReceiveCreditGrant, DeliverCall, DeliverEnqueue, DeliverDrop, Reader, RecvPayload, RecvEOF,
         GrantEncode, GrantCheck, CloseMark, CloseRest, CloseDone, CloseBroadcast, HostData, HostGrant, closeVars
<1>2. CASE done'
  BY <1>2 DEF InOrderUntilClose
<1>3. CASE ~done' /\ UNCHANGED OrderVars
  BY <1>3 DEF OrderVars, InOrderUntilClose, Taken, DataAt
<1>4. QED
  BY <1>1, <1>2, <1>3, OthersLeaveOrder, FramesMove, FramesTaken, FramesWritten

(* credit.go:270-297 - until Close, Recv returns every data frame of the host *)
(* once and in order, for any buffer, any window and any number of frames:    *)
(* those returned, buffered, held by deliverData and on the pipe are the      *)
(* frames 1 to hostSent.                                                      *)
THEOREM OrderSafety == Spec => []InOrderUntilClose
<1>1. Init => InOrderUntilClose
  <2> SUFFICES ASSUME Init PROVE InOrderUntilClose
    OBVIOUS
  <2>1. received = <<>> /\ recvCh = <<>> /\ readLoop = 0 /\ stdin = <<>> /\ hostSent = 0
    BY DEF Init
  <2>2. Taken = 0 /\ DataAt = {} /\ 1..0 = {}
    BY <2>1 DEF Taken, DataAt
  <2>3. QED
    BY <2>1, <2>2 DEF InOrderUntilClose
<1>2. TypeOK /\ InOrderUntilClose /\ [Next]_vars => InOrderUntilClose'
  BY OrderStep
<1>3. QED
  BY <1>1, <1>2, TypeCorrect, PTL DEF Spec
================================================================================
