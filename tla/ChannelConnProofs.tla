--------------------------- MODULE ChannelConnProofs ----------------------------
(***************************************************************************)
(* Proofs about ChannelConn for every payload size, every sizes of calls   *)
(* and every load.  The invariant has three independent parts: the         *)
(* deadlines, the read side and the write side.                            *)
(***************************************************************************)
EXTENDS ChannelConn, TLAPS

(* The channels of a deadline: all before the current one are closed, the   *)
(* current one is closed or about to be exactly when the deadline is due,   *)
(* and only a timer that has fired is about to close anything.              *)
Alarm(d) ==
    /\ firing[d] \subseteq {cancel[d]} /\ shut[d] \subseteq 1..cancel[d]
    /\ \A c \in 1..(cancel[d] - 1) : c \in shut[d]
    /\ firing[d] \cap shut[d] = {}
    /\ timer[d] = "armed" => cancel[d] \notin shut[d]
    /\ timer[d] # "fired" => firing[d] = {}
    /\ due[d] <=> cancel[d] \in shut[d] \cup firing[d]

Parked(d) ==
    /\ waitOn[d] <= cancel[d]
    /\ waitOn[d] \in shut[d] \cup firing[d] => sawDue[d]

DeadlineInv == \A d \in Deadlines : Alarm(d) /\ Parked(d)

(* Every byte that arrived was returned, waits in readBuf or is in the read *)
(* pump's hand, until Close lets the pump drop what it holds.               *)
ReadInv ==
    /\ readAt = to /\ from <= to
    /\ waitOn["read"] # 0 => readLen = 0
    /\ eof => rpump = "done" /\ readLen = 0
    /\ to + readLen <= arrived
    /\ rpump # "hand" => hand = 0
    /\ rpump = "done" => closed \/ ended
    /\ ~(rpump = "done" /\ closed) => arrived = to + readLen + hand

(* The pump has taken the request of the Write that awaits it, or of one    *)
(* that has returned; only a chunk the sink took is acknowledged.           *)
Underway ==
    IF writer = "await" /\ (ack = "ok" \/ (wpump = "reply" /\ result = "ok"))
    THEN Chunk ELSE 0

WriteInv ==
    /\ writer = "idle" => total = 0
    /\ writer = "await" /\ ack = "none" => wpump \in {"send", "reply"} /\ ~orphan
    /\ ack # "none" => writer = "await" /\ wpump \in {"idle", "done"}
    /\ wpump \in {"send", "reply"} /\ ~orphan => writer = "await" /\ chunk = Chunk
    /\ orphan => wpump \in {"send", "reply"} /\ writer # "await"
    /\ wpump = "reply" => result # "none"
    /\ counted + total + Underway <= sunk
    /\ sunk + (IF orphan /\ wpump = "send" THEN chunk ELSE 0)
         <= counted + total + MaxPayload * abandoned + Underway

Inv == TypeOK /\ DeadlineInv /\ ReadInv /\ WriteInv

-----------------------------------------------------------------------------
(* Type correctness.                                                        *)

LEMMA ChunkFits == ASSUME TypeOK PROVE Chunk \in 0..MaxPayload /\ Chunk <= left
  BY ConnAssumption DEF TypeOK, Chunk, AtMost

LEMMA TypeStep == ASSUME TypeOK, ReadInv, [Next]_vars PROVE TypeOK'
<1> USE ConnAssumption DEF Deadlines, Load
<1>1. ASSUME NEW d \in Deadlines, NEW when \in {"past", "zero", "future"}, Set(d, when) PROVE TypeOK'
  <2>1. Mint(d) \in Nat \ {0}
    BY DEF TypeOK, Mint
  <2>2. /\ cancel' = [cancel EXCEPT ![d] = Mint(d)]
        /\ shut' = shut \/ shut' = [shut EXCEPT ![d] = shut[d] \cup {Mint(d)}]
        /\ \E t \in {"none", "armed"} : timer' = [timer EXCEPT ![d] = t]
        /\ \E b \in BOOLEAN : due' = [due EXCEPT ![d] = b]
        /\ sawDue' = sawDue \/ sawDue' = [sawDue EXCEPT ![d] = sawDue[d] \/ waitOn[d] # 0]
    BY <1>1 DEF Set, Arm, NoteDue
  <2>3. cancel' \in [Deadlines -> Nat \ {0}] /\ timer' \in [Deadlines -> {"none", "armed", "fired"}]
    BY <2>1, <2>2 DEF TypeOK
  <2>4. shut' \in [Deadlines -> SUBSET Nat]
    <3>1. shut[d] \cup {Mint(d)} \in SUBSET Nat
      BY <2>1 DEF TypeOK
    <3>2. QED BY <2>2, <3>1 DEF TypeOK
  <2>5. due' \in [Deadlines -> BOOLEAN]
    BY <2>2 DEF TypeOK
  <2>6. sawDue' \in [Deadlines -> BOOLEAN]
    <3>1. (sawDue[d] \/ waitOn[d] # 0) \in BOOLEAN
      BY DEF TypeOK
    <3>2. QED BY <2>2, <3>1 DEF TypeOK
  <2>7. UNCHANGED <<load, firing, waitOn, sourceVars, readVars, ended, closed,
                    writeVars, sinkVars, handoffVars>>
    BY <1>1 DEF Set, Arm
  <2>8. QED
    BY <2>3, <2>4, <2>5, <2>6, <2>7 DEF TypeOK, sourceVars, readVars, writeVars,
      sinkVars, handoffVars
<1>2. ASSUME NEW d \in Deadlines, TimerFires(d) PROVE TypeOK'
    BY <1>2 DEF TypeOK, TimerFires, NoteDue, deadlineVars, selectVars,
      sourceVars, readVars, writeVars, sinkVars, handoffVars
<1>3. ASSUME NEW d \in Deadlines, CloseCancel(d) PROVE TypeOK'
    BY <1>3 DEF TypeOK, CloseCancel, deadlineVars, selectVars, sourceVars,
      readVars, writeVars, sinkVars, handoffVars
<1>4. ASSUME NEW n \in 1..MaxPayload, Recv(n) PROVE TypeOK'
    BY <1>4 DEF TypeOK, Recv, notRead, deadlineVars, selectVars, sourceVars,
      readVars, writeVars, sinkVars, handoffVars
<1>5. CASE RecvEOF
    BY <1>5 DEF TypeOK, RecvEOF, notRead, deadlineVars, selectVars,
      sourceVars, readVars, writeVars, sinkVars, handoffVars
<1>6. CASE ReadPumpQuits
    BY <1>6 DEF TypeOK, ReadPumpQuits, notRead, deadlineVars, selectVars,
      sourceVars, readVars, writeVars, sinkVars, handoffVars
<1>7. CASE ReadParks
    BY <1>7 DEF TypeOK, ReadParks, Park, notRead, deadlineVars, selectVars,
      sourceVars, readVars, writeVars, sinkVars, handoffVars
<1>8. ASSUME NEW size \in ReadSizes, ReadBuffered(size) PROVE TypeOK'
    BY <1>8 DEF TypeOK, ReadBuffered, CopyOut, AtMost, notRead, deadlineVars,
      selectVars, sourceVars, readVars, writeVars, sinkVars, handoffVars
<1>9. ASSUME NEW size \in ReadSizes, ReadTakes(size) PROVE TypeOK'
  <2>1. hand <= arrived /\ size \in Nat
    BY <1>9 DEF TypeOK, ReadInv, ReadTakes
  <2>2. readAt' \in Nat /\ readLen' \in Nat /\ from' \in Nat /\ to' \in Nat
    BY <1>9, <2>1 DEF TypeOK, ReadTakes, CopyOut, AtMost
  <2>3. rpump' \in {"recv", "hand", "done"} /\ hand' \in 0..MaxPayload /\ eof' \in BOOLEAN
    BY <1>9 DEF TypeOK, ReadTakes, CopyOut
  <2>4. waitOn' \in [Deadlines -> Nat] /\ sawDue' \in [Deadlines -> BOOLEAN]
    BY <1>9 DEF TypeOK, ReadTakes, Leave
  <2>5. QED
    BY <1>9, <2>2, <2>3, <2>4 DEF TypeOK, ReadTakes, notRead, deadlineVars,
      writeVars, sinkVars, handoffVars
<1>10. CASE ReadEOF
    BY <1>10 DEF TypeOK, ReadEOF, Leave, notRead, deadlineVars, selectVars,
      sourceVars, readVars, writeVars, sinkVars, handoffVars
<1>11. CASE ReadFails
    BY <1>11 DEF TypeOK, ReadFails, Leave, notRead, deadlineVars, selectVars,
      sourceVars, readVars, writeVars, sinkVars, handoffVars
<1>12. ASSUME NEW n \in WriteSizes, WriteCall(n) PROVE TypeOK'
    BY <1>12 DEF TypeOK, WriteCall, Park, notWrite, deadlineVars, selectVars,
      sourceVars, readVars, writeVars, sinkVars, handoffVars
<1>13. CASE HandOver
    BY <1>13 DEF TypeOK, HandOver, Chunk, AtMost, Park, notWrite,
      deadlineVars, selectVars, sourceVars, readVars, writeVars, sinkVars,
      handoffVars
<1>14. ASSUME NEW r \in {"ok", "err"}, SendReturns(r) PROVE TypeOK'
    BY <1>14 DEF TypeOK, SendReturns, notWrite, deadlineVars, selectVars,
      sourceVars, readVars, writeVars, sinkVars, handoffVars
<1>15. CASE Reply
  <2>1. ack' \in {"none", "ok", "err"}
    <3>1. CASE orphan
      BY <1>15, <3>1 DEF TypeOK, Reply
    <3>2. CASE ~orphan
      BY <1>15, <3>2 DEF TypeOK, Reply
    <3>3. QED BY <3>1, <3>2
  <2>2. /\ wpump' = "idle" /\ chunk' = 0 /\ result' = "none" /\ orphan' = FALSE
        /\ UNCHANGED <<sunk, writeVars, selectVars, notWrite>>
    BY <1>15 DEF Reply
  <2>3. /\ wpump' \in {"idle", "send", "reply", "done"} /\ chunk' \in 0..MaxPayload
        /\ result' \in {"none", "ok", "err"} /\ sunk' \in Nat
    BY <2>2 DEF TypeOK
  <2>4. orphan' \in BOOLEAN
    BY <2>2
  <2>5. QED
    BY <2>1, <2>2, <2>3, <2>4 DEF TypeOK, notWrite, deadlineVars, selectVars,
      sourceVars, readVars, writeVars
<1>16. CASE WritePumpQuits
    BY <1>16 DEF TypeOK, WritePumpQuits, notWrite, deadlineVars, selectVars,
      sourceVars, readVars, writeVars, sinkVars, handoffVars
<1>17. CASE ChunkDone
  <2>1. Chunk \in Nat /\ (left > Chunk => left - Chunk \in Nat)
    BY ChunkFits DEF TypeOK
  <2>2. writer' \in {"idle", "offer", "await"} /\ left' \in Nat /\ total' \in Nat
        /\ counted' \in Nat
    BY <1>17, <2>1 DEF TypeOK, ChunkDone, WriteReturns
  <2>3. waitOn' \in [Deadlines -> Nat] /\ sawDue' \in [Deadlines -> BOOLEAN]
    <3>1. Park("write") \/ Leave("write")
      BY <1>17 DEF ChunkDone, WriteReturns
    <3>2. CASE Park("write")
      BY <3>2 DEF TypeOK, Park
    <3>3. CASE Leave("write")
      BY <3>3 DEF TypeOK, Leave
    <3>4. QED BY <3>1, <3>2, <3>3
  <2>4. ack' = "none" /\ UNCHANGED <<orphan, written, abandoned, sinkVars, notWrite>>
    BY <1>17 DEF ChunkDone
  <2>5. QED
    BY <2>2, <2>3, <2>4 DEF TypeOK, notWrite, deadlineVars, sourceVars,
      readVars, sinkVars
<1>18. CASE ChunkFails
    BY <1>18 DEF TypeOK, ChunkFails, WriteReturns, Leave, notWrite,
      deadlineVars, selectVars, sourceVars, readVars, writeVars, sinkVars,
      handoffVars
<1>19. CASE OfferFails
    BY <1>19 DEF TypeOK, OfferFails, WriteReturns, Leave, notWrite,
      deadlineVars, selectVars, sourceVars, readVars, writeVars, sinkVars,
      handoffVars
<1>20. CASE AwaitFails
    BY <1>20 DEF TypeOK, AwaitFails, WriteReturns, Leave, notWrite,
      deadlineVars, selectVars, sourceVars, readVars, writeVars, sinkVars,
      handoffVars
<1>21. CASE Close
    BY <1>21 DEF TypeOK, Close, deadlineVars, selectVars, sourceVars,
      readVars, writeVars, sinkVars, handoffVars
<1>22. CASE CloseSource
    BY <1>22 DEF TypeOK, CloseSource, deadlineVars, selectVars, sourceVars,
      readVars, writeVars, sinkVars, handoffVars
<1>23. CASE UNCHANGED vars
  BY <1>23 DEF TypeOK, vars, deadlineVars, selectVars, sourceVars, readVars,
      writeVars, sinkVars, handoffVars
<1>24. QED BY <1>1, <1>2, <1>3, <1>4, <1>5, <1>6, <1>7, <1>8, <1>9, <1>10,
      <1>11, <1>12, <1>13, <1>14, <1>15, <1>16, <1>17, <1>18, <1>19, <1>20,
      <1>21, <1>22, <1>23 DEF Next, Leaving, Writing

-----------------------------------------------------------------------------
(* The deadlines.                                                           *)

(* An action that leaves the deadlines alone may enter or leave a select.   *)
LEMMA SelectKept ==
  ASSUME TypeOK, DeadlineInv, UNCHANGED deadlineVars, NEW e \in Deadlines,
         UNCHANGED selectVars \/ Park(e) \/ Leave(e)
  PROVE  DeadlineInv'
<1> SUFFICES ASSUME NEW d \in Deadlines PROVE Alarm(d)' /\ Parked(d)'
  BY DEF DeadlineInv
<1>1. Alarm(d) /\ Parked(d)
  BY DEF DeadlineInv
<1>2. Alarm(d)'
  BY <1>1 DEF Alarm, deadlineVars
<1>3. \/ waitOn'[d] = waitOn[d] /\ sawDue'[d] = sawDue[d]
      \/ waitOn'[d] = cancel[d] /\ sawDue'[d] = due[d]
      \/ waitOn'[d] = 0 /\ sawDue'[d] = FALSE
  BY DEF Park, Leave, selectVars, TypeOK
<1>4. 0 \notin shut[d] \cup firing[d] /\ cancel[d] \in Nat \ {0}
  BY <1>1 DEF Alarm, TypeOK
<1>5. CASE waitOn'[d] = waitOn[d] /\ sawDue'[d] = sawDue[d]
  BY <1>1, <1>2, <1>5 DEF Parked, deadlineVars
<1>6. CASE waitOn'[d] = cancel[d] /\ sawDue'[d] = due[d]
  BY <1>1, <1>2, <1>4, <1>6 DEF Alarm, Parked, deadlineVars
<1>7. CASE waitOn'[d] = 0 /\ sawDue'[d] = FALSE
  BY <1>2, <1>4, <1>7 DEF Parked, deadlineVars
<1>8. QED BY <1>3, <1>5, <1>6, <1>7

(* A deadline that is set: no timer's goroutine is left to close anything,  *)
(* and the channel in use afterwards is open, unless the time has passed.   *)
LEMMA SetKept ==
  ASSUME TypeOK, NEW d \in Deadlines, Alarm(d), Parked(d),
         NEW when \in {"past", "zero", "future"}, Set(d, when)
  PROVE  Alarm(d)' /\ Parked(d)'
<1>1. firing[d] = {}
  BY DEF Alarm, Set
<1>2. PICK m : m = Mint(d)
  OBVIOUS
<1>3. /\ cancel[d] \in Nat \ {0} /\ m \in Nat \ {0} /\ m \notin shut[d]
      /\ cancel[d] <= m /\ m <= cancel[d] + 1
      /\ \A c \in 1..(m - 1) : c \in shut[d]
  BY <1>2 DEF TypeOK, Alarm, Mint
<1>4. /\ cancel'[d] = m /\ firing'[d] = {} /\ waitOn'[d] = waitOn[d]
      /\ waitOn[d] \in Nat /\ timer'[d] # "fired"
  BY <1>1, <1>2 DEF Set, Arm, TypeOK
<1>5. CASE when = "past"
  <2>1. /\ shut'[d] = shut[d] \cup {m} /\ due'[d] = TRUE /\ timer'[d] = "none"
        /\ sawDue'[d] = (sawDue[d] \/ waitOn[d] # 0)
    <3>1. /\ shut' = [shut EXCEPT ![d] = shut[d] \cup {m}]
          /\ due' = [due EXCEPT ![d] = TRUE] /\ timer' = [timer EXCEPT ![d] = "none"]
          /\ sawDue' = [sawDue EXCEPT ![d] = sawDue[d] \/ waitOn[d] # 0]
      BY <1>2, <1>5 DEF Set, Arm, NoteDue
    <3>2. QED BY <3>1 DEF TypeOK
  <2>2. Alarm(d)'
    BY <1>3, <1>4, <2>1 DEF Alarm
  <2>3. sawDue'[d] \/ waitOn'[d] = 0
    BY <1>4, <2>1
  <2>4. 0 \notin shut'[d] \cup firing'[d]
    BY <1>3, <1>4, <2>1 DEF Alarm
  <2>5. Parked(d)'
    BY <1>3, <1>4, <2>3, <2>4 DEF Parked
  <2>6. QED BY <2>2, <2>5
<1>6. CASE when \in {"zero", "future"}
  <2>1. shut'[d] = shut[d] /\ due'[d] = FALSE /\ sawDue'[d] = sawDue[d]
    BY <1>6 DEF Set, Arm, TypeOK
  <2>2. Alarm(d)'
    BY <1>3, <1>4, <2>1 DEF Alarm
  <2>3. Parked(d)'
    BY <1>1, <1>3, <1>4, <2>1 DEF Parked
  <2>4. QED BY <2>2, <2>3
<1>7. QED BY <1>5, <1>6

LEMMA FireKept ==
  ASSUME TypeOK, NEW d \in Deadlines, Alarm(d), Parked(d), TimerFires(d)
  PROVE  Alarm(d)' /\ Parked(d)'
<1>1. /\ cancel[d] \in Nat \ {0} /\ firing[d] = {} /\ cancel[d] \notin shut[d]
      /\ waitOn[d] \in Nat
  BY DEF TypeOK, Alarm, TimerFires
<1>2. /\ cancel'[d] = cancel[d] /\ shut'[d] = shut[d] /\ waitOn'[d] = waitOn[d]
      /\ firing'[d] = {cancel[d]} /\ timer'[d] = "fired" /\ due'[d] = TRUE
      /\ sawDue'[d] = (sawDue[d] \/ waitOn[d] # 0)
  BY <1>1 DEF TypeOK, TimerFires, NoteDue
<1>3. Alarm(d)'
  BY <1>1, <1>2 DEF Alarm
<1>4. Parked(d)'
  BY <1>1, <1>2 DEF Alarm, Parked
<1>5. QED BY <1>3, <1>4

LEMMA CloseKept ==
  ASSUME TypeOK, NEW d \in Deadlines, Alarm(d), Parked(d), CloseCancel(d)
  PROVE  Alarm(d)' /\ Parked(d)'
<1>1. /\ cancel[d] \in Nat \ {0} /\ firing[d] = {cancel[d]}
      /\ timer[d] = "fired" /\ due[d]
  BY DEF TypeOK, Alarm, CloseCancel
<1>2. /\ cancel'[d] = cancel[d] /\ shut'[d] = shut[d] \cup {cancel[d]}
      /\ firing'[d] = {} /\ timer'[d] = "fired" /\ due'[d] = due[d]
      /\ waitOn'[d] = waitOn[d] /\ sawDue'[d] = sawDue[d]
  BY <1>1 DEF TypeOK, CloseCancel, selectVars
<1>3. Alarm(d)'
  BY <1>1, <1>2 DEF Alarm
<1>4. Parked(d)'
  BY <1>1, <1>2 DEF Parked
<1>5. QED BY <1>3, <1>4

(* What happens to one deadline does not touch the other. *)
LEMMA OtherKept ==
  ASSUME TypeOK, NEW d \in Deadlines, NEW e \in Deadlines, e # d, Alarm(e), Parked(e),
         (\E when \in {"past", "zero", "future"} : Set(d, when))
           \/ TimerFires(d) \/ CloseCancel(d)
  PROVE  Alarm(e)' /\ Parked(e)'
<1>1. /\ cancel'[e] = cancel[e] /\ shut'[e] = shut[e] /\ firing'[e] = firing[e]
      /\ timer'[e] = timer[e] /\ due'[e] = due[e]
      /\ waitOn'[e] = waitOn[e] /\ sawDue'[e] = sawDue[e]
  BY DEF TypeOK, Set, Arm, NoteDue, TimerFires, CloseCancel, selectVars
<1>2. QED BY <1>1 DEF Alarm, Parked

LEMMA DeadlineStep == ASSUME TypeOK, DeadlineInv, [Next]_vars PROVE DeadlineInv'
<1> USE DEF Deadlines
<1>1. ASSUME NEW d \in Deadlines, NEW when \in {"past", "zero", "future"}, Set(d, when)
      PROVE  DeadlineInv'
  BY <1>1, SetKept, OtherKept DEF DeadlineInv
<1>2. ASSUME NEW d \in Deadlines, TimerFires(d) PROVE DeadlineInv'
  BY <1>2, FireKept, OtherKept DEF DeadlineInv
<1>3. ASSUME NEW d \in Deadlines, CloseCancel(d) PROVE DeadlineInv'
  BY <1>3, CloseKept, OtherKept DEF DeadlineInv
<1>4. ASSUME NEW n \in 1..MaxPayload, Recv(n) PROVE DeadlineInv'
  BY <1>4, SelectKept DEF Recv, notRead
<1>5. ASSUME NEW size \in ReadSizes, ReadBuffered(size) PROVE DeadlineInv'
  BY <1>5, SelectKept DEF ReadBuffered, notRead
<1>6. ASSUME NEW size \in ReadSizes, ReadTakes(size) PROVE DeadlineInv'
  BY <1>6, SelectKept DEF ReadTakes, notRead
<1>7. ASSUME NEW n \in WriteSizes, WriteCall(n) PROVE DeadlineInv'
  BY <1>7, SelectKept DEF WriteCall, notWrite
<1>8. ASSUME NEW r \in {"ok", "err"}, SendReturns(r) PROVE DeadlineInv'
  BY <1>8, SelectKept DEF SendReturns, notWrite
<1>9. CASE RecvEOF
  BY <1>9, SelectKept DEF RecvEOF, notRead
<1>10. CASE ReadPumpQuits
  BY <1>10, SelectKept DEF ReadPumpQuits, notRead
<1>11. CASE ReadParks
  BY <1>11, SelectKept DEF ReadParks, notRead
<1>12. CASE ReadEOF
  BY <1>12, SelectKept DEF ReadEOF, notRead
<1>13. CASE ReadFails
  BY <1>13, SelectKept DEF ReadFails, notRead
<1>14. CASE HandOver
  BY <1>14, SelectKept DEF HandOver, notWrite
<1>15. CASE Reply
  BY <1>15, SelectKept DEF Reply, notWrite
<1>16. CASE WritePumpQuits
  BY <1>16, SelectKept DEF WritePumpQuits, notWrite
<1>17. CASE ChunkDone
  BY <1>17, SelectKept DEF ChunkDone, WriteReturns, notWrite
<1>18. CASE ChunkFails
  BY <1>18, SelectKept DEF ChunkFails, WriteReturns, notWrite
<1>19. CASE OfferFails
  BY <1>19, SelectKept DEF OfferFails, WriteReturns, notWrite
<1>20. CASE AwaitFails
  BY <1>20, SelectKept DEF AwaitFails, WriteReturns, notWrite
<1>21. CASE Close
  BY <1>21, SelectKept DEF Close
<1>22. CASE CloseSource
  BY <1>22, SelectKept DEF CloseSource
<1>23. CASE UNCHANGED vars
  BY <1>23, SelectKept DEF vars
<1>24. QED BY <1>1, <1>2, <1>3, <1>4, <1>5, <1>6, <1>7, <1>8, <1>9, <1>10,
      <1>11, <1>12, <1>13, <1>14, <1>15, <1>16, <1>17, <1>18, <1>19, <1>20,
      <1>21, <1>22, <1>23 DEF Next, Leaving, Writing

-----------------------------------------------------------------------------
(* The read side.                                                           *)

LEMMA ReadKept ==
  ASSUME ReadInv, UNCHANGED <<sourceVars, readVars, ended, closed>>,
         waitOn'["read"] = waitOn["read"]
  PROVE  ReadInv'
BY DEF ReadInv, sourceVars, readVars

(* What a Write does to its own select leaves the reader's alone. *)
LEMMA WriterOnly ==
  ASSUME TypeOK, Park("write") \/ Leave("write") \/ UNCHANGED selectVars
  PROVE  waitOn'["read"] = waitOn["read"]
BY DEF TypeOK, Park, Leave, selectVars, Deadlines

LEMMA ReadStep == ASSUME TypeOK, ReadInv, [Next]_vars PROVE ReadInv'
<1> USE DEF Deadlines
<1>1. ASSUME NEW d \in Deadlines, NEW when \in {"past", "zero", "future"}, Set(d, when)
      PROVE  ReadInv'
  BY <1>1, ReadKept DEF Set, Arm
<1>2. ASSUME NEW d \in Deadlines, TimerFires(d) PROVE ReadInv'
  BY <1>2, ReadKept DEF TimerFires
<1>3. ASSUME NEW d \in Deadlines, CloseCancel(d) PROVE ReadInv'
  BY <1>3, ReadKept DEF CloseCancel, selectVars
<1>4. ASSUME NEW n \in 1..MaxPayload, Recv(n) PROVE ReadInv'
  BY <1>4, ConnAssumption DEF ReadInv, TypeOK, Recv, notRead, readVars, selectVars
<1>5. CASE RecvEOF
  BY <1>5 DEF ReadInv, RecvEOF, notRead, readVars, selectVars
<1>6. CASE ReadPumpQuits
  BY <1>6 DEF ReadInv, TypeOK, ReadPumpQuits, notRead, readVars, selectVars
<1>7. CASE ReadParks
  BY <1>7 DEF ReadInv, TypeOK, ReadParks, Park, notRead, sourceVars, readVars
<1>8. ASSUME NEW size \in ReadSizes, ReadBuffered(size) PROVE ReadInv'
  <2>1. PICK n \in Nat : n = AtMost(size, readLen) /\ n <= readLen
    BY ConnAssumption DEF AtMost, TypeOK
  <2>2. readAt' = readAt + n /\ readLen' = readLen - n /\ from' = readAt /\ to' = readAt + n
    BY <1>8, <2>1 DEF ReadBuffered, CopyOut
  <2>3. ~eof /\ eof' = eof /\ waitOn'["read"] = 0
    BY <1>8 DEF ReadBuffered, CopyOut, ReadInv, selectVars, TypeOK
  <2>4. QED
    BY <1>8, <2>1, <2>2, <2>3 DEF ReadInv, TypeOK, ReadBuffered, notRead, sourceVars
<1>9. ASSUME NEW size \in ReadSizes, ReadTakes(size) PROVE ReadInv'
  <2>1. PICK n \in Nat : n = AtMost(size, hand) /\ n <= hand
    BY ConnAssumption DEF AtMost, TypeOK
  <2>2. readLen = 0 /\ arrived - hand = to /\ ~eof
    BY <1>9 DEF ReadTakes, ReadInv, TypeOK
  <2>3. readAt' = to + n /\ readLen' = hand - n /\ from' = to /\ to' = to + n /\ eof' = eof
    BY <1>9, <2>1, <2>2 DEF ReadTakes, CopyOut
  <2>4. waitOn'["read"] = 0 /\ rpump' = "recv" /\ hand' = 0 /\ arrived' = arrived
    BY <1>9 DEF ReadTakes, Leave, TypeOK
  <2>5. QED
    BY <2>1, <2>2, <2>3, <2>4 DEF ReadInv, TypeOK
<1>10. CASE ReadEOF
  BY <1>10 DEF ReadInv, TypeOK, ReadEOF, Leave, notRead, sourceVars
<1>11. CASE ReadFails
  BY <1>11 DEF ReadInv, TypeOK, ReadFails, Leave, notRead, sourceVars, readVars
<1>12. ASSUME NEW n \in WriteSizes, WriteCall(n) PROVE ReadInv'
  BY <1>12, ReadKept, WriterOnly DEF WriteCall, notWrite
<1>13. CASE HandOver
  BY <1>13, ReadKept, WriterOnly DEF HandOver, notWrite
<1>14. ASSUME NEW r \in {"ok", "err"}, SendReturns(r) PROVE ReadInv'
  BY <1>14, ReadKept, WriterOnly DEF SendReturns, notWrite
<1>15. CASE Reply
  BY <1>15, ReadKept, WriterOnly DEF Reply, notWrite
<1>16. CASE WritePumpQuits
  BY <1>16, ReadKept, WriterOnly DEF WritePumpQuits, notWrite
<1>17. CASE ChunkDone
  BY <1>17, ReadKept, WriterOnly DEF ChunkDone, WriteReturns, notWrite
<1>18. CASE ChunkFails
  BY <1>18, ReadKept, WriterOnly DEF ChunkFails, WriteReturns, notWrite
<1>19. CASE OfferFails
  BY <1>19, ReadKept, WriterOnly DEF OfferFails, WriteReturns, notWrite
<1>20. CASE AwaitFails
  BY <1>20, ReadKept, WriterOnly DEF AwaitFails, WriteReturns, notWrite
<1>21. CASE Close
  BY <1>21 DEF ReadInv, Close, sourceVars, readVars, selectVars
<1>22. CASE CloseSource
  BY <1>22 DEF ReadInv, CloseSource, sourceVars, readVars, selectVars
<1>23. CASE UNCHANGED vars
  BY <1>23, ReadKept, WriterOnly DEF vars
<1>24. QED BY <1>1, <1>2, <1>3, <1>4, <1>5, <1>6, <1>7, <1>8, <1>9, <1>10,
      <1>11, <1>12, <1>13, <1>14, <1>15, <1>16, <1>17, <1>18, <1>19, <1>20,
      <1>21, <1>22, <1>23 DEF Next, Leaving, Writing

-----------------------------------------------------------------------------
(* The write side.                                                          *)

LEMMA WriteKept ==
  ASSUME WriteInv, UNCHANGED <<writeVars, sinkVars, handoffVars>>
  PROVE  WriteInv'
BY DEF WriteInv, Underway, Chunk, AtMost, writeVars, sinkVars, handoffVars

LEMMA OneMore ==
  ASSUME NEW n \in Nat PROVE MaxPayload * (n + 1) = MaxPayload * n + MaxPayload /\ MaxPayload * n \in Nat
BY ConnAssumption

LEMMA WriteStep == ASSUME TypeOK, WriteInv, [Next]_vars PROVE WriteInv'
<1>0. /\ Chunk \in Nat /\ Chunk <= MaxPayload /\ Chunk <= left /\ MaxPayload * abandoned \in Nat
      /\ MaxPayload \in Nat /\ Underway \in Nat
  BY ChunkFits, OneMore, ConnAssumption DEF TypeOK, Underway
<1>1. ASSUME NEW d \in Deadlines, NEW when \in {"past", "zero", "future"}, Set(d, when)
      PROVE  WriteInv'
  BY <1>1, WriteKept DEF Set, Arm
<1>2. ASSUME NEW d \in Deadlines, TimerFires(d) PROVE WriteInv'
  BY <1>2, WriteKept DEF TimerFires
<1>3. ASSUME NEW d \in Deadlines, CloseCancel(d) PROVE WriteInv'
  BY <1>3, WriteKept DEF CloseCancel
<1>4. ASSUME NEW n \in 1..MaxPayload, Recv(n) PROVE WriteInv'
  BY <1>4, WriteKept DEF Recv, notRead
<1>5. CASE RecvEOF
  BY <1>5, WriteKept DEF RecvEOF, notRead
<1>6. CASE ReadPumpQuits
  BY <1>6, WriteKept DEF ReadPumpQuits, notRead
<1>7. CASE ReadParks
  BY <1>7, WriteKept DEF ReadParks, notRead
<1>8. ASSUME NEW size \in ReadSizes, ReadBuffered(size) PROVE WriteInv'
  BY <1>8, WriteKept DEF ReadBuffered, notRead
<1>9. ASSUME NEW size \in ReadSizes, ReadTakes(size) PROVE WriteInv'
  BY <1>9, WriteKept DEF ReadTakes, notRead
<1>10. CASE ReadEOF
  BY <1>10, WriteKept DEF ReadEOF, notRead
<1>11. CASE ReadFails
  BY <1>11, WriteKept DEF ReadFails, notRead
<1>12. ASSUME NEW n \in WriteSizes, WriteCall(n) PROVE WriteInv'
  <2>1. writer' = "offer" /\ Underway = 0 /\ Underway' = 0
    BY <1>12 DEF WriteCall, Underway
  <2>2. QED BY <1>12, <2>1 DEF WriteInv, WriteCall, sinkVars, handoffVars
<1>13. CASE HandOver
  <2>1. /\ Chunk' = Chunk /\ chunk' = Chunk /\ wpump' = "send" /\ writer' = "await"
        /\ ack = "none" /\ ~orphan
    BY <1>13 DEF HandOver, Chunk, WriteInv
  <2>2. Underway = 0 /\ Underway' = 0
    BY <1>13, <2>1 DEF HandOver, Underway, handoffVars
  <2>3. QED BY <1>13, <2>1, <2>2 DEF WriteInv, HandOver, handoffVars
<1>14. ASSUME NEW r \in {"ok", "err"}, SendReturns(r) PROVE WriteInv'
  <2>1. /\ UNCHANGED <<writer, total, counted, abandoned, ack, orphan, chunk, left>>
        /\ wpump = "send" /\ wpump' = "reply" /\ result' = r
        /\ sunk' = IF r = "ok" THEN sunk + chunk ELSE sunk
        /\ Chunk' = Chunk /\ chunk \in Nat /\ ack = "none"
    BY <1>14 DEF SendReturns, writeVars, handoffVars, Chunk, TypeOK, WriteInv
  <2>2. Underway = 0
    BY <2>1 DEF Underway
  <2>3. CASE orphan
    <3>1. writer # "await" /\ Underway' = 0
      BY <2>1, <2>3 DEF WriteInv, Underway
    <3>2. QED BY <1>0, <2>1, <2>2, <2>3, <3>1 DEF WriteInv, TypeOK
  <2>4. CASE ~orphan
    <3>1. writer = "await" /\ chunk = Chunk
      BY <2>1, <2>4 DEF WriteInv
    <3>2. Underway' = IF r = "ok" THEN Chunk ELSE 0
      BY <2>1, <3>1 DEF Underway
    <3>3. QED BY <1>0, <2>1, <2>2, <2>4, <3>1, <3>2 DEF WriteInv, TypeOK
  <2>5. QED BY <2>3, <2>4
<1>15. CASE Reply
  <2>1. /\ UNCHANGED <<writer, total, counted, abandoned, left, sunk>>
        /\ wpump = "reply" /\ wpump' = "idle" /\ orphan' = FALSE /\ ack = "none"
        /\ result # "none" /\ Chunk' = Chunk
    BY <1>15 DEF Reply, writeVars, WriteInv, Chunk
  <2>2. CASE orphan
    <3>1. writer # "await" /\ ack' = "none" /\ Underway = 0 /\ Underway' = 0
      BY <1>15, <2>1, <2>2 DEF Reply, WriteInv, Underway
    <3>2. QED BY <1>0, <2>1, <2>2, <3>1 DEF WriteInv, TypeOK
  <2>3. CASE ~orphan
    <3>1. writer = "await" /\ ack' = result
      BY <1>15, <2>1, <2>3 DEF Reply, WriteInv
    <3>2. Underway' = Underway
      BY <2>1, <3>1 DEF Underway
    <3>3. QED BY <1>0, <2>1, <2>3, <3>1, <3>2 DEF WriteInv, TypeOK
  <2>4. QED BY <2>2, <2>3
<1>16. CASE WritePumpQuits
  <2>1. Underway' = Underway /\ Chunk' = Chunk
    BY <1>16 DEF WritePumpQuits, Underway, Chunk, writeVars, handoffVars
  <2>2. QED BY <1>16, <2>1 DEF WriteInv, WritePumpQuits, writeVars, handoffVars
<1>17. CASE ChunkDone
  <2>1. /\ UNCHANGED <<orphan, abandoned, wpump, chunk, result, sunk>>
        /\ ack' = "none" /\ wpump \in {"idle", "done"} /\ ~orphan
        /\ Underway = Chunk /\ writer' # "await"
    BY <1>17 DEF ChunkDone, WriteReturns, sinkVars, WriteInv, Underway
  <2>2. Underway' = 0 /\ counted' + total' = counted + total + Chunk
    BY <1>0, <1>17, <2>1 DEF ChunkDone, WriteReturns, Underway, TypeOK
  <2>3. writer' = "idle" => total' = 0
    BY <1>17 DEF ChunkDone, WriteReturns
  <2>4. QED BY <1>0, <2>1, <2>2, <2>3 DEF WriteInv, TypeOK
<1>18. CASE ChunkFails
  <2>1. /\ UNCHANGED <<orphan, abandoned, wpump, chunk, result, sunk>>
        /\ ack' = "none" /\ wpump \in {"idle", "done"} /\ ~orphan
        /\ Underway = 0 /\ writer' = "idle"
    BY <1>18 DEF ChunkFails, WriteReturns, sinkVars, WriteInv, Underway
  <2>2. Underway' = 0 /\ counted' = counted + total /\ total' = 0
    BY <1>18, <2>1 DEF ChunkFails, WriteReturns, Underway
  <2>3. QED BY <1>0, <2>1, <2>2 DEF WriteInv, TypeOK
<1>19. CASE OfferFails
  <2>1. /\ UNCHANGED <<orphan, ack, abandoned, wpump, chunk, result, sunk>>
        /\ ack = "none" /\ Underway = 0 /\ writer = "offer" /\ writer' = "idle"
    BY <1>19 DEF OfferFails, WriteReturns, sinkVars, handoffVars, WriteInv, Underway
  <2>2. Underway' = 0 /\ counted' = counted + total /\ total' = 0
    BY <1>19, <2>1 DEF OfferFails, WriteReturns, Underway
  <2>3. QED BY <1>0, <2>1, <2>2 DEF WriteInv, TypeOK
<1>20. CASE AwaitFails
  <2>1. /\ UNCHANGED <<wpump, chunk, result, sunk>> /\ chunk \in Nat
        /\ ack' = "none" /\ writer = "await" /\ writer' = "idle" /\ ~orphan
        /\ orphan' = (wpump \in {"send", "reply"}) /\ abandoned' = abandoned + 1
    BY <1>20 DEF AwaitFails, WriteReturns, sinkVars, WriteInv, TypeOK
  <2>2. Underway' = 0 /\ counted' = counted + total /\ total' = 0
    BY <1>20, <2>1 DEF AwaitFails, WriteReturns, Underway
  <2>3. MaxPayload * abandoned' = MaxPayload * abandoned + MaxPayload
    BY <2>1, OneMore DEF TypeOK
  <2>4. wpump = "send" => Underway = 0 /\ chunk <= MaxPayload
    BY <1>0, <2>1 DEF Underway, WriteInv
  <2>5. Underway <= MaxPayload
    BY <1>0 DEF Underway
  <2>6. sunk' + (IF orphan' /\ wpump' = "send" THEN chunk' ELSE 0)
          <= counted' + total' + MaxPayload * abandoned' + Underway'
    <3>1. sunk <= counted + total + MaxPayload * abandoned + Underway
      BY <1>0, <2>1 DEF WriteInv, TypeOK
    <3>2. (IF orphan' /\ wpump' = "send" THEN chunk' ELSE 0) + Underway <= MaxPayload
      <4>1. CASE wpump = "send"
        BY <1>0, <2>1, <2>4, <4>1
      <4>2. CASE wpump # "send"
        BY <1>0, <2>1, <2>5, <4>2
      <4>3. QED BY <4>1, <4>2
    <3>3. PICK k \in Nat : k = IF orphan' /\ wpump' = "send" THEN chunk' ELSE 0
      BY <2>1
    <3>4. /\ sunk' = sunk /\ sunk \in Nat /\ counted \in Nat /\ total \in Nat
          /\ MaxPayload * abandoned \in Nat /\ MaxPayload \in Nat /\ Underway \in Nat
      BY <1>0, <2>1 DEF TypeOK
    <3>5. k + Underway <= MaxPayload
      BY <3>2, <3>3
    <3>6. sunk + k <= (counted + total) + 0 + (MaxPayload * abandoned + MaxPayload) + 0
      BY <3>1, <3>4, <3>5
    <3>7. QED BY <2>2, <2>3, <3>3, <3>4, <3>6
  <2>7. counted' + total' + Underway' <= sunk'
    BY <1>0, <2>1, <2>2 DEF WriteInv, TypeOK
  <2>8. QED BY <2>1, <2>2, <2>6, <2>7 DEF WriteInv
<1>21. CASE Close
  BY <1>21, WriteKept DEF Close
<1>22. CASE CloseSource
  BY <1>22, WriteKept DEF CloseSource
<1>23. CASE UNCHANGED vars
  BY <1>23, WriteKept DEF vars
<1>24. QED BY <1>1, <1>2, <1>3, <1>4, <1>5, <1>6, <1>7, <1>8, <1>9, <1>10,
      <1>11, <1>12, <1>13, <1>14, <1>15, <1>16, <1>17, <1>18, <1>19, <1>20,
      <1>21, <1>22, <1>23 DEF Next, Leaving, Writing

-----------------------------------------------------------------------------
(* The theorems.                                                            *)

LEMMA InvInit == ASSUME Init PROVE Inv
<1>1. TypeOK
  <2>1. /\ cancel \in [Deadlines -> Nat \ {0}] /\ waitOn \in [Deadlines -> Nat]
        /\ timer \in [Deadlines -> {"none", "armed", "fired"}]
    BY DEF Init
  <2>2. shut \in [Deadlines -> SUBSET Nat] /\ firing \in [Deadlines -> SUBSET Nat]
    BY DEF Init
  <2>3. due \in [Deadlines -> BOOLEAN] /\ sawDue \in [Deadlines -> BOOLEAN]
    BY DEF Init
  <2>4. hand \in 0..MaxPayload /\ chunk \in 0..MaxPayload
    BY ConnAssumption DEF Init
  <2>5. QED BY <2>1, <2>2, <2>3, <2>4 DEF Init, TypeOK
<1>2. DeadlineInv
  <2>1. SUFFICES ASSUME NEW d \in Deadlines PROVE Alarm(d) /\ Parked(d)
    BY DEF DeadlineInv
  <2>2. /\ cancel[d] = 1 /\ shut[d] = {} /\ firing[d] = {} /\ timer[d] = "none"
        /\ due[d] = FALSE /\ waitOn[d] = 0
    BY DEF Init
  <2>3. Alarm(d)
    BY <2>2 DEF Alarm
  <2>4. Parked(d)
    BY <2>2 DEF Parked
  <2>5. QED BY <2>3, <2>4
<1>3. ReadInv
  BY DEF Init, ReadInv, Deadlines
<1>4. WriteInv
  <2>1. MaxPayload * 0 = 0
    BY ConnAssumption
  <2>2. Underway = 0
    BY DEF Init, Underway
  <2>3. QED BY <2>1, <2>2 DEF Init, WriteInv
<1>5. QED BY <1>1, <1>2, <1>3, <1>4 DEF Inv

LEMMA InvStep == ASSUME Inv, [Next]_vars PROVE Inv'
BY TypeStep, DeadlineStep, ReadStep, WriteStep DEF Inv

(* The deadlines, the reads and the writes of one channel keep the invariant *)
(* that the theorems below are drawn from, whatever is called and fires.     *)
THEOREM Invariant == Spec => []Inv
<1>1. Init => Inv
  BY InvInit
<1>2. Inv /\ [Next]_vars => Inv'
  BY InvStep
<1>3. QED BY <1>1, <1>2, PTL DEF Spec

(* Every variable keeps to its values. *)
THEOREM TypeCorrect == Spec => []TypeOK
<1>1. Inv => TypeOK
  BY DEF Inv
<1>2. QED BY <1>1, Invariant, PTL

(* A parked caller times out on a deadline that has passed and on no other, *)
(* for any number of set calls racing with the timers they replace.         *)
THEOREM DeadlinesReachParked == Spec => []TimeoutsExact
<1>1. ASSUME Inv, NEW d \in Deadlines, waitOn[d] # 0, due[d]
      PROVE  waitOn[d] \in shut[d] \cup firing[d]
  <2>1. Alarm(d) /\ Parked(d) /\ waitOn[d] \in Nat /\ cancel[d] \in Nat \ {0}
    BY <1>1 DEF Inv, DeadlineInv, TypeOK
  <2>2. CASE waitOn[d] = cancel[d]
    BY <1>1, <2>1, <2>2 DEF Alarm
  <2>3. CASE waitOn[d] # cancel[d]
    <3>1. waitOn[d] \in 1..(cancel[d] - 1)
      BY <1>1, <2>1, <2>3 DEF Parked
    <3>2. QED BY <2>1, <3>1 DEF Alarm
  <2>4. QED BY <2>2, <2>3
<1>2. ASSUME Inv, NEW d \in Deadlines, waitOn[d] \in shut[d] \cup firing[d]
      PROVE  sawDue[d]
  BY <1>2 DEF Inv, DeadlineInv, Parked
<1>3. Inv => TimeoutsExact
  BY <1>1, <1>2 DEF TimeoutsExact
<1>4. QED BY <1>3, Invariant, PTL

(* set and a timer never both close one channel, which would panic. *)
THEOREM ClosedOnce == Spec => []NoDoubleClose
<1>1. Inv => NoDoubleClose
  BY DEF Inv, DeadlineInv, Alarm, NoDoubleClose
<1>2. QED BY <1>1, Invariant, PTL

(* Write's count is not exact (channel.go:153-155 says it is, and TLC finds  *)
(* the chunk it misses), but what it misses is at most one chunk for each    *)
(* Write that gave up waiting: channel.go:172-182 gives up once a call.      *)
OneChunkMissed ==
    sunk <= counted + total + MaxPayload * (abandoned + IF writer = "await" THEN 1 ELSE 0)

THEOREM CountLag == Spec => []OneChunkMissed
<1>1. ASSUME Inv PROVE OneChunkMissed
  <2>1. /\ sunk \in Nat /\ counted \in Nat /\ total \in Nat /\ chunk \in Nat /\ abandoned \in Nat
        /\ Chunk <= MaxPayload /\ Chunk \in Nat /\ MaxPayload \in Nat
    BY <1>1, ChunkFits, ConnAssumption DEF Inv, TypeOK
  <2>2. MaxPayload * abandoned \in Nat /\ MaxPayload * (abandoned + 1) = MaxPayload * abandoned + MaxPayload
    BY <2>1, OneMore
  <2>3. sunk <= counted + total + MaxPayload * abandoned + Underway /\ Underway \in Nat
    BY <1>1, <2>1, <2>2 DEF Inv, WriteInv, Underway
  <2>4. CASE writer = "await"
    BY <2>1, <2>2, <2>3, <2>4 DEF OneChunkMissed, Underway
  <2>5. CASE writer # "await"
    <3>1. MaxPayload * (abandoned + 0) = MaxPayload * abandoned /\ Underway = 0
      BY <2>1, <2>5 DEF Underway
    <3>2. QED BY <2>1, <2>2, <2>3, <2>5, <3>1 DEF OneChunkMissed
  <2>6. QED BY <2>4, <2>5
<1>2. Inv => OneChunkMissed
  BY <1>1
<1>3. QED BY <1>2, Invariant, PTL

-----------------------------------------------------------------------------
(* The byte stream.                                                         *)

StreamStep == [Stream!Next]_(Stream!streamVars)

(* A step that touches none of the stream's variables stutters. *)
LEMMA Stutter ==
  ASSUME UNCHANGED <<arrived, from, to, eof, ended, closed, sunk>>,
         counted' + total' = counted + total
  PROVE  StreamStep
BY DEF StreamStep, Stream!streamVars

LEMMA ReadReturns ==
  ASSUME Inv, ~eof, UNCHANGED <<arrived, ended, closed, sunk, counted, total, eof>>,
         from' = to, to' \in to..arrived
  PROVE  StreamStep
BY DEF StreamStep, Stream!Next, Stream!Return

LEMMA EndIsReached ==
  ASSUME Inv, ReadEOF
  PROVE  StreamStep
<1>1. closed \/ (ended /\ to = arrived)
  BY DEF Inv, ReadInv, TypeOK, ReadEOF
<1>2. eof' = TRUE /\ UNCHANGED <<arrived, from, to, ended, closed, sunk, counted, total>>
  BY DEF ReadEOF, sourceVars, notRead, writeVars, sinkVars
<1>3. Stream!EndOfFile
  BY <1>1, <1>2 DEF Stream!EndOfFile
<1>4. QED BY <1>3 DEF StreamStep, Stream!Next

LEMMA CountIsCovered ==
  ASSUME Inv, ChunkDone
  PROVE  StreamStep
<1>1. /\ sunk \in Nat /\ counted \in Nat /\ total \in Nat /\ Chunk \in Nat
      /\ counted + total + Chunk <= sunk
  BY ChunkFits, ConnAssumption DEF Inv, TypeOK, WriteInv, Underway, ChunkDone
<1>2. counted' + total' = counted + total + Chunk
  BY <1>1 DEF ChunkDone, WriteReturns
<1>3. UNCHANGED <<arrived, from, to, eof, ended, closed, sunk>>
  BY DEF ChunkDone, notWrite, sinkVars, sourceVars, readVars
<1>4. counted' + total' \in (counted + total)..sunk
  BY <1>1, <1>2
<1>5. Stream!Report
  BY <1>3, <1>4 DEF Stream!Report
<1>6. QED BY <1>5 DEF StreamStep, Stream!Next

LEMMA StepImplements == ASSUME Inv, [Next]_vars PROVE StreamStep
<1>0. TypeOK /\ ReadInv /\ counted \in Nat /\ total \in Nat
  BY DEF Inv, TypeOK
<1>1. ASSUME NEW d \in Deadlines, NEW when \in {"past", "zero", "future"}, Set(d, when)
      PROVE  StreamStep
  BY <1>1, Stutter DEF Set, Arm, sourceVars, readVars, writeVars, sinkVars
<1>2. ASSUME NEW d \in Deadlines, TimerFires(d) PROVE StreamStep
  BY <1>2, Stutter DEF TimerFires, sourceVars, readVars, writeVars, sinkVars
<1>3. ASSUME NEW d \in Deadlines, CloseCancel(d) PROVE StreamStep
  BY <1>3, Stutter DEF CloseCancel, sourceVars, readVars, writeVars, sinkVars
<1>4. ASSUME NEW n \in 1..MaxPayload, Recv(n) PROVE StreamStep
  <2>1. ~eof /\ arrived' \in Nat /\ arrived' > arrived
    BY <1>0, <1>4, ConnAssumption DEF Recv, ReadInv, TypeOK
  <2>2. Stream!Arrive
    BY <1>4, <2>1 DEF Recv, Stream!Arrive, readVars, notRead, writeVars, sinkVars
  <2>3. QED BY <2>2 DEF StreamStep, Stream!Next
<1>5. CASE RecvEOF
  BY <1>5, Stutter DEF RecvEOF, readVars, notRead, writeVars, sinkVars
<1>6. CASE ReadPumpQuits
  BY <1>6, Stutter DEF ReadPumpQuits, readVars, notRead, writeVars, sinkVars
<1>7. CASE ReadParks
  BY <1>7, Stutter DEF ReadParks, sourceVars, readVars, notRead, writeVars, sinkVars
<1>8. ASSUME NEW size \in ReadSizes, ReadBuffered(size) PROVE StreamStep
  <2>1. PICK n \in Nat : n = AtMost(size, readLen) /\ n <= readLen
    BY <1>0, ConnAssumption DEF AtMost, TypeOK
  <2>2. ~eof /\ from' = to /\ to' = to + n /\ eof' = eof
    BY <1>0, <1>8, <2>1 DEF ReadBuffered, CopyOut, ReadInv, TypeOK
  <2>3. to' \in to..arrived
    BY <1>0, <2>1, <2>2 DEF ReadInv, TypeOK
  <2>4. QED
    BY <1>8, <2>2, <2>3, ReadReturns DEF ReadBuffered, sourceVars, notRead, writeVars, sinkVars
<1>9. ASSUME NEW size \in ReadSizes, ReadTakes(size) PROVE StreamStep
  <2>1. PICK n \in Nat : n = AtMost(size, hand) /\ n <= hand
    BY <1>0, ConnAssumption DEF AtMost, TypeOK
  <2>2. ~eof /\ arrived - hand = to /\ arrived' = arrived
    BY <1>0, <1>9 DEF ReadTakes, ReadInv, TypeOK
  <2>3. from' = to /\ to' = to + n /\ eof' = eof
    BY <1>9, <2>1, <2>2 DEF ReadTakes, CopyOut
  <2>4. to' \in to..arrived
    BY <1>0, <2>1, <2>2, <2>3 DEF TypeOK
  <2>5. QED
    BY <1>9, <2>2, <2>3, <2>4, ReadReturns DEF ReadTakes, notRead, writeVars, sinkVars
<1>10. CASE ReadEOF
  BY <1>10, EndIsReached
<1>11. CASE ReadFails
  BY <1>11, Stutter DEF ReadFails, sourceVars, readVars, notRead, writeVars, sinkVars
<1>12. ASSUME NEW n \in WriteSizes, WriteCall(n) PROVE StreamStep
  BY <1>12, Stutter DEF WriteCall, notWrite, sourceVars, readVars, sinkVars
<1>13. CASE HandOver
  BY <1>13, Stutter DEF HandOver, notWrite, sourceVars, readVars
<1>14. ASSUME NEW r \in {"ok", "err"}, SendReturns(r) PROVE StreamStep
  <2>1. UNCHANGED <<arrived, from, to, eof, ended, closed, counted, total>>
    BY <1>14 DEF SendReturns, notWrite, sourceVars, readVars, writeVars
  <2>2. sunk \in Nat /\ sunk' \in Nat /\ sunk' >= sunk
    BY <1>0, <1>14, ConnAssumption DEF SendReturns, TypeOK
  <2>3. CASE sunk' = sunk
    BY <2>1, <2>3, Stutter
  <2>4. CASE sunk' > sunk
    <3>1. Stream!Sink
      BY <2>1, <2>2, <2>4 DEF Stream!Sink
    <3>2. QED BY <3>1 DEF StreamStep, Stream!Next
  <2>5. QED BY <2>2, <2>3, <2>4
<1>15. CASE Reply
  BY <1>15, Stutter DEF Reply, notWrite, sourceVars, readVars, writeVars
<1>16. CASE WritePumpQuits
  BY <1>16, Stutter DEF WritePumpQuits, notWrite, sourceVars, readVars, writeVars
<1>17. CASE ChunkDone
  BY <1>17, CountIsCovered
<1>18. CASE ChunkFails
  BY <1>0, <1>18, Stutter DEF ChunkFails, WriteReturns, notWrite, sourceVars, readVars, sinkVars
<1>19. CASE OfferFails
  BY <1>0, <1>19, Stutter DEF OfferFails, WriteReturns, notWrite, sourceVars, readVars, sinkVars
<1>20. CASE AwaitFails
  BY <1>0, <1>20, Stutter DEF AwaitFails, WriteReturns, notWrite, sourceVars, readVars, sinkVars
<1>21. CASE Close
  <2>1. Stream!Close
    BY <1>21 DEF Close, Stream!Close, sourceVars, readVars, writeVars, sinkVars
  <2>2. QED BY <2>1 DEF StreamStep, Stream!Next
<1>22. CASE CloseSource
  <2>1. Stream!SourceEnds
    BY <1>22 DEF CloseSource, Stream!SourceEnds, sourceVars, readVars, writeVars, sinkVars
  <2>2. QED BY <2>1 DEF StreamStep, Stream!Next
<1>23. CASE UNCHANGED vars
  BY <1>23, Stutter DEF vars, sourceVars, readVars, writeVars, sinkVars
<1>24. QED BY <1>1, <1>2, <1>3, <1>4, <1>5, <1>6, <1>7, <1>8, <1>9, <1>10,
      <1>11, <1>12, <1>13, <1>14, <1>15, <1>16, <1>17, <1>18, <1>19, <1>20,
      <1>21, <1>22, <1>23 DEF Next, Leaving, Writing

(* The net.Conn over a credit channel is the byte stream its users take it  *)
(* for: nothing lost, repeated or reordered, no early EOF and no byte       *)
(* counted that the sink did not take.                                      *)
THEOREM Refinement == Spec => ImplementsByteStream
<1>1. Init => Stream!Init
  BY DEF Init, Stream!Init
<1>2. Inv /\ [Next]_vars => [Stream!Next]_(Stream!streamVars)
  BY StepImplements DEF StreamStep
<1>3. QED BY <1>1, <1>2, Invariant, PTL DEF Spec, ImplementsByteStream, Stream!Spec
=============================================================================
