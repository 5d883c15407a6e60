---------------------------- MODULE RfbSessionProofs ----------------------------
(***************************************************************************)
(* What RfbSession keeps whatever the two peers say and however the frames *)
(* are cut, for every window and every limit: the plugin is always where a *)
(* field begins, greets the browser only after the server has accepted,    *)
(* enters the relay with credit and without a deadline, and forwards whole *)
(* messages, each that it should and no other, in order.                   *)
(***************************************************************************)
EXTENDS RfbSession, TLAPS

-----------------------------------------------------------------------------
(* The inductive invariant.  Its parts say where in the two talks the       *)
(* plugin is at each place of its code.                                     *)

Talking == ServerTalk(talk["server"]) /\ BrowserTalk(talk["browser"])

(* The bytes read are those of whole fields, and more have not arrived than *)
(* the peer says.                                                           *)
AtField ==
    \A p \in Peers :
        /\ field[p] \in 0..Len(talk[p])
        /\ pos[p] = End(talk[p], field[p])
        /\ avail[p] <= End(talk[p], Len(talk[p]))

(* The server has offered a type the plugin speaks, and the plugin chose.   *)
Offered ==
    LET s == talk["server"] IN
    /\ Supported(s[1].val) /\ s[2].val # 0 /\ Common(s[3].val) # {}
    /\ secType = SelectSecurityType(s[3].val)

ResultAt == IF VNCAuth \in Common(talk["server"][3].val) THEN 5 ELSE 4

Accepted ==
    /\ Offered
    /\ talk["server"][ResultAt].val = "ok" /\ field["server"] = ResultAt

ServerPlaces == FromServer \cup {"writeVersion", "writeSelect", "writeResponse"}

ServerAt(n) == field["server"] = n
ServerPlace ==
    LET s == talk["server"] IN
    /\ pc = "version" => ServerAt(0) /\ need = 12
    /\ pc = "writeVersion" => ServerAt(1) /\ Supported(s[1].val)
    /\ pc = "count" => ServerAt(1) /\ need = 1 /\ Supported(s[1].val)
    /\ pc = "types" => ServerAt(2) /\ need = s[2].val /\ s[2].val # 0 /\ Supported(s[1].val)
    /\ pc = "writeSelect" => ServerAt(3) /\ Offered
    /\ pc = "challenge" => ServerAt(3) /\ Offered /\ need = 16 /\ secType = VNCAuth
    /\ pc = "writeResponse" => ServerAt(4) /\ Offered /\ secType = VNCAuth
    /\ pc = "result" => ServerAt(ResultAt - 1) /\ Offered /\ need = 4
    /\ pc = "reasonLen" => Refusal(s, field["server"] + 1) /\ need = 4
    /\ pc = "reason" => Is(s, field["server"] + 1, "reason", need)
    /\ pc \in ServerPlaces \cup {"replenish"} => ~greeted
    /\ greeted \/ pc \notin ServerPlaces \cup {"failed"} => Accepted

(* Since the batch of credit nothing of the server's is left to arrive that *)
(* could use it up.                                                         *)
Replenished ==
    /\ pc \notin ServerPlaces \cup {"replenish", "failed"} => window["server"] > 0
    /\ pc \in Relaying => armed = Lifted

BrowserAt(n) == field["browser"] = n

(* A message of which the type has been read, and perhaps the header.       *)
Reading ==
    /\ begun \in 4..field["browser"] /\ talk["browser"][begun].kind = "type"
    /\ msgType = talk["browser"][begun].val
    /\ \A k \in DOMAIN forwarded : forwarded[k].at < begun

InBody ==
    \/ BrowserAt(begun) /\ msgType \in DOMAIN BodyLen /\ need = BodyLen[msgType]
    \/ /\ BrowserAt(begun + 1) /\ talk["browser"][begun + 1].kind = "header"
       /\ \/ msgType = 2 /\ need = 4 * talk["browser"][begun + 1].val
          \/ msgType = 6 /\ need = talk["browser"][begun + 1].val

BrowserPlace ==
    /\ pc \in ServerPlaces \cup {"replenish", "writeHello", "clientVersion"} => BrowserAt(0)
    /\ pc = "clientVersion" => need = 12
    /\ pc \in {"writeList", "select"} => BrowserAt(1)
    /\ pc \in {"writeResultOK", "clientInit"} => BrowserAt(2)
    /\ pc \in {"select", "clientInit", "type"} => need = 1
    /\ pc = "writeInit" => BrowserAt(3)
    /\ pc = "type" => field["browser"] >= 3 /\ talk["browser"][field["browser"]].kind \in {"clientInit", "body"}
    /\ pc = "header" => Reading /\ BrowserAt(begun) /\ msgType \in {2, 6} /\ need = HeaderLen[msgType]
    /\ pc = "body" => Reading /\ InBody
    /\ pc = "forward" => /\ Reading /\ MessageEnd(talk["browser"], begun) = field["browser"]
                         /\ talk["browser"][field["browser"]].kind = "body"
                         /\ ~readOnly \/ ~IsInputMessage(msgType)

Wanted == {i \in WholeBy(talk["browser"], field["browser"]) :
              ~readOnly \/ talk["browser"][i].val \notin {4, 5, 6}}
Sent == {forwarded[k].at : k \in DOMAIN forwarded}

Filtered ==
    /\ forwarded \in Seq([type : 0..255, at : Nat])
    /\ \A k \in DOMAIN forwarded :
          forwarded[k].at \in Wanted /\ forwarded[k].type = talk["browser"][forwarded[k].at].val
    /\ \A j, k \in DOMAIN forwarded : j < k => forwarded[j].at < forwarded[k].at
    /\ Wanted \ Sent \subseteq (IF pc \in {"forward", "failed"} THEN {begun} ELSE {})

Inv == /\ Talking /\ TypeOK /\ AtField /\ ServerPlace
       /\ Replenished /\ BrowserPlace /\ Filtered

Where == <<talk, readOnly, readVars, armed, pc, need, secType, greeted, filterVars>>

-----------------------------------------------------------------------------
(* What a read and the talks give every step.                               *)

LEMMA FieldsEnd ==
    ASSUME NEW s, EndToEnd(s)
    PROVE  /\ Len(s) \in Nat /\ DOMAIN s = 1..Len(s)
           /\ \A i \in 0..Len(s) : End(s, i) \in Nat
           /\ \A i \in 1..Len(s) : s[i].len \in Nat /\ End(s, i) = End(s, i - 1) + s[i].len
BY DEF EndToEnd, End

(* Both talks have fields, and each of them ends somewhere.                 *)
LEMMA TalkShape ==
    ASSUME Talking
    PROVE  \A p \in Peers :
              /\ Len(talk[p]) \in Nat /\ Len(talk[p]) >= 3 /\ DOMAIN talk[p] = 1..Len(talk[p])
              /\ \A i \in 0..Len(talk[p]) : End(talk[p], i) \in Nat
              /\ \A i \in 1..Len(talk[p]) : /\ talk[p][i].len \in Nat
                                            /\ End(talk[p], i) = End(talk[p], i - 1) + talk[p][i].len
<1>1. EndToEnd(talk["server"]) /\ EndToEnd(talk["browser"])
  BY DEF Talking, ServerTalk, BrowserTalk
<1>2. Len(talk["server"]) >= 3
  <2>1. CASE talk["server"][2].val = 0
    BY <2>1, <1>1 DEF Talking, ServerTalk, Refusal, Is, EndToEnd
  <2>2. CASE talk["server"][2].val # 0
    BY <2>2, <1>1 DEF Talking, ServerTalk, Is, EndToEnd
  <2> QED  BY <2>1, <2>2
<1>3. Len(talk["browser"]) >= 3
  BY <1>1 DEF Talking, BrowserTalk, Is, EndToEnd
<1> QED  BY <1>1, <1>2, <1>3, FieldsEnd DEF Peers

(* A read that succeeds takes one field, and only its own peer moves.       *)
LEMMA TakeAdvances ==
    ASSUME Inv, NEW kind \in FromServer \cup FromBrowser, Take(kind)
    PROVE  /\ Talking' /\ AtField' /\ pc = kind
           /\ Is(talk[PeerOf(kind)], field[PeerOf(kind)] + 1, kind, need)
           /\ field' = [field EXCEPT ![PeerOf(kind)] = @ + 1]
           /\ pos' \in [Peers -> Nat] /\ field' \in [Peers -> Nat] /\ \A p \in Peers : pos'[p] <= avail'[p]
           /\ UNCHANGED <<talk, readOnly, avail, gone, late>>
<1> DEFINE q == PeerOf(kind)
<1>1. q \in Peers
  BY DEF PeerOf, Peers
<1>2. /\ Filled(kind) /\ InField(kind) /\ UNCHANGED <<talk, readOnly, avail, gone, late>>
      /\ pos' = [pos EXCEPT ![q] = @ + need] /\ field' = [field EXCEPT ![q] = @ + 1]
  BY DEF Take
<1>3. Is(talk[q], field[q] + 1, kind, need)
  BY <1>1, <1>2, TalkShape DEF Inv, InField, Is, AtField
<1>4. Talking'
  BY <1>2 DEF Inv, Talking
<1>5. /\ pos' \in [Peers -> Nat] /\ field' \in [Peers -> Nat]
      /\ \A p \in Peers : pos'[p] <= avail'[p]
  BY <1>1, <1>2 DEF Inv, TypeOK, Filled
<1>6. ASSUME NEW p \in Peers
      PROVE  field'[p] \in 0..Len(talk[p]) /\ pos'[p] = End(talk[p], field'[p])
  <2>1. CASE p = q
    <3>1. field'[p] = field[p] + 1 /\ field'[p] \in 1..Len(talk[p]) /\ field'[p] - 1 = field[p]
      BY <1>1, <1>2, <1>3, <2>1 DEF Inv, TypeOK, Is
    <3>2. pos'[p] = pos[p] + need /\ talk[p][field[p] + 1].len = need
      BY <1>1, <1>2, <1>3, <2>1 DEF Inv, TypeOK, Is
    <3>3. End(talk[p], field'[p]) = End(talk[p], field[p]) + need
      BY <3>1, <3>2, TalkShape DEF Inv
    <3> QED  BY <3>1, <3>2, <3>3, <1>6 DEF Inv, AtField
  <2>2. CASE p # q
    BY <2>2, <1>2, <1>6 DEF Inv, AtField, TypeOK
  <2> QED  BY <2>1, <2>2
<1>7. AtField'
  BY <1>2, <1>6 DEF Inv, AtField
<1> QED  BY <1>2, <1>3, <1>4, <1>5, <1>7 DEF Filled

(* A step that reads nothing leaves both positions where they are.          *)
LEMMA StillAtField ==
    ASSUME Inv, UNCHANGED <<talk, avail, readVars>>
    PROVE  Talking' /\ AtField' /\ \A p \in Peers : pos'[p] <= avail'[p]
BY DEF Inv, Talking, AtField, TypeOK, readVars

(* Nor does a step that reads nothing of the browser's change what should   *)
(* have been forwarded.                                                     *)
LEMMA FilteredKept ==
    ASSUME Inv, UNCHANGED <<talk, readOnly, begun, forwarded>>, field'["browser"] = field["browser"],
           pc \in {"forward", "failed"} => pc' \in {"forward", "failed"}
    PROVE  Filtered'
BY DEF Inv, Filtered, Wanted, Sent

-----------------------------------------------------------------------------
(* The peers, the clock, and the three ways to fail.                        *)

LEMMA PlaceKept ==
    ASSUME Inv, UNCHANGED Where
    PROVE  ServerPlace' /\ BrowserPlace' /\ Filtered'
<1> USE DEF Where, readVars, filterVars
<1>1. ServerPlace'
  BY DEF Inv, ServerPlace, ServerAt, Offered, Accepted, ResultAt
<1>2. BrowserPlace'
  BY DEF Inv, BrowserPlace, BrowserAt, Reading, InBody
<1>3. Filtered'
  BY FilteredKept DEF Inv
<1> QED  BY <1>1, <1>2, <1>3

(* A frame brings nothing once all of the peer's bytes have arrived, so it   *)
(* costs no credit after the server has accepted.                           *)
LEMMA DeliverStep ==
    ASSUME Inv, NEW p \in Peers, Deliver(p)
    PROVE  Inv'
<1>1. /\ UNCHANGED <<gone, notPeer>> /\ window[p] > 0 /\ pc # "failed"
      /\ window' = [window EXCEPT ![p] = @ - 1]
  BY DEF Deliver
<1>2. PICK cut \in Cuts(talk[p]) : cut > avail[p] /\ avail' = [avail EXCEPT ![p] = cut]
  BY DEF Deliver
<1>3. cut \in 1..End(talk[p], Len(talk[p])) /\ cut \in Nat
  BY TalkShape DEF Cuts, Inv
<1>4. Talking' /\ UNCHANGED Where
  BY <1>1 DEF Inv, Talking, notPeer, Where, lateVars
<1>5. TypeOK'
  BY <1>1, <1>2, <1>3 DEF Inv, TypeOK, notPeer, readVars, lateVars, filterVars
<1>6. AtField'
  <2> SUFFICES ASSUME NEW r \in Peers
               PROVE  avail'[r] <= End(talk[r], Len(talk[r]))
    BY <1>1 DEF Inv, AtField, notPeer, readVars
  <2> QED  BY <1>2, <1>3 DEF Inv, AtField, TypeOK
<1>7. Replenished'
  <2>1. CASE p = "browser"
    BY <2>1, <1>1 DEF Inv, Replenished, notPeer, lateVars, TypeOK, Peers
  <2>2. CASE p = "server" /\ pc \in ServerPlaces \cup {"replenish"}
    BY <2>2, <1>1 DEF Inv, Replenished, notPeer, lateVars, Relaying, ServerPlaces, FromServer
  <2>3. CASE p = "server" /\ pc \notin ServerPlaces \cup {"replenish"}
    <3>1. Accepted
      BY <2>3, <1>1 DEF Inv, ServerPlace
    <3>2. field["server"] = Len(talk["server"])
      BY <3>1 DEF Inv, Talking, ServerTalk, Accepted, Offered, ResultAt, Is, EndToEnd
    <3>3. pos["server"] = End(talk["server"], Len(talk["server"])) /\ pos["server"] <= avail["server"]
      BY <3>2 DEF Inv, AtField, TypeOK, Peers
    <3> QED  BY <3>3, <1>2, <1>3, <2>3, TalkShape DEF Inv, TypeOK
  <2> QED  BY <2>1, <2>2, <2>3 DEF Peers
<1> QED  BY <1>4, <1>5, <1>6, <1>7, PlaceKept DEF Inv

LEMMA CloseOrClockStep ==
    ASSUME Inv, (\E p \in Peers : PeerCloses(p)) \/ TimePasses
    PROVE  Inv'
<1>1. UNCHANGED <<Where, avail, window>> /\ gone' \in [Peers -> BOOLEAN] /\ late' \in BOOLEAN
  <2>1. ASSUME NEW p \in Peers, PeerCloses(p)
        PROVE  UNCHANGED <<Where, avail, window>> /\ gone' \in [Peers -> BOOLEAN] /\ late' \in BOOLEAN
    BY <2>1 DEF PeerCloses, notPeer, Where, lateVars, Inv, TypeOK
  <2>2. ASSUME TimePasses
        PROVE  UNCHANGED <<Where, avail, window>> /\ gone' \in [Peers -> BOOLEAN] /\ late' \in BOOLEAN
    BY <2>2 DEF TimePasses, streamVars, Where, Inv, TypeOK
  <2> QED  BY <2>1, <2>2
<1>2. Talking' /\ AtField' /\ \A p \in Peers : pos'[p] <= avail'[p]
  BY <1>1, StillAtField DEF Where
<1>3. TypeOK'
  BY <1>1, <1>2 DEF Inv, TypeOK, Where, readVars, filterVars
<1>4. Replenished'
  BY <1>1 DEF Inv, Replenished, Where
<1> QED  BY <1>1, <1>2, <1>3, <1>4, PlaceKept DEF Inv

LEMMA FailStep ==
    ASSUME Inv, ReadFails \/ ChannelsClose \/ WriteFails
    PROVE  Inv'
<1>1. /\ pc' = "failed" /\ need' = 0 /\ armed' = Lifted
      /\ UNCHANGED <<talk, readOnly, streamVars, readVars, late, secType, greeted, filterVars>>
      /\ pc # "failed"
  BY DEF ReadFails, ChannelsClose, WriteFails, Fail, FromServer, FromBrowser, ToServer, ToBrowser
<1>2. Talking' /\ AtField' /\ \A p \in Peers : pos'[p] <= avail'[p]
  BY <1>1, StillAtField DEF streamVars
<1>3. TypeOK'
  BY <1>1, <1>2 DEF Inv, TypeOK, Lifted, streamVars, readVars, filterVars
<1>4. ServerPlace'
  BY <1>1 DEF Inv, ServerPlace, ServerPlaces, FromServer, Accepted, Offered, ResultAt, readVars
<1>5. Replenished' /\ BrowserPlace'
  BY <1>1 DEF Replenished, BrowserPlace, ServerPlaces, FromServer, Relaying
<1>6. Filtered'
  BY <1>1, FilteredKept DEF readVars, filterVars
<1> QED  BY <1>2, <1>3, <1>4, <1>5, <1>6 DEF Inv

-----------------------------------------------------------------------------
(* The handshake with the server.                                           *)

(* What a read from the server does to everything but its own place.        *)
LEMMA ServerReads ==
    ASSUME Inv, NEW kind \in FromServer, Take(kind), UNCHANGED notHandshake,
           pc' \in ServerPlaces \cup {"replenish", "failed"}, need' \in Nat,
           armed' \in {armed, Lifted}, secType' \in {0, None, VNCAuth}
    PROVE  Talking' /\ TypeOK' /\ AtField' /\ Replenished' /\ BrowserPlace' /\ Filtered'
<1>1. PeerOf(kind) = "server" /\ "server" \in Peers
  BY DEF PeerOf, FromServer, Peers
<1>2. /\ Talking' /\ AtField' /\ pc = kind
      /\ field' = [field EXCEPT !["server"] = @ + 1]
      /\ pos' \in [Peers -> Nat] /\ field' \in [Peers -> Nat] /\ \A p \in Peers : pos'[p] <= avail'[p]
      /\ UNCHANGED <<talk, readOnly, avail, gone, late>>
  BY <1>1, TakeAdvances
<1>3. UNCHANGED <<window, greeted, msgType, begun, forwarded>> /\ field'["browser"] = field["browser"]
  BY <1>2 DEF notHandshake, filterVars, Inv, TypeOK, Peers
<1>4. TypeOK'
  BY <1>2, <1>3 DEF Inv, TypeOK, Lifted, ServerPlaces, FromServer, ToServer
<1>5. Replenished'
  BY DEF Replenished, ServerPlaces, FromServer, Relaying
<1>6. BrowserPlace'
  BY <1>2, <1>3 DEF Inv, BrowserPlace, BrowserAt, ServerPlaces, FromServer
<1>7. Filtered'
  BY <1>2, <1>3, FilteredKept DEF FromServer
<1> QED  BY <1>2, <1>4, <1>5, <1>6, <1>7

(* What the server has said so far is of a talk that goes on as it may.      *)
LEMMA ServerReadStep ==
    ASSUME Inv, \/ ReadVersion \/ ReadCount \/ ReadTypes \/ ReadChallenge \/ ReadResult
                \/ ReadReasonLen \/ ReadReason
    PROVE  Inv'
<1> DEFINE s == talk["server"]
           f == field["server"]
<1>0. /\ f \in Nat /\ f <= Len(s) /\ Len(s) \in Nat /\ "server" \in Peers
      /\ EndToEnd(s) /\ ServerTalk(s) /\ ServerPlace /\ armed \in [Peers -> BOOLEAN]
      /\ secType \in {0, None, VNCAuth}
  BY TalkShape DEF Inv, TypeOK, AtField, Peers, Talking, ServerTalk
<1>1. ASSUME NEW kind \in FromServer, Take(kind)
      PROVE  /\ Is(s, f + 1, kind, need) /\ pc = kind /\ talk' = talk
             /\ field'["server"] = f + 1 /\ Value(kind) = s[f + 1].val
  <2>1. PeerOf(kind) = "server"
    BY <1>1 DEF PeerOf, FromServer
  <2> QED  BY <1>0, <1>1, <2>1, TakeAdvances DEF Inv, TypeOK, Value
<1>2. CASE ReadVersion
  <2>1. Take("version") /\ UNCHANGED <<secType, notHandshake>>
    BY <1>2 DEF ReadVersion
  <2>2. f = 0 /\ field'["server"] = 1 /\ talk' = talk /\ Value("version") = s[1].val
    BY <2>1, <1>0, <1>1 DEF ServerPlace, ServerAt, FromServer
  <2>3. \/ pc' = "failed" /\ need' = 0 /\ armed' = Lifted
        \/ pc' = "writeVersion" /\ need' = 0 /\ armed' = armed /\ Supported(s[1].val)
    BY <1>2, <2>2 DEF ReadVersion, Goto, Fail
  <2>4. ServerPlace'
    <3>1. greeted' = FALSE
      BY <2>1, <1>0, <1>1 DEF ServerPlace, ServerPlaces, FromServer, notHandshake
    <3> QED  BY <2>2, <2>3, <3>1 DEF ServerPlace, ServerAt, ServerPlaces, FromServer
  <2> QED  BY <2>1, <2>3, <2>4, <1>0, ServerReads DEF Inv, ServerPlaces, FromServer
<1>3. CASE ReadCount
  <2>1. Take("count") /\ UNCHANGED <<secType, notHandshake>>
    BY <1>3 DEF ReadCount
  <2>2. f = 1 /\ field'["server"] = 2 /\ talk' = talk /\ Value("count") = s[2].val /\ Supported(s[1].val)
    BY <2>1, <1>0, <1>1 DEF ServerPlace, ServerAt, FromServer
  <2>3. /\ armed' = armed
        /\ \/ s[2].val = 0 /\ pc' = "reasonLen" /\ need' = 4
           \/ s[2].val # 0 /\ pc' = "types" /\ need' = s[2].val
    BY <1>3, <2>2 DEF ReadCount, Goto
  <2>4. s[2].val \in 0..255 /\ (s[2].val = 0 => Refusal(s, 3))
    BY <1>0 DEF ServerTalk
  <2>6. need' \in Nat /\ pc' \in ServerPlaces
    BY <2>3, <2>4 DEF ServerPlaces, FromServer
  <2>5. ServerPlace'
    <3>1. greeted' = FALSE
      BY <2>1, <1>0, <1>1 DEF ServerPlace, ServerPlaces, FromServer, notHandshake
    <3> QED  BY <2>2, <2>3, <2>4, <3>1 DEF ServerPlace, ServerAt, ServerPlaces, FromServer
  <2> QED  BY <2>1, <2>3, <2>5, <2>6, <1>0, ServerReads DEF Inv, FromServer
<1>4. CASE ReadTypes
  <2>1. Take("types") /\ UNCHANGED notHandshake
    BY <1>4 DEF ReadTypes
  <2>2. /\ f = 2 /\ field'["server"] = 3 /\ talk' = talk /\ Value("types") = s[3].val
        /\ Supported(s[1].val) /\ s[2].val # 0
    BY <2>1, <1>0, <1>1 DEF ServerPlace, ServerAt, FromServer
  <2>3. secType' = SelectSecurityType(s[3].val) /\ need' = 0 /\ armed' \in {armed, Lifted}
    BY <1>4, <2>2 DEF ReadTypes, Goto, Fail
  <2>4. secType' \in {0, None, VNCAuth} /\ (secType' = 0 \/ Common(s[3].val) # {})
    BY <2>3 DEF SelectSecurityType, None, VNCAuth
  <2>5. \/ pc' = "failed"
        \/ pc' = "writeSelect" /\ Common(s[3].val) # {}
    BY <1>4, <2>4 DEF ReadTypes, Goto, Fail
  <2>6. ServerPlace'
    <3>1. greeted' = FALSE
      BY <2>1, <1>0, <1>1 DEF ServerPlace, ServerPlaces, FromServer, notHandshake
    <3> QED  BY <2>2, <2>3, <2>5, <3>1 DEF ServerPlace, ServerAt, ServerPlaces, FromServer, Offered
  <2> QED  BY <2>1, <2>3, <2>4, <2>5, <2>6, <1>0, ServerReads DEF Inv, ServerPlaces, FromServer, ToServer
<1>5. CASE ReadChallenge
  <2>1. Take("challenge") /\ UNCHANGED <<secType, notHandshake>> /\ pc' = "writeResponse" /\ need' = 0 /\ armed' = armed
    BY <1>5 DEF ReadChallenge, Goto
  <2>2. f = 3 /\ field'["server"] = 4 /\ talk' = talk /\ Offered /\ secType = VNCAuth
    BY <2>1, <1>0, <1>1 DEF ServerPlace, ServerAt, FromServer
  <2>3. ServerPlace'
    <3>1. greeted' = FALSE
      BY <2>1, <1>0, <1>1 DEF ServerPlace, ServerPlaces, FromServer, notHandshake
    <3> QED  BY <2>1, <2>2, <3>1 DEF ServerPlace, ServerAt, ServerPlaces, FromServer, Offered
  <2> QED  BY <2>1, <2>3, <1>0, ServerReads DEF Inv, ServerPlaces, FromServer, ToServer
<1>6. CASE ReadResult
  <2>1. Take("result") /\ UNCHANGED <<secType, notHandshake>> /\ armed' = armed
    BY <1>6 DEF ReadResult, Goto
  <2>2. /\ f = ResultAt - 1 /\ field'["server"] = ResultAt /\ talk' = talk /\ Offered
        /\ Value("result") = s[ResultAt].val
    BY <2>1, <1>0, <1>1 DEF ServerPlace, ServerAt, FromServer, ResultAt
  <2>3. \/ pc' = "replenish" /\ need' = 0 /\ s[ResultAt].val = "ok"
        \/ pc' = "reasonLen" /\ need' = 4 /\ s[ResultAt].val # "ok"
    BY <1>6, <2>2 DEF ReadResult, Goto
  <2>4. s[ResultAt].val # "ok" => Refusal(s, ResultAt + 1)
    BY <1>0, <2>2 DEF ServerTalk, ResultAt, Offered
  <2>5. ServerPlace'
    <3>1. greeted' = FALSE
      BY <2>1, <1>0, <1>1 DEF ServerPlace, ServerPlaces, FromServer, notHandshake
    <3> QED  BY <2>1, <2>2, <2>3, <2>4, <3>1
             DEF ServerPlace, ServerAt, ServerPlaces, FromServer, Offered, Accepted, ResultAt
  <2> QED  BY <2>1, <2>3, <2>5, <1>0, ServerReads DEF Inv, ServerPlaces, FromServer
<1>7. CASE ReadReasonLen
  <2>1. Take("reasonLen") /\ UNCHANGED <<secType, notHandshake>>
    BY <1>7 DEF ReadReasonLen
  <2>2. field'["server"] = f + 1 /\ talk' = talk /\ Refusal(s, f + 1) /\ Value("reasonLen") = s[f + 1].val
    BY <2>1, <1>0, <1>1 DEF ServerPlace, FromServer
  <2>3. \/ pc' = "failed" /\ need' = 0 /\ armed' = Lifted
        \/ pc' = "reason" /\ need' = s[f + 1].val /\ armed' = armed
    BY <1>7, <2>2 DEF ReadReasonLen, Goto, Fail
  <2>4. need' \in Nat /\ Is(s, f + 2, "reason", s[f + 1].val)
    BY <2>2, <2>3, <1>0 DEF Refusal
  <2>5. ServerPlace'
    <3>1. greeted' = FALSE
      BY <2>1, <1>0, <1>1 DEF ServerPlace, ServerPlaces, FromServer, notHandshake
    <3> QED  BY <1>0, <2>2, <2>3, <2>4, <3>1 DEF ServerPlace, ServerPlaces, FromServer
  <2> QED  BY <2>1, <2>3, <2>4, <2>5, <1>0, ServerReads DEF Inv, ServerPlaces, FromServer
<1>8. CASE ReadReason
  <2>1. Take("reason") /\ UNCHANGED <<secType, notHandshake>> /\ pc' = "failed" /\ need' = 0 /\ armed' = Lifted
    BY <1>8 DEF ReadReason, Fail
  <2>2. ServerPlace'
    <3>1. greeted' = FALSE
      BY <2>1, <1>0, <1>1 DEF ServerPlace, ServerPlaces, FromServer, notHandshake
    <3> QED  BY <2>1, <3>1 DEF ServerPlace, ServerPlaces, FromServer
  <2> QED  BY <2>1, <2>2, <1>0, ServerReads DEF Inv, ServerPlaces, FromServer
<1> QED  BY <1>2, <1>3, <1>4, <1>5, <1>6, <1>7, <1>8

(* The three writes to the server, and the grant after its last word.       *)
LEMMA ServerWriteStep ==
    ASSUME Inv, WriteVersion \/ WriteSelect \/ WriteResponse \/ Replenish
    PROVE  Inv'
<1>1. /\ UNCHANGED <<greeted, forwarded, notWrite, armed>>
      /\ \/ pc = "writeVersion" /\ pc' = "count" /\ need' = 1 /\ window' = window
         \/ pc = "writeSelect" /\ secType = VNCAuth /\ pc' = "challenge" /\ need' = 16 /\ window' = window
         \/ pc = "writeSelect" /\ secType # VNCAuth /\ pc' = "result" /\ need' = 4 /\ window' = window
         \/ pc = "writeResponse" /\ pc' = "result" /\ need' = 4 /\ window' = window
         \/ /\ pc = "replenish" /\ pc' = "writeHello" /\ need' = 0
            /\ window' = [window EXCEPT !["server"] = @ + Window["server"]]
  BY DEF WriteVersion, WriteSelect, WriteResponse, Replenish, Goto
<1>2. UNCHANGED <<talk, readOnly, avail, gone, pos, field, late, secType, msgType, begun, greeted, forwarded, armed>>
  BY <1>1 DEF notWrite, readVars
<1>3. Talking' /\ AtField' /\ \A p \in Peers : pos'[p] <= avail'[p]
  BY <1>2, StillAtField DEF readVars
<1>4. window' \in [Peers -> Nat] /\ (pc = "replenish" => window'["server"] > 0)
  BY <1>1, RfbAssumption DEF Inv, TypeOK, Peers
<1>5. TypeOK'
  BY <1>1, <1>2, <1>3, <1>4 DEF Inv, TypeOK, FromServer, ToBrowser
<1>6. ServerPlace'
  <2>1. pc \in {"writeSelect", "writeResponse"} => (secType = VNCAuth <=> ResultAt = 5)
    BY <1>1 DEF Inv, ServerPlace, Offered, SelectSecurityType, ResultAt, None, VNCAuth
  <2> QED  BY <1>1, <1>2, <2>1
           DEF Inv, ServerPlace, ServerAt, Offered, Accepted, ResultAt, ServerPlaces, FromServer
<1>7. Replenished'
  BY <1>1, <1>2, <1>4 DEF Inv, Replenished, ServerPlaces, FromServer, Relaying
<1>8. BrowserPlace'
  BY <1>1, <1>2 DEF Inv, BrowserPlace, BrowserAt, ServerPlaces, FromServer
<1>9. Filtered'
  BY <1>1, <1>2, FilteredKept
<1> QED  BY <1>3, <1>5, <1>6, <1>7, <1>8, <1>9 DEF Inv

-----------------------------------------------------------------------------
(* The handshake with the browser, and its messages.                        *)

(* A field that is no body ends no message.                                 *)
LEMMA WholeSame ==
    ASSUME NEW s, BrowserTalk(s), NEW n \in Nat, n < Len(s), s[n + 1].kind # "body"
    PROVE  WholeBy(s, n + 1) = WholeBy(s, n)
<1>0. Len(s) \in Nat
  BY DEF BrowserTalk, EndToEnd
<1>1. ASSUME NEW j \in 1..(n + 1), s[j].kind = "type"
      PROVE  MessageEnd(s, j) # n + 1
  <2>1. j >= 4
    BY <1>1, <1>0 DEF BrowserTalk, Is
  <2>2. MessageAt(s, j)
    BY <2>1, <1>1, <1>0 DEF BrowserTalk
  <2>3. \/ s[j + 1].kind = "body"
        \/ s[j + 1].kind = "header" /\ s[j + 2].kind = "body"
    BY <2>2 DEF MessageAt, Is
  <2> QED  BY <2>3 DEF MessageEnd
<1>2. ASSUME NEW j \in 1..(n + 1)
      PROVE  MessageEnd(s, j) \in {j + 1, j + 2}
  BY DEF MessageEnd
<1> QED  BY <1>1, <1>2 DEF WholeBy

(* A body ends one message.                                                 *)
LEMMA WholeMore ==
    ASSUME NEW s, NEW n \in Nat, NEW i \in 1..n, s[i].kind = "type", MessageEnd(s, i) = n + 1
    PROVE  WholeBy(s, n + 1) = WholeBy(s, n) \cup {i}
<1>1. ASSUME NEW j \in 1..(n + 1)
      PROVE  MessageEnd(s, j) \in {j + 1, j + 2}
  BY DEF MessageEnd
<1>2. ASSUME NEW j \in 1..(n + 1), s[j].kind = "type", MessageEnd(s, j) = n + 1
      PROVE  j = i
  <2>1. j \in {n - 1, n} /\ i \in {n - 1, n}
    BY <1>2, <1>1
  <2> QED  BY <2>1, <1>2 DEF MessageEnd
<1> QED  BY <1>1, <1>2 DEF WholeBy

(* What every step after the server's acceptance keeps of it.               *)
LEMMA ServerDone ==
    ASSUME Inv, pc \notin ServerPlaces \cup {"replenish", "failed"}, pc' \notin ServerPlaces \cup {"replenish"},
           UNCHANGED <<talk, secType>>, field'["server"] = field["server"], window'["server"] = window["server"],
           pc' \in Relaying => armed' = Lifted
    PROVE  ServerPlace' /\ Replenished'
<1>1. Accepted /\ Accepted'
  BY DEF Inv, ServerPlace, Accepted, Offered, ResultAt
<1>2. ServerPlace'
  BY <1>1 DEF ServerPlace, ServerPlaces, FromServer
<1>3. Replenished'
  BY DEF Inv, Replenished
<1> QED  BY <1>2, <1>3

(* What a read from the browser does, to all but its own place and what is  *)
(* forwarded.                                                               *)
LEMMA BrowserReads ==
    ASSUME Inv, NEW kind \in FromBrowser, Take(kind),
           pc' \in (FromBrowser \cup ToBrowser \cup ToServer \cup {"failed"}) \ ServerPlaces,
           need' \in Nat, msgType' \in 0..255, begun' \in Nat,
           window' \in [Peers -> Nat], window'["server"] = window["server"],
           \/ armed' = Lifted
           \/ armed' = armed /\ (pc' \in Relaying => kind \in Relaying),
           UNCHANGED <<secType, greeted>>
    PROVE  /\ Talking' /\ TypeOK' /\ AtField' /\ ServerPlace' /\ Replenished'
           /\ pc = kind /\ UNCHANGED <<talk, readOnly>> /\ field["browser"] \in Nat
           /\ Is(talk["browser"], field["browser"] + 1, kind, need)
           /\ Value(kind) = talk["browser"][field["browser"] + 1].val
           /\ field'["browser"] = field["browser"] + 1
<1>1. PeerOf(kind) = "browser"
  BY DEF PeerOf, FromBrowser, FromServer, ToServer
<1>2. /\ Talking' /\ AtField' /\ pc = kind
      /\ Is(talk["browser"], field["browser"] + 1, kind, need)
      /\ field' = [field EXCEPT !["browser"] = @ + 1]
      /\ pos' \in [Peers -> Nat] /\ field' \in [Peers -> Nat] /\ \A p \in Peers : pos'[p] <= avail'[p]
      /\ UNCHANGED <<talk, readOnly, avail, gone, late>>
  BY <1>1, TakeAdvances
<1>3. /\ field'["server"] = field["server"] /\ field'["browser"] = field["browser"] + 1
      /\ field["browser"] \in Nat
  BY <1>2 DEF Inv, TypeOK, Peers
<1>4. TypeOK'
  BY <1>2 DEF Inv, TypeOK, Lifted
<1>5. pc' \in Relaying => armed' = Lifted
  BY <1>2 DEF Inv, Replenished
<1>6. pc' \notin ServerPlaces \cup {"replenish"}
  BY DEF FromBrowser, ToBrowser, ToServer
<1>7. pc \notin ServerPlaces \cup {"replenish", "failed"}
  BY <1>2 DEF FromBrowser, ServerPlaces, FromServer
<1>8. ServerPlace' /\ Replenished'
  BY <1>2, <1>3, <1>5, <1>6, <1>7, ServerDone
<1> QED  BY <1>1, <1>2, <1>3, <1>4, <1>8 DEF Value

(* A read that ends no message, wherever it goes on.                        *)
LEMMA FilteredRead ==
    ASSUME Inv, UNCHANGED <<talk, readOnly, forwarded>>, pc \notin {"forward", "failed"},
           field["browser"] \in Nat, field'["browser"] = field["browser"] + 1, field["browser"] < Len(talk["browser"]),
           talk["browser"][field["browser"] + 1].kind # "body"
    PROVE  Filtered'
<1>1. Wanted' = Wanted /\ Sent' = Sent
  BY WholeSame DEF Inv, Talking, Wanted, Sent
<1>2. Wanted \subseteq Sent
  BY DEF Inv, Filtered
<1> QED  BY <1>1, <1>2 DEF Inv, Filtered

LEMMA FrontshakeReadStep ==
    ASSUME Inv, ReadClientVersion \/ ReadSelect \/ ReadClientInit
    PROVE  Inv'
<1> DEFINE f == field["browser"]
<1>1. PICK kind \in {"clientVersion", "select", "clientInit"} :
         /\ Take(kind) /\ UNCHANGED <<window, secType, greeted, filterVars>>
         /\ \/ pc' = "failed" /\ need' = 0 /\ armed' = Lifted
            \/ kind = "clientVersion" /\ pc' = "writeList" /\ need' = 0 /\ armed' = armed
            \/ kind = "select" /\ pc' = "writeResultOK" /\ need' = 0 /\ armed' = armed
            \/ kind = "clientInit" /\ pc' = "writeInit" /\ need' = 0 /\ armed' = armed
  <2>1. CASE ReadClientVersion
    BY <2>1 DEF ReadClientVersion, Goto, Fail, notHandshake
  <2>2. CASE ReadSelect
    BY <2>2 DEF ReadSelect, Goto, Fail, notHandshake
  <2>3. CASE ReadClientInit
    BY <2>3 DEF ReadClientInit, Goto, notMessage, filterVars
  <2> QED  BY <2>1, <2>2, <2>3
<1>2. kind \in FromBrowser /\ UNCHANGED <<msgType, begun, forwarded>>
  BY <1>1 DEF FromBrowser, filterVars
<1>3. /\ pc' \in (FromBrowser \cup ToBrowser \cup ToServer \cup {"failed"}) \ ServerPlaces
      /\ need' \in Nat /\ (pc' \in Relaying => kind \in Relaying)
  BY <1>1 DEF FromBrowser, ToBrowser, ToServer, ServerPlaces, FromServer, Relaying
<1>4. /\ Talking' /\ TypeOK' /\ AtField' /\ ServerPlace' /\ Replenished'
      /\ pc = kind /\ UNCHANGED <<talk, readOnly>> /\ f \in Nat
      /\ Is(talk["browser"], f + 1, kind, need) /\ field'["browser"] = f + 1
  <2>1. msgType' \in 0..255 /\ begun' \in Nat /\ window' \in [Peers -> Nat] /\ window'["server"] = window["server"]
    BY <1>1, <1>2 DEF Inv, TypeOK
  <2> QED  BY <1>1, <1>2, <1>3, <2>1, BrowserReads
<1>5. BrowserPlace'
  BY <1>1, <1>4 DEF Inv, BrowserPlace, BrowserAt, ServerPlaces, FromServer
<1>6. f < Len(talk["browser"]) /\ talk["browser"][f + 1].kind # "body"
  BY <1>1, <1>4, TalkShape DEF Inv, Is, Peers
<1>7. Filtered'
  BY <1>1, <1>2, <1>4, <1>6, FilteredRead
<1> QED  BY <1>4, <1>5, <1>7 DEF Inv

LEMMA FrontshakeWriteStep ==
    ASSUME Inv, WriteHello \/ WriteList \/ WriteResultOK \/ WriteInit
    PROVE  Inv'
<1>1. /\ UNCHANGED <<window, forwarded, notWrite>> /\ greeted' \in BOOLEAN
      /\ \/ pc = "writeHello" /\ pc' = "clientVersion" /\ need' = 12 /\ armed' = armed
         \/ pc = "writeList" /\ pc' = "select" /\ need' = 1 /\ armed' = armed
         \/ pc = "writeResultOK" /\ pc' = "clientInit" /\ need' = 1 /\ armed' = Lifted
         \/ pc = "writeInit" /\ pc' = "type" /\ need' = 1 /\ armed' = armed
  BY DEF WriteHello, WriteList, WriteResultOK, WriteInit, Goto, Inv, TypeOK
<1>2. UNCHANGED <<talk, readOnly, avail, gone, pos, field, late, secType, msgType, begun, forwarded, window>>
  BY <1>1 DEF notWrite, readVars
<1>3. Talking' /\ AtField' /\ \A p \in Peers : pos'[p] <= avail'[p]
  BY <1>2, StillAtField DEF readVars
<1>4. TypeOK'
  <2>1. pc' \in FromBrowser /\ need' \in Nat
    BY <1>1 DEF FromBrowser
  <2>2. armed \in [Peers -> BOOLEAN] /\ Lifted \in [Peers -> BOOLEAN]
    BY DEF Lifted, Inv, TypeOK
  <2>3. armed' \in [Peers -> BOOLEAN]
    BY <1>1, <2>2
  <2> QED  BY <1>1, <1>2, <1>3, <2>1, <2>3 DEF Inv, TypeOK
<1>5. ServerPlace' /\ Replenished'
  <2>1. pc \notin ServerPlaces \cup {"replenish", "failed"} /\ pc' \notin ServerPlaces \cup {"replenish"}
    BY <1>1 DEF ServerPlaces, FromServer
  <2>2. pc' \in Relaying => armed' = Lifted
    BY <1>1 DEF Inv, Replenished, Relaying
  <2> QED  BY <1>2, <2>1, <2>2, ServerDone
<1>6. BrowserPlace'
  <2>1. pc = "writeInit" => talk["browser"][3].kind = "clientInit"
    BY DEF Inv, Talking, BrowserTalk, Is
  <2>2. field["browser"] \in Nat
    BY DEF Inv, TypeOK, Peers
  <2> QED  BY <1>1, <1>2, <2>1, <2>2 DEF Inv, BrowserPlace, BrowserAt, ServerPlaces, FromServer
<1>7. Filtered'
  BY <1>1, <1>2, FilteredKept
<1> QED  BY <1>3, <1>4, <1>5, <1>6, <1>7 DEF Inv

(* From the type, or the header, of a message to what comes next of it.      *)
LEMMA ReadTypeStep ==
    ASSUME Inv, ReadType
    PROVE  Inv'
<1> DEFINE s == talk["browser"]
           f == field["browser"]
           t == Value("type")
<1>1. /\ Take("type") /\ UNCHANGED notMessage /\ "type" \in FromBrowser
      /\ msgType' = t /\ begun' = f + 1
      /\ \/ t \in DOMAIN BodyLen /\ pc' = "body" /\ need' = BodyLen[t] /\ armed' = armed
         \/ t \in DOMAIN HeaderLen /\ pc' = "header" /\ need' = HeaderLen[t] /\ armed' = armed
         \/ pc' = "failed" /\ need' = 0 /\ armed' = Lifted
  BY DEF ReadType, Goto, Fail, FromBrowser
<1>2. f \in Nat /\ f >= 3 /\ s[f].kind \in {"clientInit", "body"} /\ f < Len(s)
  <2>1. PeerOf("type") = "browser" /\ pc = "type"
    BY <1>1 DEF PeerOf, FromServer, ToServer, Take, Filled
  <2> QED  BY <1>1, <2>1, TalkShape DEF Inv, TypeOK, BrowserPlace, Peers, Take, InField
<1>3. MessageAt(s, f + 1)
  BY <1>2, TalkShape DEF Inv, Talking, BrowserTalk, Peers
<1>4. t = s[f + 1].val /\ t \in 0..255
  BY <1>3 DEF MessageAt, Value, PeerOf, FromServer, ToServer
<1>5. /\ pc' \in (FromBrowser \cup ToBrowser \cup ToServer \cup {"failed"}) \ ServerPlaces
      /\ need' \in Nat
  BY <1>1 DEF FromBrowser, ServerPlaces, FromServer, BodyLen, HeaderLen
<1>6. /\ Talking' /\ TypeOK' /\ AtField' /\ ServerPlace' /\ Replenished' /\ pc = "type"
      /\ UNCHANGED <<talk, readOnly, forwarded>> /\ Is(s, f + 1, "type", need) /\ field'["browser"] = f + 1
  <2>1. window' \in [Peers -> Nat] /\ window'["server"] = window["server"] /\ UNCHANGED <<secType, greeted, forwarded>>
    BY <1>1 DEF notMessage, Inv, TypeOK
  <2>2. "type" \in Relaying
    BY DEF Relaying
  <2>3. begun' \in Nat
    BY <1>1, <1>2
  <2> QED  BY <1>1, <1>4, <1>5, <2>1, <2>2, <2>3, BrowserReads
<1>7. Filtered'
  BY <1>2, <1>6, FilteredRead DEF Is
<1>8. \A k \in DOMAIN forwarded : forwarded[k].at < f + 1
  BY <1>2 DEF Inv, Filtered, Wanted, WholeBy
<1>9. Reading' /\ BrowserAt(begun)'
  BY <1>1, <1>2, <1>4, <1>6, <1>8 DEF Reading, BrowserAt, Is
<1>10. BrowserPlace'
  <2>1. CASE pc' = "body"
    BY <2>1, <1>1, <1>9 DEF BrowserPlace, InBody, ServerPlaces, FromServer, HeaderLen
  <2>2. CASE pc' = "header"
    BY <2>2, <1>1, <1>9 DEF BrowserPlace, ServerPlaces, FromServer, HeaderLen
  <2>3. CASE pc' = "failed"
    BY <2>3 DEF BrowserPlace, ServerPlaces, FromServer
  <2> QED  BY <1>1, <2>1, <2>2, <2>3
<1> QED  BY <1>6, <1>7, <1>10 DEF Inv

LEMMA ReadHeaderStep ==
    ASSUME Inv, ReadHeader
    PROVE  Inv'
<1> DEFINE s == talk["browser"]
           f == field["browser"]
           n == Value("header")
<1>1. /\ Take("header") /\ UNCHANGED <<msgType, begun, notMessage>> /\ "header" \in FromBrowser
      /\ \/ msgType = 2 /\ pc' = "body" /\ need' = 4 * n /\ armed' = armed
         \/ msgType = 6 /\ pc' = "body" /\ need' = n /\ armed' = armed
         \/ pc' = "failed" /\ need' = 0 /\ armed' = Lifted
  BY DEF ReadHeader, Goto, Fail, FromBrowser
<1>2. f \in Nat /\ f = begun /\ Reading /\ msgType \in {2, 6} /\ f < Len(s)
  <2>1. PeerOf("header") = "browser" /\ pc = "header"
    BY <1>1 DEF PeerOf, FromServer, ToServer, Take, Filled
  <2> QED  BY <1>1, <2>1, TalkShape DEF Inv, TypeOK, BrowserPlace, BrowserAt, Peers, Take, InField
<1>3. MessageAt(s, f)
  <2>1. f \in 4..Len(s) /\ s[f].kind = "type"
    BY <1>2, TalkShape DEF Inv, Peers, Reading
  <2> QED  BY <2>1 DEF Inv, Talking, BrowserTalk
<1>4. n = s[f + 1].val /\ n \in Nat
  BY <1>2, <1>3 DEF MessageAt, Value, PeerOf, FromServer, ToServer, Reading
<1>5. /\ pc' \in (FromBrowser \cup ToBrowser \cup ToServer \cup {"failed"}) \ ServerPlaces
      /\ need' \in Nat
  BY <1>1, <1>4 DEF FromBrowser, ServerPlaces, FromServer
<1>6. /\ Talking' /\ TypeOK' /\ AtField' /\ ServerPlace' /\ Replenished' /\ pc = "header"
      /\ UNCHANGED <<talk, readOnly, forwarded, msgType, begun>>
      /\ Is(s, f + 1, "header", need) /\ field'["browser"] = f + 1
  <2>1. /\ window' \in [Peers -> Nat] /\ window'["server"] = window["server"]
        /\ UNCHANGED <<secType, greeted, forwarded>> /\ msgType' \in 0..255 /\ begun' \in Nat
    BY <1>1 DEF notMessage, Inv, TypeOK
  <2>2. "header" \in Relaying
    BY DEF Relaying
  <2> QED  BY <1>1, <1>5, <2>1, <2>2, BrowserReads
<1>7. Filtered'
  BY <1>2, <1>6, FilteredRead DEF Is
<1>8. Reading'
  BY <1>2, <1>6 DEF Reading
<1>9. BrowserPlace'
  <2>1. CASE pc' = "body"
    <3>1. InBody'
      BY <2>1, <1>1, <1>2, <1>4, <1>6 DEF InBody, BrowserAt, Is
    <3> QED  BY <2>1, <3>1, <1>8 DEF BrowserPlace, ServerPlaces, FromServer
  <2>2. CASE pc' = "failed"
    BY <2>2 DEF BrowserPlace, ServerPlaces, FromServer
  <2> QED  BY <1>1, <2>1, <2>2
<1> QED  BY <1>6, <1>7, <1>9 DEF Inv

(* The body ends the message begun: it is dropped here, or forwarded next.  *)
LEMMA ReadBodyStep ==
    ASSUME Inv, ReadBody
    PROVE  Inv'
<1> DEFINE s == talk["browser"]
           f == field["browser"]
<1>1. /\ Take("body") /\ UNCHANGED <<secType, greeted, msgType, begun, forwarded>> /\ "body" \in FromBrowser
      /\ armed' = armed
      /\ \/ /\ readOnly /\ IsInputMessage(msgType) /\ pc' = "type" /\ need' = 1
            /\ window' = [window EXCEPT !["browser"] = @ + 1]
         \/ /\ ~readOnly \/ ~IsInputMessage(msgType)
            /\ pc' = "forward" /\ need' = 0 /\ window' = window
  BY DEF ReadBody, Goto, GrantOne, FromBrowser
<1>2. f \in Nat /\ Reading /\ InBody /\ f < Len(s) /\ s[f + 1].kind = "body" /\ begun \in 4..f
  <2>1. PeerOf("body") = "browser" /\ pc = "body"
    BY <1>1 DEF PeerOf, FromServer, ToServer, Take, Filled
  <2> QED  BY <1>1, <2>1, TalkShape DEF Inv, TypeOK, BrowserPlace, Peers, Take, InField, Reading
<1>3. MessageEnd(s, begun) = f + 1
  BY <1>2 DEF InBody, BrowserAt, MessageEnd
<1>4. /\ pc' \in (FromBrowser \cup ToBrowser \cup ToServer \cup {"failed"}) \ ServerPlaces
      /\ need' \in Nat
  BY <1>1 DEF FromBrowser, ToServer, ServerPlaces, FromServer
<1>5. /\ Talking' /\ TypeOK' /\ AtField' /\ ServerPlace' /\ Replenished' /\ pc = "body"
      /\ UNCHANGED <<talk, readOnly>> /\ field'["browser"] = f + 1
  <2>1. window' \in [Peers -> Nat] /\ window'["server"] = window["server"] /\ msgType' \in 0..255 /\ begun' \in Nat
    BY <1>1 DEF Inv, TypeOK, Peers
  <2>2. "body" \in Relaying
    BY DEF Relaying
  <2> QED  BY <1>1, <1>4, <2>1, <2>2, BrowserReads
<1>6. Reading'
  BY <1>1, <1>2, <1>5 DEF Reading
<1>7. BrowserPlace'
  BY <1>1, <1>2, <1>3, <1>5, <1>6 DEF BrowserPlace, ServerPlaces, FromServer, IsInputMessage
<1>8. WholeBy(s, f + 1) = WholeBy(s, f) \cup {begun}
  BY <1>2, <1>3, WholeMore DEF Reading
<1>9. Filtered'
  <2>1. Wanted' = Wanted \cup {i \in {begun} : ~readOnly \/ s[i].val \notin {4, 5, 6}}
    BY <1>5, <1>8 DEF Wanted
  <2>2. Wanted \subseteq Sent /\ Sent' = Sent
    BY <1>1, <1>5 DEF Inv, Filtered, Sent
  <2>3. pc' = "type" => Wanted' = Wanted
    BY <2>1, <1>1, <1>2 DEF Reading, IsInputMessage
  <2> QED  BY <1>1, <1>5, <2>1, <2>2, <2>3 DEF Inv, Filtered
<1> QED  BY <1>5, <1>7, <1>9 DEF Inv

LEMMA ForwardStep ==
    ASSUME Inv, Forward
    PROVE  Inv'
<1> DEFINE s == talk["browser"]
           f == field["browser"]
<1>1. /\ pc = "forward" /\ pc' = "type" /\ need' = 1 /\ armed' = armed
      /\ forwarded' = Append(forwarded, [type |-> msgType, at |-> begun])
      /\ window' = [window EXCEPT !["browser"] = @ + 1]
      /\ UNCHANGED <<greeted, talk, readOnly, avail, gone, pos, field, late, secType, msgType, begun>>
  BY DEF Forward, Goto, GrantOne, notWrite, readVars
<1>2. Talking' /\ AtField' /\ \A p \in Peers : pos'[p] <= avail'[p]
  BY <1>1, StillAtField DEF readVars
<1>3. TypeOK'
  BY <1>1, <1>2 DEF Inv, TypeOK, FromBrowser, Peers
<1>4. ServerPlace' /\ Replenished'
  <2>1. pc \notin ServerPlaces \cup {"replenish", "failed"} /\ pc' \notin ServerPlaces \cup {"replenish"}
    BY <1>1 DEF ServerPlaces, FromServer
  <2>2. armed = Lifted /\ window'["server"] = window["server"]
    BY <1>1 DEF Inv, Replenished, Relaying, TypeOK
  <2> QED  BY <1>1, <2>1, <2>2, ServerDone
<1>5. /\ Reading /\ MessageEnd(s, begun) = f /\ s[f].kind = "body" /\ f \in Nat
      /\ ~readOnly \/ ~IsInputMessage(msgType)
  BY <1>1 DEF Inv, BrowserPlace, TypeOK, Peers
<1>6. f >= 3
  BY <1>5 DEF Reading
<1>7. BrowserPlace'
  BY <1>1, <1>5, <1>6 DEF BrowserPlace, ServerPlaces, FromServer
<1>8. begun \in Wanted /\ begun \in Nat /\ msgType = s[begun].val /\ msgType \in 0..255
  BY <1>5 DEF Reading, Wanted, WholeBy, IsInputMessage, Inv, TypeOK
<1>9. Filtered'
  <2>1. forwarded \in Seq([type : 0..255, at : Nat]) /\ Wanted' = Wanted
    BY <1>1 DEF Inv, Filtered, Wanted
  <2>2. /\ forwarded' \in Seq([type : 0..255, at : Nat]) /\ Len(forwarded') = Len(forwarded) + 1
        /\ \A k \in 1..Len(forwarded) : forwarded'[k] = forwarded[k]
        /\ forwarded'[Len(forwarded) + 1] = [type |-> msgType, at |-> begun]
        /\ DOMAIN forwarded = 1..Len(forwarded) /\ DOMAIN forwarded' = 1..(Len(forwarded) + 1)
        /\ Len(forwarded) \in Nat
    BY <1>1, <1>8, <2>1
  <2>3. ASSUME NEW k \in DOMAIN forwarded'
        PROVE  forwarded'[k].at \in Wanted /\ forwarded'[k].type = s[forwarded'[k].at].val
    BY <2>2, <1>8 DEF Inv, Filtered
  <2>4. ASSUME NEW j \in DOMAIN forwarded', NEW k \in DOMAIN forwarded', j < k
        PROVE  forwarded'[j].at < forwarded'[k].at
    <3>1. j \in DOMAIN forwarded /\ forwarded'[j] = forwarded[j]
      BY <2>2, <2>4
    <3>2. CASE k \in DOMAIN forwarded
      <4>1. forwarded'[k] = forwarded[k]
        BY <2>2, <3>2
      <4> QED  BY <3>1, <3>2, <4>1, <2>4 DEF Inv, Filtered
    <3>3. CASE k \notin DOMAIN forwarded
      <4>1. forwarded'[k] = [type |-> msgType, at |-> begun]
        BY <2>2, <3>3
      <4> QED  BY <3>1, <4>1, <1>5 DEF Reading
    <3> QED  BY <3>2, <3>3
  <2>5. begun \in Sent' /\ Sent \subseteq Sent'
    BY <2>2 DEF Sent
  <2>6. Wanted' \ Sent' = {}
    BY <2>1, <2>5, <1>1 DEF Inv, Filtered
  <2> QED  BY <1>1, <2>1, <2>2, <2>3, <2>4, <2>6 DEF Filtered
<1> QED  BY <1>2, <1>3, <1>4, <1>7, <1>9 DEF Inv

-----------------------------------------------------------------------------
(* The invariant, and the theorems it gives.                                *)

LEMMA InvInit == Init => Inv
<1> SUFFICES ASSUME Init
             PROVE  Inv
  OBVIOUS
<1>1. Talking
  BY RfbAssumption DEF Init, Talking
<1>2. TypeOK
  <2>1. Window \in [Peers -> Nat]
    BY RfbAssumption
  <2>2. /\ window \in [Peers -> Nat] /\ pc \in FromServer /\ need \in Nat /\ begun \in Nat
        /\ secType \in {0, None, VNCAuth} /\ msgType \in 0..255
    BY <2>1 DEF Init, FromServer
  <2>4. readOnly \in BOOLEAN /\ late \in BOOLEAN /\ greeted \in BOOLEAN
    BY DEF Init
  <2>3. /\ avail \in [Peers -> Nat] /\ pos \in [Peers -> Nat] /\ field \in [Peers -> Nat]
        /\ gone \in [Peers -> BOOLEAN] /\ armed \in [Peers -> BOOLEAN] /\ \A p \in Peers : pos[p] <= avail[p]
    BY DEF Init, Armed
  <2> QED  BY <2>2, <2>3, <2>4 DEF TypeOK
<1>3. AtField
  <2> SUFFICES ASSUME NEW p \in Peers
               PROVE  /\ field[p] \in 0..Len(talk[p]) /\ pos[p] = End(talk[p], field[p])
                      /\ avail[p] <= End(talk[p], Len(talk[p]))
    BY DEF AtField
  <2>1. field[p] = 0 /\ pos[p] = 0 /\ avail[p] = 0
    BY DEF Init
  <2>2. Len(talk[p]) \in Nat /\ End(talk[p], Len(talk[p])) \in Nat /\ End(talk[p], 0) = 0
    BY <1>1, TalkShape DEF End
  <2> QED  BY <2>1, <2>2
<1>4. ServerPlace
  BY DEF Init, ServerPlace, ServerAt, ServerPlaces, FromServer, Peers
<1>5. Replenished
  BY DEF Init, Replenished, ServerPlaces, FromServer, Relaying
<1>6. BrowserPlace
  BY DEF Init, BrowserPlace, BrowserAt, Peers
<1>7. Filtered
  <2>1. Wanted = {}
    BY DEF Init, Wanted, WholeBy, Peers
  <2> QED  BY <2>1 DEF Init, Filtered
<1> QED  BY <1>1, <1>2, <1>3, <1>4, <1>5, <1>6, <1>7 DEF Inv

LEMMA InvStep == Inv /\ [Next]_vars => Inv'
<1> SUFFICES ASSUME Inv, [Next]_vars
             PROVE  Inv'
  OBVIOUS
<1>1. CASE \E p \in Peers : Deliver(p)
  BY <1>1, DeliverStep
<1>2. CASE (\E p \in Peers : PeerCloses(p)) \/ TimePasses
  BY <1>2, CloseOrClockStep
<1>3. CASE ReadFails \/ ChannelsClose \/ WriteFails
  BY <1>3, FailStep
<1>4. CASE Handshake
  BY <1>4, ServerReadStep, ServerWriteStep DEF Handshake
<1>5. CASE Frontshake
  BY <1>5, FrontshakeReadStep DEF Frontshake
<1>6. CASE ReadMessage
  BY <1>6, FrontshakeReadStep, ReadTypeStep, ReadHeaderStep, ReadBodyStep DEF ReadMessage
<1>7. CASE Write
  BY <1>7, ServerWriteStep, FrontshakeWriteStep, ForwardStep DEF Write
<1>8. CASE UNCHANGED vars
  <2>1. UNCHANGED <<Where, streamVars, lateVars>>
    BY <1>8 DEF vars, Where, lateVars
  <2>2. Talking' /\ AtField' /\ TypeOK' /\ Replenished'
    BY <2>1, StillAtField
       DEF Inv, TypeOK, Replenished, Where, streamVars, lateVars, readVars, filterVars
  <2> QED  BY <2>1, <2>2, PlaceKept DEF Inv
<1> QED  BY <1>1, <1>2, <1>3, <1>4, <1>5, <1>6, <1>7, <1>8 DEF Next

LEMMA InvAlways == Spec => []Inv
BY InvInit, InvStep, PTL DEF Spec

(* The types, and that nothing is read that has not arrived (io.ReadFull).  *)
THEOREM RfbTypeCorrect == Spec => []TypeOK
<1>1. Inv => TypeOK
  BY DEF Inv
<1> QED  BY <1>1, InvAlways, PTL

(* Nothing is written to the browser unless the server has accepted, with   *)
(* its strongest type and all it said read (doHandshakes, Handshake).       *)
THEOREM GreetedAfterAcceptance == Spec => []Authenticated
<1>1. ASSUME Inv, greeted
      PROVE  Authenticated
  <2> DEFINE s == talk["server"]
  <2>1. Accepted /\ ServerTalk(s) /\ Supported(s[1].val)
    BY <1>1 DEF Inv, ServerPlace, Talking, Accepted, Offered
  <2>2. /\ Len(s) = ResultAt /\ field["server"] = Len(s) /\ DOMAIN s = 1..Len(s) /\ ResultAt \in {4, 5}
        /\ s[1].kind = "version" /\ s[2].kind = "count" /\ s[3].kind = "types"
        /\ s[ResultAt].kind = "result" /\ s[ResultAt].val = "ok"
        /\ ResultAt = 5 => s[4].kind = "challenge"
    BY <2>1 DEF ServerTalk, Accepted, Offered, ResultAt, Is, EndToEnd
  <2>3. secType = IF VNCAuth \in Common(s[3].val) THEN VNCAuth ELSE None
    BY <2>1 DEF Accepted, Offered, SelectSecurityType, Common, None, VNCAuth
  <2>4. pos["server"] = End(s, Len(s))
    BY <1>1, <2>2 DEF Inv, AtField, Peers
  <2>5. ASSUME NEW i \in DOMAIN s
        PROVE  i = 1 \/ i = 2 \/ i = 3 \/ i = ResultAt \/ (i = 4 /\ ResultAt = 5)
    BY <2>2
  <2> QED  BY <2>1, <2>2, <2>3, <2>4, <2>5 DEF Authenticated, Supported
<1>2. Inv => Authenticated
  BY <1>1 DEF Authenticated
<1> QED  BY <1>2, InvAlways, PTL

(* The relay starts with credit for the server's next frame and with no     *)
(* deadline left (pump.go:141-163).                                         *)
THEOREM RelayStart == Spec => []RelayStartsClean
<1>1. Inv => RelayStartsClean
  BY DEF Inv, Replenished, RelayStartsClean, Relaying, ServerPlaces, FromServer, Lifted
<1> QED  BY <1>1, InvAlways, PTL

(* Each read asks for the next field, the whole of it and no more           *)
(* (sectypes.go, result.go, clientmsg.go).                                  *)
THEOREM ReadsInSync == Spec => []InSync
<1>1. ASSUME Inv, pc \in FromServer, field["server"] < Len(talk["server"])
      PROVE  InField(pc)
  <2> DEFINE s == talk["server"]
             f == field["server"]
  <2>1. PeerOf(pc) = "server" /\ ServerTalk(s) /\ f \in Nat /\ DOMAIN s = 1..Len(s) /\ Len(s) \in Nat
    BY <1>1, TalkShape DEF PeerOf, Inv, Talking, TypeOK, Peers
  <2>2. Is(s, f + 1, pc, need)
    <3>1. CASE pc = "version"
      BY <1>1, <3>1 DEF Inv, ServerPlace, ServerAt, Talking, ServerTalk
    <3>2. CASE pc = "count"
      BY <1>1, <3>2 DEF Inv, ServerPlace, ServerAt, Talking, ServerTalk
    <3>3. CASE pc = "types"
      BY <1>1, <3>3 DEF Inv, ServerPlace, ServerAt, Talking, ServerTalk
    <3>4. CASE pc = "challenge"
      <4>1. f = 3 /\ need = 16 /\ Offered /\ secType = VNCAuth
        BY <1>1, <3>4 DEF Inv, ServerPlace, ServerAt
      <4>2. VNCAuth \in Common(s[3].val)
        BY <4>1 DEF Offered, SelectSecurityType, None, VNCAuth
      <4> QED  BY <2>1, <3>4, <4>1, <4>2 DEF ServerTalk, Offered
    <3>5. CASE pc = "result"
      BY <1>1, <3>5 DEF Inv, ServerPlace, ServerAt, Talking, ServerTalk, Offered, ResultAt
    <3>6. CASE pc = "reasonLen"
      BY <1>1, <3>6 DEF Inv, ServerPlace, Refusal
    <3>7. CASE pc = "reason"
      BY <1>1, <3>7 DEF Inv, ServerPlace
    <3> QED  BY <1>1, <3>1, <3>2, <3>3, <3>4, <3>5, <3>6, <3>7 DEF FromServer
  <2> QED  BY <1>1, <2>1, <2>2 DEF InField, Is
<1>2. ASSUME Inv, pc \in FromBrowser, field["browser"] < Len(talk["browser"])
      PROVE  InField(pc)
  <2> DEFINE s == talk["browser"]
             f == field["browser"]
  <2>1. PeerOf(pc) = "browser" /\ BrowserTalk(s) /\ f \in Nat /\ DOMAIN s = 1..Len(s) /\ Len(s) \in Nat
    BY <1>2, TalkShape DEF PeerOf, Inv, Talking, TypeOK, Peers, FromBrowser, FromServer, ToServer
  <2>2. Is(s, f + 1, pc, need)
    <3>1. CASE pc \in {"clientVersion", "select", "clientInit"}
      BY <1>2, <3>1 DEF Inv, BrowserPlace, BrowserAt, Talking, BrowserTalk
    <3>2. CASE pc = "type"
      <4>1. f >= 3 /\ s[f].kind \in {"clientInit", "body"} /\ need = 1
        BY <1>2, <3>2 DEF Inv, BrowserPlace
      <4>2. MessageAt(s, f + 1)
        BY <1>2, <2>1, <4>1 DEF BrowserTalk
      <4> QED  BY <3>2, <4>1, <4>2 DEF MessageAt
    <3>3. CASE pc \in {"header", "body"}
      <4>1. Reading /\ begun \in 4..f
        BY <1>2, <3>3 DEF Inv, BrowserPlace, Reading
      <4>2. MessageAt(s, begun) /\ msgType = s[begun].val
        BY <1>2, <2>1, <4>1 DEF BrowserTalk, Reading
      <4>3. CASE pc = "header"
        <5>1. f = begun /\ msgType \in {2, 6} /\ need = HeaderLen[msgType]
          BY <1>2, <4>3 DEF Inv, BrowserPlace, BrowserAt
        <5> QED  BY <4>2, <4>3, <5>1 DEF MessageAt, HeaderLen
      <4>4. CASE pc = "body"
        <5>1. InBody
          BY <1>2, <4>4 DEF Inv, BrowserPlace
        <5>2. CASE BrowserAt(begun) /\ msgType \in DOMAIN BodyLen /\ need = BodyLen[msgType]
          <6>1. msgType \in {0, 3, 4, 5} /\ f = begun
            BY <5>2 DEF BodyLen, BrowserAt
          <6> QED  BY <4>2, <4>4, <5>2, <6>1 DEF MessageAt, BodyLen
        <5>3. CASE /\ BrowserAt(begun + 1) /\ s[begun + 1].kind = "header"
                   /\ \/ msgType = 2 /\ need = 4 * s[begun + 1].val
                      \/ msgType = 6 /\ need = s[begun + 1].val
          <6>1. f + 1 = begun + 2
            BY <4>1, <5>3 DEF BrowserAt
          <6> QED  BY <4>2, <4>4, <5>3, <6>1 DEF MessageAt
        <5> QED  BY <5>1, <5>2, <5>3 DEF InBody
      <4> QED  BY <3>3, <4>3, <4>4
    <3> QED  BY <1>2, <3>1, <3>2, <3>3 DEF FromBrowser
  <2> QED  BY <1>2, <2>1, <2>2 DEF InField, Is
<1>3. Inv => InSync
  BY <1>1, <1>2 DEF InSync, PeerOf, FromBrowser, FromServer, ToServer
<1> QED  BY <1>3, InvAlways, PTL

(* What has been forwarded is, in order, the messages read whole that may   *)
(* reach the server, all but perhaps the last (FilterOnce, Decide).         *)
THEOREM FilterIsSound == Spec => []FilterSound
<1>1. Inv => FilterSound
  BY DEF Inv, Filtered, FilterSound, Wanted, Sent
<1> QED  BY <1>1, InvAlways, PTL

=============================================================================
