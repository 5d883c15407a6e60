------------------------------- MODULE RfbSession --------------------------------
(***************************************************************************)
(* One run of the RFB side: the goroutine that calls doHandshakes and then *)
(* pumpBrowserToServer (internal/relay/pump.go, readonly.go), with what    *)
(* internal/rfb reads and writes for it.  First the handshake with the VNC *)
(* server, then the synthetic one with the browser, then the browser's     *)
(* ClientInit and messages, one after the other on the same two streams.   *)
(*                                                                         *)
(* What a peer says is a sequence of fields, each with its length and its  *)
(* value.  The plugin reads by length alone: io.ReadFull waits for as many *)
(* bytes as it asked for, and what it gets is the field only if it started *)
(* where the field starts.  The bytes come in frames cut anywhere, one per *)
(* unit of the host's credit.                                              *)
(***************************************************************************)
EXTENDS Integers, Sequences

CONSTANTS
    Talks,        \* what the two peers may say: per peer, a sequence of fields
    Window,       \* the host's initial credit towards the plugin, per peer (open.go: 4 and 8)
    MaxReason,    \* the sanity limit of ReadReasonString, 1 MiB
    MaxCutText    \* the sanity limit of ReadClientMessage, 16 MiB

Peers == {"server", "browser"}

(* A version is told apart only by its order to 3.8 and by whether it is    *)
(* one at all; a security type is its number.                               *)
Versions == {"malformed", "older", "3.8", "newer"}
None == 1
VNCAuth == 2

(* The types the plugin can go on with.                                     *)
Common(types) == {types[i] : i \in DOMAIN types} \cap {None, VNCAuth}

(***************************************************************************)
(* What the peers say, as RFC 6143 has them: a field has a kind, a length, *)
(* a value, and the position in the stream where it ends.                  *)
(***************************************************************************)
End(fields, i) == IF i = 0 THEN 0 ELSE fields[i].end

EndToEnd(s) ==
    /\ Len(s) \in Nat /\ DOMAIN s = 1..Len(s)
    /\ \A i \in 1..Len(s) : /\ s[i].len \in Nat /\ s[i].end \in Nat
                            /\ s[i].end = End(s, i - 1) + s[i].len

Is(s, i, kind, len) == i \in 1..Len(s) /\ s[i].kind = kind /\ s[i].len = len

(* From field i on, a reason of any length, with which the server ends.     *)
Refusal(s, i) ==
    /\ Is(s, i, "reasonLen", 4) /\ s[i].val \in Nat
    /\ Is(s, i + 1, "reason", s[i].val) /\ Len(s) = i + 1

(* The server offers the types it speaks, and then accepts or refuses; with *)
(* no type to offer it refuses at once.                                     *)
ServerTalk(s) ==
    /\ EndToEnd(s)
    /\ Is(s, 1, "version", 12) /\ s[1].val \in Versions
    /\ Is(s, 2, "count", 1) /\ s[2].val \in 0..255
    /\ IF s[2].val = 0 THEN Refusal(s, 3)
       ELSE /\ Is(s, 3, "types", s[2].val)
            /\ IF Common(s[3].val) = {} THEN Len(s) = 3
               ELSE LET r == IF VNCAuth \in Common(s[3].val) THEN 5 ELSE 4 IN
                    /\ r = 5 => Is(s, 4, "challenge", 16)
                    /\ Is(s, r, "result", 4) /\ s[r].val \in {"ok", "failed"}
                    /\ IF s[r].val = "ok" THEN Len(s) = r ELSE Refusal(s, r + 1)

(* A message is its type and a body, with a header between them where the   *)
(* body's length depends on it.                                             *)
MessageAt(s, i) ==
    LET t == s[i].val
        body(len) == Is(s, i + 1, "body", len)
        counted(len, unit) == /\ Is(s, i + 1, "header", len) /\ s[i + 1].val \in Nat
                              /\ Is(s, i + 2, "body", unit * s[i + 1].val)
    IN  /\ Is(s, i, "type", 1) /\ t \in 0..255
        /\ \/ t = 0 /\ body(19)
           \/ t = 2 /\ counted(3, 4)
           \/ t = 3 /\ body(9)
           \/ t = 4 /\ body(7)
           \/ t = 5 /\ body(5)
           \/ t = 6 /\ counted(7, 1)
           \/ t \notin {0, 2, 3, 4, 5, 6} /\ i < Len(s) /\ s[i + 1].kind = "body"

BrowserTalk(s) ==
    /\ EndToEnd(s)
    /\ Is(s, 1, "clientVersion", 12) /\ s[1].val \in Versions
    /\ Is(s, 2, "select", 1) /\ s[2].val \in 0..255
    /\ Is(s, 3, "clientInit", 1)
    /\ \A i \in 4..Len(s) :
        /\ s[i].kind \in {"type", "header", "body"}
        /\ s[i].kind = "type" \/ s[i - 1].kind \in {"clientInit", "body"} => MessageAt(s, i)

ASSUME RfbAssumption ==
    /\ \A t \in Talks : t = [p \in Peers |-> t[p]] /\ ServerTalk(t["server"]) /\ BrowserTalk(t["browser"])
    /\ Window \in [Peers -> Nat \ {0}] /\ MaxReason \in Nat /\ MaxCutText \in Nat

VARIABLES
    talk,        \* what the peers of this run say
    readOnly,    \* the session's read-only flag
    avail,       \* per peer: bytes that have arrived
    pos,         \* per peer: bytes the plugin has read
    field,       \* per peer: fields it has read
    window,      \* per peer: frames the host may still send
    gone,        \* per peer: the channel ends after the bytes that have arrived
    late,        \* the handshake deadline has passed
    armed,       \* per peer: that deadline is set on the channel
    pc,          \* the field being read, the message being written, or "failed"
    need,        \* bytes of the field being read
    secType,     \* the security type selected
    msgType,     \* the client message being read
    greeted,     \* history: something was written to the browser
    begun,       \* history: the field with which that message began
    forwarded    \* history: the messages written to the server

streamVars == <<avail, window, gone>>
readVars == <<pos, field>>
lateVars == <<late, armed>>
filterVars == <<msgType, begun, forwarded>>
vars == <<talk, readOnly, streamVars, readVars, lateVars, pc, need, secType,
          greeted, filterVars>>

FromServer == {"version", "count", "types", "challenge", "result", "reasonLen", "reason"}
FromBrowser == {"clientVersion", "select", "clientInit", "type", "header", "body"}
ToServer == {"writeVersion", "writeSelect", "writeResponse", "writeInit", "forward"}
ToBrowser == {"writeHello", "writeList", "writeResultOK"}
Relaying == {"clientInit", "writeInit", "type", "header", "body", "forward"}
PeerOf(place) == IF place \in FromServer \cup ToServer THEN "server" ELSE "browser"

-----------------------------------------------------------------------------
(* A frame may end at, one before or one after the end of any field.        *)
Cuts(fields) == {End(fields, i) + d : i \in 1..Len(fields), d \in {-1, 0, 1}} \cap 1..End(fields, Len(fields))

(* Variant: the deadline is set on tcp-relay only.                          *)
ArmedTcpOnly == [p \in Peers |-> p = "server"]

Armed == [p \in Peers |-> TRUE]

Init ==
    /\ talk \in Talks /\ readOnly \in BOOLEAN
    /\ avail = [p \in Peers |-> 0] /\ pos = [p \in Peers |-> 0] /\ field = [p \in Peers |-> 0]
    /\ window = Window /\ gone = [p \in Peers |-> FALSE]
    /\ late = FALSE /\ armed = Armed
    /\ pc = "version" /\ need = 12 /\ secType = 0 /\ msgType = 0
    /\ greeted = FALSE /\ begun = 0 /\ forwarded = <<>>

notPeer == <<talk, readOnly, readVars, lateVars, pc, need, secType, greeted, filterVars>>

(* The host forwards what a peer sent as a frame; the browser waits for the *)
(* plugin to speak first.                                                   *)
Deliver(p) ==
    /\ window[p] > 0 /\ ~gone[p] /\ pc # "failed"
    /\ p = "browser" => greeted
    /\ \E cut \in Cuts(talk[p]) :
        /\ cut > avail[p]
        /\ avail' = [avail EXCEPT ![p] = cut]
    /\ window' = [window EXCEPT ![p] = @ - 1]
    /\ UNCHANGED <<gone, notPeer>>

PeerCloses(p) ==
    /\ ~gone[p] /\ pc # "failed"
    /\ gone' = [gone EXCEPT ![p] = TRUE]
    /\ UNCHANGED <<avail, window, notPeer>>

TimePasses ==
    /\ ~late /\ late' = TRUE
    /\ UNCHANGED <<talk, readOnly, streamVars, readVars, armed, pc, need, secType,
                   greeted, filterVars>>

-----------------------------------------------------------------------------
(* Reading and writing.                                                     *)

Goto(place, n) == pc' = place /\ need' = n /\ armed' = armed

(* Both deadlines are lifted however doHandshakes returns.                  *)
Lifted == [p \in Peers |-> FALSE]

Fail == pc' = "failed" /\ need' = 0 /\ armed' = Lifted

(* The bytes asked for are those of one field, from its first to its last.  *)
InField(kind) ==
    LET p == PeerOf(kind) IN
    /\ field[p] < Len(talk[p])
    /\ talk[p][field[p] + 1].kind = kind
    /\ talk[p][field[p] + 1].len = need

Value(kind) == talk[PeerOf(kind)][field[PeerOf(kind)] + 1].val

(* Variant: Read for io.ReadFull, which takes what there is for the whole.  *)
FilledInPart(kind) ==
    /\ pc = kind
    /\ need = 0 \/ avail[PeerOf(kind)] > pos[PeerOf(kind)]

Filled(kind) ==
    /\ pc = kind
    /\ avail[PeerOf(kind)] - pos[PeerOf(kind)] >= need

(* io.ReadFull of a field succeeds.                                         *)
Take(kind) ==
    /\ Filled(kind) /\ InField(kind)
    /\ pos' = [pos EXCEPT ![PeerOf(kind)] = @ + need]
    /\ field' = [field EXCEPT ![PeerOf(kind)] = @ + 1]
    /\ UNCHANGED <<talk, readOnly, avail, gone, late>>

notHandshake == <<window, greeted, filterVars>>

(* The stream ends before the field or inside it, or the deadline passes,   *)
(* which may also beat bytes that are there: Read's select takes either.  A *)
(* field of no bytes is not read.                                           *)
ReadFails ==
    /\ pc \in FromServer \cup FromBrowser
    /\ LET p == PeerOf(pc) IN
        \/ gone[p] /\ avail[p] - pos[p] < need
        \/ armed[p] /\ late /\ need > 0
    /\ Fail
    /\ UNCHANGED <<talk, readOnly, streamVars, readVars, late, secType, greeted, filterVars>>

(* Teardown, or runPump when the other pump has ended, closes both channels *)
(* at any moment.                                                           *)
ChannelsClose ==
    /\ pc \notin {"replenish", "failed"}
    /\ Fail
    /\ UNCHANGED <<talk, readOnly, streamVars, readVars, late, secType, greeted, filterVars>>

(* The sink refuses the frame, or the deadline passes before it has credit. *)
WriteFails ==
    /\ pc \in ToServer \cup ToBrowser
    /\ Fail
    /\ UNCHANGED <<talk, readOnly, streamVars, readVars, late, secType, greeted, filterVars>>

notWrite == <<talk, readOnly, avail, gone, readVars, late, secType, msgType, begun>>

-----------------------------------------------------------------------------
(* Handshake, towards the server.                                           *)

Supported(version) == version \in {"3.8", "newer"}

ReadVersion ==
    /\ Take("version")
    /\ IF Supported(Value("version")) THEN Goto("writeVersion", 0) ELSE Fail
    /\ UNCHANGED <<secType, notHandshake>>

WriteVersion ==
    /\ pc = "writeVersion"
    /\ Goto("count", 1)
    /\ UNCHANGED <<window, greeted, forwarded, notWrite>>

ReadCount ==
    /\ Take("count")
    /\ IF Value("count") = 0 THEN Goto("reasonLen", 4) ELSE Goto("types", Value("count"))
    /\ UNCHANGED <<secType, notHandshake>>

SelectSecurityType(types) ==
    IF VNCAuth \in Common(types) THEN VNCAuth ELSE IF None \in Common(types) THEN None ELSE 0

ReadTypes ==
    /\ Take("types")
    /\ secType' = SelectSecurityType(Value("types"))
    /\ IF secType' = 0 THEN Fail ELSE Goto("writeSelect", 0)
    /\ UNCHANGED notHandshake

WriteSelect ==
    /\ pc = "writeSelect"
    /\ IF secType = VNCAuth THEN Goto("challenge", 16) ELSE Goto("result", 4)
    /\ UNCHANGED <<window, greeted, forwarded, notWrite>>

ReadChallenge ==
    /\ Take("challenge")
    /\ Goto("writeResponse", 0)
    /\ UNCHANGED <<secType, notHandshake>>

WriteResponse ==
    /\ pc = "writeResponse"
    /\ Goto("result", 4)
    /\ UNCHANGED <<window, greeted, forwarded, notWrite>>

(* Variant: whatever the result says is taken for success.                  *)
ReadResultUnchecked ==
    /\ Take("result")
    /\ Goto("replenish", 0)
    /\ UNCHANGED <<secType, notHandshake>>

ReadResult ==
    /\ Take("result")
    /\ IF Value("result") = "ok" THEN Goto("replenish", 0) ELSE Goto("reasonLen", 4)
    /\ UNCHANGED <<secType, notHandshake>>

ReadReasonLen ==
    /\ Take("reasonLen")
    /\ IF Value("reasonLen") > MaxReason THEN Fail ELSE Goto("reason", Value("reasonLen"))
    /\ UNCHANGED <<secType, notHandshake>>

ReadReason ==
    /\ Take("reason")
    /\ Fail
    /\ UNCHANGED <<secType, notHandshake>>

(* Variant: nothing is granted for the frames the handshake has read.       *)
ReplenishForgotten ==
    /\ pc = "replenish"
    /\ Goto("writeHello", 0)
    /\ UNCHANGED <<window, greeted, forwarded, notWrite>>

(* The batch of credit doHandshakes grants between the two handshakes.      *)
Replenish ==
    /\ pc = "replenish"
    /\ Goto("writeHello", 0)
    /\ window' = [window EXCEPT !["server"] = @ + Window["server"]]
    /\ UNCHANGED <<greeted, forwarded, notWrite>>

-----------------------------------------------------------------------------
(* Frontshake, towards the browser.                                         *)

WriteHello ==
    /\ pc = "writeHello"
    /\ Goto("clientVersion", 12)
    /\ greeted' = TRUE
    /\ UNCHANGED <<window, forwarded, notWrite>>

ReadClientVersion ==
    /\ Take("clientVersion")
    /\ IF Value("clientVersion") = "3.8" THEN Goto("writeList", 0) ELSE Fail
    /\ UNCHANGED <<secType, notHandshake>>

WriteList ==
    /\ pc = "writeList"
    /\ Goto("select", 1)
    /\ UNCHANGED <<window, greeted, forwarded, notWrite>>

ReadSelect ==
    /\ Take("select")
    /\ IF Value("select") = None THEN Goto("writeResultOK", 0) ELSE Fail
    /\ UNCHANGED <<secType, notHandshake>>

(* The last write of doHandshakes, and its deferred calls: no deadline is   *)
(* left on either channel.                                                  *)
WriteResultOK ==
    /\ pc = "writeResultOK"
    /\ pc' = "clientInit" /\ need' = 1
    /\ armed' = Lifted
    /\ UNCHANGED <<window, greeted, forwarded, notWrite>>

-----------------------------------------------------------------------------
(* pumpBrowserToServer: ClientInit, then FilterOnce for ever.               *)

notMessage == <<window, secType, greeted, forwarded>>

ReadClientInit ==
    /\ Take("clientInit")
    /\ Goto("writeInit", 0)
    /\ UNCHANGED <<msgType, begun, notMessage>>

WriteInit ==
    /\ pc = "writeInit"
    /\ Goto("type", 1)
    /\ UNCHANGED <<window, greeted, forwarded, notWrite>>

(* Variant: the type byte is counted again.                                 *)
WholeLen == [t \in {0, 3, 4, 5} |-> CASE t = 0 -> 20 [] t = 3 -> 10 [] t = 4 -> 8 [] t = 5 -> 6]

(* The body that follows the type byte of the messages of one length.       *)
BodyLen == [t \in {0, 3, 4, 5} |-> CASE t = 0 -> 19 [] t = 3 -> 9 [] t = 4 -> 7 [] t = 5 -> 5]
HeaderLen == [t \in {2, 6} |-> IF t = 2 THEN 3 ELSE 7]

ReadType ==
    /\ Take("type")
    /\ LET t == Value("type") IN
        /\ msgType' = t /\ begun' = field["browser"] + 1
        /\ CASE t \in DOMAIN BodyLen -> Goto("body", BodyLen[t])
             [] t \in DOMAIN HeaderLen -> Goto("header", HeaderLen[t])
             [] OTHER -> Fail
    /\ UNCHANGED notMessage

(* SetEncodings counts encodings of 4 bytes, ClientCutText bytes of text.   *)
ReadHeader ==
    /\ Take("header")
    /\ LET n == Value("header") IN
        CASE msgType = 2 -> Goto("body", 4 * n)
          [] msgType = 6 /\ n <= MaxCutText -> Goto("body", n)
          [] OTHER -> Fail
    /\ UNCHANGED <<msgType, begun, notMessage>>

(* Variant: pasted text is not counted as input.                            *)
IsKeyOrPointer(t) == t \in {4, 5}

IsInputMessage(t) == t \in {4, 5, 6}

(* Every message that was dealt with earns the browser one frame.           *)
GrantOne == window' = [window EXCEPT !["browser"] = @ + 1]

ReadBody ==
    /\ Take("body")
    /\ IF readOnly /\ IsInputMessage(msgType)
       THEN Goto("type", 1) /\ GrantOne
       ELSE Goto("forward", 0) /\ window' = window
    /\ UNCHANGED <<secType, greeted, msgType, begun, forwarded>>

Forward ==
    /\ pc = "forward"
    /\ forwarded' = Append(forwarded, [type |-> msgType, at |-> begun])
    /\ Goto("type", 1) /\ GrantOne
    /\ UNCHANGED <<greeted, notWrite>>

Handshake ==
    \/ ReadVersion \/ ReadCount \/ ReadTypes \/ ReadChallenge \/ ReadResult
    \/ ReadReasonLen \/ ReadReason \/ Replenish
Frontshake == ReadClientVersion \/ ReadSelect
ReadMessage == ReadClientInit \/ ReadType \/ ReadHeader \/ ReadBody
Write ==
    \/ WriteVersion \/ WriteSelect \/ WriteResponse \/ WriteHello \/ WriteList
    \/ WriteResultOK \/ WriteInit \/ Forward

Next ==
    \/ \E p \in Peers : Deliver(p) \/ PeerCloses(p)
    \/ TimePasses
    \/ Handshake \/ Frontshake \/ ReadMessage \/ ReadFails
    \/ Write \/ WriteFails \/ ChannelsClose

(* Time passes, and the goroutine goes on where it can: with the bytes it   *)
(* waits for, or with the end or the deadline of what it waits on.  No peer *)
(* has to say anything, and a write may wait for credit until the deadline. *)
Fairness ==
    /\ WF_vars(TimePasses)
    /\ WF_vars(Handshake \/ Frontshake \/ ReadMessage \/ ReadFails)
    /\ WF_vars(late /\ pc \in ToServer \cup ToBrowser /\ armed[PeerOf(pc)] /\ (Write \/ WriteFails))

Spec == Init /\ [][Next]_vars /\ Fairness

-----------------------------------------------------------------------------
(* Every variable keeps to its values, and nothing is read that has not     *)
(* arrived.                                                                 *)
TypeOK ==
    /\ readOnly \in BOOLEAN /\ late \in BOOLEAN /\ greeted \in BOOLEAN
    /\ avail \in [Peers -> Nat] /\ pos \in [Peers -> Nat] /\ field \in [Peers -> Nat]
    /\ window \in [Peers -> Nat] /\ gone \in [Peers -> BOOLEAN] /\ armed \in [Peers -> BOOLEAN]
    /\ pc \in FromServer \cup FromBrowser \cup ToServer \cup ToBrowser \cup {"replenish", "failed"}
    /\ need \in Nat /\ secType \in {0, None, VNCAuth} /\ msgType \in 0..255 /\ begun \in Nat
    /\ \A p \in Peers : pos[p] <= avail[p]

(* The browser is told nothing before the server has accepted: its version  *)
(* is one the plugin speaks, the type selected is the strongest it offered, *)
(* its result is OK and nothing it said is left unread (doHandshakes' order *)
(* and the early returns of Handshake).                                     *)
Authenticated ==
    LET s == talk["server"] IN
    greeted =>
        /\ \A i \in DOMAIN s :
            /\ s[i].kind = "version" => s[i].val \in {"3.8", "newer"}
            /\ s[i].kind = "types" => secType = IF VNCAuth \in Common(s[i].val) THEN VNCAuth ELSE None
            /\ s[i].kind = "result" => s[i].val = "ok"
        /\ \E i \in DOMAIN s : s[i].kind = "result"
        /\ pos["server"] = End(s, Len(s))

(* When the relay starts the host has credit for ServerInit, however many   *)
(* frames the handshake took (the deadlock pump.go:153-160 tells of), and   *)
(* neither channel is left with the handshake's deadline, which would end   *)
(* the relay later (pump.go:141-144).                                       *)
RelayStartsClean ==
    pc \in Relaying => window["server"] > 0 /\ \A p \in Peers : ~armed[p]

(* Whatever the lengths of fields and messages, and wherever the frames are *)
(* cut, every read takes exactly one field: the handshake stops before      *)
(* ClientInit, ClientInit is no message, and each message ends where the    *)
(* next begins.                                                             *)
InSync ==
    LET p == PeerOf(pc) IN
    (pc \in FromServer \cup FromBrowser /\ field[p] < Len(talk[p])) => InField(pc)

(* The field a message that begins with field i ends with, and the messages *)
(* of which the first n fields are all there is to read.                    *)
MessageEnd(s, i) == IF s[i + 1].kind = "header" THEN i + 2 ELSE i + 1
WholeBy(s, n) == {i \in 1..n : s[i].kind = "type" /\ MessageEnd(s, i) <= n}

(* What reaches the server is, in order and without a gap, the messages     *)
(* that were read whole, less those that carry input when the session is    *)
(* read-only; a message that was cut short leaves nothing behind.           *)
FilterSound ==
    LET whole == WholeBy(talk["browser"], field["browser"])
        wanted == {i \in whole : ~readOnly \/ talk["browser"][i].val \notin {4, 5, 6}}
        sent == {forwarded[k].at : k \in DOMAIN forwarded}
    IN /\ \A k \in DOMAIN forwarded :
            forwarded[k].at \in wanted /\ forwarded[k].type = talk["browser"][forwarded[k].at].val
       /\ \A j, k \in DOMAIN forwarded : j < k => forwarded[j].at < forwarded[k].at
       /\ wanted \ sent \subseteq (IF pc = "type" THEN {} ELSE {begun})

(* The handshakes end, one way or the other, even with a server that is     *)
(* silent or whose bytes the host has no credit left to forward.            *)
HandshakeEnds ==
    (pc \notin Relaying \cup {"failed"}) ~> (pc \in Relaying \cup {"failed"})
=============================================================================
