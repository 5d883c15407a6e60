------------------------------ MODULE MCRfbSession -------------------------------
(***************************************************************************)
(* The talks of RfbSession for model checking, built from short records of *)
(* what a server and a browser choose to say.                              *)
(***************************************************************************)
EXTENDS RfbSession, SequencesExt

(* TCPRelayInitialCredit, and half of EmbedStreamInitialCredit.             *)
MCWindow == [p \in Peers |-> 4]

F(kind, len, val) == <<[kind |-> kind, len |-> len, val |-> val]>>
Reason(s) == F("reasonLen", 4, s.reason) \o F("reason", s.reason, 0)

(* Each field with the sum of the lengths up to it.                         *)
Laid(fields) ==
    [i \in DOMAIN fields |->
        [kind |-> fields[i].kind, len |-> fields[i].len, val |-> fields[i].val,
         end |-> FoldLeft(LAMBDA sum, f : sum + f.len, 0, SubSeq(fields, 1, i))]]

(* A server has a version, types it offers, a result and a reason's length. *)
Says(s) ==
    F("version", 12, s.version) \o F("count", 1, Len(s.types)) \o
    IF s.types = <<>> THEN Reason(s)
    ELSE F("types", Len(s.types), s.types) \o
         IF Common(s.types) = {} THEN <<>>
         ELSE (IF VNCAuth \in Common(s.types) THEN F("challenge", 16, 0) ELSE <<>>) \o
              F("result", 4, s.result) \o
              IF s.result = "failed" THEN Reason(s) ELSE <<>>

(* n is the number of encodings, the length of the text or of what follows. *)
SaysMessage(m) ==
    F("type", 1, m.type) \o
    CASE m.type = 0 -> F("body", 19, 0)
      [] m.type = 2 -> F("header", 3, m.n) \o F("body", 4 * m.n, 0)
      [] m.type = 3 -> F("body", 9, 0)
      [] m.type = 4 -> F("body", 7, 0)
      [] m.type = 5 -> F("body", 5, 0)
      [] m.type = 6 -> F("header", 7, m.n) \o F("body", m.n, 0)
      [] OTHER -> F("body", m.n, 0)

(* A browser has a version, a choice and messages.                          *)
SaysBrowser(b) ==
    F("clientVersion", 12, b.version) \o F("select", 1, b.select) \o F("clientInit", 1, 0) \o
    FlattenSeq([i \in DOMAIN b.messages |-> SaysMessage(b.messages[i])])

Talk(s, b) == [p \in Peers |-> Laid(IF p = "server" THEN Says(s) ELSE SaysBrowser(b))]

Accepting == [version |-> "3.8", types |-> <<VNCAuth>>, result |-> "ok", reason |-> 0]
Plain == [version |-> "3.8", select |-> None, messages |-> <<>>]

(* Every way a server can open and close the handshake.  Type 19 is one the *)
(* plugin does not speak.                                                   *)
MCServers ==
    {[Accepting EXCEPT !.version = v] : v \in Versions} \cup
    {[Accepting EXCEPT !.types = ts] : ts \in {<<None>>, <<19, None, VNCAuth>>, <<19>>}} \cup
    {[Accepting EXCEPT !.types = <<None>>, !.result = "failed", !.reason = n] : n \in {0, 3}} \cup
    {[Accepting EXCEPT !.types = <<>>, !.reason = n] : n \in {0, MaxReason, MaxReason + 1}}

(* Messages of every type, of no length and of the greatest; 9 is no type.  *)
MCMessages ==
    {[type |-> t, n |-> 0] : t \in {0, 3, 4, 5, 9}} \cup
    {[type |-> 2, n |-> n] : n \in {0, 2, 65535}} \cup
    {[type |-> 6, n |-> n] : n \in {0, 3, MaxCutText, MaxCutText + 1}}
MCBrowsers ==
    {[Plain EXCEPT !.version = v] : v \in Versions} \cup
    {[Plain EXCEPT !.select = t] : t \in {0, VNCAuth}} \cup
    {[Plain EXCEPT !.messages = <<m>>] : m \in MCMessages} \cup
    {[Plain EXCEPT !.messages = <<m[1], m[2]>>] :
        m \in {[type |-> 2, n |-> 2], [type |-> 6, n |-> 0], [type |-> 4, n |-> 0]}
              \X {[type |-> 2, n |-> 0], [type |-> 5, n |-> 0]}}

MCTalks ==
    {Talk(s, Plain) : s \in MCServers} \cup
    {Talk([Accepting EXCEPT !.types = <<None>>], b) : b \in MCBrowsers}
=============================================================================
