----------------------------- MODULE WebSocketWire -----------------------------
(***************************************************************************)
(* The wire of a WebSocket session (websockets/src/chumicro_websockets/     *)
(* _wire.py): the opening handshake and the frames that follow it in one    *)
(* byte stream, which recv() cuts anywhere.                                 *)
(*                                                                          *)
(* A stream is a sequence of numbers.  A payload byte is a digit below      *)
(* Base, so a length of two bytes reaches Base^2 - 1; the two bytes of a    *)
(* frame header keep their layout.  A handshake line is one number above    *)
(* every byte, followed by CR and LF.                                       *)
(***************************************************************************)
EXTENDS Integers, Sequences, SequencesExt

CONSTANTS Talks,        \* what peers say, see below
          RecvBudget,   \* recv_budget_per_tick
          MaxHeader,    \* max_header_bytes
          MaxPayload,   \* max_payload_bytes
          MaxControl,   \* MAX_CONTROL_PAYLOAD_BYTES: 125
          ShortLen,     \* 126, the first length that needs more than a header
          Base          \* 256

\* The handshake cap counts what a chunk adds to an unfinished line.
ASSUME WireAssumption ==
    /\ {RecvBudget, MaxHeader, MaxPayload, ShortLen, Base} \subseteq Nat \ {0}
    /\ MaxControl = ShortLen - 1 /\ ShortLen < Base * Base
    /\ MaxHeader >= RecvBudget + 2

CR == 13
LF == 10
EndLine == <<CR, LF>>

FirstLines == <<"GET /", "GET /other", "POST /", "GET / HTTP/2", "GET", "101", "400", "10x">>
Pairs == << <<"Host", "here">>, <<"Upgrade", "websocket">>, <<"Upgrade", "h2c">>,
            <<"Connection", "upgrade">>, <<"Key", "nonce">>, <<"Key", "short">>,
            <<"Version", "13">>, <<"Version", "8">>, <<"Accept", "nonce">>,
            <<"Accept", "other">>, <<"Extra", "x">>, <<"Connection", "close">> >>
NoColon == 500
First(text) == 300 + SelectInSeq(FirstLines, LAMBDA t : t = text)
Pair(pair) == 400 + SelectInSeq(Pairs, LAMBDA p : p = pair)
HeaderLines == {400 + k : k \in DOMAIN Pairs}

--------------------------------------------------------------------------------
(* The handshake, encoded.  A header dict is a sequence of pairs: a name that   *)
(* is set again keeps its place and takes the new value.                       *)

IndexOfName(headers, name) == SelectInSeq(headers, LAMBDA h : h[1] = name)
SetHeader(headers, pair) ==
    LET k == IndexOfName(headers, pair[1])
    IN  IF k = 0 THEN Append(headers, pair) ELSE [headers EXCEPT ![k] = pair]
Get(headers, name) ==
    LET k == IndexOfName(headers, name) IN IF k = 0 THEN "" ELSE headers[k][2]

\* _merge_extra_headers: the mandatory headers are set after the caller's.
MergedHeaders(extra, mandatory) == FoldLeft(SetHeader, <<>>, extra \o mandatory)

Block(first, headers) ==
    <<First(first)>> \o EndLine
      \o FlattenSeq([k \in DOMAIN headers |-> <<Pair(headers[k])>> \o EndLine]) \o EndLine

ClientHandshake(extra) ==
    Block("GET /", MergedHeaders(extra,
        << <<"Host", "here">>, <<"Upgrade", "websocket">>, <<"Connection", "upgrade">>,
           <<"Key", "nonce">>, <<"Version", "13">> >>))

\* derive_accept_key: the token proves which nonce was answered.
ServerHandshake(nonce, extra) ==
    Block("101", MergedHeaders(extra,
        << <<"Upgrade", "websocket">>, <<"Connection", "upgrade">>, <<"Accept", nonce>> >>))

Rejection(body) == Block("400", << <<"Connection", "close">> >>) \o body

--------------------------------------------------------------------------------
(* The handshake, parsed                                                       *)

NewHello == [s |-> "first", buf |-> <<>>, first |-> "", headers |-> <<>>, leftover |-> <<>>]

\* _validate_upgrade_headers
Upgrades(headers) ==
    Get(headers, "Upgrade") = "websocket" /\ Get(headers, "Connection") = "upgrade"

\* _parse_first_line, _finalize
GoodFirst(role, text) ==
    IF role = "client" THEN text = "101" ELSE text \in {"GET /", "GET /other"}
GoodHeaders(role, headers) ==
    /\ Upgrades(headers)
    /\ IF role = "client" THEN Get(headers, "Accept") = "nonce"
       ELSE Get(headers, "Version") = "13" /\ Get(headers, "Key") = "nonce"

LineBreak(buf) ==
    SelectInSeq([k \in 1..(Len(buf) - 1) |-> SubSeq(buf, k, k + 1)], LAMBDA two : two = EndLine)

FirstLine(p, line) ==
    IF Len(line) = 1 /\ line[1] - 300 \in DOMAIN FirstLines
    THEN FirstLines[line[1] - 300] ELSE "malformed"

ParseLine(p, line, role) ==
    CASE p.s = "first" ->
           IF GoodFirst(role, FirstLine(p, line))
           THEN [p EXCEPT !.s = "headers", !.first = FirstLine(p, line)]
           ELSE [p EXCEPT !.s = "error"]
      [] p.s = "headers" /\ line = <<>> ->
           IF GoodHeaders(role, p.headers)
           THEN [p EXCEPT !.s = "done", !.leftover = p.buf, !.buf = <<>>]
           ELSE [p EXCEPT !.s = "error"]
      [] p.s = "headers" /\ line # <<>> ->
           IF Len(line) = 1 /\ line[1] \in HeaderLines
           THEN [p EXCEPT !.headers = SetHeader(@, Pairs[line[1] - 400])]
           ELSE [p EXCEPT !.s = "error"]

RECURSIVE ParseLines(_, _)
ParseLines(p, role) ==
    LET k == LineBreak(p.buf)
    IN  IF p.s \in {"done", "error"} \/ k = 0 THEN p
        ELSE ParseLines(ParseLine([p EXCEPT !.buf = SubSeq(p.buf, k + 2, Len(p.buf))],
                                  SubSeq(p.buf, 1, k - 1), role), role)

FeedHello(p, chunk, role) ==
    IF p.s \in {"done", "error"} THEN p
    ELSE LET q == [p EXCEPT !.buf = @ \o chunk]
         IN  IF Len(q.buf) > MaxHeader THEN [q EXCEPT !.s = "error"] ELSE ParseLines(q, role)

--------------------------------------------------------------------------------
(* Frames, encoded                                                             *)

Continuation == 0
Text == 1
Binary == 2
CloseOp == 8
Ping == 9
Pong == 10
DataOpcodes == {Continuation, Text, Binary}
ControlOpcodes == {CloseOp, Ping, Pong}

BigEndian(n, width) == [k \in 1..width |-> (n \div Base^(width - k)) % Base]
NumberOf(digits) == FoldLeft(LAMBDA n, d : n * Base + d, 0, digits)

\* The exclusive or of two digits of two bits.
Xor(a, b) == ((a + b) % 2) + 2 * (((a \div 2) + (b \div 2)) % 2)

\* The payload from offset "from" on, masked or unmasked by key.
Masked(payload, key, from) ==
    [k \in DOMAIN payload |-> Xor(payload[k], key[1 + ((from + k - 1) % 4)])]

FrameBytes(op, payload, fin, rsv, key) ==
    LET n == Len(payload)
        bit == IF key = <<>> THEN 0 ELSE 128
    IN  <<(IF fin THEN 128 ELSE 0) + 16 * rsv + op>>
          \o (IF n < ShortLen THEN <<bit + n>>
              ELSE IF n < Base^2 THEN <<bit + ShortLen>> \o BigEndian(n, 2)
              ELSE <<bit + ShortLen + 1>> \o BigEndian(n, 8))
          \o key
          \o (IF key = <<>> THEN payload ELSE Masked(payload, key, 0))

\* Digits 0 and 1 are characters, 3 begins one of two bytes and 2 ends it.
Utf8(bytes) ==
    \A k \in DOMAIN bytes :
        /\ bytes[k] = 3 => k < Len(bytes) /\ bytes[k + 1] = 2
        /\ bytes[k] = 2 => k > 1 /\ bytes[k - 1] = 3

\* Close codes are numbers of two digits; 5, 6 and 15 are reserved.
NoCode == -1
ReservedCodes == {5, 6, 15}
Meaningless == <<"error">>
ClosePayload(code, reason) == IF code = NoCode THEN <<>> ELSE BigEndian(code, 2) \o reason
ParseClose(payload) ==
    IF payload = <<>> THEN <<NoCode, <<>>>>
    ELSE IF Len(payload) = 1 THEN Meaningless
    ELSE LET code == NumberOf(SubSeq(payload, 1, 2))
             reason == SubSeq(payload, 3, Len(payload))
         IN  IF code \in ReservedCodes \/ ~Utf8(reason) THEN Meaningless ELSE <<code, reason>>

--------------------------------------------------------------------------------
(* Frames, parsed: feed() takes what the field or payload at hand still needs  *)

FieldSize == [header |-> 2, len16 |-> 2, len64 |-> 8, mask |-> 4]

NewFrame == [s |-> "header", scratch |-> <<>>, fin |-> FALSE, op |-> 0, masked |-> FALSE,
             length |-> 0, key |-> <<>>, payload |-> <<>>, oversized |-> FALSE, drain |-> 0]

AfterMask(p) ==
    CASE p.oversized -> [p EXCEPT !.s = IF p.drain = 0 THEN "ready" ELSE "draining"]
      [] ~p.oversized /\ p.length = 0 -> [p EXCEPT !.s = "ready"]
      [] OTHER -> [p EXCEPT !.s = "payload", !.payload = <<>>]

\* A frame over the cap still has its mask to read.
AfterLength(p) ==
    LET over == p.length > MaxPayload
        q == [p EXCEPT !.oversized = over, !.drain = IF over THEN p.length ELSE 0]
    IN  CASE p.op \in ControlOpcodes /\ p.length > MaxControl -> [p EXCEPT !.s = "error"]
          [] ~(p.op \in ControlOpcodes /\ p.length > MaxControl) /\ p.masked -> [q EXCEPT !.s = "mask"]
          [] OTHER -> AfterMask(q)

DispatchHeader(p, two) ==
    LET op == two[1] % 16
        marker == two[2] % 128
        q == [p EXCEPT !.fin = two[1] >= 128, !.op = op, !.masked = two[2] >= 128]
    IN  CASE \/ (two[1] \div 16) % 8 # 0
             \/ op \in ControlOpcodes /\ two[1] < 128
             \/ op \notin ControlOpcodes \cup DataOpcodes -> [q EXCEPT !.s = "error"]
          [] OTHER ->
             CASE marker < ShortLen -> AfterLength([q EXCEPT !.length = marker])
               [] marker = ShortLen -> [q EXCEPT !.s = "len16"]
               [] OTHER -> [q EXCEPT !.s = "len64"]

DispatchField(p, field) ==
    CASE p.s = "header" -> DispatchHeader(p, field)
      [] p.s \in {"len16", "len64"} -> AfterLength([p EXCEPT !.length = NumberOf(field)])
      [] p.s = "mask" -> AfterMask([p EXCEPT !.key = field])

AbsorbPayload(p, bytes) ==
    LET q == [p EXCEPT !.payload = @ \o (IF p.masked THEN Masked(bytes, p.key, Len(p.payload))
                                         ELSE bytes)]
    IN  IF Len(q.payload) >= p.length THEN [q EXCEPT !.s = "ready"] ELSE q
DrainPayload(p, bytes) ==
    [p EXCEPT !.drain = @ - Len(bytes), !.s = IF p.drain = Len(bytes) THEN "ready" ELSE @]
AbsorbField(p, bytes) ==
    LET field == p.scratch \o bytes
    IN  IF Len(field) < FieldSize[p.s] THEN [p EXCEPT !.scratch = field]
        ELSE DispatchField([p EXCEPT !.scratch = <<>>], field)

\* Mutant: a field that was cut is read again in full.
NeedWholeField(p) == FieldSize[p.s]

FieldNeed(p) == FieldSize[p.s] - Len(p.scratch)
Need(p) ==
    CASE p.s = "payload" -> p.length - Len(p.payload)
      [] p.s = "draining" -> p.drain
      [] OTHER -> FieldNeed(p)

RECURSIVE ParseFrame(_, _)
\* feed(): the parser, and what it left of the bytes.
ParseFrame(p, bytes) ==
    IF bytes = <<>> \/ p.s \in {"ready", "error"} THEN <<p, bytes>>
    ELSE LET take == IF Need(p) < Len(bytes) THEN Need(p) ELSE Len(bytes)
             some == SubSeq(bytes, 1, take)
         IN  ParseFrame(CASE p.s = "payload" -> AbsorbPayload(p, some)
                          [] p.s = "draining" -> DrainPayload(p, some)
                          [] OTHER -> AbsorbField(p, some),
                        SubSeq(bytes, take + 1, Len(bytes)))

--------------------------------------------------------------------------------
(* The receiving session                                                       *)

\* A talk: the receiver's role, the peer's side of the handshake and whether it is
\* one, and the frames it says, each with its op, fin, rsv, key, payload and, for a
\* CLOSE, what it means.
VARIABLES talk, coming, session
wirevars == <<talk, coming, session>>

FramesOf(says) ==
    FlattenSeq([k \in DOMAIN says |->
        FrameBytes(says[k].op, says[k].payload, says[k].fin, says[k].rsv, says[k].key)])

WireInit ==
    /\ talk \in Talks
    /\ coming = talk.hello \o FramesOf(talk.says)
    /\ session = [phase |-> "hello", hello |-> NewHello, carry |-> <<>>, parser |-> NewFrame,
                  got |-> <<>>]

\* What the session has in hand when a frame is ready.
Dispatched(p) ==
    [op |-> p.op, fin |-> p.fin, masked |-> p.masked, payload |-> p.payload,
     oversized |-> p.oversized, length |-> p.length,
     close |-> IF p.op = CloseOp THEN ParseClose(p.payload) ELSE <<>>,
     text |-> p.op = Text /\ Utf8(p.payload)]

ResetFrame(p) == NewFrame

RECURSIVE FeedFrames(_, _)
\* _feed_frame_bytes, for a session no frame of these ends.
FeedFrames(s, bytes) ==
    LET r == ParseFrame(s.parser, bytes)
    IN  IF bytes = <<>> \/ s.parser.s = "error" THEN s
        ELSE IF r[1].s # "ready" THEN [s EXCEPT !.parser = r[1]]
        ELSE FeedFrames([s EXCEPT !.got = Append(@, Dispatched(r[1])), !.parser = ResetFrame(r[1])],
                        r[2])

\* The session is open: frames that came with the handshake are fed first.
Opened(s) == FeedFrames([s EXCEPT !.phase = "open", !.carry = <<>>], s.carry)

\* _receive_handshake_chunk of either side: a client is open at once, a server
\* answers first; a request for another path is turned down.
HelloChunk(s, chunk) ==
    LET h == FeedHello(s.hello, chunk, talk.role)
        t == [s EXCEPT !.hello = h]
    IN  CASE h.s = "error" -> [t EXCEPT !.phase = "failed"]
          [] h.s = "done" /\ talk.role = "client" -> Opened([t EXCEPT !.carry = h.leftover])
          [] h.s = "done" /\ talk.role = "server" ->
               IF h.first = "GET /" THEN [t EXCEPT !.phase = "answering", !.carry = h.leftover]
               ELSE [t EXCEPT !.phase = "failed"]
          [] OTHER -> t

RecvSome ==
    /\ session.phase \in {"hello", "open"}
    /\ \E n \in 1..RecvBudget :
        /\ n <= Len(coming)
        /\ coming' = SubSeq(coming, n + 1, Len(coming))
        /\ LET chunk == SubSeq(coming, 1, n)
           IN  session' = IF session.phase = "hello" THEN HelloChunk(session, chunk)
                          ELSE FeedFrames(session, chunk)
    /\ UNCHANGED talk

\* The server's 101 is out.
AnswerSent ==
    /\ session.phase = "answering"
    /\ session' = Opened(session)
    /\ UNCHANGED <<talk, coming>>

WireNext == RecvSome \/ AnswerSent

--------------------------------------------------------------------------------
(* Properties                                                                  *)

Offending(f) ==
    \/ f.rsv # 0 \/ f.op \notin DataOpcodes \cup ControlOpcodes
    \/ f.op \in ControlOpcodes /\ (~f.fin \/ Len(f.payload) > MaxControl)

\* What was said, up to the first frame that breaks the protocol.
Heard ==
    LET bad == SelectInSeq(talk.says, Offending)
    IN  IF bad = 0 THEN talk.says ELSE SubSeq(talk.says, 1, bad - 1)
Delivered(f) ==
    LET kept == IF Len(f.payload) > MaxPayload THEN <<>> ELSE f.payload
    IN  [op |-> f.op, fin |-> f.fin, masked |-> f.key # <<>>, payload |-> kept,
         oversized |-> Len(f.payload) > MaxPayload, length |-> Len(f.payload),
         close |-> IF f.op = CloseOp THEN f.means ELSE <<>>,
         text |-> f.op = Text /\ Utf8(kept)]

\* However recv() cuts the stream, handshake and frames together, a handshake is
\* accepted exactly if it is one - what the repository's own encoders write,
\* whatever headers the caller adds, and nothing else - and the frames dispatched
\* are those that were encoded: nothing is lost with the handshake or at a cut, an
\* oversized frame is counted off exactly, and the first frame that breaks the
\* protocol latches the parser (HandshakeRequestParser, HandshakeResponseParser,
\* FrameParser, _feed_frame_bytes).
FramesAsSent ==
    LET expected == [k \in DOMAIN Heard |-> Delivered(Heard[k])]
    IN  /\ session.phase \in {"answering", "open"} => talk.good
        /\ session.phase = "failed" => ~talk.good
        /\ talk.hello # <<>> /\ coming = <<>> => session.phase # "hello"
        /\ IsPrefix(session.got, expected)
        /\ session.phase = "open" /\ coming = <<>> =>
              /\ session.got = expected
              /\ session.parser.s = "error" <=> Len(Heard) < Len(talk.says)
================================================================================
