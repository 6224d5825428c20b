----------------------------- MODULE HttpResponse ------------------------------
(***************************************************************************)
(* ResponseParser (chumicro_requests/_wire.py): the incremental HTTP/1.1    *)
(* response parser.  The wire alphabet has one symbol for CR, one for LF,   *)
(* one per body byte and one for each line text the parser tells apart, so  *)
(* a line, its CRLF and a body can be cut anywhere between two receives.    *)
(***************************************************************************)
EXTENDS Integers, Sequences

CONSTANTS MaxBody, MaxHeader, BufferSize, WindowSize

ASSUME ResponseBounds ==
    /\ {MaxBody, MaxHeader, BufferSize, WindowSize} \subseteq Nat \ {0}
    /\ BufferSize <= MaxBody

--------------------------------------------------------------------------------
(* Line texts.  A line of more than one symbol is no well-formed line. *)

StatusOf ==
    [s100 |-> 100, s200 |-> 200, s204 |-> 204, s302 |-> 302, s307 |-> 307, s404 |-> 404,
     s405 |-> 405, s413 |-> 413, s414 |-> 414, s431 |-> 431, s500 |-> 500]
LengthOf == [len0 |-> 0, len1 |-> 1, len2 |-> 2, len3 |-> 3, len9 |-> 9, lenNeg |-> -1]
ChunkOf == [c0 |-> 0, c1 |-> 1, c2 |-> 2, c9 |-> 9]

HeaderOf(text) ==
    CASE text \in DOMAIN LengthOf -> "len"
      [] text \in {"chunked", "gzip"} -> "te"
      [] text \in {"loc", "locBad"} -> "loc"
      [] text = "other" -> "other"
      [] OTHER -> "malformed"

CrLf == <<"cr", "lf">>
Line(text) == <<text>> \o CrLf

NoHeaders == [len |-> <<>>, te |-> <<>>, loc |-> <<>>, other |-> <<>>]

NewParser(stream) ==
    [s |-> "status", buf |-> <<>>, code |-> 0, head |-> NoHeaders, complete |-> FALSE,
     body |-> <<>>, rd |-> 0, cap |-> IF stream THEN WindowSize ELSE BufferSize,
     left |-> -1, chunk |-> 0, stream |-> stream, err |-> "none"]

NoParser == [s |-> "absent"]

Failed(p, why) == [p EXCEPT !.s = "error", !.err = why]

Unparsed(p) == p.s \notin {"done", "error"}

\* The staged bytes nobody has read, and the room left for more.
StagedBody(p) == SubSeq(p.body, p.rd + 1, Len(p.body))
BodyFree(p) == p.cap - Len(p.body)

\* read_body_into(n): the cursors return to the start only when all was read.
ReadCount(p, n) == IF n < Len(p.body) - p.rd THEN n ELSE Len(p.body) - p.rd

\* Mutant: the window is rewound with bytes still unread.
RewindAlways(p, n) == [p EXCEPT !.body = SubSeq(@, 1, p.rd), !.rd = 0]

AfterRead(p, n) ==
    IF p.rd + ReadCount(p, n) = Len(p.body)
      THEN [p EXCEPT !.body = <<>>, !.rd = 0]
      ELSE [p EXCEPT !.rd = @ + ReadCount(p, n)]
DiscardBody(p) == [p EXCEPT !.body = <<>>, !.rd = 0]

--------------------------------------------------------------------------------
(* One parse step per state; each returns p itself when it needs more bytes. *)

HasLine(p) == \E i \in 1..Len(p.buf) - 1 : p.buf[i] = "cr" /\ p.buf[i + 1] = "lf"
LineEnd(p) ==
    CHOOSE i \in 1..Len(p.buf) - 1 :
      /\ p.buf[i] = "cr" /\ p.buf[i + 1] = "lf"
      /\ \A j \in 1..i - 1 : ~(p.buf[j] = "cr" /\ p.buf[j + 1] = "lf")
LineText(p) == SubSeq(p.buf, 1, LineEnd(p) - 1)
AfterLine(p) == [p EXCEPT !.buf = SubSeq(@, LineEnd(p) + 2, Len(@))]
Single(text, domain) == Len(text) = 1 /\ text[1] \in domain

ParseStatus(p) ==
    IF Single(LineText(p), DOMAIN StatusOf)
      THEN [AfterLine(p) EXCEPT !.code = StatusOf[LineText(p)[1]], !.s = "headers"]
      ELSE Failed(AfterLine(p), "protocol")

\* _absorb_body_chunk: into the buffer when it fits, else the window overflows
\* or the buffer doubles, floored at this write and capped at max_body_bytes.
Grown(cap, end) ==
    LET wanted == IF 2 * cap < end THEN end ELSE 2 * cap
    IN  IF wanted > MaxBody THEN MaxBody ELSE wanted
AbsorbChunk(p, bytes) ==
    LET end == Len(p.body) + Len(bytes)
    IN  CASE end <= p.cap -> [p EXCEPT !.body = @ \o bytes]
          [] end > p.cap /\ p.stream -> Failed(p, "overflow")
          [] OTHER -> [p EXCEPT !.body = @ \o bytes, !.cap = Grown(p.cap, end)]

AbsorbBody(p, bytes) ==
    CASE p.left = 0 -> p
      [] p.left > 0 ->
            LET take == IF p.left < Len(bytes) THEN p.left ELSE Len(bytes)
                q == AbsorbChunk(p, SubSeq(bytes, 1, take))
            IN  [q EXCEPT !.left = @ - take, !.s = IF p.left = take THEN "done" ELSE @]
      [] p.left < 0 ->
            IF ~p.stream /\ Len(p.body) + Len(bytes) > MaxBody
              THEN Failed(p, "oversized")
              ELSE AbsorbChunk(p, bytes)

\* Bytes that came behind the blank line are the start of the body.
AbsorbTrailing(p) ==
    IF p.buf = <<>> THEN p ELSE AbsorbBody([p EXCEPT !.buf = <<>>], p.buf)

EnterLengthBody(p) ==
    LET n == IF Len(p.head.len) = 1 /\ p.head.len[1] \in DOMAIN LengthOf
               THEN LengthOf[p.head.len[1]] ELSE -1
    IN  CASE n < 0 -> Failed(p, "protocol")
          [] n > MaxBody /\ ~p.stream -> Failed(p, "oversized")
          [] n = 0 -> [p EXCEPT !.left = 0, !.s = "done"]
          [] OTHER ->
               AbsorbTrailing([p EXCEPT !.left = n, !.s = "body", !.body = <<>>,
                                        !.cap = IF n > @ /\ ~p.stream THEN n ELSE @])

EnterBody(p) ==
    IF p.code \in 100..199 \ {101}
      THEN [p EXCEPT !.code = 0, !.head = NoHeaders, !.s = "status"]
      ELSE LET q == [p EXCEPT !.complete = TRUE]
           IN  CASE p.code \in {204, 304} -> [q EXCEPT !.s = "done"]
                 [] p.code \notin {204, 304} /\ p.head.te # <<>> ->
                       IF p.head.te = <<"chunked">> THEN [q EXCEPT !.s = "chunk_size"]
                                                    ELSE Failed(q, "protocol")
                 [] p.code \notin {204, 304} /\ p.head.te = <<>> /\ p.head.len # <<>> ->
                       EnterLengthBody(q)
                 [] OTHER -> AbsorbTrailing([q EXCEPT !.left = -1, !.s = "body"])

ParseHeader(p) ==
    LET text == LineText(p)
        q == AfterLine(p)
    IN  CASE text = <<>> -> EnterBody(q)
          [] Len(text) = 1 /\ HeaderOf(text[1]) # "malformed" ->
                [q EXCEPT !.head[HeaderOf(text[1])] = Append(@, text[1])]
          [] OTHER -> Failed(q, "protocol")

ParseChunkSize(p) ==
    LET n == ChunkOf[LineText(p)[1]]
        q == AfterLine(p)
    IN  CASE ~Single(LineText(p), DOMAIN ChunkOf) -> Failed(q, "protocol")
          [] OTHER ->
               CASE ~p.stream /\ Len(p.body) + n > MaxBody -> Failed(q, "oversized")
                 [] (p.stream \/ Len(p.body) + n <= MaxBody) /\ n = 0 ->
                       [q EXCEPT !.s = "chunk_trailer"]
                 [] OTHER -> [q EXCEPT !.chunk = n, !.s = "chunk_data"]

ConsumeChunkData(p) ==
    LET take == IF p.chunk < Len(p.buf) THEN p.chunk ELSE Len(p.buf)
        q == [AbsorbChunk(p, SubSeq(p.buf, 1, take))
                EXCEPT !.buf = SubSeq(@, take + 1, Len(@)), !.chunk = @ - take]
    IN  CASE q.chunk > 0 \/ Len(q.buf) < 2 -> q
          [] q.chunk = 0 /\ Len(q.buf) >= 2 /\ SubSeq(q.buf, 1, 2) = CrLf ->
                [q EXCEPT !.buf = SubSeq(@, 3, Len(@)), !.s = "chunk_size"]
          [] OTHER -> Failed(q, "protocol")

ParseTrailer(p) ==
    IF LineText(p) = <<>> THEN [AfterLine(p) EXCEPT !.s = "done"] ELSE AfterLine(p)

ParseStep(p) ==
    CASE p.s = "status" /\ HasLine(p) -> ParseStatus(p)
      [] p.s = "headers" /\ HasLine(p) -> ParseHeader(p)
      [] p.s = "chunk_size" /\ HasLine(p) -> ParseChunkSize(p)
      [] p.s = "chunk_data" -> ConsumeChunkData(p)
      [] p.s = "chunk_trailer" /\ HasLine(p) -> ParseTrailer(p)
      [] OTHER -> p

--------------------------------------------------------------------------------
\* Op(v), with v evaluated once (TLC evaluates an argument at each use of it).
Once(v, Op(_)) == CHOOSE r \in {Op(w) : w \in {v}} : TRUE

RECURSIVE Advance(_)
Advance(p) == Once(ParseStep(p), LAMBDA q : IF q = p THEN p ELSE Advance(q))

\* feed(): outside the plain body every unparsed byte counts against the cap.
Feed(p, bytes) ==
    CASE ~Unparsed(p) -> p
      [] Unparsed(p) /\ p.s = "body" -> AbsorbBody(p, bytes)
      [] Unparsed(p) /\ p.s # "body" ->
            IF Len(p.buf) + Len(bytes) > MaxHeader
              THEN Failed(p, "unparsed")
              ELSE Once([p EXCEPT !.buf = @ \o bytes], Advance)

\* feed_eof(): the peer's close ends only a body of unknown length.
FeedEof(p) ==
    CASE ~Unparsed(p) -> p
      [] p.s = "body" /\ p.left < 0 -> [p EXCEPT !.s = "done"]
      [] OTHER -> Failed(p, "closed early")
================================================================================
