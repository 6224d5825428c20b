------------------------------ MODULE HttpRequest ------------------------------
(***************************************************************************)
(* RequestParser and the response encoders of chumicro_http_server: what a  *)
(* connection reads, and the bytes it answers with, over the alphabet of    *)
(* HttpResponse.  A request line is one symbol for each route it can take.  *)
(***************************************************************************)
EXTENDS HttpResponse

CONSTANTS MaxLine, MaxHeaders, MaxRequestBody

ASSUME RequestBounds == {MaxLine, MaxHeaders, MaxRequestBody} \subseteq Nat \ {0}

\* Request lines: a route, a pattern route, a known path with another method,
\* an unknown path.  Any other single symbol is malformed.
RequestLines == {"route", "pattern", "method", "path"}

NewRequest ==
    [s |-> "line", buf |-> <<>>, line |-> "none", head |-> NoHeaders, size |-> 0,
     body |-> <<>>, left |-> 0, err |-> 0]

\* 400: closed without an answer; 413, 414, 431: a limit, answered.
BadRequest == 400
Rejected(p, code) == [p EXCEPT !.s = "error", !.err = code]

ParseRequestLine(p) ==
    CASE ~HasLine(p) /\ Len(p.buf) > MaxLine -> Rejected(p, 414)
      [] ~HasLine(p) /\ Len(p.buf) <= MaxLine -> p
      [] HasLine(p) ->
           CASE LineEnd(p) - 1 > MaxLine -> Rejected(p, 414)
             [] LineEnd(p) - 1 <= MaxLine /\ Single(LineText(p), RequestLines) ->
                   [AfterLine(p) EXCEPT !.line = LineText(p)[1], !.s = "headers"]
             [] OTHER -> Rejected(p, BadRequest)

\* Mutant: what follows the body is taken for it.
AbsorbEverything(p, bytes) ==
    [p EXCEPT !.body = @ \o bytes, !.left = IF @ > Len(bytes) THEN @ - Len(bytes) ELSE 0,
              !.s = IF p.left <= Len(bytes) THEN "done" ELSE @]

\* _body was sized to Content-Length; what comes after it is dropped.
AbsorbRequestBody(p, bytes) ==
    LET take == IF p.left < Len(bytes) THEN p.left ELSE Len(bytes)
    IN  [p EXCEPT !.body = @ \o SubSeq(bytes, 1, take), !.left = @ - take,
                  !.s = IF p.left = take THEN "done" ELSE @]

EnterRequestBody(p) ==
    LET n == IF Len(p.head.len) = 1 /\ p.head.len[1] \in DOMAIN LengthOf
               THEN LengthOf[p.head.len[1]] ELSE -1
    IN  CASE p.head.te # <<>> -> Rejected(p, BadRequest)
          [] p.head.te = <<>> /\ p.head.len = <<>> -> [p EXCEPT !.s = "done"]
          [] OTHER ->
               CASE n < 0 -> Rejected(p, BadRequest)
                 [] n > MaxRequestBody -> Rejected(p, 413)
                 [] n = 0 -> [p EXCEPT !.s = "done"]
                 [] OTHER -> AbsorbRequestBody([p EXCEPT !.s = "body", !.left = n, !.buf = <<>>], p.buf)

ParseRequestHeader(p) ==
    LET text == LineText(p)
        q == [AfterLine(p) EXCEPT !.size = @ + Len(text) + 2]
    IN  CASE p.size + Len(p.buf) > MaxHeaders -> Rejected(p, 431)
          [] p.size + Len(p.buf) <= MaxHeaders /\ ~HasLine(p) -> p
          [] OTHER ->
               CASE text = <<>> -> EnterRequestBody(q)
                 [] Len(text) = 1 /\ HeaderOf(text[1]) # "malformed" ->
                       [q EXCEPT !.head[HeaderOf(text[1])] = Append(@, text[1])]
                 [] OTHER -> Rejected(q, BadRequest)

RequestStep(p) ==
    CASE p.s = "line" -> ParseRequestLine(p)
      [] p.s = "headers" -> ParseRequestHeader(p)
      [] OTHER -> p

RECURSIVE AdvanceRequest(_)
AdvanceRequest(p) == Once(RequestStep(p), LAMBDA q : IF q = p THEN p ELSE AdvanceRequest(q))

FeedRequest(p, bytes) ==
    CASE ~Unparsed(p) -> p
      [] p.s = "body" -> AbsorbRequestBody(p, bytes)
      [] OTHER -> Once([p EXCEPT !.buf = @ \o bytes], AdvanceRequest)

--------------------------------------------------------------------------------
(* What goes out. *)

Token(domain, n) == CHOOSE t \in DOMAIN domain : domain[t] = n

\* encode_response: Content-Length first, then Connection and the rest.
Encoded(code, body) ==
    Line(Token(StatusOf, code)) \o Line(Token(LengthOf, Len(body))) \o Line("other")
      \o CrLf \o body
ErrorPage(code) == Encoded(code, <<"e">>)

\* encode_streaming_headers, and a chunk as _frame_data lays it out.
StreamHead(code, declared) ==
    Line(Token(StatusOf, code))
      \o Line(IF declared < 0 THEN "chunked" ELSE Token(LengthOf, declared))
      \o Line("other") \o CrLf
Frame(bytes) == Line(Token(ChunkOf, Len(bytes))) \o bytes \o CrLf
Terminator == Line("c0") \o CrLf
================================================================================
