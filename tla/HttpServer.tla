------------------------------- MODULE HttpServer -------------------------------
(***************************************************************************)
(* ham/net/http: HttpServer, HttpContext, HttpRequest and HttpResponse on  *)
(* one connection.  The client's requests reach onMessage in whatever      *)
(* pieces the network makes of them, and are parsed from the connection's  *)
(* input buffer, a byte queue (ByteQueue, which Buffer implements).        *)
(*                                                                         *)
(* A byte is a record: the text of a line is one byte, since a cut inside  *)
(* it leaves as much in the buffer as a cut after it; CR and LF are one    *)
(* each; `req' is the request it belongs to.  A body has no line break and *)
(* does not begin with a method.  The connection is what TcpConnection     *)
(* does at this interface: send() is ignored unless it is kConnected, and  *)
(* loses its message while bytes are waiting to be sent.                   *)
(***************************************************************************)
EXTENDS Naturals, Sequences, SequencesExt

CONSTANTS MaxRequests,  \* bound: requests the client makes
          Connections   \* the values of its Connection header, "none" for no header

ASSUME BoundsAssumption == MaxRequests \in Nat
ASSUME ConnectionsAssumption == Connections \subseteq {"none", "close", "Keep-Alive"}

VARIABLES requests,       \* the requests the client has made
          stream,         \* bytes on their way
          inputBuffer,
          context_,       \* the connection's context
          state_,         \* the connection's state
          unsent, fin,    \* bytes are waiting to be sent; shutdownWrite() was called
          sent,           \* the answers send() took
          loop,           \* "hung": its thread is in parseRequest for good; "terminated": an
                          \* exception left onMessage, which nothing catches
          cut, pipelined, \* history: requests that came in pieces; one was sent early
          input           \* history: what parseRequest was last given

connVars == <<state_, unsent, fin, sent>>
vars == <<requests, stream, inputBuffer, context_, connVars, loop, cut, pipelined, input>>

--------------------------------------------------------------------------------
(* Requests as bytes.                                                      *)

\* A body has one byte or none; one request stands for all whose first line is malformed,
\* and one for all whose first line is a method without, in the end, a version ("GET /x",
\* "GET /x "), since nothing after that line is looked at.
Request ==
    [version : {"kHttp10", "kHttp11"}, connection : Connections, body : 0..1]
      \cup [version : {"bad", "noVersion"}, connection : {"none"}, body : {0}]

\* A request line is of one of these kinds; a header line has a colon, a blank line has not.
Bytes(r, i) ==
    LET Byte(is, val) == [is |-> is, val |-> val, req |-> i]
        CRLF == <<Byte("\r", ""), Byte("\n", "")>>
        Header == IF r.connection = "none" THEN << >>
                  ELSE <<Byte("header", r.connection)>> \o CRLF
    IN <<Byte("requestLine", r.version)>> \o CRLF \o Header \o CRLF
         \o [n \in 1..r.body |-> Byte("body", "")]

--------------------------------------------------------------------------------
(* HttpContext and HttpRequest.                                            *)

NewRequest == [of |-> 0, version |-> "kUnknown", connection |-> "none", body |-> << >>]
NewContext == [parseState_ |-> "kExpectRequestLine", request_ |-> NewRequest]

\* Buffer::findCRLF: where the first CR LF begins, 0 if there is none.
findCRLF(buf) ==
    LET found == {i \in 1..Len(buf) - 1 : buf[i].is = "\r" /\ buf[i + 1].is = "\n"}
    IN IF found = {} THEN 0 ELSE Min(found)

Line(buf) == SubSeq(buf, 1, findCRLF(buf) - 1)
retrieveUtil(buf) == SubSeq(buf, findCRLF(buf) + 2, Len(buf))

\* The version a line asks for, or "bad" when it is not method, path and version.  After a
\* method with nothing behind the path, `start' is past end - 1, and std::string's constructor
\* throws.
parseRequestLine(line) ==
    IF Len(line) # 1 \/ line[1].is # "requestLine" THEN "bad"
    ELSE IF line[1].val = "noVersion" THEN "length_error"
    ELSE line[1].val

HasColon(line) == \E i \in 1..Len(line) : line[i].is = "header"

\* headers_[field] = value, for the one field that is looked at.
addHeader(request, line) ==
    [request EXCEPT !.connection = line[CHOOSE i \in 1..Len(line) : line[i].is = "header"].val]

\* reset() swaps all but query_ and body_; parseState_ stays.
reset(c) == [c EXCEPT !.request_ = [NewRequest EXCEPT !.body = c.request_.body]]

\* How parseRequest ends, if it does: it returns a bool or throws.
Parsed(result, hasMore, c, buf) ==
    [result |-> result, hasMore |-> hasMore, context |-> c, rest |-> buf]

\* The line stays in the buffer when it is not complete or not correct.
expectRequestLine(c, buf) ==
    IF findCRLF(buf) = 0 \/ parseRequestLine(Line(buf)) = "bad"
    THEN Parsed("false", FALSE, c, buf)
    ELSE IF parseRequestLine(Line(buf)) = "length_error"
    THEN Parsed("length_error", FALSE, c, buf)
    ELSE Parsed("true", TRUE,
                [parseState_ |-> "kExpectHeaders",
                 request_ |-> [c.request_ EXCEPT !.version = parseRequestLine(Line(buf)),
                                                 !.of = buf[1].req]],
                retrieveUtil(buf))

\* Seeded fault: the line break is not read with its line.
expectHeaders_Leaves(c, buf) ==
    IF findCRLF(buf) = 0 THEN Parsed("true", FALSE, c, buf)
    ELSE IF HasColon(Line(buf))
    THEN Parsed("true", TRUE, [c EXCEPT !.request_ = addHeader(@, Line(buf))],
                SubSeq(buf, findCRLF(buf), Len(buf)))
    ELSE Parsed("true", TRUE, [c EXCEPT !.parseState_ = "kExpectBody"], retrieveUtil(buf))

expectHeaders(c, buf) ==
    IF findCRLF(buf) = 0 THEN Parsed("true", FALSE, c, buf)
    ELSE Parsed("true", TRUE,
                IF HasColon(Line(buf)) THEN [c EXCEPT !.request_ = addHeader(@, Line(buf))]
                                       ELSE [c EXCEPT !.parseState_ = "kExpectBody"],
                retrieveUtil(buf))

\* All there is, is the body.
expectBody(c, buf) ==
    Parsed("true", FALSE,
           [parseState_ |-> "kGotAll", request_ |-> [c.request_ EXCEPT !.body = buf]], << >>)

\* One round of the while loop.
ParseStep(c, buf) ==
    CASE c.parseState_ = "kExpectRequestLine" -> expectRequestLine(c, buf)
      [] c.parseState_ = "kExpectHeaders" -> expectHeaders(c, buf)
      [] c.parseState_ = "kExpectBody" -> expectBody(c, buf)

gotAll(c) == c.parseState_ = "kGotAll"

RECURSIVE parseRequest(_, _)
parseRequest(c, buf) ==
    LET s == ParseStep(c, buf) IN IF s.hasMore THEN parseRequest(s.context, s.rest) ELSE s

--------------------------------------------------------------------------------
(* HttpServer.                                                             *)

\* onConnection has set the context.
Init ==
    /\ requests = << >> /\ stream = << >> /\ inputBuffer = << >>
    /\ context_ = NewContext
    /\ state_ = "kConnected" /\ unsent = FALSE /\ fin = FALSE /\ sent = << >>
    /\ loop = "runs"
    /\ cut = {} /\ pipelined = FALSE /\ input = << >>

isShortConn(request) ==
    \/ request.connection = "close"
    \/ request.version = "kHttp10" /\ request.connection # "Keep-Alive"

Answer(code, of, close) == [code |-> code, of |-> of, close |-> close]

\* Seeded fault: the connection is left open.
Reply_Open(answer) ==
    /\ sent' = IF state_ # "kConnected" \/ unsent THEN sent ELSE Append(sent, answer)
    /\ unsent' \in IF state_ # "kConnected" \/ unsent THEN {unsent} ELSE BOOLEAN
    /\ UNCHANGED <<state_, fin>>

\* conn->send() of the answer, written whole or in part, and conn->shutdown() if it is
\* the last: shutdown waits for bytes being sent.
Reply(answer) ==
    LET last == answer.close /\ state_ = "kConnected"
    IN  /\ sent' = IF state_ # "kConnected" \/ unsent THEN sent ELSE Append(sent, answer)
        /\ unsent' \in IF state_ # "kConnected" \/ unsent THEN {unsent} ELSE BOOLEAN
        /\ state_' = IF ~last THEN state_ ELSE IF unsent' THEN "kDisconnecting" ELSE "kDisconnected"
        /\ fin' = (fin \/ (last /\ ~unsent'))

\* Seeded fault: the connection's own context is parsed into and reset.
StoredContext_Shared(c) == IF gotAll(c) THEN reset(c) ELSE c

\* onMessage parses a copy of the connection's context, and drops it.
StoredContext(c) == context_

\* A piece of n bytes arrives and onMessage runs.  In kGotAll the parser's loop has
\* nothing to do and does not end.
OnMessage(n) ==
    /\ loop = "runs" /\ n \in 1..Len(stream)
    /\ stream' = SubSeq(stream, n + 1, Len(stream))
    /\ input' = inputBuffer \o SubSeq(stream, 1, n)
    /\ cut' = cut \cup (IF n < Len(stream) /\ stream[n].req = stream[n + 1].req
                        THEN {stream[n].req} ELSE {})
    /\ IF gotAll(context_)
       THEN loop' = "hung" /\ inputBuffer' = input' /\ UNCHANGED <<context_, connVars>>
       ELSE \E p \in {parseRequest(context_, input')} :
            /\ inputBuffer' = p.rest
            /\ context_' = StoredContext(p.context)
            /\ loop' = IF p.result = "length_error" THEN "terminated" ELSE loop
            /\ \/ p.result = "false" /\ Reply(Answer(400, 0, TRUE))
               \/ /\ p.result = "true" /\ gotAll(p.context)
                  /\ Reply(Answer(200, p.context.request_.of, isShortConn(p.context.request_)))
               \/ p.result = "true" /\ ~gotAll(p.context) /\ UNCHANGED connVars
               \/ p.result = "length_error" /\ UNCHANGED connVars
    /\ UNCHANGED <<requests, pipelined>>

\* handleWrite: the rest of an answer goes out, and a shutdown that waited is done.
Drain ==
    /\ loop = "runs" /\ unsent
    /\ unsent' = FALSE
    /\ fin' = (fin \/ state_ = "kDisconnecting")
    /\ state_' = IF state_ = "kDisconnecting" THEN "kDisconnected" ELSE state_
    /\ UNCHANGED <<requests, stream, inputBuffer, context_, sent, loop, cut, pipelined, input>>

\* The answers the client has in full.
Received == Len(sent) - (IF unsent THEN 1 ELSE 0)

\* The client makes a request, after the answer to the last or before.
ClientRequests(r) ==
    /\ loop # "terminated" /\ state_ = "kConnected" /\ Len(requests) < MaxRequests
    /\ requests' = Append(requests, r)
    /\ stream' = stream \o Bytes(r, Len(requests'))
    /\ pipelined' = (pipelined \/ Received < Len(requests))
    /\ UNCHANGED <<inputBuffer, context_, connVars, loop, cut, input>>

Next ==
    \/ \E n \in 1..Len(stream) : OnMessage(n)
    \/ Drain
    \/ \E r \in Request : ClientRequests(r)

\* The network delivers and the loop runs.
Fairness == WF_vars(Drain) /\ WF_vars(\E n \in 1..Len(stream) : OnMessage(n))

Spec == Init /\ [][Next]_vars /\ Fairness

--------------------------------------------------------------------------------
(* Properties.                                                             *)

\* What a buffer holds, said without a loop: its lines are what is between the CRLFs.
Breaks(buf) == {i \in 1..Len(buf) - 1 : buf[i].is = "\r" /\ buf[i + 1].is = "\n"}
LineEndingAt(buf, i) ==
    LET before == {j + 1 : j \in {b \in Breaks(buf) : b < i}} \cup {0}
        start == (CHOOSE j \in before : \A k \in before : k <= j) + 1
    IN SubSeq(buf, start, i - 1)

\* A request is complete when, after a correct first line, some line has no colon.
HeadEnds(buf) ==
    {i \in Breaks(buf) : /\ ~HasColon(LineEndingAt(buf, i))
                         /\ \E j \in Breaks(buf) : j < i}
FirstBreak(buf) == CHOOSE i \in Breaks(buf) : \A j \in Breaks(buf) : i <= j
StartsWith(buf, versions) ==
    /\ Breaks(buf) # {} /\ FirstBreak(buf) = 2
    /\ buf[1].is = "requestLine" /\ buf[1].val \in versions
GoodStart(buf) == StartsWith(buf, {"kHttp10", "kHttp11"})

\* parseRequest (HttpContext.cc:9) on everything it was given: it succeeds exactly when the
\* buffer begins with a whole correct request line, throws exactly when it begins with a
\* whole line that is a method without a version (HttpContext.cc:86, against the comment at
\* line 62, that it returns false for every wrong request line), and otherwise returns false
\* with the buffer as it was; it has a request exactly when the first line without a colon
\* is complete; its Connection header is then the last one before that line and its body is
\* all that follows; and it is never left in the middle of a line.
ParseAgrees ==
    LET p == parseRequest(NewContext, input)
        end == CHOOSE i \in HeadEnds(input) : \A j \in HeadEnds(input) : i <= j
        headers == {i \in 1..end : input[i].is = "header"}
        got == p.context.request_
    IN /\ p.result = "true" <=> GoodStart(input)
       /\ p.result = "length_error" <=> StartsWith(input, {"noVersion"})
       /\ gotAll(p.context) <=> GoodStart(input) /\ HeadEnds(input) # {}
       /\ p.result # "true" => p.rest = input
       /\ gotAll(p.context) =>
            /\ got.of = input[1].req /\ got.version = input[1].val
            /\ got.body = SubSeq(input, end + 2, Len(input)) /\ p.rest = << >>
            /\ got.connection = IF headers = {} THEN "none"
                                ELSE input[CHOOSE i \in headers : \A j \in headers : j <= i].val
       /\ p.result = "true" /\ ~gotAll(p.context) => findCRLF(p.rest) = 0

\* The answers: each is for a later request than the one before, and says to close the
\* connection exactly when that request asks for it, whatever earlier ones on the same
\* connection asked for; nothing is sent after an answer that closes it; a 400 is only
\* ever sent when a request was malformed or came in pieces; and a client that waits for
\* its answers and whose requests come whole gets the k-th answer for the k-th request
\* (HttpServer.cc:42-77).  Only a request line without a version ends the process.
AnswersMatch ==
    /\ \A k \in 1..Len(sent) :
         /\ sent[k].code = 200 => sent[k].close = isShortConn(requests[sent[k].of])
         /\ sent[k].code = 400 => cut # {} \/ \E i \in 1..Len(requests) : requests[i].version = "bad"
         /\ sent[k].close => k = Len(sent)
         /\ ~pipelined /\ cut = {} /\ sent[k].code = 200 => sent[k].of = k
    /\ \A k, l \in 1..Len(sent) :
         k < l /\ sent[l].code = 200 => sent[k].of < sent[l].of
    /\ sent # << >> /\ Last(sent).close => state_ # "kConnected"
    /\ loop = "terminated" => \E i \in 1..Len(requests) : requests[i].version = "noVersion"

\* A client that waits for each answer before its next request is answered, or its
\* connection is shut down, however the request is cut into pieces: parsing that is given
\* up in the middle is always followed by a 400.  The one exception is a request line
\* without a version, which terminates the process instead (HttpContext.cc:86).
ClientAnswered ==
    \A n \in 1..MaxRequests :
        (Len(requests) = n /\ ~pipelined)
          ~> \/ Received >= n \/ fin \/ pipelined
             \/ /\ loop = "terminated"
                /\ n = Len(requests) /\ requests[n].version = "noVersion"
================================================================================
