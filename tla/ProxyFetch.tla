----------------------------- MODULE ProxyFetch -----------------------------
(***************************************************************************)
(* One fetch of proxy_handler.cc: HTTPRequest asks an upstream server,     *)
(* reads its answer from a blocking socket and puts together the body that *)
(* HandleRequest sends to the client under its own status, 302.            *)
(*                                                                         *)
(* The upstream server sends its answer in any pieces, closes when it      *)
(* likes, and may reset the connection, which loses what was on the way.   *)
(***************************************************************************)
EXTENDS Integers, Sequences

CONSTANT Answers   \* what the upstream server may answer

NoLength  == -1   \* c_length_val when no Content-Length was sent
BadLength == -2   \* a Content-Length on which stoi throws

\* The parts of a body that the filter of links tells apart.
Part == {"text", "link", "newline"}

Answer == [status : {"200", "other", "invalid"}, fields : BOOLEAN,
           length : Int, type : {"html", "plain"}, body : Seq(Part)]

\* An upstream server that states a length states the right one.
ASSUME AnswersAssumption ==
    \A a \in Answers :
        a \in Answer /\ a.length \in {NoLength, BadLength, Len(a.body)}

VARIABLES
    answer,    \* the upstream server's answer
    sent,      \* how much of it has left the upstream server: lines, then parts
    ended,     \* "open", "closed" or "reset"
    phase,     \* where HTTPRequest is
    taken,     \* how much of the answer the streambuf response has received
    first,     \* last_portion: the parts of the body that came with its head
    resBody,   \* res_body
    page       \* the body of the response to the client

upstream == <<answer, sent, ended>>
fetch == <<phase, taken, first, resBody, page>>
vars == <<answer, sent, ended, phase, taken, first, resBody, page>>

Phases == {"connecting", "status", "head", "rest", "served", "thrown"}

\* The status line, the header lines if there are any, and the empty line.
HeadLen == IF answer.fields THEN 3 ELSE 2
Total == HeadLen + Len(answer.body)

\* The parts of the body among the first n items of the answer.
BodyUpTo(n) == SubSeq(answer.body, 1, n - HeadLen)

Init ==
    /\ answer \in Answers
    /\ sent = 0 /\ ended = "open"
    /\ phase = "connecting" /\ taken = 0
    /\ first = <<>> /\ resBody = <<>> /\ page = <<>>

-----------------------------------------------------------------------------
(* The upstream server, while HTTPRequest holds its socket.                *)

Connected == phase \in {"status", "head", "rest"} /\ ended = "open"

UpstreamSends ==
    /\ Connected /\ sent < Total
    /\ sent' = sent + 1
    /\ UNCHANGED <<answer, ended, fetch>>

UpstreamCloses ==
    /\ Connected
    /\ ended' = "closed"
    /\ UNCHANGED <<answer, sent, fetch>>

UpstreamResets ==
    /\ Connected
    /\ ended' = "reset"
    /\ sent' \in taken .. sent
    /\ UNCHANGED <<answer, fetch>>

-----------------------------------------------------------------------------
(* HTTPRequest.                                                            *)

\* resolve, connect and socket_write throw when they fail.
Connect ==
    /\ phase = "connecting"
    /\ phase' \in {"status", "thrown"}
    /\ UNCHANGED <<upstream, taken, first, resBody, page>>

\* What read_until waits for is in the buffer: the status line; then, its
\* line taken out, the end of a header line before the empty line.
LineSeen == phase = "status" /\ taken >= 1
HeadSeen == phase = "head" /\ answer.fields /\ taken >= HeadLen
Reading == phase \in {"status", "head"} /\ ~LineSeen /\ ~HeadSeen

ReadUntil ==
    /\ Reading
    /\ taken' \in (taken + 1) .. sent
    /\ UNCHANGED <<upstream, phase, first, resBody, page>>

ReadUntilFails ==
    /\ Reading /\ taken = sent /\ ended # "open"
    /\ phase' = "thrown"
    /\ UNCHANGED <<upstream, taken, first, resBody, page>>

\* Fault: the dot of the regular expression takes line ends too.
FirstInBody(body, i) == \A j \in 1 .. i - 1 : body[j] # "link"

\* HTMLFilter: in each line of an HTML body the regular expression takes
\* everything up to the last quote, so it rewrites the line's first link.
FirstInLine(body, i) ==
    \A j \in 1 .. i - 1 :
        body[j] = "link" => \E k \in j + 1 .. i - 1 : body[k] = "newline"

HTMLFilter(body, type) ==
    IF type # "html" THEN body
    ELSE [i \in 1 .. Len(body) |->
            IF body[i] = "link" /\ FirstInLine(body, i) THEN "full" ELSE body[i]]

\* HandleRequest's answer has the status 302, whatever HTTPRequest made.
HandleRequest(body) == phase' = "served" /\ page' = body

Serve(body) ==
    /\ resBody' = body
    /\ HandleRequest(HTMLFilter(body, answer.type))

\* "Invalid response" or the upstream's status code instead of a body.
ServeMessage == HandleRequest(<<"message">>) /\ UNCHANGED resBody

\* Fault: the return after a bad status is missing.
NoEarlyReturn ==
    /\ LineSeen
    /\ phase' = "head"
    /\ page' = IF answer.status = "200" THEN page ELSE <<"message">>
    /\ UNCHANGED <<upstream, taken, first, resBody>>

ParseStatus ==
    /\ LineSeen
    /\ \/ answer.status = "200" /\ phase' = "head" /\ UNCHANGED <<resBody, page>>
       \/ answer.status # "200" /\ ServeMessage
    /\ UNCHANGED <<upstream, taken, first>>

ParseHead ==
    /\ HeadSeen
    /\ \/ /\ answer.length = BadLength
          /\ phase' = "thrown"
          /\ UNCHANGED <<first, resBody, page>>
       \/ /\ answer.length # BadLength
          /\ first' = BodyUpTo(taken)
          /\ IF Len(first') = answer.length
               THEN Serve(first')
               ELSE phase' = "rest" /\ resBody' = first' /\ UNCHANGED page
    /\ UNCHANGED <<upstream, taken>>

\* Fault: read_some in place of read, so the loop's only read may be short.
ReadOnce ==
    /\ phase = "rest" /\ (taken < sent \/ ended # "open")
    /\ taken' \in taken .. sent
    /\ Serve(IF taken' = taken THEN resBody ELSE resBody \o BodyUpTo(taken'))
    /\ UNCHANGED <<upstream, first>>

\* Fault: the buffer is appended before the loop looks at n.
AppendBeforeBreak ==
    /\ phase = "rest" /\ ended # "open"
    /\ taken' = sent
    /\ Serve(resBody \o BodyUpTo(sent))
    /\ UNCHANGED <<upstream, first>>

\* Fault: the loop ends at the announced length only.
ReadUntilLength ==
    /\ phase = "rest" /\ sent - HeadLen = answer.length
    /\ taken' = sent
    /\ Serve(IF taken = sent THEN resBody ELSE resBody \o BodyUpTo(sent))
    /\ UNCHANGED <<upstream, first>>

\* read takes everything up to the end of the connection, however it ends; a
\* second read, of nothing, leaves the loop.  The buffer still has the first
\* parts when it is appended to res_body.
ReadRest ==
    /\ phase = "rest" /\ ended # "open"
    /\ taken' = sent
    /\ Serve(IF taken = sent THEN resBody ELSE resBody \o BodyUpTo(sent))
    /\ UNCHANGED <<upstream, first>>

-----------------------------------------------------------------------------

HTTPRequest == \/ Connect \/ ReadUntil \/ ReadUntilFails
               \/ ParseStatus \/ ParseHead \/ ReadRest

Next == HTTPRequest \/ UpstreamSends \/ UpstreamCloses \/ UpstreamResets

Spec == Init /\ [][Next]_vars

\* The upstream server honours "Connection: close" or fails; the thread runs.
FairSpec == Spec /\ WF_vars(HTTPRequest) /\ WF_vars(UpstreamCloses)

-----------------------------------------------------------------------------
(* Properties.                                                             *)

\* The variables keep their types, and there is a page only once it is served
\* (the early returns of HTTPRequest end the fetch).
TypeOK ==
    /\ answer \in Answers
    /\ sent \in 0 .. Total /\ taken \in 0 .. sent
    /\ ended \in {"open", "closed", "reset"}
    /\ phase \in Phases
    /\ first \in Seq(Part) /\ resBody \in Seq(Part)
    /\ page \in Seq(Part \cup {"full", "message"})
    /\ phase # "served" => page = <<>>

EndsWith(s, t) ==
    /\ Len(t) <= Len(s)
    /\ \A i \in 1 .. Len(t) : s[Len(s) - Len(t) + i] = t[i]

BodyServed == phase = "served" /\ answer.status = "200"

\* HTTPRequest drops nothing it received, and a body is served short only when
\* part of it never arrived: however the pieces, the head and the end of the
\* connection fall together.
NothingLost ==
    BodyServed =>
        /\ EndsWith(resBody, BodyUpTo(taken))
        /\ sent = Total => EndsWith(resBody, answer.body)

\* A body that came whole with its head, or whole after it, is served as it was
\* received (last_portion, the comparison with Content-Length and the loop).
OnePieceIsExact ==
    BodyServed /\ (first = <<>> \/ first = BodyUpTo(taken)) =>
        resBody = BodyUpTo(taken)

\* At least one line end stands between any two links.
OneLinkPerLine(body) ==
    \A i, j \in DOMAIN body : i < j /\ body[i] = "link" /\ body[j] = "link" =>
        \E k \in i + 1 .. j - 1 : body[k] = "newline"

\* The body with every link rewritten and nothing else changed.
Rewritten(body) ==
    [i \in DOMAIN body |-> IF body[i] = "link" THEN "full" ELSE body[i]]

\* "rewrite all absolute urls to be served directly by the host_"
\* (proxy_handler.cc:68): a page is served with every link rewritten and nothing
\* else changed, also when it was cut short or came in two pieces, unless a line
\* of what is served has two links.  Of a page that came in one piece the
\* upstream's own lines tell this; of two pieces the part that is appended twice
\* may put two links into a line, and then the second stays as it was.
LinksRewritten ==
    BodyServed /\ answer.type = "html" =>
        /\ OneLinkPerLine(resBody) => page = Rewritten(resBody)
        /\ /\ first = <<>> \/ first = BodyUpTo(taken)
           /\ OneLinkPerLine(answer.body)
           => page = Rewritten(BodyUpTo(taken))

\* "Write whatever content we already have to output", then "read until EOF,
\* writing data to output as we go": the client gets no more than the upstream
\* sent.  The code does not keep this: the loop appends the first parts again.
BodySentOnce == BodyServed => Len(resBody) <= Len(answer.body)

\* When the upstream server closes, every fetch ends, in a page or an
\* exception: nothing waits for a length that will not come.
FetchEnds == <>(phase \in {"served", "thrown"})
=============================================================================
