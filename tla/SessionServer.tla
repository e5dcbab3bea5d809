--------------------------- MODULE SessionServer ---------------------------
(***************************************************************************)
(* The server's connections: server.cc, session.cc and the io_service of   *)
(* server_main.cc that runs their handlers, one at a time, on one thread.  *)
(*                                                                         *)
(* A client sends one request in segments and may stop, close or reset at  *)
(* any time.  Its session reads until the end of the headers, lets the     *)
(* dispatcher's handler answer, writes the answer and ends.                *)
(***************************************************************************)
EXTENDS StatusObject, FiniteSets

CONSTANTS
    Conns,        \* the connections that clients make
    Asks,         \* what the client of each connection asks for
    Patient,      \* the clients that send all of their request and read the answer
    Descriptors   \* file descriptors for the sockets of sessions

\* A request: the segments it arrives in ("head" ends with the empty line),
\* how its handler may go about it, the status entry of its answer, and the
\* writes the answer takes: asio hands the socket 64 KB at a time.
Ask == [segments : Seq({"part", "head", "body"}),
        handlers : SUBSET {"local", "proxy", "throws"},
        url : STRING, code : STRING, writes : Nat \ {0}]

ASSUME ConnsAssumption == IsFiniteSet(Conns)
ASSUME AsksAssumption == \A c \in Conns : Asks[c] \in Ask
ASSUME DescriptorAssumption == Descriptors \in Nat \ {0}
ASSUME PatientAssumption == Patient \subseteq Conns

VARIABLES
    running,   \* the process is up
    client,    \* "new", "open", "eof" (closed its side) or "reset"
    sent,      \* segments sent by each client
    backlog,   \* connections the kernel holds for async_accept, in order
    sess,      \* what the session of each connection waits for
    read,      \* segments moved to the session's buffer_
    out,       \* the pieces of the answer written to the socket
    entries    \* StatusObject's status_entries_

vars == <<running, client, sent, backlog, sess, read, out, entries>>

\* "reading": async_read_until; "ready": handle_read is queued; "waiting": its
\* handler blocks on an upstream server; "writing": async_write; "written" and
\* "failed": handle_write is queued.
SessStates == {"none", "backlog", "reading", "ready", "waiting", "writing",
               "written", "failed", "closed"}

Size(c) == Len(Asks[c].segments)

TypeOK ==
    /\ running \in BOOLEAN
    /\ client \in [Conns -> {"new", "open", "eof", "reset"}]
    /\ sent \in [Conns -> Nat] /\ \A c \in Conns : sent[c] <= Size(c)
    /\ backlog \in Seq(Conns)
    /\ sess \in [Conns -> SessStates]
    /\ read \in [Conns -> Nat] /\ \A c \in Conns : read[c] <= sent[c]
    /\ out \in [Conns -> Seq({"good", "bad"})]
    /\ \A c \in Conns : Len(out[c]) <= Asks[c].writes
    /\ entries \in Seq(Entry)

Init ==
    /\ running = TRUE
    /\ client = [c \in Conns |-> "new"]
    /\ sent = [c \in Conns |-> 0]
    /\ backlog = <<>>
    /\ sess = [c \in Conns |-> "none"]
    /\ read = [c \in Conns |-> 0]
    /\ out = [c \in Conns |-> <<>>]
    /\ entries = <<>>

\* The end of the headers is among the first n segments.
HeadWithin(c, n) == \E i \in 1 .. n : Asks[c].segments[i] = "head"

\* The io_service is free to run a handler.
Idle == running /\ \A c \in Conns : sess[c] # "waiting"

\* The sessions that hold a socket.
OpenSessions ==
    {c \in Conns : sess[c] \notin {"none", "backlog", "closed"}}

-----------------------------------------------------------------------------
\* The clients and the kernel.

Connect(c) ==
    /\ running /\ client[c] = "new"
    /\ client' = [client EXCEPT ![c] = "open"]
    /\ sess' = [sess EXCEPT ![c] = "backlog"]
    /\ backlog' = Append(backlog, c)
    /\ UNCHANGED <<running, sent, read, out, entries>>

Send(c) ==
    /\ running /\ client[c] = "open" /\ sess[c] # "closed"
    /\ sent[c] < Size(c)
    /\ sent' = [sent EXCEPT ![c] = @ + 1]
    /\ UNCHANGED <<running, client, backlog, sess, read, out, entries>>

\* The client closes its side, or resets the connection.
Leave(c) ==
    /\ running /\ sess[c] # "closed"
    /\ \/ client[c] = "open" /\ client' = [client EXCEPT ![c] = "eof"]
       \/ client[c] \in {"open", "eof"} /\ client' = [client EXCEPT ![c] = "reset"]
    /\ UNCHANGED <<running, sent, backlog, sess, read, out, entries>>

-----------------------------------------------------------------------------
\* The sessions.

\* handle_accept starts the session and accepts again.  Without a descriptor
\* accept fails and is called again at once, which changes nothing.
Accept ==
    /\ Idle
    /\ backlog # <<>>
    /\ Cardinality(OpenSessions) < Descriptors
    /\ sess' = [sess EXCEPT ![Head(backlog)] = "reading"]
    /\ backlog' = Tail(backlog)
    /\ UNCHANGED <<running, client, sent, read, out, entries>>

\* Fault: async_read_some in the place of async_read_until.
ReadAny(c) ==
    /\ Idle /\ sess[c] = "reading" /\ read[c] < sent[c]
    /\ read' = [read EXCEPT ![c] = @ + 1]
    /\ sess' = [sess EXCEPT ![c] = "ready"]
    /\ UNCHANGED <<running, client, sent, backlog, out, entries>>

\* async_read_until takes some of what has arrived; it is done when the end of
\* the headers is in the buffer, whatever has come with it or is still to come.
ReadSome(c) ==
    /\ Idle /\ sess[c] = "reading"
    /\ \E n \in read[c] + 1 .. sent[c] :
        /\ read' = [read EXCEPT ![c] = n]
        /\ sess' = [sess EXCEPT ![c] = IF HeadWithin(c, n) THEN "ready" ELSE @]
    /\ UNCHANGED <<running, client, sent, backlog, out, entries>>

\* The session deletes itself while the handler that runs still holds a
\* shared_ptr to it, which deletes it again: undefined, and malloc notices it
\* or not.
DeleteThis(c) ==
    /\ sess' = [sess EXCEPT ![c] = "closed"]
    /\ running' \in BOOLEAN

\* Fault: a session whose client has closed stays.
KeepSession(c) ==
    /\ Idle /\ sess[c] = "reading" /\ read[c] = sent[c]
    /\ client[c] = "reset" /\ DeleteThis(c)
    /\ UNCHANGED <<client, sent, backlog, read, out, entries>>

\* handle_read with an error: the client left before the end of the headers.
\* At end of file the session goes with its last shared_ptr.
HandleReadError(c) ==
    /\ Idle /\ sess[c] = "reading" /\ read[c] = sent[c]
    /\ \/ client[c] = "eof" /\ sess' = [sess EXCEPT ![c] = "closed"]
                            /\ UNCHANGED running
       \/ client[c] = "reset" /\ DeleteThis(c)
    /\ UNCHANGED <<client, sent, backlog, read, out, entries>>

\* Fault: the first write, too, is made after handle_read has returned.
LateFirstWrite(c) ==
    /\ entries' = addStatusEntry(entries, Asks[c].url, Asks[c].code)
    /\ \E piece \in {"good", "bad"} : out' = [out EXCEPT ![c] = Append(@, piece)]
    /\ sess' = [sess EXCEPT ![c] = IF Asks[c].writes = 1 THEN "written" ELSE "writing"]

\* The end of handle_read: the answer is counted, and async_write makes the
\* first write at once, while the string it writes from is there.  Every
\* HandleRequest returns a response, so the empty answer is never sent.
Respond(c) ==
    /\ entries' = addStatusEntry(entries, Asks[c].url, Asks[c].code)
    /\ IF client[c] = "reset"
       THEN sess' = [sess EXCEPT ![c] = "failed"] /\ UNCHANGED out
       ELSE /\ out' = [out EXCEPT ![c] = Append(@, "good")]
            /\ sess' = [sess EXCEPT
                 ![c] = IF Asks[c].writes = 1 THEN "written" ELSE "writing"]

\* handle_read with a request.  An exception of the handler leaves
\* io_service.run(), and main returns.
HandleRead(c) ==
    /\ Idle /\ sess[c] = "ready"
    /\ \/ "local" \in Asks[c].handlers /\ Respond(c) /\ UNCHANGED running
       \/ /\ "proxy" \in Asks[c].handlers
          /\ sess' = [sess EXCEPT ![c] = "waiting"]
          /\ UNCHANGED <<running, out, entries>>
       \/ /\ "throws" \in Asks[c].handlers
          /\ running' = FALSE
          /\ UNCHANGED <<sess, out, entries>>
    /\ UNCHANGED <<client, sent, backlog, read>>

\* ProxyHandler::HTTPRequest returns, with what it makes of the answer, or
\* throws (resolve, connect, read and write errors, a length that is no number).
UpstreamReturns(c) ==
    /\ running /\ sess[c] = "waiting"
    /\ \/ Respond(c) /\ UNCHANGED running
       \/ running' = FALSE /\ UNCHANGED <<sess, out, entries>>
    /\ UNCHANGED <<client, sent, backlog, read>>

\* The writes after the first are made when handle_read has returned and its
\* string is freed: the memory still holds the answer, holds something else, or
\* is no longer mapped.
WriteMore(c) ==
    /\ Idle /\ sess[c] = "writing"
    /\ \/ /\ client[c] # "reset"
          /\ \E piece \in {"good", "bad"} : out' = [out EXCEPT ![c] = Append(@, piece)]
          /\ sess' = [sess EXCEPT
               ![c] = IF Len(out'[c]) = Asks[c].writes THEN "written" ELSE @]
       \/ sess' = [sess EXCEPT ![c] = "failed"] /\ UNCHANGED out
    /\ UNCHANGED <<running, client, sent, backlog, read, entries>>

\* Fault: the session of an answer that was written reads the next request.
KeepAlive(c) ==
    /\ Idle
    /\ \/ /\ sess[c] = "written"
          /\ sess' = [sess EXCEPT ![c] = "reading"]
          /\ UNCHANGED running
       \/ sess[c] = "failed" /\ DeleteThis(c)
    /\ UNCHANGED <<client, sent, backlog, read, out, entries>>

\* handle_write: shut down and let go of the session, or delete this.
HandleWrite(c) ==
    /\ Idle
    /\ \/ /\ sess[c] = "written"
          /\ sess' = [sess EXCEPT ![c] = "closed"]
          /\ UNCHANGED running
       \/ sess[c] = "failed" /\ DeleteThis(c)
    /\ UNCHANGED <<client, sent, backlog, read, out, entries>>

HandlerStep(c) ==
    ReadSome(c) \/ HandleReadError(c) \/ HandleRead(c) \/ HandleWrite(c)

ServerStep(c) == HandlerStep(c) \/ WriteMore(c)

\* async_write goes on when the client makes room or has reset the connection.
RoomToWrite(c) == c \in Patient \/ client[c] = "reset"

Next ==
    \/ Accept
    \/ \E c \in Conns : Connect(c) \/ Send(c) \/ Leave(c)
    \/ \E c \in Conns : ServerStep(c) \/ UpstreamReturns(c)

Spec == Init /\ [][Next]_vars

\* The io_service runs every handler whose socket is ready; patient clients
\* send all of their request and take what is written.  A client need not take
\* any other step.
HangSpec ==
    /\ Spec
    /\ WF_vars(Accept)
    /\ \A c \in Conns : WF_vars(HandlerStep(c)) /\ WF_vars(RoomToWrite(c) /\ WriteMore(c))
    /\ \A c \in Patient : WF_vars(Connect(c) \/ Send(c))

\* ... and every upstream server answers, closes or fails in the end.
FairSpec == HangSpec /\ \A c \in Conns : WF_vars(UpstreamReturns(c))

-----------------------------------------------------------------------------
\* Properties.

\* The requests that have been answered.
Answered ==
    {c \in Conns : HeadWithin(c, read[c]) /\ sess[c] \notin {"ready", "waiting"}}

Asked(c, url, code) == Asks[c].url = url /\ Asks[c].code = code

\* async_read_until: a handler never runs, and nothing is written, before the
\* end of the headers was read, in however many pieces they came.
HandlersSeeHeads ==
    \A c \in Conns :
        sess[c] \in {"ready", "waiting", "writing", "written", "failed"} \/ out[c] # <<>>
            => HeadWithin(c, read[c])

\* The status page: every answered request is counted, in one entry for its url
\* and code, and the entry counts the requests answered with them.
StatusCounts ==
    /\ \A i, j \in DOMAIN entries :
         entries[i].url = entries[j].url /\ entries[i].code = entries[j].code => i = j
    /\ \A i \in DOMAIN entries : entries[i].count =
         Cardinality({c \in Answered : Asked(c, entries[i].url, entries[i].code)})
    /\ \A c \in Answered : \E i \in DOMAIN entries : Asked(c, entries[i].url, entries[i].code)

\* The total of the status page is the number of requests answered.
StatusTotal == getStatusCalls(entries) = Cardinality(Answered)

\* An answer that one write takes is what the handler made, and a client that
\* did not reset the connection has got it when its session has ended.
ShortAnswersArrive ==
    \A c \in Conns : Asks[c].writes = 1 =>
        /\ \A i \in DOMAIN out[c] : out[c][i] = "good"
        /\ c \in Answered /\ sess[c] = "closed" /\ client[c] # "reset" => out[c] # <<>>

\* A connection that does not wait for its client: the client has reset it, has
\* closed its side before the end of the headers, or has sent the headers and
\* reads the answer, as far as that takes more than one write.
NoClientToWaitFor(c) ==
    \/ client[c] = "reset"
    \/ client[c] = "eof" /\ ~HeadWithin(c, sent[c])
    \/ HeadWithin(c, sent[c]) /\ (c \in Patient \/ Asks[c].writes = 1)

\* With fewer stuck clients than descriptors, the server is done in the end
\* with every connection that does not wait for its client, unless the process
\* has ended.
ConnectionsEnd ==
    \A c \in Conns : NoClientToWaitFor(c) ~> sess[c] = "closed" \/ ~running

\* The connections that are done with, and the status page as it counts them.
Over == {c \in Conns : sess[c] = "closed"}
Label == [c \in Conns |-> <<Asks[c].url, Asks[c].code>>]
Hits == [l \in {Label[c] : c \in Conns} |->
           LET lines == Counted(entries, l[1], l[2])
           IN  IF lines = {} THEN 0 ELSE entries[Min(lines)].count]

Log == INSTANCE AnswerLog WITH answered <- Answered, over <- Over, hits <- Hits

\* The sessions implement AnswerLog: whatever the sockets do, no request is
\* answered twice, none after its connection has ended or the process is gone,
\* and the status page grows by one line's one exactly when a handler answers.
ImplementsLog == Log!Spec

\* "If there's an error shutdown the communications" (session.cc:112): the
\* error of one connection does not end the others.
ErrorsStayLocal ==
    [][\A c \in Conns : HandleReadError(c) \/ HandleWrite(c) => running']_vars

\* "Write response to client" (session.cc:91): what is written to the socket is
\* the response.
AnswersAreTheResponse ==
    \A c \in Conns : \A i \in DOMAIN out[c] : out[c][i] = "good"

\* "assign body" (request.cc:115): the handler is given the request's body.
HandlersSeeBodies ==
    \A c \in Conns :
        sess[c] \in {"ready", "waiting", "writing", "written"} => read[c] = Size(c)

\* "Multithreading" (server.cc:13): a request that needs no upstream server is
\* answered whatever the others wait for.
LocalRequestsAnswered ==
    \A c \in Conns :
        HeadWithin(c, sent[c]) /\ Asks[c].handlers = {"local"} /\ Asks[c].writes = 1
            ~> c \in Answered \/ client[c] = "reset" \/ ~running
=============================================================================
