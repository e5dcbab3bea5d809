---------------------------- MODULE RequestParser ----------------------------
(***************************************************************************)
(* request.cc: what Request::request_handler makes of the bytes a session  *)
(* has read.                                                               *)
(*                                                                         *)
(* A text is a sequence of atoms: "CR", "LF", " ", ": " and words, which   *)
(* stand for themselves and hold none of the others.                       *)
(***************************************************************************)
EXTENDS Integers, Sequences, SequencesExt

CRLF == <<"CR", "LF">>

\* boost::split with token_compress_on: separators that follow each other count
\* as one, and one at an end of the text leaves an empty part there.
split(s, separators) ==
    FoldLeft(LAMBDA parts, x :
               IF x \notin separators
               THEN [parts EXCEPT ![Len(parts)] = Append(@, x)]
               ELSE IF Len(parts) > 1 /\ parts[Len(parts)] = <<>>
               THEN parts
               ELSE Append(parts, <<>>),
             << <<>> >>, s)

\* Where "\r\n\r\n" is not found a request is split at its line feeds alone; a
\* session reads no such request.
HeadEnds(raw) == \E k \in 1 .. Len(raw) - 3 : SubSeq(raw, k, k + 3) = CRLF \o CRLF

req_lines(raw) == split(raw, IF HeadEnds(raw) THEN {"CR", "LF"} ELSE {"LF"})

check_first_request_line(line) ==
    LET req_comps == split(line, {" "}) IN
    /\ Len(req_comps) = 3
    /\ req_comps[1] \in {<<"GET">>, <<"POST">>}
    /\ "HTTP/1.1" \in Range(req_comps[3])

\* A header line, taken apart at its first colon and space.
Pair(line) ==
    LET k == SelectInSeq(line, LAMBDA x : x = ": ")
    IN  <<SubSeq(line, 1, k - 1), SubSeq(line, k + 1, Len(line))>>

\* The pair of a line that has a colon and space.
PairIn(line) == IF ": " \in Range(line) THEN <<Pair(line)>> ELSE <<>>

\* Fault: the last line is taken for a header too.
HeadersAndLast(lines) == FlattenSeq([i \in 1 .. Len(lines) - 1 |-> PairIn(lines[i + 1])])

\* The lines between the first and the last one, without those that have no
\* colon and space.
HeaderFields(lines) == FlattenSeq([i \in 1 .. Len(lines) - 2 |-> PairIn(lines[i + 1])])

parse_request(raw) ==
    LET lines == req_lines(raw)
        req_comps == split(lines[1], {" "})
    IN  [method |-> req_comps[1], uri_path |-> req_comps[2], http_version |-> req_comps[3],
         header_fields |-> HeaderFields(lines), body |-> lines[Len(lines)]]

Parses(raw) == "LF" \in Range(raw) /\ check_first_request_line(req_lines(raw)[1])

\* A request that does not parse asks for /bad.
request_handler(raw) ==
    IF Parses(raw)
    THEN parse_request(raw)
    ELSE [method |-> <<"GET">>, uri_path |-> <<"/bad">>, http_version |-> <<"HTTP/1.1">>,
          header_fields |-> <<>>, body |-> <<>>]
=============================================================================
