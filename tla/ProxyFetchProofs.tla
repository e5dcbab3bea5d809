-------------------------- MODULE ProxyFetchProofs --------------------------
(***************************************************************************)
(* What the proxy serves, for every answer of the upstream server and      *)
(* every way its pieces arrive.                                            *)
(***************************************************************************)
EXTENDS ProxyFetch, TLAPS

\* What the phases say of what was read: the body is looked at only after an
\* answer of 200 whose head was seen, and res_body starts as what came with it.
HeadRead ==
    /\ phase = "head" => answer.status = "200"
    /\ phase = "rest" => /\ answer.status = "200"
                         /\ taken >= HeadLen
                         /\ first = BodyUpTo(taken)
                         /\ resBody = first

Inv == TypeOK /\ HeadRead /\ NothingLost /\ OnePieceIsExact /\ LinksRewritten

-----------------------------------------------------------------------------
(* The operators.                                                          *)

\* What is known of the answer of a fetch.
LEMMA AnswerType ==
    ASSUME answer \in Answers
    PROVE  /\ answer.body \in Seq(Part) /\ answer.length \in Int
           /\ answer.length \in {NoLength, BadLength, Len(answer.body)}
           /\ answer.type \in {"html", "plain"}
           /\ HeadLen \in {2, 3} /\ Total \in Nat /\ Total >= HeadLen
  <1>1. /\ answer \in Answer
        /\ answer.length \in {NoLength, BadLength, Len(answer.body)}
    BY AnswersAssumption
  <1>2. /\ answer.body \in Seq(Part) /\ answer.length \in Int
        /\ answer.type \in {"html", "plain"}
    BY <1>1 DEF Answer
  <1>3. HeadLen \in {2, 3} /\ Len(answer.body) \in Nat
    BY <1>2 DEF HeadLen
  <1>. QED  BY <1>1, <1>2, <1>3 DEF Total

\* The parts received are a prefix of the upstream's body.
LEMMA BodyPrefix ==
    ASSUME answer \in Answers, NEW n \in Int, n >= HeadLen, n <= Total
    PROVE  /\ BodyUpTo(n) \in Seq(Part)
           /\ Len(BodyUpTo(n)) = n - HeadLen
           /\ \A i \in 1 .. n - HeadLen : BodyUpTo(n)[i] = answer.body[i]
  BY AnswerType DEF BodyUpTo, Total

\* All of them are the body.
LEMMA WholeBody ==
    ASSUME answer \in Answers
    PROVE  BodyUpTo(Total) = answer.body
  <1>1. /\ BodyUpTo(Total) \in Seq(Part)
        /\ Len(BodyUpTo(Total)) = Len(answer.body)
        /\ \A i \in 1 .. Len(answer.body) : BodyUpTo(Total)[i] = answer.body[i]
    BY BodyPrefix, AnswerType DEF Total
  <1>. QED  BY <1>1, AnswerType

\* Appending to a sequence leaves what was appended at its end.
LEMMA AppendedIsLast ==
    ASSUME NEW s \in Seq(Part), NEW t \in Seq(Part)
    PROVE  EndsWith(s \o t, t) /\ EndsWith(t, t)
  BY DEF EndsWith

\* Filtering a body gives a page.
LEMMA FilterType ==
    ASSUME NEW body \in Seq(Part), NEW type
    PROVE  HTMLFilter(body, type) \in Seq(Part \cup {"full", "message"})
  <1>1. CASE type # "html"
    BY <1>1 DEF HTMLFilter
  <1>2. CASE type = "html"
    <2>. DEFINE f == [i \in 1 .. Len(body) |->
                        IF body[i] = "link" /\ FirstInLine(body, i)
                          THEN "full" ELSE body[i]]
    <2>1. \A i \in 1 .. Len(body) : f[i] \in Part \cup {"full", "message"}
      OBVIOUS
    <2>2. f \in [1 .. Len(body) -> Part \cup {"full", "message"}]
      BY <2>1
    <2>3. Len(body) \in Nat
      OBVIOUS
    <2>4. f \in Seq(Part \cup {"full", "message"})
      BY <2>2, <2>3
    <2>. QED  BY <1>2, <2>4 DEF HTMLFilter
  <1>. QED  BY <1>1, <1>2

\* Where no line has two links, every link is the first of its line.
LEMMA FilterRewrites ==
    ASSUME NEW body \in Seq(Part), OneLinkPerLine(body)
    PROVE  HTMLFilter(body, "html") = Rewritten(body)
  <1>1. Len(body) \in Nat /\ DOMAIN body = 1 .. Len(body)
    OBVIOUS
  <1>2. ASSUME NEW i \in 1 .. Len(body), body[i] = "link"
        PROVE  FirstInLine(body, i)
    <2>. SUFFICES ASSUME NEW j \in 1 .. i - 1, body[j] = "link"
                  PROVE  \E k \in j + 1 .. i - 1 : body[k] = "newline"
      BY DEF FirstInLine
    <2>1. j \in DOMAIN body /\ i \in DOMAIN body /\ j < i
      BY <1>1
    <2>. QED  BY <1>2, <2>1 DEF OneLinkPerLine
  <1>. QED  BY <1>1, <1>2 DEF HTMLFilter, Rewritten

\* Where no line of the whole body has two links, none of what was received of
\* it has.
LEMMA ReceivedLines ==
    ASSUME answer \in Answers, OneLinkPerLine(answer.body),
           NEW n \in Int, n >= HeadLen, n <= Total
    PROVE  OneLinkPerLine(BodyUpTo(n))
  <1>. DEFINE body == BodyUpTo(n)
  <1>1. /\ DOMAIN body = 1 .. n - HeadLen /\ n - HeadLen \in Nat
        /\ \A i \in 1 .. n - HeadLen : body[i] = answer.body[i] /\ i \in DOMAIN answer.body
    BY BodyPrefix, AnswerType DEF Total
  <1>. HIDE DEF body
  <1>. SUFFICES ASSUME NEW i \in DOMAIN body, NEW j \in DOMAIN body,
                       i < j, body[i] = "link", body[j] = "link"
                PROVE  \E k \in i + 1 .. j - 1 : body[k] = "newline"
    BY DEF OneLinkPerLine, body
  <1>2. \E k \in i + 1 .. j - 1 : answer.body[k] = "newline"
    BY <1>1 DEF OneLinkPerLine
  <1>. QED  BY <1>1, <1>2

-----------------------------------------------------------------------------
(* The steps.                                                              *)

USE DEF HandleRequest

LEMMA InitInv == Init => Inv
  <1>. SUFFICES ASSUME Init PROVE Inv
    OBVIOUS
  <1>1. Total \in Nat
    BY AnswerType DEF Init
  <1>2. TypeOK
    BY <1>1 DEF Init, TypeOK, Phases
  <1>. QED  BY <1>2 DEF Init, Inv, HeadRead, NothingLost, OnePieceIsExact, LinksRewritten, BodyServed

\* A body that is served keeps the invariant when it is what was received, or
\* has it after some first parts.
LEMMA ServeInv ==
    ASSUME Inv, UNCHANGED upstream, NEW body \in Seq(Part), Serve(body),
           taken' \in 0 .. sent, taken' >= HeadLen, first' \in Seq(Part),
           EndsWith(body, BodyUpTo(taken')),
           sent = Total => taken' = Total,
           first' = <<>> \/ first' = BodyUpTo(taken') => body = BodyUpTo(taken')
    PROVE  Inv'
  <1>1. TypeOK'
    BY FilterType DEF Inv, TypeOK, Serve, upstream, Phases, Total, HeadLen
  <1>2. HeadRead'
    BY DEF HeadRead, Serve
  <1>3. BodyUpTo(taken)' = BodyUpTo(taken') /\ Total' = Total
    BY DEF BodyUpTo, upstream, HeadLen, Total
  <1>4. NothingLost'
    <2>1. EndsWith(body, BodyUpTo(taken'))
      OBVIOUS
    <2>2. sent = Total => EndsWith(body, answer.body)
      BY <2>1, WholeBody DEF Inv, TypeOK
    <2>. QED  BY <1>3, <2>1, <2>2 DEF NothingLost, Serve, upstream
  <1>5. OnePieceIsExact'
    BY <1>3 DEF OnePieceIsExact, Serve
  <1>6. LinksRewritten'
    <2>. SUFFICES ASSUME answer.type = "html"
                  PROVE  /\ OneLinkPerLine(body) => page' = Rewritten(body)
                         /\ /\ first' = <<>> \/ first' = BodyUpTo(taken')
                            /\ OneLinkPerLine(answer.body)
                            => page' = Rewritten(BodyUpTo(taken'))
      BY <1>3 DEF LinksRewritten, upstream, Serve
    <2>1. page' = HTMLFilter(body, "html")
      BY DEF Serve
    <2>2. answer \in Answers /\ taken' \in Int /\ taken' <= Total
      BY AnswerType DEF Inv, TypeOK
    <2>3. OneLinkPerLine(answer.body) => OneLinkPerLine(BodyUpTo(taken'))
      BY <2>2, ReceivedLines
    <2>. QED  BY <2>1, <2>3, FilterRewrites
  <1>. QED  BY <1>1, <1>2, <1>4, <1>5, <1>6 DEF Inv

LEMMA UpstreamInv ==
    ASSUME Inv, UpstreamSends \/ UpstreamCloses \/ UpstreamResets
    PROVE  Inv'
  <1>. USE DEF Connected, fetch
  <1>1. Total \in Nat /\ phase # "served"
    BY AnswerType DEF Inv, TypeOK, UpstreamSends, UpstreamCloses, UpstreamResets
  <1>2. /\ answer' = answer /\ UNCHANGED fetch /\ sent' \in taken .. Total
        /\ ended' \in {"open", "closed", "reset"}
    BY <1>1 DEF Inv, TypeOK, UpstreamSends, UpstreamCloses, UpstreamResets
  <1>3. TypeOK'
    <2>1. Total' = Total
      BY <1>2 DEF Total, HeadLen
    <2>2. sent' \in 0 .. Total /\ taken' \in 0 .. sent'
      BY <1>1, <1>2 DEF Inv, TypeOK
    <2>. QED  BY <1>2, <2>1, <2>2 DEF Inv, TypeOK
  <1>4. HeadRead'
    BY <1>2 DEF Inv, HeadRead, BodyUpTo, HeadLen
  <1>. QED
    BY <1>1, <1>2, <1>3, <1>4 DEF Inv, NothingLost, OnePieceIsExact, LinksRewritten, BodyServed

\* The steps of HTTPRequest that look at no body.
LEMMA HeadInv ==
    ASSUME Inv, Connect \/ ReadUntil \/ ReadUntilFails \/ ParseStatus
    PROVE  Inv'
  <1>. USE DEF upstream, Reading, LineSeen
  <1>1. Total \in Nat
    BY AnswerType DEF Inv, TypeOK
  <1>2. /\ UNCHANGED <<upstream, first, resBody>>
        /\ taken' \in 0 .. sent
        /\ phase' \in {"status", "head", "thrown", "served"}
        /\ phase' = "head" => answer.status = "200"
        /\ phase' = "served" => answer.status # "200" /\ page' = <<"message">>
        /\ phase' # "served" => page' = <<>>
    BY <1>1 DEF Inv, TypeOK, HeadRead, Connect, ReadUntil, ReadUntilFails,
                ParseStatus, ServeMessage
  <1>3. TypeOK'
    <2>1. Total' = Total
      BY <1>2 DEF Total, HeadLen
    <2>2. page' \in Seq(Part \cup {"full", "message"})
      <3>1. /\ <<"message">> \in Seq(Part \cup {"full", "message"})
            /\ <<>> \in Seq(Part \cup {"full", "message"})
        OBVIOUS
      <3>. QED  BY <1>2, <3>1
    <2>3. phase' \in Phases
      BY <1>2 DEF Phases
    <2>. QED  BY <1>2, <2>1, <2>2, <2>3 DEF Inv, TypeOK
  <1>. QED
    BY <1>2, <1>3 DEF Inv, HeadRead, NothingLost, OnePieceIsExact, LinksRewritten,
             BodyServed

LEMMA ParseHeadInv ==
    ASSUME Inv, ParseHead
    PROVE  Inv'
  <1>. DEFINE have == BodyUpTo(taken)
  <1>1. /\ answer \in Answers /\ UNCHANGED upstream /\ taken' = taken
        /\ taken \in Int /\ sent \in Int /\ Total \in Nat
        /\ taken >= HeadLen /\ taken <= sent /\ sent <= Total
        /\ taken \in 0 .. sent /\ answer.status = "200"
    BY AnswerType DEF Inv, TypeOK, HeadRead, ParseHead, HeadSeen, upstream
  <1>2. have \in Seq(Part) /\ Len(have) = taken - HeadLen
    BY <1>1, BodyPrefix
  <1>3. CASE answer.length = BadLength
    <2>1. phase' = "thrown" /\ UNCHANGED <<first, resBody, page>>
      BY <1>3 DEF ParseHead
    <2>2. TypeOK'
      BY <1>1, <2>1 DEF Inv, TypeOK, ParseHead, HeadSeen, upstream, Phases, Total,
                        HeadLen
    <2>. QED
      BY <2>1, <2>2 DEF Inv, HeadRead, NothingLost, OnePieceIsExact, LinksRewritten,
             BodyServed
  <1>4. CASE answer.length # BadLength /\ Len(have) = answer.length
    <2>1. first' = have /\ Serve(have)
      BY <1>4 DEF ParseHead
    <2>2. taken = Total
      BY <1>1, <1>2, <1>4, AnswerType DEF Total, NoLength, BadLength
    <2>3. EndsWith(have, have)
      BY <1>2, AppendedIsLast
    <2>. QED  BY <1>1, <1>2, <2>1, <2>2, <2>3, ServeInv
  <1>5. CASE answer.length # BadLength /\ Len(have) # answer.length
    <2>1. /\ first' = have /\ resBody' = have /\ phase' = "rest"
          /\ page' = page
      BY <1>5 DEF ParseHead
    <2>2. TypeOK'
      BY <1>1, <1>2, <2>1 DEF Inv, TypeOK, ParseHead, HeadSeen, upstream, Phases,
                              Total, HeadLen
    <2>3. HeadRead'
      BY <1>1, <2>1 DEF HeadRead, BodyUpTo, HeadLen, upstream
    <2>. QED  BY <2>1, <2>2, <2>3 DEF Inv, NothingLost, OnePieceIsExact, LinksRewritten, BodyServed
  <1>. QED  BY <1>3, <1>4, <1>5

LEMMA ReadRestInv ==
    ASSUME Inv, ReadRest
    PROVE  Inv'
  <1>. DEFINE all == BodyUpTo(sent)
              body == IF taken = sent THEN resBody ELSE resBody \o all
  <1>1. /\ answer \in Answers /\ UNCHANGED upstream /\ taken' = sent
        /\ first' = first /\ first \in Seq(Part) /\ Serve(body)
        /\ taken \in Int /\ sent \in Int /\ Total \in Nat
        /\ taken >= HeadLen /\ taken <= sent /\ sent <= Total /\ sent \in 0 .. sent
        /\ first = BodyUpTo(taken) /\ resBody = first /\ HeadLen \in Int
    BY AnswerType DEF Inv, TypeOK, HeadRead, ReadRest, upstream
  <1>2. /\ all \in Seq(Part) /\ Len(all) = sent - HeadLen
        /\ Len(first) = taken - HeadLen
    BY <1>1, BodyPrefix
  <1>3. body \in Seq(Part)
    BY <1>1, <1>2
  <1>4. EndsWith(body, all)
    BY <1>1, <1>2, AppendedIsLast
  <1>5. first = <<>> \/ first = all => body = all
    <2>1. CASE taken = sent
      BY <1>1, <2>1
    <2>2. CASE taken # sent
      <3>1. first # all
        BY <1>1, <1>2, <2>2
      <3>2. <<>> \o all = all
        BY <1>2
      <3>. QED  BY <1>1, <2>2, <3>1, <3>2
    <2>. QED  BY <2>1, <2>2
  <1>. HIDE DEF body, all
  <1>6. EndsWith(body, BodyUpTo(taken')) /\
        (first' = <<>> \/ first' = BodyUpTo(taken') => body = BodyUpTo(taken'))
    BY <1>1, <1>4, <1>5 DEF all
  <1>7. taken' \in 0 .. sent /\ taken' >= HeadLen /\ first' \in Seq(Part)
    BY <1>1
  <1>. QED  BY <1>1, <1>3, <1>6, <1>7, ServeInv

-----------------------------------------------------------------------------
(* The theorems.                                                           *)

LEMMA NextInv == Inv /\ [Next]_vars => Inv'
  <1>. SUFFICES ASSUME Inv, [Next]_vars PROVE Inv'
    OBVIOUS
  <1>1. CASE UNCHANGED vars
    BY <1>1 DEF vars, Inv, TypeOK, HeadRead, NothingLost, OnePieceIsExact,
                LinksRewritten, BodyServed, BodyUpTo, Total, HeadLen
  <1>. QED
    BY <1>1, UpstreamInv, HeadInv, ParseHeadInv, ReadRestInv DEF Next, HTTPRequest

\* The safety invariants, with what each phase says of what was read, are
\* inductive: the whole of HTTPRequest keeps them.
THEOREM Invariance == Spec => []Inv
  BY InitInv, NextInv, PTL DEF Spec

\* The variables of a fetch keep their types, and there is no page before the
\* fetch has ended (the early returns of HTTPRequest).
THEOREM TypeCorrect == Spec => []TypeOK
  BY Invariance, PTL DEF Inv

\* Nothing received is dropped, and a body is served short only if part of it
\* did not arrive: for every body and every way it is cut (the loop over read).
THEOREM NothingDropped == Spec => []NothingLost
  BY Invariance, PTL DEF Inv

\* A body received in one piece is served as it was received (last_portion, the
\* comparison with Content-Length, and the loop's break).
THEOREM ExactInOnePiece == Spec => []OnePieceIsExact
  BY Invariance, PTL DEF Inv

\* For every page and every way it is cut, a body that is served with no line of
\* two links has every link rewritten and nothing else changed; so has every page
\* of the upstream without such a line that came in one piece (HTMLFilter).
THEOREM AllLinksRewritten == Spec => []LinksRewritten
  BY Invariance, PTL DEF Inv
=============================================================================
