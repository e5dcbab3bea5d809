------------------------- MODULE ConfigParserProofs -------------------------
(***************************************************************************)
(* What ConfigParser's safety properties rest on: that Parse accepts the   *)
(* texts of the grammar and refuses all others, that the configuration it  *)
(* makes of one is a tree that writes that text again, and that no round   *)
(* of its loops is idle, for any characters and any length of the file.    *)
(***************************************************************************)
EXTENDS ConfigParser, FiniteSetTheorems, SequenceLemmas

\* A quoted text up to its last character.
OpenQuote(t, q) == Len(t) > 0 /\ \A i \in DOMAIN t : t[i] = q <=> i = 1

\* What ParseToken has in *value, by the state it is in and what it returned.
ValueOK ==
    /\ token_type = "NORMAL" => Whole(value)
    /\ token_type \in {"STATEMENT_END", "START_BLOCK", "END_BLOCK"} => Whole(value)
    /\ token_type \in {NoToken, "EOF"} => (state = "NORMAL" => PlainWord(value))
    /\ token_type = NoToken =>
         /\ state = "SINGLE_QUOTE" => OpenQuote(value, "'")
         /\ state = "DOUBLE_QUOTE" => OpenQuote(value, "\"")

Inv == TypeOK /\ OpenChain /\ BackIsUnderWay /\ ValueOK /\ TokensAreWhole

-----------------------------------------------------------------------------
\* statements_.back() of the innermost block is the last statement made when a
\* statement is under way: the maximum that back takes exists.
LEMMA BackIsLast ==
    ASSUME TypeOK, BackIsUnderWay, last_token_type = "NORMAL"
    PROVE  back = Len(statements) /\ back \in DOMAIN statements
<1>. DEFINE S == {i \in DOMAIN statements : statements[i].block = top}
<1>1. statements \in Seq(Statement) /\ Len(statements) \in Nat \ {0}
  BY DEF TypeOK, BackIsUnderWay
<1>2. Len(statements) \in S /\ \A y \in S : y \in Int /\ Len(statements) >= y
  BY <1>1 DEF BackIsUnderWay
<1>3. \A x \in S : (\A y \in S : x >= y) => x = Len(statements)
  BY <1>2
<1>4. back = CHOOSE x \in S : \A y \in S : x >= y
  BY DEF back, Max
<1>5. back = Len(statements)
  BY <1>2, <1>3, <1>4
<1>. QED BY <1>1, <1>5

\* The elements of a sequence with one more at its end.
LEMMA AppendElements ==
    ASSUME NEW S, NEW s \in Seq(S), NEW c \in S
    PROVE  /\ Append(s, c) \in Seq(S)
           /\ Len(s) \in Nat /\ DOMAIN s = 1 .. Len(s)
           /\ Len(Append(s, c)) = Len(s) + 1 /\ DOMAIN Append(s, c) = 1 .. Len(s) + 1
           /\ \A i \in 1 .. Len(s) : Append(s, c)[i] = s[i]
           /\ Append(s, c)[Len(s) + 1] = c
OBVIOUS

LEMMA OneElement ==
    ASSUME NEW c \in Chars
    PROVE  /\ <<c>> \in Seq(Chars) /\ Len(<<c>>) = 1 /\ DOMAIN <<c>> = 1 .. 1
           /\ \A i \in 1 .. 1 : <<c>>[i] = c
OBVIOUS

\* A word goes on with any character that does not end one.
LEMMA WordGrows ==
    ASSUME NEW t \in Seq(Chars), PlainWord(t), NEW c \in Chars, c \notin EndsWord
    PROVE  PlainWord(Append(t, c))
<1>0. t # <<>> /\ (\A i \in DOMAIN t : t[i] \notin EndsWord)
  BY DEF PlainWord
<1>1. Len(t) \in Nat \ {0} /\ DOMAIN t = 1 .. Len(t)
  BY <1>0
<1>2. \A i \in DOMAIN Append(t, c) : Append(t, c)[i] \notin EndsWord
  <2>1. \A i \in 1 .. Len(t) : t[i] \notin EndsWord
    BY <1>0, <1>1
  <2>. QED BY <1>1, <2>1, AppendElements
<1>3. Append(t, c)[1] = t[1] /\ Append(t, c) # <<>>
  BY <1>1, AppendElements
<1>. QED BY <1>2, <1>3 DEF PlainWord

\* A quoted text goes on with any character but its quote, which ends it.
LEMMA QuoteGrows ==
    ASSUME NEW q, NEW t \in Seq(Chars), OpenQuote(t, q), NEW c \in Chars
    PROVE  IF c = q THEN QuotedText(Append(t, c), q) ELSE OpenQuote(Append(t, c), q)
<1>1. Len(t) \in Nat \ {0} /\ DOMAIN t = 1 .. Len(t) /\ \A i \in 1 .. Len(t) : t[i] = q <=> i = 1
  BY DEF OpenQuote
<1>2. /\ Len(Append(t, c)) = Len(t) + 1 /\ DOMAIN Append(t, c) = 1 .. Len(t) + 1
      /\ \A i \in 1 .. Len(t) : Append(t, c)[i] = t[i]
      /\ Append(t, c)[Len(t) + 1] = c
  BY AppendElements
<1>3. CASE c = q
  BY <1>1, <1>2, <1>3 DEF QuotedText
<1>4. CASE c # q
  BY <1>1, <1>2, <1>4 DEF OpenQuote
<1>. QED BY <1>3, <1>4

\* The characters and the position after a lexer step fetched one.
LEMMA FetchType ==
    ASSUME TypeOK, NEW c \in Chars, Fetch(c)
    PROVE  /\ text' \in Seq(Chars) /\ pos + 1 \in 0 .. Len(text') /\ pos \in 0 .. Len(text')
           /\ token_type = NoToken
<1>1. text \in Seq(Chars) /\ Len(text) \in Nat /\ pos \in Nat /\ pos <= Len(text)
  BY DEF TypeOK
<1>2. CASE pos < Len(text)
  BY <1>1, <1>2 DEF Fetch
<1>3. CASE ~(pos < Len(text))
  <2>1. text' = Append(text, c) /\ token_type = NoToken
    BY <1>3 DEF Fetch
  <2>. QED BY <1>1, <1>3, <2>1, AppendElements
<1>. QED BY <1>2, <1>3

\* A lexer step keeps the types when its own variables keep theirs.
LEMMA LexerType ==
    ASSUME TypeOK, UNCHANGED parserVars,
           text' \in Seq(Chars), pos' \in 0 .. Len(text'), state' \in LexerStates,
           value' \in Seq(Chars), token_type' \in TokenTypes \union {NoToken}
    PROVE  TypeOK'
BY DEF TypeOK, parserVars

\* The parts of the invariant that speak of Parse's variables only.
LEMMA LexerLeavesTree ==
    ASSUME UNCHANGED parserVars, OpenChain, BackIsUnderWay, TokensAreWhole
    PROVE  OpenChain' /\ BackIsUnderWay' /\ TokensAreWhole'
<1>1. UNCHANGED <<statements, config_stack, bracket_count, last_token_type, given, top>>
  BY DEF parserVars, top
<1>2. OpenChain'
  BY <1>1 DEF OpenChain
<1>3. BackIsUnderWay'
  BY <1>1 DEF BackIsUnderWay
<1>4. TokensAreWhole'
  BY ZenonT(40), <1>1 DEF TokensAreWhole, Whole, QuotedText, PlainWord
<1>. QED BY <1>2, <1>3, <1>4

LEMMA InitInv == Init => Inv
<1>. SUFFICES ASSUME Init PROVE Inv
  OBVIOUS
<1>1. TypeOK
  BY DEF Init, TypeOK, LexerStates, TokenTypes, NoToken
<1>2. OpenChain /\ BackIsUnderWay /\ TokensAreWhole
  BY DEF Init, OpenChain, BackIsUnderWay, TokensAreWhole
<1>3. ValueOK
  BY DEF Init, ValueOK, NoToken
<1>. QED BY <1>1, <1>2, <1>3 DEF Inv

LEMMA LexerStep ==
    ASSUME Inv, ParseToken
    PROVE  Inv'
<1>0. TypeOK /\ OpenChain /\ BackIsUnderWay /\ ValueOK /\ TokensAreWhole
  BY DEF Inv
<1>1. UNCHANGED parserVars
  BY DEF ParseToken, SingleCharacter, SkipBlank, StartToken, Quoted, Comment, Word, WordEnds,
         EndOfFile, Return, Continue
<1>2. OpenChain' /\ BackIsUnderWay' /\ TokensAreWhole'
  BY <1>0, <1>1, LexerLeavesTree
<1>3. ASSUME NEW c \in Chars, SingleCharacter(c) PROVE TypeOK' /\ ValueOK'
  <2>1. /\ text' \in Seq(Chars) /\ pos' \in 0 .. Len(text') /\ state' = "INITIAL_WHITESPACE"
        /\ value' = <<c>> /\ token_type' = SingleToken[c] /\ c \in {"{", "}", ";"}
    BY <1>0, <1>3, FetchType DEF SingleCharacter, SingleToken, Get, Return
  <2>2. SingleToken[c] \in {"STATEMENT_END", "START_BLOCK", "END_BLOCK"}
    BY <2>1 DEF SingleToken
  <2>3. Whole(value')
    BY <2>1 DEF Whole
  <2>4. TypeOK'
    BY <1>0, <1>1, <2>1, <2>2, OneElement, LexerType DEF TokenTypes, LexerStates
  <2>5. ValueOK'
    BY <2>1, <2>2, <2>3 DEF ValueOK, NoToken
  <2>. QED BY <2>4, <2>5
<1>4. ASSUME NEW c \in Chars, SkipBlank(c) PROVE TypeOK' /\ ValueOK'
  <2>1. /\ text' \in Seq(Chars) /\ pos' \in 0 .. Len(text') /\ value' = value
        /\ state' = "INITIAL_WHITESPACE" /\ token_type' = NoToken
    BY <1>0, <1>4, FetchType DEF SkipBlank, Get, Continue
  <2>2. TypeOK'
    BY <1>0, <1>1, <2>1, LexerType DEF TypeOK, LexerStates
  <2>3. ValueOK'
    BY <2>1 DEF ValueOK, NoToken
  <2>. QED BY <2>2, <2>3
<1>5. ASSUME NEW c \in Chars, StartToken(c) PROVE TypeOK' /\ ValueOK'
  <2>1. /\ text' \in Seq(Chars) /\ pos' \in 0 .. Len(text')
        /\ value' = <<c>> /\ token_type' = NoToken /\ c \notin Blank /\ c \notin {"{", "}", ";"}
    BY <1>0, <1>5, FetchType DEF StartToken, SingleToken, Get, Continue
  <2>2. /\ state' \in LexerStates
        /\ state' = "NORMAL" => c \notin {"#", "'", "\""}
        /\ state' = "SINGLE_QUOTE" => c = "'"
        /\ state' = "DOUBLE_QUOTE" => c = "\""
    BY <1>5 DEF StartToken, LexerStates, Continue
  <2>3. state' = "NORMAL" => PlainWord(value')
    <3>1. c \notin EndsWord /\ c # "\r"
      BY <2>1 DEF EndsWord, Blank
    <3>2. c \notin {"#", "'", "\""} => PlainWord(<<c>>)
      BY <3>1, OneElement DEF PlainWord
    <3>. QED BY <2>1, <2>2, <3>2
  <2>4. /\ state' = "SINGLE_QUOTE" => OpenQuote(value', "'")
        /\ state' = "DOUBLE_QUOTE" => OpenQuote(value', "\"")
    <3>1. OpenQuote(<<c>>, c)
      BY OneElement DEF OpenQuote
    <3>. QED BY <2>1, <2>2, <3>1
  <2>5. TypeOK'
    BY <1>0, <1>1, <2>1, <2>2, OneElement, LexerType
  <2>6. ValueOK'
    BY <2>1, <2>3, <2>4 DEF ValueOK, NoToken
  <2>. QED BY <2>5, <2>6
<1>6. ASSUME NEW c \in Chars, Quoted(c) PROVE TypeOK' /\ ValueOK'
  <2>. DEFINE q == IF state = "SINGLE_QUOTE" THEN "'" ELSE "\""
  <2>1. /\ text' \in Seq(Chars) /\ pos' \in 0 .. Len(text')
        /\ value' = Append(value, c) /\ token_type = NoToken
        /\ state' = state /\ value \in Seq(Chars) /\ state \in {"SINGLE_QUOTE", "DOUBLE_QUOTE"}
        /\ token_type' = IF c = q THEN "NORMAL" ELSE NoToken
    BY <1>0, <1>6, FetchType DEF Quoted, TypeOK, Get, Return, Continue
  <2>2. OpenQuote(value, q)
    BY <1>0, <2>1 DEF ValueOK
  <2>3. c = q => QuotedText(value', q)
    BY <2>1, <2>2, QuoteGrows
  <2>4. c # q => OpenQuote(value', q)
    BY <2>1, <2>2, QuoteGrows
  <2>5. TypeOK'
    <3>1. value' \in Seq(Chars)
      BY <2>1, AppendElements
    <3>2. state' \in LexerStates /\ token_type' \in TokenTypes \union {NoToken}
      BY <2>1 DEF TokenTypes, LexerStates
    <3>. QED BY <1>0, <1>1, <2>1, <3>1, <3>2, LexerType
  <2>6. c = q => Whole(value')
    BY <2>3 DEF Whole
  <2>7. ValueOK'
    BY <2>1, <2>4, <2>6 DEF ValueOK, NoToken
  <2>. QED BY <2>5, <2>7
<1>7. ASSUME NEW c \in Chars, Comment(c) PROVE TypeOK' /\ ValueOK'
  <2>1. /\ text' \in Seq(Chars) /\ pos' \in 0 .. Len(text') /\ value \in Seq(Chars)
        /\ state = "COMMENT" /\ state' = "COMMENT" /\ value' \in {value, Append(value, c)}
        /\ token_type' \in {"COMMENT", NoToken}
    BY <1>0, <1>7, FetchType DEF Comment, TypeOK, Get, Return, Continue
  <2>2. TypeOK'
    BY SMTT(30), <1>0, <1>1, <2>1, LexerType DEF TokenTypes, LexerStates
  <2>3. ValueOK'
    BY <2>1 DEF ValueOK, NoToken
  <2>. QED BY <2>2, <2>3
<1>8. ASSUME NEW c \in Chars, Word(c) PROVE TypeOK' /\ ValueOK'
  <2>1. /\ text' \in Seq(Chars) /\ pos' \in 0 .. Len(text')
        /\ value' = Append(value, c) /\ token_type = NoToken /\ token_type' = NoToken
        /\ state = "NORMAL" /\ state' = "NORMAL" /\ c \notin EndsWord /\ value \in Seq(Chars)
    BY <1>0, <1>8, FetchType DEF Word, TypeOK, Get, Continue
  <2>2. PlainWord(value)
    BY <1>0, <2>1 DEF ValueOK
  <2>3. PlainWord(value')
    BY <2>1, <2>2, WordGrows
  <2>4. TypeOK'
    BY <1>0, <1>1, <2>1, LexerType DEF TypeOK, TokenTypes, LexerStates
  <2>5. ValueOK'
    BY <2>1, <2>3 DEF ValueOK, NoToken
  <2>. QED BY <2>4, <2>5
<1>9. ASSUME NEW c \in Chars, WordEnds(c) PROVE TypeOK' /\ ValueOK'
  <2>1. /\ text' \in Seq(Chars) /\ pos' \in 0 .. Len(text') /\ value' = value
        /\ token_type = NoToken /\ token_type' = "NORMAL" /\ state = "NORMAL" /\ state' = state
    BY <1>0, <1>9, FetchType DEF WordEnds, TypeOK, Return
  <2>2. Whole(value)
    BY <1>0, <2>1 DEF ValueOK, Whole
  <2>3. TypeOK'
    BY <1>0, <1>1, <2>1, LexerType DEF TypeOK, TokenTypes, LexerStates
  <2>4. ValueOK'
    BY <2>1, <2>2 DEF ValueOK, NoToken
  <2>. QED BY <2>3, <2>4
<1>10. ASSUME EndOfFile PROVE TypeOK' /\ ValueOK'
  <2>1. /\ UNCHANGED <<text, pos, state, value>> /\ token_type' \in {"ERROR", "EOF"}
        /\ token_type = NoToken
    BY <1>10 DEF EndOfFile, lexerVars, Return
  <2>2. TypeOK'
    BY <1>0, <1>1, <2>1, LexerType DEF TypeOK, TokenTypes
  <2>3. ValueOK'
    BY <1>0, <2>1 DEF ValueOK, NoToken
  <2>. QED BY <2>2, <2>3
<1>11. TypeOK' /\ ValueOK'
  BY <1>3, <1>4, <1>5, <1>6, <1>7, <1>8, <1>9, <1>10 DEF ParseToken
<1>. QED BY <1>2, <1>11 DEF Inv
-----------------------------------------------------------------------------
\* Steps of Parse that leave the tree as it was: the loop goes round over a
\* comment, or Parse returns.
LEMMA TreeLeft ==
    ASSUME Inv,
           UNCHANGED <<text, pos, last_token_type, bracket_count, config_stack, statements, given>>,
           result' \in {"parsing", "valid", "invalid"},
           UNCHANGED <<state, value, token_type>> \/ NextToken
    PROVE  Inv'
<1>1. TypeOK'
  <2>1. /\ state' \in LexerStates /\ value' \in Seq(Chars)
        /\ token_type' \in TokenTypes \union {NoToken}
    <3>1. TypeOK
      BY DEF Inv
    <3>2. CASE UNCHANGED <<state, value, token_type>>
      BY <3>1, <3>2 DEF TypeOK
    <3>3. CASE NextToken
      BY <3>3 DEF NextToken, LexerStates
    <3>. QED BY <3>2, <3>3
  <2>. QED BY <2>1 DEF Inv, TypeOK
<1>2. OpenChain' /\ BackIsUnderWay'
  BY DEF Inv, OpenChain, BackIsUnderWay, top
<1>3. TokensAreWhole'
  BY DEF Inv, TokensAreWhole
<1>4. ValueOK'
  BY DEF Inv, ValueOK, NextToken, NoToken
<1>. QED BY <1>1, <1>2, <1>3, <1>4 DEF Inv

\* What a token that Parse takes in adds to the invariant's parts.
LEMMA TakenKeeps ==
    ASSUME Inv, Taken,
           token_type \in {"NORMAL", "START_BLOCK", "END_BLOCK", "STATEMENT_END"},
           bracket_count' \in Nat, config_stack' \in Seq(Nat), statements' \in Seq(Statement)
    PROVE  TypeOK' /\ ValueOK' /\ TokensAreWhole'
<1>0. TypeOK /\ ValueOK /\ TokensAreWhole
  BY DEF Inv
<1>1. /\ UNCHANGED <<text, pos, result>> /\ state' = "INITIAL_WHITESPACE" /\ value' = <<>>
      /\ token_type' = NoToken /\ last_token_type' = token_type /\ given' = Append(given, value)
  BY DEF Taken, NextToken
<1>2. given \in Seq(Seq(Chars)) /\ value \in Seq(Chars) /\ Whole(value)
  BY <1>0 DEF TypeOK, ValueOK
<1>3. TypeOK'
  <2>1. given' \in Seq(Seq(Chars))
    BY <1>1, <1>2
  <2>. QED BY <1>0, <1>1, <2>1 DEF TypeOK, LexerStates
<1>4. ValueOK'
  BY <1>1 DEF ValueOK, NoToken
<1>5. \A i \in DOMAIN given' : Whole(given'[i])
  <2>1. DOMAIN given' = 1 .. Len(given) + 1 /\ DOMAIN given = 1 .. Len(given)
    BY <1>1, <1>2
  <2>2. given'[Len(given) + 1] = value /\ \A i \in 1 .. Len(given) : given'[i] = given[i]
    BY <1>1, <1>2
  <2>3. \A i \in 1 .. Len(given) : Whole(given[i])
    BY <1>0, <2>1 DEF TokensAreWhole
  <2>. SUFFICES ASSUME NEW i \in 1 .. Len(given) + 1 PROVE Whole(given'[i])
    BY <2>1
  <2>4. CASE i = Len(given) + 1
    BY <1>2, <2>2, <2>4
  <2>5. CASE i # Len(given) + 1
    <3>1. i \in 1 .. Len(given)
      BY <1>2, <2>5
    <3>. QED BY <2>2, <2>3, <3>1
  <2>. QED BY <2>4, <2>5
<1>6. TokensAreWhole'
  BY <1>5 DEF TokensAreWhole
<1>. QED BY <1>3, <1>4, <1>6

\* A statement changed in place stays where it was in the sequence.
LEMMA ChangedStatement ==
    ASSUME NEW ss \in Seq(Statement), NEW k \in DOMAIN ss, NEW s \in Statement
    PROVE  LET ss2 == [ss EXCEPT ![k] = s]
           IN  /\ ss2 \in Seq(Statement) /\ Len(ss2) = Len(ss) /\ DOMAIN ss2 = DOMAIN ss
               /\ ss2[k] = s /\ \A i \in DOMAIN ss : i # k => ss2[i] = ss[i]
OBVIOUS

LEMMA ParserStep ==
    ASSUME Inv, Parse
    PROVE  Inv'
<1>0. TypeOK /\ OpenChain /\ BackIsUnderWay /\ ValueOK /\ TokensAreWhole
  BY DEF Inv
<1>t. /\ statements \in Seq(Statement) /\ Len(statements) \in Nat
      /\ config_stack \in Seq(Nat) /\ Len(config_stack) \in Nat \ {0}
      /\ bracket_count \in Nat /\ value \in Seq(Chars) /\ top \in Nat
  BY <1>0 DEF TypeOK, OpenChain, top
<1>1. CASE SkipComment
  BY <1>1, <1>0, TreeLeft DEF SkipComment, NextToken, parserVars, TypeOK
<1>2. ASSUME Fail PROVE Inv'
  BY <1>2, TreeLeft DEF Fail, lexerVars
<1>3. CASE ParseEOF
  BY <1>2, <1>3, TreeLeft DEF ParseEOF, lexerVars
<1>4. CASE ParseError
  BY <1>2, <1>4 DEF ParseError
<1>5. CASE ParseStatementEnd
  <2>1. CASE Fail
    BY <1>2, <2>1
  <2>2. CASE Taken /\ UNCHANGED <<bracket_count, config_stack, statements>>
    <3>1. TypeOK' /\ ValueOK' /\ TokensAreWhole'
      BY <1>5, <1>t, <2>2, TakenKeeps DEF ParseStatementEnd
    <3>2. OpenChain' /\ BackIsUnderWay'
      BY <1>0, <1>5, <2>2 DEF OpenChain, BackIsUnderWay, Taken, ParseStatementEnd
    <3>. QED BY <3>1, <3>2 DEF Inv
  <2>. QED BY <1>5, <2>1, <2>2 DEF ParseStatementEnd
<1>6. CASE ParseEndBlock
  <2>1. CASE Fail
    BY <1>2, <2>1
  <2>2. CASE ~Fail
    <3>1. /\ Taken /\ UNCHANGED statements /\ bracket_count' = bracket_count - 1
          /\ config_stack' = SubSeq(config_stack, 1, Len(config_stack) - 1)
          /\ bracket_count - 1 >= 0 /\ token_type = "END_BLOCK"
      BY <1>6, <1>t, <2>2 DEF ParseEndBlock
    <3>2. /\ config_stack' \in Seq(Nat) /\ Len(config_stack') = Len(config_stack) - 1
          /\ Len(config_stack) = bracket_count + 1 /\ bracket_count' \in Nat
          /\ \A i \in 1 .. Len(config_stack) - 1 : config_stack'[i] = config_stack[i]
      <4>1. Len(config_stack) = bracket_count + 1 /\ Len(config_stack) - 1 \in Nat \ {0}
        BY <1>0, <1>t, <3>1 DEF OpenChain
      <4>. DEFINE n == Len(config_stack) - 1
      <4>2. 1 \in Int /\ n \in Int /\ 1 <= n /\ \A i \in 1 .. n : config_stack[i] \in Nat
        BY SMTT(30), <1>t, <4>1
      <4>. HIDE DEF n
      <4>3. /\ SubSeq(config_stack, 1, n) \in Seq(Nat) /\ Len(SubSeq(config_stack, 1, n)) = n
            /\ \A i \in 1 .. n : SubSeq(config_stack, 1, n)[i] = config_stack[i]
        BY <4>2, SubSeqProperties
      <4>. QED BY <1>t, <3>1, <4>1, <4>3 DEF n
    <3>3. TypeOK' /\ ValueOK' /\ TokensAreWhole'
      BY <1>t, <3>1, <3>2, TakenKeeps
    <3>4. OpenChain'
      <4>1. Len(config_stack') = bracket_count' + 1 /\ config_stack'[1] = 0
        BY <1>0, <1>t, <3>1, <3>2 DEF OpenChain
      <4>2. ASSUME NEW i \in 1 .. Len(config_stack') - 1
            PROVE  /\ config_stack'[i + 1] \in DOMAIN statements
                   /\ statements[config_stack'[i + 1]].block = config_stack'[i]
                   /\ statements[config_stack'[i + 1]].child
        <5>1. i \in 1 .. Len(config_stack) - 1 /\ i + 1 \in 1 .. Len(config_stack) - 1
          BY <1>t, <3>2
        <5>. QED BY <1>0, <3>2, <5>1 DEF OpenChain
      <4>. QED BY <3>1, <4>1, <4>2 DEF OpenChain
    <3>5. BackIsUnderWay'
      BY <3>1 DEF BackIsUnderWay, Taken
    <3>. QED BY <3>3, <3>4, <3>5 DEF Inv
  <2>. QED BY <2>1, <2>2
<1>7. CASE ParseStartBlock
  <2>1. CASE Fail
    BY <1>2, <2>1
  <2>2. CASE ~Fail
    <3>1. /\ Taken /\ bracket_count' = bracket_count + 1 /\ last_token_type = "NORMAL"
          /\ statements' = [statements EXCEPT ![back].child = TRUE]
          /\ config_stack' = Append(config_stack, back) /\ token_type = "START_BLOCK"
      BY <1>7, <2>2 DEF ParseStartBlock
    <3>2. back = Len(statements) /\ back \in DOMAIN statements /\ statements[back].block = top
      BY <1>0, <3>1, BackIsLast DEF BackIsUnderWay
    <3>3. /\ statements' \in Seq(Statement) /\ DOMAIN statements' = DOMAIN statements
          /\ \A i \in DOMAIN statements :
               /\ statements'[i].block = statements[i].block
               /\ statements[i].child => statements'[i].child
          /\ statements'[back].child
      <4>. DEFINE s == [statements[back] EXCEPT !.child = TRUE]
      <4>1. statements[back] \in Statement
        BY <1>t, <3>2
      <4>2. s \in Statement /\ s.child /\ s.block = statements[back].block
        BY <4>1 DEF Statement
      <4>3. statements' = [statements EXCEPT ![back] = s]
        BY <3>1
      <4>. HIDE DEF s
      <4>. QED BY <1>t, <3>2, <4>2, <4>3, ChangedStatement
    <3>4. /\ config_stack' \in Seq(Nat) /\ Len(config_stack') = Len(config_stack) + 1
          /\ config_stack'[Len(config_stack) + 1] = back
          /\ \A i \in 1 .. Len(config_stack) : config_stack'[i] = config_stack[i]
      BY <1>t, <3>1, <3>2
    <3>5. TypeOK' /\ ValueOK' /\ TokensAreWhole'
      BY <1>t, <3>1, <3>3, <3>4, TakenKeeps
    <3>6. OpenChain'
      <4>1. Len(config_stack') = bracket_count' + 1 /\ config_stack'[1] = 0
        BY <1>0, <1>t, <3>1, <3>4 DEF OpenChain
      <4>2. ASSUME NEW i \in 1 .. Len(config_stack') - 1
            PROVE  /\ config_stack'[i + 1] \in DOMAIN statements'
                   /\ statements'[config_stack'[i + 1]].block = config_stack'[i]
                   /\ statements'[config_stack'[i + 1]].child
        <5>1. CASE i = Len(config_stack)
          BY <1>t, <3>2, <3>3, <3>4, <5>1 DEF top
        <5>2. CASE i # Len(config_stack)
          <6>1. i \in 1 .. Len(config_stack) - 1 /\ i + 1 \in 1 .. Len(config_stack)
            BY <1>t, <3>4, <5>2
          <6>2. config_stack'[i] = config_stack[i] /\ config_stack'[i + 1] = config_stack[i + 1]
            BY <1>t, <3>4, <6>1
          <6>. QED BY <1>0, <3>3, <6>1, <6>2 DEF OpenChain
        <5>. QED BY <5>1, <5>2
      <4>. QED BY <4>1, <4>2 DEF OpenChain
    <3>7. BackIsUnderWay'
      BY <3>1 DEF BackIsUnderWay, Taken
    <3>. QED BY <3>5, <3>6, <3>7 DEF Inv
  <2>. QED BY <2>1, <2>2
<1>8. CASE ParseNormal
  <2>1. Taken /\ UNCHANGED <<bracket_count, config_stack>> /\ token_type = "NORMAL"
    BY <1>8 DEF ParseNormal
  <2>2. CASE last_token_type # "NORMAL"
    <3>. DEFINE s == [block |-> top, tokens |-> <<value>>, child |-> FALSE]
    <3>1. statements' = Append(statements, s) /\ s \in Statement
      BY <1>8, <1>t, <2>2 DEF ParseNormal, Statement
    <3>2. /\ statements' \in Seq(Statement) /\ Len(statements') = Len(statements) + 1
          /\ DOMAIN statements = 1 .. Len(statements) /\ DOMAIN statements' = 1 .. Len(statements) + 1
          /\ statements'[Len(statements')] = s
          /\ \A i \in DOMAIN statements : statements'[i] = statements[i]
      <4>1. statements \in Seq(Statement)
        BY <1>t
      <4>. HIDE DEF s
      <4>. QED BY <3>1, <4>1, AppendElements
    <3>3. TypeOK' /\ ValueOK' /\ TokensAreWhole'
      BY <1>t, <2>1, <3>2, TakenKeeps
    <3>4. OpenChain'
      <4>. HIDE DEF s
      <4>1. UNCHANGED <<bracket_count, config_stack>>
        BY <2>1
      <4>2. /\ Len(config_stack) = bracket_count + 1 /\ config_stack[1] = 0
            /\ \A i \in 1 .. Len(config_stack) - 1 :
                 /\ config_stack[i + 1] \in DOMAIN statements
                 /\ statements[config_stack[i + 1]].block = config_stack[i]
                 /\ statements[config_stack[i + 1]].child
        BY <1>0 DEF OpenChain
      <4>3. DOMAIN statements \subseteq DOMAIN statements'
        BY <1>t, <3>2
      <4>. QED BY <3>2, <4>1, <4>2, <4>3 DEF OpenChain
    <3>5. top' = top /\ s.block = top /\ ~ s.child
      BY <2>1 DEF top
    <3>6. BackIsUnderWay'
      BY <1>t, <3>2, <3>5 DEF BackIsUnderWay
    <3>. QED BY <3>3, <3>4, <3>6 DEF Inv
  <2>3. CASE last_token_type = "NORMAL"
    <3>1. back = Len(statements) /\ back \in DOMAIN statements
      BY <1>0, <2>3, BackIsLast
    <3>2. statements' = [statements EXCEPT ![back].tokens = Append(@, value)]
      BY <1>8, <2>3 DEF ParseNormal
    <3>3. /\ statements' \in Seq(Statement) /\ Len(statements') = Len(statements)
          /\ DOMAIN statements' = DOMAIN statements
          /\ \A i \in DOMAIN statements :
               /\ statements'[i].block = statements[i].block
               /\ statements'[i].child = statements[i].child
      <4>. DEFINE s == [statements[back] EXCEPT !.tokens = Append(@, value)]
      <4>1. statements[back] \in Statement /\ value \in Seq(Chars)
        BY <1>t, <3>1
      <4>2. statements[back].tokens \in Seq(Seq(Chars))
        BY <4>1 DEF Statement
      <4>3. Append(statements[back].tokens, value) \in Seq(Seq(Chars))
        BY <4>1, <4>2
      <4>4. s \in Statement /\ s.child = statements[back].child /\ s.block = statements[back].block
        BY <4>1, <4>3 DEF Statement
      <4>5. statements' = [statements EXCEPT ![back] = s]
        BY <3>2
      <4>. HIDE DEF s
      <4>. QED BY <1>t, <3>1, <4>4, <4>5, ChangedStatement
    <3>4. TypeOK' /\ ValueOK' /\ TokensAreWhole'
      BY <1>t, <2>1, <3>3, TakenKeeps
    <3>5. OpenChain'
      BY <1>0, <1>t, <2>1, <3>3 DEF OpenChain
    <3>6. top' = top
      BY <2>1 DEF top
    <3>7. BackIsUnderWay'
      BY <1>0, <1>t, <2>3, <3>1, <3>3, <3>6 DEF BackIsUnderWay
    <3>. QED BY <3>4, <3>5, <3>7 DEF Inv
  <2>. QED BY <2>2, <2>3
<1>. QED BY <1>1, <1>3, <1>4, <1>5, <1>6, <1>7, <1>8 DEF Parse

-----------------------------------------------------------------------------
\* The invariant of every file and every moment of its parsing.
THEOREM ParserInvariant == Spec => []Inv
<1>1. Init => Inv
  BY InitInv
<1>2. Inv /\ [Next]_vars => Inv'
  <2>1. ASSUME Inv, UNCHANGED vars PROVE Inv'
    BY <2>1, TreeLeft DEF vars, lexerVars, parserVars, Inv, TypeOK
  <2>. QED BY <2>1, LexerStep, ParserStep DEF Next
<1>. QED BY <1>1, <1>2, PTL DEF Spec

\* The types of the parser's state hold for every file.
THEOREM ParserTypes == Spec => []TypeOK
<1>1. Inv => TypeOK
  BY DEF Inv
<1>. QED BY <1>1, ParserInvariant, PTL

\* Parse never takes top() of an empty stack (config_parser.cc:303-326): the
\* stack is the chain of the open blocks, as deep as bracket_count says.
THEOREM StackIsSound == Spec => []OpenChain
<1>1. Inv => OpenChain
  BY DEF Inv
<1>. QED BY <1>1, ParserInvariant, PTL

\* Parse never takes back() of an empty vector (config_parser.cc:306, 325): while
\* a statement is under way it is the last one made and has no block.
THEOREM StatementIsSound == Spec => []BackIsUnderWay
<1>1. Inv => BackIsUnderWay
  BY DEF Inv
<1>. QED BY <1>1, ParserInvariant, PTL

\* Every token that ParseToken hands to Parse is one whole token of the file's
\* language, for every alphabet and length (config_parser.cc:192-256).
THEOREM LexerIsSound == Spec => []TokensAreWhole
<1>1. Inv => TokensAreWhole
  BY DEF Inv
<1>. QED BY <1>1, ParserInvariant, PTL

-----------------------------------------------------------------------------
(* Parse accepts the texts of the grammar and refuses all others: the last *)
(* token's type and a count of brackets are enough to tell.                *)

TreeTypes == {"NORMAL", "STATEMENT_END", "START_BLOCK", "END_BLOCK"}

\* The type of a token is told by its text.
Spells(type, t) ==
    /\ type \in TreeTypes
    /\ type = "STATEMENT_END" <=> t = End
    /\ type = "START_BLOCK" <=> t = Open
    /\ type = "END_BLOCK" <=> t = Close

ValueSpelled == token_type \in TreeTypes => Spells(token_type, value)

\* What Parse remembers is what its tokens end with and how many blocks they
\* leave open.
LastKnown ==
    IF given = <<>> THEN last_token_type = "START"
    ELSE Spells(last_token_type, given[Len(given)])

Counted ==
    bracket_count = Count(given, Open, Len(given)) - Count(given, Close, Len(given))

GrammarInv == ValueSpelled /\ LastKnown /\ Counted /\ Begins(given) /\ AcceptsTheGrammar

-----------------------------------------------------------------------------
(* The tokens of one character.                                            *)

LEMMA OneCharacter ==
    ASSUME NEW a, NEW b, a # b
    PROVE  <<a>> # <<b>>
OBVIOUS

LEMMA OneOf == ASSUME NEW a \in Chars PROVE <<a>> \in Seq(Chars)
OBVIOUS

LEMMA TokensDiffer == Open # Close /\ Open # End /\ Close # End
<1>1. "{" # "}" /\ "{" # ";" /\ "}" # ";"
  BY Zenon
<1>. QED BY <1>1, OneCharacter, Zenon DEF Open, Close, End

\* The type of a character that is a token by itself.
LEMMA SingleSpells ==
    ASSUME NEW c \in DOMAIN SingleToken
    PROVE  Spells(SingleToken[c], <<c>>)
<1>1. DOMAIN SingleToken = {"{", "}", ";"}
  BY Zenon DEF SingleToken
<1>2. CASE c = "{"
  <2>1. SingleToken[c] = "START_BLOCK" /\ <<c>> = Open
    BY <1>2, Zenon DEF SingleToken, Open
  <2>. QED BY <2>1, TokensDiffer DEF Spells, TreeTypes
<1>3. CASE c = "}"
  <2>1. "}" # "{"
    BY Zenon
  <2>2. SingleToken[c] = "END_BLOCK" /\ <<c>> = Close
    BY <1>3, <2>1, Zenon DEF SingleToken, Close
  <2>. QED BY <2>2, TokensDiffer DEF Spells, TreeTypes
<1>4. CASE c = ";"
  <2>1. ";" # "{" /\ ";" # "}"
    BY Zenon
  <2>2. SingleToken[c] = "STATEMENT_END" /\ <<c>> = End
    BY <1>4, <2>1, Zenon DEF SingleToken, End
  <2>. QED BY <2>2, TokensDiffer DEF Spells, TreeTypes
<1>. QED BY <1>1, <1>2, <1>3, <1>4, Zenon

-----------------------------------------------------------------------------
(* Counting brackets.                                                      *)

LEMMA CountType ==
    ASSUME NEW ts, NEW b, NEW n \in Nat
    PROVE  Count(ts, b, n) \in Nat
<1>. DEFINE S == {i \in 1 .. n : ts[i] = b}
<1>1. IsFiniteSet(1 .. n)
  BY FS_Interval
<1>2. S \in SUBSET (1 .. n)
  OBVIOUS
<1>3. IsFiniteSet(S)
  <2>. HIDE DEF S
  <2>. QED BY <1>1, <1>2, FS_Subset
<1>4. Cardinality(S) \in Nat
  <2>. HIDE DEF S
  <2>. QED BY <1>3, FS_CardinalityType
<1>. QED BY <1>4 DEF Count

\* One more token leaves the counts before it alone and may add one at its end.
LEMMA CountAppend ==
    ASSUME NEW ts \in Seq(Seq(Chars)), NEW t \in Seq(Chars), NEW b
    PROVE  /\ \A n \in 0 .. Len(ts) : Count(Append(ts, t), b, n) = Count(ts, b, n)
           /\ Count(Append(ts, t), b, Len(ts) + 1) =
                Count(ts, b, Len(ts)) + IF t = b THEN 1 ELSE 0
<1>. DEFINE us == Append(ts, t)
            At(s, n) == {i \in 1 .. n : s[i] = b}
<1>1. /\ Len(ts) \in Nat /\ us[Len(ts) + 1] = t
      /\ \A i \in 1 .. Len(ts) : us[i] = ts[i]
  BY AppendElements
<1>. HIDE DEF us
<1>2. ASSUME NEW n \in 0 .. Len(ts) PROVE At(us, n) = At(ts, n)
  BY <1>1
<1>3. At(us, Len(ts) + 1) =
        IF t = b THEN At(ts, Len(ts)) \union {Len(ts) + 1} ELSE At(ts, Len(ts))
  BY <1>1
<1>4. Len(ts) + 1 \notin At(ts, Len(ts)) /\ IsFiniteSet(At(ts, Len(ts)))
  <2>1. IsFiniteSet(1 .. Len(ts)) /\ At(ts, Len(ts)) \in SUBSET (1 .. Len(ts))
    BY <1>1, FS_Interval
  <2>2. Len(ts) + 1 \notin 1 .. Len(ts)
    BY <1>1
  <2>. HIDE DEF At
  <2>. QED BY <2>1, <2>2, FS_Subset
<1>5. Cardinality(At(ts, Len(ts)) \union {Len(ts) + 1}) = Cardinality(At(ts, Len(ts))) + 1
  <2>. HIDE DEF At
  <2>. QED BY <1>4, FS_AddElement
<1>6. Cardinality(At(us, Len(ts) + 1)) = Cardinality(At(ts, Len(ts))) + IF t = b THEN 1 ELSE 0
  <2>1. Cardinality(At(ts, Len(ts))) \in Nat
    <3>. HIDE DEF At
    <3>. QED BY <1>4, FS_CardinalityType
  <2>. HIDE DEF At
  <2>. QED BY <1>3, <1>5, <2>1
<1>. QED BY <1>2, <1>6 DEF Count, us

\* When one more token is a beginning again.
LEMMA BeginsAppend ==
    ASSUME NEW ts \in Seq(Seq(Chars)), NEW t \in Seq(Chars), Begins(ts),
           Count(ts, Close, Len(ts)) <= Count(ts, Open, Len(ts))
    PROVE  Begins(Append(ts, t)) <=>
             /\ t \in {End, Open} => ts # <<>> /\ IsWord(ts[Len(ts)])
             /\ t = Close => /\ ts # <<>> /\ ~IsWord(ts[Len(ts)])
                               /\ Count(ts, Close, Len(ts)) < Count(ts, Open, Len(ts))
<1>. DEFINE us == Append(ts, t)
            Fits(s, i) == /\ s[i] \in {End, Open} => i > 1 /\ IsWord(s[i - 1])
                          /\ s[i] = Close => i > 1 /\ ~IsWord(s[i - 1])
                          /\ Count(s, Close, i) <= Count(s, Open, i)
<1>1. /\ Len(ts) \in Nat /\ DOMAIN ts = 1 .. Len(ts) /\ DOMAIN us = 1 .. Len(ts) + 1
      /\ us[Len(ts) + 1] = t /\ \A i \in 1 .. Len(ts) : us[i] = ts[i]
      /\ ts # <<>> <=> Len(ts) + 1 > 1
  BY AppendElements
<1>2. /\ \A n \in 0 .. Len(ts) : Count(us, Open, n) = Count(ts, Open, n)
      /\ Count(us, Open, Len(ts) + 1) = Count(ts, Open, Len(ts)) + IF t = Open THEN 1 ELSE 0
      /\ \A n \in 0 .. Len(ts) : Count(us, Close, n) = Count(ts, Close, n)
      /\ Count(us, Close, Len(ts) + 1) = Count(ts, Close, Len(ts)) + IF t = Close THEN 1 ELSE 0
  BY CountAppend
<1>3. Count(ts, Close, Len(ts)) \in Nat /\ Count(ts, Open, Len(ts)) \in Nat
  BY <1>1, CountType
<1>. HIDE DEF us
<1>4. ASSUME NEW i \in 1 .. Len(ts) PROVE Fits(us, i)
  <2>1. Fits(ts, i)
    BY <1>1 DEF Begins
  <2>2. us[i] = ts[i] /\ i \in 0 .. Len(ts) /\ (i > 1 => i - 1 \in 1 .. Len(ts))
    BY <1>1
  <2>3. i > 1 => us[i - 1] = ts[i - 1]
    BY <1>1, <2>2
  <2>. QED BY <1>2, <2>1, <2>2, <2>3
<1>5. Begins(us) <=> Fits(us, Len(ts) + 1)
  <2>1. \A i \in 1 .. Len(ts) + 1 : i \in 1 .. Len(ts) \/ i = Len(ts) + 1
    BY <1>1
  <2>. QED BY <1>1, <1>4, <2>1 DEF Begins
<1>6. /\ us[Len(ts) + 1] = t
      /\ ts # <<>> => us[Len(ts) + 1 - 1] = ts[Len(ts)]
  BY <1>1
<1>7. Count(us, Close, Len(ts) + 1) <= Count(us, Open, Len(ts) + 1) <=>
        (t = Close => Count(ts, Close, Len(ts)) < Count(ts, Open, Len(ts)))
  BY <1>2, <1>3, TokensDiffer
<1>8. Fits(us, Len(ts) + 1) <=>
        /\ t \in {End, Open} => ts # <<>> /\ IsWord(ts[Len(ts)])
        /\ t = Close => ts # <<>> /\ ~IsWord(ts[Len(ts)])
        /\ t = Close => Count(ts, Close, Len(ts)) < Count(ts, Open, Len(ts))
  BY <1>1, <1>6, <1>7
<1>. QED BY <1>5, <1>8 DEF us

-----------------------------------------------------------------------------
(* The steps.                                                              *)

\* The text of a word is none of the single characters.
LEMMA WordsAreWords ==
    ASSUME NEW t \in Seq(Chars), NEW q, PlainWord(t) \/ QuotedText(t, q)
    PROVE  Spells("NORMAL", t)
<1>1. Len(Open) = 1 /\ Len(Close) = 1 /\ Len(End) = 1
  <2>1. ASSUME NEW a PROVE Len(<<a>>) = 1
    OBVIOUS
  <2>. QED BY <2>1, Zenon DEF Open, Close, End
<1>2. Open[1] \in EndsWord /\ Close[1] \in EndsWord /\ End[1] \in EndsWord
  <2>1. ASSUME NEW a PROVE <<a>>[1] = a
    OBVIOUS
  <2>. QED BY <2>1, Zenon DEF Open, Close, End, EndsWord
<1>3. t # Open /\ t # Close /\ t # End
  <2>1. CASE PlainWord(t)
    <3>1. t # <<>> /\ \A i \in DOMAIN t : t[i] \notin EndsWord
      BY <2>1, Zenon DEF PlainWord
    <3>2. 1 \in DOMAIN t
      BY <3>1
    <3>. QED BY <1>2, <3>1, <3>2, Zenon
  <2>2. CASE QuotedText(t, q)
    BY <1>1, <2>2 DEF QuotedText
  <2>. QED BY <2>1, <2>2
<1>. QED BY <1>3 DEF Spells, TreeTypes

LEMMA GrammarInit == Init => GrammarInv
<1>. SUFFICES ASSUME Init PROVE GrammarInv
  OBVIOUS
<1>1. given = <<>> /\ last_token_type = "START" /\ token_type = NoToken /\ result = "parsing"
      /\ bracket_count = 0
  BY DEF Init
<1>2. Begins(<<>>)
  BY DEF Begins
<1>3. Count(<<>>, Open, 0) = 0 /\ Count(<<>>, Close, 0) = 0
  BY FS_EmptySet DEF Count
<1>. QED BY <1>1, <1>2, <1>3 DEF GrammarInv, ValueSpelled, LastKnown, Counted, AcceptsTheGrammar,
                                 NoToken, TreeTypes

\* ParseToken leaves what Parse keeps alone.
LEMMA LexerLeavesParser == ASSUME ParseToken PROVE UNCHANGED parserVars /\ result = "parsing"
BY DEF ParseToken, SingleCharacter, SkipBlank, StartToken, Quoted, Comment, Word, WordEnds,
       EndOfFile, Return, Continue, Get, Fetch

\* ParseToken returns a type that its text spells.
LEMMA GrammarLexerStep ==
    ASSUME Inv, Inv', GrammarInv, ParseToken
    PROVE  GrammarInv'
<1>1. UNCHANGED parserVars /\ result = "parsing"
  BY LexerLeavesParser
<1>2. ValueSpelled'
  <2>1. ASSUME NEW c \in Chars, SingleCharacter(c) PROVE ValueSpelled'
    <3>1. value' = <<c>> /\ token_type' = SingleToken[c] /\ c \in DOMAIN SingleToken
      BY <2>1 DEF SingleCharacter, Return
    <3>. QED BY <3>1, SingleSpells DEF ValueSpelled
  <2>2. ASSUME NEW c \in Chars, Quoted(c) PROVE ValueSpelled'
    <3>. DEFINE q == IF state = "SINGLE_QUOTE" THEN "'" ELSE "\""
    <3>1. /\ value' = Append(value, c) /\ token_type = NoToken
          /\ state \in {"SINGLE_QUOTE", "DOUBLE_QUOTE"} /\ value \in Seq(Chars)
          /\ token_type' = IF c = q THEN "NORMAL" ELSE NoToken
      BY <2>2 DEF Quoted, Get, Fetch, Return, Continue, Inv, TypeOK
    <3>2. OpenQuote(value, q)
      BY <3>1 DEF Inv, ValueOK
    <3>3. CASE c = q
      <4>1. QuotedText(value', q) /\ value' \in Seq(Chars)
        BY <3>1, <3>2, <3>3, QuoteGrows, AppendElements
      <4>. QED BY <3>1, <3>3, <4>1, WordsAreWords DEF ValueSpelled
    <3>4. CASE c # q
      BY <3>1, <3>4 DEF ValueSpelled, NoToken, TreeTypes
    <3>. QED BY <3>3, <3>4
  <2>3. ASSUME NEW c \in Chars, WordEnds(c) PROVE ValueSpelled'
    <3>1. /\ value' = value /\ token_type' = "NORMAL" /\ value \in Seq(Chars)
          /\ token_type = NoToken /\ state = "NORMAL"
      BY <2>3 DEF WordEnds, Fetch, Return, Inv, TypeOK
    <3>2. PlainWord(value)
      BY <3>1 DEF Inv, ValueOK
    <3>. QED BY <3>1, <3>2, WordsAreWords DEF ValueSpelled
  <2>4. ASSUME NEW c \in Chars, SkipBlank(c) \/ StartToken(c) \/ Comment(c) \/ Word(c)
        PROVE  token_type' \notin TreeTypes
    <3>1. token_type = NoToken
      BY <2>4 DEF SkipBlank, StartToken, Comment, Word, Get, Fetch
    <3>. QED BY <2>4, <3>1 DEF SkipBlank, StartToken, Comment, Word, Return, Continue, NoToken,
                               TreeTypes
  <2>5. EndOfFile => token_type' \notin TreeTypes
    BY DEF EndOfFile, Return, TreeTypes
  <2>. QED BY <2>1, <2>2, <2>3, <2>4, <2>5 DEF ParseToken, ValueSpelled
<1>3. LastKnown' /\ Counted' /\ Begins(given)'
  BY <1>1 DEF parserVars, GrammarInv, LastKnown, Counted
<1>4. AcceptsTheGrammar'
  BY <1>1, <1>3 DEF parserVars, AcceptsTheGrammar
<1>. QED BY <1>2, <1>3, <1>4 DEF GrammarInv

\* The type of the last token tells what the grammar asks of the last text.
LEMMA LastTold ==
    ASSUME LastKnown
    PROVE  /\ last_token_type = "NORMAL" <=> given # <<>> /\ IsWord(given[Len(given)])
           /\ last_token_type \in {"STATEMENT_END", "END_BLOCK"} <=>
                given # <<>> /\ given[Len(given)] \in {End, Close}
           /\ last_token_type \in MayCloseAfter <=> given # <<>> /\ ~IsWord(given[Len(given)])
<1>1. CASE given = <<>>
  BY <1>1 DEF LastKnown, MayCloseAfter
<1>2. CASE given # <<>>
  BY <1>2 DEF LastKnown, Spells, TreeTypes, IsWord, MayCloseAfter
<1>. QED BY <1>1, <1>2

\* What Parse asks of a token that changes the tree.
Asked ==
    /\ token_type \in {"STATEMENT_END", "START_BLOCK"} => last_token_type = "NORMAL"
    /\ token_type = "END_BLOCK" => last_token_type \in MayCloseAfter /\ bracket_count > 0

\* It is what the grammar asks.
LEMMA AskedIsGrammar ==
    ASSUME Inv, GrammarInv, result = "parsing", token_type \in TreeTypes
    PROVE  Asked <=> Begins(Append(given, value))
<1>1. given \in Seq(Seq(Chars)) /\ value \in Seq(Chars) /\ bracket_count \in Nat
  BY DEF Inv, TypeOK
<1>2. Begins(given) /\ LastKnown /\ Spells(token_type, value)
  BY DEF GrammarInv, ValueSpelled
<1>3. /\ Len(given) \in Nat
      /\ Count(given, Close, Len(given)) \in Nat /\ Count(given, Open, Len(given)) \in Nat
  BY <1>1, CountType
<1>4. /\ Count(given, Close, Len(given)) <= Count(given, Open, Len(given))
      /\ bracket_count > 0 <=> Count(given, Close, Len(given)) < Count(given, Open, Len(given))
  BY <1>1, <1>3 DEF GrammarInv, Counted
<1>5. Begins(Append(given, value)) <=>
        /\ value \in {End, Open} => given # <<>> /\ IsWord(given[Len(given)])
        /\ value = Close => /\ given # <<>> /\ ~IsWord(given[Len(given)])
                            /\ Count(given, Close, Len(given)) < Count(given, Open, Len(given))
  BY <1>1, <1>2, <1>4, BeginsAppend
<1>6. /\ value \in {End, Open} <=> token_type \in {"STATEMENT_END", "START_BLOCK"}
      /\ value = Close <=> token_type = "END_BLOCK"
  BY <1>2 DEF Spells
<1>. QED BY <1>2, <1>4, <1>5, <1>6, LastTold DEF Asked

LEMMA GrammarTaken ==
    ASSUME Inv, GrammarInv, result = "parsing", token_type \in TreeTypes, Asked, Taken,
           bracket_count' = bracket_count + IF token_type = "START_BLOCK" THEN 1
                                            ELSE IF token_type = "END_BLOCK" THEN -1 ELSE 0
    PROVE  GrammarInv'
<1>1. given \in Seq(Seq(Chars)) /\ value \in Seq(Chars) /\ bracket_count \in Nat
  BY DEF Inv, TypeOK
<1>2. given' = Append(given, value) /\ last_token_type' = token_type /\ token_type' = NoToken
      /\ result' = "parsing"
  BY DEF Taken, NextToken
<1>3. Spells(token_type, value)
  BY DEF GrammarInv, ValueSpelled
<1>4. Begins(given')
  BY <1>2, AskedIsGrammar
<1>5. Len(given) \in Nat /\ Len(given') = Len(given) + 1 /\ given'[Len(given')] = value
      /\ given' # <<>>
  BY <1>1, <1>2, AppendElements
<1>6. LastKnown'
  BY <1>2, <1>3, <1>5 DEF LastKnown, Spells
<1>7. Counted'
  <2>1. /\ Count(given', Open, Len(given')) =
             Count(given, Open, Len(given)) + IF value = Open THEN 1 ELSE 0
        /\ Count(given', Close, Len(given')) =
             Count(given, Close, Len(given)) + IF value = Close THEN 1 ELSE 0
    BY <1>1, <1>2, <1>5, CountAppend
  <2>2. /\ Count(given, Close, Len(given)) \in Nat /\ Count(given, Open, Len(given)) \in Nat
        /\ bracket_count = Count(given, Open, Len(given)) - Count(given, Close, Len(given))
    BY <1>5, CountType DEF GrammarInv, Counted
  <2>3. /\ value = Open <=> token_type = "START_BLOCK"
        /\ value = Close <=> token_type = "END_BLOCK"
    BY <1>3 DEF Spells
  <2>4. bracket_count' = Count(given', Open, Len(given')) - Count(given', Close, Len(given'))
    BY <2>1, <2>2, <2>3
  <2>. QED BY <2>4 DEF Counted
<1>8. ValueSpelled'
  BY <1>2 DEF ValueSpelled, NoToken, TreeTypes
<1>9. AcceptsTheGrammar'
  BY <1>2, <1>4 DEF AcceptsTheGrammar
<1>. QED BY <1>4, <1>6, <1>7, <1>8, <1>9 DEF GrammarInv

\* Whatever ends Parse leaves the tokens and what it remembers of them alone.
LEMMA GrammarEnd ==
    ASSUME GrammarInv, UNCHANGED <<given, value, token_type, last_token_type, bracket_count>>,
           result' # "parsing", AcceptsTheGrammar'
    PROVE  GrammarInv'
BY DEF GrammarInv, ValueSpelled, LastKnown, Counted

LEMMA GrammarFail ==
    ASSUME Inv, GrammarInv, result = "parsing", token_type \in TreeTypes, ~Asked, Fail
    PROVE  GrammarInv'
<1>1. UNCHANGED <<given, value, token_type, last_token_type, bracket_count>> /\ result' = "invalid"
  BY DEF Fail
<1>2. ~Begins(Append(given, value))
  BY AskedIsGrammar
<1>3. AcceptsTheGrammar'
  BY <1>1, <1>2 DEF AcceptsTheGrammar, TreeTypes
<1>. QED BY <1>1, <1>3, GrammarEnd

\* A file that ends in a word is no text of the grammar.
LEMMA FileEnds ==
    ASSUME Inv, token_type = "EOF", ~Complete(given)
    PROVE  ~Complete(FileTokens)
<1>1. CASE WordIsCutOff
  <2>1. value \in Seq(Chars) /\ PlainWord(value) /\ given \in Seq(Seq(Chars))
    BY <1>1 DEF Inv, ValueOK, TypeOK, WordIsCutOff
  <2>2. value # End /\ value # Close
    BY <2>1, WordsAreWords DEF Spells
  <2>3. FileTokens[Len(FileTokens)] = value
    BY <1>1, <2>1, AppendElements DEF FileTokens
  <2>. QED BY <2>2, <2>3 DEF Complete
<1>2. CASE ~WordIsCutOff
  BY <1>2 DEF FileTokens
<1>. QED BY <1>1, <1>2

LEMMA GrammarParserStep ==
    ASSUME Inv, Inv', GrammarInv, Parse
    PROVE  GrammarInv'
<1>0. result = "parsing" /\ bracket_count \in Nat
  BY DEF Parse, Inv, TypeOK
<1>1. CASE SkipComment
  <2>1. UNCHANGED parserVars /\ token_type' = NoToken
    BY <1>1 DEF SkipComment, NextToken
  <2>2. LastKnown' /\ Counted' /\ Begins(given)' /\ ValueSpelled'
    BY <2>1 DEF parserVars, GrammarInv, LastKnown, Counted, ValueSpelled, NoToken, TreeTypes
  <2>3. AcceptsTheGrammar'
    BY <1>0, <2>1, <2>2 DEF parserVars, AcceptsTheGrammar
  <2>. QED BY <2>2, <2>3 DEF GrammarInv
<1>2. CASE ParseNormal
  <2>1. token_type = "NORMAL" /\ Taken /\ bracket_count' = bracket_count /\ token_type \in TreeTypes
    BY <1>2 DEF ParseNormal, TreeTypes
  <2>2. Asked
    BY <2>1 DEF Asked
  <2>. QED BY <1>0, <2>1, <2>2, GrammarTaken
<1>3. CASE ParseStatementEnd
  <2>1. token_type = "STATEMENT_END" /\ token_type \in TreeTypes
    BY <1>3 DEF ParseStatementEnd, TreeTypes
  <2>2. CASE Asked
    <3>1. Taken /\ bracket_count' = bracket_count
      BY <1>3, <2>1, <2>2 DEF ParseStatementEnd, Asked
    <3>. QED BY <1>0, <2>1, <2>2, <3>1, GrammarTaken
  <2>3. CASE ~Asked
    <3>1. Fail
      BY <1>3, <2>1, <2>3 DEF ParseStatementEnd, Asked
    <3>. QED BY <1>0, <2>1, <2>3, <3>1, GrammarFail
  <2>. QED BY <2>2, <2>3
<1>4. CASE ParseStartBlock
  <2>1. token_type = "START_BLOCK" /\ token_type \in TreeTypes
    BY <1>4 DEF ParseStartBlock, TreeTypes
  <2>2. CASE Asked
    <3>1. Taken /\ bracket_count' = bracket_count + 1
      BY <1>4, <2>1, <2>2 DEF ParseStartBlock, Asked
    <3>. QED BY <1>0, <2>1, <2>2, <3>1, GrammarTaken
  <2>3. CASE ~Asked
    <3>1. Fail
      BY <1>4, <2>1, <2>3 DEF ParseStartBlock, Asked
    <3>. QED BY <1>0, <2>1, <2>3, <3>1, GrammarFail
  <2>. QED BY <2>2, <2>3
<1>5. CASE ParseEndBlock
  <2>1. token_type = "END_BLOCK" /\ token_type \in TreeTypes
    BY <1>5 DEF ParseEndBlock, TreeTypes
  <2>2. CASE Asked
    <3>1. Taken /\ bracket_count' = bracket_count - 1
      BY <1>0, <1>5, <2>1, <2>2 DEF ParseEndBlock, Asked
    <3>. QED BY <1>0, <2>1, <2>2, <3>1, GrammarTaken
  <2>3. CASE ~Asked
    <3>1. Fail
      BY <1>0, <1>5, <2>1, <2>3 DEF ParseEndBlock, Asked
    <3>. QED BY <1>0, <2>1, <2>3, <3>1, GrammarFail
  <2>. QED BY <2>2, <2>3
<1>6. CASE ParseEOF
  <2>1. token_type = "EOF"
        /\ UNCHANGED <<given, value, token_type, last_token_type, bracket_count, state>>
    BY <1>6 DEF ParseEOF, Fail, lexerVars
  <2>2. Complete(given) <=>
          last_token_type \in {"STATEMENT_END", "END_BLOCK"} /\ bracket_count = 0
    <3>1. Len(given) \in Nat
      BY DEF Inv, TypeOK
    <3>2. Count(given, Close, Len(given)) \in Nat /\ Count(given, Open, Len(given)) \in Nat
      BY <3>1, CountType
    <3>3. LastKnown /\ Begins(given)
          /\ bracket_count = Count(given, Open, Len(given)) - Count(given, Close, Len(given))
      BY DEF GrammarInv, Counted
    <3>4. bracket_count = 0 <=> Count(given, Close, Len(given)) = Count(given, Open, Len(given))
      BY <3>2, <3>3
    <3>. QED BY <3>3, <3>4, LastTold DEF Complete
  <2>3. CASE result' = "valid"
    <3>1. Complete(given)
      BY <1>6, <2>2, <2>3 DEF ParseEOF, Fail
    <3>2. (Complete(FileTokens) \/ (WordIsCutOff /\ Complete(given)))'
      BY <2>1, <3>1 DEF FileTokens, WordIsCutOff
    <3>. QED BY <2>1, <2>3, <3>2, GrammarEnd DEF AcceptsTheGrammar
  <2>4. CASE result' # "valid"
    <3>1. ~Complete(given) /\ result' = "invalid"
      BY <1>6, <2>2, <2>4 DEF ParseEOF, Fail
    <3>2. ~Complete(FileTokens)
      BY <2>1, <3>1, FileEnds
    <3>3. ~Complete(FileTokens)' /\ ~Complete(given)'
      BY <2>1, <3>1, <3>2 DEF FileTokens, WordIsCutOff
    <3>. QED BY <2>1, <3>1, <3>3, GrammarEnd DEF AcceptsTheGrammar
  <2>. QED BY <2>3, <2>4
<1>7. CASE ParseError
  <2>1. token_type = "ERROR" /\ result' = "invalid"
        /\ UNCHANGED <<given, value, token_type, last_token_type, bracket_count>>
    BY <1>7 DEF ParseError, Fail
  <2>2. AcceptsTheGrammar'
    BY <2>1 DEF AcceptsTheGrammar
  <2>. QED BY <2>1, <2>2, GrammarEnd
<1>. QED BY <1>1, <1>2, <1>3, <1>4, <1>5, <1>6, <1>7 DEF Parse

LEMMA GrammarNext ==
    ASSUME Inv, Inv', GrammarInv, [Next]_vars
    PROVE  GrammarInv'
<1>1. CASE ParseToken
  BY <1>1, GrammarLexerStep
<1>2. CASE Parse
  BY <1>2, GrammarParserStep
<1>3. CASE UNCHANGED vars
  <2>1. UNCHANGED <<given, value, token_type, last_token_type, bracket_count, result, state>>
    BY <1>3 DEF vars, parserVars, lexerVars
  <2>. QED BY <2>1 DEF GrammarInv, ValueSpelled, LastKnown, Counted, AcceptsTheGrammar,
                       FileTokens, WordIsCutOff
<1>. QED BY <1>1, <1>2, <1>3 DEF Next

\* For any characters and any length of the file: Parse accepts the files whose
\* tokens are a text of the grammar, and those that are one but for a last word
\* cut off by the end of the file; it refuses any other, at the first token that
\* no text of the grammar goes on with (NginxConfigParser::Parse).
THEOREM GrammarIsAccepted == Spec => []AcceptsTheGrammar
<1>1. Init => GrammarInv
  BY GrammarInit
<1>2. Inv /\ Inv' /\ GrammarInv /\ [Next]_vars => GrammarInv'
  BY GrammarNext
<1>3. GrammarInv => AcceptsTheGrammar
  BY DEF GrammarInv
<1>. QED BY <1>1, <1>2, <1>3, ParserInvariant, PTL DEF Spec

-----------------------------------------------------------------------------
(* The configuration writes what Parse was given (NginxConfig::ToString).  *)

Tokens == Seq(Chars)

Nest(ss) == Nesting(ss, Tokens)

\* The tokens of block b, and of each statement in it.
Text(ss, b) == BlockTokens(ss, b, Open, Close, End)

Line(ss, i) ==
    ss[i].tokens \o IF ss[i].child THEN <<Open>> \o Text(ss, i) \o <<Close>> ELSE <<End>>

Part(ss, b, i) == IF ss[i].block = b THEN Line(ss, i) ELSE <<>>

Parts(ss, b) == [i \in 1 .. Len(ss) |-> Part(ss, b, i)]

LEMMA MarkTokens == Open \in Tokens /\ Close \in Tokens /\ End \in Tokens
<1>1. "{" \in Chars /\ "}" \in Chars /\ ";" \in Chars
  BY CharsAssumption
<1>. QED BY <1>1, OneOf, Zenon DEF Open, Close, End, Tokens

\* A block's text is what its statements write, in order.
LEMMA TextIsParts ==
    ASSUME NEW ss, Nest(ss), NEW b \in 0 .. Len(ss)
    PROVE  /\ Parts(ss, b) \in Seq(Seq(Tokens)) /\ Len(Parts(ss, b)) = Len(ss)
           /\ Text(ss, b) = FlattenSeq(Parts(ss, b)) /\ Text(ss, b) \in Seq(Tokens)
<1>. DEFINE f == TextOf(ss, Open, Close, End)
            parts == TextIn(ss, f, b, Open, Close, End)
            M == Symbols(Tokens, Open, Close, End)
            n == Len(ss)
<1>1. n \in Nat /\ DOMAIN ss = 1 .. n /\ n = Len(ss)
  BY LenProperties DEF Nest, Nesting
<1>2. M = Tokens
  BY MarkTokens DEF Symbols
<1>3. /\ parts \in Seq(Seq(M)) /\ Text(ss, b) = FlattenSeq(parts)
      /\ Text(ss, b) \in Seq(M)
  BY BlockText DEF Nest, Text
<1>4. \A i \in 1 .. n : f[i] = Text(ss, i)
  BY BlockTokensText DEF Text
<1>5. parts = Parts(ss, b)
  <2>. HIDE DEF f
  <2>. QED BY <1>1, <1>4 DEF TextIn, Parts, Part, Line
<1>6. Len(Parts(ss, b)) = n
  <2>. DEFINE p == Parts(ss, b)
              B == Seq(M)
  <2>1. p = [i \in 1 .. n |-> p[i]] /\ p \in Seq(B)
    BY <1>1, <1>3, <1>5 DEF Parts
  <2>. HIDE DEF p, B, n
  <2>2. Len(p) = n
    BY <1>1, <2>1, LenProperties
  <2>. QED BY <2>2 DEF p
<1>. QED BY <1>1, <1>2, <1>3, <1>5, <1>6

LEMMA LineType ==
    ASSUME NEW ss, Nest(ss), NEW i \in 1 .. Len(ss)
    PROVE  /\ ss[i].tokens \in Seq(Tokens) /\ ss[i].block \in 0 .. Len(ss) /\ ss[i].block < i
           /\ Line(ss, i) \in Seq(Tokens)
<1>1. ss[i] \in Written(Tokens) /\ ss[i].block < i /\ Len(ss) \in Nat
  BY LenProperties, ElementOfSeq DEF Nest, Nesting
<1>2. ss[i].tokens \in Seq(Tokens) /\ ss[i].block \in 0 .. Len(ss) /\ i \in 0 .. Len(ss)
  BY <1>1 DEF Written
<1>. DEFINE u == Text(ss, i)
            o == <<Open>>
            x == <<Close>>
            e == <<End>>
            t == ss[i].tokens
<1>3. u \in Seq(Tokens)
  BY <1>2, TextIsParts
<1>4. o \in Seq(Tokens) /\ x \in Seq(Tokens) /\ e \in Seq(Tokens)
  BY MarkTokens, OneType
<1>5. t \in Seq(Tokens) /\ Line(ss, i) = t \o IF ss[i].child THEN o \o u \o x ELSE e
  BY <1>2 DEF Line
<1>. HIDE DEF u, o, x, e, t, Tokens
<1>6. o \o u \in Seq(Tokens)
  BY <1>3, <1>4, ConcatProperties
<1>7. o \o u \o x \in Seq(Tokens)
  BY <1>4, <1>6, ConcatProperties
<1>8. t \o (o \o u \o x) \in Seq(Tokens) /\ t \o e \in Seq(Tokens)
  BY <1>4, <1>5, <1>7, ConcatProperties
<1>. QED BY <1>1, <1>2, <1>5, <1>8 DEF t

\* What the statements up to p write in block b, and what one more writes.
Upto(ss, b, p) == [i \in 1 .. p |-> Part(ss, b, i)]
Beyond(ss, b, p) == IF Len(ss) = p + 1 THEN Part(ss, b, p + 1) ELSE <<>>

LEMMA TextOfUpto ==
    ASSUME NEW ss, Nest(ss), NEW p \in Nat, Len(ss) \in {p, p + 1}, NEW b \in 0 .. Len(ss)
    PROVE  /\ Text(ss, b) = FlattenSeq(Upto(ss, b, p)) \o Beyond(ss, b, p)
           /\ FlattenSeq(Upto(ss, b, p)) \in Seq(Tokens) /\ Beyond(ss, b, p) \in Seq(Tokens)
<1>. DEFINE parts == Parts(ss, b)
            B == Seq(Tokens)
            up == Upto(ss, b, p)
<1>1. parts \in Seq(B) /\ Len(parts) = Len(ss) /\ Text(ss, b) = FlattenSeq(parts)
  BY TextIsParts
<1>2. parts = [i \in 1 .. Len(ss) |-> Part(ss, b, i)]
  BY DEF Parts
<1>3. \A i \in 1 .. Len(ss) : parts[i] \in B /\ parts[i] = Part(ss, b, i)
  <2>. HIDE DEF B
  <2>1. \A i \in 1 .. Len(parts) : parts[i] \in B
    <3>. HIDE DEF parts
    <3>. QED BY <1>1, ElementOfSeq
  <2>2. \A i \in 1 .. Len(ss) : parts[i] = Part(ss, b, i)
    BY <1>2
  <2>. QED BY <1>1, <2>1, <2>2
<1>. HIDE DEF parts
<1>4. CASE Len(ss) = p
  <2>1. up = parts /\ Beyond(ss, b, p) = <<>>
    BY <1>2, <1>4 DEF Upto, Beyond
  <2>2. FlattenSeq(up) \in B
    BY <1>1, <2>1, FlattenType DEF B
  <2>3. FlattenSeq(up) \o <<>> = FlattenSeq(up) /\ <<>> \in B
    <3>. HIDE DEF up
    <3>. QED BY <2>2, ConcatEmptySeq, EmptySeq DEF B
  <2>. QED BY <1>1, <2>1, <2>2, <2>3
<1>5. CASE Len(ss) = p + 1
  <2>. DEFINE last == Part(ss, b, p + 1)
  <2>1. last \in B /\ \A i \in 1 .. p : up[i] \in B /\ up[i] = parts[i]
    BY <1>3, <1>5 DEF Upto
  <2>2. up \in [1 .. p -> B]
    <3>1. up = [i \in 1 .. p |-> up[i]]
      BY DEF Upto
    <3>. HIDE DEF up, B
    <3>. QED BY <2>1, <3>1
  <2>3. up \in Seq(B) /\ Len(up) = p
    <3>. HIDE DEF up, B
    <3>. QED BY <2>2, IsASeq, LenProperties
  <2>4. parts[p + 1] = last
    BY <1>3, <1>5
  <2>5. parts = Append(up, last)
    <3>. HIDE DEF up, last, B
    <3>1. Append(up, last) \in Seq(B) /\ Len(Append(up, last)) = p + 1
          /\ (\A i \in 1 .. p : Append(up, last)[i] = up[i]) /\ Append(up, last)[p + 1] = last
      BY <2>1, <2>3, AppendProperties
    <3>2. \A i \in 1 .. p + 1 : i \in 1 .. p \/ i = p + 1
      OBVIOUS
    <3>. QED BY <1>1, <1>5, <2>1, <2>4, <3>1, <3>2, SeqEqual
  <2>6. FlattenSeq(parts) = FlattenSeq(up) \o last /\ FlattenSeq(up) \in B
    <3>. HIDE DEF up, last
    <3>. QED BY <2>1, <2>3, <2>5, FlattenAppend, FlattenType DEF B
  <2>7. Beyond(ss, b, p) = last
    BY <1>5 DEF Beyond
  <2>. QED BY <1>1, <2>1, <2>6, <2>7
<1>. QED BY <1>4, <1>5

\* tt is ss with one statement, number p + 1, new or changed at its end.
Grown(ss, tt, p) ==
    /\ Nest(ss) /\ Nest(tt) /\ p \in Nat /\ Len(tt) = p + 1 /\ Len(ss) \in {p, p + 1}
    /\ \A i \in 1 .. p : ss[i] = tt[i]
    /\ Len(ss) = p + 1 => ss[p + 1].block = tt[p + 1].block

\* st are blocks each of which is the last in the one before, and statement p + 1
\* stands in the last of them.
Path(st, tt, p) ==
    /\ st \in Seq(Nat) /\ st # <<>> /\ st[1] = 0
    /\ \A k \in 1 .. Len(st) : st[k] \in 0 .. p
    /\ \A k \in 1 .. Len(st) - 1 :
         /\ st[k + 1] \in 1 .. p /\ tt[st[k + 1]].block = st[k] /\ tt[st[k + 1]].child
         /\ \A j \in 1 .. p + 1 : tt[j].block = st[k] => j <= st[k + 1]
    /\ tt[p + 1].block = st[Len(st)]

\* A block that the last statement is not in has the same text if its other
\* statements have.
LEMMA TextKept ==
    ASSUME NEW ss, NEW tt, NEW p, Grown(ss, tt, p), NEW b \in 0 .. p, tt[p + 1].block # b,
           \A i \in 1 .. p : Part(ss, b, i) = Part(tt, b, i)
    PROVE  Text(ss, b) = Text(tt, b)
<1>1. /\ Nest(ss) /\ Nest(tt) /\ p \in Nat /\ Len(ss) \in {p, p + 1} /\ Len(tt) \in {p, p + 1}
      /\ b \in 0 .. Len(ss) /\ b \in 0 .. Len(tt)
  BY DEF Grown
<1>2. Upto(ss, b, p) = Upto(tt, b, p)
  BY DEF Upto
<1>3. Beyond(ss, b, p) = <<>> /\ Beyond(tt, b, p) = <<>>
  BY DEF Grown, Beyond, Part
<1>4. /\ Text(ss, b) = FlattenSeq(Upto(ss, b, p)) \o Beyond(ss, b, p)
      /\ Text(tt, b) = FlattenSeq(Upto(tt, b, p)) \o Beyond(tt, b, p)
  BY <1>1, TextOfUpto
<1>. QED BY <1>2, <1>3, <1>4

\* The statements of a block that the path does not lead through write the same:
\* no block in it is on the path.
LEMMA OffPath ==
    ASSUME NEW ss, NEW tt, NEW p, Grown(ss, tt, p), NEW st, Path(st, tt, p)
    PROVE  \A b \in 0 .. p : (\A k \in 1 .. Len(st) - 1 : st[k] # b) =>
             \A i \in 1 .. p : Part(ss, b, i) = Part(tt, b, i)
<1>. DEFINE Off(b) == \A k \in 1 .. Len(st) - 1 : st[k] # b
            Same(b) == \A i \in 1 .. p : Part(ss, b, i) = Part(tt, b, i)
            P == {b \in 0 .. p : Off(b) => Same(b)}
<1>0. p \in Nat /\ Len(st) \in Nat \ {0}
  BY LenProperties, EmptySeq DEF Grown, Path
<1>1. ASSUME NEW b \in 0 .. p, \A c \in 0 .. p : c > b => c \in P, Off(b)
      PROVE  Same(b)
  <2>. SUFFICES ASSUME NEW i \in 1 .. p PROVE Part(ss, b, i) = Part(tt, b, i)
    OBVIOUS
  <2>1. ss[i] = tt[i] /\ i \in 1 .. Len(tt) /\ i \in 0 .. p /\ tt[i].block < i
    <3>1. i \in 1 .. Len(tt) /\ ss[i] = tt[i] /\ i \in 0 .. p /\ Nest(tt)
      BY <1>0 DEF Grown
    <3>. QED BY <3>1, LineType
  <2>2. CASE tt[i].block # b
    BY <2>1, <2>2 DEF Part
  <2>3. CASE tt[i].block = b
    <3>1. \A k \in 1 .. Len(st) : st[k] # i
      <4>. SUFFICES ASSUME NEW k \in 1 .. Len(st), st[k] = i PROVE FALSE
        OBVIOUS
      <4>1. k # 1
        BY DEF Path
      <4>2. k - 1 \in 1 .. Len(st) - 1 /\ (k - 1) + 1 = k
        BY <1>0, <4>1
      <4>3. tt[st[k]].block = st[k - 1]
        BY <4>2 DEF Path
      <4>. QED BY <1>1, <2>3, <4>2, <4>3
    <3>2. i \in P /\ Off(i)
      <4>1. \A k \in 1 .. Len(st) - 1 : k \in 1 .. Len(st)
        BY <1>0
      <4>. QED BY <1>1, <2>1, <2>3, <3>1, <4>1
    <3>3. tt[p + 1].block # i
      <4>1. Len(st) \in 1 .. Len(st) /\ tt[p + 1].block = st[Len(st)]
        BY <1>0 DEF Path
      <4>. QED BY <3>1, <4>1
    <3>4. Text(ss, i) = Text(tt, i)
      <4>1. Same(i)
        BY <3>2
      <4>. QED BY <2>1, <3>3, <4>1, TextKept
    <3>. QED BY <2>1, <2>3, <3>4 DEF Part, Line
  <2>. QED BY <2>2, <2>3
<1>2. P = 0 .. p
  <2>1. P \in SUBSET (0 .. p)
    OBVIOUS
  <2>2. \A b \in 0 .. p : (\A c \in 0 .. p : c > b => c \in P) => b \in P
    BY <1>1
  <2>. HIDE DEF P
  <2>. QED BY <1>0, <2>1, <2>2, DescentHolds
<1>. QED BY <1>2

\* Both write the same in block b up to block m, which comes last in it.
Leads(ss, tt, b, m) ==
    \E u \in Seq(Tokens) :
      /\ Text(ss, b) = u \o (<<Open>> \o Text(ss, m) \o <<Close>>)
      /\ Text(tt, b) = u \o (<<Open>> \o Text(tt, m) \o <<Close>>)

\* A block on the path writes the same up to the block that leads on, and nothing
\* after it but its end.
LEMMA OnPath ==
    ASSUME NEW ss, NEW tt, NEW p, Grown(ss, tt, p), NEW st, Path(st, tt, p),
           NEW k \in 1 .. Len(st) - 1
    PROVE  Leads(ss, tt, st[k], st[k + 1])
<1>. DEFINE b == st[k]
            m == st[k + 1]
            before(s) == FlattenSeq(SubSeq(Parts(s, b), 1, m - 1))
            t == tt[m].tokens
<1>0. /\ p \in Nat /\ Len(st) \in Nat \ {0} /\ b \in 0 .. p /\ m \in 1 .. p /\ m \in 0 .. p
      /\ Nest(ss) /\ Nest(tt) /\ Len(tt) = p + 1 /\ Len(ss) \in {p, p + 1}
      /\ tt[m].block = b /\ tt[m].child /\ ss[m] = tt[m]
      /\ \A j \in 1 .. p + 1 : tt[j].block = b => j <= m
  BY LenProperties, EmptySeq DEF Grown, Path
<1>1. ASSUME NEW i \in 1 .. m - 1 PROVE Part(ss, b, i) = Part(tt, b, i)
  <2>1. i \in 1 .. p /\ i \in 0 .. p /\ ss[i] = tt[i]
    BY <1>0 DEF Grown
  <2>2. CASE tt[i].block # b
    BY <2>1, <2>2 DEF Part
  <2>3. CASE tt[i].block = b
    <3>1. \A j \in 1 .. Len(st) : st[j] # i
      <4>. SUFFICES ASSUME NEW j \in 1 .. Len(st), st[j] = i PROVE FALSE
        OBVIOUS
      <4>1. j # 1
        BY DEF Path
      <4>2. j - 1 \in 1 .. Len(st) - 1 /\ (j - 1) + 1 = j /\ m \in 1 .. p + 1
        BY <1>0, <4>1
      <4>3. tt[st[j]].block = st[j - 1]
        BY <4>2 DEF Path
      <4>4. tt[m].block = st[j - 1] => m <= st[j]
        BY <4>2 DEF Path
      <4>. QED BY <1>0, <2>3, <4>3, <4>4
    <3>2. \A j \in 1 .. Len(st) - 1 : st[j] # i
      BY <1>0, <3>1
    <3>3. \A j \in 1 .. p : Part(ss, i, j) = Part(tt, i, j)
      BY <2>1, <3>2, OffPath
    <3>4. tt[p + 1].block # i
      <4>1. Len(st) \in 1 .. Len(st) /\ tt[p + 1].block = st[Len(st)]
        BY <1>0 DEF Path
      <4>. QED BY <3>1, <4>1
    <3>5. Text(ss, i) = Text(tt, i)
      BY <2>1, <3>3, <3>4, TextKept
    <3>. QED BY <2>1, <3>5 DEF Part, Line
  <2>. QED BY <2>2, <2>3
<1>2. ASSUME NEW s, s \in {ss, tt}
      PROVE  /\ Text(s, b) = before(s) \o (t \o (<<Open>> \o Text(s, m) \o <<Close>>))
             /\ before(s) \in Seq(Tokens)
             /\ \A i \in 1 .. m - 1 : Parts(s, b)[i] = Part(s, b, i)
  <2>. DEFINE parts == Parts(s, b)
  <2>1. /\ Nest(s) /\ Len(s) \in Nat /\ b \in 0 .. Len(s) /\ m \in 1 .. Len(s) /\ Len(s) <= p + 1
        /\ s[m] = tt[m]
    BY <1>0, <1>2
  <2>2. parts \in Seq(Seq(Tokens)) /\ Len(parts) = Len(s) /\ Text(s, b) = FlattenSeq(parts)
    BY <2>1, TextIsParts
  <2>3. \A i \in 1 .. Len(s) : parts[i] = Part(s, b, i)
    BY DEF Parts
  <2>4. \A i \in 1 .. Len(s) : i > m => parts[i] = <<>>
    <3>. SUFFICES ASSUME NEW i \in 1 .. Len(s), i > m PROVE parts[i] = <<>>
      OBVIOUS
    <3>1. s[i].block = tt[i].block /\ i \in 1 .. p + 1
      BY <1>0, <1>2, <2>1 DEF Grown
    <3>2. s[i].block # b
      BY <1>0, <2>1, <3>1
    <3>. QED BY <2>3, <3>2 DEF Part
  <2>5. parts[m] = t \o (<<Open>> \o Text(s, m) \o <<Close>>)
    BY <1>0, <2>1, <2>3 DEF Part, Line
  <2>6. m \in 1 .. Len(parts)
    BY <2>1, <2>2
  <2>7. FlattenSeq(parts) = before(s) \o parts[m] /\ before(s) \in Seq(Tokens)
    <3>1. \A i \in 1 .. Len(parts) : i > m => parts[i] = <<>>
      BY <2>2, <2>4
    <3>. HIDE DEF parts, Tokens
    <3>2. /\ FlattenSeq(parts) = FlattenSeq(SubSeq(parts, 1, m - 1)) \o parts[m]
          /\ FlattenSeq(SubSeq(parts, 1, m - 1)) \in Seq(Tokens)
      BY <2>2, <2>6, <3>1, FlattenUpto
    <3>. QED BY <3>2 DEF parts
  <2>8. \A i \in 1 .. m - 1 : i \in 1 .. Len(s)
    BY <2>1
  <2>. QED BY <2>2, <2>3, <2>5, <2>7, <2>8
<1>3. before(ss) = before(tt)
  <2>. DEFINE x == Parts(ss, b)
              y == Parts(tt, b)
  <2>1. \A i \in 1 .. m - 1 : x[i] = y[i]
    <3>1. /\ \A i \in 1 .. m - 1 : x[i] = Part(ss, b, i)
          /\ \A i \in 1 .. m - 1 : y[i] = Part(tt, b, i)
      <4>. HIDE DEF b, m
      <4>. QED BY <1>2
    <3>. HIDE DEF x, y, b, m
    <3>. QED BY <1>1, <3>1
  <2>2. SubSeq(x, 1, m - 1) = SubSeq(y, 1, m - 1)
    <3>. HIDE DEF x, y
    <3>. QED BY <1>0, <2>1
  <2>. QED BY <2>2
<1>4. t \in Seq(Tokens) /\ Text(ss, m) \in Seq(Tokens) /\ Text(tt, m) \in Seq(Tokens)
      /\ <<Open>> \in Seq(Tokens) /\ <<Close>> \in Seq(Tokens)
  <2>1. m \in 1 .. Len(tt) /\ m \in 0 .. Len(tt) /\ m \in 0 .. Len(ss)
    BY <1>0
  <2>2. t \in Seq(Tokens)
    BY <1>0, <2>1, LineType
  <2>3. Text(ss, m) \in Seq(Tokens) /\ Text(tt, m) \in Seq(Tokens)
    BY <1>0, <2>1, TextIsParts
  <2>. QED BY <2>2, <2>3, MarkTokens, OneType
<1>. DEFINE u == before(ss) \o t
            v(s) == <<Open>> \o Text(s, m) \o <<Close>>
<1>5. v(ss) \in Seq(Tokens) /\ v(tt) \in Seq(Tokens)
  <2>. DEFINE o == <<Open>>
              x == <<Close>>
              w == Text(ss, m)
              z == Text(tt, m)
  <2>1. o \in Seq(Tokens) /\ x \in Seq(Tokens) /\ w \in Seq(Tokens) /\ z \in Seq(Tokens)
    BY <1>4
  <2>. HIDE DEF o, x, w, z, Tokens
  <2>2. o \o w \in Seq(Tokens) /\ o \o z \in Seq(Tokens)
    BY <2>1, ConcatProperties
  <2>3. o \o w \o x \in Seq(Tokens) /\ o \o z \o x \in Seq(Tokens)
    BY <2>1, <2>2, ConcatProperties
  <2>. QED BY <2>3 DEF o, x, w, z
<1>6. before(ss) \in Seq(Tokens)
  BY <1>2
<1>7. /\ Text(ss, b) = before(ss) \o (t \o v(ss))
      /\ Text(tt, b) = before(ss) \o (t \o v(tt))
  BY <1>2, <1>3
<1>. HIDE DEF before, v, t, b, m, Tokens
<1>8. /\ u \in Seq(Tokens)
      /\ u \o v(ss) = before(ss) \o (t \o v(ss)) /\ u \o v(tt) = before(ss) \o (t \o v(tt))
  <2>. DEFINE x == before(ss)
              y == v(ss)
              z == v(tt)
  <2>1. x \in Seq(Tokens) /\ y \in Seq(Tokens) /\ z \in Seq(Tokens) /\ t \in Seq(Tokens)
    BY <1>4, <1>5, <1>6
  <2>. HIDE DEF x, y, z
  <2>2. /\ x \o t \in Seq(Tokens)
        /\ (x \o t) \o y = x \o (t \o y) /\ (x \o t) \o z = x \o (t \o z)
    <3>1. x \o t \in Seq(Tokens)
      BY <2>1, ConcatProperties
    <3>2. (x \o t) \o y = x \o (t \o y)
      <4>1. Reassociates(x, t, y)
        BY <2>1, Reassociation
      <4>. QED BY <4>1, Zenon DEF Reassociates
    <3>3. (x \o t) \o z = x \o (t \o z)
      <4>1. Reassociates(x, t, z)
        BY <2>1, Reassociation
      <4>. QED BY <4>1, Zenon DEF Reassociates
    <3>. QED BY <3>1, <3>2, <3>3
  <2>. QED BY <2>2 DEF x, y, z
<1>9. Leads(ss, tt, b, m)
  BY <1>7, <1>8 DEF v, Leads
<1>. QED BY <1>9 DEF b, m

\* The closing brackets of n blocks.
Closes(n) == [i \in 1 .. n |-> Close]

LEMMA ClosesGrow ==
    ASSUME NEW n \in Nat
    PROVE  /\ Closes(n) \in Seq(Tokens) /\ Closes(0) = <<>>
           /\ Closes(n) \o <<Close>> = Closes(n + 1)
           /\ <<Close>> \o Closes(n) = Closes(n + 1)
<1>1. Close \in Tokens
  BY MarkTokens
<1>2. \A k \in Nat : Closes(k) \in Seq(Tokens) /\ Len(Closes(k)) = k /\ \A i \in 1 .. k : Closes(k)[i] = Close
  <2>. SUFFICES ASSUME NEW k \in Nat
                PROVE  Closes(k) \in Seq(Tokens) /\ Len(Closes(k)) = k /\ \A i \in 1 .. k : Closes(k)[i] = Close
    OBVIOUS
  <2>. DEFINE c == Closes(k)
  <2>1. c \in [1 .. k -> Tokens] /\ \A i \in 1 .. k : c[i] = Close
    BY <1>1 DEF Closes
  <2>. HIDE DEF c, Tokens
  <2>2. c \in Seq(Tokens)
    BY <2>1, IsASeq
  <2>. QED BY <2>1, <2>2, LenProperties DEF c
<1>. DEFINE c == Closes(n)
            d == Closes(n + 1)
            e == <<Close>>
<1>3. e \in Seq(Tokens) /\ Len(e) = 1 /\ e[1] = Close
  BY <1>1, OneType
<1>4. /\ c \in Seq(Tokens) /\ Len(c) = n /\ (\A i \in 1 .. n : c[i] = Close)
      /\ d \in Seq(Tokens) /\ Len(d) = n + 1 /\ (\A i \in 1 .. n + 1 : d[i] = Close)
  BY <1>2
<1>5. Closes(0) = <<>>
  BY <1>2, EmptySeq
<1>. HIDE DEF c, d, e, Tokens
<1>6. c \o e = d
  <2>. DEFINE f == c \o e
  <2>1. f \in Seq(Tokens) /\ Len(f) = Len(c) + Len(e)
        /\ \A i \in 1 .. Len(c) + Len(e) : f[i] = IF i <= Len(c) THEN c[i] ELSE e[i - Len(c)]
    BY <1>3, <1>4, ConcatProperties
  <2>. HIDE DEF f
  <2>2. ASSUME NEW i \in 1 .. n + 1 PROVE f[i] = d[i]
    <3>1. i \in 1 .. n \/ (i = n + 1 /\ i - n = 1 /\ ~(i <= n))
      OBVIOUS
    <3>. QED BY <1>3, <1>4, <2>1, <3>1
  <2>3. f = d
    BY <1>3, <1>4, <2>1, <2>2, SeqEqual
  <2>. QED BY <2>3 DEF f
<1>7. e \o c = d
  <2>. DEFINE f == e \o c
  <2>1. f \in Seq(Tokens) /\ Len(f) = Len(e) + Len(c)
        /\ \A i \in 1 .. Len(e) + Len(c) : f[i] = IF i <= Len(e) THEN e[i] ELSE c[i - Len(e)]
    BY <1>3, <1>4, ConcatProperties
  <2>. HIDE DEF f
  <2>2. ASSUME NEW i \in 1 .. n + 1 PROVE f[i] = d[i]
    <3>1. (i = 1 /\ i <= 1) \/ (i - 1 \in 1 .. n /\ ~(i <= 1))
      OBVIOUS
    <3>. QED BY <1>3, <1>4, <2>1, <3>1
  <2>3. f = d
    BY <1>3, <1>4, <2>1, <2>2, SeqEqual
  <2>. QED BY <2>3 DEF f
<1>. QED BY <1>4, <1>5, <1>6, <1>7 DEF c, d, e

\* Two texts of a file, alike but for x and y in front of the last n brackets.
Differ(ss, tt, x, y, n) ==
    \E u \in Seq(Tokens) : /\ Text(ss, 0) = u \o (x \o Closes(n))
                            /\ Text(tt, 0) = u \o (y \o Closes(n))

\* The file's text before and after a statement came or changed: the same up to
\* that statement, and the brackets of the open blocks after it.
LEMMA GrownText ==
    ASSUME NEW ss, NEW tt, NEW p, Grown(ss, tt, p), NEW st, Path(st, tt, p)
    PROVE  LET x == Beyond(ss, st[Len(st)], p)
               y == Line(tt, p + 1)
               n == Len(st) - 1
           IN  /\ x \in Seq(Tokens) /\ y \in Seq(Tokens)
               /\ Differ(ss, tt, x, y, n)
<1>. DEFINE n == Len(st) - 1
            b == st[n + 1]
            x == Beyond(ss, b, p)
            y == Line(tt, p + 1)
            Splits(d) == \E u \in Seq(Tokens) : /\ Text(ss, st[n + 1 - d]) = u \o (x \o Closes(d))
                                                /\ Text(tt, st[n + 1 - d]) = u \o (y \o Closes(d))
            N == {d \in Nat : d <= n => Splits(d)}
<1>0. /\ p \in Nat /\ n \in Nat /\ Len(st) = n + 1 /\ b \in 0 .. p
      /\ Nest(ss) /\ Nest(tt) /\ Len(tt) = p + 1 /\ Len(ss) \in {p, p + 1}
      /\ (\A k \in 1 .. n : st[k] # b) /\ tt[p + 1].block = b
  <2>1. /\ p \in Nat /\ n \in Nat /\ Len(st) = n + 1 /\ b \in 0 .. p
        /\ Nest(ss) /\ Nest(tt) /\ Len(tt) = p + 1 /\ Len(ss) \in {p, p + 1}
        /\ tt[p + 1].block = b
    BY LenProperties, EmptySeq DEF Grown, Path
  <2>2. ASSUME NEW k \in 1 .. n, st[k] = b PROVE FALSE
    <3>1. k \in 1 .. Len(st) - 1 /\ p + 1 \in 1 .. p + 1
      BY <2>1
    <3>2. st[k + 1] \in 1 .. p /\ (tt[p + 1].block = st[k] => p + 1 <= st[k + 1])
      BY <3>1 DEF Path
    <3>. QED BY <2>1, <2>2, <3>2
  <2>. QED BY <2>1, <2>2
<1>1. /\ x \in Seq(Tokens) /\ y \in Seq(Tokens)
      /\ Text(ss, b) = FlattenSeq(Upto(ss, b, p)) \o x
      /\ Text(tt, b) = FlattenSeq(Upto(ss, b, p)) \o y
      /\ FlattenSeq(Upto(ss, b, p)) \in Seq(Tokens)
  <2>1. b \in 0 .. Len(ss) /\ b \in 0 .. Len(tt) /\ p + 1 \in 1 .. Len(tt) /\ Len(tt) \in {p, p + 1}
    BY <1>0
  <2>2. /\ Text(ss, b) = FlattenSeq(Upto(ss, b, p)) \o x /\ x \in Seq(Tokens)
        /\ FlattenSeq(Upto(ss, b, p)) \in Seq(Tokens)
        /\ Text(tt, b) = FlattenSeq(Upto(tt, b, p)) \o Beyond(tt, b, p)
    BY <1>0, <2>1, TextOfUpto
  <2>3. Beyond(tt, b, p) = y /\ y \in Seq(Tokens)
    BY <1>0, <2>1, LineType DEF Beyond, Part
  <2>4. Upto(ss, b, p) = Upto(tt, b, p)
    <3>1. \A i \in 1 .. p : Part(ss, b, i) = Part(tt, b, i)
      <4>1. \A k \in 1 .. Len(st) - 1 : st[k] # b
        BY <1>0
      <4>. QED BY <1>0, <4>1, OffPath
    <3>. QED BY <3>1 DEF Upto
  <2>. QED BY <2>2, <2>3, <2>4
<1>2. 0 \in N
  <2>1. x \o Closes(0) = x /\ y \o Closes(0) = y
    <3>. HIDE DEF x, y
    <3>. QED BY <1>1, ClosesGrow, ConcatEmptySeq
  <2>2. n + 1 - 0 = n + 1
    BY <1>0
  <2>. HIDE DEF x, y, n
  <2>3. Splits(0)
    BY <1>1, <2>1, <2>2
  <2>. QED BY <2>3
<1>3. ASSUME NEW d \in N PROVE d + 1 \in N
  <2>1. d \in Nat /\ d + 1 \in Nat
    OBVIOUS
  <2>. SUFFICES ASSUME d + 1 <= n PROVE Splits(d + 1)
    BY <2>1
  <2>. DEFINE k == n - d
              m == st[k + 1]
              o == <<Open>>
              e == <<Close>>
              c == Closes(d)
  <2>2. k \in 1 .. Len(st) - 1 /\ n + 1 - (d + 1) = k /\ n + 1 - d = k + 1 /\ d <= n
    <3>. HIDE DEF n
    <3>. QED BY <1>0, <2>1
  <2>3. PICK u \in Seq(Tokens) :
          /\ Text(ss, m) = u \o (x \o c)
          /\ Text(tt, m) = u \o (y \o c)
    <3>1. Splits(d)
      BY <1>3, <2>2
    <3>. QED BY <2>2, <3>1
  <2>4. PICK v \in Seq(Tokens) :
          /\ Text(ss, st[k]) = v \o ((o \o Text(ss, m)) \o e)
          /\ Text(tt, st[k]) = v \o ((o \o Text(tt, m)) \o e)
    <3>. HIDE DEF k, n
    <3>1. Leads(ss, tt, st[k], m)
      BY <2>2, OnPath
    <3>. QED BY <3>1 DEF Leads
  <2>5. o \in Seq(Tokens) /\ e \in Seq(Tokens) /\ c \in Seq(Tokens) /\ c \o e = Closes(d + 1)
    BY <2>1, MarkTokens, OneType, ClosesGrow
  <2>. HIDE DEF x, y, k, m, o, e, c, Tokens, n, N
  <2>6. /\ Text(ss, st[k]) = (v \o (o \o u)) \o (x \o (c \o e))
        /\ Text(tt, st[k]) = (v \o (o \o u)) \o (y \o (c \o e))
        /\ v \o (o \o u) \in Seq(Tokens)
    <3>0. /\ x \in Seq(Tokens) /\ y \in Seq(Tokens) /\ o \in Seq(Tokens) /\ e \in Seq(Tokens)
          /\ c \in Seq(Tokens) /\ u \in Seq(Tokens) /\ v \in Seq(Tokens)
      BY <1>1, <2>5
    <3>1. Rebrackets(v, o, u, x, c, e) /\ Rebrackets(v, o, u, y, c, e) /\ v \o (o \o u) \in Seq(Tokens)
      BY ONLY SMTT(30), <3>0, Rebracket
    <3>. QED BY <2>3, <2>4, <3>1, Zenon DEF Rebrackets
  <2>. QED BY <2>2, <2>5, <2>6
<1>4. N = Nat
  <2>. HIDE DEF N
  <2>1. N \in SUBSET Nat
    BY DEF N
  <2>. QED BY <1>2, <1>3, <2>1, NatSetInduction
<1>5. Splits(n)
  <2>1. n \in N
    BY <1>0, <1>4
  <2>. HIDE DEF Splits
  <2>. QED BY <1>0, <2>1
<1>6. n + 1 - n = 1 /\ st[1] = 0 /\ b = st[Len(st)]
  BY <1>0 DEF Path
<1>. HIDE DEF n, x, y
<1>7. Differ(ss, tt, x, y, n)
  BY <1>5, <1>6 DEF Differ
<1>. QED BY <1>1, <1>6, <1>7 DEF x, y, n

-----------------------------------------------------------------------------
(* What the configuration writes is what Parse was given.                  *)

\* What the tree writes after the tokens that Parse was given: the semicolon of
\* the statement under way, and the brackets of the open blocks.
Owed == (IF last_token_type = "NORMAL" THEN <<End>> ELSE <<>>) \o Closes(bracket_count)

\* Every block on the stack is the last in the one below it.
LastInside ==
    \A k \in 1 .. Len(config_stack) - 1 : \A j \in DOMAIN statements :
        statements[j].block = config_stack[k] => j <= config_stack[k + 1]

WrittenSoFar == Serialized = given \o Owed

AllWritten == result = "valid" => last_token_type # "NORMAL" /\ bracket_count = 0

TreeInv == Nest(statements) /\ LastInside /\ WrittenSoFar /\ AllWritten

LEMMA StatementsWritten == Statement = Written(Tokens)
BY DEF Statement, Written, Tokens

LEMMA TreeInit == Init => TreeInv
<1>. SUFFICES ASSUME Init PROVE TreeInv
  OBVIOUS
<1>1. /\ statements = <<>> /\ given = <<>> /\ bracket_count = 0 /\ last_token_type = "START"
      /\ config_stack = <<0>> /\ result = "parsing"
  BY DEF Init
<1>2. Nest(<<>>)
  BY EmptySeq DEF Nest, Nesting
<1>3. LastInside /\ AllWritten
  BY <1>1 DEF LastInside, AllWritten
<1>4. Text(<<>>, 0) = <<>>
  <2>1. /\ Parts(<<>>, 0) \in Seq(Seq(Tokens)) /\ Len(Parts(<<>>, 0)) = Len(<<>>)
        /\ Text(<<>>, 0) = FlattenSeq(Parts(<<>>, 0))
    BY <1>2, EmptySeq, TextIsParts
  <2>. DEFINE p == Parts(<<>>, 0)
              B == Seq(Tokens)
  <2>0. Len(<<>>) = 0
    OBVIOUS
  <2>2. p = <<>>
    <3>1. p \in Seq(B) /\ Len(p) = 0
      BY <2>0, <2>1, Zenon
    <3>. HIDE DEF p, B
    <3>. QED BY <3>1, EmptySeq
  <2>. QED BY <2>1, <2>2, FlattenEmpty
<1>5. Owed = <<>>
  <2>1. Closes(0) = <<>>
    BY ClosesGrow
  <2>. QED BY <1>1, <2>1 DEF Owed
<1>6. WrittenSoFar
  BY <1>1, <1>4, <1>5 DEF WrittenSoFar, Serialized, Text
<1>. QED BY <1>1, <1>2, <1>3, <1>6 DEF TreeInv

\* A step that leaves the tree and what Parse remembers alone.
LEMMA TreeStays ==
    ASSUME TreeInv, AllWritten',
           UNCHANGED <<statements, config_stack, given, last_token_type, bracket_count>>
    PROVE  TreeInv'
<1>1. Nest(statements)' /\ LastInside'
  BY DEF TreeInv, LastInside
<1>2. WrittenSoFar'
  BY DEF TreeInv, WrittenSoFar, Serialized, Owed
<1>. QED BY <1>1, <1>2 DEF TreeInv

\* Statements under way are the last in their block and have no block of their own,
\* so no block on the stack is the last statement's.
LEMMA StackFacts ==
    ASSUME Inv, TreeInv
    PROVE  /\ config_stack \in Seq(Nat) /\ config_stack # <<>> /\ config_stack[1] = 0
           /\ Len(config_stack) = bracket_count + 1 /\ bracket_count \in Nat
           /\ top = config_stack[Len(config_stack)] /\ top \in 0 .. Len(statements)
           /\ \A k \in 1 .. Len(config_stack) : config_stack[k] \in 0 .. Len(statements)
           /\ \A k \in 1 .. Len(config_stack) - 1 : config_stack[k] < config_stack[k + 1]
<1>1. /\ config_stack \in Seq(Nat) /\ Len(config_stack) = bracket_count + 1 /\ bracket_count \in Nat
      /\ config_stack[1] = 0 /\ statements \in Seq(Statement) /\ Len(statements) \in Nat
      /\ DOMAIN statements = 1 .. Len(statements)
  BY LenProperties DEF Inv, TypeOK, OpenChain
<1>2. ASSUME NEW k \in 1 .. Len(config_stack) - 1
      PROVE  config_stack[k + 1] \in 1 .. Len(statements) /\ config_stack[k] < config_stack[k + 1]
  <2>1. /\ config_stack[k + 1] \in DOMAIN statements
        /\ statements[config_stack[k + 1]].block = config_stack[k]
    BY <1>2 DEF Inv, OpenChain
  <2>2. statements[config_stack[k + 1]].block < config_stack[k + 1]
    BY <1>1, <2>1 DEF TreeInv, Nest, Nesting
  <2>. QED BY <1>1, <2>1, <2>2
<1>3. ASSUME NEW k \in 1 .. Len(config_stack) PROVE config_stack[k] \in 0 .. Len(statements)
  <2>1. CASE k = 1
    BY <1>1, <2>1
  <2>2. CASE k # 1
    <3>1. k - 1 \in 1 .. Len(config_stack) - 1 /\ (k - 1) + 1 = k
      BY <1>1, <2>2
    <3>2. config_stack[(k - 1) + 1] \in 1 .. Len(statements)
      BY <1>2, <3>1
    <3>. QED BY <1>1, <3>1, <3>2
  <2>. QED BY <2>1, <2>2
<1>4. Len(config_stack) \in 1 .. Len(config_stack)
  BY <1>1
<1>. QED BY <1>1, <1>2, <1>3, <1>4, EmptySeq DEF top

LEMMA StackAscends ==
    ASSUME Inv, TreeInv
    PROVE  \A k \in 1 .. Len(config_stack) - 1 : config_stack[k] < top /\ config_stack[k] # top
<1>. DEFINE n == Len(config_stack)
            M == {m \in Nat : m < n => \A k \in 1 .. m : config_stack[k] < config_stack[m + 1]}
<1>0. /\ n \in Nat \ {0} /\ top = config_stack[n]
      /\ \A k \in 1 .. n : config_stack[k] \in Nat
      /\ \A k \in 1 .. n - 1 : config_stack[k] < config_stack[k + 1]
  BY StackFacts
<1>. HIDE DEF n
<1>1. 0 \in M
  OBVIOUS
<1>2. ASSUME NEW m \in M PROVE m + 1 \in M
  <2>1. m \in Nat
    OBVIOUS
  <2>. SUFFICES ASSUME m + 1 < n, NEW k \in 1 .. m + 1
                PROVE  config_stack[k] < config_stack[m + 1 + 1]
    BY <2>1
  <2>2. m < n /\ m + 1 \in 1 .. n - 1 /\ m + 1 \in 1 .. n /\ m + 1 + 1 \in 1 .. n /\ k \in 1 .. n
    BY <1>0, <2>1
  <2>3. config_stack[m + 1] < config_stack[m + 1 + 1]
    BY <1>0, <2>2
  <2>4. CASE k = m + 1
    BY <2>3, <2>4
  <2>5. CASE k # m + 1
    <3>1. k \in 1 .. m
      BY <2>1, <2>5
    <3>2. config_stack[k] < config_stack[m + 1]
      BY <2>2, <3>1
    <3>3. config_stack[k] \in Nat /\ config_stack[m + 1] \in Nat /\ config_stack[m + 1 + 1] \in Nat
      BY <1>0, <2>2
    <3>. QED BY <2>3, <3>2, <3>3
  <2>. QED BY <2>4, <2>5
<1>3. M = Nat
  <2>. HIDE DEF M
  <2>1. M \in SUBSET Nat
    BY DEF M
  <2>. QED BY <1>1, <1>2, <2>1, NatSetInduction
<1>4. n - 1 \in M /\ n - 1 < n /\ n - 1 + 1 = n
  <2>. HIDE DEF M
  <2>. QED BY <1>0, <1>3
<1>5. ASSUME NEW k \in 1 .. n - 1 PROVE config_stack[k] < top /\ config_stack[k] # top
  <2>1. config_stack[k] < config_stack[n] /\ k \in 1 .. n /\ n \in 1 .. n
    BY <1>0, <1>4
  <2>2. config_stack[k] \in Nat /\ config_stack[n] \in Nat
    BY <1>0, <2>1
  <2>. QED BY <1>0, <2>1, <2>2
<1>. QED BY <1>5 DEF n

\* The stack leads to the statement that came or changed.
LEMMA StackIsPath ==
    ASSUME Inv, TreeInv, NEW tt, NEW p, Grown(statements, tt, p), tt[p + 1].block = top,
           \A k \in 1 .. Len(config_stack) : config_stack[k] # p + 1
    PROVE  Path(config_stack, tt, p)
<1>. DEFINE st == config_stack
            n == Len(st)
<1>0. /\ st \in Seq(Nat) /\ st # <<>> /\ st[1] = 0 /\ n \in Nat \ {0} /\ top = st[n]
      /\ \A k \in 1 .. n : st[k] \in 0 .. Len(statements)
  BY StackFacts
<1>1. /\ p \in Nat /\ Len(statements) \in {p, p + 1} /\ Len(tt) = p + 1
      /\ DOMAIN statements = 1 .. Len(statements)
      /\ \A i \in 1 .. p : statements[i] = tt[i]
  BY LenProperties DEF Grown, Nest, Nesting
<1>2. ASSUME NEW k \in 1 .. n PROVE st[k] \in 0 .. p
  <2>. DEFINE x == st[k]
              m == Len(statements)
  <2>1. x # p + 1 /\ x \in 0 .. m /\ m \in {p, p + 1} /\ p \in Nat
    BY <1>0, <1>1
  <2>. HIDE DEF x, m
  <2>2. x \in 0 .. p
    BY <2>1
  <2>. QED BY <2>2 DEF x
<1>3. ASSUME NEW k \in 1 .. n - 1
      PROVE  /\ st[k + 1] \in 1 .. p /\ tt[st[k + 1]].block = st[k] /\ tt[st[k + 1]].child
             /\ \A j \in 1 .. p + 1 : tt[j].block = st[k] => j <= st[k + 1]
  <2>1. k + 1 \in 1 .. n
    BY <1>0
  <2>2. /\ st[k + 1] \in DOMAIN statements /\ statements[st[k + 1]].block = st[k]
        /\ statements[st[k + 1]].child
    BY DEF Inv, OpenChain
  <2>3. st[k + 1] \in 1 .. p
    <3>. DEFINE x == st[k + 1]
                m == Len(statements)
    <3>1. x \in 0 .. p /\ x \in 1 .. m /\ p \in Nat
      BY <1>1, <1>2, <2>1, <2>2
    <3>. HIDE DEF x, m
    <3>2. x \in 1 .. p
      BY <3>1
    <3>. QED BY <3>2 DEF x
  <2>4. ASSUME NEW j \in 1 .. p + 1, tt[j].block = st[k] PROVE j <= st[k + 1]
    <3>1. st[k] # top
      BY StackAscends
    <3>2. j \in 1 .. p
      <4>1. j # p + 1
        BY <2>4, <3>1
      <4>2. p \in Nat
        BY <1>1
      <4>. QED BY <2>4, <4>1, <4>2
    <3>3. j \in DOMAIN statements /\ statements[j].block = st[k]
      BY <1>1, <2>4, <3>2
    <3>. QED BY <3>3 DEF TreeInv, LastInside
  <2>. QED BY <1>1, <2>2, <2>3, <2>4
<1>. QED BY <1>0, <1>2, <1>3 DEF Path

\* The last statement of tt writes t and then w, where t was written and e was owed.
Turns(tt, p, t, e, w) ==
    /\ Beyond(statements, top, p) = t \o e /\ Line(tt, p + 1) = t \o w
    /\ Owed = e \o Closes(bracket_count)

\* The text of the file then has w in the place of e.
LEMMA NewText ==
    ASSUME Inv, TreeInv, NEW tt, NEW p, Grown(statements, tt, p), Path(config_stack, tt, p),
           NEW t \in Seq(Tokens), NEW e \in Seq(Tokens), NEW w \in Seq(Tokens),
           Turns(tt, p, t, e, w)
    PROVE  Text(tt, 0) = given \o (w \o Closes(bracket_count))
<1>. DEFINE c == Closes(bracket_count)
<1>1. /\ given \in Seq(Tokens) /\ c \in Seq(Tokens) /\ Len(config_stack) - 1 = bracket_count
      /\ config_stack[Len(config_stack)] = top
  <2>1. given \in Seq(Tokens)
    BY DEF Inv, TypeOK, Tokens
  <2>2. Len(config_stack) = bracket_count + 1 /\ bracket_count \in Nat
        /\ config_stack[Len(config_stack)] = top
    BY StackFacts
  <2>3. Len(config_stack) - 1 = bracket_count
    BY <2>2
  <2>4. c \in Seq(Tokens)
    BY <2>2, ClosesGrow
  <2>. QED BY <2>1, <2>2, <2>3, <2>4
<1>2. Text(statements, 0) = given \o (e \o c)
  BY DEF Turns, TreeInv, WrittenSoFar, Serialized, Text
<1>3. PICK u \in Seq(Tokens) :
        /\ Text(statements, 0) = u \o ((t \o e) \o c)
        /\ Text(tt, 0) = u \o ((t \o w) \o c)
  <2>1. Differ(statements, tt, t \o e, t \o w, bracket_count)
    BY <1>1, GrownText DEF Turns
  <2>. QED BY <2>1 DEF Differ
<1>. HIDE DEF c, Tokens
<1>4. u \o ((t \o w) \o c) = given \o (w \o c)
  <2>1. EndAlike(u, t, given, e, c)
    BY <1>2, <1>3 DEF EndAlike
  <2>2. /\ u \in Seq(Tokens) /\ t \in Seq(Tokens) /\ e \in Seq(Tokens) /\ w \in Seq(Tokens)
        /\ c \in Seq(Tokens) /\ given \in Seq(Tokens)
    BY <1>1
  <2>3. EndAlike(u, t, given, w, c)
    BY ONLY SMTT(30), <2>1, <2>2, SwapMiddle
  <2>. QED BY <2>3 DEF EndAlike
<1>. QED BY <1>3, <1>4 DEF c

\* The tree after a statement came or changed is what Parse was given with this
\* token, and b after it.
LEMMA StatementWritten ==
    ASSUME Inv, TreeInv, NEW p, Grown(statements, statements', p),
           statements'[p + 1].block = top, \A k \in 1 .. Len(config_stack) : config_stack[k] # p + 1,
           NEW t \in Seq(Tokens), NEW e \in Seq(Tokens), NEW b \in Tokens,
           Turns(statements', p, t, e, <<value>> \o <<b>>), given' = Append(given, value)
    PROVE  Serialized' = given' \o (<<b>> \o Closes(bracket_count))
<1>. DEFINE tt == statements'
            a == <<value>>
            x == <<b>>
            c == Closes(bracket_count)
<1>1. /\ given \in Seq(Tokens) /\ value \in Tokens /\ bracket_count \in Nat
  BY DEF Inv, TypeOK, Tokens
<1>2. a \in Seq(Tokens) /\ x \in Seq(Tokens) /\ c \in Seq(Tokens)
  BY <1>1, OneType, ClosesGrow
<1>3. a \o x \in Seq(Tokens)
  <2>. HIDE DEF a, x, Tokens
  <2>. QED BY <1>2, ConcatProperties
<1>4. Path(config_stack, tt, p)
  <2>. HIDE DEF tt
  <2>1. Grown(statements, tt, p) /\ tt[p + 1].block = top
    BY DEF tt
  <2>. QED BY <2>1, StackIsPath
<1>5. Text(tt, 0) = given \o ((a \o x) \o c)
  <2>. DEFINE w == a \o x
  <2>1. Grown(statements, tt, p) /\ w \in Seq(Tokens) /\ Turns(tt, p, t, e, w)
    BY <1>3
  <2>. HIDE DEF tt, w, Tokens
  <2>2. Text(tt, 0) = given \o (w \o c)
    BY <1>4, <2>1, NewText
  <2>. QED BY <2>2 DEF w
<1>6. Regroups(given, a, x, c)
  <2>. HIDE DEF a, x, c, Tokens
  <2>. QED BY ONLY SMTT(30), <1>1, <1>2, Regroup
<1>7. given' = given \o a
  <2>. HIDE DEF Tokens
  <2>. QED BY <1>1, AppendIsConcat
<1>8. Serialized' = Text(tt, 0)
  BY DEF Serialized, Text
<1>. HIDE DEF a, x, c, tt
<1>. QED BY <1>5, <1>6, <1>7, <1>8, Zenon DEF Regroups, x, c

\* A semicolon ends the statement under way.
LEMMA EndWritten ==
    ASSUME Inv, TreeInv, Taken, value = End, last_token_type = "NORMAL",
           token_type = "STATEMENT_END", result = "parsing",
           UNCHANGED <<bracket_count, config_stack, statements>>
    PROVE  TreeInv'
<1>. DEFINE c == Closes(bracket_count)
            e == <<End>>
<1>1. given \in Seq(Tokens) /\ bracket_count \in Nat
  BY DEF Inv, TypeOK, Tokens
<1>2. c \in Seq(Tokens) /\ e \in Seq(Tokens)
  BY <1>1, MarkTokens, OneType, ClosesGrow
<1>3. given' = Append(given, End) /\ last_token_type' = "STATEMENT_END" /\ result' = "parsing"
  BY DEF Taken
<1>4. Owed = e \o c
  BY DEF Owed
<1>5. Owed' = c
  <2>1. Owed' = <<>> \o c
    BY <1>3 DEF Owed
  <2>. HIDE DEF c
  <2>. QED BY <1>2, <2>1, ConcatEmptySeq
<1>6. given' = given \o e
  <2>. HIDE DEF Tokens
  <2>. QED BY <1>1, <1>3, MarkTokens, AppendIsConcat
<1>7. (given \o e) \o c = given \o (e \o c)
  <2>1. given \in Seq(Tokens) /\ e \in Seq(Tokens) /\ c \in Seq(Tokens)
    BY <1>1, <1>2
  <2>. HIDE DEF Tokens, c, e
  <2>2. Reassociates(given, e, c)
    BY <2>1, Reassociation
  <2>. QED BY <2>2, Zenon DEF Reassociates
<1>8. Serialized' = Serialized /\ Serialized = given \o Owed
  BY DEF Serialized, TreeInv, WrittenSoFar
<1>. HIDE DEF c, e
<1>9. WrittenSoFar'
  BY <1>4, <1>5, <1>6, <1>7, <1>8, Zenon DEF WrittenSoFar
<1>10. Nest(statements)' /\ LastInside' /\ AllWritten'
  BY <1>3 DEF TreeInv, LastInside, AllWritten
<1>. QED BY <1>9, <1>10 DEF TreeInv

\* A closing bracket ends the innermost block.
LEMMA CloseWritten ==
    ASSUME Inv, TreeInv, Taken, value = Close, last_token_type # "NORMAL",
           token_type = "END_BLOCK", result = "parsing", bracket_count > 0, statements' = statements,
           bracket_count' = bracket_count - 1,
           config_stack' = SubSeq(config_stack, 1, Len(config_stack) - 1)
    PROVE  TreeInv'
<1>. DEFINE n == bracket_count - 1
            c == Closes(n)
            e == <<Close>>
<1>1. given \in Seq(Tokens) /\ n \in Nat /\ n + 1 = bracket_count /\ bracket_count' = n
  BY DEF Inv, TypeOK, Tokens
<1>2. c \in Seq(Tokens) /\ e \in Seq(Tokens) /\ e \o c = Closes(bracket_count)
  BY <1>1, MarkTokens, OneType, ClosesGrow
<1>3. given' = Append(given, Close) /\ last_token_type' = "END_BLOCK" /\ result' = "parsing"
  BY DEF Taken
<1>4. Owed = e \o c
  <2>1. Owed = <<>> \o Closes(bracket_count)
    BY DEF Owed
  <2>2. Closes(bracket_count) \in Seq(Tokens)
    BY <1>1, ClosesGrow
  <2>. DEFINE d == Closes(bracket_count)
  <2>. HIDE DEF d
  <2>3. <<>> \o d = d
    BY <2>2, ConcatEmptySeq DEF d
  <2>. QED BY <1>2, <2>1, <2>3 DEF d
<1>5. Owed' = c
  <2>1. Owed' = <<>> \o c
    BY <1>1, <1>3 DEF Owed
  <2>. HIDE DEF c
  <2>. QED BY <1>2, <2>1, ConcatEmptySeq
<1>6. given' = given \o e
  <2>. HIDE DEF Tokens
  <2>. QED BY <1>1, <1>3, MarkTokens, AppendIsConcat
<1>7. (given \o e) \o c = given \o (e \o c)
  <2>1. given \in Seq(Tokens) /\ e \in Seq(Tokens) /\ c \in Seq(Tokens)
    BY <1>1, <1>2
  <2>. HIDE DEF Tokens, c, e
  <2>2. Reassociates(given, e, c)
    BY <2>1, Reassociation
  <2>. QED BY <2>2, Zenon DEF Reassociates
<1>8. Serialized' = Serialized /\ Serialized = given \o Owed
  BY DEF Serialized, TreeInv, WrittenSoFar
<1>9. WrittenSoFar'
  <2>. HIDE DEF c, e
  <2>. QED BY <1>4, <1>5, <1>6, <1>7, <1>8, Zenon DEF WrittenSoFar
<1>10. LastInside'
  <2>. DEFINE st == config_stack
              m == Len(st) - 1
  <2>1. m \in Nat \ {0} /\ \A k \in 1 .. m : st[k] \in Nat
    BY StackFacts
  <2>2. Len(config_stack') = m /\ \A k \in 1 .. m : config_stack'[k] = st[k]
    <3>1. 1 \in Int /\ m \in Int /\ 1 <= m
      <4>. HIDE DEF m
      <4>. QED BY <2>1
    <3>. HIDE DEF m, st
    <3>2. /\ Len(SubSeq(st, 1, m)) = m
          /\ \A k \in 1 .. m : SubSeq(st, 1, m)[k] = st[k]
      BY <2>1, <3>1, SubSeqProperties
    <3>. QED BY <3>2 DEF m, st
  <2>3. ASSUME NEW k \in 1 .. m - 1, NEW j \in DOMAIN statements,
               statements[j].block = config_stack'[k]
        PROVE  j <= config_stack'[k + 1]
    <3>1. k \in 1 .. m /\ k + 1 \in 1 .. m /\ k \in 1 .. Len(st) - 1
      BY <2>1
    <3>2. statements[j].block = st[k] /\ config_stack'[k + 1] = st[k + 1]
      BY <2>2, <2>3, <3>1
    <3>. QED BY <3>1, <3>2 DEF TreeInv, LastInside
  <2>. QED BY <2>2, <2>3 DEF LastInside
<1>11. Nest(statements)' /\ AllWritten'
  BY <1>3 DEF TreeInv, AllWritten
<1>. QED BY <1>9, <1>10, <1>11 DEF TreeInv

\* What a statement under way writes so far, and what it owes.
LEMMA UnderWay ==
    ASSUME Inv, TreeInv, last_token_type = "NORMAL"
    PROVE  LET p == Len(statements) - 1
               t == statements[p + 1].tokens
           IN  /\ p \in Nat /\ Len(statements) = p + 1 /\ p + 1 \in DOMAIN statements
               /\ back = p + 1 /\ statements[p + 1].block = top /\ ~statements[p + 1].child
               /\ statements[p + 1] \in Statement /\ t \in Seq(Tokens)
               /\ Beyond(statements, top, p) = t \o <<End>>
               /\ Owed = <<End>> \o Closes(bracket_count)
               /\ \A k \in 1 .. Len(config_stack) : config_stack[k] # p + 1
<1>. DEFINE p == Len(statements) - 1
            s == statements[p + 1]
<1>1. /\ p \in Nat /\ Len(statements) = p + 1 /\ p + 1 \in DOMAIN statements /\ back = p + 1
      /\ s.block = top /\ ~s.child
  <2>1. back = Len(statements) /\ back \in DOMAIN statements
    BY BackIsLast DEF Inv
  <2>2. Len(statements) \in Nat \ {0}
    BY <2>1, LenProperties DEF Inv, TypeOK
  <2>3. statements[Len(statements)].block = top /\ ~statements[Len(statements)].child
    BY DEF Inv, BackIsUnderWay
  <2>. QED BY <2>1, <2>2, <2>3
<1>2. s \in Statement /\ s.tokens \in Seq(Tokens)
  <2>1. statements \in Seq(Statement)
    BY DEF Inv, TypeOK
  <2>2. s \in Statement
    <3>. HIDE DEF p
    <3>. QED BY <1>1, <2>1, LenProperties, ElementOfSeq
  <2>. HIDE DEF s
  <2>. QED BY <2>2 DEF Statement, Tokens
<1>3. Beyond(statements, top, p) = s.tokens \o <<End>>
  BY <1>1 DEF Beyond, Part, Line
<1>4. Owed = <<End>> \o Closes(bracket_count)
  BY DEF Owed
<1>5. ASSUME NEW k \in 1 .. Len(config_stack), config_stack[k] = p + 1 PROVE FALSE
  <2>1. Len(config_stack) \in Nat /\ config_stack[1] = 0
    BY StackFacts
  <2>2. k # 1
    BY <1>1, <1>5, <2>1
  <2>3. k - 1 \in 1 .. Len(config_stack) - 1 /\ (k - 1) + 1 = k
    BY <2>1, <2>2
  <2>4. statements[config_stack[(k - 1) + 1]].child
    BY <2>3 DEF Inv, OpenChain
  <2>. QED BY <1>1, <1>5, <2>3, <2>4
<1>. HIDE DEF p
<1>. QED BY <1>1, <1>2, <1>3, <1>4, <1>5 DEF p

\* A new word or bracket is a token.
LEMMA ValueIsToken == Inv => value \in Tokens
BY DEF Inv, TypeOK, Tokens

\* A word after a word is one more token of the statement under way.
LEMMA WordAdded ==
    ASSUME Inv, Inv', TreeInv, Taken, last_token_type = "NORMAL", token_type = "NORMAL",
           result = "parsing", UNCHANGED <<bracket_count, config_stack>>,
           statements' = [statements EXCEPT ![back].tokens = Append(@, value)]
    PROVE  TreeInv'
<1>. DEFINE ss == statements
            tt == statements'
            p == Len(ss) - 1
            t == ss[p + 1].tokens
            e == <<End>>
            a == <<value>>
<1>1. /\ p \in Nat /\ Len(ss) = p + 1 /\ DOMAIN ss = 1 .. p + 1 /\ back = p + 1
      /\ ss[p + 1].block = top /\ ~ss[p + 1].child /\ ss[p + 1] \in Statement /\ t \in Seq(Tokens)
      /\ Beyond(ss, top, p) = t \o e /\ Owed = e \o Closes(bracket_count)
      /\ \A k \in 1 .. Len(config_stack) : config_stack[k] # p + 1
  BY UnderWay, LenProperties DEF TreeInv, Nest, Nesting
<1>2. value \in Tokens /\ e \in Seq(Tokens) /\ a \in Seq(Tokens) /\ End \in Tokens
  BY ValueIsToken, MarkTokens, OneType
<1>3. /\ tt \in Seq(Statement) /\ Len(tt) = p + 1 /\ DOMAIN tt = 1 .. p + 1
      /\ \A i \in 1 .. p : tt[i] = ss[i]
      /\ tt[p + 1].tokens = Append(t, value) /\ tt[p + 1].block = top /\ ~tt[p + 1].child
  <2>. DEFINE s == [ss[p + 1] EXCEPT !.tokens = Append(@, value)]
  <2>1. Append(t, value) \in Seq(Tokens)
    BY <1>1, <1>2
  <2>2. s \in Statement /\ s.child = ss[p + 1].child /\ s.block = top /\ s.tokens = Append(t, value)
    BY <1>1, <2>1 DEF Statement, Tokens
  <2>3. tt = [ss EXCEPT ![p + 1] = s] /\ ss \in Seq(Statement) /\ p + 1 \in DOMAIN ss
    BY <1>1 DEF Inv, TypeOK
  <2>. HIDE DEF s, tt, p
  <2>4. /\ tt \in Seq(Statement) /\ Len(tt) = Len(ss) /\ DOMAIN tt = DOMAIN ss
        /\ tt[p + 1] = s /\ \A i \in DOMAIN ss : i # p + 1 => tt[i] = ss[i]
    BY <2>2, <2>3, ChangedStatement
  <2>5. \A i \in 1 .. p : i \in DOMAIN ss /\ i # p + 1
    BY <1>1
  <2>. QED BY <1>1, <2>2, <2>4, <2>5
<1>. HIDE DEF p, t
<1>4. \A i \in 1 .. p + 1 : tt[i].block = ss[i].block
  BY <1>1, <1>3
<1>5. Nest(tt)
  BY <1>1, <1>3, <1>4, StatementsWritten DEF TreeInv, Nest, Nesting
<1>6. Grown(ss, tt, p)
  BY <1>1, <1>3, <1>5 DEF TreeInv, Grown
<1>7. Line(tt, p + 1) = t \o (a \o e)
  <2>1. Line(tt, p + 1) = Append(t, value) \o e
    BY <1>3 DEF Line
  <2>. HIDE DEF e, a, Tokens
  <2>2. Append(t, value) = t \o <<value>>
    BY <1>1, <1>2, AppendIsConcat
  <2>3. (t \o a) \o e = t \o (a \o e)
    <3>1. Reassociates(t, a, e)
      BY <1>1, <1>2, Reassociation
    <3>. QED BY <3>1, Zenon DEF Reassociates
  <2>. QED BY <2>1, <2>2, <2>3 DEF a
<1>8. given' = Append(given, value) /\ last_token_type' = "NORMAL" /\ result' = "parsing"
  BY DEF Taken
<1>9. Serialized' = given' \o (<<End>> \o Closes(bracket_count))
  <2>1. Turns(tt, p, t, e, a \o <<End>>)
    BY <1>1, <1>7 DEF Turns
  <2>2. Grown(statements, tt, p) /\ tt[p + 1].block = top
    BY <1>3, <1>6
  <2>. HIDE DEF p, e, Tokens
  <2>. QED BY <1>1, <1>2, <1>8, <2>1, <2>2, StatementWritten DEF ss
<1>10. Owed' = <<End>> \o Closes(bracket_count)
  BY <1>8 DEF Owed
<1>11. LastInside'
  <2>1. DOMAIN tt = DOMAIN ss /\ \A j \in DOMAIN ss : tt[j].block = ss[j].block
    BY <1>1, <1>3, <1>4
  <2>2. UNCHANGED config_stack /\ LastInside
    BY DEF TreeInv
  <2>. QED BY ONLY <2>1, <2>2 DEF LastInside, tt
<1>12. AllWritten'
  BY <1>8 DEF AllWritten
<1>. QED BY <1>5, <1>9, <1>10, <1>11, <1>12 DEF TreeInv, WrittenSoFar

\* A word after anything else starts a statement.
LEMMA WordStarts ==
    ASSUME Inv, Inv', TreeInv, Taken, last_token_type # "NORMAL", token_type = "NORMAL",
           result = "parsing", UNCHANGED <<bracket_count, config_stack>>,
           statements' = Append(statements,
                                [block |-> top, tokens |-> <<value>>, child |-> FALSE])
    PROVE  TreeInv'
<1>. DEFINE ss == statements
            tt == statements'
            p == Len(ss)
            a == <<value>>
            e == <<End>>
            s == [block |-> top, tokens |-> a, child |-> FALSE]
            c == Closes(bracket_count)
            B == Seq(Tokens)
<1>1. /\ ss \in Seq(Statement) /\ p \in Nat /\ Len(ss) = p /\ DOMAIN ss = 1 .. p /\ top \in 0 .. p
      /\ bracket_count \in Nat /\ Nest(ss)
  BY StackFacts, LenProperties DEF Inv, TypeOK, TreeInv
<1>2. value \in Tokens /\ e \in B /\ a \in B /\ End \in Tokens /\ c \in B
  BY <1>1, ValueIsToken, MarkTokens, OneType, ClosesGrow
<1>3. /\ tt \in Seq(Statement) /\ Len(tt) = p + 1 /\ DOMAIN tt = 1 .. p + 1
      /\ \A i \in 1 .. p : tt[i] = ss[i]
      /\ tt[p + 1].tokens = a /\ tt[p + 1].block = top /\ ~tt[p + 1].child
  <2>1. s \in Statement /\ s.block = top /\ s.tokens = a /\ ~s.child
    BY <1>1, <1>2 DEF Statement, Tokens
  <2>2. tt = Append(ss, s)
    OBVIOUS
  <2>. HIDE DEF s, tt, p
  <2>3. /\ tt \in Seq(Statement) /\ Len(tt) = Len(ss) + 1 /\ DOMAIN tt = 1 .. Len(ss) + 1
        /\ (\A i \in 1 .. Len(ss) : tt[i] = ss[i]) /\ tt[Len(ss) + 1] = s
    BY <1>1, <2>1, <2>2, AppendElements
  <2>. QED BY <2>1, <2>3 DEF p
<1>. HIDE DEF p, s
<1>4. Nest(tt)
  <2>1. ASSUME NEW i \in 1 .. p + 1 PROVE tt[i].block < i
    <3>1. CASE i \in 1 .. p
      BY <1>1, <1>3, <3>1 DEF Nest, Nesting, p
    <3>2. CASE i = p + 1
      BY <1>1, <1>3, <3>2
    <3>. QED BY <1>1, <3>1, <3>2
  <2>. QED BY <1>3, <2>1, StatementsWritten DEF Nest, Nesting
<1>5. Grown(ss, tt, p)
  BY <1>1, <1>3, <1>4 DEF Grown
<1>6. \A k \in 1 .. Len(config_stack) : config_stack[k] # p + 1
  <2>1. \A k \in 1 .. Len(config_stack) : config_stack[k] \in 0 .. p
    BY StackFacts DEF p
  <2>. QED BY <1>1, <2>1
<1>7. Turns(tt, p, <<>>, <<>>, a \o e)
  <2>1. Beyond(ss, top, p) = <<>>
    <3>1. Len(ss) # p + 1
      BY <1>1
    <3>. QED BY <3>1, Zenon DEF Beyond
  <2>2. Line(tt, p + 1) = a \o e
    BY <1>3 DEF Line
  <2>3. Owed = <<>> \o c
    BY DEF Owed
  <2>4. a \o e \in B
    <3>. HIDE DEF a, e, Tokens
    <3>. QED BY <1>2, ConcatProperties
  <2>. DEFINE ae == a \o e
  <2>5. <<>> \o ae = ae /\ <<>> \o <<>> = <<>>
    <3>1. ae \in B /\ <<>> \in B
      BY <2>4, EmptySeq
    <3>. HIDE DEF ae, Tokens
    <3>. QED BY <3>1, ConcatEmptySeq
  <2>. HIDE DEF ae, c
  <2>6. Turns(tt, p, <<>>, <<>>, ae)
    BY <2>1, <2>2, <2>3, <2>5 DEF Turns, ae, c
  <2>. QED BY <2>6 DEF ae
<1>8. given' = Append(given, value) /\ last_token_type' = "NORMAL" /\ result' = "parsing"
  BY DEF Taken
<1>9. Serialized' = given' \o (<<End>> \o Closes(bracket_count))
  <2>1. Grown(statements, tt, p) /\ tt[p + 1].block = top /\ <<>> \in B
    BY <1>3, <1>5, EmptySeq
  <2>. HIDE DEF Tokens
  <2>. QED BY <1>2, <1>6, <1>7, <1>8, <2>1, StatementWritten
<1>10. Owed' = <<End>> \o Closes(bracket_count)
  BY <1>8 DEF Owed
<1>11. LastInside'
  <2>1. ASSUME NEW k \in 1 .. Len(config_stack) - 1, NEW j \in 1 .. p + 1,
               tt[j].block = config_stack[k]
        PROVE  j <= config_stack[k + 1]
    <3>1. config_stack[k] # top
      BY StackAscends
    <3>2. j \in 1 .. p
      BY <1>1, <1>3, <2>1, <3>1
    <3>. QED BY <1>1, <1>3, <2>1, <3>2 DEF TreeInv, LastInside
  <2>. QED BY <1>3, <2>1 DEF LastInside
<1>12. AllWritten'
  BY <1>8 DEF AllWritten
<1>. QED BY <1>4, <1>9, <1>10, <1>11, <1>12 DEF TreeInv, WrittenSoFar

\* A block that no statement stands in writes nothing.
LEMMA EmptyBlock ==
    ASSUME NEW ss, Nest(ss), NEW b \in 0 .. Len(ss), \A i \in 1 .. Len(ss) : ss[i].block # b
    PROVE  Text(ss, b) = <<>>
<1>. DEFINE q == Parts(ss, b)
<1>1. q \in Seq(Seq(Tokens)) /\ Len(q) = Len(ss) /\ Text(ss, b) = FlattenSeq(q)
  BY TextIsParts
<1>2. \A i \in 1 .. Len(ss) : q[i] = <<>>
  BY DEF Parts, Part
<1>. HIDE DEF q, Tokens
<1>. QED BY <1>1, <1>2, FlattenBlank

\* An opening bracket after a word gives the statement under way a block.
LEMMA OpenWritten ==
    ASSUME Inv, Inv', TreeInv, Taken, value = Open, last_token_type = "NORMAL",
           token_type = "START_BLOCK", result = "parsing", bracket_count' = bracket_count + 1,
           config_stack' = Append(config_stack, back),
           statements' = [statements EXCEPT ![back].child = TRUE]
    PROVE  TreeInv'
<1>. DEFINE ss == statements
            tt == statements'
            p == Len(ss) - 1
            t == ss[p + 1].tokens
            e == <<End>>
            o == <<Open>>
            x == <<Close>>
            n == bracket_count
            B == Seq(Tokens)
<1>1. /\ p \in Nat /\ Len(ss) = p + 1 /\ DOMAIN ss = 1 .. p + 1 /\ back = p + 1
      /\ ss[p + 1].block = top /\ ~ss[p + 1].child /\ ss[p + 1] \in Statement /\ t \in B
      /\ Beyond(ss, top, p) = t \o e /\ Owed = e \o Closes(n)
      /\ \A k \in 1 .. Len(config_stack) : config_stack[k] # p + 1
  BY UnderWay, LenProperties DEF TreeInv, Nest, Nesting
<1>2. /\ value \in Tokens /\ e \in B /\ o \in B /\ x \in B /\ Close \in Tokens /\ n \in Nat
      /\ Closes(n + 1) \in B /\ x \o Closes(n) = Closes(n + 1)
  <2>1. n \in Nat /\ n + 1 \in Nat
    BY StackFacts
  <2>2. Closes(n + 1) \in B /\ x \o Closes(n) = Closes(n + 1)
    BY <2>1, ClosesGrow
  <2>. QED BY <2>1, <2>2, ValueIsToken, MarkTokens, OneType
<1>3. /\ tt \in Seq(Statement) /\ Len(tt) = p + 1 /\ DOMAIN tt = 1 .. p + 1
      /\ \A i \in 1 .. p : tt[i] = ss[i]
      /\ tt[p + 1].tokens = t /\ tt[p + 1].block = top /\ tt[p + 1].child
  <2>. DEFINE s == [ss[p + 1] EXCEPT !.child = TRUE]
  <2>2. s \in Statement /\ s.child /\ s.block = top /\ s.tokens = t
    BY <1>1 DEF Statement
  <2>3. tt = [ss EXCEPT ![p + 1] = s] /\ ss \in Seq(Statement) /\ p + 1 \in DOMAIN ss
    BY <1>1 DEF Inv, TypeOK
  <2>. HIDE DEF s, tt, p
  <2>4. /\ tt \in Seq(Statement) /\ Len(tt) = Len(ss) /\ DOMAIN tt = DOMAIN ss
        /\ tt[p + 1] = s /\ \A i \in DOMAIN ss : i # p + 1 => tt[i] = ss[i]
    BY <2>2, <2>3, ChangedStatement
  <2>5. \A i \in 1 .. p : i \in DOMAIN ss /\ i # p + 1
    BY <1>1
  <2>. QED BY <1>1, <2>2, <2>4, <2>5
<1>. HIDE DEF p, t
<1>4. \A i \in 1 .. p + 1 : tt[i].block = ss[i].block
  BY <1>1, <1>3
<1>5. Nest(tt)
  BY <1>1, <1>3, <1>4, StatementsWritten DEF TreeInv, Nest, Nesting
<1>6. Grown(ss, tt, p)
  BY <1>1, <1>3, <1>5 DEF TreeInv, Grown
<1>7. \A i \in 1 .. p + 1 : tt[i].block # p + 1
  BY <1>1, <1>3, <1>5 DEF Nest, Nesting
<1>8. Line(tt, p + 1) = t \o (o \o x)
  <2>1. p + 1 \in 0 .. Len(tt)
    BY <1>1, <1>3
  <2>2. Text(tt, p + 1) = <<>>
    BY <1>3, <1>5, <1>7, <2>1, EmptyBlock
  <2>3. Line(tt, p + 1) = t \o (o \o <<>> \o x)
    BY <1>3, <2>2 DEF Line
  <2>. HIDE DEF o, x, Tokens
  <2>4. o \o <<>> = o
    BY <1>2, ConcatEmptySeq
  <2>. QED BY <2>3, <2>4
<1>9. given' = Append(given, value) /\ last_token_type' = "START_BLOCK" /\ result' = "parsing"
  BY DEF Taken
<1>10. Serialized' = given' \o Closes(n + 1)
  <2>1. Turns(tt, p, t, e, <<value>> \o <<Close>>)
    BY <1>1, <1>8 DEF Turns
  <2>2. Grown(statements, tt, p) /\ tt[p + 1].block = top
    BY <1>3, <1>6
  <2>3. Serialized' = given' \o (<<Close>> \o Closes(bracket_count))
    <3>. HIDE DEF e, Tokens
    <3>. QED BY <1>1, <1>2, <1>9, <2>1, <2>2, StatementWritten
  <2>. QED BY <1>2, <2>3
<1>11. Owed' = Closes(n + 1)
  <2>1. Owed' = <<>> \o Closes(n + 1)
    BY <1>9 DEF Owed
  <2>. DEFINE c == Closes(n + 1)
  <2>. HIDE DEF c
  <2>2. <<>> \o c = c
    BY <1>2, ConcatEmptySeq DEF c
  <2>. QED BY <2>1, <2>2 DEF c
<1>12. LastInside'
  <2>. DEFINE st == config_stack
              m == Len(st)
  <2>1. m \in Nat /\ Len(st') = m + 1 /\ (\A k \in 1 .. m : st'[k] = st[k]) /\ st'[m + 1] = p + 1
    <3>1. st \in Seq(Nat) /\ st' = Append(st, p + 1) /\ p + 1 \in Nat
      BY <1>1, StackFacts
    <3>. HIDE DEF st
    <3>2. /\ Len(st) \in Nat /\ Len(Append(st, p + 1)) = Len(st) + 1
          /\ (\A k \in 1 .. Len(st) : Append(st, p + 1)[k] = st[k])
          /\ Append(st, p + 1)[Len(st) + 1] = p + 1
      BY <3>1, AppendElements
    <3>. QED BY <3>1, <3>2
  <2>2. ASSUME NEW k \in 1 .. m, NEW j \in 1 .. p + 1, tt[j].block = st'[k]
        PROVE  j <= st'[k + 1]
    <3>1. CASE k = m
      BY <1>1, <2>1, <2>2, <3>1
    <3>2. CASE k # m
      <4>1. k \in 1 .. m - 1 /\ k + 1 \in 1 .. m
        BY <2>1, <3>2
      <4>2. ss[j].block = st[k] /\ st'[k + 1] = st[k + 1] /\ j \in DOMAIN ss
        BY <1>1, <1>4, <2>1, <2>2, <4>1
      <4>. QED BY <4>1, <4>2 DEF TreeInv, LastInside
    <3>. QED BY <3>1, <3>2
  <2>3. Len(config_stack') - 1 = m
    BY <2>1
  <2>. QED BY <1>3, <2>2, <2>3 DEF LastInside
<1>13. AllWritten'
  BY <1>9 DEF AllWritten
<1>. QED BY <1>5, <1>10, <1>11, <1>12, <1>13 DEF TreeInv, WrittenSoFar

\* The text of a token that ends a statement, opens or closes a block.
LEMMA ValueTold ==
    ASSUME GrammarInv
    PROVE  /\ token_type = "STATEMENT_END" => value = End
           /\ token_type = "START_BLOCK" => value = Open
           /\ token_type = "END_BLOCK" => value = Close
BY DEF GrammarInv, ValueSpelled, Spells, TreeTypes

LEMMA TreeFail == ASSUME TreeInv, Fail PROVE TreeInv'
<1>1. UNCHANGED <<statements, config_stack, given, last_token_type, bracket_count>>
  BY DEF Fail
<1>2. AllWritten'
  BY DEF Fail, AllWritten
<1>. QED BY <1>1, <1>2, TreeStays

LEMMA TreeParserStep ==
    ASSUME Inv, Inv', GrammarInv, TreeInv, Parse
    PROVE  TreeInv'
<1>0. result = "parsing" /\ bracket_count \in Nat
  BY DEF Parse, Inv, TypeOK
<1>1. CASE SkipComment
  <2>1. UNCHANGED parserVars
    BY <1>1 DEF SkipComment
  <2>2. AllWritten'
    BY <1>0, <2>1 DEF parserVars, AllWritten
  <2>. QED BY <2>1, <2>2, TreeStays DEF parserVars
<1>2. CASE ParseNormal
  <2>1. /\ token_type = "NORMAL" /\ Taken /\ UNCHANGED <<bracket_count, config_stack>>
    BY <1>2 DEF ParseNormal
  <2>2. CASE last_token_type = "NORMAL"
    <3>1. statements' = [statements EXCEPT ![back].tokens = Append(@, value)]
      BY <1>2, <2>2 DEF ParseNormal
    <3>. QED BY <1>0, <2>1, <2>2, <3>1, WordAdded
  <2>3. CASE last_token_type # "NORMAL"
    <3>1. statements' = Append(statements,
                               [block |-> top, tokens |-> <<value>>, child |-> FALSE])
      BY <1>2, <2>3 DEF ParseNormal
    <3>. QED BY <1>0, <2>1, <2>3, <3>1, WordStarts
  <2>. QED BY <2>2, <2>3
<1>3. CASE ParseStatementEnd
  <2>1. token_type = "STATEMENT_END" /\ value = End
    BY <1>3, ValueTold DEF ParseStatementEnd
  <2>2. CASE last_token_type = "NORMAL"
    <3>1. Taken /\ UNCHANGED <<bracket_count, config_stack, statements>>
      BY <1>3, <2>2 DEF ParseStatementEnd
    <3>. QED BY <1>0, <2>1, <2>2, <3>1, EndWritten
  <2>3. CASE last_token_type # "NORMAL"
    BY <1>3, <2>3, TreeFail DEF ParseStatementEnd
  <2>. QED BY <2>2, <2>3
<1>4. CASE ParseStartBlock
  <2>1. token_type = "START_BLOCK" /\ value = Open
    BY <1>4, ValueTold DEF ParseStartBlock
  <2>2. CASE last_token_type = "NORMAL"
    <3>1. /\ bracket_count' = bracket_count + 1 /\ config_stack' = Append(config_stack, back)
          /\ statements' = [statements EXCEPT ![back].child = TRUE] /\ Taken
      BY <1>4, <2>2 DEF ParseStartBlock
    <3>. QED BY <1>0, <2>1, <2>2, <3>1, OpenWritten
  <2>3. CASE last_token_type # "NORMAL"
    BY <1>4, <2>3, TreeFail DEF ParseStartBlock
  <2>. QED BY <2>2, <2>3
<1>5. CASE ParseEndBlock
  <2>1. token_type = "END_BLOCK" /\ value = Close
    BY <1>5, ValueTold DEF ParseEndBlock
  <2>. DEFINE refused == last_token_type \notin MayCloseAfter \/ bracket_count - 1 < 0
  <2>2. CASE refused
    BY <1>5, <2>2, TreeFail DEF ParseEndBlock
  <2>3. CASE ~refused
    <3>1. /\ bracket_count' = bracket_count - 1 /\ statements' = statements /\ Taken
          /\ config_stack' = SubSeq(config_stack, 1, Len(config_stack) - 1)
      BY <1>5, <2>3 DEF ParseEndBlock
    <3>2. bracket_count > 0 /\ last_token_type # "NORMAL"
      BY <1>0, <2>3 DEF MayCloseAfter
    <3>. QED BY <1>0, <2>1, <3>1, <3>2, CloseWritten
  <2>. QED BY <2>2, <2>3
<1>6. CASE ParseEOF
  <2>1. UNCHANGED <<statements, config_stack, given, last_token_type, bracket_count>>
    BY <1>6 DEF ParseEOF, Fail
  <2>2. AllWritten'
    BY <1>6 DEF ParseEOF, Fail, AllWritten
  <2>. QED BY <2>1, <2>2, TreeStays
<1>7. CASE ParseError
  BY <1>7, TreeFail DEF ParseError
<1>. QED BY <1>1, <1>2, <1>3, <1>4, <1>5, <1>6, <1>7 DEF Parse

LEMMA TreeNext ==
    ASSUME Inv, Inv', GrammarInv, TreeInv, [Next]_vars
    PROVE  TreeInv'
<1>1. CASE ParseToken
  <2>1. UNCHANGED parserVars /\ result = "parsing"
    BY <1>1, LexerLeavesParser
  <2>2. AllWritten'
    BY <2>1 DEF parserVars, AllWritten
  <2>. QED BY <2>1, <2>2, TreeStays DEF parserVars
<1>2. CASE Parse
  BY <1>2, TreeParserStep
<1>3. CASE UNCHANGED vars
  <2>1. UNCHANGED parserVars
    BY <1>3 DEF vars
  <2>2. AllWritten'
    BY <2>1 DEF parserVars, AllWritten, TreeInv
  <2>. QED BY <2>1, <2>2, TreeStays DEF parserVars
<1>. QED BY <1>1, <1>2, <1>3 DEF Next

\* A valid file owes nothing.
LEMMA TreeIsGiven == ASSUME Inv, TreeInv PROVE RoundTrip
<1>. SUFFICES ASSUME result = "valid" PROVE Serialized = given
  BY DEF RoundTrip
<1>1. last_token_type # "NORMAL" /\ bracket_count = 0
  BY DEF TreeInv, AllWritten
<1>2. Closes(0) = <<>> /\ <<>> \o <<>> = <<>>
  BY ClosesGrow
<1>3. Owed = <<>>
  BY <1>1, <1>2 DEF Owed
<1>4. given \in Seq(Tokens) /\ Serialized = given \o <<>>
  BY <1>3 DEF Inv, TypeOK, Tokens, TreeInv, WrittenSoFar
<1>. HIDE DEF Tokens
<1>. QED BY <1>4, ConcatEmptySeq

\* For any characters, any length of the file and any depth of its blocks: the
\* configuration that Parse makes of a file it accepts writes, by
\* NginxConfig::ToString, the tokens that Parse was given, each once and in order.
THEOREM NothingIsLost == Spec => []RoundTrip
<1>1. Init => Inv /\ GrammarInv /\ TreeInv
  BY InitInv, GrammarInit, TreeInit
<1>2. Inv /\ Inv' /\ GrammarInv /\ [Next]_vars => GrammarInv'
  BY GrammarNext
<1>3. Inv /\ Inv' /\ GrammarInv /\ TreeInv /\ [Next]_vars => TreeInv'
  BY TreeNext
<1>4. Inv /\ TreeInv => RoundTrip
  BY TreeIsGiven
<1>. QED BY <1>1, <1>2, <1>3, <1>4, ParserInvariant, PTL DEF Spec

-----------------------------------------------------------------------------
(* The configuration is the tree of a file.                                *)

Marks == {Open, Close, End}
Words(ts) == ts # <<>> /\ \A k \in DOMAIN ts : ts[k] \notin Marks

\* Statement i stands where the tree of a file has it.
Stands(ss, i) ==
    /\ Words(ss[i].tokens) /\ ss[i].block < i
    /\ ss[i].block = 0 \/ ss[ss[i].block].child
    /\ \A j \in ss[i].block + 1 .. i - 1 : ss[j].block >= ss[i].block

\* What was made since an open block was, stands in it or further inside.
OpenToTheEnd ==
    \A k \in 1 .. Len(config_stack) : \A j \in DOMAIN statements :
        j > config_stack[k] => statements[j].block >= config_stack[k]

ShapeInv ==
    /\ last_token_type # "START" => statements # <<>>
    /\ result = "valid" => last_token_type # "START"
    /\ \A i \in DOMAIN statements : Stands(statements, i)
    /\ OpenToTheEnd

LEMMA ShapeInit == Init => ShapeInv
BY DEF Init, ShapeInv, OpenToTheEnd

LEMMA ShapeIsTree == ShapeInv => MakesTrees
BY DEF ShapeInv, MakesTrees, FileTree, Stands, Words, Marks

\* A step that leaves the tree and the stack alone.
LEMMA ShapeStays ==
    ASSUME ShapeInv, UNCHANGED <<statements, config_stack>>,
           last_token_type' \in {last_token_type, "STATEMENT_END"},
           last_token_type' # last_token_type => last_token_type = "NORMAL",
           result' = "valid" => last_token_type' # "START"
    PROVE  ShapeInv'
BY DEF ShapeInv, OpenToTheEnd, Stands

\* Statements that keep their blocks and their children go on standing where they do.
LEMMA StandStill ==
    ASSUME NEW ss \in Seq(Statement), NEW tt, DOMAIN tt = DOMAIN ss,
           \A i \in DOMAIN ss : /\ Stands(ss, i) /\ Words(tt[i].tokens)
                                /\ tt[i].block = ss[i].block /\ (ss[i].child => tt[i].child)
    PROVE  \A i \in DOMAIN tt : Stands(tt, i)
<1>. SUFFICES ASSUME NEW i \in DOMAIN ss PROVE Stands(tt, i)
  OBVIOUS
<1>. DEFINE n == Len(ss)
            b == ss[i].block
<1>1. n \in Nat /\ DOMAIN ss = 1 .. n /\ i \in 1 .. n
  BY LenProperties
<1>2. b \in Nat /\ b < i /\ tt[i].block = b
  <2>1. ss[i] \in Statement
    <3>. HIDE DEF Statement
    <3>. QED BY <1>1, ElementOfSeq
  <2>. QED BY <2>1 DEF Statement, Stands
<1>3. b = 0 \/ tt[b].child
  <2>. SUFFICES ASSUME b # 0 PROVE tt[b].child
    OBVIOUS
  <2>1. b \in DOMAIN ss
    BY <1>1, <1>2
  <2>. QED BY <2>1 DEF Stands
<1>4. \A j \in b + 1 .. i - 1 : tt[j].block >= b
  <2>. SUFFICES ASSUME NEW j \in b + 1 .. i - 1 PROVE tt[j].block >= b
    OBVIOUS
  <2>1. j \in DOMAIN ss
    BY <1>1, <1>2
  <2>. QED BY <2>1 DEF Stands
<1>. HIDE DEF b
<1>. QED BY <1>2, <1>3, <1>4 DEF Stands

LEMMA WordsGrow ==
    ASSUME NEW ts \in Seq(Tokens), NEW t \in Tokens, t \notin Marks,
           \A k \in DOMAIN ts : ts[k] \notin Marks
    PROVE  Words(Append(ts, t))
<1>1. /\ Len(ts) \in Nat /\ DOMAIN ts = 1 .. Len(ts)
      /\ Len(Append(ts, t)) = Len(ts) + 1 /\ DOMAIN Append(ts, t) = 1 .. Len(ts) + 1
      /\ \A i \in 1 .. Len(ts) : Append(ts, t)[i] = ts[i]
      /\ Append(ts, t)[Len(ts) + 1] = t
  <2>. HIDE DEF Tokens
  <2>. QED BY AppendElements
<1>2. Append(ts, t) # <<>>
  BY <1>1
<1>. HIDE DEF Tokens, Marks
<1>. QED BY <1>1, <1>2 DEF Words

\* The text of a word is no mark.
LEMMA WordIsNoMark ==
    ASSUME GrammarInv, token_type = "NORMAL"
    PROVE  value \notin Marks
BY DEF GrammarInv, ValueSpelled, Spells, TreeTypes, Marks

\* A word after a word.
LEMMA ShapeWordAdded ==
    ASSUME Inv, Inv', GrammarInv, TreeInv, ShapeInv, Taken, last_token_type = "NORMAL",
           token_type = "NORMAL", result = "parsing", UNCHANGED config_stack,
           statements' = [statements EXCEPT ![back].tokens = Append(@, value)]
    PROVE  ShapeInv'
<1>. DEFINE ss == statements
            tt == statements'
            p == Len(ss) - 1
            t == ss[p + 1].tokens
            s == [ss[p + 1] EXCEPT !.tokens = Append(@, value)]
<1>1. /\ p \in Nat /\ Len(ss) = p + 1 /\ p + 1 \in DOMAIN ss /\ back = p + 1
      /\ ss[p + 1] \in Statement /\ t \in Seq(Tokens) /\ ss \in Seq(Statement)
      /\ \A i \in DOMAIN ss : Stands(ss, i)
  BY UnderWay DEF Inv, TypeOK, ShapeInv
<1>2. value \in Tokens /\ value \notin Marks /\ Words(t)
  BY <1>1, ValueIsToken, WordIsNoMark DEF Stands
<1>3. Words(Append(t, value))
  <2>. HIDE DEF t, p, Tokens
  <2>. QED BY <1>1, <1>2, WordsGrow DEF Words
<1>4. /\ s \in Statement /\ s.child = ss[p + 1].child /\ s.block = ss[p + 1].block
      /\ s.tokens = Append(t, value)
  <2>1. Append(t, value) \in Seq(Tokens)
    BY <1>1, <1>2
  <2>. QED BY <1>1, <2>1 DEF Statement, Tokens
<1>5. tt = [ss EXCEPT ![p + 1] = s]
  BY <1>1
<1>. HIDE DEF s, p
<1>6. /\ DOMAIN tt = DOMAIN ss /\ tt[p + 1] = s
      /\ \A i \in DOMAIN ss : i # p + 1 => tt[i] = ss[i]
  BY <1>1, <1>4, <1>5, ChangedStatement
<1>. HIDE DEF tt
<1>7. \A i \in DOMAIN ss : /\ Stands(ss, i) /\ Words(tt[i].tokens)
                           /\ tt[i].block = ss[i].block /\ (ss[i].child => tt[i].child)
  BY <1>1, <1>3, <1>4, <1>6 DEF Stands
<1>8. \A i \in DOMAIN tt : Stands(tt, i)
  BY <1>1, <1>6, <1>7, StandStill
<1>9. OpenToTheEnd'
  BY <1>6, <1>7 DEF ShapeInv, OpenToTheEnd, tt
<1>10. last_token_type' = "NORMAL" /\ tt # <<>>
  BY <1>1, <1>6 DEF Taken
<1>. QED BY <1>8, <1>9, <1>10 DEF ShapeInv, tt

\* An opening bracket.
LEMMA ShapeOpened ==
    ASSUME Inv, Inv', TreeInv, ShapeInv, Taken, last_token_type = "NORMAL",
           token_type = "START_BLOCK", result = "parsing",
           config_stack' = Append(config_stack, back),
           statements' = [statements EXCEPT ![back].child = TRUE]
    PROVE  ShapeInv'
<1>. DEFINE ss == statements
            tt == statements'
            st == config_stack
            p == Len(ss) - 1
            s == [ss[p + 1] EXCEPT !.child = TRUE]
<1>1. /\ p \in Nat /\ Len(ss) = p + 1 /\ p + 1 \in DOMAIN ss /\ back = p + 1
      /\ ss[p + 1] \in Statement /\ ss \in Seq(Statement) /\ DOMAIN ss = 1 .. p + 1
      /\ \A i \in DOMAIN ss : Stands(ss, i)
  BY UnderWay, LenProperties DEF Inv, TypeOK, ShapeInv
<1>2. s \in Statement /\ s.child /\ s.block = ss[p + 1].block /\ s.tokens = ss[p + 1].tokens
  BY <1>1 DEF Statement
<1>3. tt = [ss EXCEPT ![p + 1] = s]
  BY <1>1
<1>. HIDE DEF s, p
<1>4. /\ DOMAIN tt = DOMAIN ss /\ tt[p + 1] = s
      /\ \A i \in DOMAIN ss : i # p + 1 => tt[i] = ss[i]
  BY <1>1, <1>2, <1>3, ChangedStatement
<1>. HIDE DEF tt
<1>5. \A i \in DOMAIN ss : /\ Stands(ss, i) /\ Words(tt[i].tokens)
                           /\ tt[i].block = ss[i].block /\ (ss[i].child => tt[i].child)
  BY <1>1, <1>2, <1>4 DEF Stands
<1>6. \A i \in DOMAIN tt : Stands(tt, i)
  BY <1>1, <1>4, <1>5, StandStill
<1>7. /\ Len(st) \in Nat /\ Len(st') = Len(st) + 1 /\ st'[Len(st) + 1] = p + 1
      /\ \A k \in 1 .. Len(st) : st'[k] = st[k]
  <2>1. st \in Seq(Nat) /\ p + 1 \in Nat /\ st' = Append(st, p + 1)
    BY <1>1, StackFacts
  <2>. HIDE DEF st
  <2>. QED BY <2>1, AppendElements
<1>8. OpenToTheEnd'
  <2>1. ASSUME NEW k \in 1 .. Len(st) + 1, NEW j \in 1 .. p + 1, j > st'[k]
        PROVE  tt[j].block >= st'[k]
    <3>1. k \in 1 .. Len(st)
      BY <1>1, <1>7, <2>1
    <3>2. ss[j].block >= st[k]
      BY <1>1, <1>7, <2>1, <3>1 DEF ShapeInv, OpenToTheEnd
    <3>. QED BY <1>1, <1>5, <1>7, <3>1, <3>2
  <2>. QED BY <1>1, <1>4, <1>7, <2>1 DEF OpenToTheEnd, tt
<1>9. last_token_type' = "START_BLOCK" /\ tt # <<>> /\ result' = "parsing"
  BY <1>1, <1>4 DEF Taken
<1>. QED BY <1>6, <1>8, <1>9 DEF ShapeInv, tt

\* No open block is further on than the innermost.
LEMMA StackBelowTop ==
    ASSUME Inv, TreeInv, NEW k \in 1 .. Len(config_stack)
    PROVE  config_stack[k] <= top
<1>1. /\ Len(config_stack) \in Nat /\ top = config_stack[Len(config_stack)] /\ top \in Nat
      /\ config_stack[k] \in Nat
  BY StackFacts
<1>2. CASE k = Len(config_stack)
  BY <1>1, <1>2
<1>3. CASE k # Len(config_stack)
  <2>1. k \in 1 .. Len(config_stack) - 1
    BY <1>1, <1>3
  <2>2. config_stack[k] < top
    BY <2>1, StackAscends
  <2>. QED BY <1>1, <2>2
<1>. QED BY <1>2, <1>3

\* A word that starts a statement.
LEMMA ShapeWordStarts ==
    ASSUME Inv, Inv', GrammarInv, TreeInv, ShapeInv, Taken, token_type = "NORMAL",
           result = "parsing", UNCHANGED config_stack,
           statements' = Append(statements,
                                [block |-> top, tokens |-> <<value>>, child |-> FALSE])
    PROVE  ShapeInv'
<1>. DEFINE ss == statements
            tt == statements'
            st == config_stack
            p == Len(ss)
            s == [block |-> top, tokens |-> <<value>>, child |-> FALSE]
<1>1. /\ p \in Nat /\ Len(ss) = p /\ ss \in Seq(Statement) /\ DOMAIN ss = 1 .. p
      /\ top \in 0 .. p /\ \A i \in DOMAIN ss : Stands(ss, i)
  BY StackFacts, LenProperties DEF Inv, TypeOK, ShapeInv
<1>2. value \in Tokens /\ value \notin Marks
  BY ValueIsToken, WordIsNoMark
<1>3. /\ s \in Statement /\ s.block = top /\ Words(s.tokens)
  <2>1. <<value>> \in Seq(Tokens) /\ s.tokens = <<value>>
    BY <1>2
  <2>2. Words(<<value>>)
    <3>1. <<value>> # <<>> /\ DOMAIN <<value>> = {1} /\ <<value>>[1] = value
      OBVIOUS
    <3>. HIDE DEF Marks
    <3>. QED BY <1>2, <3>1, Zenon DEF Words
  <2>. QED BY <1>1, <2>1, <2>2 DEF Statement, Tokens
<1>4. /\ DOMAIN tt = 1 .. p + 1 /\ tt[p + 1] = s /\ \A i \in 1 .. p : tt[i] = ss[i]
  <2>1. tt = Append(ss, s)
    OBVIOUS
  <2>. HIDE DEF s
  <2>. QED BY <1>1, <1>3, <2>1, AppendElements
<1>. HIDE DEF s, p
<1>5. ASSUME NEW i \in 1 .. p PROVE Stands(tt, i)
  <2>1. Stands(ss, i) /\ ss[i].block \in Nat /\ tt[i] = ss[i]
    <3>1. ss[i] \in Statement
      BY <1>1, ElementOfSeq
    <3>. QED BY <1>1, <1>4, <3>1 DEF Statement
  <2>2. ss[i].block = 0 \/ tt[ss[i].block].child
    <3>. SUFFICES ASSUME ss[i].block # 0 PROVE tt[ss[i].block].child
      OBVIOUS
    <3>1. ss[i].block \in 1 .. p /\ ss[ss[i].block].child
      BY <1>1, <2>1 DEF Stands
    <3>. QED BY <1>4, <3>1
  <2>3. \A j \in ss[i].block + 1 .. i - 1 : tt[j].block >= ss[i].block
    <3>. SUFFICES ASSUME NEW j \in ss[i].block + 1 .. i - 1 PROVE tt[j].block >= ss[i].block
      OBVIOUS
    <3>1. j \in 1 .. p
      BY <1>1, <2>1
    <3>. QED BY <1>4, <2>1, <3>1 DEF Stands
  <2>. QED BY <2>1, <2>2, <2>3 DEF Stands
<1>6. Stands(tt, p + 1)
  <2>1. top = 0 \/ tt[top].child
    <3>. SUFFICES ASSUME top # 0 PROVE tt[top].child
      OBVIOUS
    <3>1. /\ Len(st) \in Nat \ {0} /\ st[1] = 0 /\ top = st[Len(st)]
      BY StackFacts
    <3>2. Len(st) - 1 \in 1 .. Len(st) - 1 /\ (Len(st) - 1) + 1 = Len(st)
      BY <3>1
    <3>3. ss[st[(Len(st) - 1) + 1]].child
      BY <3>2 DEF Inv, OpenChain
    <3>. QED BY <1>1, <1>4, <3>1, <3>2, <3>3
  <2>2. \A j \in top + 1 .. (p + 1) - 1 : tt[j].block >= top
    <3>. SUFFICES ASSUME NEW j \in top + 1 .. (p + 1) - 1 PROVE tt[j].block >= top
      OBVIOUS
    <3>1. Len(st) \in 1 .. Len(st) /\ top = st[Len(st)]
      BY StackFacts
    <3>2. j \in 1 .. p /\ j > top
      BY <1>1
    <3>. QED BY <1>1, <1>4, <3>1, <3>2 DEF ShapeInv, OpenToTheEnd
  <2>3. tt[p + 1].block = top /\ Words(tt[p + 1].tokens) /\ top < p + 1
    BY <1>1, <1>3, <1>4
  <2>. HIDE DEF tt
  <2>. QED BY <2>1, <2>2, <2>3 DEF Stands
<1>7. OpenToTheEnd'
  <2>1. ASSUME NEW k \in 1 .. Len(st), NEW j \in 1 .. p + 1, j > st[k]
        PROVE  tt[j].block >= st[k]
    <3>1. CASE j \in 1 .. p
      BY <1>1, <1>4, <2>1, <3>1 DEF ShapeInv, OpenToTheEnd
    <3>2. CASE j = p + 1
      <4>1. st[k] <= top
        BY StackBelowTop
      <4>2. st[k] \in Nat
        BY StackFacts
      <4>. QED BY <1>1, <1>3, <1>4, <3>2, <4>1, <4>2
    <3>. QED BY <1>1, <3>1, <3>2
  <2>. QED BY <1>4, <2>1 DEF OpenToTheEnd
<1>8. last_token_type' = "NORMAL" /\ tt # <<>> /\ result' = "parsing"
  BY <1>1, <1>4 DEF Taken
<1>9. \A i \in DOMAIN tt : Stands(tt, i)
  <2>1. \A i \in DOMAIN tt : i \in 1 .. p \/ i = p + 1
    BY <1>1, <1>4
  <2>. QED BY <1>5, <1>6, <2>1, Zenon
<1>. QED BY <1>7, <1>8, <1>9 DEF ShapeInv

\* A closing bracket.
LEMMA ShapeClosed ==
    ASSUME Inv, TreeInv, ShapeInv, Taken, token_type = "END_BLOCK", result = "parsing",
           last_token_type \in MayCloseAfter, bracket_count > 0, statements' = statements,
           config_stack' = SubSeq(config_stack, 1, Len(config_stack) - 1)
    PROVE  ShapeInv'
<1>. DEFINE st == config_stack
            m == Len(st) - 1
<1>1. m \in Nat \ {0} /\ Len(st) = m + 1 /\ \A k \in 1 .. m : st[k] \in Nat
  BY StackFacts
<1>2. Len(st') = m /\ \A k \in 1 .. m : st'[k] = st[k]
  <2>1. 1 \in Int /\ m \in Int /\ 1 <= m
    <3>. HIDE DEF m
    <3>. QED BY <1>1
  <2>. HIDE DEF m, st
  <2>2. Len(SubSeq(st, 1, m)) = m /\ \A k \in 1 .. m : SubSeq(st, 1, m)[k] = st[k]
    BY <1>1, <2>1, SubSeqProperties
  <2>. QED BY <2>2 DEF m, st
<1>3. OpenToTheEnd'
  <2>1. \A k \in 1 .. m : k \in 1 .. Len(st)
    BY <1>1
  <2>. QED BY <1>2, <2>1 DEF ShapeInv, OpenToTheEnd
<1>4. last_token_type' = "END_BLOCK" /\ result' = "parsing" /\ last_token_type # "START"
  BY DEF Taken, MayCloseAfter
<1>. QED BY <1>3, <1>4 DEF ShapeInv, Stands

LEMMA ShapeFail == ASSUME ShapeInv, Fail PROVE ShapeInv'
BY DEF Fail, ShapeInv, OpenToTheEnd, Stands

LEMMA ShapeParserStep ==
    ASSUME Inv, Inv', GrammarInv, TreeInv, ShapeInv, Parse
    PROVE  ShapeInv'
<1>0. result = "parsing" /\ bracket_count \in Nat
  BY DEF Parse, Inv, TypeOK
<1>1. CASE SkipComment
  <2>1. UNCHANGED <<statements, config_stack, last_token_type, result>>
    BY <1>1 DEF SkipComment, parserVars
  <2>. QED BY <1>0, <2>1, ShapeStays
<1>2. CASE ParseNormal
  <2>1. token_type = "NORMAL" /\ Taken /\ UNCHANGED config_stack
    BY <1>2 DEF ParseNormal
  <2>2. CASE last_token_type = "NORMAL"
    <3>1. statements' = [statements EXCEPT ![back].tokens = Append(@, value)]
      BY <1>2, <2>2 DEF ParseNormal
    <3>. QED BY <1>0, <2>1, <2>2, <3>1, ShapeWordAdded
  <2>3. CASE last_token_type # "NORMAL"
    <3>1. statements' = Append(statements,
                               [block |-> top, tokens |-> <<value>>, child |-> FALSE])
      BY <1>2, <2>3 DEF ParseNormal
    <3>. QED BY <1>0, <2>1, <3>1, ShapeWordStarts
  <2>. QED BY <2>2, <2>3
<1>3. CASE ParseStatementEnd
  <2>1. token_type = "STATEMENT_END"
    BY <1>3 DEF ParseStatementEnd
  <2>2. CASE last_token_type = "NORMAL"
    <3>1. Taken /\ UNCHANGED <<config_stack, statements>>
      BY <1>3, <2>2 DEF ParseStatementEnd
    <3>2. last_token_type' = "STATEMENT_END" /\ result' = "parsing"
      BY <1>0, <2>1, <3>1 DEF Taken
    <3>. QED BY <2>2, <3>1, <3>2, ShapeStays
  <2>3. CASE last_token_type # "NORMAL"
    BY <1>3, <2>3, ShapeFail DEF ParseStatementEnd
  <2>. QED BY <2>2, <2>3
<1>4. CASE ParseStartBlock
  <2>1. CASE last_token_type = "NORMAL"
    <3>1. /\ config_stack' = Append(config_stack, back) /\ token_type = "START_BLOCK"
          /\ statements' = [statements EXCEPT ![back].child = TRUE] /\ Taken
      BY <1>4, <2>1 DEF ParseStartBlock
    <3>. QED BY <1>0, <2>1, <3>1, ShapeOpened
  <2>2. CASE last_token_type # "NORMAL"
    BY <1>4, <2>2, ShapeFail DEF ParseStartBlock
  <2>. QED BY <2>1, <2>2
<1>5. CASE ParseEndBlock
  <2>. DEFINE refused == last_token_type \notin MayCloseAfter \/ bracket_count - 1 < 0
  <2>1. CASE refused
    BY <1>5, <2>1, ShapeFail DEF ParseEndBlock
  <2>2. CASE ~refused
    <3>1. /\ statements' = statements /\ Taken /\ token_type = "END_BLOCK"
          /\ config_stack' = SubSeq(config_stack, 1, Len(config_stack) - 1)
      BY <1>5, <2>2 DEF ParseEndBlock
    <3>2. bracket_count > 0 /\ last_token_type \in MayCloseAfter
      BY <1>0, <2>2
    <3>. QED BY <1>0, <3>1, <3>2, ShapeClosed
  <2>. QED BY <2>1, <2>2
<1>6. CASE ParseEOF
  <2>1. UNCHANGED <<statements, config_stack, last_token_type>>
    BY <1>6 DEF ParseEOF, Fail
  <2>2. result' = "valid" => last_token_type # "START"
    BY <1>6 DEF ParseEOF, Fail
  <2>. QED BY <2>1, <2>2, ShapeStays
<1>7. CASE ParseError
  BY <1>7, ShapeFail DEF ParseError
<1>. QED BY <1>1, <1>2, <1>3, <1>4, <1>5, <1>6, <1>7 DEF Parse

LEMMA ShapeNext ==
    ASSUME Inv, Inv', GrammarInv, TreeInv, ShapeInv, [Next]_vars
    PROVE  ShapeInv'
<1>1. CASE ParseToken
  <2>1. UNCHANGED parserVars
    BY <1>1, LexerLeavesParser
  <2>2. UNCHANGED <<statements, config_stack, last_token_type, result>>
    BY <2>1 DEF parserVars
  <2>. QED BY <2>2, ShapeStays DEF ShapeInv
<1>2. CASE Parse
  BY <1>2, ShapeParserStep
<1>3. CASE UNCHANGED vars
  <2>1. UNCHANGED <<statements, config_stack, last_token_type, result>>
    BY <1>3 DEF vars, parserVars
  <2>. QED BY <2>1, ShapeStays DEF ShapeInv
<1>. QED BY <1>1, <1>2, <1>3 DEF Next

\* For any characters, any length of the file and any depth of its blocks: what Parse
\* makes of a file it accepts is the tree of a file, which is all that Dispatch
\* assumes of a configuration (NginxConfigParser::Parse, NginxConfig::ParseString).
THEOREM TreesAreMade == Spec => []MakesTrees
<1>1. Init => Inv /\ GrammarInv /\ TreeInv /\ ShapeInv
  BY InitInv, GrammarInit, TreeInit, ShapeInit
<1>2. Inv /\ Inv' /\ GrammarInv /\ [Next]_vars => GrammarInv'
  BY GrammarNext
<1>3. Inv /\ Inv' /\ GrammarInv /\ TreeInv /\ [Next]_vars => TreeInv'
  BY TreeNext
<1>4. Inv /\ Inv' /\ GrammarInv /\ TreeInv /\ ShapeInv /\ [Next]_vars => ShapeInv'
  BY ShapeNext
<1>5. ShapeInv => MakesTrees
  BY ShapeIsTree
<1>. QED BY <1>1, <1>2, <1>3, <1>4, <1>5, ParserInvariant, PTL DEF Spec

-----------------------------------------------------------------------------
(* Neither loop goes round for nothing.                                    *)

\* Where the rounds of the two loops lead while the stream stays where it is: a word
\* whose next character is put back, its token, the next ParseToken, which gets
\* that character, the end of the file, the end of Parse.
Stage ==
    IF result # "parsing" THEN 0
    ELSE IF token_type \in {"EOF", "ERROR"} THEN 1
    ELSE IF token_type # NoToken THEN 3
    ELSE IF state = "INITIAL_WHITESPACE" THEN 2
    ELSE 4

\* A step gets a character for good, or comes closer to the step that does or to
\* the end.
Advances == pos' > pos \/ (pos' = pos /\ Stage' < Stage)

LEMMA LexerAdvances == ASSUME Inv, ParseToken PROVE Advances
<1>1. pos \in Nat /\ result = "parsing" /\ token_type = NoToken /\ UNCHANGED result
  <2>1. UNCHANGED parserVars
    BY LexerLeavesParser
  <2>2. pos \in Nat
    BY DEF Inv, TypeOK
  <2>. QED BY <2>1, <2>2 DEF parserVars, ParseToken, SingleCharacter, SkipBlank, StartToken, Quoted,
                            Comment, Word, WordEnds, EndOfFile, Get, Fetch
<1>2. ASSUME NEW c, Get(c) PROVE Advances
  BY <1>1, <1>2 DEF Get, Advances
<1>3. ASSUME NEW c, WordEnds(c) PROVE Advances
  <2>1. pos' = pos /\ token_type' = "NORMAL" /\ state = "NORMAL"
    BY <1>3 DEF WordEnds, Return
  <2>. QED BY <1>1, <2>1 DEF Advances, Stage, NoToken
<1>4. CASE EndOfFile
  <2>1. pos' = pos /\ token_type' \in {"EOF", "ERROR"}
    BY <1>4 DEF EndOfFile, Return, lexerVars
  <2>. QED BY <1>1, <2>1 DEF Advances, Stage, NoToken
<1>. QED BY <1>2, <1>3, <1>4 DEF ParseToken, SingleCharacter, SkipBlank, StartToken, Quoted,
                                Comment, Word

LEMMA ParserAdvances == ASSUME Parse PROVE Advances
<1>0. result = "parsing"
  BY DEF Parse
<1>1. CASE Fail
  <2>1. pos' = pos /\ result' = "invalid"
    BY <1>1 DEF Fail, lexerVars
  <2>. QED BY <1>0, <2>1 DEF Advances, Stage
<1>2. CASE NextToken /\ token_type \notin {"EOF", "ERROR", NoToken} /\ UNCHANGED result
  <2>1. pos' = pos /\ token_type' = NoToken /\ state' = "INITIAL_WHITESPACE"
    BY <1>2 DEF NextToken
  <2>. QED BY <1>0, <1>2, <2>1 DEF Advances, Stage, NoToken
<1>3. CASE ParseEOF
  <2>1. pos' = pos /\ result' # "parsing" /\ token_type = "EOF"
    BY <1>3 DEF ParseEOF, Fail, lexerVars
  <2>. QED BY <1>0, <2>1 DEF Advances, Stage
<1>4. ASSUME Taken, token_type \in TreeTypes PROVE Advances
  <2>1. NextToken /\ UNCHANGED result /\ token_type \notin {"EOF", "ERROR", NoToken}
    BY <1>4 DEF Taken, TreeTypes, NoToken
  <2>. QED BY <1>2, <2>1
<1>5. CASE SkipComment
  <2>1. NextToken /\ UNCHANGED result /\ token_type \notin {"EOF", "ERROR", NoToken}
    BY <1>5 DEF SkipComment, parserVars, NoToken
  <2>. QED BY <1>2, <2>1
<1>6. CASE ParseNormal \/ ParseStatementEnd \/ ParseStartBlock \/ ParseEndBlock
  <2>1. token_type \in TreeTypes /\ (Taken \/ Fail)
    BY <1>6 DEF ParseNormal, ParseStatementEnd, ParseStartBlock, ParseEndBlock, TreeTypes
  <2>. QED BY <1>1, <1>4, <2>1
<1>7. CASE ParseError
  BY <1>1, <1>7 DEF ParseError
<1>. QED BY <1>3, <1>5, <1>6, <1>7 DEF Parse

\* Every step of ParseToken and Parse gets a character for good or comes closer to
\* the one that does, for files of any length, although unget() puts back the
\* character that ends a word and both loops have no end of their own: with the fairness of a running loop,
\* why Parse returns (config_parser.cc:192, 279).
THEOREM NoIdleRound == Spec => [][Advances]_vars
<1>1. Inv /\ [Next]_vars => [Advances]_vars
  BY LexerAdvances, ParserAdvances DEF Next
<1>. QED BY <1>1, ParserInvariant, PTL DEF Spec
=============================================================================
