---------------------------- MODULE ConfigParser ----------------------------
(***************************************************************************)
(* NginxConfigParser: the lexer ParseToken and the parser Parse, reading   *)
(* one configuration file.                                                 *)
(*                                                                         *)
(* The file is not known in advance: every get() past what was read so far *)
(* takes any character of Chars, or finds the end of the file.  The tree   *)
(* of NginxConfig and NginxConfigStatement objects is kept flat, as the    *)
(* sequence of the statements in the order they were made; a block is      *)
(* named by the number of the statement it belongs to, and 0 is the        *)
(* configuration the caller handed in.                                     *)
(***************************************************************************)
EXTENDS ConfigTree

CONSTANTS
    Chars,      \* the characters a file may hold
    Bounds      \* bound: the files are, for each of these records, the ones of up
                \* to its len characters out of its chars

ASSUME CharsAssumption == {";", "{", "}"} \subseteq Chars
ASSUME BoundsAssumption == \A b \in Bounds : b.chars \subseteq Chars /\ b.len \in Nat

VARIABLES
    text,             \* the characters of the stream fetched so far
    pos,              \* how many of them are behind the stream's position
    state,            \* TokenParserState of the current ParseToken
    value,            \* what ParseToken has put into *value
    token_type,       \* the type ParseToken returned, NoToken while it runs
    last_token_type,  \* the token before it
    bracket_count,    \* opening minus closing brackets
    config_stack,     \* the blocks that are open, the innermost last
    statements,       \* the statements made, in order
    given,            \* history: the texts of the tokens Parse took in
    result            \* what Parse returned, "parsing" while it runs

lexerVars  == <<text, pos, state>>
parserVars == <<last_token_type, bracket_count, config_stack, statements, given, result>>
vars == <<lexerVars, value, token_type, parserVars>>

NoToken == "none"
TokenTypes == {"START", "NORMAL", "START_BLOCK", "END_BLOCK", "COMMENT",
               "STATEMENT_END", "EOF", "ERROR"}
LexerStates == {"INITIAL_WHITESPACE", "SINGLE_QUOTE", "DOUBLE_QUOTE", "COMMENT", "NORMAL"}

Blank == {" ", "\t", "\n", "\r"}
EndsWord == {" ", "\t", "\n", ";", "{", "}"}  \* a carriage return is not among them

Statement == [block: Nat, tokens: Seq(Seq(Chars)), child: BOOLEAN]

\* The characters that are a token by themselves.
SingleToken ==
    [c \in {"{", "}", ";"} |->
        IF c = "{" THEN "START_BLOCK" ELSE IF c = "}" THEN "END_BLOCK" ELSE "STATEMENT_END"]

Init ==
    /\ text = <<>> /\ pos = 0
    /\ state = "INITIAL_WHITESPACE" /\ value = <<>> /\ token_type = NoToken
    /\ last_token_type = "START" /\ bracket_count = 0
    /\ config_stack = <<0>> /\ statements = <<>>
    /\ given = <<>> /\ result = "parsing"

-----------------------------------------------------------------------------
(* ParseToken                                                              *)

InBounds(t) == \E b \in Bounds : Len(t) <= b.len /\ \A i \in DOMAIN t : t[i] \in b.chars

\* The next character is c: the one that was put back, or one more.
Fetch(c) ==
    /\ result = "parsing" /\ token_type = NoToken
    /\ IF pos < Len(text)
       THEN c = text[pos + 1] /\ text' = text
       ELSE InBounds(Append(text, c)) /\ text' = Append(text, c)

\* input->get() returns c.
Get(c) == Fetch(c) /\ pos' = pos + 1

Return(type) ==
    /\ token_type' = type
    /\ UNCHANGED parserVars

Continue(next) ==
    /\ state' = next
    /\ UNCHANGED <<token_type, parserVars>>

\* A bracket or a semicolon where a token may start.
SingleCharacter(c) ==
    /\ state = "INITIAL_WHITESPACE" /\ c \in DOMAIN SingleToken
    /\ Get(c)
    /\ value' = <<c>>
    /\ Return(SingleToken[c])
    /\ UNCHANGED state

\* Fault: the blank is put back.
BlankPutBack(c) ==
    /\ state = "INITIAL_WHITESPACE" /\ c \in Blank
    /\ Fetch(c)
    /\ Continue("INITIAL_WHITESPACE")
    /\ UNCHANGED <<pos, value>>

SkipBlank(c) ==
    /\ state = "INITIAL_WHITESPACE" /\ c \in Blank
    /\ Get(c)
    /\ Continue("INITIAL_WHITESPACE")
    /\ UNCHANGED value

\* A comment, a quoted token or a word starts.
StartToken(c) ==
    /\ state = "INITIAL_WHITESPACE" /\ c \notin Blank \union DOMAIN SingleToken
    /\ Get(c)
    /\ value' = <<c>>
    /\ Continue(IF c = "#" THEN "COMMENT"
                ELSE IF c = "\"" THEN "DOUBLE_QUOTE"
                ELSE IF c = "'" THEN "SINGLE_QUOTE" ELSE "NORMAL")

\* Fault: either quote ends a quoted token.
AnyQuoteEnds(c) ==
    /\ state \in {"SINGLE_QUOTE", "DOUBLE_QUOTE"}
    /\ Get(c)
    /\ value' = Append(value, c)
    /\ IF c \in {"'", "\""} THEN Return("NORMAL") /\ UNCHANGED state ELSE Continue(state)

Quoted(c) ==
    /\ state \in {"SINGLE_QUOTE", "DOUBLE_QUOTE"}
    /\ Get(c)
    /\ value' = Append(value, c)
    /\ IF c = (IF state = "SINGLE_QUOTE" THEN "'" ELSE "\"")
       THEN Return("NORMAL") /\ UNCHANGED state
       ELSE Continue(state)

Comment(c) ==
    /\ state = "COMMENT"
    /\ Get(c)
    /\ IF c \in {"\n", "\r"}
       THEN Return("COMMENT") /\ UNCHANGED <<state, value>>
       ELSE Continue(state) /\ value' = Append(value, c)

Word(c) ==
    /\ state = "NORMAL" /\ c \notin EndsWord
    /\ Get(c)
    /\ value' = Append(value, c)
    /\ Continue("NORMAL")

\* The character after a word is put back with unget().
WordEnds(c) ==
    /\ state = "NORMAL" /\ c \in EndsWord
    /\ Fetch(c)
    /\ Return("NORMAL")
    /\ UNCHANGED <<pos, state, value>>

\* get() finds the end of the file, whatever the lexer was in.
EndOfFile ==
    /\ result = "parsing" /\ token_type = NoToken /\ pos = Len(text)
    /\ Return(IF state \in {"SINGLE_QUOTE", "DOUBLE_QUOTE"} THEN "ERROR" ELSE "EOF")
    /\ UNCHANGED <<lexerVars, value>>

ParseToken ==
    \/ \E c \in Chars :
         \/ SingleCharacter(c) \/ SkipBlank(c) \/ StartToken(c) \/ Quoted(c)
         \/ Comment(c) \/ Word(c) \/ WordEnds(c)
    \/ EndOfFile

-----------------------------------------------------------------------------
(* Parse                                                                   *)

top == config_stack[Len(config_stack)]

\* config_stack.top()->statements_.back()
back == Max({i \in DOMAIN statements : statements[i].block = top})

\* The loop goes round: the next ParseToken starts with an empty string.
NextToken ==
    /\ state' = "INITIAL_WHITESPACE" /\ value' = <<>> /\ token_type' = NoToken
    /\ UNCHANGED <<text, pos>>

Fail ==
    /\ result' = "invalid"
    /\ UNCHANGED <<lexerVars, value, token_type, last_token_type, bracket_count,
                   config_stack, statements, given>>

\* Fault: a bracket does not become the last token.
LastWordKept ==
    /\ last_token_type' = IF token_type = "START_BLOCK" THEN last_token_type ELSE token_type
    /\ given' = Append(given, value)
    /\ result' = result
    /\ NextToken

\* What the tokens that change the tree have in common at the loop's end.
Taken ==
    /\ last_token_type' = token_type
    /\ given' = Append(given, value)
    /\ result' = result
    /\ NextToken

SkipComment ==
    /\ token_type = "COMMENT"
    /\ NextToken
    /\ UNCHANGED parserVars

\* Fault: a closed block does not end its statement.
BlockStatementGoesOn ==
    /\ token_type = "NORMAL"
    /\ statements' =
         IF last_token_type \notin {"NORMAL", "END_BLOCK"}
         THEN Append(statements, [block |-> top, tokens |-> <<value>>, child |-> FALSE])
         ELSE [statements EXCEPT ![back].tokens = Append(@, value)]
    /\ Taken
    /\ UNCHANGED <<bracket_count, config_stack>>

ParseNormal ==
    /\ token_type = "NORMAL"
    /\ statements' =
         IF last_token_type # "NORMAL"
         THEN Append(statements, [block |-> top, tokens |-> <<value>>, child |-> FALSE])
         ELSE [statements EXCEPT ![back].tokens = Append(@, value)]
    /\ Taken
    /\ UNCHANGED <<bracket_count, config_stack>>

ParseStatementEnd ==
    /\ token_type = "STATEMENT_END"
    /\ IF last_token_type # "NORMAL"
       THEN Fail
       ELSE Taken /\ UNCHANGED <<bracket_count, config_stack, statements>>

\* Fault: the opening bracket is not counted.
BracketNotCounted ==
    /\ token_type = "START_BLOCK"
    /\ IF last_token_type # "NORMAL"
       THEN Fail
       ELSE /\ statements' = [statements EXCEPT ![back].child = TRUE]
            /\ config_stack' = Append(config_stack, back)
            /\ Taken
            /\ UNCHANGED bracket_count

\* Fault: the statement does not get its block.
ChildNotSet ==
    /\ token_type = "START_BLOCK"
    /\ IF last_token_type # "NORMAL"
       THEN Fail
       ELSE /\ bracket_count' = bracket_count + 1
            /\ config_stack' = Append(config_stack, back)
            /\ Taken
            /\ UNCHANGED statements

\* bracket_count is counted up before the check, which no one reads after it.
ParseStartBlock ==
    /\ token_type = "START_BLOCK"
    /\ IF last_token_type # "NORMAL"
       THEN Fail
       ELSE /\ bracket_count' = bracket_count + 1
            /\ statements' = [statements EXCEPT ![back].child = TRUE]
            /\ config_stack' = Append(config_stack, back)
            /\ Taken

\* Fault: an empty block may not be closed.
AfterStatements == {"STATEMENT_END", "END_BLOCK"}

MayCloseAfter == {"STATEMENT_END", "END_BLOCK", "START_BLOCK"}

\* Fault: more brackets may be closed than are open.
CloseUnopened ==
    /\ token_type = "END_BLOCK"
    /\ IF last_token_type \notin MayCloseAfter
       THEN Fail
       ELSE /\ bracket_count' = bracket_count - 1
            /\ config_stack' = SubSeq(config_stack, 1, Len(config_stack) - 1)
            /\ Taken
            /\ UNCHANGED statements

ParseEndBlock ==
    /\ token_type = "END_BLOCK"
    /\ IF last_token_type \notin MayCloseAfter \/ bracket_count - 1 < 0
       THEN Fail
       ELSE /\ bracket_count' = bracket_count - 1
            /\ config_stack' = SubSeq(config_stack, 1, Len(config_stack) - 1)
            /\ Taken
            /\ UNCHANGED statements

ParseEOF ==
    /\ token_type = "EOF"
    /\ IF last_token_type \notin {"STATEMENT_END", "END_BLOCK"} \/ bracket_count # 0
       THEN Fail
       ELSE /\ result' = "valid"
            /\ UNCHANGED <<lexerVars, value, token_type, last_token_type, bracket_count,
                           config_stack, statements, given>>

ParseError == token_type = "ERROR" /\ Fail

Parse ==
    /\ result = "parsing"
    /\ \/ SkipComment \/ ParseNormal \/ ParseStatementEnd \/ ParseStartBlock
       \/ ParseEndBlock \/ ParseEOF \/ ParseError

Next == ParseToken \/ Parse

Spec == Init /\ [][Next]_vars /\ WF_vars(Next)

-----------------------------------------------------------------------------
\* NginxConfig::ToString of the configuration read so far, and the tokens that
\* it writes after those of a statement.
Open == <<"{">>
Close == <<"}">>
End == <<";">>

Serialized == BlockTokens(statements, 0, Open, Close, End)

-----------------------------------------------------------------------------
(* Properties                                                              *)

TypeOK ==
    /\ text \in Seq(Chars) /\ pos \in 0 .. Len(text)
    /\ state \in LexerStates /\ value \in Seq(Chars)
    /\ token_type \in TokenTypes \union {NoToken}
    /\ last_token_type \in {"START", "NORMAL", "START_BLOCK", "END_BLOCK", "STATEMENT_END"}
    /\ bracket_count \in Nat
    /\ config_stack \in Seq(Nat)
    /\ statements \in Seq(Statement)
    /\ given \in Seq(Seq(Chars))
    /\ result \in {"parsing", "valid", "invalid"}

\* The stack Parse takes top() of is never popped empty, and it is the chain
\* of the open blocks: every entry is the child of a statement of the entry
\* below it, and bracket_count says how many there are above the file's own
\* block.  Both are kept by hand in four branches of one loop.
OpenChain ==
    /\ Len(config_stack) = bracket_count + 1
    /\ config_stack[1] = 0
    /\ \A i \in 1 .. Len(config_stack) - 1 :
         /\ config_stack[i + 1] \in DOMAIN statements
         /\ statements[config_stack[i + 1]].block = config_stack[i]
         /\ statements[config_stack[i + 1]].child

\* When Parse takes back() of the innermost block's statements there is one,
\* it is the last statement made, and it has no block yet that reset() would
\* delete while it is open.
BackIsUnderWay ==
    last_token_type = "NORMAL" =>
        /\ statements # <<>>
        /\ statements[Len(statements)].block = top
        /\ ~ statements[Len(statements)].child

\* What an accepted file's configuration writes is what Parse was given, token
\* for token: comments apart, nothing is lost, doubled or moved to another
\* block, however blocks, comments and quotes follow each other.
RoundTrip == result = "valid" => Serialized = given

\* What main hands to the server, and each Dispatcher reads (dispatcher.cc:18), is the
\* tree of a file: pointers that were pushed and popped while vectors grew have put
\* each statement in the child block of one before it, whole blocks between their
\* neighbours, and no bracket or semicolon in a statement.
MakesTrees == result = "valid" => FileTree(statements, {Open, Close, End})

\* The token texts of a file, read by the grammar: a statement is words and then
\* a semicolon or a block, a block is statements between brackets, empty or
\* not.  Begins says that ts is the beginning of such a text.
Count(ts, t, n) == Cardinality({i \in 1 .. n : ts[i] = t})
IsWord(t) == t \notin {End, Open, Close}

Begins(ts) ==
    \A i \in DOMAIN ts :
        /\ ts[i] \in {End, Open} => i > 1 /\ IsWord(ts[i - 1])
        /\ ts[i] = Close => i > 1 /\ ~IsWord(ts[i - 1])
        /\ Count(ts, Close, i) <= Count(ts, Open, i)

Complete(ts) ==
    /\ ts # <<>> /\ Begins(ts)
    /\ ts[Len(ts)] \in {End, Close}
    /\ Count(ts, Close, Len(ts)) = Count(ts, Open, Len(ts))

\* A word that the end of the file cuts off is not handed to Parse
\* (config_parser.cc:269): ParseToken returns EOF with the word in value.
WordIsCutOff == token_type = "EOF" /\ state = "NORMAL"

\* The token texts of the file, once ParseToken has found its end.
FileTokens == IF WordIsCutOff THEN Append(given, value) ELSE given

\* Which files Parse accepts, against "Returns true iff the input config file is
\* valid" (config_parser.h:42): those whose tokens are a text of the grammar, and,
\* though these are not valid, those that are one but for a last word that the end
\* of the file cuts off.  It accepts no other, and refuses a token at once if no
\* text of the grammar goes on with it, although it keeps no more than the last
\* token's type and a count.
AcceptsTheGrammar ==
    /\ result = "parsing" => Begins(given)
    /\ result = "valid" => /\ token_type = "EOF"
                           /\ Complete(FileTokens) \/ (WordIsCutOff /\ Complete(given))
    /\ result = "invalid" /\ token_type = "EOF" => ~Complete(FileTokens) /\ ~Complete(given)
    /\ result = "invalid" /\ token_type \notin {"EOF", "ERROR"} => ~Begins(Append(given, value))

\* A token Parse is given reads back as itself: it is a bracket or a semicolon,
\* a quoted text whose quote stands at its two ends and nowhere else, or a word
\* that holds none of the characters that end one and does not start like a
\* comment or a quote.  So no token was cut short, run into its neighbour or
\* started inside a comment, whatever stood before it in the file.
QuotedText(t, q) ==
    Len(t) > 1 /\ \A i \in DOMAIN t : t[i] = q <=> i \in {1, Len(t)}

PlainWord(t) ==
    /\ t # <<>> /\ \A i \in DOMAIN t : t[i] \notin EndsWord
    /\ t[1] \notin {"\r", "#", "'", "\""}

Whole(t) ==
    \/ t \in {<<";">>, <<"{">>, <<"}">>}
    \/ QuotedText(t, "'") \/ QuotedText(t, "\"")
    \/ PlainWord(t)

TokensAreWhole == \A i \in DOMAIN given : Whole(given[i])

\* Parse returns for every file, although its loop has no end of its own and
\* the lexer puts characters back: the file is finite and each round of the
\* two loops gets at least one character for good.
ParseEnds == <>(result # "parsing")
=============================================================================
