# git-r-done: TLA+ models and proofs of the web server

This directory holds TLA+ modules that model the server of this repository, TLC
configurations that check them on small instances, and theorems that TLAPS proves for
every value of the constants. It is written from the code under `src/` (paths below are
relative to the repository, so the server's sources are `src/*.cc`).

## 1. The system

One process. `server_main.cc` parses a configuration file, opens a listening socket and
runs a boost `io_service` on the main thread. `server` accepts connections; each gets a
`session`, which reads one request, lets the dispatcher's handler make the answer,
writes it and ends. Handlers run inside the read callback, on the only thread. Nothing
is shared with other processes but the SQLite file of the memes.

| component | state | operations | interacts with |
|---|---|---|---|
| `server`, `session`, `io_service` | sockets, the read buffer, pending callbacks | accept, read until the empty line, answer, write, end | clients (TCP); calls the request parser, the dispatcher and the status list |
| status list (`StatusObject`, `StatusHandler`) | `status_entries_`, as long as the process | `addStatusEntry`, `getStatusCalls`, the status page | called by every session |
| meme vault (`MemeHandler`) | table `MEME_HISTORY`, the position in the `rand()` sequence, leaked connections | create, edit, delete, view, list, search; access tokens | SQLite; pages that browsers keep |
| proxy (`ProxyHandler`) | none between requests | one blocking GET of an upstream server | upstream server; blocks the thread |
| configuration (`NginxConfigParser`, `NginxConfig`) | a tree of statements; the parser's stack, bracket count and last token type while it runs | parse, write back as text, look up an attribute | dispatcher, handler factories |
| dispatcher, `HandlerManager` | tables rebuilt for each request; the static map of the status page, which stays | prefix of the path to handler name to handler | configuration, all handlers |
| request parser, response | none between requests | first line, header pairs, body; build the answer | session |
| `URLParser` | none | URL decoding, HTML encoding and decoding | meme handler |
| static, echo, error, bad, health handlers | none | fill in an answer | dispatcher |

### What is hard in it

* *Callbacks and object lifetime.* A session lives by the `shared_ptr` in its pending
  callback; error paths `delete this`; `async_write` is given a local string.
* *Packet boundaries.* Headers and body may come in any number of pieces.
* *One thread.* A handler that blocks stops every connection.
* *Failure in the middle.* Clients reset at any time; a handler's exception ends the
  process; the database may refuse a write whose page is sent all the same; answers get
  lost after the write.
* *Long histories.* Ids are text in the table and numbers in the code; deleted ids are
  given again; pages stay open in browsers while the table changes; restarts keep the
  table and start `rand()` from the beginning.
* *Automata by hand.* The configuration parser decides by the type of the last token and
  a count of brackets, and keeps a stack of pointers into vectors that grow.
* *Texts searched as texts.* Attributes are looked for in a serialised block, links by a
  greedy regular expression, placeholders and entities by one replacement after another.
* *Limits.* Descriptors run out by leaked database connections or slow clients.

### What makes each part correct

* vault: a new meme takes no other's place; the token that was shown for a meme goes on
  opening it, and opens no other when it is gone; an open edit page stays the page of
  its meme; an answer shows what is stored.
* connections: a handler sees the whole request and never less than its head; the answer
  on the wire is the handler's; an error of one connection stays its own; every request
  is answered and every abandoned session is freed.
* status list: every answer is counted once, in one entry per url and code.
* proxy: the body served is the body received, once, and a broken one is not served as
  whole.
* configuration and dispatcher: the parser accepts the grammar and nothing else; the
  handler of a prefix is the one configured for it.
* request parser and codec: decoding inverts encoding; the fields are those sent.

`PROJECT.json` lists every component, with those not modelled, and every hazard with its
line and the properties that watch it.

## 2. Modules

| module | models | theorems |
|---|---|---|
| `MemeIds` | ids as SQLite orders them (text) and the code counts them (numbers) | |
| `MemeVault` | `meme_handler.cc`: the requests, the table, open pages, restarts | |
| `MemeStore` | what a meme store promises: the abstract specification of the vault | |
| `MemeText` | `url_parser.cc` and `meme_handler.cc`: what becomes of the texts of a meme | |
| `StatusObject` | `status_obj.cc`, as operators on the list | |
| `SessionServer` | `server.cc`, `session.cc`, `server_main.cc`'s loop; extends `StatusObject` | |
| `AnswerLog` | what the server promises of its connections and its status page: the abstract specification of the sessions | |
| `ProxyFetch` | one fetch of `proxy_handler.cc` and the upstream server | |
| `ConfigTree` | the tree of statements as a value: written as tokens, its blocks in order | |
| `ConfigParser` | `config_parser.cc`: `ParseToken` and `Parse`; extends `ConfigTree` | |
| `RequestParser` | `request.cc`, as operators on the bytes of a request | |
| `Dispatch` | `ParseString`, `dispatcher.cc`, `handler_manager.cc` and the small handlers; extends `ConfigTree` and `RequestParser` | |
| `MC...` | the instances that TLC checks | |
| `MemeVaultProofs` | | ids, vault, refinement of `MemeStore` |
| `SessionServerProofs` | | connections and status list, refinement of `AnswerLog` |
| `ProxyFetchProofs` | | the body that a fetch serves, and its links |
| `ConfigParserProofs` | | tokens, stack and statement of the parser, its grammar, what its tree writes |
| `DispatchProofs` | | tables, status page, attributes, handlers, requests read back |
| `MemeTextProofs` | | what becomes of the texts of a meme |
| `SequenceLemmas`, `FoldLemmas` | | lemmas that the proofs share; they model no code |

How they compose: `SessionServer` calls `StatusObject` and stands for the handlers by
what they may do to a session (answer, block, throw); `Dispatch` says which handler runs
and when it throws, `ProxyFetch` opens up the call that blocks, `MemeVault` and
`MemeText` the handler that keeps state. `Dispatch` starts from the trees that
`ConfigParser` builds, both written over `ConfigTree`, and from requests that
`RequestParser` takes apart.

### MemeVault

The server runs each request to its end on its one thread, so a request is one action;
what interleaves is the requests themselves, lost answers, pages that stay open, failed
writes and restarts.

* `rows` is `MEME_HISTORY`. A row's content (name, image, captions) is one value. A form
  may lose its end to a packet boundary (`session_split`): `Blank` is a form of fewer
  than three fields, `Partial` one whose last fields are missing, and an edit form cut
  in its last field, `meme_id`, posts what is left of the id, `NoId` when nothing is
  (`PostedEdits`). A cut inside a key is read past the end of a vector: undefined, so
  the process ends (`Restart`) or the fields before it are taken.
* A token is a record of the id it starts with and the position in the `rand()` sequence
  where its characters were drawn. Two tokens are equal exactly when both are, which
  holds because `rand()` is never seeded. Rolling the same characters from two positions
  is left out.
* `draws` is that position, back to 0 after a `Restart`; `leaked` counts connections
  that `MemeView` returns without closing; `CanOpen` is whether one more can be opened.
  A full table of descriptors makes each request answer 404 (`Unavailable`).
* `shown` are the tokens that result pages have shown to somebody (an answer may be
  lost, so a page may show its token to nobody); `forms` are the open edit pages, each
  with the token of the meme it was filled from; `reply` is the last answer. Of pages
  that are no result pages only the kind is kept.
* `AddToDatabase` writes the row or, when `sqlite3_step` fails, does not: the code does
  not look. When the database does not open or the table is not created, the code goes
  on with the handle it closed and closes it again; either the process ends (`Restart`)
  or every call is refused and the page shows what is under `10000` or the id of the
  form (`RefusedWrite`). `RequestDelete` removes the row or fails, which is only logged,
  and answers 200 or 404: `MemeDelete` has no `return`. An id that is no number makes
  `stoi` throw at the next new meme (`PostNewThrows`).
* The list and search pages only read the table and are no actions. Query strings are
  ids that pages show; the text of an SQL statement is not modelled.

### SessionServer

* `sess[c]` is what the session of a connection waits for: `"reading"` for
  `async_read_until`, `"ready"` when `handle_read` is queued, `"waiting"` while the
  handler of a proxied request blocks, `"writing"` in `async_write`, `"written"` and
  `"failed"` when `handle_write` is queued. `Idle` guards each server step: no step is
  taken while a handler blocks.
* A request is a sequence of segments. `ReadSome` takes some of what has arrived, in any
  cut, and is done when the end of the headers is in the buffer.
* `Respond` counts the answer and makes the first write within `async_write`, while the
  string lives. The branch for a null response is dead code, since every `HandleRequest`
  returns one. Later writes (`WriteMore`) are made from freed memory: undefined, so the
  piece is `"good"`, `"bad"` or the write fails.
* `DeleteThis` is the double deletion: undefined, so the process ends or goes on.
* A handler answers, blocks on an upstream server, or throws; an exception leaves
  `io_service.run()` and `main` returns. Nothing happens in a process that ended, so the
  runs switch TLC's deadlock check off.
* Clients connect, send in order, and at any time close their side or reset; unless they
  are in `Patient` they may also stop, both sending and reading (`RoomToWrite`).

### ProxyFetch

* One fetch of `ProxyHandler::HTTPRequest`; nothing outlives it. `phase` is where the
  function is. `SessionServer` has the same call as a state of its session
  (`"waiting"`), which this module opens up.
* The upstream answer is a row of items: status line, header lines, empty line, parts of
  the body. `sent` and `taken` count how many have left the upstream server and how many
  the buffer received, so the buffer is always a prefix (`BodyUpTo`). Pieces are cut
  between items; a body with an empty line in it does not stand for the end of a head
  without header lines.
* `UpstreamSends`, `UpstreamCloses` and `UpstreamResets` interleave with the reads, and
  a reset loses what was on the way. `read_until` throws where the stream ends before
  its delimiter (`ReadUntilFails`), `stoi` on a length that is no number (`ParseHead`).
* `ReadRest` is the whole loop: `read` returns at the end of the connection, the buffer
  is appended to `res_body`, a second read returns nothing.
* `HTMLFilter` is what the regular expression does to the parts of a page: the first
  link of each line is rewritten.

### AnswerLog

Four variables: whether the process is up, the connections `answered`, those that are
`over`, and the status page's `hits`, one count for each url and code. `Answer` counts
in the step that answers, `End` may take the process with it, `Die` is the process
alone. `SessionServer!Log` maps `Answered` (headers read, handler done), `Over` (session
closed) and `Hits` (the entry of the list, 0 without one) to them.

### ConfigParser

* The file is not chosen beforehand: `Fetch` takes any character where the lexer reads
  on, so TLC explores all files at once; `Bounds` says how long they get.
* `state`, `value` and `token_type` are `ParseToken`'s; one action is one round of its
  loop. A word is ended by `unget()`: `WordEnds` leaves `pos`. `EndOfFile` returns `EOF`
  from every state but the quotes, so a word that runs into the end of the file is
  dropped, as in the code (`WordIsCutOff`).
* `Parse` has one action for each token type, in which a failed check is `Fail`. The
  heap of statements is the flat sequence `statements`; a block is the number of its
  statement, and `config_stack` holds block numbers for pointers. `back` is
  `statements_.back()` of the block on top.
* `given` records the texts of the tokens that Parse took in. `Serialized` is what
  `NginxConfig::ToString` writes of the tree.
* `Begins` and `Complete` are the grammar, stated without the automaton: which texts a
  token may follow, and that no prefix closes more blocks than it opens. `FileTokens`
  are the tokens of the file, the dropped word included.

### RequestParser and Dispatch

* `RequestParser` has no state: `split` with compressed separators, the check of the
  first line, the header pairs between the first and the last line, and the last line as
  the body. Texts are sequences of atoms (`CR`, `LF`, blank, `": "`, words).
* `Dispatch` starts with any configuration of its instance. Each request makes a
  `Dispatcher` anew: `ParseString` fills the name table, the block table and the static
  map of `StatusObject` in the order of `InnerFirst`, with `std::map::insert`.
* A value is looked up as the code does, by the attribute's letters in the serialised
  block (`Occurs`, `ValueAt`); what falls off the end of `GetAttribute` is `Junk` or a
  crash (`ServeBadly`), and so is a null handler. `ServeBroken` is a handler statement
  without a block or a name.
* `Start` ends the program when no port is configured or the port cannot be bound.
* A handler's answer is its code; 0 is the end of the process, by an exception or by
  undefined behaviour. `MemeCodes` says which pages of the meme handler look at the
  request's body, and `ReadsPastEnd` where `parseRequestBody` then reads `key_value[1]`
  of an item without an `=`. `DatabaseFails` is a `SELECT` that fails, or an id that is
  no number, in a page that needs it.

### MemeText

One meme and the pages around it: `Submit` sends a form, through the browser's form
encoding, `urlDecode`, the rewriting of `parseRequestBody` and `htmlEncode`, into the
row and onto the page; `MemeEdit` fills the edit form with decoded texts; `Retype`,
`MemeSearch`, `MemeView` and `GoBack` are the user's. A text is a sequence of atoms:
what the code replaces as one string is one atom. A page replaces its six placeholders
one after the other (`Filled`), so that a text is searched for those after its own; the
image, the bottom text and the token are one atom each. `Carried` and `Editable` name
the texts the code can carry; section 5 says what happens to the others.

## 3. Runs

| run | expects | shows |
|---|---|---|
| `vault_steady` | pass | type invariant, `AnswerIsStored`, `NewMemeIsFresh`, `TokenKeepsWorking`, `TokenStaysGone`, `PagesStayCurrent`, `ImplementsStore` |
| `vault_rollover` | violation | `NewMemeIsFresh` fails at the sixth digit |
| `session_steady` | pass | type invariant, `HandlersSeeHeads`, `StatusCounts`, `StatusTotal`, `ShortAnswersArrive`, `ConnectionsEnd`, `ImplementsLog` |
| `session_split` | violation | `HandlersSeeBodies`: a body in a packet of its own is not read |
| `session_lifetime` | violation | `AnswersAreTheResponse`: the rest of a long answer comes from freed memory |
| `session_delete` | violation | `ErrorsStayLocal`: one client's reset may end the server |
| `session_blocked` | violation | `LocalRequestsAnswered`: a silent upstream server stops everyone |
| `proxy_steady` | pass | type invariant, `NothingLost`, `OnePieceIsExact`, `LinksRewritten`, `FetchEnds` |
| `proxy_split` | violation | `BodySentOnce`: what came with the head is served twice |
| `config_steady` | pass | type invariant, `OpenChain`, `BackIsUnderWay`, `RoundTrip`, `MakesTrees`, `AcceptsTheGrammar`, `TokensAreWhole`, `ParseEnds` |
| `dispatch_steady` | pass | type invariant, `TablesAgree`, `StatusShowsDispatch`, `RightHandler`, `RequestAsSent`, `AttributesAreOwn`, `EndsOnlyWhere` |
| `text_steady` | pass | type invariant, `RowsAreEncoded`, `ViewShowsSent`, `EditShowsSent`, `SearchMissesNothing`, `EditKeepsRow` |

The violations are disagreements of the code with its own comments or tests;
`PROJECT.json` quotes the line for each.

**Bounds.** `vault_steady` has two ids, the second taken at first, and the empty id that
a cut form leaves; one new meme in each life of the server but any number of lives, one
open edit page and one leak before the descriptors are gone: enough for a reused id, a
stale page, a repeated `rand()` position and a handler that cannot open its files, in
every order, and for the two memes of which one disturbs the other. Gaps between ids
need a third id and are left to the theorem `FreshIds`. `vault_rollover` has ids 99998
to 100001 and no forms. `session_steady` has three connections and two descriptors, so a
connection can be kept waiting by a client that stopped; between them the requests have
a head in two pieces, a body after the head, a long answer, an upstream server and a
handler that throws, and two share a url so that a count reaches two. The violation runs
need one or two connections. `proxy_steady` has eleven answers, with a body of five
parts on two lines, one link to a line or two, or of none, with a true length, none, 0,
or one that is no number, without header lines, and with a status other than 200; each
is cut, closed or reset at every item. `config_steady` has every file of up to five
characters over all ten kinds that the lexer tells apart, which reaches every pair of
neighbours in each lexer state, and every file of up to ten over words, blanks,
semicolons and brackets: two nested blocks with a statement each, empty blocks, and one
bracket too many on either side. `dispatch_steady` has nine configurations (the deployed
one in short, two blocks with one url, an attribute's letters in other tokens, nested
handlers, and five that the parser accepts and a handler cannot use), every path with
and without a rest, and requests with headers, bodies of several lines, forms, forms cut
at every place that the code tells apart, and bad first lines. `text_steady` has every
text of up to three of the eleven atoms that the code treats each in its own way, two
texts that hold a placeholder, each under a plain name and under two that are
placeholders, and all search terms of up to two: an entity takes two atoms and the third
stands next to it.

**Fairness.** `MemeVault` states safety only. In `SessionServer`, the `io_service` runs
every callback whose socket is ready (weak fairness of `Accept` and of each connection's
`HandlerStep`), and clients in `Patient` send all of their request and read the answer.
A further write is fair only while the client makes room for it or has reset the
connection (`RoomToWrite`), as in `async_write`. `FairSpec` adds that every upstream
server answers, closes or fails, which the code does nothing to ensure; `HangSpec` does
not, and the two differ in `session_blocked`. In `ProxyFetch` the call keeps running and
the upstream server closes at some time, as `Connection: close` asks of it; it may do so
too early, or reset. `ParseEnds` assumes only that `Parse`, one sequential loop over a
finite file, keeps running. `ConnectionsEnd` is about connections that do not wait for
their client (`NoClientToWaitFor`), and it needs fewer clients that stop than
descriptors, because reads and writes have no timeout: the instance has one such client,
which may stop in its head or in its answer, and two descriptors.

Each property of the passing runs has a mutant in `PROJECT.json`: a plausible fault of a
mapped definition (marked *Fault* in the modules) that makes TLC report it.

## 4. Proofs

**Vault** (`MemeVaultProofs`). The inductive invariant joins `TypeOK`, `AnswerIsStored`
and `WellKept`: no two rows share an id, since `MEME_ID` is a primary key and `INSERT OR
REPLACE` is the only insertion, and every token starts with its row's id. Without the
first the page would not read *the* row of an id; the second is what
`verifyTokenAuthentication` asks. Hence `TypeCorrect`, `ResultPagesAreTrue` and
`TokensStayGone`, for every table that is well kept at first, all contents, and ids up
to six digits, the shortened ones of cut forms among them. `TokensStayGone` rests on the
position in the `rand()` sequence: a token of this life of the server that opens nothing
was drawn before every token still to come. `FreshIds`, `TokensKeepWorking`,
`PagesAreCurrent` and `Implementation` (every step of the vault is a step of `MemeStore`
or a stutter under `Memes(rows)`) have the hypothesis `SameLength`: adding one to an id
of `Id` gives none of more digits in `Id`; `vault_rollover` shows that it cannot be
dropped. They rest on `SameLengthOrder`: among ids of one length text order is number
order.

**Connections** (`SessionServerProofs`). `Inv` adds to the safety invariants what makes
them inductive: `Unread` (a session still reading has no end of headers in its buffer),
`WritesMade` (what each state says of the pieces written) and `Queued` (the backlog
holds waiting connections, each once; without it `Accept` could restart a session).
`OneConnection` reduces a step to the connection it touches, and `SessionMoves` the
steps that change no count; `AddEntry` and `RespondCounts` are about the list: adding
keeps one entry for each url and code and raises one count. Hence `TypeCorrect`,
`HeadsFirst`, `EveryAnswerCounted` and `ShortAnswers`, for any finite set of
connections, any requests and any number of descriptors. `TotalIsAnswered`
(`StatusTotal`: the counts of the status page add up to the answers given) comes from
`StatusCounts`: each entry counts the answered connections of its url and code
(`OneEntryCounts`), so counting connections is a sum over the entries (`CountingSums`,
`SumsCount`).

**Sessions implement the log** (`SessionServerProofs`). `AnswersAreLogged`: every step
of the sessions is a step of `AnswerLog` or a stutter, from the same `Inv`. `LineCounts`
turns `StatusCounts` into the value that the status page shows, so that the one step
that answers (`AnswerStep`) raises one line by one; every other step leaves `Answered`
as it is, which needs `Unread` and `HandlersSeeHeads` (`OtherStep`).

**Proxy** (`ProxyFetchProofs`). `HeadRead` (the loop starts with `res_body` equal to
what came with the head) makes `NothingLost` and `OnePieceIsExact` inductive; `ServeInv`
is the step that serves a body, used once for a body that came whole with its head and
once for the loop. `FilterRewrites` is about the filter alone: where a line end stands
between any two links of a body, each is the first of its line; `ReceivedLines` says
that what was received of such a page is such a body. Hence `TypeCorrect`,
`NothingDropped`, `ExactInOnePiece` and `AllLinksRewritten`, for every set of answers
whose stated lengths are true. `BodySentOnce` is what they cannot give: a body in two
pieces ends with what was received, and begins with a part of it once more; its links
are rewritten if the repeated part puts no two of them into one line.

**Configuration parser** (`ConfigParserProofs`). `Inv` joins `OpenChain`,
`BackIsUnderWay` and `TokensAreWhole` with `ValueOK`, what `*value` holds in each lexer
state. `BackIsUnderWay` is what makes `back` the last statement made (`BackIsLast`), so
that adding a token or a child changes no statement on the stack; `OpenChain` in turn
says what is on top when a block closes. Hence `ParserTypes`, `StackIsSound`,
`StatementIsSound` and `LexerIsSound`, for any characters and any length of the file.

**Grammar** (`ConfigParserProofs`). `GrammarIsAccepted`: Parse accepts the files whose
tokens are a text of the grammar, those that are one but for a last word that the end of
the file cuts off (`FileEnds`), and no other. The invariant says that the last token's
type is spelled by the last text given (`LastKnown`), that `bracket_count` is the
difference of the two counts (`Counted`) and that what was given begins a text
(`Begins`). `BeginsAppend` says when one more token does, `AskedIsGrammar` that this is
what Parse asks.

**Nothing is lost** (`ConfigParserProofs`). `NothingIsLost`: the tree of an accepted
file writes the tokens that Parse was given (`RoundTrip`). While Parse runs the tree
writes more than that, so the invariant `TreeInv` says what: the tokens given, then what
is `Owed`, the semicolon of the statement under way and the brackets of the open blocks
(`WrittenSoFar`). A token changes or adds the last statement, deep inside the text that
the recursion writes. `GrownText` says that the whole text then changes there only: the
blocks on the stack lead to that statement (`StackIsPath`), each of them the last in the
one below (`LastInside`), so nothing but closing brackets stands after it, and a block
that is not on the stack keeps its text (`OffPath`). `StatementWritten`, `EndWritten`
and `CloseWritten` add the token; at the end nothing is owed (`AllWritten`).

**A tree is made** (`ConfigParserProofs`). `TreesAreMade`: what Parse makes of an
accepted file is the tree of a file (`FileTree`), which is what `Dispatch` assumes of
each configuration: the theorems of the two modules meet there. That a block's
statements are not mixed with its neighbours' needs one more fact about the stack, true
while Parse runs (`OpenToTheEnd`): what was made since an open block was, stands in it
or further inside.

**No idle round** (`ConfigParserProofs`). `NoIdleRound`: each step of the lexer and of
the parser gets a character for good or comes closer to doing so (`Advances`; `Stage`
orders the rounds that leave the stream where it is), for files of any length. It is the
part of `ParseEnds` that needs no fairness; that a step can be taken while Parse runs is
left to TLC.

**Dispatcher** (`DispatchProofs`). `DispatchInv`: the tables are empty or what
`ParseString` makes of the configuration, the last answer is one they give, and the
process stopped only over what may stop it, what `parseRequestBody` reads past the end
of a cut form included. `DispatchTypes`, `TablesAgreeAlways`, `StatusPageIsTrue`,
`AttributesAlwaysOwn` and `EndsOnlyThere` follow with facts about the tables: inserting
keeps the first entry of a url, and inserting all of them again changes nothing
(`InsertedTwice`), which is why the static map stays true. `PlainValue`: the search for
an attribute in the text of a plain block finds the value of its own statement.
`RightHandlerServes` adds that the recursion of `ParseString` finds every handler
(`AllRegistered`), in the order of the file where handlers hold no blocks
(`RegisteredAscends`), so that the entry kept is the first of its url (`FirstOfUrl`).
`RequestsAreAsSent` reads a message back: `split` ends a piece at each separator
(`SplitLineEnd`, `SplitWord`), a header line comes apart at its first colon
(`PairOfLine`), and the empty line ends the head (`HeadSplit`). They hold for every
configuration, path, header and body that the assumptions of `Dispatch` admit.

**Texts of a meme** (`MemeTextProofs`). `TextInv`: the row is what the server makes of
the form sent last, and the pages show that row. Over it, all about texts of any length:
decoding inverts encoding (`DecodedEncoded`), one entity after the other as the code
replaces them (`HtmlDecodeEncoded`); a field the code can carry arrives as typed
(`FieldCarried`) and fills the page's placeholder (`CarriedShown`, `EditableShown`); a
part of a text stays a part of it when both are encoded (`EncodedWithin`), and LIKE
finds it there (`LikeLiteral`). Hence `TextTypes`, `RowsStayEncoded`, `ViewIsAsSent`,
`EditIsAsSent`, `EditLeavesRow` and `SearchFinds`.

**Induction.** The library's induction theorems have an operator for a parameter, which
none of the provers instantiates. `SequenceLemmas` states induction for *sets*
(`NatSetInduction`, `SeqSetInduction`, and `DescentHolds` for recursion towards higher
numbers): a proof defines the set of the values for which its claim holds. A function
defined by recursion is a `CHOOSE` to the prover, so that it exists is a lemma of its
own (`RecursionExists`, `DescentExists`). `FoldLemmas` does both for the folds of the
community modules; it has the folded operator for a constant, and a module takes an
instance for each operator it folds with.

**Only checked by TLC**: liveness under fairness (`ConnectionsEnd`, `FetchEnds`,
`ParseEnds`). Every other property of the passing runs is a theorem.

**Assumptions.** The theorems rest on the assumptions about constants alone, which TLC
evaluates on each run. The ones that say more than a type: `ConfigsAssumption` (a
configuration is the tree of a file, which `TreesAreMade` shows of the parser),
`OccursAssumption` (an attribute's letters stand in words, not in punctuation),
`SentAssumption` (what a client means by a request: no line ends inside a line, no blank
in the path, no colon in a header's name), `AnswersAssumption` (a length that an
upstream server states is true, or is no number), `IdAssumption` and `SeedAssumption`
(ids have up to six digits, and the table is well kept at first).

## 5. What the code does at the edges of these properties

Besides the violation runs, the modules show behaviour that a reader of the comments
would not expect and that the properties leave room for:

* An id is given again after a delete, so an edit page that is still open then edits
  another meme or brings the id back with the token `00001` (`src/meme_handler.cc:722`,
  `739`; `MemeStore!Revive`). After a restart the characters of tokens repeat
  (`src/meme_handler.cc:666`), so a token of a deleted meme may then open the meme that
  got its id.
* An edit form cut in its last field leaves its row under what is left of the id. Under
  the empty id it cannot be deleted, as `DELETE ... WHERE MEME_ID =` has no value to
  compare with, and if it is the only row every new meme throws in `stoi`
  (`src/meme_handler.cc:729`; `PostNewThrows`) and ends the server.
* A form cut inside a key is read past the end of a vector (`src/meme_handler.cc:274`,
  `284`): `EndsOnlyWhere`.
* When the database does not open, a post answers with the page of meme `10000`, its
  access token included (`src/meme_handler.cc:693`; `RefusedWrite`).
* The answer to a delete does not tell whether the row is gone: a failed `DELETE` is
  logged, and `MemeDelete` returns no flag (`src/meme_handler.cc:225`, `249`).
* A browser that posts a new meme again because the answer was lost adds a second one.
* Once the descriptors are leaked every request of the site answers 404, until a restart
  (`Unavailable`).
* A write that SQLite refuses is answered with 200 all the same
  (`src/meme_handler.cc:772`; `AnswerIsStored` is about result pages, which read the
  row).
* A word that runs into the end of the file is dropped (`src/config_parser.cc:269`): a
  file `a;x` without a line end is accepted without its `x`, against "Returns true iff
  the input config file is valid" (`include/config_parser.h:42`). `AcceptsTheGrammar`
  names this one disagreement and shows that there is no other.
* A comment may stand anywhere, also between a word and its semicolon
  (`src/config_parser.cc:289`), and a carriage return is a character of a word but not
  of the blanks after it.
* A path that is just the prefix of a static or meme handler throws in `substr`
  (`src/static_handler.cc:30`), and the exception ends the server: `EndsOnlyWhere`.
* A request that does not parse asks for `/bad` and gets 404 where no handler is
  configured for it (`src/dispatcher.cc:70`).
* A body of more than one line loses all but its last (`src/request.cc:116`);
  `RequestAsSent` is about bodies of one line.
* A plus sign that was typed becomes a space (`src/meme_handler.cc:298`), a typed `%2F`
  a slash, and the name of a later placeholder in a text is filled in like the page's
  own.
* The value of a field in the edit form ends at a text's double quote, and entities that
  a text spells are decoded there: sending such a form back changes the meme.
* A search for `amp;` finds every text with an ampersand (`src/meme_handler.cc:879`),
  and `%` is SQL's wildcard.
* A second link of a line is not rewritten (`src/proxy_handler.cc:76`), and a body that
  comes in two pieces is doubled in part (`proxy_split`), which may join two links in
  one line. A body that was broken off is served like a whole one
  (`src/proxy_handler.cc:174`).

## 6. Plan

Done, in this order: the vault with `MemeStore`; the sessions with the status list; the
proxy; the configuration parser; request parser and dispatcher; the texts of a meme;
`AnswerLog`; the proofs of section 4, which reach every safety property of the passing
runs. Left:

1. `Site`: sessions whose handler is the vault, so that a split form, a lost answer and
   a restart are steps of one system; today the vault takes a cut form and a lost answer
   as inputs of its own.
2. The order in which the list page shows memes.
3. Texts that no browser sends: a percent sign without two digits
   (`src/url_parser.cc:14`).

## 7. Not modelled

The text of pages and logs, MIME types, file contents; the SQL text; SQLite's own
locking (one process, one thread, so its lock never waits); the mutex around
`AddToDatabase`, which one thread never contends for; TCP below the order of bytes; the
signal set, which is never armed; `response.cc`, which puts a string together;
`NginxConfig::GetRoot`, whose result no handler uses; third-party scripts, the build and
the deployment files.
