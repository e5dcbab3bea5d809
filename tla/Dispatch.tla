------------------------------ MODULE Dispatch ------------------------------
(***************************************************************************)
(* From the configuration to a handler: the start of main, the tables that *)
(* NginxConfig::ParseString fills for each Dispatcher, the look-up of      *)
(* attributes in the text of a block, the request as it is parsed,         *)
(* Dispatcher::generateResponse, HandlerManager::createByName and the      *)
(* handlers' create and HandleRequest.                                     *)
(*                                                                         *)
(* A token of a configuration is a string that is compared as a whole.     *)
(* That ParseString, GetAttribute and GetPort look for an attribute's name *)
(* anywhere in the text is kept by Occurs: whether a token ends with the   *)
(* name, has it somewhere before its end, or not at all.                   *)
(***************************************************************************)
EXTENDS ConfigTree, RequestParser, TLC

CONSTANTS
    Configs,    \* the configurations a server is started with, as Parse accepts them
    Requests,   \* the requests that sessions read
    Sent,       \* those of them that clients mean as method, path, headers and body
    Paths,      \* the paths of requests: the part up to the second slash, the rest
    Occurs,     \* [attribute names -> [tokens -> {"end", "inside"}]], partial
    Ports,      \* the tokens that are numbers, with their values
    Files,      \* the files under each location, as sequences of the parts between dots
    Types       \* the extensions StaticHandler knows

Statement == [block: Nat, tokens: Seq(STRING), child: BOOLEAN]
NoRest == <<"none">>        \* the path ends with its first part

\* The tokens of which the parser makes no statement's.
Punctuation == {"{", "}", ";"}

\* The tree of a file, which is what Parse gives (ConfigParser!MakesTrees).
ASSUME ConfigsAssumption == \A c \in Configs : c \in Seq(Statement) /\ FileTree(c, Punctuation)

\* The attributes that are looked for; their names are words.
ASSUME OccursAssumption ==
    /\ {"url", "listen", "location", "save", "host", "path", "port"} \subseteq DOMAIN Occurs
    /\ \A attr \in DOMAIN Occurs : DOMAIN Occurs[attr] \cap Punctuation = {}

ASSUME RequestsAssumption == \A raw \in Requests : request_handler(raw).uri_path \in DOMAIN Paths

\* What a client means: a path of one word, headers whose names hold no colon and
\* space, and no line end in a header or in a line of the body.
ASSUME SentAssumption ==
    \A q \in Sent :
        /\ q.method \in {"GET", "POST"} /\ q.uri \notin {" ", "CR", "LF"}
        /\ q.headers \in Seq(Seq(STRING) \X Seq(STRING)) /\ q.body \in Seq(Seq(STRING))
        /\ \A i \in DOMAIN q.headers :
             /\ Range(q.headers[i][1]) \cap {": ", "CR", "LF"} = {}
             /\ Range(q.headers[i][2]) \cap {"CR", "LF"} = {}
        /\ \A i \in DOMAIN q.body : Range(q.body[i]) \cap {"CR", "LF"} = {}

VARIABLES
    config,             \* the configuration main parsed
    phase,              \* what became of the server
    url_handlers_map_,  \* StatusObject's static map
    handlerTable_,      \* url -> handler name, of the last Dispatcher
    configTable_,       \* url -> block, of the last Dispatcher
    answer              \* the last request, as read and as parsed, the block that
                        \* served it, the values of its attributes, the code

vars == <<config, phase, url_handlers_map_, handlerTable_, configTable_, answer>>

Junk == "junk"              \* text that is not what anyone wrote as a value
NoAnswer == [raw |-> <<>>, request |-> request_handler(<<>>),
             block |-> 0, values |-> <<>>, code |-> 0]

-----------------------------------------------------------------------------
(* The look-ups in the text of a block.                                    *)

\* The text of every block, as ToString writes it.
Texts == [c \in Configs |-> [b \in 0 .. Len(c) |-> BlockTokens(c, b, "{", "}", ";")]]

Text(c, b) == Texts[c][b]

Has(w, attr) == w \in DOMAIN Occurs[attr]
Hits(text, attr) == {k \in DOMAIN text : Has(text[k], attr)}

\* Fault: the value is looked for before the text's last semicolon.
LastValue(text, attr) == text[Max({k \in DOMAIN text : text[k] = ";"}) - 1]

\* What stands from the first hit's end to the next semicolon.  One token after
\* a hit that ends its token is the value; anything else is text that was not
\* meant as one.
ValueAt(text, attr) ==
    LET k == Min(Hits(text, attr))
    IN  IF /\ Occurs[attr][text[k]] = "end" /\ k + 2 <= Len(text)
           /\ text[k + 1] \notin Punctuation /\ text[k + 2] = ";"
        THEN text[k + 1] ELSE Junk

PeekURL(c, b) ==
    LET text == Text(c, b) IN IF Hits(text, "url") = {} THEN "" ELSE ValueAt(text, "url")

\* GetAttribute falls off its end when there is no hit: if the process goes
\* on, with text that no one wrote.
Lost(c, b, attr) == Hits(Text(c, b), attr) = {}
GetAttribute(c, b, attr) == IF Lost(c, b, attr) THEN Junk ELSE ValueAt(Text(c, b), attr)

\* atoi takes the number the text starts with, and 0 if there is none.
GetPort(c) ==
    LET text == Text(c, 0)
        k == Min(Hits(text, "listen"))
    IN  IF Hits(text, "listen") = {} \/ Occurs["listen"][text[k]] # "end" \/ k = Len(text)
        THEN 0
        ELSE IF text[k + 1] \in DOMAIN Ports THEN Ports[text[k + 1]] ELSE 0

-----------------------------------------------------------------------------
(* ParseString and the handlers.                                           *)

IsHandler(s) == s.tokens[1] = "handler"
Handlers(c) == {i \in DOMAIN c : IsHandler(c[i])}
Registered(c) == InnerFirst(c, 0, Handlers(c))

\* A handler statement without a block or a name is dereferenced all the same.
Broken(c) == \E i \in DOMAIN c : IsHandler(c[i]) /\ (~c[i].child \/ Len(c[i].tokens) < 2)

\* Fault: a key that is there gets the new value.
Overwrite(table, key, val) == (key :> val) @@ table

\* std::map::insert leaves a key that is there alone.
insert(table, key, val) ==
    [k \in DOMAIN table \union {key} |-> IF k \in DOMAIN table THEN table[k] ELSE val]

EmptyTable == <<>>

\* What ParseString inserts, in its order: the url, the handler's name, its block.
\* It looks the url up for each table again, in a text that does not change.
Entries ==
    [c \in {k \in Configs : ~Broken(k)} |->
        [i \in DOMAIN Registered(c) |->
            LET b == Registered(c)[i] IN [url |-> PeekURL(c, b), name |-> c[b].tokens[2], block |-> b]]]

\* The table of names, over what was in it before, and the table of blocks.
NameTable(c, before) == FoldLeft(LAMBDA t, e : insert(t, e.url, e.name), before, Entries[c])

\* Fault: the table of blocks keeps the last block of a url.
LastBlocks(c) == FoldLeft(LAMBDA t, e : (e.url :> e.block) @@ t, EmptyTable, Entries[c])

BlockTable(c) == FoldLeft(LAMBDA t, e : insert(t, e.url, e.block), EmptyTable, Entries[c])

\* HandlerManager::createByName: the names it knows, and the attributes the
\* create function of each reads.
Reads ==
    [echo |-> {"url"}, static |-> {"url", "location"}, error |-> {}, status |-> {"url"},
     proxy |-> {"url", "host", "path", "port"}, meme |-> {"location", "save", "url"},
     health |-> {"url"}, bad |-> {}]

create(c, b, name) == [attr \in Reads[name] |-> GetAttribute(c, b, attr)]

\* Fault: a missing file is an error of the server.
MissingIsError(location, rest) ==
    IF location \in DOMAIN Files /\ rest \in Files[location] THEN 200 ELSE 500

\* StaticHandler::HandleRequest: the extension is what follows the first dot.
StaticCode(location, rest) ==
    IF /\ location \in DOMAIN Files /\ rest \in Files[location]
       /\ Len(rest) = 2 /\ rest[2] \in Types
    THEN 200 ELSE 404

\* The pages of the meme handler that do not look at the body, and those that
\* look for an access token in it.  One rest stands for all that start like it;
\* any other rest is a form when it is posted.
BodyUnread == {<<"create">>, <<"list">>, <<"list?q=">>, <<"view">>}
TokenPages == {<<"edit?id=">>, <<"delete?id=">>}
IsPost(rest, request) ==
    request.method = <<"POST">> /\ rest \notin BodyUnread \union TokenPages \union {NoRest}

\* Fault: an empty value is no part of its item.
EmptyIsMissing(body) ==
    LET items == split(body, {"&"}) IN
    /\ Len(items) >= 3
    /\ \E i \in DOMAIN items : "=" \notin Range(items[i]) \/ Last(items[i]) = "="

\* MemeHandler::parseRequestBody takes the second part of an item before it
\* counts the parts: of the first item alone if there are less than three, and
\* then only if the body has "access" in it; else up to an item of more than two.
ReadsPastEnd(body) ==
    LET items == split(body, {"&"}) IN
    \E i \in DOMAIN items :
        /\ "=" \notin Range(items[i])
        /\ IF Len(items) < 3
           THEN i = 1 /\ "access" \in Range(body)
           ELSE \A j \in 1 .. i - 1 : Len(split(items[j], {"="})) = 2

\* What is read past the end is undefined: the process may end.
MemeCodes(rest, request) ==
    IF rest \in BodyUnread THEN {200, 404}
    ELSE IF rest \in TokenPages \/ IsPost(rest, request)
    THEN {200, 404} \union (IF ReadsPastEnd(request.body) THEN {0} ELSE {})
    ELSE {404}

\* The codes HandleRequest may answer a request with, 0 when the process ends
\* instead, with an exception or over what it read.  The two handlers that cut
\* the prefix off cut one character more than a path has that ends with it.
Codes(name, values, rest, request) ==
    CASE name \in {"echo", "status", "health"} -> {200}
      [] name = "error"  -> {404}
      [] name = "bad"    -> {400}
      [] name = "static" -> {IF rest = NoRest THEN 0
                             ELSE StaticCode(values["location"], rest)}
      [] name = "meme"   -> IF rest = NoRest THEN {0} ELSE MemeCodes(rest, request)
      [] name = "proxy"  -> {302, 0}

Parsed == [raw \in Requests |-> request_handler(raw)]
Path(raw) == Paths[Parsed[raw].uri_path]

-----------------------------------------------------------------------------
Init ==
    /\ config \in Configs /\ phase = "starting"
    /\ url_handlers_map_ = EmptyTable /\ handlerTable_ = EmptyTable /\ configTable_ = EmptyTable
    /\ answer = NoAnswer

\* main, after Parse accepted the file.  The acceptor that server's constructor
\* makes throws when it cannot be bound to the port, and main ends.
Start ==
    /\ phase = "starting"
    /\ phase' \in IF GetPort(config) = 0 THEN {"no port"} ELSE {"serving", "not bound"}
    /\ UNCHANGED <<config, url_handlers_map_, handlerTable_, configTable_, answer>>

\* Fault: StatusObject's map is assigned to instead of inserted into.
StatusAssigned ==
    /\ handlerTable_' = NameTable(config, EmptyTable)
    /\ configTable_' = BlockTable(config)
    /\ url_handlers_map_' =
         FoldLeft(LAMBDA t, e : (e.url :> e.name) @@ t, url_handlers_map_, Entries[config])

\* The constructor of a Dispatcher, which every request gets its own of.
Dispatcher ==
    /\ handlerTable_' = NameTable(config, EmptyTable)
    /\ configTable_' = BlockTable(config)
    /\ url_handlers_map_' = NameTable(config, url_handlers_map_)

Crash ==
    /\ phase' = "crashed"
    /\ UNCHANGED <<config, answer>>

\* ParseString dereferences the null child block, or a second token that is not there.
ServeBroken ==
    /\ phase = "serving" /\ Broken(config)
    /\ Crash
    /\ UNCHANGED <<url_handlers_map_, handlerTable_, configTable_>>

\* The path's first part is no key: an error handler with an empty configuration.
ServeUnknown(r) ==
    /\ phase = "serving" /\ ~Broken(config)
    /\ Dispatcher
    /\ Path(r).uri \notin DOMAIN handlerTable_'
    /\ answer' = [raw |-> r, request |-> Parsed[r], block |-> 0, values |-> <<>>, code |-> 404]
    /\ UNCHANGED <<config, phase>>

\* The key has a handler: it is created from its block and called.  An
\* exception leaves io_service.run() and ends main.
ServeKnown(r) ==
    /\ phase = "serving" /\ ~Broken(config)
    /\ Dispatcher
    /\ Path(r).uri \in DOMAIN handlerTable_'
    /\ LET b == configTable_'[Path(r).uri]
           name == handlerTable_'[Path(r).uri]
       IN  /\ name \in DOMAIN Reads
           /\ \E code \in Codes(name, create(config, b, name), Path(r).rest, Parsed[r]) :
                /\ answer' = [raw |-> r, request |-> Parsed[r], block |-> b,
                              values |-> create(config, b, name), code |-> code]
                /\ phase' = IF code = 0 THEN "ended" ELSE phase
    /\ UNCHANGED config

\* createByName gives a null pointer for a name it does not know, and an
\* attribute that is nowhere in the block is undefined behaviour.
ServeBadly(r) ==
    /\ phase = "serving" /\ ~Broken(config)
    /\ Dispatcher
    /\ Path(r).uri \in DOMAIN handlerTable_'
    /\ LET b == configTable_'[Path(r).uri]
           name == handlerTable_'[Path(r).uri]
       IN  \/ name \notin DOMAIN Reads
           \/ name \in DOMAIN Reads /\ \E attr \in Reads[name] : Lost(config, b, attr)
    /\ Crash

\* A page of the meme handler that reads rows, or counts on the last id: a
\* failed SELECT leaves it a null pointer to copy, an id that is no number an
\* exception (MemeVault!Restart, MemeVault!PostNewThrows).
DatabaseFails(r) ==
    /\ phase = "serving" /\ ~Broken(config)
    /\ Dispatcher
    /\ Path(r).uri \in DOMAIN handlerTable_' /\ handlerTable_'[Path(r).uri] = "meme"
    /\ LET rest == Path(r).rest
       IN  \/ rest \in TokenPages \union {<<"list?q=">>, <<"view">>}
           \/ IsPost(rest, Parsed[r])
    /\ phase' = "no data"
    /\ UNCHANGED <<config, answer>>

Next ==
    \/ Start \/ ServeBroken
    \/ \E r \in Requests :
         ServeUnknown(r) \/ ServeKnown(r) \/ ServeBadly(r) \/ DatabaseFails(r)

Spec == Init /\ [][Next]_vars

-----------------------------------------------------------------------------
(* What a configuration says, read as statements.                          *)

OwnStatements(c, b, attr) == {i \in DOMAIN c : c[i].block = b /\ c[i].tokens[1] = attr}

\* The block has one statement for the attribute, of two tokens, no block of
\* its own, and no other token that holds the attribute's name.
Plain(c, b, attr) ==
    /\ \A i \in DOMAIN c : c[i].block = b => ~c[i].child
    /\ \E i \in OwnStatements(c, b, attr) :
         /\ Len(c[i].tokens) = 2
         /\ Has(attr, attr) /\ Occurs[attr][attr] = "end"
         /\ \A j \in DOMAIN c : c[j].block = b =>
              \A k \in DOMAIN c[j].tokens : Has(c[j].tokens[k], attr) => j = i /\ k = 1

Own(c, b, attr) == c[Min(OwnStatements(c, b, attr))].tokens[2]

WellFormed(c) ==
    \A i \in Handlers(c) :
        /\ c[i].child /\ Len(c[i].tokens) = 2
        /\ c[i].tokens[2] \in {"echo", "static", "error", "status", "proxy", "meme", "health", "bad"}
        /\ \A attr \in {"url"} \union
             (CASE c[i].tokens[2] = "static" -> {"location"}
                [] c[i].tokens[2] = "meme"   -> {"location", "save"}
                [] c[i].tokens[2] = "proxy"  -> {"host", "path", "port"}
                [] OTHER -> {}) : Plain(c, i, attr)

-----------------------------------------------------------------------------
(* What a client sends.                                                    *)

Line(atoms) == atoms \o CRLF

\* The lines of a body are set apart by CRLF; the last has none.
Message(q) ==
    Line(<<q.method, " ", q.uri, " ", "HTTP/1.1">>)
      \o FlattenSeq([i \in DOMAIN q.headers |-> Line(q.headers[i][1] \o <<": ">> \o q.headers[i][2])])
      \o CRLF
      \o FlattenSeq([i \in DOMAIN q.body |-> IF i = 1 THEN q.body[i] ELSE CRLF \o q.body[i]])

-----------------------------------------------------------------------------
(* Properties                                                              *)

TypeOK ==
    /\ config \in Configs
    /\ phase \in {"starting", "no port", "not bound", "serving", "ended", "crashed", "no data"}
    /\ LET urls == {PeekURL(config, b) : b \in Handlers(config)}
       IN  DOMAIN handlerTable_ \subseteq urls /\ DOMAIN configTable_ \subseteq urls
    /\ \A u \in DOMAIN configTable_ : configTable_[u] \in DOMAIN config
    /\ answer.code \in {0, 200, 302, 400, 404}
    /\ answer.raw \in Requests \union {NoAnswer.raw}

\* The two tables of a Dispatcher are filled by two calls of insert each, with
\* the text of the url looked up twice: they must name the same statement for
\* every url, or a handler would run with another one's block.
TablesAgree ==
    /\ DOMAIN handlerTable_ = DOMAIN configTable_
    /\ \A u \in DOMAIN configTable_ :
         /\ configTable_[u] \in Handlers(config)
         /\ handlerTable_[u] = config[configTable_[u]].tokens[2]

\* The status page lists StatusObject's map, which lives as long as the process
\* and is inserted into by every Dispatcher anew: after any number of requests
\* it lists the handlers that requests are sent to.
StatusShowsDispatch == url_handlers_map_ = handlerTable_

\* In a configuration whose handler blocks are well formed, what a client sent
\* is served by the first block whose own url statement names the first part of
\* its path, and by the error handler only if there is none, although the tables
\* are keyed by what a search for the letters "url" finds in the block's text.
RightHandler ==
    \A q \in Sent :
        answer.raw = Message(q) /\ WellFormed(config) =>
            LET named == {i \in Handlers(config) : Own(config, i, "url") = Paths[<<q.uri>>].uri}
            IN  answer.block = IF named = {} THEN 0 ELSE Min(named)

\* The handler is given the method, path, headers and body that the client sent,
\* in their order, although lines are told apart by any run of carriage returns
\* and line feeds and the body is only the last of them: a body of more lines
\* loses all but its last.
RequestAsSent ==
    \A q \in Sent :
        answer.raw = Message(q) /\ Len(q.body) <= 1 =>
            answer.request =
              [method |-> <<q.method>>, uri_path |-> <<q.uri>>, http_version |-> <<"HTTP/1.1">>,
               header_fields |-> q.headers, body |-> FlattenSeq(q.body)]

\* In such a block every attribute a handler is created with is what the
\* block's own statement says.
AttributesAreOwn ==
    WellFormed(config) =>
        \A attr \in DOMAIN answer.values :
            answer.values[attr] = Own(config, answer.block, attr)

\* The body of a form, which browsers send as items with an "=".
IsForm(q) ==
    /\ Len(q.body) <= 1
    /\ \A item \in Range(split(FlattenSeq(q.body), {"&"})) : "=" \in Range(item)

\* But for calls of the database that fail, the process crashes only over a
\* configuration that is not well formed, and a request ends it only if it is for
\* a proxy, for a path that is just the prefix of a static or meme handler, or for
\* the meme handler with a body that is not a whole form: the end of a body that
\* came after its headers is cut off (SessionServer!HandlersSeeBodies), and an item
\* of a form cut before its "=" is read past its end.
EndsOnlyWhere ==
    /\ phase = "crashed" => ~WellFormed(config)
    /\ phase = "ended" =>
         LET name == config[answer.block].tokens[2]
         IN  \/ name = "proxy"
             \/ name \in {"static", "meme"} /\ Path(answer.raw).rest = NoRest
             \/ /\ name = "meme"
                /\ \A q \in Sent : answer.raw = Message(q) => ~IsForm(q)
=============================================================================
