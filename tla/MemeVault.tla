------------------------------ MODULE MemeVault ------------------------------
(***************************************************************************)
(* The meme application: meme_handler.cc, the table MEME_HISTORY it keeps  *)
(* in meme_vault.db and the pages browsers hold between requests.          *)
(*                                                                         *)
(* The server runs every request to its end on the one thread of the       *)
(* io_service, so a request is one action.  Between two requests of a      *)
(* browser anything may happen: other requests, a lost answer, a restart   *)
(* of the server, which keeps the table and forgets everything else.       *)
(***************************************************************************)
EXTENDS MemeIds, FiniteSets

CONSTANTS
    Contents,     \* what a form can carry: name, image and captions
    Blank,        \* the content of a form with fewer than three fields left
    Partial,      \* the content of a form of which the last fields are missing
    Id,           \* bound: the ids that memes may get
    MaxDraws,     \* bound: calls of rand() in one life of the server
    MaxForms,     \* bound: edit pages open in browsers
    Descriptors,  \* file descriptors left for database connections
    SeedRows      \* the table an earlier life of the server left

Content == Contents \cup {Blank, Partial}

\* gen_access_token: a token is the id, "-", and characters taken from the
\* rand() sequence, which starts again with each process (srand is never
\* called).  draw is the position in that sequence.
Token == [id : Id \ {NoId}, draw : 0 .. MaxDraws]

\* "00001", the value atoken_ keeps when an edit finds no row to read.
NoToken == [id |-> NoId, draw |-> 0]

\* The token that authorises every request.
Master == [id |-> NoId, draw |-> 1]

\* One row of MEME_HISTORY.
Row == [id : Id, content : Content, token : Token \cup {NoToken}]

\* A result page whose row was not found shows empty fields.
Empty == [id |-> NoId, draw |-> 2]

Reply == [op : {"none", "create", "edit", "form", "delete", "view"},
          id : Id \cup {NoId}, status : {200, 404},
          content : Content, token : Token \cup {NoToken, Empty}]

\* No two rows under one id, and every token given out starts with the id
\* of its row.
WellKept(table) ==
    /\ \A r, s \in table : r.id = s.id => r = s
    /\ \A r \in table : r.token # NoToken => r.token.id = r.id

ASSUME IdAssumption == Id \subseteq 0 .. LastId /\ FirstId \in Id
ASSUME BoundAssumption ==
    MaxDraws \in Nat /\ MaxForms \in Nat /\ Descriptors \in Nat
ASSUME SeedAssumption == SeedRows \subseteq Row /\ WellKept(SeedRows)

VARIABLES
    rows,      \* the rows of MEME_HISTORY
    exists,    \* whether the table has been created
    draws,     \* rand() calls since the server started
    leaked,    \* database connections that were never closed
    shown,     \* the access tokens that result pages have shown
    forms,     \* the edit pages open in browsers
    reply      \* the last answer: what it was for and what it showed

vars == <<rows, exists, draws, leaked, shown, forms, reply>>

\* An open edit page: the id it will post, and the token of the meme it was
\* filled from (Empty when there was none).
Form == [id : Id, token : Token \cup {NoToken, Empty}]

NoReply == [op |-> "none", id |-> NoId, status |-> 200,
            content |-> Blank, token |-> Empty]

TypeOK ==
    /\ rows \subseteq Row
    /\ exists \in BOOLEAN
    /\ draws \in 0 .. MaxDraws
    /\ leaked \in 0 .. Descriptors
    /\ shown \subseteq Token
    /\ forms \subseteq Form
    /\ reply \in Reply

Init ==
    /\ rows = SeedRows
    /\ exists = (SeedRows # {})
    /\ draws = 0
    /\ leaked = 0
    /\ shown = {r.token : r \in SeedRows} \cap Token
    /\ forms = {}
    /\ reply = NoReply

-----------------------------------------------------------------------------
\* The database calls of the handler.

\* Fault: the handler does not notice that it cannot open the database.
AlwaysOpens == TRUE

\* sqlite3_open, and the ifstream of a page's template, need a descriptor.
CanOpen == leaked < Descriptors

Ids(table) == {r.id : r \in table}

\* GetMemeFromDatabase, and the SELECT of the pages: the row of an id.
GetMemeFromDatabase(table, id) == CHOOSE r \in table : r.id = id

\* What a page shows for an id: empty fields when there is no row.
TokenIn(table, id) ==
    IF id \in Ids(table) THEN GetMemeFromDatabase(table, id).token ELSE Empty
ContentIn(table, id) ==
    IF id \in Ids(table) THEN GetMemeFromDatabase(table, id).content ELSE Blank

\* Faults for the properties to catch: ids from the number of rows, tokens
\* that always start at one place of the sequence, an edit that forgets the
\* token, an edit that makes a new one.
CountedId == FirstId + Cardinality(rows)
SeededToken(id) == [id |-> id, draw |-> 0]
ForgottenToken(id) == NoToken
RenewedToken(id) == [id |-> id, draw |-> draws]

\* The id AddToDatabase gives to a new meme: SELECT MAX(MEME_ID), plus one.
NextId == IF rows = {} THEN FirstId ELSE TextMax(Ids(rows)) + 1

\* The maximum is the empty text, of which stoi throws.
NoNextId == rows # {} /\ TextMax(Ids(rows)) = NoId

\* The token AddToDatabase gives to a new meme.
gen_access_token(id) == [id |-> id, draw |-> draws]

\* The token AddToDatabase stores with an edited meme: the one of the row
\* it replaces.
EditToken(id) == IF id \in Ids(rows) THEN TokenIn(rows, id) ELSE NoToken

\* INSERT OR REPLACE: the rows with row r in the place of any row of its id.
InsertOrReplace(r) == {s \in rows : s.id # r.id} \cup {r}

\* Fault: a DELETE without its condition.
DeletedAll(id) == {}

\* DELETE FROM: without an id the statement has no value to compare with.
Deleted(id) == IF id = NoId THEN rows ELSE {r \in rows : r.id # id}

-----------------------------------------------------------------------------
\* The pages the handler answers with.  Of a page that is no result page only
\* its kind is kept.

NotFound(op) ==
    [op |-> op, id |-> NoId, status |-> 404, content |-> Blank, token |-> Empty]

Page(op) ==
    [op |-> op, id |-> NoId, status |-> 200, content |-> Blank, token |-> Empty]

ResultPage(op, id, content, token) ==
    [op |-> op, id |-> id, status |-> 200, content |-> content, token |-> token]

\* An answer may be lost on its way: the browser then learns no token.
ShowToken(token) == shown' \in {shown, shown \cup ({token} \cap Token)}

\* The page after a form was posted.  A row that is not there leaves its
\* fields empty, and the status is 200 all the same.
MemeResult(op, table, id) ==
    /\ reply' = ResultPage(op, id, ContentIn(table, id), TokenIn(table, id))
    /\ ShowToken(TokenIn(table, id))

\* A view of an id that has no row returns before it finalizes its statement
\* and closes its connection.  With no table yet, the query cannot be prepared
\* and the page shows empty fields.
MemeView(op, id) ==
    IF exists /\ id \notin Ids(rows)
    THEN reply' = NotFound(op) /\ leaked' = leaked + 1
    ELSE reply' = Page(op) /\ UNCHANGED leaked

\* The token of a request counts when some row has it and it starts with the
\* id of that row.
verifyTokenAuthentication(token) ==
    \/ token = Master
    \/ /\ token # NoToken
       /\ \E r \in rows : r.token = token /\ r.id = token.id

-----------------------------------------------------------------------------
\* The requests.

\* Every branch of HandleRequest answers 404 when its files cannot be opened.
\* A post comes here after AddToDatabase has gone on with a handle that it
\* closed: either its calls are refused, or the process ends (Restart).
Unavailable(op) ==
    /\ ~CanOpen
    /\ reply' = NotFound(op)
    /\ UNCHANGED <<rows, exists, draws, leaked, shown, forms>>

\* Fault: the page is made from the form, not from the table.
ResultFromForm(op, r) ==
    /\ rows' \in {InsertOrReplace(r), rows}
    /\ exists' = TRUE
    /\ reply' = ResultPage(op, r.id, r.content, r.token)
    /\ ShowToken(r.token)

\* AddToDatabase and the page that follows it.  The result of the step that
\* runs INSERT OR REPLACE is not looked at: the row may not be written.
AddToDatabase(op, r) ==
    \E table \in {InsertOrReplace(r), rows} :
        /\ rows' = table
        /\ exists' = TRUE
        /\ MemeResult(op, table, r.id)

\* AddToDatabase when the database cannot be opened, or the table cannot be
\* created, and the page that follows it.  The handle is closed, and the code
\* goes on with it and closes it again: undefined, so the process ends (Restart)
\* or every call is refused.  Then no id is read and no token made, and the
\* page shows what a later opening finds under id.
RefusedWrite(op, id) ==
    /\ MemeResult(op, rows, id)
    /\ UNCHANGED <<rows, exists, draws>>

\* A form for a new meme.  The end of its body may have come after its headers
\* did: a cut before the third field leaves a Blank form, a later one a Partial
\* one.  An edit form cut before its field posttype is one of these.  A cut
\* inside a key reads past the end of key_value: the process ends (Restart), or
\* the fields before it are taken.
PostNew(content) ==
    LET id == NextId IN
    /\ CanOpen
    /\ \/ /\ ~NoNextId
          /\ id \in Id
          /\ draws' = draws + 2 * Digits(id)
          /\ draws' <= MaxDraws
          /\ AddToDatabase("create",
                 [id |-> id, content |-> content, token |-> gen_access_token(id)])
       \/ RefusedWrite("create", FirstId)
    /\ UNCHANGED <<leaked, forms>>

\* What an open edit page may post as an edit.  All of the content stands
\* before the id: of a body cut in its last field, or before it, the id is what
\* is left of it.  A cut inside the key of that field reads past the end of
\* key_value, as in PostNew, before the content is encoded.
PostedEdits(form) ==
    [id : {form.id} \cup (CutIds(form.id) \cap Id), content : Contents]
        \cup [id : {NoId} \cap Id, content : {Partial}]

\* An edit form, posted from a page that may have been open for long.
PostEdit(id, content) ==
    /\ CanOpen
    /\ \/ /\ AddToDatabase("edit",
                 [id |-> id, content |-> content, token |-> EditToken(id)])
          /\ UNCHANGED draws
       \/ RefusedWrite("edit", id)
    /\ UNCHANGED <<leaked, forms>>

\* edit?id=: the form, filled from the row (with empty fields if there is
\* none), or the view page when the token does not count.
RequestEdit(id, authorised) ==
    /\ CanOpen
    /\ IF authorised
       THEN /\ reply' = Page("form")
            /\ forms' \in {forms, forms \cup {[id |-> id, token |-> TokenIn(rows, id)]}}
            /\ Cardinality(forms') <= MaxForms
            /\ UNCHANGED leaked
       ELSE MemeView("view", id) /\ UNCHANGED forms
    /\ UNCHANGED <<rows, exists, draws, shown>>

\* delete?id=: a DELETE that fails is only logged.  MemeDelete reaches its end
\* without a return, and the flag its caller reads may have any value.
RequestDelete(id, authorised) ==
    /\ CanOpen
    /\ IF authorised
       THEN /\ rows' \in {Deleted(id), rows}
            /\ reply' \in {NotFound("delete"), Page("delete")}
            /\ UNCHANGED leaked
       ELSE MemeView("view", id) /\ UNCHANGED rows
    /\ UNCHANGED <<exists, draws, shown, forms>>

RequestView(id) ==
    /\ CanOpen
    /\ MemeView("view", id)
    /\ UNCHANGED <<rows, exists, draws, shown, forms>>

\* The process ends, by itself or killed, and is started again: the table
\* stays, browsers keep what they have.  A process that ends during a request
\* took the request's step before, its answer lost, or did not take it: so does
\* one in which a SELECT fails, whose missing column is copied all the same.
Restart ==
    /\ draws' = 0
    /\ leaked' = 0
    /\ reply' = NoReply
    /\ UNCHANGED <<rows, exists, shown, forms>>

\* A form for a new meme while the empty text is the maximum: the exception of
\* stoi leaves main.
PostNewThrows ==
    /\ CanOpen
    /\ NoNextId
    /\ Restart

\* The tokens a browser may send: those it was shown, a wrong one, the master.
KnownTokens == shown \cup {NoToken, Master}

\* What verifyTokenAuthentication may make of the token of a request.  A token
\* opens the pages of every meme: it is not compared with the page's id.
Authorised == {verifyTokenAuthentication(t) : t \in KnownTokens}

\* The ids a browser may send: those of the list, of result pages and edit
\* pages it still has, and 10000, which create.html carries.
KnownIds ==
    Ids(rows) \cup {t.id : t \in shown} \cup {f.id : f \in forms}
        \cup {FirstId}

Next ==
    \/ \E c \in Content : PostNew(c)
    \/ PostNewThrows
    \/ \E f \in forms : \E e \in PostedEdits(f) : PostEdit(e.id, e.content)
    \/ \E i \in KnownIds, a \in Authorised : RequestEdit(i, a)
    \/ \E i \in KnownIds, a \in Authorised : RequestDelete(i, a)
    \/ \E i \in KnownIds : RequestView(i)
    \/ \E op \in {"create", "edit", "delete", "view"} : Unavailable(op)
    \/ Restart

Spec == Init /\ [][Next]_vars

-----------------------------------------------------------------------------
\* Properties.

\* A result page that shows a token shows a meme that is in the table, with
\* that token, also when the write before it failed.
AnswerIsStored ==
    reply.op \in {"create", "edit"} /\ reply.token # Empty =>
        [id |-> reply.id, content |-> reply.content, token |-> reply.token] \in rows

\* A new meme takes no other meme's place.  Ids are compared as text and
\* counted as numbers: this holds as long as no id is longer than the one
\* before it.
NewMemeIsFresh == [][reply'.op = "create" => rows \subseteq rows']_vars

\* A token that a result page has shown goes on opening its meme, through
\* edits, failed writes and restarts, until a meme is deleted.
TokenKeepsWorking ==
    [][\A t \in shown :
         verifyTokenAuthentication(t) /\ ~verifyTokenAuthentication(t)'
             => reply'.op = "delete"]_vars

\* A token whose meme is gone opens no other meme, although ids are given
\* again: draw < draws says that it was made in this life of the server.  After
\* a restart the same characters are made again.
TokenStaysGone ==
    [][\A t \in shown :
         t.draw < draws /\ ~verifyTokenAuthentication(t)
             => ~verifyTokenAuthentication(t)']_vars

\* An open edit page goes on being the page of the meme that it was filled
\* from, whatever is posted meanwhile, cut forms and failed writes included,
\* until a meme is deleted.
PagesStayCurrent ==
    [][\A f \in forms :
         f.token # Empty /\ TokenIn(rows, f.id) = f.token /\ f.token # TokenIn(rows, f.id)'
             => reply'.op = "delete"]_vars

\* The table as the partial function of MemeStore.
Memes(table) ==
    [i \in Ids(table) |-> [content |-> ContentIn(table, i),
                           token |-> TokenIn(table, i)]]

Store == INSTANCE MemeStore WITH store <- Memes(rows)

\* The vault does what MemeStore promises: each request publishes a meme under
\* an unused id, revises one and keeps its token, revives or retracts one, or
\* changes none.
ImplementsStore == Store!Spec
=============================================================================
