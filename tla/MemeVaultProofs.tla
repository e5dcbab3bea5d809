--------------------------- MODULE MemeVaultProofs ---------------------------
(***************************************************************************)
(* Proofs about MemeVault, for every bound, every table an earlier life    *)
(* left and any number of browsers.  Type correctness, the truth of result *)
(* pages and that a token stays gone hold for all ids; that a new meme     *)
(* takes no other meme's place, and what rests on it, is proved as long as *)
(* the counter of ids gains no digit.                                      *)
(***************************************************************************)
EXTENDS MemeVault, FiniteSetTheorems, WellFoundedInduction, TLAPS

-----------------------------------------------------------------------------
(* Facts about meme ids: a set of ids has a last one in text order, and    *)
(* for ids of one length the text order is the order of numbers.           *)

\* A nonempty set of integers in a range has a greatest element: the
\* intervals from its elements to the end of the range have a smallest one.
LEMMA IntervalMax ==
    ASSUME NEW lo \in Int, NEW hi \in Int,
           NEW S \in SUBSET (lo .. hi), S # {}
    PROVE  \E m \in S : \A n \in S : n <= m
<1> DEFINE Tail(n) == n .. hi
           Tails == {Tail(n) : n \in S}
<1>1. IsWellFoundedOn(StrictSubsetOrdering(Int), FiniteSubsetsOf(Int))
  BY FS_StrictSubsetOrderingWellFounded
<1>2. Tails \subseteq FiniteSubsetsOf(Int)
  <2>1. ASSUME NEW n \in S
        PROVE  Tail(n) \in SUBSET Int /\ IsFiniteSet(Tail(n))
    BY FS_Interval
  <2> QED  BY <2>1 DEF FiniteSubsetsOf
<1>3. Tails # {}
  OBVIOUS
<1>4. PICK t \in Tails : \A u \in Tails : <<u, t>> \notin StrictSubsetOrdering(Int)
  BY <1>1, <1>2, <1>3, WFMin
<1>5. PICK m \in S : t = Tail(m)
  OBVIOUS
<1>6. ASSUME NEW n \in S, ~(n <= m)
      PROVE  FALSE
  <2>1. Tail(n) \subseteq Tail(m) /\ m \in Tail(m) /\ m \notin Tail(n)
    BY <1>6
  <2>2. <<Tail(n), Tail(m)>> \in StrictSubsetOrdering(Int)
    BY <2>1 DEF StrictSubsetOrdering
  <2> QED  BY <2>2, <1>4, <1>5
<1> QED  BY <1>6

\* What the proofs need to know of the three numbers.
LEMMA IdNumbers ==
    /\ FirstId \in Nat /\ LastId \in Nat /\ NoId = 0
    /\ 0 < FirstId /\ FirstId <= LastId
BY SMT DEF FirstId, LastId, NoId

\* The length of an id, and the number its text is compared by.
LEMMA ScaledId ==
    ASSUME NEW id \in Int, 0 <= id, id <= LastId
    PROVE  \E d \in 0 .. 6, k \in {1000000, 100000, 10000, 1000, 100, 10, 1} :
                /\ Digits(id) = d /\ Padded(id) = id * k
                /\ 0 <= id * k /\ id * k <= LastId /\ id * k \in Int
<1>1. CASE id < 1
  <2>1. Digits(id) = 0
    BY <1>1, SMT DEF Digits
  <2>2. Padded(id) = id * 1000000
    BY <2>1, SMT DEF Padded
  <2>3. 0 <= id * 1000000 /\ id * 1000000 <= LastId /\ id * 1000000 \in Int
    BY <1>1, SMT DEF LastId
  <2> QED  BY <2>1, <2>2, <2>3
<1>2. CASE 1 <= id /\ id < 10
  <2>1. Digits(id) = 1
    BY <1>2, SMT DEF Digits
  <2>2. Padded(id) = id * 100000
    BY <2>1, SMT DEF Padded
  <2>3. 0 <= id * 100000 /\ id * 100000 <= LastId /\ id * 100000 \in Int
    BY <1>2, SMT DEF LastId
  <2> QED  BY <2>1, <2>2, <2>3
<1>3. CASE 10 <= id /\ id < 100
  <2>1. Digits(id) = 2
    BY <1>3, SMT DEF Digits
  <2>2. Padded(id) = id * 10000
    BY <2>1, SMT DEF Padded
  <2>3. 0 <= id * 10000 /\ id * 10000 <= LastId /\ id * 10000 \in Int
    BY <1>3, SMT DEF LastId
  <2> QED  BY <2>1, <2>2, <2>3
<1>4. CASE 100 <= id /\ id < 1000
  <2>1. Digits(id) = 3
    BY <1>4, SMT DEF Digits
  <2>2. Padded(id) = id * 1000
    BY <2>1, SMT DEF Padded
  <2>3. 0 <= id * 1000 /\ id * 1000 <= LastId /\ id * 1000 \in Int
    BY <1>4, SMT DEF LastId
  <2> QED  BY <2>1, <2>2, <2>3
<1>5. CASE 1000 <= id /\ id < 10000
  <2>1. Digits(id) = 4
    BY <1>5, SMT DEF Digits
  <2>2. Padded(id) = id * 100
    BY <2>1, SMT DEF Padded
  <2>3. 0 <= id * 100 /\ id * 100 <= LastId /\ id * 100 \in Int
    BY <1>5, SMT DEF LastId
  <2> QED  BY <2>1, <2>2, <2>3
<1>6. CASE 10000 <= id /\ id < 100000
  <2>1. Digits(id) = 5
    BY <1>6, SMT DEF Digits
  <2>2. Padded(id) = id * 10
    BY <2>1, SMT DEF Padded
  <2>3. 0 <= id * 10 /\ id * 10 <= LastId /\ id * 10 \in Int
    BY <1>6, SMT DEF LastId
  <2> QED  BY <2>1, <2>2, <2>3
<1>7. CASE 100000 <= id
  <2>1. Digits(id) = 6
    BY <1>7, SMT DEF Digits
  <2>2. Padded(id) = id * 1
    BY <2>1, SMT DEF Padded
  <2>3. 0 <= id * 1 /\ id * 1 <= LastId /\ id * 1 \in Int
    BY <1>7, SMT DEF LastId
  <2> QED  BY <2>1, <2>2, <2>3
<1> QED  BY <1>1, <1>2, <1>3, <1>4, <1>5, <1>6, <1>7, SMT

\* The length of an id is at most six, and its padded number is no greater than
\* the last id.
LEMMA PaddedValues ==
    ASSUME NEW id \in 0 .. LastId
    PROVE  /\ Digits(id) \in 0 .. 6
           /\ Padded(id) \in 0 .. LastId
           /\ \E k \in {1000000, 100000, 10000, 1000, 100, 10, 1} : Padded(id) = id * k
<1>1. id \in Int /\ 0 <= id /\ id <= LastId /\ LastId \in Int
  BY IdNumbers, SMT
<1> QED  BY <1>1, ScaledId, SMT

\* The text order as an order of numbers: ten times the padded id, plus the
\* length of the text.
Rank(id) == 10 * Padded(id) + Digits(id)
MaxRank == 10 * LastId + 6

\* The text order of two ids is the order of their ranks.
LEMMA TextLeqIsRankLeq ==
    ASSUME NEW a \in 0 .. LastId, NEW b \in 0 .. LastId
    PROVE  TextLeq(a, b) <=> Rank(a) <= Rank(b)
<1>1. Digits(a) \in 0 .. 6 /\ Digits(b) \in 0 .. 6
  BY PaddedValues
<1>2. Padded(a) \in 0 .. LastId /\ Padded(b) \in 0 .. LastId
  BY PaddedValues
<1>3. LastId \in Int
  BY IdNumbers
<1> QED  BY <1>1, <1>2, <1>3, SMT DEF TextLeq, Rank

\* SELECT MAX(MEME_ID) of a nonempty table returns one of its ids, and none
\* comes after it in text order.
LEMMA TextMaxIsLast ==
    ASSUME NEW ids \in SUBSET (0 .. LastId), ids # {}
    PROVE  /\ TextMax(ids) \in ids
           /\ \A n \in ids : TextLeq(n, TextMax(ids))
<1> DEFINE ranks == {Rank(i) : i \in ids}
<1>1. ASSUME NEW i \in 0 .. LastId
      PROVE  Rank(i) \in 0 .. MaxRank
  <2>1. Digits(i) \in 0 .. 6 /\ Padded(i) \in 0 .. LastId
    BY PaddedValues
  <2> QED  BY <2>1, IdNumbers, SMT DEF Rank, MaxRank
<1>2. ranks \in SUBSET (0 .. MaxRank) /\ ranks # {}
  BY <1>1
<1>3. 0 \in Int /\ MaxRank \in Int
  BY IdNumbers, SMT DEF MaxRank
<1>4. PICK top \in ranks : \A n \in ranks : n <= top
  <2> HIDE DEF ranks
  <2> QED  BY <1>2, <1>3, IntervalMax, Zenon
<1>5. PICK m \in ids : top = Rank(m)
  OBVIOUS
<1>6. \A n \in ids : TextLeq(n, m)
  BY <1>1, <1>4, <1>5, TextLeqIsRankLeq
<1> QED  BY <1>6 DEF TextMax

\* For ids of one length the text order is the order of numbers.
LEMMA SameLengthOrder ==
    ASSUME NEW a \in 0 .. LastId, NEW b \in 0 .. LastId, Digits(a) = Digits(b)
    PROVE  TextLeq(a, b) <=> a <= b
<1> DEFINE scale == <<1000000, 100000, 10000, 1000, 100, 10, 1>>[Digits(a) + 1]
<1>1. scale \in {1000000, 100000, 10000, 1000, 100, 10, 1}
  <2>1. Digits(a) \in 0 .. 6
    BY PaddedValues
  <2> QED  BY <2>1, SMT
<1>2. Padded(a) = a * scale /\ Padded(b) = b * scale
  BY DEF Padded
<1> HIDE DEF scale
<1>3. a * scale < b * scale <=> a < b
  BY <1>1, SMT
<1>4. a * scale = b * scale <=> a = b
  BY <1>1, SMT
<1>5. Digits(a) \in 0 .. 6
  BY PaddedValues
<1> QED  BY <1>2, <1>3, <1>4, <1>5, SMT DEF TextLeq

-----------------------------------------------------------------------------
\* MEME_ID is a key of the table.
UniqueIds == \A r, s \in rows : r.id = s.id => r = s

\* A token starts with the id of its row.
TokenNamesItsRow == \A r \in rows : r.token # NoToken => r.token.id = r.id

Inv == TypeOK /\ UniqueIds /\ TokenNamesItsRow /\ AnswerIsStored

-----------------------------------------------------------------------------
\* Ids, and the values that stand for no token.

\* Ids are integers up to the last id, and the first one is among them.
LEMMA IdRange ==
    /\ Id \subseteq Int
    /\ Id \in SUBSET (0 .. LastId)
    /\ FirstId \in Id \ {NoId}
BY IdNumbers, IdAssumption

\* No value that stands for the absence of a token is a token.
LEMMA TokensDiffer ==
    /\ Empty \notin Token \cup {NoToken}
    /\ NoToken \notin Token
    /\ Master \notin Token
    /\ \A t \in Token : t.id \in Id \ {NoId} /\ t.draw \in 0 .. MaxDraws
BY DEF Empty, NoToken, Master, Token

\* The row a SELECT finds for an id that is in the table.
LEMMA RowOfId ==
    ASSUME NEW table \in SUBSET Row, NEW id \in Ids(table)
    PROVE  /\ GetMemeFromDatabase(table, id) \in table
           /\ GetMemeFromDatabase(table, id).id = id
<1>1. \E r \in table : r.id = id
  BY DEF Ids
<1> QED  BY <1>1 DEF GetMemeFromDatabase

\* The fields of a page for an id have their types, row or no row.
LEMMA PageFields ==
    ASSUME NEW table \in SUBSET Row, NEW id
    PROVE  /\ TokenIn(table, id) \in Token \cup {NoToken, Empty}
           /\ ContentIn(table, id) \in Content
           /\ TokenIn(table, id) # Empty =>
                 [id |-> id, content |-> ContentIn(table, id),
                  token |-> TokenIn(table, id)] \in table
<1>1. CASE id \notin Ids(table)
  BY <1>1 DEF TokenIn, ContentIn, Content
<1>2. CASE id \in Ids(table)
  <2> DEFINE r == GetMemeFromDatabase(table, id)
  <2>1. r \in table /\ r \in Row /\ r.id = id
    BY <1>2, RowOfId
  <2>2. TokenIn(table, id) = r.token /\ ContentIn(table, id) = r.content
    BY <1>2 DEF TokenIn, ContentIn
  <2>3. r = [id |-> r.id, content |-> r.content, token |-> r.token]
    BY <2>1 DEF Row
  <2> HIDE DEF r
  <2>4. r.token \in Token \cup {NoToken} /\ r.content \in Content
    BY <2>1 DEF Row
  <2> QED  BY <2>1, <2>2, <2>3, <2>4
<1> QED  BY <1>1, <1>2

\* What the result page leaves in reply and shown.
LEMMA ResultPageFields ==
    ASSUME TypeOK, NEW op \in {"create", "edit"}, NEW table \in SUBSET Row,
           NEW id \in Id, MemeResult(op, table, id)
    PROVE  /\ reply' \in Reply
           /\ reply'.op = op
           /\ shown' \subseteq Token
           /\ reply'.token # Empty =>
                 [id |-> reply'.id, content |-> reply'.content,
                  token |-> reply'.token] \in table
<1> DEFINE token == TokenIn(table, id)
           content == ContentIn(table, id)
<1>1. /\ token \in Token \cup {NoToken, Empty} /\ content \in Content
      /\ token # Empty => [id |-> id, content |-> content, token |-> token] \in table
  BY PageFields
<1>2. /\ reply' = [op |-> op, id |-> id, status |-> 200, content |-> content,
                   token |-> token]
      /\ ShowToken(token)
  BY DEF MemeResult, ResultPage
<1> HIDE DEF token, content
<1>3. reply' \in Reply
  BY <1>1, <1>2 DEF Reply
<1>4. shown' \subseteq Token
  BY <1>1, <1>2 DEF ShowToken, TypeOK
<1> QED  BY <1>1, <1>2, <1>3, <1>4

\* A view keeps the types of the reply and of the leaked connections.
LEMMA ViewPage ==
    ASSUME TypeOK, CanOpen, NEW id, MemeView("view", id)
    PROVE  reply' \in Reply /\ reply'.op = "view" /\ leaked' \in 0 .. Descriptors
<1>1. CASE exists /\ id \notin Ids(rows)
  <2>1. reply' = NotFound("view") /\ leaked' = leaked + 1
    BY <1>1 DEF MemeView
  <2> QED  BY <2>1, BoundAssumption DEF NotFound, Reply, Content, TypeOK, CanOpen
<1>2. CASE ~(exists /\ id \notin Ids(rows))
  <2>1. reply' = Page("view") /\ leaked' = leaked
    BY <1>2 DEF MemeView
  <2> QED  BY <2>1 DEF Page, Reply, Content, TypeOK
<1> QED  BY <1>1, <1>2

-----------------------------------------------------------------------------
\* The inductive invariant: one lemma for each action.

\* The table an earlier life left is well kept, and nothing was answered yet.
LEMMA InitInv == Init => Inv
<1> SUFFICES ASSUME Init PROVE Inv
  OBVIOUS
<1>1. rows \in SUBSET Row /\ WellKept(rows)
  BY SeedAssumption DEF Init
<1>2. shown \subseteq Token
  BY DEF Init
<1>3. NoReply \in Reply
  BY DEF NoReply, Reply, Content
<1> QED  BY <1>1, <1>2, <1>3, BoundAssumption
         DEF Init, Inv, TypeOK, UniqueIds, TokenNamesItsRow, AnswerIsStored,
             WellKept, NoReply

\* Whatever row is put in the table under its id, with a token that carries
\* that id, the table stays well kept; so it does when the row is not written.
LEMMA AddToDatabaseInv ==
    ASSUME Inv, NEW op \in {"create", "edit"}, NEW r \in Row,
           r.token # NoToken => r.token.id = r.id,
           AddToDatabase(op, r), draws' \in 0 .. MaxDraws,
           UNCHANGED <<leaked, forms>>
    PROVE  Inv'
<1>1. PICK table \in {InsertOrReplace(r), rows} :
          rows' = table /\ exists' = TRUE /\ MemeResult(op, table, r.id)
  BY DEF AddToDatabase
<1>2. table \in SUBSET Row
  BY <1>1 DEF Inv, TypeOK, InsertOrReplace
<1>3. /\ \A s, t \in table : s.id = t.id => s = t
      /\ \A s \in table : s.token # NoToken => s.token.id = s.id
  BY <1>1 DEF Inv, UniqueIds, TokenNamesItsRow, InsertOrReplace
<1>4. r.id \in Id
  BY DEF Row
<1>5. /\ reply' \in Reply /\ shown' \subseteq Token
      /\ reply'.token # Empty =>
            [id |-> reply'.id, content |-> reply'.content,
             token |-> reply'.token] \in table
  BY <1>1, <1>2, <1>4, ResultPageFields DEF Inv
<1> QED  BY <1>1, <1>2, <1>3, <1>5
         DEF Inv, TypeOK, UniqueIds, TokenNamesItsRow, AnswerIsStored

\* A write that is refused leaves the table, and its page shows what is stored.
LEMMA RefusedWriteInv ==
    ASSUME Inv, NEW op \in {"create", "edit"}, NEW id \in Id,
           RefusedWrite(op, id), UNCHANGED <<leaked, forms>>
    PROVE  Inv'
<1>1. MemeResult(op, rows, id) /\ UNCHANGED <<rows, exists, draws>>
  BY DEF RefusedWrite
<1>2. /\ reply' \in Reply /\ shown' \subseteq Token
      /\ reply'.token # Empty =>
            [id |-> reply'.id, content |-> reply'.content,
             token |-> reply'.token] \in rows
  BY <1>1, ResultPageFields DEF Inv, TypeOK
<1> QED  BY <1>1, <1>2
         DEF Inv, TypeOK, UniqueIds, TokenNamesItsRow, AnswerIsStored

\* The row of a new meme has the types of a row, and its token carries its id.
LEMMA NewRow ==
    ASSUME TypeOK, NEW c \in Content, NextId \in Id
    PROVE  /\ [id |-> NextId, content |-> c, token |-> gen_access_token(NextId)] \in Row
           /\ gen_access_token(NextId) \in Token
           /\ gen_access_token(NextId).id = NextId
           /\ gen_access_token(NextId).draw = draws
<1>1. NextId # NoId
  <2>1. CASE rows = {}
    BY <2>1, IdNumbers DEF NextId
  <2>2. CASE rows # {}
    <3>1. Ids(rows) \subseteq Id /\ Ids(rows) # {}
      BY <2>2 DEF Ids, TypeOK, Row
    <3>2. TextMax(Ids(rows)) \in 0 .. LastId
      BY <3>1, IdRange, TextMaxIsLast
    <3> QED  BY <2>2, <3>2, IdNumbers DEF NextId
  <2> QED  BY <2>1, <2>2
<1> QED  BY <1>1 DEF Row, Token, gen_access_token, TypeOK

\* A form for a new meme keeps the table well kept and shows what is stored.
LEMMA PostNewInv ==
    ASSUME Inv, NEW c \in Content, PostNew(c)
    PROVE  Inv'
<1> DEFINE new == [id |-> NextId, content |-> c, token |-> gen_access_token(NextId)]
<1>1. CASE /\ NextId \in Id
           /\ draws' = draws + 2 * Digits(NextId) /\ draws' <= MaxDraws
           /\ AddToDatabase("create", new) /\ UNCHANGED <<leaked, forms>>
  <2>1. new \in Row /\ new.token.id = new.id
    BY <1>1, NewRow DEF Inv
  <2>2. draws' \in 0 .. MaxDraws
    <3>1. Digits(NextId) \in 0 .. 6
      BY <1>1, IdRange, PaddedValues
    <3> QED  BY <1>1, <3>1, BoundAssumption DEF Inv, TypeOK
  <2> HIDE DEF new
  <2> QED  BY <1>1, <2>1, <2>2, AddToDatabaseInv
<1>2. CASE RefusedWrite("create", FirstId) /\ UNCHANGED <<leaked, forms>>
  BY <1>2, IdRange, RefusedWriteInv
<1> QED  BY <1>1, <1>2 DEF PostNew

\* What an edit page posts has the types of an id and a content.
LEMMA PostedTypes ==
    ASSUME TypeOK, NEW f \in forms, NEW e \in PostedEdits(f)
    PROVE  e.id \in Id /\ e.content \in Content
<1>1. f.id \in Id
  BY DEF TypeOK, Form
<1> QED  BY <1>1 DEF PostedEdits, Content

\* An edit form does so too, whatever row it finds.
LEMMA PostEditInv ==
    ASSUME Inv, NEW id \in Id, NEW c \in Content, PostEdit(id, c)
    PROVE  Inv'
<1> DEFINE new == [id |-> id, content |-> c, token |-> EditToken(id)]
<1>1. CASE AddToDatabase("edit", new) /\ UNCHANGED <<draws, leaked, forms>>
  <2>1. /\ EditToken(id) \in Token \cup {NoToken}
        /\ EditToken(id) # NoToken => EditToken(id).id = id
    <3>1. CASE id \in Ids(rows)
      <4>1. /\ GetMemeFromDatabase(rows, id) \in rows
            /\ GetMemeFromDatabase(rows, id).id = id
        BY <3>1, RowOfId DEF Inv, TypeOK
      <4> QED  BY <3>1, <4>1 DEF EditToken, TokenIn, Inv, TypeOK, TokenNamesItsRow, Row
    <3>2. CASE id \notin Ids(rows)
      BY <3>2 DEF EditToken
    <3> QED  BY <3>1, <3>2
  <2>2. new \in Row /\ (new.token # NoToken => new.token.id = new.id)
    BY <2>1 DEF Row
  <2>3. draws' \in 0 .. MaxDraws
    BY <1>1 DEF Inv, TypeOK
  <2> HIDE DEF new
  <2> QED  BY <1>1, <2>2, <2>3, AddToDatabaseInv
<1>2. CASE RefusedWrite("edit", id) /\ UNCHANGED <<leaked, forms>>
  BY <1>2, RefusedWriteInv
<1> QED  BY <1>1, <1>2 DEF PostEdit

\* The pages that do not follow a post show no token.
LEMMA OtherPageInv ==
    ASSUME Inv, rows' \subseteq rows, UNCHANGED <<exists, draws, shown>>,
           leaked' \in 0 .. Descriptors, forms' \subseteq Form,
           reply' \in Reply, reply'.op \in {"none", "form", "delete", "view"}
    PROVE  Inv'
BY DEF Inv, TypeOK, UniqueIds, TokenNamesItsRow, AnswerIsStored

\* The ids that browsers know are ids.
LEMMA KnownIdsType ==
    ASSUME TypeOK
    PROVE  KnownIds \subseteq Id
<1>1. Ids(rows) \subseteq Id
  BY DEF Ids, TypeOK, Row
<1>2. {t.id : t \in shown} \subseteq Id
  BY TokensDiffer DEF TypeOK
<1>3. {f.id : f \in forms} \subseteq Id
  BY DEF TypeOK, Form
<1>4. FirstId \in Id
  BY IdAssumption
<1> QED  BY <1>1, <1>2, <1>3, <1>4 DEF KnownIds

\* The edit form, or the view page in its place, keeps the invariant.
LEMMA RequestEditInv ==
    ASSUME Inv, NEW id \in Id, NEW a, RequestEdit(id, a)
    PROVE  Inv'
<1>1. UNCHANGED <<rows, exists, draws, shown>> /\ CanOpen
  BY DEF RequestEdit
<1>2. CASE a
  <2>1. /\ reply' = Page("form")
        /\ forms' \in {forms, forms \cup {[id |-> id, token |-> TokenIn(rows, id)]}}
        /\ UNCHANGED leaked
    BY <1>2 DEF RequestEdit
  <2>2. TokenIn(rows, id) \in Token \cup {NoToken, Empty}
    BY PageFields DEF Inv, TypeOK
  <2>3. reply' \in Reply /\ reply'.op = "form"
    BY <2>1 DEF Page, Reply, Content
  <2>4. forms' \subseteq Form
    BY <2>1, <2>2 DEF Inv, TypeOK, Form
  <2> QED  BY <1>1, <2>1, <2>3, <2>4, OtherPageInv DEF Inv, TypeOK
<1>3. CASE ~a
  <2>1. MemeView("view", id) /\ UNCHANGED forms
    BY <1>3 DEF RequestEdit
  <2> QED  BY <1>1, <2>1, ViewPage, OtherPageInv DEF Inv, TypeOK
<1> QED  BY <1>2, <1>3

\* A delete takes one row away, or none, and keeps the invariant.
LEMMA RequestDeleteInv ==
    ASSUME Inv, NEW id \in Id, NEW a, RequestDelete(id, a)
    PROVE  Inv'
<1>1. UNCHANGED <<exists, draws, shown, forms>> /\ CanOpen
  BY DEF RequestDelete
<1>2. CASE a
  <2>1. /\ rows' \in {Deleted(id), rows}
        /\ reply' \in {NotFound("delete"), Page("delete")}
        /\ UNCHANGED leaked
    BY <1>2 DEF RequestDelete
  <2>2. rows' \subseteq rows
    BY <2>1 DEF Deleted
  <2>3. reply' \in Reply /\ reply'.op = "delete"
    BY <2>1 DEF NotFound, Page, Reply, Content
  <2> QED  BY <1>1, <2>1, <2>2, <2>3, OtherPageInv DEF Inv, TypeOK
<1>3. CASE ~a
  <2>1. MemeView("view", id) /\ UNCHANGED rows
    BY <1>3 DEF RequestDelete
  <2> QED  BY <1>1, <2>1, ViewPage, OtherPageInv DEF Inv, TypeOK
<1> QED  BY <1>2, <1>3

\* Every request, and a restart, keeps the invariant.
LEMMA NextInv == Inv /\ [Next]_vars => Inv'
<1> SUFFICES ASSUME Inv, [Next]_vars PROVE Inv'
  OBVIOUS
<1>1. ASSUME NEW c \in Content, PostNew(c) PROVE Inv'
  BY <1>1, PostNewInv
<1>2. ASSUME NEW f \in forms, NEW e \in PostedEdits(f), PostEdit(e.id, e.content)
      PROVE  Inv'
  BY <1>2, PostEditInv, PostedTypes DEF Inv
<1>3. ASSUME NEW i \in KnownIds, NEW a, RequestEdit(i, a) PROVE Inv'
  BY <1>3, RequestEditInv, KnownIdsType DEF Inv
<1>4. ASSUME NEW i \in KnownIds, NEW a, RequestDelete(i, a) PROVE Inv'
  BY <1>4, RequestDeleteInv, KnownIdsType DEF Inv
<1>5. ASSUME NEW i \in KnownIds, RequestView(i) PROVE Inv'
  BY <1>5, ViewPage, OtherPageInv DEF RequestView, Inv, TypeOK
<1>6. ASSUME NEW op \in {"create", "edit", "delete", "view"}, Unavailable(op) PROVE Inv'
  <2>1. /\ reply' = NotFound(op)
        /\ UNCHANGED <<rows, exists, draws, leaked, shown, forms>>
    BY <1>6 DEF Unavailable
  <2>2. reply' \in Reply /\ reply'.token = Empty
    BY <2>1 DEF NotFound, Reply, Content
  <2> QED  BY <2>1, <2>2
           DEF Inv, TypeOK, UniqueIds, TokenNamesItsRow, AnswerIsStored
<1>7. CASE Restart \/ PostNewThrows
  BY <1>7, BoundAssumption
     DEF PostNewThrows, Restart, NoReply, Inv, TypeOK, UniqueIds, TokenNamesItsRow, AnswerIsStored,
         Reply, Content
<1>8. CASE UNCHANGED vars
  BY <1>8 DEF vars, Inv, TypeOK, UniqueIds, TokenNamesItsRow, AnswerIsStored
<1> QED  BY <1>1, <1>2, <1>3, <1>4, <1>5, <1>6, <1>7, <1>8 DEF Next

\* The types, the truth of result pages, that ids are a key and that a token
\* names its row hold in every state: together they are inductive.
THEOREM Invariance == Spec => []Inv
<1> QED  BY InitInv, NextInv, PTL DEF Spec

\* The variables keep their types: in particular the leaked connections never
\* exceed the descriptors.
THEOREM TypeCorrect == Spec => []TypeOK
<1>1. Inv => TypeOK
  BY DEF Inv
<1> QED  BY <1>1, Invariance, PTL

\* A result page that shows a token shows a meme of the table.
THEOREM ResultPagesAreTrue == Spec => []AnswerIsStored
<1>1. Inv => AnswerIsStored
  BY DEF Inv
<1> QED  BY <1>1, Invariance, PTL

-----------------------------------------------------------------------------
\* A token that opens nothing.

\* No request makes a token that was drawn before in the same life, or puts
\* one into the table that was not there.
LEMMA GoneStep ==
    ASSUME TypeOK, [Next]_vars, NEW t \in shown,
           t.draw < draws, verifyTokenAuthentication(t)'
    PROVE  verifyTokenAuthentication(t)
<1>1. t \in Token /\ t # NoToken /\ t # Master /\ draws \in Int
  BY TokensDiffer DEF TypeOK
<1>2. PICK r \in rows' : r.token = t /\ r.id = t.id
  BY <1>1 DEF verifyTokenAuthentication
<1>3. SUFFICES ASSUME r \notin rows PROVE \E s \in rows : s.token = t /\ s.id = t.id
  BY <1>1, <1>2 DEF verifyTokenAuthentication
<1>4. ASSUME NEW c \in Content, PostNew(c) PROVE FALSE
  <2>1. rows' # rows
    BY <1>2, <1>3
  <2>2. /\ NextId \in Id
        /\ r = [id |-> NextId, content |-> c, token |-> gen_access_token(NextId)]
    BY <1>2, <1>3, <1>4, <2>1 DEF PostNew, AddToDatabase, RefusedWrite, InsertOrReplace
  <2>3. r.token.draw = draws
    BY <2>2, NewRow
  <2> QED  BY <1>1, <1>2, <2>3
<1>5. ASSUME NEW f \in forms, NEW e \in PostedEdits(f), PostEdit(e.id, e.content)
      PROVE  \E s \in rows : s.token = t /\ s.id = t.id
  <2>1. r = [id |-> e.id, content |-> e.content, token |-> EditToken(e.id)]
    BY <1>2, <1>3, <1>5 DEF PostEdit, AddToDatabase, RefusedWrite, InsertOrReplace
  <2>2. r.id = e.id /\ EditToken(e.id) = t
    BY <1>2, <2>1
  <2>3. e.id \in Ids(rows)
    BY <1>1, <2>2 DEF EditToken
  <2>4. /\ GetMemeFromDatabase(rows, e.id) \in rows
        /\ GetMemeFromDatabase(rows, e.id).id = e.id
    BY <2>3, RowOfId DEF TypeOK
  <2> QED  BY <1>2, <2>2, <2>3, <2>4 DEF EditToken, TokenIn
<1>6. ASSUME NEW i, NEW a, RequestDelete(i, a) PROVE FALSE
  <2>1. rows' \subseteq rows
    BY <1>6 DEF RequestDelete, Deleted
  <2> QED  BY <1>2, <1>3, <2>1
<1>7. ASSUME NEW i, NEW a, RequestEdit(i, a) \/ RequestView(i) \/ Unavailable(i)
                           \/ PostNewThrows \/ Restart \/ UNCHANGED vars
      PROVE  FALSE
  <2>1. rows' = rows
    BY <1>7 DEF RequestEdit, RequestView, Unavailable, PostNewThrows, Restart, vars
  <2> QED  BY <1>2, <1>3, <2>1
<1> QED  BY <1>4, <1>5, <1>6, <1>7 DEF Next

\* For every table and history, ids of any length: a token that was made in
\* this life of the server and opens nothing opens nothing again in this life.
THEOREM TokensStayGone == Spec => TokenStaysGone
<1>1. TypeOK /\ [Next]_vars =>
        [\A t \in shown :
           t.draw < draws /\ ~verifyTokenAuthentication(t)
               => ~verifyTokenAuthentication(t)']_vars
  BY GoneStep
<1> QED  BY <1>1, TypeCorrect, PTL DEF Spec, TokenStaysGone

-----------------------------------------------------------------------------
\* A counter that gains no digit.

\* Of the ids of the instance none is longer than the one before it.
SameLength == \A i \in Id \ {NoId} : i + 1 \in Id => Digits(i + 1) = Digits(i)

\* MAX(MEME_ID) + 1 names no meme as long as it is as long as MAX(MEME_ID).
LEMMA NextIdIsFresh ==
    ASSUME SameLength, TypeOK, ~NoNextId, NextId \in Id
    PROVE  NextId \notin Ids(rows)
<1>1. CASE rows = {}
  BY <1>1 DEF Ids
<1>2. CASE rows # {}
  <2> DEFINE top == TextMax(Ids(rows))
  <2>1. Ids(rows) \subseteq Id /\ Ids(rows) # {}
    BY <1>2 DEF Ids, TypeOK, Row
  <2>2. top \in Ids(rows) /\ \A n \in Ids(rows) : TextLeq(n, top)
    BY <2>1, IdRange, TextMaxIsLast
  <2>3. top \in Id \ {NoId} /\ NextId = top + 1
    BY <1>2, <2>1, <2>2 DEF NoNextId, NextId
  <2> HIDE DEF top
  <2>4. Digits(NextId) = Digits(top)
    BY <2>3 DEF SameLength
  <2>5. NextId \in 0 .. LastId /\ top \in 0 .. LastId
    BY <2>3, IdRange
  <2>6. ~TextLeq(NextId, top)
    BY <2>3, <2>4, <2>5, SameLengthOrder
  <2> QED  BY <2>2, <2>6
<1> QED  BY <1>1, <1>2

\* What the form for a new meme does to the table: a row under an unused id,
\* or nothing.
LEMMA PostNewRows ==
    ASSUME SameLength, TypeOK, NEW c \in Content, PostNew(c)
    PROVE  \/ rows' = rows
           \/ \E r \in Row : /\ r.id \notin Ids(rows) /\ r.token \in Token
                             /\ rows' = InsertOrReplace(r)
<1> DEFINE new == [id |-> NextId, content |-> c, token |-> gen_access_token(NextId)]
<1>1. CASE ~NoNextId /\ NextId \in Id /\ AddToDatabase("create", new)
  <2>1. new \in Row /\ new.id \notin Ids(rows) /\ new.token \in Token
    BY <1>1, NewRow, NextIdIsFresh
  <2>2. rows' \in {InsertOrReplace(new), rows}
    BY <1>1 DEF AddToDatabase
  <2> HIDE DEF new
  <2> QED  BY <2>1, <2>2
<1>2. CASE RefusedWrite("create", FirstId)
  BY <1>2 DEF RefusedWrite
<1> QED  BY <1>1, <1>2 DEF PostNew

\* A new meme leaves every other row as it is.
LEMMA PostNewKeeps ==
    ASSUME SameLength, TypeOK, NEW c \in Content, PostNew(c)
    PROVE  rows \subseteq rows'
BY PostNewRows DEF InsertOrReplace, Ids

\* What the other requests are answered with.
LEMMA OtherReplies ==
    ASSUME TypeOK
    PROVE  /\ \A id \in Id : \A c : PostEdit(id, c) => reply'.op = "edit"
           /\ \A id, a : RequestEdit(id, a) => reply'.op \in {"form", "view"}
           /\ \A id, a : RequestDelete(id, a) =>
                 reply'.op = IF a THEN "delete" ELSE "view"
           /\ \A id : RequestView(id) => reply'.op = "view"
<1>1. ASSUME NEW id \in Id, NEW c, PostEdit(id, c) PROVE reply'.op = "edit"
  BY <1>1 DEF PostEdit, AddToDatabase, RefusedWrite, MemeResult, ResultPage
<1>2. ASSUME NEW id, MemeView("view", id) PROVE reply'.op = "view"
  BY <1>2 DEF MemeView, NotFound, Page
<1>3. ASSUME NEW id, NEW a, RequestEdit(id, a) PROVE reply'.op \in {"form", "view"}
  BY <1>2, <1>3 DEF RequestEdit, Page
<1>4. ASSUME NEW id, NEW a, RequestDelete(id, a)
      PROVE  reply'.op = IF a THEN "delete" ELSE "view"
  BY <1>2, <1>4 DEF RequestDelete, NotFound, Page
<1> QED  BY <1>1, <1>2, <1>3, <1>4 DEF RequestView

\* A new meme takes no other meme's place, for every table, every bound and
\* every history, as long as the counter of ids gains no digit.
THEOREM FreshIds == SameLength => (Spec => NewMemeIsFresh)
<1>1. SUFFICES ASSUME SameLength PROVE Spec => NewMemeIsFresh
  OBVIOUS
<1>2. ASSUME TypeOK, Next, reply'.op = "create"
      PROVE  rows \subseteq rows'
  <2>1. ASSUME NEW c \in Content, PostNew(c) PROVE rows \subseteq rows'
    BY <1>1, <1>2, <2>1, PostNewKeeps
  <2>2. ASSUME NEW f \in forms, NEW e \in PostedEdits(f), PostEdit(e.id, e.content)
        PROVE  FALSE
    BY <1>2, <2>2, PostedTypes, OtherReplies
  <2>3. ASSUME NEW i, NEW a, RequestEdit(i, a) \/ RequestDelete(i, a) \/ RequestView(i)
        PROVE  FALSE
    BY <1>2, <2>3, OtherReplies
  <2>4. ASSUME NEW i, Unavailable(i) \/ PostNewThrows \/ Restart
        PROVE  rows' = rows
    BY <2>4 DEF Unavailable, PostNewThrows, Restart
  <2> QED  BY <1>2, <2>1, <2>2, <2>3, <2>4 DEF Next
<1>3. TypeOK /\ [Next]_vars => [reply'.op = "create" => rows \subseteq rows']_vars
  BY <1>2
<1> QED  BY <1>3, TypeCorrect, PTL DEF Spec, NewMemeIsFresh

\* An edit leaves the token of its row, and every other row, as it was.
LEMMA PostEditKeepsTokens ==
    ASSUME Inv, NEW id \in Id, NEW c \in Content, PostEdit(id, c)
    PROVE  \A r \in rows : \E s \in rows' : s.id = r.id /\ s.token = r.token
<1> DEFINE new == [id |-> id, content |-> c, token |-> EditToken(id)]
<1>1. rows' \in {InsertOrReplace(new), rows}
  BY DEF PostEdit, AddToDatabase, RefusedWrite
<1>2. ASSUME NEW r \in rows, r.id = id
      PROVE  EditToken(id) = r.token
  <2>1. id \in Ids(rows)
    BY <1>2 DEF Ids
  <2>2. GetMemeFromDatabase(rows, id) = r
    BY <1>2, <2>1, RowOfId DEF Inv, TypeOK, UniqueIds
  <2> QED  BY <2>1, <2>2 DEF EditToken, TokenIn
<1>3. new.id = id /\ new.token = EditToken(id)
  OBVIOUS
<1> HIDE DEF new
<1> QED  BY <1>1, <1>2, <1>3 DEF InsertOrReplace

\* Until a delete every row keeps its id and its token: neither edits nor failed
\* writes nor restarts nor new memes take them away.
LEMMA RowsKeepTokens ==
    ASSUME SameLength, Inv, [Next]_vars, reply'.op # "delete", NEW r \in rows
    PROVE  \E s \in rows' : s.id = r.id /\ s.token = r.token
<1>1. ASSUME NEW i, NEW a, RequestDelete(i, a)
      PROVE  rows' = rows
  <2>1. ~a
    BY <1>1, OtherReplies DEF Inv
  <2> QED  BY <1>1, <2>1 DEF RequestDelete
<1>2. ASSUME NEW c \in Content, PostNew(c)
      PROVE  rows \subseteq rows'
  BY <1>2, PostNewKeeps DEF Inv
<1>3. ASSUME NEW f \in forms, NEW e \in PostedEdits(f), PostEdit(e.id, e.content)
      PROVE  \E s \in rows' : s.id = r.id /\ s.token = r.token
  BY <1>3, PostEditKeepsTokens, PostedTypes DEF Inv
<1>4. ASSUME NEW i, NEW k, RequestEdit(i, k) \/ RequestView(i) \/ Unavailable(i)
                           \/ PostNewThrows \/ Restart \/ UNCHANGED vars
      PROVE  rows' = rows
  BY <1>4 DEF RequestEdit, RequestView, Unavailable, PostNewThrows, Restart, vars
<1> QED  BY <1>1, <1>2, <1>3, <1>4 DEF Next

\* A token that a result page has shown opens its meme until a delete, for every
\* table, every bound and every history, as long as the counter gains no digit.
THEOREM TokensKeepWorking == SameLength => (Spec => TokenKeepsWorking)
<1>1. SUFFICES ASSUME SameLength PROVE Spec => TokenKeepsWorking
  OBVIOUS
<1>2. ASSUME Inv, [Next]_vars, reply'.op # "delete", NEW t \in shown,
             verifyTokenAuthentication(t)
      PROVE  verifyTokenAuthentication(t)'
  <2>1. CASE t = Master
    BY <2>1 DEF verifyTokenAuthentication
  <2>2. CASE t # Master
    <3>1. PICK r \in rows : r.token = t /\ r.id = t.id /\ t # NoToken
      BY <1>2, <2>2 DEF verifyTokenAuthentication
    <3>2. \E s \in rows' : s.id = r.id /\ s.token = r.token
      BY <1>1, <1>2, RowsKeepTokens
    <3> QED  BY <3>1, <3>2 DEF verifyTokenAuthentication
  <2> QED  BY <2>1, <2>2
<1>3. Inv /\ [Next]_vars =>
        [\A t \in shown :
           verifyTokenAuthentication(t) /\ ~verifyTokenAuthentication(t)'
               => reply'.op = "delete"]_vars
  BY <1>2
<1> QED  BY <1>3, Invariance, PTL DEF Spec, TokenKeepsWorking

\* An open edit page is the page of its meme until a delete, for every table,
\* every bound and every history, as long as the counter gains no digit.
THEOREM PagesAreCurrent == SameLength => (Spec => PagesStayCurrent)
<1>1. SUFFICES ASSUME SameLength PROVE Spec => PagesStayCurrent
  OBVIOUS
<1>2. ASSUME Inv, Inv', [Next]_vars, reply'.op # "delete", NEW f \in forms,
             f.token # Empty, TokenIn(rows, f.id) = f.token
      PROVE  TokenIn(rows', f.id) = f.token
  <2>1. f.id \in Ids(rows)
    BY <1>2 DEF TokenIn
  <2>2. PICK r \in rows : r.id = f.id /\ r.token = f.token
    BY <1>2, <2>1, RowOfId DEF TokenIn, Inv, TypeOK
  <2>3. PICK s \in rows' : s.id = r.id /\ s.token = r.token
    BY <1>1, <1>2, RowsKeepTokens
  <2>4. f.id \in Ids(rows')
    BY <2>2, <2>3 DEF Ids
  <2>5. rows' \in SUBSET Row /\ \A a, b \in rows' : a.id = b.id => a = b
    BY <1>2 DEF Inv, TypeOK, UniqueIds
  <2>6. GetMemeFromDatabase(rows', f.id) = s
    BY <2>2, <2>3, <2>4, <2>5, RowOfId
  <2> QED  BY <2>2, <2>3, <2>4, <2>6 DEF TokenIn
<1>3. Inv /\ Inv' /\ [Next]_vars =>
        [\A f \in forms :
           f.token # Empty /\ TokenIn(rows, f.id) = f.token /\ f.token # TokenIn(rows, f.id)'
               => reply'.op = "delete"]_vars
  BY <1>2
<1> QED  BY <1>3, Invariance, PTL DEF Spec, PagesStayCurrent

-----------------------------------------------------------------------------
\* The vault implements MemeStore.

\* In a table without two rows of one id, the row of an id is the one found.
LEMMA FoundRow ==
    ASSUME NEW table \in SUBSET Row,
           \A r, s \in table : r.id = s.id => r = s,
           NEW r \in table
    PROVE  /\ r.id \in DOMAIN Memes(table)
           /\ Memes(table)[r.id] = [content |-> r.content, token |-> r.token]
<1>1. r.id \in Ids(table)
  BY DEF Ids
<1>2. GetMemeFromDatabase(table, r.id) = r
  BY <1>1, RowOfId
<1> QED  BY <1>1, <1>2 DEF Memes, ContentIn, TokenIn

\* A well-kept table is a partial function from ids to memes.
LEMMA MemesType == TypeOK => Store!IsStore
<1> SUFFICES ASSUME TypeOK PROVE Store!IsStore
  OBVIOUS
<1>1. Ids(rows) \subseteq Id
  BY DEF Ids, TypeOK, Row
<1>2. ASSUME NEW i \in Ids(rows)
      PROVE  ContentIn(rows, i) \in Content /\ TokenIn(rows, i) \in Token \cup {NoToken}
  BY RowOfId DEF ContentIn, TokenIn, TypeOK, Row
<1> QED  BY <1>1, <1>2 DEF Store!IsStore, Store!InUse, Store!Meme, Memes

\* A table that differs from the old one in the row of one id differs from it
\* as a store in that id.
LEMMA InsertedMeme ==
    ASSUME Inv, NEW r \in Row, rows' = InsertOrReplace(r), Inv'
    PROVE  /\ DOMAIN Memes(rows)' = DOMAIN Memes(rows) \cup {r.id}
           /\ Memes(rows)'[r.id] = [content |-> r.content, token |-> r.token]
           /\ Store!Only(r.id)
<1>1. DOMAIN Memes(rows) = Ids(rows) /\ DOMAIN Memes(rows)' = Ids(rows')
  BY DEF Memes
<1>2. Ids(rows') = Ids(rows) \cup {r.id}
  BY DEF InsertOrReplace, Ids
<1>3. \A s \in rows : Memes(rows)[s.id] = [content |-> s.content, token |-> s.token]
  BY FoundRow DEF Inv, TypeOK, UniqueIds
<1>4. \A s \in rows' : Memes(rows')[s.id] = [content |-> s.content, token |-> s.token]
  BY ZenonT(40), FoundRow DEF Inv, TypeOK, UniqueIds
<1>5. r \in rows'
  BY DEF InsertOrReplace
<1>6. ASSUME NEW j \in Ids(rows) \ {r.id}
      PROVE  Memes(rows)'[j] = Memes(rows)[j]
  <2>1. PICK s \in rows : s.id = j
    BY DEF Ids
  <2>2. s \in rows'
    BY <2>1 DEF InsertOrReplace
  <2>3. Memes(rows)[j] = [content |-> s.content, token |-> s.token]
    BY <1>3, <2>1
  <2>4. Memes(rows')[j] = [content |-> s.content, token |-> s.token]
    BY <1>4, <2>1, <2>2
  <2> QED  BY <2>3, <2>4
<1>7. Memes(rows)'[r.id] = [content |-> r.content, token |-> r.token]
  BY <1>4, <1>5
<1> QED  BY <1>1, <1>2, <1>6, <1>7 DEF Store!Only, Store!InUse

\* A form for a new meme publishes one in MemeStore, or does nothing there.
LEMMA PostNewStore ==
    ASSUME SameLength, Inv, Inv', NEW c \in Content, PostNew(c)
    PROVE  Store!Publish \/ UNCHANGED Memes(rows)
<1>1. CASE rows' = rows
  BY <1>1
<1>2. ASSUME NEW r \in Row, r.id \notin Ids(rows), r.token \in Token,
             rows' = InsertOrReplace(r)
      PROVE  Store!Publish
  <2>1. /\ DOMAIN Memes(rows)' = DOMAIN Memes(rows) \cup {r.id}
        /\ Memes(rows)'[r.id] = [content |-> r.content, token |-> r.token]
        /\ Store!Only(r.id)
    BY <1>2, InsertedMeme
  <2>2. r.id \notin DOMAIN Memes(rows)
    BY <1>2 DEF Memes
  <2> QED  BY <1>2, <2>1, <2>2 DEF Store!Publish, Store!InUse
<1> QED  BY <1>1, <1>2, PostNewRows DEF Inv

\* An edit form revises or revives a meme of MemeStore, or does nothing there.
LEMMA PostEditStore ==
    ASSUME Inv, Inv', NEW id \in Id, NEW c \in Content, PostEdit(id, c)
    PROVE  Store!Revise \/ Store!Revive \/ UNCHANGED Memes(rows)
<1> DEFINE new == [id |-> id, content |-> c, token |-> EditToken(id)]
<1>1. rows' \in {InsertOrReplace(new), rows}
  BY DEF PostEdit, AddToDatabase, RefusedWrite
<1>2. id \in Ids(rows) => EditToken(id) = Memes(rows)[id].token
  BY DEF EditToken, Memes
<1>3. id \in Ids(rows) => TokenIn(rows, id) \in Token \cup {NoToken}
  BY RowOfId DEF TokenIn, Inv, TypeOK, Row
<1>4. new \in Row /\ new.id = id /\ new.token = EditToken(id)
  BY <1>3 DEF Row, EditToken
<1> HIDE DEF new
<1>5. CASE rows' = rows
  BY <1>5
<1>6. CASE rows' = InsertOrReplace(new)
  <2>1. /\ DOMAIN Memes(rows)' = DOMAIN Memes(rows) \cup {new.id}
        /\ Memes(rows)'[new.id] = [content |-> new.content, token |-> new.token]
        /\ Store!Only(new.id)
    BY <1>4, <1>6, InsertedMeme
  <2>2. DOMAIN Memes(rows) = Ids(rows)
    BY DEF Memes
  <2>3. CASE id \in Ids(rows)
    BY <1>2, <1>4, <2>1, <2>2, <2>3 DEF Store!Revise, Store!InUse
  <2>4. CASE id \notin Ids(rows)
    <3>1. EditToken(id) = NoToken
      BY <2>4 DEF EditToken
    <3> QED  BY <1>4, <3>1, <2>1, <2>2, <2>4 DEF Store!Revive, Store!InUse
  <2> QED  BY <2>3, <2>4
<1> QED  BY <1>1, <1>5, <1>6

\* A delete retracts a meme of MemeStore, or does nothing there.
LEMMA DeleteStore ==
    ASSUME Inv, Inv', NEW i \in Id, rows' = {r \in rows : r.id # i}
    PROVE  Store!Retract \/ UNCHANGED Memes(rows)
<1>1. CASE i \notin Ids(rows)
  <2>1. rows' = rows
    BY <1>1 DEF Ids
  <2> QED  BY <2>1
<1>2. CASE i \in Ids(rows)
  <2>1. DOMAIN Memes(rows) = Ids(rows) /\ DOMAIN Memes(rows)' = Ids(rows')
    BY DEF Memes
  <2>2. Ids(rows') = Ids(rows) \ {i}
    BY DEF Ids
  <2>3. ASSUME NEW j \in Ids(rows) \ {i}
        PROVE  Memes(rows)'[j] = Memes(rows)[j]
    <3>1. PICK s \in rows : s.id = j
      BY DEF Ids
    <3>2. s \in rows'
      BY <3>1
    <3>3. Memes(rows)[j] = [content |-> s.content, token |-> s.token]
      BY <3>1, FoundRow DEF Inv, TypeOK, UniqueIds
    <3>4. Memes(rows')[j] = [content |-> s.content, token |-> s.token]
      BY <3>1, <3>2, FoundRow DEF Inv, TypeOK, UniqueIds
    <3> QED  BY <3>3, <3>4
  <2> QED  BY <1>2, <2>1, <2>2, <2>3 DEF Store!Retract, Store!Only, Store!InUse
<1> QED  BY <1>1, <1>2

\* Every step of the vault is a step of MemeStore or leaves it as it is.
LEMMA StoreStep ==
    ASSUME SameLength, Inv, Inv', [Next]_vars
    PROVE  [Store!Next]_(Memes(rows))
<1>1. Store!IsStore'
  <2>1. TypeOK'
    BY DEF Inv
  <2> QED  BY <2>1, MemesType, PTL
<1>2. ASSUME NEW c \in Content, PostNew(c)
      PROVE  [Store!Next]_(Memes(rows))
  BY <1>1, <1>2, PostNewStore DEF Store!Next
<1>3. ASSUME NEW f \in forms, NEW e \in PostedEdits(f), PostEdit(e.id, e.content)
      PROVE  [Store!Next]_(Memes(rows))
  <2>1. Store!Revise \/ Store!Revive \/ UNCHANGED Memes(rows)
    BY <1>3, PostEditStore, PostedTypes DEF Inv
  <2> QED  BY <1>1, <2>1 DEF Store!Next
<1>4. ASSUME NEW i \in KnownIds, NEW a, RequestDelete(i, a)
      PROVE  [Store!Next]_(Memes(rows))
  <2>1. rows' = rows \/ rows' = {r \in rows : r.id # i}
    BY <1>4 DEF RequestDelete, Deleted
  <2>2. i \in Id
    BY KnownIdsType DEF Inv
  <2>3. Store!Retract \/ UNCHANGED Memes(rows)
    BY <2>1, <2>2, DeleteStore
  <2> QED  BY <1>1, <2>3 DEF Store!Next
<1>5. ASSUME rows' = rows
      PROVE  UNCHANGED Memes(rows)
  BY <1>5
<1>6. ASSUME NEW i, NEW k, RequestEdit(i, k) \/ RequestView(i) \/ Unavailable(i)
                           \/ PostNewThrows \/ Restart \/ UNCHANGED vars
      PROVE  rows' = rows
  BY <1>6 DEF RequestEdit, RequestView, Unavailable, PostNewThrows, Restart, vars
<1> QED  BY <1>2, <1>3, <1>4, <1>5, <1>6 DEF Next

\* While the counter of ids gains no digit every behaviour of the vault is one
\* of MemeStore: a meme is published under an unused id, revised without losing its token,
\* revived or retracted, and no other meme is touched.
THEOREM Implementation == SameLength => (Spec => ImplementsStore)
<1>1. SUFFICES ASSUME SameLength PROVE Spec => ImplementsStore
  OBVIOUS
<1>2. Inv => Store!IsStore
  BY MemesType DEF Inv
<1>3. Init => Store!Init
  BY <1>2, InitInv DEF Store!Init
<1>4. Inv /\ Inv' /\ [Next]_vars => [Store!Next]_(Memes(rows))
  BY <1>1, StoreStep
<1> QED  BY <1>3, <1>4, Invariance, PTL DEF Spec, ImplementsStore, Store!Spec
=============================================================================
