------------------------------ MODULE MemeText ------------------------------
(***************************************************************************)
(* What becomes of the texts a user types: the form of create.html or      *)
(* edit.html, the body of the POST, parseRequestBody, the row, the pages   *)
(* that MemeView, MemeResult and MemeEdit fill in, and the search.         *)
(*                                                                         *)
(* A text is a sequence of atoms: single characters, and the few longer    *)
(* strings that the code replaces, among them what follows the "&" of an   *)
(* entity.  The browser's part (encoding a form, displaying a page) is     *)
(* modelled from what these pages and functions rely on.                   *)
(***************************************************************************)
EXTENDS Integers, Sequences, SequencesExt

CONSTANTS
    Names, Tops,    \* the texts that may be typed for a new meme
    Retyped,        \* the texts that may be typed over the top text in the edit form
    Terms           \* the terms that may be searched for

ASSUME TextsAssumption == Names \union Tops \union Retyped \union Terms \subseteq Seq(STRING)

VARIABLES
    page,       \* the page the user has before them
    form,       \* the texts in the form's fields
    changed,    \* whether the user has typed in the form
    sent,       \* history: the texts that were in the form last sent
    row,        \* the texts in the meme's row
    shown,      \* the texts displayed by the last page of the meme
    search      \* the last search: the term typed and whether the meme was found

vars == <<page, form, changed, sent, row, shown, search>>

Entities == [c \in {"&", "\"", "'", "<", ">", " "} |->
    CASE c = "&"  -> "amp;"  [] c = "\"" -> "quot;" [] c = "'" -> "apos;"
      [] c = "<"  -> "lt;"   [] c = ">"  -> "gt;"   [] c = " " -> "nbsp;"]

-----------------------------------------------------------------------------
(* Replacing.                                                              *)

\* Every atom of s replaced by the sequence Image says.
Substitute(s, Image(_)) == FlattenSeq([k \in DOMAIN s |-> Image(s[k])])

\* boost::replace_all of an atom that stands for a placeholder or a character.
replace_all(s, atom, t) == Substitute(s, LAMBDA x : IF x = atom THEN t ELSE <<x>>)

\* Where "&" and what follows it spell an entity of one of the characters cs.
SpelledAt(s, k, cs) ==
    k \in 1 .. Len(s) - 1 /\ s[k] = "&" /\ \E c \in cs : s[k + 1] = Entities[c]

Decoded(s, cs) ==
    FlattenSeq([k \in DOMAIN s |->
        IF SpelledAt(s, k, cs) THEN <<CHOOSE c \in cs : s[k + 1] = Entities[c]>>
        ELSE IF SpelledAt(s, k - 1, cs) THEN <<>>
        ELSE <<s[k]>>])

\* Fault: the ampersands themselves are forgotten.
EncodeAllButAmp(s) ==
    Substitute(s, LAMBDA x : IF x \in DOMAIN Entities \ {"&"} THEN <<"&", Entities[x]>> ELSE <<x>>)

\* URLParser::htmlEncode.
htmlEncode(s) ==
    Substitute(s, LAMBDA x : IF x \in DOMAIN Entities THEN <<"&", Entities[x]>> ELSE <<x>>)

\* Fault: a non-breaking space is replaced by nothing.
DecodeDropsSpaces(s) ==
    SelectSeq(FoldLeft(LAMBDA t, c : Decoded(t, {c}), s, <<"&", "\"", "'", "<", ">", " ">>),
              LAMBDA x : x # " ")

\* URLParser::htmlDecode: one replace_all after the other, "&amp;" first.
htmlDecode(s) ==
    FoldLeft(LAMBDA t, c : Decoded(t, {c}), s, <<"&", "\"", "'", "<", ">", " ">>)

-----------------------------------------------------------------------------
(* The browser.                                                            *)

\* A form's value in a body or a query: a space is a plus, letters stand for
\* themselves, the rest is a percent sign and the atom's code.
Literal == {"a", "b", "2F"}
FormEncoded(s) ==
    [k \in DOMAIN s |-> IF s[k] = " " THEN <<"+">>
                        ELSE IF s[k] \in Literal THEN <<s[k]>> ELSE <<"%", s[k]>>]

\* HTML text and attribute values: entities are decoded once, from left to
\* right; a value ends at the first quote.
Displayed(s) == Decoded(s, DOMAIN Entities)
InValue(s) ==
    Displayed(IF "\"" \in Range(s) THEN SubSeq(s, 1, SelectInSeq(s, LAMBDA x : x = "\"") - 1)
              ELSE s)

-----------------------------------------------------------------------------
(* The server.                                                             *)

\* URLParser::urlDecode: a percent sign and two digits are a character.
urlDecode(e) == [k \in DOMAIN e |-> IF Len(e[k]) = 2 THEN e[k][2] ELSE e[k][1]]

\* The first "%2F" that is left in a value becomes a slash.
FirstSlash(s) ==
    LET at == {k \in 1 .. Len(s) - 1 : s[k] = "%" /\ s[k + 1] = "2F"}
    IN  IF at = {} THEN s
        ELSE LET k == CHOOSE k \in at : \A j \in at : k <= j
             IN  SubSeq(s, 1, k - 1) \o <<"/">> \o SubSeq(s, k + 2, Len(s))

\* Fault: the text is stored as it came.
RawField(e) == replace_all(FirstSlash(urlDecode(e)), "+", <<" ">>)

\* parseRequestBody on one field: decoded, then every plus made a space.
Field(e) == htmlEncode(replace_all(FirstSlash(urlDecode(e)), "+", <<" ">>))

\* The pages replace their six placeholders one after the other, the id first,
\* so that a text put in for one is searched for the next.  The image, the
\* bottom text and the token of the row are one atom each.
Filled(s, name, top) ==
    LET named  == replace_all(s, "meme_object_name", name)
        imaged == replace_all(named, "meme_object_img", <<"image">>)
        topped == replace_all(imaged, "meme_object_top", top)
        bottomed == replace_all(topped, "meme_object_bot", <<"bottom">>)
    IN  replace_all(bottomed, "meme_object_atoken", <<"token">>)
Slots(name, top) ==
    [name |-> Filled(<<"meme_object_name">>, name, top),
     top  |-> Filled(<<"meme_object_top">>, name, top)]

\* MemeView, MemeResult: the texts of the row r as they are.
ViewPage(r) == Slots(r.name, r.top)

\* Fault: the two fields are filled in the wrong order.
SwappedFields == Slots(htmlDecode(row.top), htmlDecode(row.name))

\* MemeEdit: the row's texts decoded, in the values of input fields.
EditPage == Slots(htmlDecode(row.name), htmlDecode(row.top))

\* MemeSearch on q, the encoded term: here a plus is a space before the rest
\* is decoded, and what was typed as an entity is decoded too.
SearchTerm(q) ==
    htmlDecode(urlDecode([k \in DOMAIN q |-> IF q[k] = <<"+">> THEN <<" ">> ELSE q[k]]))

\* SQL's LIKE with "%" around the pattern: From[j] holds where in the text what
\* the pattern has from j on may begin, where "%" is any text.
LikeWithin(s, pattern) ==
    LET From[j \in 1 .. Len(pattern) + 1] ==
          IF j > Len(pattern) THEN 1 .. Len(s) + 1
          ELSE IF pattern[j] = "%" THEN {i \in 1 .. Len(s) + 1 : \E k \in From[j + 1] : i <= k}
          ELSE {i \in 1 .. Len(s) : s[i] = pattern[j] /\ i + 1 \in From[j + 1]}
    IN  From[1] # {}

\* Fault: the term is not encoded like the rows.
FoundRaw(term) == \E s \in {row.name, row.top} : LikeWithin(s, term)

\* SearchFromDatabase.
Found(term) ==
    \E s \in {row.name, row.top} : LikeWithin(s, htmlEncode(term))

-----------------------------------------------------------------------------
NoText == [name |-> <<>>, top |-> <<>>]
NoSearch == [term |-> <<>>, hit |-> TRUE]

Init ==
    /\ page = "create" /\ changed = TRUE
    /\ form \in [name: Names, top: Tops]
    /\ sent = NoText /\ row = NoText /\ shown = NoText /\ search = NoSearch

\* POST: the row is written, and the page that answers shows it.
Submit ==
    /\ page \in {"create", "edit"}
    /\ sent' = form
    /\ row' = [name |-> Field(FormEncoded(form.name)), top |-> Field(FormEncoded(form.top))]
    /\ page' = "view"
    /\ shown' = [name |-> Displayed(ViewPage(row').name), top |-> Displayed(ViewPage(row').top)]
    /\ UNCHANGED <<form, changed, search>>

\* The edit page with the row's texts in its fields.
MemeEdit ==
    /\ page = "view"
    /\ page' = "edit" /\ changed' = FALSE
    /\ form' = [name |-> InValue(EditPage.name), top |-> InValue(EditPage.top)]
    /\ UNCHANGED <<sent, row, shown, search>>

\* The user changes the top text.
Retype(t) ==
    /\ page = "edit" /\ ~changed
    /\ form' = [form EXCEPT !.top = t] /\ changed' = TRUE
    /\ UNCHANGED <<page, sent, row, shown, search>>

\* Fault: an empty list is answered like an error.
NothingFoundIsError(t) ==
    /\ page = "view"
    /\ search' = [term |-> t, hit |-> Found(SearchTerm(FormEncoded(t)))]
    /\ page' = IF search'.hit THEN "list" ELSE "error"
    /\ UNCHANGED <<form, changed, sent, row, shown>>

\* The search form sends what was typed; the list says whether the meme is in it.
MemeSearch(t) ==
    /\ page = "view"
    /\ page' = "list"
    /\ search' = [term |-> t, hit |-> Found(SearchTerm(FormEncoded(t)))]
    /\ UNCHANGED <<form, changed, sent, row, shown>>

\* From the list the user follows the meme's link.
MemeView ==
    /\ page = "list" /\ search.hit
    /\ page' = "view" /\ search' = NoSearch
    /\ shown' = [name |-> Displayed(ViewPage(row).name), top |-> Displayed(ViewPage(row).top)]
    /\ UNCHANGED <<form, changed, sent, row>>

\* Nothing was found: the user starts again from the meme's address.
GoBack ==
    /\ page = "list" /\ ~search.hit
    /\ page' = "view" /\ search' = NoSearch
    /\ UNCHANGED <<form, changed, sent, row, shown>>

Next ==
    \/ Submit \/ MemeEdit \/ MemeView \/ GoBack
    \/ \E t \in Retyped : Retype(t)
    \/ \E t \in Terms : MemeSearch(t)

Spec == Init /\ [][Next]_vars

-----------------------------------------------------------------------------
(* Which texts the server can carry.                                       *)

SpellsEntity(s) == \E k \in DOMAIN s : SpelledAt(s, k, DOMAIN Entities)
SpellsSlash(s) == \E k \in 1 .. Len(s) - 1 : s[k] = "%" /\ s[k + 1] = "2F"

\* The placeholders that are replaced when a text is in the page already.
Placeholders == {"meme_object_img", "meme_object_top", "meme_object_bot", "meme_object_atoken"}

\* Nothing that parseRequestBody rewrites or the pages take for a placeholder.
Carried(s) ==
    /\ Range(s) \intersect ({"+"} \union Placeholders) = {}
    /\ ~SpellsSlash(s)

\* And nothing that the edit form reads as HTML.
Editable(s) == Carried(s) /\ "\"" \notin Range(s) /\ ~SpellsEntity(s)

Both(P(_)) == P(sent.name) /\ P(sent.top)

-----------------------------------------------------------------------------
(* Properties                                                              *)

\* The atoms that a text may hold: those that are typed and those that the code
\* puts in.
Typed == UNION {Range(s) : s \in Names \union Tops \union Retyped \union Terms}
Alphabet == Typed \union DOMAIN Entities \union Range(Entities)
                \union {"+", "/", "image", "bottom", "token"}

TypeOK ==
    /\ page \in {"create", "view", "edit", "list"} /\ changed \in BOOLEAN
    /\ \A t \in {form, sent, row, shown} :
         DOMAIN t = {"name", "top"} /\ Range(t.name) \union Range(t.top) \subseteq Alphabet
    /\ search.hit \in BOOLEAN

\* The pages paste a row's texts into their HTML as they are: nothing in a row is
\* markup, whatever was typed, sent, shown in the edit form and sent again.
RowsAreEncoded ==
    \A s \in {row.name, row.top} :
        /\ Range(s) \intersect (DOMAIN Entities \ {"&"}) = {}
        /\ \A k \in DOMAIN s : s[k] = "&" => SpelledAt(s, k, DOMAIN Entities)

\* A text without plus signs, "%2F" and later placeholders is displayed as it was in
\* the form, through the form's encoding, the decoding and encoding of the server,
\* the row and the page, and after any number of edits: quotes, brackets and
\* texts that spell an entity are shown and do not become markup.
ViewShowsSent == page = "view" /\ Both(Carried) => shown = sent

\* The edit form holds the text as it was sent if it also has no double quote
\* and spells no entity: htmlDecode undoes htmlEncode and the browser has
\* nothing left to decode.
EditShowsSent == page = "edit" /\ ~changed /\ Both(Editable) => form = sent

\* Opening the edit form and sending it back as it is leaves the row alone.
EditKeepsRow ==
    [][page = "edit" /\ page' = "view" /\ ~changed /\ Both(Editable) => row' = row]_vars

\* A search finds the meme whenever the term stands in one of its texts, also
\* with spaces, quotes and brackets, which are encoded in the row.
Within(t, s) == \E k \in 0 .. Len(s) - Len(t) : SubSeq(s, k + 1, k + Len(t)) = t

SearchMissesNothing ==
    Both(Carried) /\ ~SpellsEntity(search.term) /\ ~search.hit =>
        ~Within(search.term, sent.name) /\ ~Within(search.term, sent.top)
=============================================================================
