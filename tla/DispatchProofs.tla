--------------------------- MODULE DispatchProofs ---------------------------
(***************************************************************************)
(* Proofs about Dispatch.  The inductive invariant DispatchInv says that   *)
(* the tables are empty or what ParseString makes of the configuration,    *)
(* that the last answer is one they give, and over what the process stops. *)
(* What the properties need beyond it is about data: the recursion of      *)
(* ParseString finds every handler, in the order of the file where         *)
(* handlers hold no blocks; a table keeps the first entry of a url; the    *)
(* look-up of an attribute in the text of a plain block finds the value of *)
(* its own statement; and splitting a message at its line ends, its first  *)
(* line at its spaces and a header line at its colon gives back what the   *)
(* client put together.                                                    *)
(***************************************************************************)
EXTENDS Dispatch, SequenceLemmas

\* Statements as Parse gives them, of which each stands in a block above it.
Nested(ss) == ss \in Seq(Statement) /\ \A i \in 1 .. Len(ss) : ss[i].block < i

-----------------------------------------------------------------------------
(* The order of ParseString's recursion.                                   *)

\* What InnerFirst puts together for block c.
FoundIn(ss, wanted, f, c) ==
    [i \in DOMAIN ss |->
        IF ss[i].block # c THEN <<>>
        ELSE (IF ss[i].child THEN f[i] ELSE <<>>)
               \o IF i \in wanted THEN <<i>> ELSE <<>>]

FoundStep(ss, wanted, f) == [c \in 0 .. Len(ss) |-> FlattenSeq(FoundIn(ss, wanted, f, c))]

Found(ss, wanted) == CHOOSE f : f = FoundStep(ss, wanted, f)

LEMMA InnerFirstFound == \A ss, b, wanted : InnerFirst(ss, b, wanted) = Found(ss, wanted)[b]
BY DEF InnerFirst, Found, FoundStep, FoundIn

\* Where the blocks further on hold sequences of the wanted statements, block c
\* is put together from such sequences.
LEMMA FoundInType ==
    ASSUME NEW ss, Nested(ss), NEW wanted \in SUBSET (1 .. Len(ss)), NEW f, NEW c \in 0 .. Len(ss),
           \A i \in 0 .. Len(ss) : i > c => f[i] \in Seq(wanted)
    PROVE  FoundIn(ss, wanted, f, c) \in Seq(Seq(wanted))
<1>. DEFINE n == Len(ss)
<1>1. n \in Nat /\ n = Len(ss) /\ DOMAIN ss = 1 .. n /\ \A i \in 1 .. n : ss[i] \in Statement /\ ss[i].block < i
  BY LenProperties, ElementOfSeq DEF Nested
<1>. HIDE DEF n
<1>2. ASSUME NEW i \in 1 .. n PROVE FoundIn(ss, wanted, f, c)[i] \in Seq(wanted)
  <2>1. FoundIn(ss, wanted, f, c)[i]
          = IF ss[i].block # c THEN <<>>
            ELSE (IF ss[i].child THEN f[i] ELSE <<>>) \o IF i \in wanted THEN <<i>> ELSE <<>>
    BY <1>1 DEF FoundIn
  <2>2. CASE ss[i].block # c
    BY <2>1, <2>2, EmptySeq
  <2>3. CASE ss[i].block = c
    <3>. DEFINE inner == IF ss[i].child THEN f[i] ELSE <<>>
                own == IF i \in wanted THEN <<i>> ELSE <<>>
    <3>1. i \in 0 .. n /\ i > c
      BY <1>1, <2>3
    <3>2. f[i] \in Seq(wanted)
      BY <1>1, <3>1
    <3>3. inner \in Seq(wanted)
      BY <3>2, EmptySeq
    <3>4. own \in Seq(wanted)
      BY OneType, EmptySeq
    <3>. HIDE DEF inner, own
    <3>5. inner \o own \in Seq(wanted)
      BY <3>3, <3>4, ConcatProperties
    <3>. QED BY <2>1, <2>3, <3>5 DEF inner, own
  <2>. QED BY <2>2, <2>3
<1>3. DOMAIN FoundIn(ss, wanted, f, c) = 1 .. n
  BY <1>1 DEF FoundIn
<1>4. FoundIn(ss, wanted, f, c) \in [1 .. n -> Seq(wanted)]
  <2>1. FoundIn(ss, wanted, f, c) = [i \in 1 .. n |-> FoundIn(ss, wanted, f, c)[i]]
    BY <1>1 DEF FoundIn
  <2>. QED BY <1>2, <2>1
<1>. QED BY <1>1, <1>4, IsASeq

\* The recursion of InnerFirst defines a sequence of wanted statements for every block.
LEMMA FoundType ==
    ASSUME NEW ss, Nested(ss), NEW wanted \in SUBSET (1 .. Len(ss))
    PROVE  /\ Found(ss, wanted) = FoundStep(ss, wanted, Found(ss, wanted))
           /\ \A c \in 0 .. Len(ss) : Found(ss, wanted)[c] \in Seq(wanted)
<1>. DEFINE n == Len(ss)
            W == [0 .. n -> Seq(wanted)]
            step == [f \in W |-> FoundStep(ss, wanted, f)]
            g == Found(ss, wanted)
<1>1. n \in Nat /\ n = Len(ss) /\ DOMAIN ss = 1 .. n /\ \A i \in 1 .. n : ss[i] \in Statement /\ ss[i].block < i
  BY LenProperties, ElementOfSeq DEF Nested
<1>. HIDE DEF n
<1>2. ASSUME NEW f \in W PROVE FoundStep(ss, wanted, f) \in W
  <2>1. \A c \in 0 .. n : FlattenSeq(FoundIn(ss, wanted, f, c)) \in Seq(wanted)
    BY <1>1, FoundInType, FlattenType
  <2>. QED BY <1>1, <2>1 DEF FoundStep
<1>3. ASSUME NEW f \in W, NEW h \in W, NEW c \in 0 .. n, \A i \in 0 .. n : i > c => f[i] = h[i]
      PROVE  FoundStep(ss, wanted, f)[c] = FoundStep(ss, wanted, h)[c]
  <2>1. \A i \in 1 .. n : ss[i].block = c => f[i] = h[i]
    BY <1>1, <1>3
  <2>2. FoundIn(ss, wanted, f, c) = FoundIn(ss, wanted, h, c)
    BY <1>1, <2>1 DEF FoundIn
  <2>. QED BY <1>1, <2>2 DEF FoundStep
<1>4. Descends(step, n, Seq(wanted))
  <2>1. \A f \in W : step[f] = FoundStep(ss, wanted, f)
    OBVIOUS
  <2>. HIDE DEF step
  <2>. QED BY <1>2, <1>3, <2>1 DEF Descends
<1>5. PICK f \in W : f = step[f]
  <2>. DEFINE V == Seq(wanted)
  <2>1. <<>> \in V /\ Descends(step, n, V)
    BY <1>4, EmptySeq
  <2>2. \E h \in [0 .. n -> V] : h = step[h]
    <3>. HIDE DEF step, V
    <3>. QED BY <1>1, <2>1, DescentExists
  <2>. QED BY <2>2
<1>6. f = FoundStep(ss, wanted, f)
  BY <1>5
<1>7. g = FoundStep(ss, wanted, g)
  BY <1>6 DEF Found
<1>. HIDE DEF g
<1>. DEFINE P == {c \in 0 .. n : g[c] \in Seq(wanted)}
<1>8. ASSUME NEW c \in 0 .. n, \A i \in 0 .. n : i > c => i \in P PROVE c \in P
  <2>1. FlattenSeq(FoundIn(ss, wanted, g, c)) \in Seq(wanted)
    BY <1>1, <1>8, FoundInType, FlattenType
  <2>. QED BY <1>1, <1>7, <2>1 DEF FoundStep
<1>9. P = 0 .. n
  <2>. HIDE DEF P
  <2>1. P \in SUBSET (0 .. n)
    BY DEF P
  <2>. QED BY <1>1, <1>8, <2>1, DescentHolds
<1>. QED BY <1>1, <1>7, <1>9 DEF g

-----------------------------------------------------------------------------
(* The tables.                                                             *)

\* What Parse promises of a configuration.
LEMMA ConfigFacts ==
    ASSUME NEW c \in Configs
    PROVE  /\ Nested(c) /\ Len(c) \in Nat /\ DOMAIN c = 1 .. Len(c)
           /\ Handlers(c) \subseteq 1 .. Len(c)
           /\ \A i \in 1 .. Len(c) : c[i] \in Statement /\ c[i].block < i
BY ConfigsAssumption, LenProperties, ElementOfSeq DEF Nested, Handlers, FileTree

\* The handlers are registered as a sequence of handler statements.
LEMMA RegisteredType ==
    ASSUME NEW c \in Configs
    PROVE  Registered(c) \in Seq(Handlers(c))
<1>1. Nested(c) /\ Handlers(c) \in SUBSET (1 .. Len(c)) /\ 0 \in 0 .. Len(c)
  BY ConfigFacts
<1>2. Found(c, Handlers(c))[0] \in Seq(Handlers(c))
  BY <1>1, FoundType
<1>. QED BY <1>2, InnerFirstFound DEF Registered

\* What is inserted for handler statement b.
EntryOf(c, b) == [url |-> PeekURL(c, b), name |-> c[b].tokens[2], block |-> b]
EntrySet(c) == {EntryOf(c, b) : b \in Handlers(c)}

LEMMA EntriesType ==
    ASSUME NEW c \in Configs, ~Broken(c)
    PROVE  /\ Entries[c] \in Seq(EntrySet(c)) /\ Len(Entries[c]) = Len(Registered(c))
           /\ Len(Registered(c)) \in Nat
           /\ \A i \in 1 .. Len(Registered(c)) :
                Registered(c)[i] \in Handlers(c) /\ Entries[c][i] = EntryOf(c, Registered(c)[i])
<1>. DEFINE R == Registered(c)
            n == Len(R)
            E == EntrySet(c)
<1>1. R \in Seq(Handlers(c)) /\ n \in Nat /\ DOMAIN R = 1 .. n /\ \A i \in 1 .. n : R[i] \in Handlers(c)
  BY RegisteredType, LenProperties, ElementOfSeq
<1>2. Entries[c] = [i \in 1 .. n |-> EntryOf(c, R[i])]
  BY <1>1 DEF Entries, EntryOf
<1>. HIDE DEF R, n
<1>3. \A i \in 1 .. n : EntryOf(c, R[i]) \in E
  BY <1>1 DEF EntrySet
<1>. HIDE DEF E
<1>4. Entries[c] \in [1 .. n -> E]
  BY <1>2, <1>3
<1>5. Entries[c] \in Seq(E) /\ Len(Entries[c]) = n
  BY <1>1, <1>4, IsASeq, LenProperties
<1>. QED BY <1>1, <1>2, <1>5 DEF R, n, E

\* The tables with keys in U and values in X.
TableSet(U, X) == UNION {[D -> X] : D \in SUBSET U}

\* What insert does to a table.
LEMMA InsertTable ==
    ASSUME NEW U, NEW X, NEW t \in TableSet(U, X), NEW u \in U, NEW x \in X
    PROVE  /\ insert(t, u, x) \in TableSet(U, X)
           /\ DOMAIN insert(t, u, x) = DOMAIN t \cup {u}
           /\ \A w \in DOMAIN t : insert(t, u, x)[w] = t[w]
           /\ u \notin DOMAIN t => insert(t, u, x)[u] = x
<1>1. PICK D \in SUBSET U : t \in [D -> X]
  BY DEF TableSet
<1>2. insert(t, u, x) \in [D \cup {u} -> X]
  BY <1>1 DEF insert
<1>3. insert(t, u, x) \in TableSet(U, X)
  <2>1. D \cup {u} \in SUBSET U
    BY <1>1
  <2>. QED BY <1>2, <2>1 DEF TableSet
<1>. QED BY <1>3 DEF insert

NameInsert(t, e) == insert(t, e.url, e.name)
BlockInsert(t, e) == insert(t, e.url, e.block)

Names == INSTANCE FoldLemmas WITH Op <- NameInsert
Blocks == INSTANCE FoldLemmas WITH Op <- BlockInsert

\* The tables are folds of what ParseString inserts.
LEMMA TablesFold ==
    /\ \A c, before : NameTable(c, before) = Names!Folded(before, Entries[c])
    /\ \A c : BlockTable(c) = Blocks!Folded(EmptyTable, Entries[c])
<1>1. \A s, before :
        FoldLeft(LAMBDA t, e : insert(t, e.url, e.name), before, s) = Names!Folded(before, s)
  BY DEF FoldLeft, MapThenFoldSet, Max, Names!Folded, Names!Onto, Names!Top, NameInsert
<1>2. \A s, before :
        FoldLeft(LAMBDA t, e : insert(t, e.url, e.block), before, s) = Blocks!Folded(before, s)
  BY DEF FoldLeft, MapThenFoldSet, Max, Blocks!Folded, Blocks!Onto, Blocks!Top, BlockInsert
<1>. QED BY <1>1, <1>2 DEF NameTable, BlockTable
Urls(c) == {PeekURL(c, b) : b \in Handlers(c)}
HandlerNames(c) == {c[b].tokens[2] : b \in Handlers(c)}

\* Inserting an entry keeps a table a table.
LEMMA InsertsClosed ==
    ASSUME NEW c
    PROVE  /\ Names!Closed(TableSet(Urls(c), HandlerNames(c)), EntrySet(c))
           /\ Blocks!Closed(TableSet(Urls(c), Handlers(c)), EntrySet(c))
<1>1. ASSUME NEW e \in EntrySet(c)
      PROVE  e.url \in Urls(c) /\ e.name \in HandlerNames(c) /\ e.block \in Handlers(c)
  BY DEF EntrySet, EntryOf, Urls, HandlerNames
<1>2. \A t \in TableSet(Urls(c), HandlerNames(c)) : \A e \in EntrySet(c) :
        NameInsert(t, e) \in TableSet(Urls(c), HandlerNames(c))
  BY <1>1, InsertTable DEF NameInsert
<1>3. \A t \in TableSet(Urls(c), Handlers(c)) : \A e \in EntrySet(c) :
        BlockInsert(t, e) \in TableSet(Urls(c), Handlers(c))
  BY <1>1, InsertTable DEF BlockInsert
<1>. QED BY <1>2, <1>3 DEF Names!Closed, Blocks!Closed

\* The empty table is a table.
LEMMA EmptyIsTable == \A U, X : EmptyTable \in TableSet(U, X) /\ DOMAIN EmptyTable = {}
<1>. TAKE U, X
<1>1. EmptyTable \in [{} -> X] /\ DOMAIN EmptyTable = {}
  BY DEF EmptyTable
<1>2. {} \in SUBSET U
  OBVIOUS
<1>. QED BY <1>1, <1>2 DEF TableSet

\* The first of the entries es whose url is u.
FirstOf(es, i, u) == es[i].url = u /\ \A j \in 1 .. i - 1 : es[j].url # u

\* The two tables hold, after k entries, what the first entry of each url says.
Hold(names, blocks, es, k) ==
    /\ DOMAIN names = DOMAIN blocks
    /\ \A u : u \in DOMAIN blocks <=> \E i \in 1 .. k : es[i].url = u
    /\ \A u \in DOMAIN blocks : \E i \in 1 .. k :
         FirstOf(es, i, u) /\ blocks[u] = es[i].block /\ names[u] = es[i].name

\* One entry more.
LEMMA HoldNext ==
    ASSUME NEW names, NEW blocks, NEW es, NEW k \in Nat, Hold(names, blocks, es, k)
    PROVE  Hold(NameInsert(names, es[k + 1]), BlockInsert(blocks, es[k + 1]), es, k + 1)
<1>. DEFINE x == es[k + 1]
            n == NameInsert(names, x)
            b == BlockInsert(blocks, x)
<1>1. /\ DOMAIN n = DOMAIN names \cup {x.url} /\ DOMAIN b = DOMAIN blocks \cup {x.url}
      /\ \A u \in DOMAIN n : n[u] = IF u \in DOMAIN names THEN names[u] ELSE x.name
      /\ \A u \in DOMAIN b : b[u] = IF u \in DOMAIN blocks THEN blocks[u] ELSE x.block
  BY DEF NameInsert, BlockInsert, insert
<1>2. /\ DOMAIN names = DOMAIN blocks
      /\ \A u : u \in DOMAIN blocks <=> \E i \in 1 .. k : es[i].url = u
      /\ \A u \in DOMAIN blocks : \E i \in 1 .. k :
           FirstOf(es, i, u) /\ blocks[u] = es[i].block /\ names[u] = es[i].name
  BY DEF Hold
<1>3. x = es[k + 1] /\ \A i \in 1 .. k + 1 : i \in 1 .. k \/ i = k + 1
  OBVIOUS
<1>4. \A i \in 1 .. k : i \in 1 .. k + 1
  OBVIOUS
<1>5. k + 1 \in 1 .. k + 1 /\ (k + 1) - 1 = k
  OBVIOUS
<1>. HIDE DEF n, b, x
<1>6. \A u : u \in DOMAIN b <=> \E i \in 1 .. k + 1 : es[i].url = u
  BY <1>1, <1>2, <1>3, <1>4, <1>5
<1>7. ASSUME NEW u \in DOMAIN b
      PROVE  \E i \in 1 .. k + 1 : FirstOf(es, i, u) /\ b[u] = es[i].block /\ n[u] = es[i].name
  <2>1. CASE u \in DOMAIN blocks
    BY <1>1, <1>2, <1>4, <2>1
  <2>2. CASE u \notin DOMAIN blocks
    <3>1. u = x.url /\ b[u] = x.block /\ n[u] = x.name
      BY <1>1, <1>2, <2>2
    <3>2. \A j \in 1 .. k : es[j].url # u
      BY <1>2, <2>2
    <3>3. FirstOf(es, k + 1, u)
      BY <1>3, <1>5, <3>1, <3>2 DEF FirstOf
    <3>. QED BY <1>3, <1>5, <3>1, <3>3
  <2>. QED BY <2>1, <2>2
<1>8. Hold(n, b, es, k + 1)
  BY <1>1, <1>2, <1>6, <1>7 DEF Hold
<1>. QED BY <1>8 DEF n, b, x

\* The tables of a configuration hold what the first entry of each url says.
LEMMA TablesHold ==
    ASSUME NEW c \in Configs, ~Broken(c)
    PROVE  /\ Hold(NameTable(c, EmptyTable), BlockTable(c), Entries[c], Len(Entries[c]))
           /\ NameTable(c, EmptyTable) \in TableSet(Urls(c), HandlerNames(c))
           /\ BlockTable(c) \in TableSet(Urls(c), Handlers(c))
<1>. DEFINE es == Entries[c]
            m == Len(es)
            E == EntrySet(c)
            X == TableSet(Urls(c), HandlerNames(c))
            Y == TableSet(Urls(c), Handlers(c))
<1>1. es \in Seq(E) /\ m \in Nat /\ m = Len(es)
  BY EntriesType
<1>2. Names!Closed(X, E) /\ Blocks!Closed(Y, E) /\ EmptyTable \in X /\ EmptyTable \in Y
  BY InsertsClosed, EmptyIsTable
<1>. HIDE DEF es, m, E, X, Y
<1>3. PICK r : Names!FoldSteps(r, EmptyTable, es, X)
  BY <1>1, <1>2, Names!FoldedSteps
<1>4. PICK q : Blocks!FoldSteps(q, EmptyTable, es, Y)
  BY <1>1, <1>2, Blocks!FoldedSteps
<1>5. /\ r[0] = EmptyTable /\ (\A k \in 1 .. m : r[k] = NameInsert(r[k - 1], es[k]))
      /\ Names!Folded(EmptyTable, es) = r[m] /\ r[m] \in X
  BY <1>1, <1>3 DEF Names!FoldSteps
<1>6. /\ q[0] = EmptyTable /\ (\A k \in 1 .. m : q[k] = BlockInsert(q[k - 1], es[k]))
      /\ Blocks!Folded(EmptyTable, es) = q[m] /\ q[m] \in Y
  BY <1>1, <1>4 DEF Blocks!FoldSteps
<1>. DEFINE N == {k \in Nat : k <= m => Hold(r[k], q[k], es, k)}
<1>7. 0 \in N
  <2>1. Hold(EmptyTable, EmptyTable, es, 0)
    BY EmptyIsTable DEF Hold
  <2>. QED BY <1>5, <1>6, <2>1
<1>8. ASSUME NEW k \in N PROVE k + 1 \in N
  <2>. SUFFICES ASSUME k + 1 <= m PROVE Hold(r[k + 1], q[k + 1], es, k + 1)
    OBVIOUS
  <2>1. k \in Nat /\ Hold(r[k], q[k], es, k) /\ k + 1 \in 1 .. m /\ (k + 1) - 1 = k
    BY <1>1
  <2>2. r[k + 1] = NameInsert(r[k], es[k + 1]) /\ q[k + 1] = BlockInsert(q[k], es[k + 1])
    BY <1>5, <1>6, <2>1
  <2>. HIDE DEF N
  <2>. QED BY <2>1, <2>2, HoldNext
<1>9. N = Nat
  <2>. HIDE DEF N
  <2>1. N \in SUBSET Nat
    BY DEF N
  <2>. QED BY <1>7, <1>8, <2>1, NatSetInduction
<1>10. Hold(r[m], q[m], es, m)
  BY <1>1, <1>9
<1>11. NameTable(c, EmptyTable) = r[m] /\ BlockTable(c) = q[m]
  BY <1>5, <1>6, TablesFold DEF es
<1>. QED BY <1>5, <1>6, <1>10, <1>11 DEF X, Y, es, m

\* Inserting everything once more changes nothing.
LEMMA InsertedTwice ==
    ASSUME NEW c \in Configs, ~Broken(c)
    PROVE  NameTable(c, NameTable(c, EmptyTable)) = NameTable(c, EmptyTable)
<1>. DEFINE t == NameTable(c, EmptyTable)
            es == Entries[c]
            m == Len(es)
            E == {e \in EntrySet(c) : e.url \in DOMAIN t}
<1>1. es \in Seq(EntrySet(c)) /\ m \in Nat /\ m = Len(es) /\ t \in TableSet(Urls(c), HandlerNames(c))
  BY EntriesType, TablesHold
<1>2. \A i \in 1 .. m : es[i].url \in DOMAIN t
  BY TablesHold DEF Hold
<1>. HIDE DEF t, es, m
<1>3. es \in Seq(E)
  <2>1. \A i \in 1 .. m : es[i] \in E
    BY <1>1, <1>2, ElementOfSeq
  <2>2. es = [i \in 1 .. m |-> es[i]]
    BY <1>1
  <2>. HIDE DEF E
  <2>3. es \in [1 .. m -> E]
    BY <2>1, <2>2
  <2>. QED BY <1>1, <2>3, IsASeq
<1>4. Names!Closed({t}, E)
  <2>1. PICK D : t \in [D -> HandlerNames(c)]
    BY <1>1 DEF TableSet
  <2>2. ASSUME NEW e \in E PROVE NameInsert(t, e) = t
    <3>1. DOMAIN t \cup {e.url} = DOMAIN t
      OBVIOUS
    <3>2. insert(t, e.url, e.name) = [u \in DOMAIN t |-> t[u]]
      BY <3>1 DEF insert
    <3>. QED BY <2>1, <3>2 DEF NameInsert
  <2>. HIDE DEF E
  <2>. QED BY <2>2 DEF Names!Closed
<1>. HIDE DEF E
<1>5. Names!Folded(t, es) \in {t}
  <2>1. t \in {t}
    OBVIOUS
  <2>. DEFINE T == {t}
  <2>2. t \in T /\ Names!Closed(T, E)
    BY <1>4
  <2>. HIDE DEF T
  <2>3. Names!Folded(t, es) \in T
    BY <1>3, <2>2, Names!FoldedType
  <2>. QED BY <2>3 DEF T
<1>6. NameTable(c, t) = Names!Folded(t, es)
  BY TablesFold DEF es
<1>. QED BY <1>5, <1>6 DEF t

-----------------------------------------------------------------------------
(* The look-up of an attribute.                                            *)

Open == "{"
Close == "}"
Semicolon == ";"

\* The marks are no statement's tokens, and no attribute's name is in them.
LEMMA MarksFacts ==
    /\ Open \in Punctuation /\ Close \in Punctuation /\ Semicolon \in Punctuation
    /\ \A attr \in DOMAIN Occurs : ~Has(Semicolon, attr)
<1>1. Open \in Punctuation /\ Close \in Punctuation /\ Semicolon \in Punctuation
  BY Zenon DEF Open, Close, Semicolon, Punctuation
<1>. QED BY <1>1, OccursAssumption DEF Has

\* The tokens of the statements of block b, each with its semicolon.
Lines(c, b) == [i \in 1 .. Len(c) |-> IF c[i].block # b THEN <<>> ELSE c[i].tokens \o <<Semicolon>>]

\* The text of a block without blocks in it.
LEMMA FlatText ==
    ASSUME NEW c \in Configs, NEW b \in 0 .. Len(c), \A i \in DOMAIN c : c[i].block = b => ~c[i].child
    PROVE  Text(c, b) = FlattenSeq(Lines(c, b))
<1>. DEFINE f == TextOf(c, Open, Close, Semicolon)
<1>1. Text(c, b) = BlockTokens(c, b, Open, Close, Semicolon)
  BY Zenon DEF Text, Texts, Open, Close, Semicolon
<1>2. Text(c, b) = f[b]
  BY <1>1, BlockTokensText
<1>3. f[b] = FlattenSeq(TextIn(c, f, b, Open, Close, Semicolon))
  <2>1. f = TextStep(c, f, Open, Close, Semicolon)
    <3>1. Nesting(c, STRING)
      BY ConfigFacts DEF Nested, Nesting, Statement, Written
    <3>. QED BY <3>1, TextOfStep
  <2>. HIDE DEF f
  <2>. QED BY <2>1 DEF TextStep
<1>4. TextIn(c, f, b, Open, Close, Semicolon) = Lines(c, b)
  <2>. HIDE DEF f
  <2>1. DOMAIN c = 1 .. Len(c)
    BY ConfigFacts
  <2>. QED BY <2>1 DEF TextIn, Lines
<1>. QED BY <1>2, <1>3, <1>4

\* No token of s holds the attribute's name.
FreeOf(s, attr) == \A k \in 1 .. Len(s) : ~Has(s[k], attr)

\* t is a statement of the attribute's name and a value, and its semicolon.
Says(t, attr) ==
    /\ Len(t) = 3 /\ t[1] = attr /\ t[3] = Semicolon /\ t[2] \notin Punctuation
    /\ Has(attr, attr) /\ Occurs[attr][attr] = "end" /\ ~Has(t[2], attr)

\* Where the name occurs once, as a token followed by the value and a semicolon,
\* the look-up finds that value.
LEMMA ValueFound ==
    ASSUME NEW A, NEW p \in Seq(A), NEW q \in Seq(A), NEW t \in Seq(A), NEW attr \in DOMAIN Occurs,
           FreeOf(p, attr), FreeOf(q, attr), Says(t, attr)
    PROVE  Hits(p \o (t \o q), attr) # {} /\ ValueAt(p \o (t \o q), attr) = t[2]
<1>. DEFINE u == t \o q
            text == p \o u
            m == Len(p)
            n == Len(q)
<1>0. /\ \A k \in 1 .. Len(p) : ~Has(p[k], attr)
      /\ \A k \in 1 .. Len(q) : ~Has(q[k], attr)
      /\ Len(t) = 3 /\ t[1] = attr /\ ~Has(t[2], attr) /\ t[3] = Semicolon /\ t[2] \notin Punctuation
      /\ Has(attr, attr) /\ Occurs[attr][attr] = "end"
  BY DEF FreeOf, Says
<1>1. m \in Nat /\ n \in Nat /\ m = Len(p) /\ n = Len(q)
  BY LenProperties
<1>2. /\ u \in Seq(A) /\ Len(u) = 3 + n /\ u[1] = t[1] /\ u[2] = t[2] /\ u[3] = t[3]
      /\ \A k \in 4 .. 3 + n : u[k] = q[k - 3]
  <2>1. /\ u \in Seq(A) /\ Len(u) = Len(t) + Len(q)
        /\ \A k \in 1 .. Len(t) + Len(q) : u[k] = IF k <= Len(t) THEN t[k] ELSE q[k - Len(t)]
    BY ConcatProperties
  <2>. HIDE DEF u, n
  <2>2. /\ u \in Seq(A) /\ Len(u) = 3 + n
        /\ \A k \in 1 .. 3 + n : u[k] = IF k <= 3 THEN t[k] ELSE q[k - 3]
    BY <1>0, <1>1, <2>1
  <2>3. 1 \in 1 .. 3 + n /\ 2 \in 1 .. 3 + n /\ 3 \in 1 .. 3 + n
    BY <1>1
  <2>. QED BY <1>1, <2>2, <2>3
<1>. HIDE DEF u, m, n
<1>3. /\ text \in Seq(A) /\ Len(text) = m + 3 + n /\ DOMAIN text = 1 .. m + 3 + n
      /\ (\A k \in 1 .. m : text[k] = p[k])
      /\ \A k \in m + 1 .. m + 3 + n : text[k] = u[k - m]
  <2>1. /\ text \in Seq(A) /\ Len(text) = Len(p) + Len(u)
        /\ \A k \in 1 .. Len(p) + Len(u) : text[k] = IF k <= Len(p) THEN p[k] ELSE u[k - Len(p)]
    BY ZenonT(30), <1>2, ConcatProperties
  <2>. HIDE DEF text
  <2>3. DOMAIN text = 1 .. Len(text)
    BY <2>1, LenProperties
  <2>2. /\ Len(text) = m + 3 + n
        /\ \A k \in 1 .. m + 3 + n : text[k] = IF k <= m THEN p[k] ELSE u[k - m]
    BY <1>1, <1>2, <2>1
  <2>4. ASSUME NEW k \in 1 .. m PROVE text[k] = p[k]
    <3>1. k \in 1 .. m + 3 + n /\ k <= m
      BY <1>1
    <3>. QED BY <2>2, <3>1
  <2>5. ASSUME NEW k \in m + 1 .. m + 3 + n PROVE text[k] = u[k - m]
    <3>1. k \in 1 .. m + 3 + n /\ ~(k <= m)
      BY <1>1
    <3>. QED BY <2>2, <3>1
  <2>. QED BY <2>1, <2>2, <2>3, <2>4, <2>5
<1>. HIDE DEF text
<1>4. text[m + 1] = attr /\ text[m + 2] = t[2] /\ text[m + 3] = Semicolon
  <2>1. /\ m + 1 \in m + 1 .. m + 3 + n /\ m + 2 \in m + 1 .. m + 3 + n /\ m + 3 \in m + 1 .. m + 3 + n
        /\ (m + 1) - m = 1 /\ (m + 2) - m = 2 /\ (m + 3) - m = 3
    BY <1>1
  <2>. QED BY <1>0, <1>2, <1>3, <2>1
<1>5. ASSUME NEW k \in 1 .. m + 3 + n, k # m + 1 PROVE ~Has(text[k], attr)
  <2>1. CASE k \in 1 .. m
    BY <1>0, <1>1, <1>3, <2>1
  <2>2. CASE k = m + 2
    BY <1>0, <1>4, <2>2
  <2>3. CASE k = m + 3
    BY <1>4, <2>3, MarksFacts
  <2>4. CASE k > m + 3
    <3>1. k - m \in 4 .. 3 + n /\ (k - m) - 3 \in 1 .. n /\ k \in m + 1 .. m + 3 + n
      BY <1>1, <2>4
    <3>2. text[k] = q[(k - m) - 3]
      BY <1>2, <1>3, <3>1
    <3>. QED BY <1>0, <1>1, <3>1, <3>2
  <2>5. k \in 1 .. m \/ k = m + 2 \/ k = m + 3 \/ k > m + 3
    BY <1>1, <1>5
  <2>. QED BY <2>1, <2>2, <2>3, <2>4, <2>5
<1>6. m + 1 \in 1 .. m + 3 + n
  BY <1>1
<1>7. Hits(text, attr) = {m + 1}
  BY <1>0, <1>3, <1>4, <1>5, <1>6 DEF Hits
<1>8. Min(Hits(text, attr)) = m + 1
  <2>1. Min({m + 1}) = m + 1
    BY <1>1 DEF Min
  <2>. QED BY <1>7, <2>1
<1>9. m + 1 + 1 = m + 2 /\ m + 1 + 2 = m + 3 /\ m + 1 + 2 <= Len(text)
  BY <1>1, <1>3
<1>10. ValueAt(text, attr) = t[2]
  BY <1>0, <1>4, <1>8, <1>9 DEF ValueAt, Semicolon
<1>. QED BY <1>7, <1>10 DEF text, u

\* In a block that is plain in an attribute the look-up finds what the block's own
\* statement says.
LEMMA PlainValue ==
    ASSUME NEW c \in Configs, NEW b \in 0 .. Len(c), NEW attr \in DOMAIN Occurs, Plain(c, b, attr)
    PROVE  ~Lost(c, b, attr) /\ ValueAt(Text(c, b), attr) = Own(c, b, attr)
<1>. DEFINE n == Len(c)
            A == STRING \cup Punctuation
            F == {w \in A : ~Has(w, attr)}
<1>1. n \in Nat /\ n = Len(c) /\ DOMAIN c = 1 .. n
  BY ConfigFacts
<1>2. PICK i \in OwnStatements(c, b, attr) :
         /\ Len(c[i].tokens) = 2
         /\ Has(attr, attr) /\ Occurs[attr][attr] = "end"
         /\ \A j \in DOMAIN c : c[j].block = b =>
              \A k \in DOMAIN c[j].tokens : Has(c[j].tokens[k], attr) => j = i /\ k = 1
  BY DEF Plain
<1>3. i \in 1 .. n /\ c[i].block = b /\ c[i].tokens[1] = attr
  BY <1>1, <1>2 DEF OwnStatements
<1>4. ASSUME NEW j \in 1 .. n
      PROVE  /\ c[j].tokens \in Seq(A) /\ Len(c[j].tokens) \in Nat \ {0}
             /\ DOMAIN c[j].tokens = 1 .. Len(c[j].tokens)
             /\ \A k \in 1 .. Len(c[j].tokens) : c[j].tokens[k] \in A /\ c[j].tokens[k] \notin Punctuation
  <2>. DEFINE t == c[j].tokens
  <2>1. t \in Seq(STRING) /\ t # <<>>
    BY <1>1, ConfigFacts, ConfigsAssumption DEF Statement, FileTree
  <2>2. \A k \in DOMAIN t : t[k] \notin Punctuation
    BY <1>1, ConfigsAssumption DEF FileTree
  <2>. HIDE DEF t
  <2>3. Len(t) \in Nat /\ Len(t) # 0 /\ DOMAIN t = 1 .. Len(t) /\ \A k \in 1 .. Len(t) : t[k] \in STRING
    BY <2>1, LenProperties, ElementOfSeq, EmptySeq
  <2>4. t = [k \in 1 .. Len(t) |-> t[k]]
    BY <2>1, <2>3
  <2>5. t \in [1 .. Len(t) -> A]
    BY <2>3, <2>4
  <2>6. t \in Seq(A)
    <3>. HIDE DEF A
    <3>. QED BY <2>3, <2>5, IsASeq
  <2>. QED BY <2>2, <2>3, <2>6 DEF t
<1>. HIDE DEF n, A
<1>5. OwnStatements(c, b, attr) = {i}
  <2>1. ASSUME NEW j \in OwnStatements(c, b, attr) PROVE j = i
    <3>1. j \in 1 .. n /\ c[j].block = b /\ c[j].tokens[1] = attr
      BY <1>1, <2>1 DEF OwnStatements
    <3>2. 1 \in DOMAIN c[j].tokens
      BY <1>4, <3>1
    <3>. QED BY <1>1, <1>2, <3>1, <3>2
  <2>. QED BY <1>2, <2>1
<1>6. Own(c, b, attr) = c[i].tokens[2]
  <2>1. Min({i}) = i
    BY <1>1, <1>3 DEF Min
  <2>. QED BY <1>5, <2>1 DEF Own
<1>7. Semicolon \in A /\ ~Has(Semicolon, attr)
  BY MarksFacts DEF A
<1>. DEFINE parts == Lines(c, b)
<1>8. ASSUME NEW j \in 1 .. n
      PROVE  parts[j] \in Seq(A) /\ (j # i => parts[j] \in Seq(F))
  <2>1. parts[j] = IF c[j].block # b THEN <<>> ELSE c[j].tokens \o <<Semicolon>>
    BY <1>1 DEF Lines
  <2>2. CASE c[j].block # b
    BY <2>1, <2>2, EmptySeq
  <2>3. CASE c[j].block = b
    <3>. DEFINE t == c[j].tokens
                e == <<Semicolon>>
    <3>1. t \in Seq(A) /\ e \in Seq(A)
      BY <1>4, <1>7
    <3>2. ASSUME j # i PROVE t \in Seq(F)
      <4>1. \A k \in 1 .. Len(t) : t[k] \in F
        BY <1>1, <1>2, <1>4, <2>3, <3>2
      <4>2. Len(t) \in Nat /\ t = [k \in 1 .. Len(t) |-> t[k]]
        BY <1>4
      <4>. HIDE DEF t, F
      <4>3. t \in [1 .. Len(t) -> F]
        BY <4>1, <4>2
      <4>. QED BY <4>2, <4>3, IsASeq
    <3>3. e \in Seq(F)
      BY <1>7
    <3>4. parts[j] = t \o e
      BY <2>1, <2>3
    <3>. HIDE DEF t, e, F, parts
    <3>5. t \o e \in Seq(A)
      BY <3>1, ConcatProperties
    <3>6. j # i => t \o e \in Seq(F)
      BY <3>2, <3>3, ConcatProperties
    <3>. QED BY <3>4, <3>5, <3>6
  <2>. QED BY <2>2, <2>3
<1>9. Text(c, b) = FlattenSeq(parts)
  BY FlatText DEF Plain
<1>10. parts \in Seq(Seq(A)) /\ Len(parts) = n
  <2>1. parts = [j \in 1 .. n |-> parts[j]]
    BY <1>1 DEF Lines
  <2>. HIDE DEF parts
  <2>2. parts \in [1 .. n -> Seq(A)]
    BY <1>8, <2>1
  <2>. QED BY <1>1, <2>2, IsASeq, LenProperties
<1>. DEFINE before == SubSeq(parts, 1, i - 1)
            after == SubSeq(parts, i + 1, n)
            t == c[i].tokens \o <<Semicolon>>
<1>11. parts[i] = t
  BY <1>1, <1>3 DEF Lines
<1>. HIDE DEF parts
<1>12. before \in Seq(Seq(F)) /\ after \in Seq(Seq(F))
  <2>. DEFINE B == Seq(A)
              G == Seq(F)
  <2>0. parts \in Seq(B) /\ (\A j \in 1 .. n : j # i => parts[j] \in G)
    BY <1>8, <1>10
  <2>. HIDE DEF B, G
  <2>1. /\ before \in Seq(B) /\ Len(before) = i - 1 /\ (\A k \in 1 .. i - 1 : before[k] = parts[k])
        /\ after \in Seq(B) /\ Len(after) = n - i /\ (\A k \in 1 .. n - i : after[k] = parts[i + k])
    <3>1. before \in Seq(B) /\ Len(before) = i - 1 /\ (\A k \in 1 .. i - 1 : before[k] = parts[k])
      BY <1>1, <1>3, <1>10, <2>0, SubSeqProperties
    <3>2. after \in Seq(B) /\ Len(after) = n - i /\ (\A k \in 1 .. n - i : after[k] = parts[i + k])
      BY <1>1, <1>3, <1>10, <2>0, SubSeqProperties
    <3>. QED BY <3>1, <3>2
  <2>. HIDE DEF before, after
  <2>2. (\A k \in 1 .. i - 1 : before[k] \in G) /\ \A k \in 1 .. n - i : after[k] \in G
    <3>1. ASSUME NEW k \in 1 .. i - 1 PROVE before[k] \in G
      <4>1. k \in 1 .. n /\ k # i
        BY <1>1, <1>3
      <4>. QED BY <2>0, <2>1, <4>1
    <3>2. ASSUME NEW k \in 1 .. n - i PROVE after[k] \in G
      <4>1. i + k \in 1 .. n /\ i + k # i
        BY <1>1, <1>3
      <4>. QED BY <2>0, <2>1, <4>1
    <3>. QED BY <3>1, <3>2
  <2>3. before \in [1 .. i - 1 -> G] /\ after \in [1 .. n - i -> G] /\ i - 1 \in Nat /\ n - i \in Nat
    BY <1>1, <1>3, <2>1, <2>2
  <2>. QED BY <2>3, IsASeq DEF G
<1>. DEFINE p == FlattenSeq(before)
            q == FlattenSeq(after)
<1>13. Text(c, b) = p \o (t \o q)
  <2>. HIDE DEF t
  <2>. QED BY <1>3, <1>9, <1>10, <1>11, FlattenSplit
<1>14. p \in Seq(F) /\ q \in Seq(F)
  <2>. HIDE DEF before, after, F
  <2>. QED BY <1>12, FlattenType
<1>. HIDE DEF p, q
<1>15. /\ p \in Seq(A) /\ q \in Seq(A) /\ FreeOf(p, attr) /\ FreeOf(q, attr)
  BY <1>14 DEF FreeOf
<1>16. /\ t \in Seq(A) /\ Len(t) = 3 /\ t[1] = attr /\ t[2] = c[i].tokens[2] /\ t[3] = Semicolon
       /\ ~Has(c[i].tokens[2], attr) /\ c[i].tokens[2] \notin Punctuation
  <2>. DEFINE w == c[i].tokens
              e == <<Semicolon>>
  <2>1. w \in Seq(A) /\ Len(w) = 2 /\ DOMAIN w = 1 .. 2 /\ w[1] = attr /\ w[2] \notin Punctuation
    BY <1>2, <1>3, <1>4
  <2>2. e \in Seq(A) /\ Len(e) = 1 /\ e[1] = Semicolon
    BY <1>7
  <2>3. ~Has(w[2], attr)
    BY <1>1, <1>2, <1>3, <2>1
  <2>. HIDE DEF w, e
  <2>4. w \o e \in Seq(A) /\ Len(w \o e) = 3 /\ (w \o e)[1] = attr /\ (w \o e)[2] = w[2] /\ (w \o e)[3] = e[1]
    <3>1. /\ w \o e \in Seq(A) /\ Len(w \o e) = Len(w) + Len(e)
          /\ \A k \in 1 .. Len(w) + Len(e) : (w \o e)[k] = IF k <= Len(w) THEN w[k] ELSE e[k - Len(w)]
      BY <2>1, <2>2, ConcatProperties
    <3>2. Len(w \o e) = 3 /\ \A k \in 1 .. 3 : (w \o e)[k] = IF k <= 2 THEN w[k] ELSE e[k - 2]
      BY <2>1, <2>2, <3>1
    <3>. QED BY <2>1, <3>1, <3>2
  <2>. QED BY <2>1, <2>2, <2>3, <2>4 DEF w, e
<1>. HIDE DEF t, A
<1>17. Hits(p \o (t \o q), attr) # {} /\ ValueAt(p \o (t \o q), attr) = t[2]
  <2>1. Says(t, attr)
    BY <1>2, <1>16 DEF Says
  <2>. QED BY <1>15, <1>16, <2>1, ValueFound
<1>. QED BY <1>6, <1>13, <1>16, <1>17 DEF Lost

-----------------------------------------------------------------------------
(* The inductive invariant.                                                *)

\* The tables are empty, or they are what the configuration makes them; the
\* status page's table is the table of names.
TablesFilled ==
    \/ /\ handlerTable_ = EmptyTable /\ configTable_ = EmptyTable
       /\ url_handlers_map_ = EmptyTable
    \/ /\ ~Broken(config)
       /\ handlerTable_ = NameTable(config, EmptyTable)
       /\ configTable_ = BlockTable(config)
       /\ url_handlers_map_ = handlerTable_

\* The last answer is one that the tables give.
AnswerIsServed ==
    \/ answer = NoAnswer
    \/ /\ answer.raw \in Requests /\ answer.request = Parsed[answer.raw] /\ ~Broken(config)
       /\ LET u == Path(answer.raw).uri
              b == answer.block
              name == config[b].tokens[2]
          IN  IF u \in DOMAIN BlockTable(config)
              THEN /\ b = BlockTable(config)[u] /\ name \in DOMAIN Reads
                   /\ answer.values = create(config, b, name)
                   /\ answer.code \in Codes(name, answer.values, Path(answer.raw).rest, answer.request)
              ELSE b = 0 /\ answer.values = <<>> /\ answer.code = 404

\* The process stops over a configuration that is not well formed, or in a
\* handler that gives no answer.
StopsWith ==
    /\ phase \in {"starting", "no port", "not bound", "serving", "ended", "crashed", "no data"}
    /\ phase = "crashed" => ~WellFormed(config)
    /\ phase = "ended" => answer # NoAnswer /\ answer.code = 0

DispatchInv == config \in Configs /\ TablesFilled /\ AnswerIsServed /\ StopsWith

\* What the tables say of every url of theirs.
LEMMA TablesSay ==
    ASSUME NEW c \in Configs, ~Broken(c)
    PROVE  /\ DOMAIN NameTable(c, EmptyTable) = DOMAIN BlockTable(c)
           /\ DOMAIN BlockTable(c) \subseteq Urls(c)
           /\ \A u \in DOMAIN BlockTable(c) :
                /\ BlockTable(c)[u] \in Handlers(c)
                /\ NameTable(c, EmptyTable)[u] = c[BlockTable(c)[u]].tokens[2]
                /\ PeekURL(c, BlockTable(c)[u]) = u
<1>. DEFINE names == NameTable(c, EmptyTable)
            blocks == BlockTable(c)
            es == Entries[c]
            m == Len(es)
<1>1. /\ Hold(names, blocks, es, m) /\ blocks \in TableSet(Urls(c), Handlers(c))
      /\ es \in Seq(EntrySet(c)) /\ m \in Nat /\ m = Len(es)
  BY TablesHold, EntriesType
<1>. HIDE DEF names, blocks, es, m
<1>2. DOMAIN blocks \subseteq Urls(c)
  BY <1>1 DEF TableSet
<1>3. ASSUME NEW u \in DOMAIN blocks
      PROVE  blocks[u] \in Handlers(c) /\ names[u] = c[blocks[u]].tokens[2] /\ PeekURL(c, blocks[u]) = u
  <2>1. PICK i \in 1 .. m : es[i].url = u /\ blocks[u] = es[i].block /\ names[u] = es[i].name
    BY <1>1 DEF Hold, FirstOf
  <2>2. es[i] \in EntrySet(c)
    BY <1>1, ElementOfSeq
  <2>3. PICK b \in Handlers(c) : es[i] = EntryOf(c, b)
    BY <2>2 DEF EntrySet
  <2>. QED BY <2>1, <2>3 DEF EntryOf
<1>4. DOMAIN names = DOMAIN blocks
  BY <1>1 DEF Hold
<1>. QED BY <1>2, <1>3, <1>4 DEF names, blocks

\* In a well-formed configuration every handler statement has a block, a known
\* name and plain statements for the attributes that are read.
LEMMA WellFormedFacts ==
    ASSUME NEW c \in Configs, WellFormed(c)
    PROVE  /\ ~Broken(c)
           /\ \A i \in Handlers(c) :
                /\ c[i].tokens[2] \in DOMAIN Reads
                /\ \A attr \in Reads[c[i].tokens[2]] : attr \in DOMAIN Occurs /\ Plain(c, i, attr)
                /\ "url" \in DOMAIN Occurs /\ Plain(c, i, "url")
<1>1. ~Broken(c)
  BY ConfigFacts DEF WellFormed, Broken, Handlers
<1>2. ASSUME NEW i \in Handlers(c)
      PROVE  /\ c[i].tokens[2] \in DOMAIN Reads
             /\ \A attr \in Reads[c[i].tokens[2]] : attr \in DOMAIN Occurs /\ Plain(c, i, attr)
             /\ "url" \in DOMAIN Occurs /\ Plain(c, i, "url")
  <2>. DEFINE name == c[i].tokens[2]
              more == CASE name = "static" -> {"location"}
                        [] name = "meme"   -> {"location", "save"}
                        [] name = "proxy"  -> {"host", "path", "port"}
                        [] OTHER -> {}
  <2>1. /\ name \in {"echo", "static", "error", "status", "proxy", "meme", "health", "bad"}
        /\ \A attr \in {"url"} \cup more : Plain(c, i, attr)
    BY DEF WellFormed
  <2>. HIDE DEF name
  <2>2. /\ name = "static" => more = {"location"}
        /\ name = "meme" => more = {"location", "save"}
        /\ name = "proxy" => more = {"host", "path", "port"}
    BY Zenon
  <2>3. name \in DOMAIN Reads /\ Reads[name] \subseteq {"url"} \cup more
    <3>. HIDE DEF more
    <3>. QED BY <2>1, <2>2 DEF Reads
  <2>4. Reads[name] \subseteq DOMAIN Occurs /\ "url" \in DOMAIN Occurs
    BY <2>1, OccursAssumption DEF Reads
  <2>. HIDE DEF more
  <2>. QED BY <2>1, <2>3, <2>4 DEF name
<1>. QED BY <1>1, <1>2

\* The codes of the handlers.
LEMMA CodesFacts ==
    ASSUME NEW name \in DOMAIN Reads, NEW values, NEW rest, NEW request,
           NEW code \in Codes(name, values, rest, request)
    PROVE  /\ code \in {0, 200, 302, 400, 404}
           /\ code = 0 => \/ name = "proxy"
                          \/ name \in {"static", "meme"} /\ rest = NoRest
                          \/ name = "meme" /\ ReadsPastEnd(request.body)
<1>. DEFINE st == IF rest = NoRest THEN 0 ELSE StaticCode(values["location"], rest)
            me == MemeCodes(rest, request)
<1>1. st \in {0, 200, 404} /\ (st = 0 => rest = NoRest)
  BY DEF StaticCode
<1>2. me \subseteq {0, 200, 404} /\ (0 \in me => ReadsPastEnd(request.body))
  BY DEF MemeCodes
<1>. HIDE DEF st, me
<1>3. name \in {"echo", "static", "error", "status", "proxy", "meme", "health", "bad"}
  BY DEF Reads
<1>4. /\ name \in {"echo", "status", "health"} => Codes(name, values, rest, request) = {200}
      /\ name = "error" => Codes(name, values, rest, request) = {404}
      /\ name = "bad" => Codes(name, values, rest, request) = {400}
      /\ name = "static" => Codes(name, values, rest, request) = {st}
      /\ name = "meme" => Codes(name, values, rest, request) = IF rest = NoRest THEN {0} ELSE me
      /\ name = "proxy" => Codes(name, values, rest, request) = {302, 0}
  BY ZenonT(40) DEF Codes, st, me
<1>5. CASE name \in {"echo", "status", "health", "error", "bad", "proxy"}
  BY <1>4, <1>5
<1>6. CASE name = "static"
  BY <1>1, <1>4, <1>6
<1>7. CASE name = "meme"
  <2>1. code \in IF rest = NoRest THEN {0} ELSE me
    BY <1>4, <1>7
  <2>2. CASE rest = NoRest
    BY <1>7, <2>1, <2>2
  <2>3. CASE rest # NoRest
    <3>1. code \in me
      BY <2>1, <2>3
    <3>2. code \in {0, 200, 404} /\ (code = 0 => ReadsPastEnd(request.body))
      BY <1>2, <3>1
    <3>. QED BY <1>7, <3>2
  <2>. QED BY <2>2, <2>3
<1>. QED BY <1>3, <1>5, <1>6, <1>7

\* A Dispatcher's tables are what the configuration makes them, however many were
\* made before.
LEMMA DispatcherFills ==
    ASSUME config \in Configs, TablesFilled, ~Broken(config), Dispatcher, config' = config
    PROVE  /\ TablesFilled'
           /\ handlerTable_' = NameTable(config, EmptyTable) /\ configTable_' = BlockTable(config)
<1>1. /\ handlerTable_' = NameTable(config, EmptyTable) /\ configTable_' = BlockTable(config)
      /\ url_handlers_map_' = NameTable(config, url_handlers_map_)
  BY DEF Dispatcher
<1>2. url_handlers_map_ = EmptyTable \/ url_handlers_map_ = NameTable(config, EmptyTable)
  BY DEF TablesFilled
<1>3. url_handlers_map_' = NameTable(config, EmptyTable)
  BY <1>1, <1>2, InsertedTwice
<1>. QED BY <1>1, <1>3 DEF TablesFilled

\* Starting keeps the invariant.
LEMMA StartInv == DispatchInv /\ Start => DispatchInv'
<1>. SUFFICES ASSUME DispatchInv, Start PROVE DispatchInv'
  OBVIOUS
<1>1. /\ phase = "starting" /\ phase' \in {"no port", "serving", "not bound"}
      /\ UNCHANGED <<config, url_handlers_map_, handlerTable_, configTable_, answer>>
  BY DEF Start
<1>2. TablesFilled'
  BY <1>1 DEF DispatchInv, TablesFilled
<1>3. AnswerIsServed'
  BY <1>1 DEF DispatchInv, AnswerIsServed
<1>4. StopsWith'
  BY <1>1 DEF StopsWith
<1>. QED BY <1>1, <1>2, <1>3, <1>4 DEF DispatchInv

\* A configuration with a handler that has no block or no name is not well formed.
LEMMA ServeBrokenInv == DispatchInv /\ ServeBroken => DispatchInv'
<1>. SUFFICES ASSUME DispatchInv, ServeBroken PROVE DispatchInv'
  OBVIOUS
<1>1. ~WellFormed(config)
  BY WellFormedFacts DEF DispatchInv, ServeBroken
<1>. QED BY <1>1 DEF DispatchInv, ServeBroken, Crash, TablesFilled, AnswerIsServed, StopsWith

\* The error handler answers where the tables have no key.
LEMMA ServeUnknownInv ==
    ASSUME DispatchInv, NEW r \in Requests, ServeUnknown(r)
    PROVE  DispatchInv'
<1>1. /\ config \in Configs /\ TablesFilled /\ ~Broken(config) /\ Dispatcher /\ config' = config
      /\ phase = "serving" /\ phase' = phase /\ Path(r).uri \notin DOMAIN handlerTable_'
      /\ answer' = [raw |-> r, request |-> Parsed[r], block |-> 0, values |-> <<>>, code |-> 404]
  BY DEF DispatchInv, ServeUnknown
<1>2. TablesFilled' /\ handlerTable_' = NameTable(config, EmptyTable)
  BY <1>1, DispatcherFills
<1>3. Path(r).uri \notin DOMAIN BlockTable(config)
  BY <1>1, <1>2, TablesSay
<1>4. /\ answer'.raw = r /\ answer'.request = Parsed[r] /\ answer'.block = 0
      /\ answer'.values = <<>> /\ answer'.code = 404
  BY <1>1
<1>5. AnswerIsServed'
  BY <1>1, <1>3, <1>4 DEF AnswerIsServed
<1>6. StopsWith'
  BY <1>1 DEF StopsWith
<1>. QED BY <1>1, <1>2, <1>5, <1>6 DEF DispatchInv

\* A handler answers where they have one.
LEMMA ServeKnownInv ==
    ASSUME DispatchInv, NEW r \in Requests, ServeKnown(r)
    PROVE  DispatchInv'
<1>. DEFINE u == Path(r).uri
            b == BlockTable(config)[u]
            name == config[b].tokens[2]
<1>1. /\ config \in Configs /\ TablesFilled /\ ~Broken(config) /\ Dispatcher /\ config' = config
      /\ phase = "serving" /\ u \in DOMAIN handlerTable_'
  BY DEF DispatchInv, ServeKnown
<1>2. /\ TablesFilled' /\ handlerTable_' = NameTable(config, EmptyTable)
      /\ configTable_' = BlockTable(config)
  BY <1>1, DispatcherFills
<1>3. /\ u \in DOMAIN BlockTable(config) /\ handlerTable_'[u] = name /\ configTable_'[u] = b
      /\ b \in Handlers(config)
  <2>. HIDE DEF u
  <2>. QED BY <1>1, <1>2, TablesSay
<1>4. PICK code \in Codes(name, create(config, b, name), Path(r).rest, Parsed[r]) :
        /\ name \in DOMAIN Reads
        /\ answer' = [raw |-> r, request |-> Parsed[r], block |-> b,
                      values |-> create(config, b, name), code |-> code]
        /\ phase' = IF code = 0 THEN "ended" ELSE phase
  BY <1>3 DEF ServeKnown
<1>5. /\ answer'.raw = r /\ answer'.request = Parsed[r] /\ answer'.block = b
      /\ answer'.values = create(config, b, name) /\ answer'.code = code
  BY <1>4
<1>6. AnswerIsServed'
  <2>. HIDE DEF b
  <2>. QED BY <1>1, <1>3, <1>4, <1>5 DEF AnswerIsServed, b
<1>7. StopsWith'
  <2>1. b # 0
    BY <1>1, <1>3, ConfigFacts
  <2>2. answer' # NoAnswer
    <3>1. NoAnswer.block = 0
      BY DEF NoAnswer
    <3>. HIDE DEF b, name
    <3>. QED BY <1>5, <2>1, <3>1
  <2>. HIDE DEF b, name
  <2>. QED BY <1>1, <1>4, <1>5, <2>2 DEF StopsWith
<1>. QED BY <1>1, <1>2, <1>6, <1>7 DEF DispatchInv

\* A name that no handler has, or an attribute that is nowhere in the block, is
\* not in a well-formed configuration.
LEMMA ServeBadlyInv ==
    ASSUME DispatchInv, NEW r \in Requests, ServeBadly(r)
    PROVE  DispatchInv'
<1>. DEFINE u == Path(r).uri
            b == BlockTable(config)[u]
            name == config[b].tokens[2]
<1>1. /\ config \in Configs /\ TablesFilled /\ ~Broken(config) /\ Dispatcher /\ config' = config
      /\ answer' = answer /\ phase' = "crashed" /\ u \in DOMAIN handlerTable_'
  BY DEF DispatchInv, ServeBadly, Crash
<1>2. /\ TablesFilled' /\ handlerTable_' = NameTable(config, EmptyTable)
      /\ configTable_' = BlockTable(config)
  BY <1>1, DispatcherFills
<1>3. /\ handlerTable_'[u] = name /\ configTable_'[u] = b /\ b \in Handlers(config)
  <2>. HIDE DEF u
  <2>. QED BY <1>1, <1>2, TablesSay
<1>4. ~WellFormed(config)
  <2>. SUFFICES ASSUME WellFormed(config) PROVE FALSE
    OBVIOUS
  <2>1. \/ name \notin DOMAIN Reads
        \/ name \in DOMAIN Reads /\ \E attr \in Reads[name] : Lost(config, b, attr)
    BY <1>3 DEF ServeBadly
  <2>. HIDE DEF b
  <2>2. /\ name \in DOMAIN Reads /\ b \in 0 .. Len(config)
        /\ \A attr \in Reads[name] : attr \in DOMAIN Occurs /\ Plain(config, b, attr)
    <3>1. b \in 1 .. Len(config)
      BY <1>1, <1>3, ConfigFacts
    <3>. QED BY <1>1, <1>3, <3>1, WellFormedFacts
  <2>. QED BY <1>1, <2>1, <2>2, PlainValue
<1>5. AnswerIsServed'
  BY <1>1 DEF DispatchInv, AnswerIsServed
<1>6. StopsWith'
  BY <1>1, <1>4 DEF StopsWith
<1>. QED BY <1>1, <1>2, <1>5, <1>6 DEF DispatchInv

\* A database call that fails leaves the tables filled and the last answer as it was.
LEMMA DatabaseFailsInv ==
    ASSUME DispatchInv, NEW r \in Requests, DatabaseFails(r)
    PROVE  DispatchInv'
<1>1. /\ config \in Configs /\ TablesFilled /\ ~Broken(config) /\ Dispatcher /\ config' = config
      /\ answer' = answer /\ phase' = "no data"
  BY DEF DispatchInv, DatabaseFails
<1>2. TablesFilled'
  BY <1>1, DispatcherFills
<1>3. AnswerIsServed'
  BY <1>1 DEF DispatchInv, AnswerIsServed
<1>4. StopsWith'
  BY <1>1 DEF StopsWith
<1>. QED BY <1>1, <1>2, <1>3, <1>4 DEF DispatchInv

\* In every reachable state the tables are what the configuration makes them, the
\* last answer is one that they give, the bytes that were read of its body
\* included, and what stopped the process is one of the faults of Dispatch.
THEOREM DispatchInvHolds == Spec => []DispatchInv
<1>1. Init => DispatchInv
  BY DEF Init, DispatchInv, TablesFilled, AnswerIsServed, StopsWith
<1>2. DispatchInv /\ [Next]_vars => DispatchInv'
  <2>. SUFFICES ASSUME DispatchInv, [Next]_vars PROVE DispatchInv'
    OBVIOUS
  <2>1. CASE Start
    BY <2>1, StartInv
  <2>2. CASE ServeBroken
    BY <2>2, ServeBrokenInv
  <2>3. ASSUME NEW r \in Requests, ServeUnknown(r) PROVE DispatchInv'
    BY <2>3, ServeUnknownInv
  <2>4. ASSUME NEW r \in Requests, ServeKnown(r) PROVE DispatchInv'
    BY <2>4, ServeKnownInv
  <2>5. ASSUME NEW r \in Requests, ServeBadly(r) PROVE DispatchInv'
    BY <2>5, ServeBadlyInv
  <2>6. ASSUME NEW r \in Requests, DatabaseFails(r) PROVE DispatchInv'
    BY <2>6, DatabaseFailsInv
  <2>7. CASE UNCHANGED vars
    BY <2>7 DEF DispatchInv, TablesFilled, AnswerIsServed, StopsWith, vars
  <2>. QED BY <2>1, <2>2, <2>3, <2>4, <2>5, <2>6, <2>7 DEF Next
<1>. QED BY <1>1, <1>2, PTL DEF Spec

-----------------------------------------------------------------------------
(* The properties.                                                         *)

\* The values that answer holds of a handler that was run.
LEMMA AnswerFacts ==
    ASSUME DispatchInv, answer # NoAnswer
    PROVE  /\ answer.raw \in Requests /\ answer.request = Parsed[answer.raw] /\ ~Broken(config)
           /\ \/ /\ answer.block \in Handlers(config) /\ answer.block \in 1 .. Len(config)
                 /\ Path(answer.raw).uri \in DOMAIN BlockTable(config)
                 /\ answer.block = BlockTable(config)[Path(answer.raw).uri]
                 /\ config[answer.block].tokens[2] \in DOMAIN Reads
                 /\ answer.values = create(config, answer.block, config[answer.block].tokens[2])
                 /\ answer.code \in Codes(config[answer.block].tokens[2], answer.values,
                                           Path(answer.raw).rest, answer.request)
              \/ /\ Path(answer.raw).uri \notin DOMAIN BlockTable(config)
                 /\ answer.block = 0 /\ answer.values = <<>> /\ answer.code = 404
<1>1. AnswerIsServed /\ config \in Configs
  BY DEF DispatchInv
<1>2. ~Broken(config)
  BY <1>1 DEF AnswerIsServed
<1>3. \A u \in DOMAIN BlockTable(config) :
        BlockTable(config)[u] \in Handlers(config) /\ BlockTable(config)[u] \in 1 .. Len(config)
  BY <1>1, <1>2, TablesSay, ConfigFacts
<1>. QED BY <1>1, <1>2, <1>3 DEF AnswerIsServed

\* The tables' keys are urls that a search finds in handler blocks, and the codes
\* are those of the handlers.
LEMMA InvTypes == DispatchInv => TypeOK
<1>. SUFFICES ASSUME DispatchInv PROVE TypeOK
  OBVIOUS
<1>1. /\ config \in Configs
      /\ phase \in {"starting", "no port", "not bound", "serving", "ended", "crashed", "no data"}
  BY DEF DispatchInv, StopsWith
<1>2. /\ DOMAIN handlerTable_ \subseteq Urls(config) /\ DOMAIN configTable_ \subseteq Urls(config)
      /\ \A u \in DOMAIN configTable_ : configTable_[u] \in DOMAIN config
  <2>1. CASE handlerTable_ = EmptyTable /\ configTable_ = EmptyTable
    BY <2>1, EmptyIsTable
  <2>2. CASE ~Broken(config) /\ handlerTable_ = NameTable(config, EmptyTable) /\ configTable_ = BlockTable(config)
    BY <1>1, <2>2, TablesSay, ConfigFacts
  <2>. QED BY <2>1, <2>2 DEF DispatchInv, TablesFilled
<1>3. answer.code \in {0, 200, 302, 400, 404} /\ answer.raw \in Requests \cup {NoAnswer.raw}
  <2>1. CASE answer = NoAnswer
    BY <2>1 DEF NoAnswer
  <2>2. CASE answer # NoAnswer
    BY <2>2, AnswerFacts, CodesFacts
  <2>. QED BY <2>1, <2>2
<1>. QED BY <1>1, <1>2, <1>3 DEF TypeOK, Urls

\* The tables hold urls and handler blocks of the configuration, and an answer
\* has one of the codes that handlers give.
THEOREM DispatchTypes == Spec => []TypeOK
BY DispatchInvHolds, InvTypes, PTL

LEMMA InvAgree == DispatchInv => TablesAgree
<1>. SUFFICES ASSUME DispatchInv PROVE TablesAgree
  OBVIOUS
<1>1. config \in Configs
  BY DEF DispatchInv
<1>2. CASE handlerTable_ = EmptyTable /\ configTable_ = EmptyTable
  BY <1>2, EmptyIsTable DEF TablesAgree
<1>3. CASE ~Broken(config) /\ handlerTable_ = NameTable(config, EmptyTable) /\ configTable_ = BlockTable(config)
  BY <1>1, <1>3, TablesSay DEF TablesAgree
<1>. QED BY <1>2, <1>3 DEF DispatchInv, TablesFilled

\* The two tables name the same statement for every url, whatever the look-up of the
\* urls finds in the blocks.
THEOREM TablesAgreeAlways == Spec => []TablesAgree
BY DispatchInvHolds, InvAgree, PTL

LEMMA InvStatus == DispatchInv => StatusShowsDispatch
BY DEF DispatchInv, TablesFilled, StatusShowsDispatch

\* The status page lists what requests are sent to, although its table is inserted
\* into anew by every Dispatcher.
THEOREM StatusPageIsTrue == Spec => []StatusShowsDispatch
BY DispatchInvHolds, InvStatus, PTL

LEMMA InvAttributes == DispatchInv => AttributesAreOwn
<1>. SUFFICES ASSUME DispatchInv, WellFormed(config), NEW attr \in DOMAIN answer.values
              PROVE  answer.values[attr] = Own(config, answer.block, attr)
  BY DEF AttributesAreOwn
<1>. DEFINE b == answer.block
            name == config[b].tokens[2]
<1>1. config \in Configs
  BY DEF DispatchInv
<1>2. answer.values # <<>>
  OBVIOUS
<1>3. answer # NoAnswer
  BY <1>2 DEF NoAnswer
<1>4. /\ b \in Handlers(config) /\ b \in 0 .. Len(config)
      /\ name \in DOMAIN Reads /\ answer.values = create(config, b, name)
  <2>1. b \in 1 .. Len(config) => b \in 0 .. Len(config)
    BY <1>1, ConfigFacts
  <2>. QED BY <1>2, <1>3, <2>1, AnswerFacts
<1>. HIDE DEF b
<1>5. attr \in Reads[name] /\ answer.values[attr] = GetAttribute(config, b, attr)
  BY <1>4 DEF create
<1>6. attr \in DOMAIN Occurs /\ Plain(config, b, attr)
  BY <1>1, <1>4, <1>5, WellFormedFacts
<1>7. ~Lost(config, b, attr) /\ ValueAt(Text(config, b), attr) = Own(config, b, attr)
  BY <1>1, <1>4, <1>6, PlainValue
<1>. QED BY <1>5, <1>7 DEF GetAttribute, b

\* In a well-formed configuration a handler is created with what its own block says.
THEOREM AttributesAlwaysOwn == Spec => []AttributesAreOwn
BY DispatchInvHolds, InvAttributes, PTL

-----------------------------------------------------------------------------
(* Splitting a text into parts.                                            *)

LineEnds == {"CR", "LF"}
Blanks == {" "}

\* One step of split.
SplitStep(parts, x, separators) ==
    IF x \notin separators
    THEN [parts EXCEPT ![Len(parts)] = Append(@, x)]
    ELSE IF Len(parts) > 1 /\ parts[Len(parts)] = <<>>
    THEN parts
    ELSE Append(parts, <<>>)

LineStep(parts, x) == SplitStep(parts, x, LineEnds)
WordStep(parts, x) == SplitStep(parts, x, Blanks)

ByLine == INSTANCE FoldLemmas WITH Op <- LineStep
ByBlank == INSTANCE FoldLemmas WITH Op <- WordStep

\* split is a fold of its steps.
LEMMA SplitFolds ==
    /\ \A s : split(s, LineEnds) = ByLine!Folded(<< <<>> >>, s)
    /\ \A s : split(s, Blanks) = ByBlank!Folded(<< <<>> >>, s)
<1>1. \A s : split(s, LineEnds) = ByLine!Folded(<< <<>> >>, s)
  BY DEF split, FoldLeft, MapThenFoldSet, Max, ByLine!Folded, ByLine!Onto, ByLine!Top, LineStep, SplitStep
<1>2. \A s : split(s, Blanks) = ByBlank!Folded(<< <<>> >>, s)
  BY DEF split, FoldLeft, MapThenFoldSet, Max, ByBlank!Folded, ByBlank!Onto, ByBlank!Top, WordStep, SplitStep
<1>. QED BY <1>1, <1>2

\* What a step does to the last part.
LEMMA StepOnLast ==
    ASSUME NEW A, NEW F \in Seq(Seq(A)), NEW cur \in Seq(A), NEW x \in A, NEW separators
    PROVE  SplitStep(Append(F, cur), x, separators)
             = IF x \notin separators THEN Append(F, Append(cur, x))
               ELSE IF F # <<>> /\ cur = <<>> THEN Append(F, cur)
               ELSE Append(Append(F, cur), <<>>)
<1>. DEFINE B == Seq(A)
            p == Append(F, cur)
            n == Len(F)
            c2 == Append(cur, x)
<1>1. F \in Seq(B) /\ cur \in B /\ c2 \in B /\ n = Len(F)
  BY AppendProperties
<1>. HIDE DEF B, c2, n
<1>2. /\ p \in Seq(B) /\ Len(p) = n + 1 /\ p[n + 1] = cur /\ n \in Nat
      /\ \A i \in 1 .. n : p[i] = F[i]
  BY <1>1, AppendProperties, LenProperties
<1>3. n # 0 <=> F # <<>>
  BY <1>1, EmptySeq, LenProperties
<1>. DEFINE r == Append(F, c2)
<1>4. /\ r \in Seq(B) /\ Len(r) = n + 1 /\ r[n + 1] = c2
      /\ \A i \in 1 .. n : r[i] = F[i]
  BY <1>1, AppendProperties
<1>. HIDE DEF p, r
<1>5. [p EXCEPT ![Len(p)] = c2] = r
  <2>. DEFINE e == [p EXCEPT ![n + 1] = c2]
  <2>1. p \in [1 .. n + 1 -> B] /\ r \in [1 .. n + 1 -> B]
    BY <1>2, <1>4, LenProperties
  <2>2. e \in [1 .. n + 1 -> B] /\ e[n + 1] = c2 /\ \A i \in 1 .. n : e[i] = p[i]
    BY <1>1, <1>2, <2>1
  <2>. HIDE DEF e
  <2>3. \A i \in 1 .. n + 1 : i \in 1 .. n \/ i = n + 1
    BY <1>2
  <2>4. \A i \in 1 .. n + 1 : e[i] = r[i]
    BY <1>2, <1>4, <2>2, <2>3
  <2>5. e = r
    <3>. DEFINE D == 1 .. n + 1
    <3>1. e \in [D -> B] /\ r \in [D -> B] /\ \A i \in D : e[i] = r[i]
      BY <2>1, <2>2, <2>4
    <3>. HIDE DEF D
    <3>. QED BY <3>1
  <2>. QED BY <1>2, <2>5 DEF e
<1>6. Append(p[Len(p)], x) = c2
  BY <1>2 DEF c2
<1>7. SplitStep(p, x, separators)
        = IF x \notin separators THEN r
          ELSE IF n + 1 > 1 /\ cur = <<>> THEN p ELSE Append(p, <<>>)
  BY <1>2, <1>5, <1>6 DEF SplitStep
<1>8. n + 1 > 1 <=> F # <<>>
  BY <1>2, <1>3
<1>. QED BY <1>7, <1>8 DEF p, r, c2

\* The parts that a text of elements of A may be split into.
PartsOf(A) == {p \in Seq(Seq(A)) : \E F \in Seq(Seq(A)) : \E cur \in Seq(A) : p = Append(F, cur)}

LEMMA AppendIsParts ==
    ASSUME NEW A, NEW F \in Seq(Seq(A)), NEW cur \in Seq(A)
    PROVE  Append(F, cur) \in PartsOf(A)
BY AppendProperties DEF PartsOf

LEMMA StepsClosed ==
    ASSUME NEW A
    PROVE  ByLine!Closed(PartsOf(A), A) /\ ByBlank!Closed(PartsOf(A), A)
<1>1. ASSUME NEW p \in PartsOf(A), NEW x \in A, NEW separators
      PROVE  SplitStep(p, x, separators) \in PartsOf(A)
  <2>1. PICK F \in Seq(Seq(A)), cur \in Seq(A) : p = Append(F, cur)
    BY DEF PartsOf
  <2>2. Append(cur, x) \in Seq(A) /\ Append(F, cur) \in Seq(Seq(A)) /\ <<>> \in Seq(A)
    BY AppendProperties, EmptySeq
  <2>3. /\ Append(F, Append(cur, x)) \in PartsOf(A) /\ Append(F, cur) \in PartsOf(A)
        /\ Append(Append(F, cur), <<>>) \in PartsOf(A)
    BY <2>2, AppendIsParts
  <2>4. \/ SplitStep(p, x, separators) = Append(F, Append(cur, x))
        \/ SplitStep(p, x, separators) = Append(F, cur)
        \/ SplitStep(p, x, separators) = Append(Append(F, cur), <<>>)
    <3>. DEFINE v1 == Append(F, Append(cur, x))
                v2 == Append(F, cur)
                v3 == Append(Append(F, cur), <<>>)
                v == SplitStep(p, x, separators)
    <3>1. v = IF x \notin separators THEN v1 ELSE IF F # <<>> /\ cur = <<>> THEN v2 ELSE v3
      BY SMTT(30), <2>1, StepOnLast
    <3>. HIDE DEF v1, v2, v3, v
    <3>2. v = v1 \/ v = v2 \/ v = v3
      BY <3>1
    <3>. QED BY <3>2 DEF v1, v2, v3, v
  <2>. QED BY <2>3, <2>4
<1>. QED BY <1>1 DEF ByLine!Closed, ByBlank!Closed, LineStep, WordStep

\* Splitting s gives the parts F and a last part cur.
SplitsTo(A, s, separators, F, cur) ==
    /\ s \in Seq(A) /\ F \in Seq(Seq(A)) /\ cur \in Seq(A)
    /\ split(s, separators) = Append(F, cur)

\* Nothing has one part.
LEMMA SplitEmpty ==
    ASSUME NEW A, NEW separators \in {LineEnds, Blanks}
    PROVE  SplitsTo(A, <<>>, separators, <<>>, <<>>)
<1>1. <<>> \in Seq(A) /\ <<>> \in Seq(Seq(A))
  BY EmptySeq
<1>2. split(<<>>, separators) = << <<>> >>
  BY SplitFolds, ByLine!FoldedEmpty, ByBlank!FoldedEmpty
<1>3. Append(<<>>, <<>>) = << <<>> >>
  OBVIOUS
<1>. QED BY <1>1, <1>2, <1>3 DEF SplitsTo

\* One element more is one step more.
LEMMA SplitAppend ==
    ASSUME NEW A, NEW s \in Seq(A), NEW x \in A, NEW separators \in {LineEnds, Blanks}
    PROVE  split(Append(s, x), separators) = SplitStep(split(s, separators), x, separators)
<1>. DEFINE none == << <<>> >>
<1>1. none \in PartsOf(A)
  <2>1. <<>> \in Seq(Seq(A)) /\ <<>> \in Seq(A) /\ Append(<<>>, <<>>) = none
    BY EmptySeq
  <2>. HIDE DEF none
  <2>. QED BY <2>1, AppendIsParts
<1>2. ByLine!Closed(PartsOf(A), A) /\ ByBlank!Closed(PartsOf(A), A)
  BY StepsClosed
<1>3. \A t : split(t, LineEnds) = ByLine!Folded(none, t)
  BY SplitFolds
<1>4. \A t : split(t, Blanks) = ByBlank!Folded(none, t)
  BY SplitFolds
<1>. HIDE DEF none
<1>5. ByLine!Folded(none, Append(s, x)) = LineStep(ByLine!Folded(none, s), x)
  BY <1>1, <1>2, ByLine!FoldedAppend
<1>6. ByBlank!Folded(none, Append(s, x)) = WordStep(ByBlank!Folded(none, s), x)
  BY <1>1, <1>2, ByBlank!FoldedAppend
<1>7. CASE separators = LineEnds
  BY <1>3, <1>5, <1>7 DEF LineStep
<1>8. CASE separators = Blanks
  BY <1>4, <1>6, <1>8 DEF WordStep
<1>. QED BY <1>7, <1>8

\* An element that is no separator goes to the last part.
LEMMA SplitChar ==
    ASSUME NEW A, NEW s, NEW F, NEW cur, NEW separators \in {LineEnds, Blanks},
           SplitsTo(A, s, separators, F, cur), NEW x \in A, x \notin separators
    PROVE  SplitsTo(A, Append(s, x), separators, F, Append(cur, x))
<1>1. s \in Seq(A) /\ F \in Seq(Seq(A)) /\ cur \in Seq(A) /\ split(s, separators) = Append(F, cur)
  BY DEF SplitsTo
<1>2. split(Append(s, x), separators) = SplitStep(Append(F, cur), x, separators)
  BY <1>1, SplitAppend
<1>3. split(Append(s, x), separators) = Append(F, Append(cur, x))
  BY <1>1, <1>2, StepOnLast
<1>4. Append(s, x) \in Seq(A) /\ Append(cur, x) \in Seq(A)
  BY <1>1, AppendProperties
<1>. QED BY <1>1, <1>3, <1>4 DEF SplitsTo

\* A separator ends the last part, unless it follows another separator.
LEMMA SplitSeparator ==
    ASSUME NEW A, NEW s, NEW F, NEW cur, NEW separators \in {LineEnds, Blanks},
           SplitsTo(A, s, separators, F, cur), NEW x \in A, x \in separators
    PROVE  IF F # <<>> /\ cur = <<>>
           THEN SplitsTo(A, Append(s, x), separators, F, <<>>)
           ELSE SplitsTo(A, Append(s, x), separators, Append(F, cur), <<>>)
<1>1. s \in Seq(A) /\ F \in Seq(Seq(A)) /\ cur \in Seq(A) /\ split(s, separators) = Append(F, cur)
  BY DEF SplitsTo
<1>2. split(Append(s, x), separators) = SplitStep(Append(F, cur), x, separators)
  BY <1>1, SplitAppend
<1>3. split(Append(s, x), separators)
        = IF F # <<>> /\ cur = <<>> THEN Append(F, cur) ELSE Append(Append(F, cur), <<>>)
  BY <1>1, <1>2, StepOnLast
<1>4. Append(s, x) \in Seq(A) /\ Append(F, cur) \in Seq(Seq(A)) /\ <<>> \in Seq(A)
  BY <1>1, AppendProperties, EmptySeq
<1>. QED BY <1>1, <1>3, <1>4 DEF SplitsTo

\* No element of w is a separator.
Without(w, separators) == \A k \in 1 .. Len(w) : w[k] \notin separators

\* A word goes to the last part.
LEMMA SplitWord ==
    ASSUME NEW A, NEW s, NEW F, NEW cur, NEW separators \in {LineEnds, Blanks},
           SplitsTo(A, s, separators, F, cur), NEW w \in Seq(A), Without(w, separators)
    PROVE  SplitsTo(A, s \o w, separators, F, cur \o w)
<1>. DEFINE Goes(y) == SplitsTo(A, s \o y, separators, F, cur \o y)
            S == {y \in Seq(A) : Without(y, separators) => Goes(y)}
<1>0. s \in Seq(A) /\ cur \in Seq(A)
  BY DEF SplitsTo
<1>1. <<>> \in S
  <2>1. s \o <<>> = s /\ cur \o <<>> = cur /\ <<>> \in Seq(A)
    BY <1>0, ConcatEmptySeq, EmptySeq
  <2>. QED BY <2>1
<1>2. ASSUME NEW y \in S, NEW x \in A PROVE Append(y, x) \in S
  <2>. DEFINE u == Append(y, x)
  <2>0. y \in Seq(A) /\ u \in Seq(A)
    BY AppendProperties
  <2>. SUFFICES ASSUME Without(u, separators) PROVE Goes(u)
    BY <2>0
  <2>1. Without(y, separators) /\ x \notin separators
    <3>1. /\ Len(u) = Len(y) + 1 /\ u[Len(y) + 1] = x /\ Len(y) \in Nat
          /\ \A k \in 1 .. Len(y) : u[k] = y[k]
      BY <2>0, AppendProperties, LenProperties
    <3>2. Len(y) + 1 \in 1 .. Len(u) /\ \A k \in 1 .. Len(y) : k \in 1 .. Len(u)
      BY <3>1
    <3>. HIDE DEF u
    <3>. QED BY <3>1, <3>2 DEF Without
  <2>2. Goes(y)
    BY <2>1
  <2>. DEFINE sv == s \o y
              cv == cur \o y
  <2>3. sv = s \o y /\ cv = cur \o y /\ SplitsTo(A, sv, separators, F, cv)
    BY <2>2
  <2>. HIDE DEF sv, cv, S, Goes
  <2>4. SplitsTo(A, Append(sv, x), separators, F, Append(cv, x))
    BY <2>1, <2>3, SplitChar
  <2>5. u = Append(y, x)
    OBVIOUS
  <2>. HIDE DEF u
  <2>6. s \o u = Append(sv, x)
    <3>1. s \in Seq(A) /\ y \in Seq(A) /\ x \in A /\ sv = s \o y /\ u = Append(y, x)
      BY <1>0, <2>0, <2>3, <2>5
    <3>. QED BY ONLY SMTT(30), <3>1, AppendConcat
  <2>7. cur \o u = Append(cv, x)
    <3>1. cur \in Seq(A) /\ y \in Seq(A) /\ x \in A /\ cv = cur \o y /\ u = Append(y, x)
      BY <1>0, <2>0, <2>3, <2>5
    <3>. QED BY ONLY SMTT(30), <3>1, AppendConcat
  <2>. QED BY <2>4, <2>6, <2>7 DEF Goes
<1>3. S = Seq(A)
  <2>. HIDE DEF S
  <2>1. S \in SUBSET Seq(A)
    BY DEF S
  <2>. QED BY <1>1, <1>2, <2>1, SeqSetInduction
<1>. QED BY <1>3

\* A line end ends the last part once.
LEMMA SplitLineEnd ==
    ASSUME NEW A, NEW s, NEW F, NEW cur, SplitsTo(A, s, LineEnds, F, cur), "CR" \in A, "LF" \in A
    PROVE  /\ IF F # <<>> /\ cur = <<>>
              THEN SplitsTo(A, s \o CRLF, LineEnds, F, <<>>)
              ELSE SplitsTo(A, s \o CRLF, LineEnds, Append(F, cur), <<>>)
           /\ s \o CRLF = Append(Append(s, "CR"), "LF") /\ CRLF \in Seq(A)
<1>1. s \in Seq(A) /\ F \in Seq(Seq(A)) /\ cur \in Seq(A)
  BY DEF SplitsTo
<1>. DEFINE G == IF F # <<>> /\ cur = <<>> THEN F ELSE Append(F, cur)
<1>2. LineEnds \in {LineEnds, Blanks} /\ "CR" \in LineEnds /\ "LF" \in LineEnds
  BY DEF LineEnds
<1>3. SplitsTo(A, Append(s, "CR"), LineEnds, G, <<>>)
  BY <1>2, SplitSeparator
<1>4. G # <<>>
  <2>1. Append(F, cur) # <<>>
    <3>. DEFINE B == Seq(A)
    <3>1. F \in Seq(B) /\ cur \in B
      BY <1>1
    <3>. HIDE DEF B
    <3>2. Append(F, cur) \in Seq(B) /\ Len(Append(F, cur)) = Len(F) + 1 /\ Len(F) \in Nat
      BY <3>1, AppendProperties, LenProperties
    <3>. QED BY <3>2, EmptySeq
  <2>. QED BY <2>1
<1>. HIDE DEF G
<1>5. SplitsTo(A, Append(Append(s, "CR"), "LF"), LineEnds, G, <<>>)
  <2>. DEFINE t == Append(s, "CR")
  <2>1. SplitsTo(A, t, LineEnds, G, <<>>)
    BY <1>3
  <2>. HIDE DEF t
  <2>2. SplitsTo(A, Append(t, "LF"), LineEnds, G, <<>>)
    BY <1>2, <1>4, <2>1, SplitSeparator
  <2>. QED BY <2>2 DEF t
<1>6. s \o CRLF = Append(Append(s, "CR"), "LF") /\ CRLF \in Seq(A)
  BY <1>1 DEF CRLF
<1>. QED BY <1>5, <1>6 DEF G

\* The first of several parts stays what it is, whatever follows.
LEMMA SplitStable ==
    ASSUME NEW A, NEW s, NEW F, NEW cur, NEW separators \in {LineEnds, Blanks},
           SplitsTo(A, s, separators, F, cur), F # <<>>, NEW t \in Seq(A)
    PROVE  \E G, c : SplitsTo(A, s \o t, separators, G, c) /\ G # <<>> /\ G[1] = F[1]
<1>. DEFINE Stays(u) == \E G, c : SplitsTo(A, u, separators, G, c) /\ G # <<>> /\ G[1] = F[1]
            S == {u \in Seq(A) : Stays(s \o u)}
<1>0. s \in Seq(A)
  BY DEF SplitsTo
<1>1. <<>> \in S
  <2>1. s \o <<>> = s /\ <<>> \in Seq(A)
    BY <1>0, ConcatEmptySeq, EmptySeq
  <2>2. Stays(s)
    OBVIOUS
  <2>. QED BY <2>1, <2>2
<1>2. ASSUME NEW u \in S, NEW x \in A PROVE Append(u, x) \in S
  <2>. DEFINE su == s \o u
              ux == Append(u, x)
  <2>1. u \in Seq(A) /\ ux \in Seq(A) /\ Stays(su)
    BY AppendProperties
  <2>2. su \in Seq(A)
    BY <1>0, <2>1, ConcatProperties
  <2>3. s \o ux = Append(su, x)
    <3>1. su = s \o u /\ ux = Append(u, x)
      OBVIOUS
    <3>. HIDE DEF su, ux
    <3>. QED BY <1>0, <2>1, <3>1, AppendConcat
  <2>. HIDE DEF su
  <2>4. PICK G, c : SplitsTo(A, su, separators, G, c) /\ G # <<>> /\ G[1] = F[1]
    BY <2>1
  <2>5. Stays(Append(su, x))
    <3>1. CASE x \notin separators
      BY <2>4, <3>1, SplitChar
    <3>2. CASE x \in separators
      <4>1. \/ SplitsTo(A, Append(su, x), separators, G, <<>>)
            \/ SplitsTo(A, Append(su, x), separators, Append(G, c), <<>>)
        BY <2>4, <3>2, SplitSeparator
      <4>2. Append(G, c) # <<>> /\ Append(G, c)[1] = G[1]
        <5>. DEFINE B == Seq(A)
        <5>1. G \in Seq(B) /\ c \in B
          BY <2>4 DEF SplitsTo
        <5>. HIDE DEF B
        <5>2. Len(G) \in Nat /\ Len(G) # 0
          BY <2>4, <5>1, EmptySeq, LenProperties
        <5>3. /\ Append(G, c) \in Seq(B) /\ Len(Append(G, c)) = Len(G) + 1
              /\ \A i \in 1 .. Len(G) : Append(G, c)[i] = G[i]
          BY <5>1, AppendProperties
        <5>. QED BY <5>2, <5>3, EmptySeq
      <4>. QED BY <2>4, <4>1, <4>2
    <3>. QED BY <3>1, <3>2
  <2>. QED BY <2>1, <2>3, <2>5
<1>3. S = Seq(A)
  <2>. HIDE DEF S
  <2>1. S \in SUBSET Seq(A)
    BY DEF S
  <2>. QED BY <1>1, <1>2, <2>1, SeqSetInduction
<1>. QED BY <1>3

-----------------------------------------------------------------------------
(* The lines of a text.                                                    *)

\* Lines that can be told apart.
LinesOf(A) == {w \in Seq(A) : w # <<>> /\ Without(w, LineEnds)}

\* Lines, each with its end.
Ended(A) == [w \in LinesOf(A) |-> w \o CRLF]

LEMMA EndedMaps ==
    ASSUME NEW A, "CR" \in A, "LF" \in A
    PROVE  Maps(Ended(A), LinesOf(A), A) /\ CRLF \in Seq(A) /\ LinesOf(A) \in SUBSET Seq(A)
<1>1. CRLF \in Seq(A)
  BY DEF CRLF
<1>2. \A w \in LinesOf(A) : w \in Seq(A) /\ w \o CRLF \in Seq(A)
  BY <1>1, ConcatProperties DEF LinesOf
<1>. QED BY <1>1, <1>2 DEF Maps, Ended

\* Lines with their ends are split into the lines and an empty last part.
EndedSplit(A, L) ==
    /\ SplitsTo(A, Images(Ended(A), L), LineEnds, L, <<>>)
    /\ L # <<>> => \E s \in Seq(A) : Images(Ended(A), L) = s \o CRLF

LEMMA LinesSplit ==
    ASSUME NEW A, "CR" \in A, "LF" \in A, NEW L \in Seq(LinesOf(A))
    PROVE  EndedSplit(A, L)
<1>. DEFINE W == LinesOf(A)
            f == Ended(A)
            S == {K \in Seq(W) : EndedSplit(A, K)}
<1>0. Maps(f, W, A) /\ CRLF \in Seq(A) /\ W \in SUBSET Seq(A) /\ L \in Seq(W)
  BY EndedMaps
<1>1. <<>> \in S
  <2>1. Images(f, <<>>) = <<>> /\ <<>> \in Seq(W)
    BY ImagesEmpty, EmptySeq
  <2>2. SplitsTo(A, <<>>, LineEnds, <<>>, <<>>)
    BY SplitEmpty
  <2>. QED BY <2>1, <2>2 DEF EndedSplit
<1>2. ASSUME NEW K \in S, NEW x \in W PROVE Append(K, x) \in S
  <2>. DEFINE t == Images(f, K)
              K2 == Append(K, x)
              tx == t \o x
  <2>1. K \in Seq(W) /\ SplitsTo(A, t, LineEnds, K, <<>>)
    BY DEF EndedSplit
  <2>2. x \in Seq(A) /\ x # <<>> /\ Without(x, LineEnds) /\ f[x] = x \o CRLF
    BY DEF LinesOf, Ended
  <2>3. t \in Seq(A)
    BY <2>1 DEF SplitsTo
  <2>4. K2 \in Seq(W)
    <3>. HIDE DEF W
    <3>. QED BY <2>1, AppendProperties
  <2>5. Images(f, K2) = t \o f[x]
    <3>. HIDE DEF f, W
    <3>. QED BY <1>0, <2>1, ImagesAppend
  <2>. HIDE DEF S, W, f, t, K2
  <2>6. t \o (x \o CRLF) = tx \o CRLF
    <3>1. t \in Seq(A) /\ x \in Seq(A) /\ CRLF \in Seq(A)
      BY <1>0, <2>2, <2>3
    <3>2. (t \o x) \o CRLF = t \o (x \o CRLF)
      <4>1. Reassociates(t, x, CRLF)
        BY <3>1, Reassociation
      <4>. QED BY <4>1, Zenon DEF Reassociates
    <3>. QED BY <3>2
  <2>7. SplitsTo(A, tx, LineEnds, K, x)
    <3>1. SplitsTo(A, tx, LineEnds, K, <<>> \o x)
      BY <2>1, <2>2, SplitWord
    <3>2. <<>> \o x = x
      BY <2>2, ConcatEmptySeq
    <3>. QED BY <3>1, <3>2
  <2>8. tx \in Seq(A)
    BY <2>2, <2>3, ConcatProperties
  <2>. HIDE DEF tx
  <2>9. SplitsTo(A, tx \o CRLF, LineEnds, Append(K, x), <<>>)
    BY <2>2, <2>7, SplitLineEnd
  <2>10. Images(f, K2) = tx \o CRLF
    BY <2>2, <2>5, <2>6
  <2>11. EndedSplit(A, K2)
    BY <2>8, <2>9, <2>10 DEF EndedSplit, K2, f
  <2>. QED BY <2>4, <2>11 DEF S, K2
<1>3. S = Seq(W)
  <2>. HIDE DEF S, W
  <2>1. S \in SUBSET Seq(W)
    BY DEF S
  <2>. QED BY <1>1, <1>2, <2>1, SeqSetInduction
<1>. QED BY <1>0, <1>3

\* A text whose head ends with an empty line is read as one.
LEMMA HeadIsEnded ==
    ASSUME NEW A, NEW s \in Seq(A), NEW t \in Seq(A), CRLF \in Seq(A),
           NEW raw, raw = ((s \o CRLF) \o CRLF) \o t
    PROVE  HeadEnds(raw) /\ "LF" \in Range(raw)
<1>. DEFINE e == CRLF \o CRLF
            se == s \o e
            n == Len(s)
<1>1. Len(e) = 4 /\ e[2] = "LF"
  <2>1. Len(CRLF) = 2 /\ CRLF[2] = "LF"
    BY DEF CRLF
  <2>2. /\ Len(e) = Len(CRLF) + Len(CRLF)
        /\ \A i \in 1 .. Len(CRLF) + Len(CRLF) :
             e[i] = IF i <= Len(CRLF) THEN CRLF[i] ELSE CRLF[i - Len(CRLF)]
    <3>. HIDE DEF CRLF
    <3>. QED BY ConcatProperties
  <2>3. 2 \in 1 .. Len(CRLF) + Len(CRLF) /\ 2 <= Len(CRLF)
    BY <2>1
  <2>. HIDE DEF e
  <2>. QED BY <2>1, <2>2, <2>3
<1>2. e \in Seq(A) /\ (s \o CRLF) \o CRLF = se /\ n \in Nat /\ n = Len(s)
  <2>1. s \in Seq(A) /\ CRLF \in Seq(A)
    OBVIOUS
  <2>2. (s \o CRLF) \o CRLF = s \o (CRLF \o CRLF)
    <3>1. Reassociates(s, CRLF, CRLF)
      BY <2>1, Reassociation
    <3>. QED BY <3>1, Zenon DEF Reassociates
  <2>3. CRLF \o CRLF \in Seq(A)
    BY ONLY SMTT(30), <2>1, ConcatProperties
  <2>4. n \in Nat
    BY LenProperties
  <2>. QED BY <2>2, <2>3, <2>4
<1>. HIDE DEF e, n
<1>3. /\ se \in Seq(A) /\ Len(se) = n + 4 /\ SubSeq(se, n + 1, n + 4) = e
      /\ se[n + 2] = "LF"
  <2>1. se \in Seq(A) /\ Len(se) = Len(s) + Len(e)
    BY <1>2, ConcatProperties
  <2>2. n + 1 \in Len(s) + 1 .. Len(s) + Len(e) /\ n + 4 \in Len(s) + 1 .. Len(s) + Len(e)
    BY <1>1, <1>2
  <2>3. SubSeq(se, n + 1, n + 4) = SubSeq(e, (n + 1) - Len(s), (n + 4) - Len(s))
    BY <1>2, <2>2, SubSeqOfConcat2
  <2>4. (n + 1) - Len(s) = 1 /\ (n + 4) - Len(s) = Len(e)
    BY <1>1, <1>2
  <2>5. SubSeq(e, 1, Len(e)) = e
    BY <1>2, SubSeqFull
  <2>6. se[n + 2] = e[2]
    <3>1. \A i \in 1 .. Len(s) + Len(e) : se[i] = IF i <= Len(s) THEN s[i] ELSE e[i - Len(s)]
      BY <1>2, ConcatProperties
    <3>2. n + 2 \in 1 .. Len(s) + Len(e) /\ ~(n + 2 <= Len(s)) /\ (n + 2) - Len(s) = 2
      BY <1>1, <1>2
    <3>. QED BY <3>1, <3>2
  <2>. QED BY <1>1, <1>2, <2>1, <2>3, <2>4, <2>5, <2>6
<1>. HIDE DEF se
<1>4. raw = se \o t
  BY <1>2
<1>5. raw \in Seq(A) /\ Len(raw) = Len(se) + Len(t) /\ Len(t) \in Nat
  <2>1. se \in Seq(A) /\ t \in Seq(A) /\ raw = se \o t
    BY <1>3, <1>4
  <2>2. raw \in Seq(A) /\ Len(raw) = Len(se) + Len(t)
    BY ONLY SMTT(30), <2>1, ConcatProperties
  <2>3. Len(t) \in Nat
    BY LenProperties
  <2>. QED BY <2>2, <2>3
<1>6. SubSeq(raw, n + 1, n + 4) = SubSeq(se, n + 1, n + 4)
  <2>. DEFINE k == n + 1
              l == n + 4
  <2>1. k \in 1 .. Len(se) /\ l \in 1 .. Len(se) /\ se \in Seq(A) /\ t \in Seq(A)
    BY <1>2, <1>3
  <2>. HIDE DEF k, l
  <2>2. SubSeq(se \o t, k, l) = SubSeq(se, k, l)
    BY ONLY SMTT(30), <2>1, SubSeqOfConcat1
  <2>. QED BY <1>4, <2>2 DEF k, l
<1>7. n + 1 \in 1 .. Len(raw) - 3 /\ (n + 1) + 3 = n + 4
  BY <1>2, <1>3, <1>5
<1>8. HeadEnds(raw)
  BY <1>3, <1>6, <1>7 DEF HeadEnds, e
<1>9. "LF" \in Range(raw)
  <2>1. \A i \in 1 .. Len(se) + Len(t) : raw[i] = IF i <= Len(se) THEN se[i] ELSE t[i - Len(se)]
    BY <1>3, <1>4, ConcatProperties
  <2>2. n + 2 \in 1 .. Len(se) + Len(t) /\ n + 2 <= Len(se)
    BY <1>2, <1>3, <1>5
  <2>3. raw[n + 2] = "LF"
    BY <1>3, <2>1, <2>2
  <2>4. n + 2 \in DOMAIN raw
    BY <1>5, <2>2, LenProperties
  <2>. QED BY <2>3, <2>4 DEF Range
<1>. QED BY <1>8, <1>9

\* The head of a message: its lines, each with its end, and an empty one.
LEMMA HeadSplit ==
    ASSUME NEW A, "CR" \in A, "LF" \in A, NEW L \in Seq(LinesOf(A)), L # <<>>,
           NEW h, h = Images(Ended(A), L) \o CRLF
    PROVE  /\ SplitsTo(A, h, LineEnds, L, <<>>)
           /\ \A t \in Seq(A) : HeadEnds(h \o t) /\ "LF" \in Range(h \o t)
<1>. DEFINE g == Images(Ended(A), L)
<1>1. SplitsTo(A, g, LineEnds, L, <<>>) /\ \E s \in Seq(A) : g = s \o CRLF
  BY LinesSplit DEF EndedSplit
<1>2. h = g \o CRLF
  OBVIOUS
<1>. HIDE DEF g
<1>3. SplitsTo(A, g \o CRLF, LineEnds, L, <<>>) /\ CRLF \in Seq(A)
  BY <1>1, SplitLineEnd
<1>4. ASSUME NEW t \in Seq(A) PROVE HeadEnds(h \o t) /\ "LF" \in Range(h \o t)
  <2>1. PICK s \in Seq(A) : g = s \o CRLF
    BY <1>1
  <2>. DEFINE raw == h \o t
  <2>2. raw = ((s \o CRLF) \o CRLF) \o t
    BY <1>2, <2>1
  <2>. HIDE DEF raw
  <2>3. HeadEnds(raw) /\ "LF" \in Range(raw)
    BY <1>3, <2>2, HeadIsEnded
  <2>. QED BY <2>3 DEF raw
<1>. QED BY <1>2, <1>3, <1>4

-----------------------------------------------------------------------------
(* What a client sends, as lines.                                          *)

LEMMA SeqWider ==
    ASSUME NEW A, NEW B, A \in SUBSET B, NEW s \in Seq(A)
    PROVE  s \in Seq(B)
<1>1. s \in [1 .. Len(s) -> A] /\ Len(s) \in Nat
  BY LenProperties
<1>2. s \in [1 .. Len(s) -> B]
  BY <1>1
<1>. QED BY <1>1, <1>2, IsASeq

LEMMA WithoutConcat ==
    ASSUME NEW A, NEW u \in Seq(A), NEW v \in Seq(A), NEW separators,
           Without(u, separators), Without(v, separators)
    PROVE  Without(u \o v, separators)
<1>. DEFINE w == u \o v
<1>1. /\ Len(w) = Len(u) + Len(v) /\ Len(u) \in Nat /\ Len(v) \in Nat
      /\ \A i \in 1 .. Len(u) + Len(v) : w[i] = IF i <= Len(u) THEN u[i] ELSE v[i - Len(u)]
  BY ConcatProperties, LenProperties
<1>. HIDE DEF w
<1>2. ASSUME NEW k \in 1 .. Len(w) PROVE w[k] \notin separators
  <2>1. CASE k <= Len(u)
    <3>1. k \in 1 .. Len(u) /\ w[k] = u[k]
      BY <1>1, <2>1
    <3>. QED BY <3>1 DEF Without
  <2>2. CASE ~(k <= Len(u))
    <3>1. k - Len(u) \in 1 .. Len(v) /\ w[k] = v[k - Len(u)]
      BY <1>1, <2>2
    <3>. QED BY <3>1 DEF Without
  <2>. QED BY <2>1, <2>2
<1>. QED BY <1>2 DEF Without, w

\* Text that has no line end has none among its elements.
LEMMA WithoutLineEnds ==
    ASSUME NEW A, NEW s \in Seq(A), Range(s) \cap {"CR", "LF"} = {}
    PROVE  Without(s, LineEnds)
<1>1. \A k \in 1 .. Len(s) : s[k] \in Range(s)
  BY LenProperties DEF Range
<1>. QED BY <1>1 DEF Without, LineEnds

\* What divides a header's name from its value.
Colon == ": "

\* The first line, that of a header, and all lines before the empty one.
FirstLine(q) == <<q.method, " ", q.uri, " ", "HTTP/1.1">>
HeaderLine(h) == h[1] \o <<Colon>> \o h[2]
HeaderLines(q) == [i \in DOMAIN q.headers |-> HeaderLine(q.headers[i])]
HeadLines(q) == <<FirstLine(q)>> \o HeaderLines(q)

\* What follows the empty line.
BodyText(q) == FlattenSeq([i \in DOMAIN q.body |-> IF i = 1 THEN q.body[i] ELSE CRLF \o q.body[i]])

\* What a message is made of.
Atoms(q) == STRING \cup {"CR", "LF", " ", ": ", "HTTP/1.1", q.method, q.uri}

LEMMA AtomsFacts ==
    ASSUME NEW q
    PROVE  /\ STRING \in SUBSET Atoms(q) /\ "CR" \in Atoms(q) /\ "LF" \in Atoms(q)
           /\ " " \in Atoms(q) /\ Colon \in Atoms(q) /\ "HTTP/1.1" \in Atoms(q)
           /\ q.method \in Atoms(q) /\ q.uri \in Atoms(q) /\ CRLF \in Seq(Atoms(q))
           /\ \A s \in Seq(STRING) : s \in Seq(Atoms(q))
<1>1. /\ STRING \in SUBSET Atoms(q) /\ "CR" \in Atoms(q) /\ "LF" \in Atoms(q)
      /\ " " \in Atoms(q) /\ Colon \in Atoms(q) /\ "HTTP/1.1" \in Atoms(q)
      /\ q.method \in Atoms(q) /\ q.uri \in Atoms(q)
  BY DEF Atoms, Colon
<1>2. CRLF \in Seq(Atoms(q))
  <2>. DEFINE A == Atoms(q)
  <2>1. "CR" \in A /\ "LF" \in A
    BY <1>1
  <2>. HIDE DEF A
  <2>2. <<"CR", "LF">> \in Seq(A)
    BY ONLY <2>1, TwoType
  <2>. QED BY <2>2 DEF CRLF, A
<1>. QED BY <1>1, <1>2, SeqWider

LEMMA FirstLineType ==
    ASSUME NEW q \in Sent
    PROVE  FirstLine(q) \in LinesOf(Atoms(q))
<1>. DEFINE A == Atoms(q)
            s == FirstLine(q)
            m == q.method
            u == q.uri
            blank == " "
            version == "HTTP/1.1"
<1>1. /\ m \in A /\ u \in A /\ blank \in A /\ version \in A
      /\ m \notin LineEnds /\ u \notin LineEnds /\ blank \notin LineEnds /\ version \notin LineEnds
  BY AtomsFacts, SentAssumption DEF LineEnds
<1>2. s = <<m, blank, u, blank, version>>
  BY DEF FirstLine
<1>. HIDE DEF A, m, u, blank, version
<1>. HIDE DEF s
<1>3. s \in Seq(A) /\ Len(s) = 5
  BY <1>1, <1>2
<1>4. s[1] = m /\ s[2] = blank /\ s[3] = u /\ s[4] = blank /\ s[5] = version
  BY <1>2
<1>5. s # <<>>
  BY <1>3, EmptySeq
<1>6. Without(s, LineEnds)
  <2>1. \A k \in 1 .. Len(s) : k = 1 \/ k = 2 \/ k = 3 \/ k = 4 \/ k = 5
    BY <1>3
  <2>. QED BY <1>1, <1>4, <2>1 DEF Without
<1>. QED BY <1>3, <1>5, <1>6 DEF LinesOf, A, s

LEMMA PairFacts ==
    ASSUME NEW X, NEW Y, NEW p \in X \X Y
    PROVE  p = <<p[1], p[2]>> /\ p[1] \in X /\ p[2] \in Y
OBVIOUS

LEMMA HeaderFacts ==
    ASSUME NEW q \in Sent, NEW i \in DOMAIN q.headers
    PROVE  /\ q.headers[i] = <<q.headers[i][1], q.headers[i][2]>>
           /\ q.headers[i] \in Seq(STRING) \X Seq(STRING)
           /\ q.headers[i][1] \in Seq(STRING) /\ q.headers[i][2] \in Seq(STRING)
           /\ Colon \notin Range(q.headers[i][1])
           /\ Range(q.headers[i][1]) \cap {"CR", "LF"} = {}
           /\ Range(q.headers[i][2]) \cap {"CR", "LF"} = {}
<1>1. q.headers \in Seq(Seq(STRING) \X Seq(STRING))
  BY SentAssumption
<1>2. q.headers[i] \in Seq(STRING) \X Seq(STRING)
  BY <1>1, LenProperties, ElementOfSeq
<1>3. /\ Range(q.headers[i][1]) \cap {": ", "CR", "LF"} = {}
      /\ Range(q.headers[i][2]) \cap {"CR", "LF"} = {}
  BY SentAssumption
<1>6. Colon \notin Range(q.headers[i][1]) /\ Range(q.headers[i][1]) \cap {"CR", "LF"} = {}
  BY <1>3 DEF Colon
<1>. DEFINE p == q.headers[i]
            X == Seq(STRING)
<1>4. p \in X \X X
  BY <1>2
<1>. HIDE DEF p, X
<1>5. p = <<p[1], p[2]>> /\ p[1] \in X /\ p[2] \in X
  BY <1>4, PairFacts
<1>. QED BY <1>3, <1>4, <1>5, <1>6 DEF p, X

LEMMA HeaderLineType ==
    ASSUME NEW q \in Sent, NEW i \in DOMAIN q.headers
    PROVE  HeaderLine(q.headers[i]) \in LinesOf(Atoms(q))
<1>. DEFINE A == Atoms(q)
            a == q.headers[i][1]
            b == q.headers[i][2]
            c == <<Colon>>
            s == (a \o c) \o b
<1>1. a \in Seq(A) /\ b \in Seq(A) /\ c \in Seq(A)
  <2>1. a \in Seq(STRING) /\ b \in Seq(STRING)
    BY HeaderFacts
  <2>2. Colon \in A /\ \A t \in Seq(STRING) : t \in Seq(A)
    BY AtomsFacts
  <2>. HIDE DEF A, a, b
  <2>3. a \in Seq(A) /\ b \in Seq(A)
    BY <2>1, <2>2
  <2>4. c \in Seq(A)
    BY ONLY <2>2, OneType
  <2>. QED BY <2>3, <2>4
<1>2. Without(a, LineEnds) /\ Without(b, LineEnds)
  BY HeaderFacts, WithoutLineEnds
<1>3. Without(c, LineEnds) /\ Len(c) = 1
  <2>1. Len(c) = 1
    OBVIOUS
  <2>2. c[1] \notin LineEnds
    BY DEF LineEnds, Colon
  <2>3. \A k \in 1 .. 1 : k = 1
    OBVIOUS
  <2>. HIDE DEF c
  <2>. QED BY <2>1, <2>2, <2>3 DEF Without
<1>4. s = HeaderLine(q.headers[i])
  BY DEF HeaderLine
<1>. HIDE DEF A, a, b, c
<1>5. a \o c \in Seq(A) /\ Without(a \o c, LineEnds) /\ Len(a \o c) = Len(a) + Len(c)
  BY <1>1, <1>2, <1>3, WithoutConcat, ConcatProperties
<1>6. s \in Seq(A) /\ Without(s, LineEnds) /\ Len(s) = Len(a \o c) + Len(b)
  BY <1>1, <1>2, <1>5, WithoutConcat, ConcatProperties
<1>. HIDE DEF s
<1>7. s # <<>>
  <2>1. Len(a) \in Nat /\ Len(b) \in Nat
    BY <1>1, LenProperties
  <2>2. Len(s) # 0
    BY <1>3, <1>5, <1>6, <2>1
  <2>. QED BY <2>2, EmptySeq
<1>. QED BY <1>4, <1>6, <1>7 DEF LinesOf, A

\* The sequence of the header lines.
LEMMA HeaderLinesType ==
    ASSUME NEW q \in Sent
    PROVE  HeaderLines(q) \in Seq(LinesOf(Atoms(q))) /\ Len(HeaderLines(q)) = Len(q.headers)
           /\ DOMAIN q.headers = 1 .. Len(q.headers) /\ Len(q.headers) \in Nat
<1>. DEFINE W == LinesOf(Atoms(q))
            n == Len(q.headers)
            H == HeaderLines(q)
<1>1. n \in Nat /\ DOMAIN q.headers = 1 .. n
  BY SentAssumption, LenProperties
<1>2. \A i \in 1 .. n : HeaderLine(q.headers[i]) \in W
  BY <1>1, HeaderLineType
<1>. HIDE DEF W, n
<1>3. H = [i \in 1 .. n |-> HeaderLine(q.headers[i])]
  BY <1>1 DEF HeaderLines
<1>4. H \in [1 .. n -> W] /\ DOMAIN H = 1 .. n
  BY <1>2, <1>3
<1>. HIDE DEF H
<1>5. H \in Seq(W)
  BY <1>1, <1>4, IsASeq
<1>6. Len(H) = n
  BY <1>1, <1>4, <1>5, LenProperties
<1>. QED BY <1>1, <1>5, <1>6 DEF H, W, n

\* The body of a message is a text of its atoms.
LEMMA BodyTextType ==
    ASSUME NEW q \in Sent
    PROVE  BodyText(q) \in Seq(Atoms(q))
<1>. DEFINE A == Atoms(q)
            n == Len(q.body)
            P == [i \in DOMAIN q.body |-> IF i = 1 THEN q.body[i] ELSE CRLF \o q.body[i]]
<1>1. n \in Nat /\ DOMAIN q.body = 1 .. n /\ \A i \in 1 .. n : q.body[i] \in Seq(STRING)
  BY SentAssumption, LenProperties, ElementOfSeq
<1>2. CRLF \in Seq(A) /\ \A s \in Seq(STRING) : s \in Seq(A)
  BY AtomsFacts
<1>. HIDE DEF A, n
<1>3. ASSUME NEW i \in 1 .. n PROVE P[i] \in Seq(A)
  <2>. DEFINE b == q.body[i]
  <2>1. b \in Seq(A) /\ P[i] = IF i = 1 THEN b ELSE CRLF \o b
    BY <1>1, <1>2
  <2>. HIDE DEF b, P
  <2>2. CRLF \o b \in Seq(A)
    BY <1>2, <2>1, ConcatProperties
  <2>. QED BY <2>1, <2>2
<1>4. P \in [1 .. n -> Seq(A)]
  <2>1. DOMAIN P = 1 .. n /\ P = [i \in 1 .. n |-> P[i]]
    BY <1>1
  <2>. HIDE DEF P
  <2>. QED BY <1>3, <2>1
<1>5. BodyText(q) = FlattenSeq(P)
  BY DEF BodyText
<1>. HIDE DEF P
<1>6. P \in Seq(Seq(A))
  BY <1>1, <1>4, IsASeq
<1>. QED BY <1>5, <1>6, FlattenType DEF A

\* A message is its lines, each with its end, an empty line and the body.
LEMMA MessageLines ==
    ASSUME NEW q \in Sent
    PROVE  /\ HeadLines(q) \in Seq(LinesOf(Atoms(q))) /\ HeadLines(q) # <<>>
           /\ HeadLines(q)[1] = FirstLine(q) /\ Len(HeadLines(q)) = Len(q.headers) + 1
           /\ \A i \in 1 .. Len(q.headers) : HeadLines(q)[i + 1] = HeaderLine(q.headers[i])
           /\ Message(q) = (Images(Ended(Atoms(q)), HeadLines(q)) \o CRLF) \o BodyText(q)
<1>. DEFINE A == Atoms(q)
            W == LinesOf(A)
            f == Ended(A)
            l == FirstLine(q)
            one == <<l>>
            H == HeaderLines(q)
            L == HeadLines(q)
            n == Len(q.headers)
<1>1. "CR" \in A /\ "LF" \in A /\ CRLF \in Seq(A)
  BY AtomsFacts
<1>2. l \in W
  BY FirstLineType
<1>3. H \in Seq(W) /\ Len(H) = n /\ n \in Nat /\ DOMAIN q.headers = 1 .. n
      /\ \A i \in 1 .. n : H[i] = HeaderLine(q.headers[i])
  BY HeaderLinesType DEF HeaderLines
<1>4. Maps(f, W, A) /\ W \in SUBSET Seq(A)
  BY <1>1, EndedMaps
<1>5. \A w \in W : f[w] = Line(w)
  BY DEF Ended, Line
<1>6. L = one \o H
  BY DEF HeadLines
<1>. DEFINE tail == FlattenSeq([i \in DOMAIN q.headers |-> Line(q.headers[i][1] \o <<": ">> \o q.headers[i][2])])
<1>7. Message(q) = Line(l) \o tail \o CRLF \o BodyText(q)
  BY DEF Message, FirstLine, BodyText
<1>8. tail = FlattenSeq([i \in 1 .. n |-> Line(HeaderLine(q.headers[i]))])
  BY Zenon, <1>3 DEF HeaderLine, Colon
<1>. HIDE DEF A, W, f, l, H, L, n, tail
<1>9. one \in Seq(W) /\ Len(one) = 1 /\ one[1] = l
  BY <1>2, OneType
<1>10. L \in Seq(W) /\ Len(L) = n + 1 /\ L[1] = l /\ \A i \in 1 .. n : L[i + 1] = H[i]
  <2>. HIDE DEF one
  <2>1. /\ L \in Seq(W) /\ Len(L) = Len(one) + Len(H)
        /\ \A i \in 1 .. Len(one) + Len(H) : L[i] = IF i <= Len(one) THEN one[i] ELSE H[i - Len(one)]
    BY <1>3, <1>6, <1>9, ConcatProperties
  <2>2. L[1] = l
    <3>1. 1 \in 1 .. Len(one) + Len(H) /\ 1 <= Len(one)
      BY <1>3, <1>9
    <3>. QED BY <1>9, <2>1, <3>1
  <2>3. ASSUME NEW i \in 1 .. n PROVE L[i + 1] = H[i]
    <3>1. i + 1 \in 1 .. Len(one) + Len(H) /\ ~(i + 1 <= Len(one)) /\ (i + 1) - Len(one) = i
      BY <1>3, <1>9
    <3>. QED BY <2>1, <3>1
  <2>. QED BY <1>3, <1>9, <2>1, <2>2, <2>3
<1>11. L # <<>>
  <2>1. Len(L) # 0
    BY <1>3, <1>10
  <2>. QED BY <2>1, EmptySeq
<1>12. Images(f, L) = Images(f, one) \o Images(f, H)
  <2>. HIDE DEF one
  <2>. QED BY <1>3, <1>4, <1>6, <1>9, ImagesConcat
<1>13. Images(f, one) = Line(l)
  <2>1. Images(f, Append(<<>>, l)) = Images(f, <<>>) \o f[l]
    <3>. DEFINE none == <<>>
    <3>1. Maps(f, W, A) /\ none \in Seq(W) /\ l \in W
      BY <1>2, <1>4, EmptySeq
    <3>. HIDE DEF none
    <3>2. Images(f, Append(none, l)) = Images(f, none) \o f[l]
      BY ONLY SMTT(30), <3>1, ImagesAppend
    <3>. QED BY <3>2 DEF none
  <2>2. Append(<<>>, l) = one
    OBVIOUS
  <2>3. f[l] \in Seq(A) /\ f[l] = Line(l)
    BY <1>2, <1>4, <1>5 DEF Maps
  <2>4. <<>> \o f[l] = f[l]
    BY <2>3, ConcatEmptySeq
  <2>. HIDE DEF one
  <2>. QED BY <2>1, <2>2, <2>3, <2>4, ImagesEmpty
<1>14. Images(f, H) = tail
  <2>1. DOMAIN H = 1 .. n /\ \A i \in 1 .. n : H[i] \in W
    BY <1>3, LenProperties, ElementOfSeq
  <2>2. \A i \in 1 .. n : f[H[i]] = Line(HeaderLine(q.headers[i]))
    BY <1>3, <1>5, <2>1
  <2>3. [k \in DOMAIN H |-> f[H[k]]] = [i \in 1 .. n |-> Line(HeaderLine(q.headers[i]))]
    BY <2>1, <2>2
  <2>. QED BY <1>8, <2>3 DEF Images
<1>15. Message(q) = (Images(f, L) \o CRLF) \o BodyText(q)
  BY <1>7, <1>12, <1>13, <1>14
<1>. QED BY <1>3, <1>10, <1>11, <1>15 DEF A, W, f, l, H, L, n

\* r is p and one element more.
OneMore(r, p, x) ==
    Len(r) = Len(p) + 1 /\ r[Len(p) + 1] = x /\ \A i \in 1 .. Len(p) : r[i] = p[i]

\* What Append gives, recognised by its elements.
LEMMA IsAppended ==
    ASSUME NEW T, NEW p \in Seq(T), NEW x \in T, NEW r \in Seq(T), OneMore(r, p, x)
    PROVE  Append(p, x) = r
<1>. DEFINE a == Append(p, x)
            n == Len(p)
<1>1. /\ a \in Seq(T) /\ Len(a) = n + 1 /\ a[n + 1] = x /\ n \in Nat
      /\ \A i \in 1 .. n : a[i] = p[i]
  BY AppendProperties, LenProperties
<1>2. Len(r) = n + 1 /\ r[n + 1] = x /\ \A i \in 1 .. n : r[i] = p[i]
  BY DEF OneMore
<1>. HIDE DEF a, n
<1>3. \A i \in 1 .. n + 1 : i \in 1 .. n \/ i = n + 1
  BY <1>1
<1>4. \A i \in 1 .. n + 1 : a[i] = r[i]
  BY <1>1, <1>2, <1>3
<1>. QED BY <1>1, <1>2, <1>4, SeqEqual DEF a

LEMMA ThreeAppended ==
    ASSUME NEW a, NEW b, NEW c
    PROVE  Append(Append(Append(<<>>, a), b), c) = <<a, b, c>>
<1>. DEFINE T == {a, b, c}
            r1 == <<a>>
            r2 == <<a, b>>
            r3 == <<a, b, c>>
<1>1. r1 \in Seq(T) /\ Len(r1) = 1 /\ r1[1] = a
  OBVIOUS
<1>2. r2 \in Seq(T) /\ Len(r2) = 2 /\ r2[1] = a /\ r2[2] = b
  OBVIOUS
<1>3. r3 \in Seq(T) /\ Len(r3) = 3 /\ r3[1] = a /\ r3[2] = b /\ r3[3] = c
  OBVIOUS
<1>4. Append(<<>>, a) = r1 /\ a \in T /\ b \in T /\ c \in T
  OBVIOUS
<1>5. (\A i \in 1 .. 1 : i = 1) /\ (\A i \in 1 .. 2 : i = 1 \/ i = 2)
  OBVIOUS
<1>. HIDE DEF T, r1, r2, r3
<1>6. Append(r1, b) = r2
  <2>1. OneMore(r2, r1, b)
    BY <1>1, <1>2, <1>5 DEF OneMore
  <2>. QED BY <1>1, <1>2, <1>3, <1>4, <1>5, <2>1, IsAppended
<1>7. Append(r2, c) = r3
  <2>1. OneMore(r3, r2, c)
    BY <1>2, <1>3, <1>5 DEF OneMore
  <2>. QED BY <1>1, <1>2, <1>3, <1>4, <1>5, <2>1, IsAppended
<1>. QED BY <1>4, <1>6, <1>7 DEF r3

LEMMA FiveAppended ==
    ASSUME NEW a, NEW b, NEW c, NEW d, NEW e
    PROVE  Append(Append(Append(Append(Append(<<>>, a), b), c), d), e) = <<a, b, c, d, e>>
<1>. DEFINE T == {a, b, c, d, e}
            r3 == <<a, b, c>>
            r4 == <<a, b, c, d>>
            r5 == <<a, b, c, d, e>>
<1>1. r3 \in Seq(T) /\ Len(r3) = 3 /\ r3[1] = a /\ r3[2] = b /\ r3[3] = c
  OBVIOUS
<1>2. r4 \in Seq(T) /\ Len(r4) = 4 /\ r4[1] = a /\ r4[2] = b /\ r4[3] = c /\ r4[4] = d
  OBVIOUS
<1>3. r5 \in Seq(T) /\ Len(r5) = 5
      /\ r5[1] = a /\ r5[2] = b /\ r5[3] = c /\ r5[4] = d /\ r5[5] = e
  OBVIOUS
<1>4. Append(Append(Append(<<>>, a), b), c) = r3
  BY ThreeAppended
<1>5. (\A i \in 1 .. 3 : i = 1 \/ i = 2 \/ i = 3) /\ (\A i \in 1 .. 4 : i = 1 \/ i = 2 \/ i = 3 \/ i = 4)
      /\ d \in T /\ e \in T
  OBVIOUS
<1>. HIDE DEF T, r3, r4, r5
<1>6. Append(r3, d) = r4
  <2>1. OneMore(r4, r3, d)
    BY <1>1, <1>2, <1>5 DEF OneMore
  <2>. QED BY <1>1, <1>2, <1>3, <1>4, <1>5, <2>1, IsAppended
<1>7. Append(r4, e) = r5
  <2>1. OneMore(r5, r4, e)
    BY <1>2, <1>3, <1>5 DEF OneMore
  <2>. QED BY <1>1, <1>2, <1>3, <1>4, <1>5, <2>1, IsAppended
<1>. QED BY <1>4, <1>6, <1>7 DEF r5

\* The words of the first line.
LEMMA FirstLineWords ==
    ASSUME NEW q \in Sent
    PROVE  /\ split(FirstLine(q), Blanks) = << <<q.method>>, <<q.uri>>, <<"HTTP/1.1">> >>
           /\ check_first_request_line(FirstLine(q))
<1>. DEFINE A == Atoms(q)
            m == q.method
            u == q.uri
            blank == " "
            version == "HTTP/1.1"
            s0 == <<>>
            s1 == Append(s0, m)
            s2 == Append(s1, blank)
            s3 == Append(s2, u)
            s4 == Append(s3, blank)
            s5 == Append(s4, version)
            F1 == Append(<<>>, <<m>>)
            F2 == Append(F1, <<u>>)
            Parts(s, F, cur) == SplitsTo(A, s, Blanks, F, cur)
<1>1. /\ m \in A /\ u \in A /\ blank \in A /\ version \in A
      /\ m \notin Blanks /\ u \notin Blanks /\ blank \in Blanks /\ version \notin Blanks
  BY AtomsFacts, SentAssumption DEF Blanks
<1>2. m \in {"GET", "POST"}
  BY SentAssumption
<1>3. FirstLine(q) = <<m, blank, u, blank, version>>
  BY DEF FirstLine
<1>. HIDE DEF A, m, u, blank, version
<1>4. Append(<<>>, m) = <<m>> /\ Append(<<>>, u) = <<u>> /\ Append(<<>>, version) = <<version>>
  OBVIOUS
<1>5. <<m>> # <<>> /\ <<u>> # <<>>
  OBVIOUS
<1>6. Append(F2, <<version>>) = << <<m>>, <<u>>, <<version>> >>
  BY ThreeAppended
<1>7. s5 = <<m, blank, u, blank, version>>
  BY FiveAppended
<1>. HIDE DEF s0, s1, s2, s3, s4, s5
<1>8. Parts(s0, <<>>, <<>>)
  BY SplitEmpty DEF s0
<1>9. Parts(s1, <<>>, <<m>>)
  BY <1>1, <1>4, <1>8, SplitChar DEF s1
<1>10. Parts(s2, F1, <<>>)
  BY <1>1, <1>5, <1>9, SplitSeparator DEF s2
<1>11. Parts(s3, F1, <<u>>)
  BY <1>1, <1>4, <1>10, SplitChar DEF s3
<1>12. Parts(s4, F2, <<>>)
  BY <1>1, <1>5, <1>11, SplitSeparator DEF s4
<1>13. Parts(s5, F2, <<version>>)
  BY <1>1, <1>4, <1>12, SplitChar DEF s5
<1>14. split(s5, Blanks) = << <<m>>, <<u>>, <<version>> >>
  BY <1>6, <1>13 DEF SplitsTo
<1>15. check_first_request_line(s5)
  <2>. DEFINE p == split(s5, {" "})
  <2>1. p = << <<m>>, <<u>>, <<version>> >>
    BY <1>14 DEF Blanks
  <2>. HIDE DEF p
  <2>2. Len(p) = 3 /\ p[1] = <<m>> /\ p[3] = <<version>>
    BY <2>1
  <2>3. p[1] \in {<<"GET">>, <<"POST">>}
    BY <1>2, <2>2
  <2>4. "HTTP/1.1" \in Range(<<version>>)
    BY DEF Range, version
  <2>. QED BY <2>2, <2>3, <2>4 DEF check_first_request_line, p
<1>. QED BY <1>3, <1>7, <1>14, <1>15 DEF m, u, version

\* A line is taken apart at its first colon and space.
LEMMA PairOfLine ==
    ASSUME NEW A, NEW a \in Seq(A), NEW b \in Seq(A), <<Colon>> \in Seq(A), Colon \notin Range(a)
    PROVE  PairIn((a \o <<Colon>>) \o b) = << <<a, b>> >>
<1>. DEFINE c == <<Colon>>
            ac == a \o c
            line == ac \o b
            n == Len(a)
            m == Len(b)
            colons == {i \in 1 .. Len(line) : line[i] = Colon}
<1>1. c \in Seq(A) /\ Len(c) = 1 /\ c[1] = Colon /\ n \in Nat /\ m \in Nat /\ n = Len(a) /\ m = Len(b)
  BY LenProperties
<1>2. \A i \in 1 .. n : a[i] # Colon
  BY LenProperties DEF Range
<1>. HIDE DEF c, n, m
<1>3. /\ ac \in Seq(A) /\ Len(ac) = n + 1 /\ ac[n + 1] = Colon
      /\ \A i \in 1 .. n : ac[i] = a[i]
  <2>1. /\ ac \in Seq(A) /\ Len(ac) = Len(a) + Len(c)
        /\ \A i \in 1 .. Len(a) + Len(c) : ac[i] = IF i <= Len(a) THEN a[i] ELSE c[i - Len(a)]
    BY <1>1, ConcatProperties
  <2>2. n + 1 \in 1 .. Len(a) + Len(c) /\ ~(n + 1 <= Len(a)) /\ (n + 1) - Len(a) = 1
    BY <1>1
  <2>3. \A i \in 1 .. n : i \in 1 .. Len(a) + Len(c) /\ i <= Len(a)
    BY <1>1
  <2>. HIDE DEF ac
  <2>. QED BY <1>1, <2>1, <2>2, <2>3
<1>. HIDE DEF ac
<1>4. /\ line \in Seq(A) /\ Len(line) = n + 1 + m /\ line[n + 1] = Colon
      /\ \A i \in 1 .. n : line[i] = a[i]
      /\ \A i \in 1 .. m : line[n + 1 + i] = b[i]
  <2>1. /\ line \in Seq(A) /\ Len(line) = Len(ac) + Len(b)
        /\ \A i \in 1 .. Len(ac) + Len(b) : line[i] = IF i <= Len(ac) THEN ac[i] ELSE b[i - Len(ac)]
    BY <1>1, <1>3, ConcatProperties
  <2>. HIDE DEF line
  <2>2. n + 1 \in 1 .. Len(ac) + Len(b) /\ n + 1 <= Len(ac)
    BY <1>1, <1>3
  <2>3. \A i \in 1 .. n : i \in 1 .. Len(ac) + Len(b) /\ i <= Len(ac)
    BY <1>1, <1>3
  <2>4. \A i \in 1 .. m : /\ n + 1 + i \in 1 .. Len(ac) + Len(b) /\ ~(n + 1 + i <= Len(ac))
                          /\ (n + 1 + i) - Len(ac) = i
    BY <1>1, <1>3
  <2>5. line[n + 1] = Colon
    BY <1>3, <2>1, <2>2
  <2>6. ASSUME NEW i \in 1 .. n PROVE line[i] = a[i]
    BY <1>3, <2>1, <2>3
  <2>7. ASSUME NEW i \in 1 .. m PROVE line[n + 1 + i] = b[i]
    BY <2>1, <2>4
  <2>8. Len(line) = n + 1 + m
    BY <1>1, <1>3, <2>1
  <2>. QED BY <2>1, <2>5, <2>6, <2>7, <2>8
<1>. HIDE DEF line
<1>5. colons # {} /\ Min(colons) = n + 1
  <2>1. n + 1 \in colons
    BY <1>1, <1>4
  <2>2. \A i \in colons : i >= n + 1
    <3>1. ASSUME NEW i \in colons, ~(i >= n + 1) PROVE FALSE
      <4>1. i \in 1 .. n /\ line[i] = Colon
        BY <1>1, <1>4, <3>1
      <4>. QED BY <1>2, <1>4, <4>1
    <3>. QED BY <3>1
  <2>3. colons \in SUBSET Nat
    OBVIOUS
  <2>. HIDE DEF colons
  <2>4. Min(colons) \in colons /\ Min(colons) <= n + 1
    BY <2>1, <2>3, LowestExists
  <2>5. Min(colons) \in Nat /\ Min(colons) >= n + 1
    BY <2>2, <2>3, <2>4
  <2>. QED BY <1>1, <2>1, <2>4, <2>5
<1>6. SelectInSeq(line, LAMBDA x : x = Colon) = n + 1
  <2>1. SelectInSeq(line, LAMBDA x : x = Colon) = IF colons # {} THEN Min(colons) ELSE 0
    BY DEF SelectInSeq, Min
  <2>. HIDE DEF colons
  <2>. QED BY <1>5, <2>1
<1>7. SubSeq(line, 1, n) = a
  <2>. DEFINE p == SubSeq(line, 1, n)
  <2>1. \A i \in 1 .. n : line[i] \in A
    BY <1>1, <1>4, ElementOfSeq
  <2>2. /\ p \in Seq(A) /\ Len(p) = IF 1 <= n THEN n - 1 + 1 ELSE 0
        /\ \A i \in 1 .. n - 1 + 1 : p[i] = line[1 + i - 1]
    BY <1>1, <2>1, SubSeqProperties
  <2>. HIDE DEF p
  <2>3. Len(p) = n
    BY <1>1, <2>2
  <2>4. \A i \in 1 .. n : i \in 1 .. n - 1 + 1 /\ 1 + i - 1 = i
    BY <1>1
  <2>5. \A i \in 1 .. Len(p) : p[i] = a[i]
    BY <1>4, <2>2, <2>3, <2>4
  <2>. QED BY <1>1, <2>2, <2>3, <2>5, SeqEqual DEF p
<1>8. SubSeq(line, n + 2, Len(line)) = b
  <2>. DEFINE p == SubSeq(line, n + 2, Len(line))
              k == n + 2
              l == Len(line)
  <2>1. k \in Int /\ l \in Int /\ l - k + 1 = m /\ k = n + 2 /\ (k <= l <=> m # 0)
    BY <1>1, <1>4
  <2>2. \A i \in k .. l : line[i] \in A
    <3>1. \A i \in k .. l : i \in 1 .. Len(line)
      BY <1>1, <2>1
    <3>. QED BY <1>4, <3>1, ElementOfSeq
  <2>. HIDE DEF k, l
  <2>. DEFINE r == SubSeq(line, k, l)
  <2>3. /\ r \in Seq(A) /\ Len(r) = IF k <= l THEN l - k + 1 ELSE 0
        /\ \A i \in 1 .. l - k + 1 : r[i] = line[k + i - 1]
    BY <2>1, <2>2, SubSeqProperties
  <2>. HIDE DEF r
  <2>4. Len(r) = m
    BY <1>1, <2>1, <2>3
  <2>5. \A i \in 1 .. m : i \in 1 .. l - k + 1 /\ k + i - 1 = n + 1 + i
    BY <1>1, <2>1
  <2>6. \A i \in 1 .. Len(r) : r[i] = b[i]
    BY <1>4, <2>3, <2>4, <2>5
  <2>7. r = b
    BY <1>1, <2>3, <2>4, <2>6, SeqEqual
  <2>. QED BY <2>7 DEF r, k, l
<1>9. Pair(line) = <<a, b>>
  <2>. DEFINE k == SelectInSeq(line, LAMBDA x : x = Colon)
  <2>1. k - 1 = n /\ k + 1 = n + 2
    BY <1>1, <1>6
  <2>2. Pair(line) = <<SubSeq(line, 1, k - 1), SubSeq(line, k + 1, Len(line))>>
    BY Zenon DEF Pair, Colon
  <2>. HIDE DEF k
  <2>. QED BY <1>7, <1>8, <2>1, <2>2
<1>10. Colon \in Range(line)
  <2>1. n + 1 \in DOMAIN line
    BY <1>1, <1>4, LenProperties
  <2>. QED BY <1>4, <2>1 DEF Range
<1>11. PairIn(line) = << <<a, b>> >>
  BY Zenon, <1>9, <1>10 DEF PairIn, Colon
<1>. QED BY <1>11 DEF line, ac, c

\* Every header line gives back its header.
LEMMA HeaderBack ==
    ASSUME NEW q \in Sent, NEW i \in DOMAIN q.headers
    PROVE  PairIn(HeaderLine(q.headers[i])) = <<q.headers[i]>>
<1>. DEFINE A == Atoms(q)
            h == q.headers[i]
            a == h[1]
            b == h[2]
<1>1. a \in Seq(STRING) /\ b \in Seq(STRING) /\ Colon \notin Range(a) /\ h = <<a, b>>
  BY HeaderFacts
<1>2. Colon \in A /\ \A s \in Seq(STRING) : s \in Seq(A)
  BY AtomsFacts
<1>. HIDE DEF A
<1>3. <<Colon>> \in Seq(A)
  BY ONLY <1>2, OneType
<1>4. HeaderLine(h) = (a \o <<Colon>>) \o b
  BY DEF HeaderLine
<1>. HIDE DEF h, a, b
<1>5. a \in Seq(A) /\ b \in Seq(A)
  BY <1>1, <1>2
<1>6. PairIn((a \o <<Colon>>) \o b) = << <<a, b>> >>
  BY <1>1, <1>3, <1>5, PairOfLine
<1>7. PairIn(HeaderLine(h)) = <<h>>
  BY <1>1, <1>4, <1>6
<1>. QED BY <1>7 DEF h

\* The fields of a message's lines are its headers.
LEMMA HeadersBack ==
    ASSUME NEW q \in Sent, NEW lines, Len(lines) = Len(q.headers) + 2,
           \A i \in 1 .. Len(q.headers) : lines[i + 1] = HeaderLine(q.headers[i])
    PROVE  HeaderFields(lines) = q.headers
<1>. DEFINE n == Len(q.headers)
            T == Seq(STRING) \X Seq(STRING)
            f == [h \in T |-> <<h>>]
            H == q.headers
<1>1. H \in Seq(T) /\ n \in Nat /\ DOMAIN H = 1 .. n /\ n = Len(H)
  BY SentAssumption, LenProperties
<1>2. \A i \in 1 .. n : PairIn(lines[i + 1]) = <<H[i]>>
  BY <1>1, HeaderBack
<1>3. Len(lines) - 2 = n
  BY <1>1
<1>4. HeaderFields(lines) = FlattenSeq([i \in 1 .. n |-> PairIn(lines[i + 1])])
  BY <1>3 DEF HeaderFields
<1>. HIDE DEF T, n, H
<1>5. \A i \in 1 .. n : H[i] \in T
  BY <1>1, ElementOfSeq
<1>6. Maps(f, T, T) /\ \A h \in T : f[h] = <<h>>
  <2>1. \A h \in T : <<h>> \in Seq(T)
    BY OneType
  <2>. QED BY <2>1 DEF Maps
<1>. HIDE DEF f
<1>7. \A k \in 1 .. Len(H) : f[H[k]] = <<H[k]>>
  BY <1>1, <1>5, <1>6
<1>8. Images(f, H) = H
  BY <1>1, <1>6, <1>7, ImagesSame
<1>9. [i \in 1 .. n |-> PairIn(lines[i + 1])] = [k \in DOMAIN H |-> f[H[k]]]
  BY <1>1, <1>2, <1>7
<1>. QED BY <1>4, <1>8, <1>9 DEF Images, H

\* A message parses: its first line is the first part, whatever the body.
LEMMA MessageParses ==
    ASSUME NEW q \in Sent, NEW raw, raw = Message(q)
    PROVE  /\ Parses(raw) /\ raw # <<>>
           /\ req_lines(raw) = split(raw, LineEnds) /\ req_lines(raw)[1] = FirstLine(q)
           /\ Without(BodyText(q), LineEnds) => req_lines(raw) = Append(HeadLines(q), BodyText(q))
<1>. DEFINE A == Atoms(q)
            L == HeadLines(q)
            b == BodyText(q)
            h == Images(Ended(A), L) \o CRLF
<1>1. "CR" \in A /\ "LF" \in A
  BY AtomsFacts
<1>2. L \in Seq(LinesOf(A)) /\ L # <<>> /\ L[1] = FirstLine(q) /\ b \in Seq(A)
  BY MessageLines, BodyTextType
<1>3. raw = h \o b
  BY MessageLines
<1>4. h = Images(Ended(A), L) \o CRLF
  OBVIOUS
<1>. HIDE DEF A, L, b, h
<1>5. SplitsTo(A, h, LineEnds, L, <<>>) /\ HeadEnds(raw) /\ "LF" \in Range(raw)
  BY <1>1, <1>2, <1>3, <1>4, HeadSplit
<1>6. raw # <<>>
  <2>1. "LF" \notin Range(<<>>)
    BY DEF Range
  <2>. QED BY <1>5, <2>1
<1>7. req_lines(raw) = split(raw, LineEnds)
  BY <1>5 DEF req_lines, LineEnds
<1>8. req_lines(raw)[1] = FirstLine(q)
  <2>1. PICK G, c : SplitsTo(A, raw, LineEnds, G, c) /\ G # <<>> /\ G[1] = L[1]
    <3>1. \E G, c : SplitsTo(A, h \o b, LineEnds, G, c) /\ G # <<>> /\ G[1] = L[1]
      <4>1. b \in Seq(A) /\ L # <<>> /\ SplitsTo(A, h, LineEnds, L, <<>>) /\ LineEnds \in {LineEnds, Blanks}
        BY <1>2, <1>5
      <4>. QED BY ONLY SMTT(30), <4>1, SplitStable
    <3>. QED BY <1>3, <3>1
  <2>. DEFINE B == Seq(A)
  <2>2. G \in Seq(B) /\ c \in B /\ split(raw, LineEnds) = Append(G, c)
    BY <2>1 DEF SplitsTo
  <2>. HIDE DEF B
  <2>3. \A i \in 1 .. Len(G) : Append(G, c)[i] = G[i]
    BY <2>2, AppendProperties
  <2>4. 1 \in 1 .. Len(G)
    BY <2>1, <2>2, EmptySeq, LenProperties
  <2>. QED BY <1>2, <1>7, <2>1, <2>2, <2>3, <2>4
<1>9. Parses(raw)
  BY <1>5, <1>8, FirstLineWords DEF Parses
<1>10. ASSUME Without(b, LineEnds) PROVE req_lines(raw) = Append(L, b)
  <2>1. SplitsTo(A, h \o b, LineEnds, L, <<>> \o b)
    BY <1>2, <1>5, <1>10, SplitWord
  <2>2. <<>> \o b = b
    BY <1>2, ConcatEmptySeq
  <2>. QED BY <1>3, <1>7, <2>1, <2>2 DEF SplitsTo
<1>. QED BY <1>6, <1>7, <1>8, <1>9, <1>10 DEF L, b

\* A body of one line at most is its text, which has no line end.
LEMMA ShortBody ==
    ASSUME NEW q \in Sent, Len(q.body) <= 1
    PROVE  BodyText(q) = FlattenSeq(q.body) /\ Without(BodyText(q), LineEnds)
<1>. DEFINE B == q.body
            T == Seq(STRING)
            P == [i \in DOMAIN B |-> IF i = 1 THEN B[i] ELSE CRLF \o B[i]]
<1>1. B \in Seq(T) /\ DOMAIN B = 1 .. Len(B) /\ Len(B) \in Nat /\ Len(B) <= 1
      /\ \A i \in DOMAIN B : Range(B[i]) \cap {"CR", "LF"} = {}
  BY SentAssumption, LenProperties
<1>2. BodyText(q) = FlattenSeq(P)
  BY DEF BodyText
<1>. HIDE DEF B, T
<1>3. P = B
  <2>1. \A i \in DOMAIN B : i = 1
    BY <1>1
  <2>2. B = [i \in DOMAIN B |-> B[i]]
    BY <1>1, LenProperties
  <2>. QED BY <2>1, <2>2
<1>4. Without(FlattenSeq(B), LineEnds)
  <2>1. CASE Len(B) = 0
    <3>1. B = <<>>
      BY <1>1, <2>1, EmptySeq
    <3>2. FlattenSeq(B) = <<>> /\ Len(<<>>) = 0
      BY <3>1, FlattenEmpty
    <3>. QED BY <3>2 DEF Without
  <2>2. CASE Len(B) = 1
    <3>. DEFINE t == B[1]
                one == <<t>>
    <3>1. t \in T /\ Range(t) \cap {"CR", "LF"} = {}
      <4>1. 1 \in DOMAIN B /\ 1 \in 1 .. Len(B)
        BY <1>1, <2>2
      <4>2. B[1] \in T
        BY <1>1, <4>1, ElementOfSeq
      <4>3. Range(B[1]) \cap {"CR", "LF"} = {}
        BY <1>1, <4>1
      <4>. QED BY <4>2, <4>3
    <3>2. Append(<<>>, t) = one
      OBVIOUS
    <3>. HIDE DEF t
    <3>3. one \in Seq(T) /\ Len(one) = 1 /\ one[1] = t
      BY <3>1, OneType
    <3>. HIDE DEF one
    <3>4. \A i \in 1 .. Len(B) : B[i] = one[i]
      BY <2>2, <3>3 DEF t
    <3>5. B = one
      BY <1>1, <2>2, <3>3, <3>4, SeqEqual
    <3>6. FlattenSeq(B) = t
      BY <3>1, <3>5, FlattenOne DEF one, T
    <3>7. Without(t, LineEnds)
      BY <3>1, WithoutLineEnds DEF T
    <3>. QED BY <3>6, <3>7
  <2>. QED BY <1>1, <2>1, <2>2
<1>. QED BY <1>2, <1>3, <1>4 DEF B

\* What parse_request gives for a message.
LEMMA ParsedAsSent ==
    ASSUME NEW q \in Sent
    PROVE  /\ request_handler(Message(q)).uri_path = <<q.uri>>
           /\ Len(q.body) <= 1 =>
                request_handler(Message(q)) =
                  [method |-> <<q.method>>, uri_path |-> <<q.uri>>, http_version |-> <<"HTTP/1.1">>,
                   header_fields |-> q.headers, body |-> FlattenSeq(q.body)]
<1>. DEFINE raw == Message(q)
            lines == req_lines(raw)
            words == split(lines[1], {" "})
            version == "HTTP/1.1"
<1>1. Parses(raw) /\ lines[1] = FirstLine(q)
  BY MessageParses
<1>2. words = << <<q.method>>, <<q.uri>>, <<version>> >>
  BY <1>1, FirstLineWords DEF Blanks
<1>3. request_handler(raw) =
        [method |-> words[1], uri_path |-> words[2], http_version |-> words[3],
         header_fields |-> HeaderFields(lines), body |-> lines[Len(lines)]]
  BY <1>1 DEF request_handler, parse_request
<1>4. ASSUME Len(q.body) <= 1
      PROVE  HeaderFields(lines) = q.headers /\ lines[Len(lines)] = FlattenSeq(q.body)
  <2>. DEFINE L == HeadLines(q)
              b == BodyText(q)
              n == Len(q.headers)
              B == Seq(Atoms(q))
  <2>1. lines = Append(L, b) /\ b = FlattenSeq(q.body)
    BY <1>4, ShortBody, MessageParses
  <2>2. b \in B
    BY BodyTextType
  <2>3. L \in Seq(B) /\ Len(L) = n + 1 /\ n \in Nat
        /\ \A i \in 1 .. n : L[i + 1] = HeaderLine(q.headers[i])
    <3>1. L \in Seq(LinesOf(Atoms(q))) /\ LinesOf(Atoms(q)) \in SUBSET B
      BY MessageLines DEF LinesOf
    <3>2. L \in Seq(B)
      <4>. DEFINE W == LinesOf(Atoms(q))
      <4>. HIDE DEF W, B, L
      <4>. QED BY <3>1, SeqWider DEF W
    <3>. QED BY <3>2, MessageLines, HeaderLinesType
  <2>. HIDE DEF L, b, n, B, lines
  <2>4. /\ Len(lines) = n + 2 /\ lines[n + 2] = b
        /\ \A i \in 1 .. n + 1 : lines[i] = L[i]
    BY <2>1, <2>2, <2>3, AppendProperties
  <2>5. ASSUME NEW i \in 1 .. n PROVE lines[i + 1] = HeaderLine(q.headers[i])
    <3>1. i + 1 \in 1 .. n + 1
      BY <2>3
    <3>. QED BY <2>3, <2>4, <3>1
  <2>6. HeaderFields(lines) = q.headers
    BY <2>4, <2>5, HeadersBack DEF n
  <2>. QED BY <2>1, <2>4, <2>6
<1>5. words[1] = <<q.method>> /\ words[2] = <<q.uri>> /\ words[3] = <<version>>
  <2>. DEFINE m == <<q.method>>
              u == <<q.uri>>
              v == <<version>>
  <2>1. words = <<m, u, v>>
    BY <1>2
  <2>. HIDE DEF words, m, u, v
  <2>2. words[1] = m /\ words[2] = u /\ words[3] = v
    BY <2>1
  <2>. QED BY <2>2 DEF m, u, v
<1>. HIDE DEF words, lines, raw
<1>6. request_handler(raw).uri_path = <<q.uri>>
  BY <1>3, <1>5
<1>7. ASSUME Len(q.body) <= 1
      PROVE  request_handler(raw) =
               [method |-> <<q.method>>, uri_path |-> <<q.uri>>, http_version |-> <<version>>,
                header_fields |-> q.headers, body |-> FlattenSeq(q.body)]
  BY <1>3, <1>4, <1>5, <1>7
<1>. QED BY <1>6, <1>7 DEF raw

LEMMA InvAsSent == DispatchInv => RequestAsSent
<1>. SUFFICES ASSUME DispatchInv, NEW q \in Sent, answer.raw = Message(q), Len(q.body) <= 1
              PROVE  answer.request =
                       [method |-> <<q.method>>, uri_path |-> <<q.uri>>, http_version |-> <<"HTTP/1.1">>,
                        header_fields |-> q.headers, body |-> FlattenSeq(q.body)]
  BY DEF RequestAsSent
<1>1. answer # NoAnswer
  <2>1. NoAnswer.raw = <<>>
    BY DEF NoAnswer
  <2>. QED BY <2>1, MessageParses
<1>2. answer.raw \in Requests /\ answer.request = Parsed[answer.raw]
  BY <1>1, AnswerFacts
<1>3. answer.request = request_handler(Message(q))
  BY <1>2 DEF Parsed
<1>. QED BY <1>3, ParsedAsSent

\* A handler is given the method, path, headers and body that the client sent.
THEOREM RequestsAreAsSent == Spec => []RequestAsSent
BY DispatchInvHolds, InvAsSent, PTL

\* A form that is read whole is not read past the end of an item.
LEMMA FormsAreRead ==
    ASSUME NEW q \in Sent, IsForm(q)
    PROVE  ~ReadsPastEnd(FlattenSeq(q.body))
<1>. DEFINE body == FlattenSeq(q.body)
            items == split(body, {"&"})
<1>1. \A i \in DOMAIN items : "=" \in Range(items[i])
  BY DEF IsForm, Range
<1>. HIDE DEF items
<1>2. ~ \E i \in DOMAIN items : "=" \notin Range(items[i])
  BY <1>1
<1>. QED BY <1>2 DEF ReadsPastEnd, items

LEMMA InvEnds == DispatchInv => EndsOnlyWhere
<1>. SUFFICES ASSUME DispatchInv PROVE EndsOnlyWhere
  OBVIOUS
<1>. DEFINE name == config[answer.block].tokens[2]
<1>1. phase = "crashed" => ~WellFormed(config)
  BY DEF DispatchInv, StopsWith
<1>2. ASSUME phase = "ended"
      PROVE  \/ name = "proxy"
             \/ name \in {"static", "meme"} /\ Path(answer.raw).rest = NoRest
             \/ /\ name = "meme"
                /\ \A q \in Sent : answer.raw = Message(q) => ~IsForm(q)
  <2>1. answer # NoAnswer /\ answer.code = 0
    BY <1>2 DEF DispatchInv, StopsWith
  <2>2. \/ name = "proxy"
        \/ name \in {"static", "meme"} /\ Path(answer.raw).rest = NoRest
        \/ name = "meme" /\ ReadsPastEnd(answer.request.body)
    BY <2>1, AnswerFacts, CodesFacts
  <2>3. ASSUME ReadsPastEnd(answer.request.body), NEW q \in Sent, answer.raw = Message(q)
        PROVE  ~IsForm(q)
    <3>. SUFFICES ASSUME IsForm(q) PROVE FALSE
      OBVIOUS
    <3>. DEFINE text == FlattenSeq(q.body)
    <3>1. Len(q.body) <= 1 /\ ~ReadsPastEnd(text)
      BY FormsAreRead DEF IsForm
    <3>. HIDE DEF text
    <3>2. answer.request =
            [method |-> <<q.method>>, uri_path |-> <<q.uri>>, http_version |-> <<"HTTP/1.1">>,
             header_fields |-> q.headers, body |-> text]
      BY <2>3, <3>1, InvAsSent DEF RequestAsSent, text
    <3>3. answer.request.body = text
      BY <3>2
    <3>. QED BY <2>3, <3>1, <3>3
  <2>. HIDE DEF name
  <2>. QED BY <2>2, <2>3
<1>. QED BY <1>1, <1>2 DEF EndsOnlyWhere

\* But for failing database calls, the process crashes only over a configuration
\* that is not well formed, and no form that was read whole ends it.
THEOREM EndsOnlyThere == Spec => []EndsOnlyWhere
BY DispatchInvHolds, InvEnds, PTL

-----------------------------------------------------------------------------
(* The first handler of a url.                                             *)

\* Block c has statement e in it, or in a block that is in it.
Inside(ss, c, e) == c < e /\ \A j \in c + 1 .. e : ss[j].block >= c

\* What InnerFirst finds for block c, under the names used below.
Pieces(c, b) == FoundIn(c, Handlers(c), Found(c, Handlers(c)), b)
FoundHandlers(c, b) == Found(c, Handlers(c))[b]

LEMMA PiecesFacts ==
    ASSUME NEW c \in Configs, NEW b \in 0 .. Len(c)
    PROVE  /\ FoundHandlers(c, b) = FlattenSeq(Pieces(c, b)) /\ FoundHandlers(c, b) \in Seq(Handlers(c))
           /\ Pieces(c, b) \in Seq(Seq(Handlers(c))) /\ Len(Pieces(c, b)) = Len(c)
           /\ \A i \in 1 .. Len(c) :
                Pieces(c, b)[i] =
                  IF c[i].block # b THEN <<>>
                  ELSE (IF c[i].child THEN FoundHandlers(c, i) ELSE <<>>)
                         \o IF i \in Handlers(c) THEN <<i>> ELSE <<>>
<1>. DEFINE n == Len(c)
            W == Handlers(c)
            F == Found(c, W)
            P == FoundIn(c, W, F, b)
<1>1. Nested(c) /\ n \in Nat /\ DOMAIN c = 1 .. n /\ W \in SUBSET (1 .. Len(c)) /\ n = Len(c) /\ b \in 0 .. n
  BY ConfigFacts
<1>. HIDE DEF W, n
<1>2. F = FoundStep(c, W, F) /\ \A i \in 0 .. n : F[i] \in Seq(W)
  BY <1>1, FoundType
<1>. HIDE DEF F
<1>3. P \in Seq(Seq(W))
  BY <1>1, <1>2, FoundInType
<1>4. F[b] = FlattenSeq(P)
  BY <1>1, <1>2 DEF FoundStep
<1>5. DOMAIN P = 1 .. n
  BY <1>1 DEF FoundIn
<1>6. \A i \in 1 .. n :
        P[i] = IF c[i].block # b THEN <<>>
               ELSE (IF c[i].child THEN F[i] ELSE <<>>) \o IF i \in W THEN <<i>> ELSE <<>>
  BY <1>1 DEF FoundIn
<1>. HIDE DEF P
<1>7. Len(P) = n
  BY <1>1, <1>3, <1>5, LenProperties
<1>. QED BY <1>1, <1>2, <1>3, <1>4, <1>6, <1>7 DEF Pieces, FoundHandlers, P, F, W, n

\* A piece has what its child block has, and the statement itself.
LEMMA PieceElements ==
    ASSUME NEW c \in Configs, NEW b \in 0 .. Len(c), NEW i \in 1 .. Len(c)
    PROVE  \A e : e \in Range(Pieces(c, b)[i]) <=>
             c[i].block = b /\ \/ c[i].child /\ e \in Range(FoundHandlers(c, i))
                               \/ e = i /\ i \in Handlers(c)
<1>. DEFINE W == Handlers(c)
            P == Pieces(c, b)[i]
            inner == IF c[i].child THEN FoundHandlers(c, i) ELSE <<>>
            own == IF i \in W THEN <<i>> ELSE <<>>
<1>0. Len(c) \in Nat /\ i \in 0 .. Len(c)
  BY ConfigFacts
<1>1. P = IF c[i].block # b THEN <<>> ELSE inner \o own
  BY PiecesFacts
<1>2. FoundHandlers(c, i) \in Seq(W)
  BY <1>0, PiecesFacts
<1>3. \A e : e \notin Range(<<>>)
  BY DEF Range
<1>4. \A e : e \in Range(<<i>>) <=> e = i
  BY DEF Range
<1>5. inner \in Seq(W) /\ own \in Seq(W)
  <2>1. <<>> \in Seq(W) /\ (i \in W => <<i>> \in Seq(W))
    BY EmptySeq, OneType
  <2>. QED BY <1>2, <2>1
<1>6. \A e : e \in Range(inner) <=> c[i].child /\ e \in Range(FoundHandlers(c, i))
  BY <1>3
<1>7. \A e : e \in Range(own) <=> e = i /\ i \in W
  BY <1>3, <1>4
<1>. HIDE DEF inner, own, P, W
<1>8. Range(inner \o own) = Range(inner) \cup Range(own)
  BY <1>5, RangeConcatenation
<1>. QED BY <1>1, <1>3, <1>6, <1>7, <1>8 DEF P, W

\* All that is found for block c is in one of its pieces.
LEMMA FoundElements ==
    ASSUME NEW c \in Configs, NEW b \in 0 .. Len(c)
    PROVE  /\ \A e : e \in Range(FoundHandlers(c, b)) <=> \E i \in 1 .. Len(c) : e \in Range(Pieces(c, b)[i])
           /\ InOrder(Pieces(c, b)) => Ascending(FoundHandlers(c, b))
<1>. DEFINE A == Handlers(c)
            P == Pieces(c, b)
<1>1. A \in SUBSET Int
  BY ConfigFacts
<1>2. P \in Seq(Seq(A)) /\ Len(P) = Len(c) /\ FoundHandlers(c, b) = FlattenSeq(P)
  BY PiecesFacts
<1>. HIDE DEF A, P
<1>3. /\ \A x : x \in Range(FlattenSeq(P)) <=> \E k \in 1 .. Len(P) : x \in Range(P[k])
      /\ InOrder(P) => Ascending(FlattenSeq(P))
  BY <1>1, <1>2, FlattenElements
<1>. QED BY <1>2, <1>3 DEF P

\* Every handler is registered.
LEMMA AllRegistered ==
    ASSUME NEW c \in Configs, NEW e \in Handlers(c)
    PROVE  e \in Range(Registered(c))
<1>. DEFINE n == Len(c)
            X == {b \in 0 .. n : e \in Range(FoundHandlers(c, b)) /\ (b = 0 \/ c[b].child)}
<1>1. /\ n \in Nat /\ e \in 1 .. n /\ n = Len(c) /\ 0 \in 0 .. n
      /\ \A i \in 1 .. n : c[i].block \in 0 .. n /\ c[i].block < i /\ (c[i].block = 0 \/ c[c[i].block].child)
  <2>1. \A i \in 1 .. n : c[i].block \in Nat
    BY ConfigFacts DEF Statement
  <2>. QED BY <2>1, ConfigFacts, ConfigsAssumption DEF FileTree
<1>. HIDE DEF n
<1>2. ASSUME NEW i \in 1 .. n, e \in Range(Pieces(c, c[i].block)[i]) PROVE c[i].block \in X
  <2>1. e \in Range(FoundHandlers(c, c[i].block))
    BY <1>1, <1>2, FoundElements
  <2>. QED BY <1>1, <2>1
<1>3. c[e].block \in X
  <2>1. e \in Range(Pieces(c, c[e].block)[e])
    BY <1>1, PieceElements
  <2>. QED BY <1>1, <1>2, <2>1
<1>4. Min(X) \in X /\ \A y \in X : Min(X) <= y
  <2>1. X \in SUBSET Nat /\ X # {}
    BY <1>1, <1>3
  <2>. HIDE DEF X
  <2>. QED BY <2>1, LowestExists
<1>. DEFINE m == Min(X)
<1>5. m \in X /\ \A y \in X : m <= y
  BY <1>4
<1>. HIDE DEF m
<1>6. m = 0
  <2>1. ASSUME m # 0 PROVE FALSE
    <3>1. m \in 1 .. n /\ c[m].child /\ e \in Range(FoundHandlers(c, m))
      BY <1>1, <1>5, <2>1
    <3>2. e \in Range(Pieces(c, c[m].block)[m])
      BY <1>1, <3>1, PieceElements
    <3>3. c[m].block \in X
      BY <1>2, <3>1, <3>2
    <3>. QED BY <1>1, <1>5, <3>1, <3>3
  <2>. QED BY <2>1
<1>7. e \in Range(FoundHandlers(c, 0))
  BY <1>5, <1>6
<1>. QED BY <1>7, InnerFirstFound DEF Registered, FoundHandlers

\* The blocks of handlers hold no blocks, so that no handler is in one.
Flat(c) == \A h \in Handlers(c) : c[h].child /\ \A i \in 1 .. Len(c) : c[i].block = h => ~c[i].child

LEMMA FlatHandlers ==
    ASSUME NEW c \in Configs, Flat(c), NEW h \in Handlers(c)
    PROVE  FoundHandlers(c, h) = <<>>
<1>1. h \in 0 .. Len(c)
  BY ConfigFacts
<1>2. ASSUME NEW e \in Range(FoundHandlers(c, h)) PROVE FALSE
  <2>1. PICK i \in 1 .. Len(c) : e \in Range(Pieces(c, h)[i])
    <3>1. \A x : x \in Range(FoundHandlers(c, h)) <=> \E i \in 1 .. Len(c) : x \in Range(Pieces(c, h)[i])
      BY ONLY <1>1, c \in Configs, FoundElements
    <3>. QED BY <3>1
  <2>2. c[i].block = h /\ (c[i].child \/ i \in Handlers(c))
    BY <1>1, <2>1, PieceElements
  <2>. QED BY <2>2 DEF Flat
<1>. DEFINE s == FoundHandlers(c, h)
            A == Handlers(c)
<1>3. s \in Seq(A)
  BY <1>1, PiecesFacts
<1>4. Range(s) = {}
  BY <1>2
<1>. HIDE DEF s, A
<1>5. Len(s) = 0
  <2>1. ASSUME Len(s) # 0 PROVE FALSE
    <3>1. 1 \in DOMAIN s
      BY <1>3, <2>1, LenProperties
    <3>2. s[1] \in Range(s)
      BY <3>1 DEF Range
    <3>. QED BY <1>4, <3>2
  <2>. QED BY <2>1
<1>. QED BY <1>3, <1>5, EmptySeq DEF s

\* Where the blocks further on hold ascending handlers of theirs, so does block b.
Settled(c, b) ==
    /\ \A e \in Range(FoundHandlers(c, b)) : Inside(c, b, e)
    /\ Ascending(FoundHandlers(c, b))

LEMMA SettledNext ==
    ASSUME NEW c \in Configs, Flat(c), NEW b \in 0 .. Len(c),
           \A i \in 0 .. Len(c) : i > b => Settled(c, i)
    PROVE  Settled(c, b)
<1>. DEFINE n == Len(c)
            W == Handlers(c)
            P == Pieces(c, b)
<1>1. /\ n \in Nat /\ n = Len(c) /\ W \in SUBSET (1 .. n)
      /\ \A i \in 1 .. n : c[i].block \in Nat /\ c[i].block < i
      /\ \A i \in 1 .. n : \A j \in c[i].block + 1 .. i - 1 : c[j].block >= c[i].block
  <2>1. \A i \in 1 .. n : c[i].block \in Nat
    BY ConfigFacts DEF Statement
  <2>. QED BY <2>1, ConfigFacts, ConfigsAssumption DEF FileTree
<1>2. b \in 0 .. n /\ \A i \in 0 .. n : i > b => Settled(c, i)
  OBVIOUS
<1>3. ASSUME NEW i \in 1 .. n, NEW e \in Range(P[i])
      PROVE  c[i].block = b /\ (e = i \/ Inside(c, i, e)) /\ e \in 1 .. n
  <2>1. c[i].block = b /\ (e \in Range(FoundHandlers(c, i)) \/ e = i)
    BY <1>1, <1>3, PieceElements
  <2>2. i > b /\ i \in 0 .. n
    BY <1>1, <2>1
  <2>3. \A x \in Range(FoundHandlers(c, i)) : Inside(c, i, x)
    BY <1>2, <2>2 DEF Settled
  <2>4. FoundHandlers(c, i) \in Seq(W)
    BY <1>1, <2>2, PiecesFacts
  <2>5. Range(FoundHandlers(c, i)) \in SUBSET W
    <3>. DEFINE s == FoundHandlers(c, i)
    <3>. HIDE DEF s, W
    <3>1. s \in Seq(W)
      BY <2>4 DEF s
    <3>2. Range(s) \in SUBSET W
      BY <3>1, RangeOfSeq
    <3>. QED BY <3>2 DEF s
  <2>. QED BY <1>1, <2>1, <2>3, <2>5
<1>. HIDE DEF n, P, W
<1>4. ASSUME NEW e \in Range(FoundHandlers(c, b)) PROVE Inside(c, b, e)
  <2>1. PICK i \in 1 .. n : e \in Range(P[i])
    BY <1>1, <1>4, FoundElements DEF P, n
  <2>2. c[i].block = b /\ (e = i \/ Inside(c, i, e)) /\ e \in 1 .. n
    BY <1>3, <2>1
  <2>3. b < i /\ \A j \in b + 1 .. i : c[j].block >= b
    <3>1. \A j \in b + 1 .. i : j \in b + 1 .. i - 1 \/ j = i
      BY <1>1, <1>2
    <3>2. \A j \in b + 1 .. i - 1 : c[j].block >= b
      BY <1>1, <2>2
    <3>3. b < i /\ c[i].block >= b
      BY <1>1, <1>2, <2>2
    <3>. QED BY <3>1, <3>2, <3>3
  <2>4. CASE e = i
    BY <2>3, <2>4 DEF Inside
  <2>5. CASE Inside(c, i, e)
    <3>1. i < e /\ \A j \in i + 1 .. e : c[j].block >= i
      BY <2>5 DEF Inside
    <3>2. b < e
      BY <1>2, <2>2, <2>3, <3>1
    <3>3. ASSUME NEW j \in b + 1 .. e PROVE c[j].block >= b
      <4>1. CASE j \in b + 1 .. i
        BY <2>3, <4>1
      <4>2. CASE j \in i + 1 .. e
        <5>1. c[j].block >= i
          BY <3>1, <4>2
        <5>2. c[j].block \in Nat
          <6>1. j \in 1 .. n
            BY <1>1, <2>2, <4>2
          <6>. QED BY <1>1, <6>1
        <5>. QED BY <1>2, <2>3, <5>1, <5>2
      <4>3. j \in b + 1 .. i \/ j \in i + 1 .. e
        BY <1>1, <1>2, <2>2, <3>3
      <4>. QED BY <4>1, <4>2, <4>3
    <3>. QED BY <3>2, <3>3 DEF Inside
  <2>. QED BY <2>2, <2>4, <2>5
<1>5. ASSUME NEW i \in 1 .. n PROVE Ascending(P[i])
  <2>. DEFINE inner == IF c[i].child THEN FoundHandlers(c, i) ELSE <<>>
              own == IF i \in W THEN <<i>> ELSE <<>>
  <2>1. P[i] = IF c[i].block # b THEN <<>> ELSE inner \o own
    BY <1>1, PiecesFacts DEF P, n, W
  <2>2. Ascending(<<>>) /\ Ascending(<<i>>)
    BY DEF Ascending
  <2>3. CASE c[i].block # b
    BY <2>1, <2>2, <2>3
  <2>4. CASE c[i].block = b /\ i \in W
    <3>1. inner = <<>>
      BY <2>4, FlatHandlers DEF W
    <3>2. own = <<i>> /\ <<i>> \in Seq(W)
      BY <2>4, OneType
    <3>. HIDE DEF inner, own
    <3>3. <<>> \o <<i>> = <<i>>
      BY <3>2, ConcatEmptySeq
    <3>. QED BY <2>1, <2>2, <2>4, <3>1, <3>2, <3>3
  <2>5. CASE c[i].block = b /\ i \notin W
    <3>1. i \in 0 .. n /\ i > b
      BY <1>1, <2>5
    <3>2. Ascending(FoundHandlers(c, i)) /\ FoundHandlers(c, i) \in Seq(W)
      BY <1>1, <1>2, <3>1, PiecesFacts DEF Settled, n, W
    <3>3. Ascending(inner) /\ inner \in Seq(W)
      BY <2>2, <3>2, EmptySeq
    <3>4. own = <<>>
      BY <2>5
    <3>. HIDE DEF inner, own
    <3>5. inner \o <<>> = inner
      BY <3>3, ConcatEmptySeq
    <3>. QED BY <2>1, <2>5, <3>3, <3>4, <3>5
  <2>. QED BY <2>3, <2>4, <2>5
<1>6. ASSUME NEW i \in 1 .. n, NEW k \in 1 .. n, i < k PROVE Before(P[i], P[k])
  <2>. SUFFICES ASSUME NEW x \in Range(P[i]), NEW y \in Range(P[k]) PROVE x < y
    BY DEF Before
  <2>1. c[i].block = b /\ (x = i \/ Inside(c, i, x)) /\ x \in 1 .. n
    BY <1>3
  <2>2. c[k].block = b /\ (y = k \/ Inside(c, k, y)) /\ y \in 1 .. n
    BY <1>3
  <2>3. y >= k
    BY <1>1, <2>2 DEF Inside
  <2>4. x < k
    <3>1. ASSUME Inside(c, i, x), ~(x < k) PROVE FALSE
      <4>1. k \in i + 1 .. x
        BY <1>1, <1>6, <2>1, <3>1
      <4>2. c[k].block >= i
        BY <3>1, <4>1 DEF Inside
      <4>. QED BY <1>1, <1>2, <2>1, <2>2, <4>2
    <3>. QED BY <1>6, <2>1, <3>1
  <2>. QED BY <1>1, <2>1, <2>2, <2>3, <2>4
<1>7. InOrder(P)
  <2>1. Len(P) = n
    BY PiecesFacts DEF P, n
  <2>. QED BY <1>5, <1>6, <2>1 DEF InOrder
<1>. QED BY <1>4, <1>7, FoundElements DEF Settled, P

\* Handlers that hold no blocks are registered in the order of the file.
LEMMA RegisteredAscends ==
    ASSUME NEW c \in Configs, Flat(c)
    PROVE  Ascending(Registered(c))
<1>. DEFINE n == Len(c)
            P == {b \in 0 .. n : Settled(c, b)}
<1>1. n \in Nat /\ n = Len(c) /\ 0 \in 0 .. n
  BY ConfigFacts
<1>2. ASSUME NEW b \in 0 .. n, \A i \in 0 .. n : i > b => i \in P PROVE b \in P
  <2>1. \A i \in 0 .. Len(c) : i > b => Settled(c, i)
    BY <1>2
  <2>. QED BY <2>1, SettledNext
<1>3. P = 0 .. n
  <2>1. P \in SUBSET (0 .. n)
    OBVIOUS
  <2>. HIDE DEF P, n
  <2>. QED BY <1>1, <1>2, <2>1, DescentHolds
<1>4. Settled(c, 0)
  BY <1>1, <1>3
<1>. QED BY <1>4, InnerFirstFound DEF Settled, Registered, FoundHandlers

\* A url is dispatched to the first statement that has it.
LEMMA FirstOfUrl ==
    ASSUME NEW c \in Configs, ~Broken(c), Flat(c), NEW u
    PROVE  LET named == {h \in Handlers(c) : PeekURL(c, h) = u}
           IN  /\ u \in DOMAIN BlockTable(c) <=> named # {}
               /\ u \in DOMAIN BlockTable(c) => BlockTable(c)[u] = Min(named)
<1>. DEFINE named == {h \in Handlers(c) : PeekURL(c, h) = u}
            R == Registered(c)
            n == Len(R)
            es == Entries[c]
            blocks == BlockTable(c)
            url(h) == PeekURL(c, h)
<1>1. /\ Len(es) = n /\ n \in Nat /\ n = Len(R)
      /\ \A i \in 1 .. n : R[i] \in Handlers(c) /\ es[i].url = url(R[i]) /\ es[i].block = R[i]
  <2>1. /\ Len(es) = n /\ n \in Nat
        /\ \A i \in 1 .. n : R[i] \in Handlers(c) /\ es[i] = EntryOf(c, R[i])
    BY EntriesType
  <2>2. \A h : EntryOf(c, h).url = url(h) /\ EntryOf(c, h).block = h
    BY DEF EntryOf
  <2>. HIDE DEF es, n, R, url
  <2>3. \A i \in 1 .. n : es[i].url = url(R[i]) /\ es[i].block = R[i]
    BY <2>1, <2>2
  <2>. QED BY <2>1, <2>3 DEF n
<1>2. /\ u \in DOMAIN blocks <=> \E i \in 1 .. n : es[i].url = u
      /\ u \in DOMAIN blocks => \E i \in 1 .. n : FirstOf(es, i, u) /\ blocks[u] = es[i].block
  BY <1>1, TablesHold DEF Hold
<1>3. \A h \in Handlers(c) : \E i \in 1 .. n : h = R[i]
  <2>1. DOMAIN R = 1 .. n
    BY RegisteredType, LenProperties
  <2>. QED BY <2>1, AllRegistered DEF Range
<1>4. \A i, j \in 1 .. n : i < j => R[i] < R[j]
  BY RegisteredAscends DEF Ascending
<1>5. \A h : h \in named <=> h \in Handlers(c) /\ url(h) = u
  OBVIOUS
<1>6. Handlers(c) \in SUBSET Nat
  BY ConfigFacts
<1>. HIDE DEF named, R, n, es, blocks, url
<1>7. u \in DOMAIN blocks <=> named # {}
  BY <1>1, <1>2, <1>3, <1>5
<1>8. ASSUME u \in DOMAIN blocks PROVE blocks[u] = Min(named)
  <2>1. PICK i \in 1 .. n : FirstOf(es, i, u) /\ blocks[u] = es[i].block
    BY <1>2, <1>8
  <2>2. R[i] \in named /\ blocks[u] = R[i]
    BY <1>1, <1>5, <2>1 DEF FirstOf
  <2>3. ASSUME NEW h \in named PROVE R[i] <= h
    <3>1. PICK j \in 1 .. n : h = R[j]
      BY <1>3, <1>5
    <3>2. es[j].url = u
      BY <1>1, <1>5, <3>1
    <3>3. ~(j \in 1 .. i - 1)
      BY <2>1, <3>2 DEF FirstOf
    <3>4. i < j \/ i = j
      BY <1>1, <3>3
    <3>5. R[i] \in Nat /\ R[j] \in Nat
      BY <1>1, <1>6
    <3>. QED BY <1>4, <3>1, <3>4, <3>5
  <2>4. named \in SUBSET Nat /\ named # {}
    BY <1>5, <1>6, <2>2
  <2>5. Min(named) \in named /\ \A y \in named : Min(named) <= y
    BY <2>4, LowestExists
  <2>6. R[i] <= Min(named) /\ Min(named) <= R[i] /\ R[i] \in Nat /\ Min(named) \in Nat
    BY <2>2, <2>3, <2>4, <2>5
  <2>. QED BY <2>2, <2>6
<1>. QED BY <1>7, <1>8 DEF named, blocks, url

\* The url of a well-formed block is what its own statement says, and the block
\* holds no other.
LEMMA WellFormedUrls ==
    ASSUME NEW c \in Configs, WellFormed(c)
    PROVE  Flat(c) /\ \A h \in Handlers(c) : PeekURL(c, h) = Own(c, h, "url")
<1>1. ASSUME NEW h \in Handlers(c)
      PROVE  /\ PeekURL(c, h) = Own(c, h, "url")
             /\ c[h].child /\ \A i \in 1 .. Len(c) : c[i].block = h => ~c[i].child
  <2>1. "url" \in DOMAIN Occurs /\ Plain(c, h, "url") /\ h \in 0 .. Len(c) /\ DOMAIN c = 1 .. Len(c)
    BY WellFormedFacts, ConfigFacts
  <2>2. ~Lost(c, h, "url") /\ ValueAt(Text(c, h), "url") = Own(c, h, "url")
    BY <2>1, PlainValue
  <2>3. PeekURL(c, h) = Own(c, h, "url")
    BY <2>2 DEF PeekURL, Lost
  <2>4. c[h].child
    BY DEF WellFormed
  <2>5. \A i \in 1 .. Len(c) : c[i].block = h => ~c[i].child
    BY <2>1 DEF Plain
  <2>. QED BY <2>3, <2>4, <2>5
<1>. QED BY <1>1 DEF Flat

LEMMA InvRight == DispatchInv => RightHandler
<1>. SUFFICES ASSUME DispatchInv, NEW q \in Sent, answer.raw = Message(q), WellFormed(config)
              PROVE  LET named == {i \in Handlers(config) : Own(config, i, "url") = Paths[<<q.uri>>].uri}
                     IN  answer.block = IF named = {} THEN 0 ELSE Min(named)
  BY DEF RightHandler
<1>. DEFINE u == Paths[<<q.uri>>].uri
            named == {i \in Handlers(config) : Own(config, i, "url") = u}
            peeked == {i \in Handlers(config) : PeekURL(config, i) = u}
            blocks == BlockTable(config)
<1>1. answer # NoAnswer
  <2>1. NoAnswer.raw = <<>>
    BY DEF NoAnswer
  <2>. QED BY <2>1, MessageParses
<1>2. Path(answer.raw).uri = u
  <2>1. answer.raw \in Requests
    BY <1>1, AnswerFacts
  <2>2. Parsed[answer.raw].uri_path = <<q.uri>>
    BY <2>1, ParsedAsSent DEF Parsed
  <2>. QED BY <2>2 DEF Path
<1>3. config \in Configs
  BY DEF DispatchInv
<1>4. Flat(config) /\ ~Broken(config) /\ \A h \in Handlers(config) : PeekURL(config, h) = Own(config, h, "url")
  BY <1>3, WellFormedUrls, WellFormedFacts
<1>5. peeked = named
  BY <1>4
<1>6. (u \in DOMAIN blocks <=> peeked # {}) /\ (u \in DOMAIN blocks => blocks[u] = Min(peeked))
  BY <1>3, <1>4, FirstOfUrl
<1>7. \/ u \in DOMAIN blocks /\ answer.block = blocks[u]
      \/ u \notin DOMAIN blocks /\ answer.block = 0
  BY <1>1, <1>2, AnswerFacts
<1>. HIDE DEF u, named, peeked, blocks
<1>8. answer.block = IF named = {} THEN 0 ELSE Min(named)
  BY <1>5, <1>6, <1>7
<1>. QED BY <1>8 DEF named, u

\* In a well-formed configuration what a client sent is served by the first block
\* whose own url statement names the first part of its path.
THEOREM RightHandlerServes == Spec => []RightHandler
BY DispatchInvHolds, InvRight, PTL
=============================================================================
