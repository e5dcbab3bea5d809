--------------------------- MODULE MemeTextProofs ---------------------------
(***************************************************************************)
(* Proofs about MemeText.  The inductive invariant TextInv says that the   *)
(* row is what the server makes of the form that was sent last and that    *)
(* the pages show that row; what encoding, decoding, filling in and LIKE   *)
(* do to a text of any length is shown by induction over the text.         *)
(***************************************************************************)
EXTENDS MemeText, SequenceLemmas

\* The texts and the characters with an entity.
Text == Seq(Alphabet)
Marks == {"&", "\"", "'", "<", ">", " "}

\* The six characters with an entity, and that the entities' names are no such
\* characters, no placeholders, no plus signs and different from each other.
LEMMA EntityFacts ==
    /\ DOMAIN Entities = Marks /\ Marks \subseteq Alphabet
    /\ \A c \in Marks : /\ Entities[c] \in Alphabet
                        /\ Entities[c] \notin Marks /\ Entities[c] \notin Placeholders
                        /\ Entities[c] # "+"
    /\ \A c, d \in Marks : Entities[c] = Entities[d] => c = d
<1>1. DOMAIN Entities = Marks
  BY DEF Entities, Marks
<1>2. Entities["&"] = "amp;" /\ Entities["\""] = "quot;" /\ Entities["'"] = "apos;"
  BY Zenon DEF Entities
<1>3. Entities["<"] = "lt;" /\ Entities[">"] = "gt;" /\ Entities[" "] = "nbsp;"
  BY Zenon DEF Entities
<1>4. \A c \in Marks : /\ Entities[c] \notin Marks /\ Entities[c] \notin Placeholders
                      /\ Entities[c] # "+"
  BY <1>2, <1>3 DEF Marks, Placeholders
<1>5. \A c, d \in Marks : Entities[c] = Entities[d] => c = d
  BY <1>2, <1>3 DEF Marks
<1>6. Marks \subseteq Alphabet /\ \A c \in Marks : Entities[c] \in Alphabet
  <2>1. DOMAIN Entities \subseteq Alphabet /\ Range(Entities) \subseteq Alphabet
    BY DEF Alphabet
  <2>2. \A c \in DOMAIN Entities : Entities[c] \in Range(Entities)
    BY DEF Range
  <2>. QED BY <1>1, <2>1, <2>2
<1>. QED BY <1>1, <1>4, <1>5, <1>6

\* What becomes of an atom when the marks in E are encoded, and of a text.
EncodeMap(E) == [x \in Alphabet |-> IF x \in E THEN <<"&", Entities[x]>> ELSE <<x>>]
Encoded(s, E) == Images(EncodeMap(E), s)

\* What becomes of an atom when a is replaced by t.
ReplaceMap(a, t) == [x \in Alphabet |-> IF x = a THEN t ELSE <<x>>]

\* Every text that can be typed is a text over the alphabet.
LEMMA TypedTexts == Names \union Tops \union Retyped \union Terms \subseteq Text
<1>. SUFFICES ASSUME NEW s \in Names \union Tops \union Retyped \union Terms
              PROVE  s \in Text
  OBVIOUS
<1>1. s \in Seq(Range(s))
  BY TextsAssumption, SeqOfRange
<1>2. Range(s) \subseteq Alphabet
  BY DEF Alphabet, Typed
<1>. QED BY <1>1, <1>2, SeqMonotonic DEF Text

\* Encoding the marks in E gives a text for every atom.
LEMMA EncodeMapType ==
    ASSUME NEW E \in SUBSET Marks
    PROVE  Maps(EncodeMap(E), Alphabet, Alphabet)
<1>1. \A x \in E : <<"&", Entities[x]>> \in Text
  <2>1. "&" \in Alphabet
    BY EntityFacts DEF Marks
  <2>. QED BY <2>1, EntityFacts, TwoType DEF Text
<1>2. \A x \in Alphabet : <<x>> \in Text
  BY OneType DEF Text
<1>. QED BY <1>1, <1>2 DEF EncodeMap, Maps, Text

\* An encoded text is a text.
LEMMA EncodedType ==
    ASSUME NEW E \in SUBSET Marks, NEW s \in Text
    PROVE  Encoded(s, E) \in Text
BY EncodeMapType, ImagesType DEF Encoded, Text

\* htmlEncode encodes all six marks.
LEMMA HtmlEncodes ==
    ASSUME NEW s \in Text
    PROVE  htmlEncode(s) = Encoded(s, Marks)
<1>1. \A k \in DOMAIN s : s[k] \in Alphabet
  BY LenProperties, ElementOfSeq DEF Text
<1>2. [k \in DOMAIN s |-> IF s[k] \in DOMAIN Entities THEN <<"&", Entities[s[k]]>> ELSE <<s[k]>>]
        = [k \in DOMAIN s |-> EncodeMap(Marks)[s[k]]]
  BY <1>1, EntityFacts DEF EncodeMap
<1>. QED BY <1>2 DEF htmlEncode, Substitute, Encoded, Images

\* replace_all puts together what it makes of each atom.
LEMMA Replaces ==
    ASSUME NEW s \in Text, NEW a, NEW t
    PROVE  replace_all(s, a, t) = Images(ReplaceMap(a, t), s)
<1>1. \A k \in DOMAIN s : s[k] \in Alphabet
  BY LenProperties, ElementOfSeq DEF Text
<1>2. [k \in DOMAIN s |-> IF s[k] = a THEN t ELSE <<s[k]>>]
        = [k \in DOMAIN s |-> ReplaceMap(a, t)[s[k]]]
  BY <1>1 DEF ReplaceMap
<1>. QED BY <1>2 DEF replace_all, Substitute, Images

\* Replacing an atom by a text leaves a text.
LEMMA ReplaceType ==
    ASSUME NEW s \in Text, NEW a, NEW t \in Text
    PROVE  replace_all(s, a, t) \in Text
<1>1. Maps(ReplaceMap(a, t), Alphabet, Alphabet)
  <2>1. \A x \in Alphabet : <<x>> \in Text
    BY OneType DEF Text
  <2>. QED BY <2>1 DEF ReplaceMap, Maps, Text
<1>. QED BY <1>1, Replaces, ImagesType DEF Text

\* The parts that Decoded puts together.
Parts(s, cs) ==
    [k \in DOMAIN s |->
        IF SpelledAt(s, k, cs) THEN <<CHOOSE c \in cs : s[k + 1] = Entities[c]>>
        ELSE IF SpelledAt(s, k - 1, cs) THEN <<>>
        ELSE <<s[k]>>]

\* Decoding makes one, possibly empty, text of every atom.
LEMMA PartsType ==
    ASSUME NEW s \in Text, NEW C \in SUBSET Marks
    PROVE  Parts(s, C) \in Seq(Text) /\ Len(Parts(s, C)) = Len(s)
<1>0. Len(s) \in Nat /\ DOMAIN s = 1 .. Len(s) /\ \A k \in 1 .. Len(s) : s[k] \in Alphabet
  BY LenProperties, ElementOfSeq DEF Text
<1>1. ASSUME NEW k \in 1 .. Len(s) PROVE Parts(s, C)[k] \in Text
  <2>1. CASE SpelledAt(s, k, C)
    <3>1. PICK c \in C : s[k + 1] = Entities[c]
      BY <2>1 DEF SpelledAt
    <3>. DEFINE d == CHOOSE e \in C : s[k + 1] = Entities[e]
    <3>2. d \in C
      BY <3>1
    <3>3. d \in Alphabet
      BY <3>2, EntityFacts
    <3>4. Parts(s, C)[k] = <<d>>
      BY <1>0, <2>1 DEF Parts
    <3>. HIDE DEF d
    <3>. QED BY <3>3, <3>4 DEF Text
  <2>2. CASE ~SpelledAt(s, k, C) /\ SpelledAt(s, k - 1, C)
    <3>1. Parts(s, C)[k] = <<>>
      BY <1>0, <2>2 DEF Parts
    <3>. QED BY <3>1, EmptySeq DEF Text
  <2>3. CASE ~SpelledAt(s, k, C) /\ ~SpelledAt(s, k - 1, C)
    <3>1. Parts(s, C)[k] = <<s[k]>>
      BY <1>0, <2>3 DEF Parts
    <3>. QED BY <1>0, <3>1 DEF Text
  <2>. QED BY <2>1, <2>2, <2>3
<1>2. Parts(s, C) \in [1 .. Len(s) -> Text]
  <2>1. DOMAIN Parts(s, C) = 1 .. Len(s) /\ Parts(s, C) = [k \in 1 .. Len(s) |-> Parts(s, C)[k]]
    BY <1>0 DEF Parts
  <2>. QED BY <1>1, <2>1
<1>. QED BY <1>0, <1>2, IsASeq, LenProperties

\* Decoding puts its parts together.
LEMMA DecodedIs ==
    ASSUME NEW s, NEW C
    PROVE  Decoded(s, C) = FlattenSeq(Parts(s, C))
BY DEF Decoded, Parts

\* A decoded text is a text.
LEMMA DecodedType ==
    ASSUME NEW s \in Text, NEW C \in SUBSET Marks
    PROVE  Decoded(s, C) \in Text
BY PartsType, DecodedIs, FlattenType DEF Text

\* Two texts can be decoded one by one unless an entity begins at the end of
\* the first and ends in the second.
LEMMA DecodedConcat ==
    ASSUME NEW s \in Text, NEW t \in Text, NEW C \in SUBSET Marks,
           ~SpelledAt(s \o t, Len(s), C)
    PROVE  Decoded(s \o t, C) = Decoded(s, C) \o Decoded(t, C)
<1>. DEFINE u == s \o t
            m == Len(s)
            n == Len(t)
<1>0. m \in Nat /\ n \in Nat /\ u \in Text /\ Len(u) = m + n /\ Len(s) = m /\ Len(t) = n
  BY ConcatProperties, LenProperties DEF Text
<1>d. DOMAIN s = 1 .. m /\ DOMAIN t = 1 .. n /\ DOMAIN u = 1 .. m + n
  BY ConcatProperties, LenProperties DEF Text
<1>e. \A i \in 1 .. m : u[i] = s[i]
  BY ConcatProperties, LenProperties DEF Text
<1>1. \A i \in 1 .. n : u[m + i] = t[i]
  BY ConcatProperties, LenProperties DEF Text
<1>. HIDE DEF u, m, n
<1>2. ASSUME NEW i \in 0 .. m PROVE SpelledAt(u, i, C) <=> SpelledAt(s, i, C)
  <2>1. CASE i = m
    <3>1. ~SpelledAt(u, m, C)
      BY DEF u, m
    <3>. QED BY <1>0, <2>1, <3>1 DEF SpelledAt
  <2>2. CASE i = 0
    BY <1>0, <2>2 DEF SpelledAt
  <2>3. CASE i \in 1 .. m - 1
    <3>1. i \in 1 .. m /\ i + 1 \in 1 .. m /\ i \in 1 .. Len(u) - 1
      BY <1>0, <2>3
    <3>2. u[i] = s[i] /\ u[i + 1] = s[i + 1]
      BY <1>e, <3>1
    <3>. QED BY <1>0, <2>3, <3>1, <3>2 DEF SpelledAt
  <2>. QED BY <1>0, <2>1, <2>2, <2>3
<1>3. ASSUME NEW i \in 0 .. n PROVE SpelledAt(u, m + i, C) <=> SpelledAt(t, i, C)
  <2>1. CASE i = 0
    <3>1. ~SpelledAt(u, m, C)
      BY DEF u, m
    <3>. QED BY <1>0, <2>1, <3>1 DEF SpelledAt
  <2>2. CASE i = n
    BY <1>0, <2>2 DEF SpelledAt
  <2>3. CASE i \in 1 .. n - 1
    <3>1. i \in 1 .. n /\ i + 1 \in 1 .. n /\ m + i \in 1 .. Len(u) - 1 /\ (m + i) + 1 = m + (i + 1)
      BY <1>0, <2>3
    <3>2. u[m + i] = t[i] /\ u[(m + i) + 1] = t[i + 1]
      BY <1>1, <3>1
    <3>. QED BY <1>0, <2>3, <3>1, <3>2 DEF SpelledAt
  <2>. QED BY <1>0, <2>1, <2>2, <2>3
<1>. DEFINE pu == Parts(u, C)
            ps == Parts(s, C)
            pt == Parts(t, C)
<1>4. pu \in Seq(Text) /\ Len(pu) = m + n /\ ps \in Seq(Text) /\ Len(ps) = m /\ pt \in Seq(Text) /\ Len(pt) = n
  BY <1>0, PartsType
<1>5. ASSUME NEW i \in 1 .. m PROVE pu[i] = ps[i]
  <2>1. (SpelledAt(u, i, C) <=> SpelledAt(s, i, C)) /\ (SpelledAt(u, i - 1, C) <=> SpelledAt(s, i - 1, C))
    BY <1>0, <1>2
  <2>2. u[i] = s[i] /\ i \in 1 .. m + n
    BY <1>0, <1>e
  <2>3. SpelledAt(s, i, C) => i + 1 \in 1 .. m
    BY <1>0 DEF SpelledAt
  <2>4. SpelledAt(s, i, C) => u[i + 1] = s[i + 1]
    BY <1>e, <2>3
  <2>5. CASE SpelledAt(s, i, C)
    <3>1. pu[i] = <<CHOOSE c \in C : u[i + 1] = Entities[c]>>
      BY <1>d, <2>1, <2>2, <2>5 DEF Parts
    <3>2. ps[i] = <<CHOOSE c \in C : s[i + 1] = Entities[c]>>
      BY <1>d, <2>5 DEF Parts
    <3>. HIDE DEF pu, ps
    <3>. QED BY <2>4, <2>5, <3>1, <3>2
  <2>6. CASE ~SpelledAt(s, i, C)
    BY <1>d, <2>1, <2>2, <2>6 DEF Parts
  <2>. QED BY <2>5, <2>6
<1>6. ASSUME NEW i \in 1 .. n PROVE pu[m + i] = pt[i]
  <2>0. (m + i) - 1 = m + (i - 1) /\ (m + i) + 1 = m + (i + 1) /\ i - 1 \in 0 .. n
    BY <1>0
  <2>1. (SpelledAt(u, m + i, C) <=> SpelledAt(t, i, C)) /\ (SpelledAt(u, (m + i) - 1, C) <=> SpelledAt(t, i - 1, C))
    BY <1>0, <1>3, <2>0
  <2>2. u[m + i] = t[i] /\ m + i \in 1 .. m + n
    BY <1>0, <1>1
  <2>3. SpelledAt(t, i, C) => i + 1 \in 1 .. n
    BY <1>0 DEF SpelledAt
  <2>4. SpelledAt(t, i, C) => u[(m + i) + 1] = t[i + 1]
    BY <1>1, <2>0, <2>3
  <2>5. CASE SpelledAt(t, i, C)
    <3>1. pu[m + i] = <<CHOOSE c \in C : u[(m + i) + 1] = Entities[c]>>
      BY <1>d, <2>1, <2>2, <2>5 DEF Parts
    <3>2. pt[i] = <<CHOOSE c \in C : t[i + 1] = Entities[c]>>
      BY <1>d, <2>5 DEF Parts
    <3>. HIDE DEF pu, pt
    <3>. QED BY <2>4, <2>5, <3>1, <3>2
  <2>6. CASE ~SpelledAt(t, i, C)
    BY <1>d, <2>1, <2>2, <2>6 DEF Parts
  <2>. QED BY <2>5, <2>6
<1>. HIDE DEF pu, ps, pt
<1>7. pu = ps \o pt
  <2>1. /\ ps \o pt \in Seq(Text) /\ Len(ps \o pt) = m + n
        /\ \A i \in 1 .. m + n : (ps \o pt)[i] = IF i <= m THEN ps[i] ELSE pt[i - m]
    BY <1>4, ConcatProperties
  <2>2. ASSUME NEW i \in 1 .. m + n PROVE pu[i] = (ps \o pt)[i]
    <3>0. m \in Nat /\ n \in Nat /\ i \in Int
      BY <1>0
    <3>1. CASE i <= m
      <4>1. i \in 1 .. m
        BY <3>0, <3>1
      <4>. QED BY <1>5, <2>1, <3>1, <4>1
    <3>2. CASE i > m
      <4>1. i - m \in 1 .. n /\ m + (i - m) = i /\ ~(i <= m)
        BY <3>0, <3>2
      <4>2. pu[m + (i - m)] = pt[i - m]
        BY <1>6, <4>1
      <4>3. (ps \o pt)[i] = pt[i - m]
        BY <2>1, <4>1
      <4>. QED BY <4>1, <4>2, <4>3
    <3>3. i <= m \/ i > m
      BY <3>0
    <3>. QED BY <3>1, <3>2, <3>3
  <2>. QED BY <1>4, <2>1, <2>2, SeqEqual
<1>8. FlattenSeq(pu) = FlattenSeq(ps) \o FlattenSeq(pt)
  BY <1>4, <1>7, FlattenConcat DEF Text
<1>. QED BY <1>8, DecodedIs DEF u, pu, ps, pt

\* Encoding nothing changes nothing.
LEMMA EncodedNone ==
    ASSUME NEW s \in Text
    PROVE  Encoded(s, {}) = s
<1>1. Maps(EncodeMap({}), Alphabet, Alphabet)
  BY EncodeMapType
<1>2. \A k \in 1 .. Len(s) : EncodeMap({})[s[k]] = <<s[k]>>
  BY ElementOfSeq DEF EncodeMap, Text
<1>. QED BY <1>1, <1>2, ImagesSame DEF Encoded, Text

\* A text that spells none of the entities is not changed.
LEMMA DecodedPlain ==
    ASSUME NEW s \in Text, NEW C \in SUBSET Marks, \A k \in DOMAIN s : ~SpelledAt(s, k, C)
    PROVE  Decoded(s, C) = s
<1>1. \A k \in DOMAIN s : s[k] \in Alphabet /\ ~SpelledAt(s, k - 1, C)
  <2>. TAKE k \in DOMAIN s
  <2>1. k \in 1 .. Len(s) /\ DOMAIN s = 1 .. Len(s) /\ Len(s) \in Nat
    BY LenProperties DEF Text
  <2>2. s[k] \in Alphabet
    BY <2>1, ElementOfSeq DEF Text
  <2>3. k - 1 \in DOMAIN s \/ k - 1 = 0
    BY <2>1
  <2>4. ~SpelledAt(s, 0, C)
    BY DEF SpelledAt
  <2>. QED BY <2>2, <2>3, <2>4
<1>2. Parts(s, C) = [k \in DOMAIN s |-> EncodeMap({})[s[k]]]
  BY <1>1 DEF Parts, EncodeMap
<1>3. FlattenSeq(Parts(s, C)) = Encoded(s, {})
  BY <1>2 DEF Encoded, Images
<1>. QED BY <1>3, DecodedIs, EncodedNone

\* A single atom spells no entity and stays.
LEMMA DecodedOne ==
    ASSUME NEW x \in Alphabet, NEW C \in SUBSET Marks
    PROVE  Decoded(<<x>>, C) = <<x>>
<1>1. <<x>> \in Text
  BY OneType DEF Text
<1>2. \A k \in DOMAIN <<x>> : ~SpelledAt(<<x>>, k, C)
  BY DEF SpelledAt
<1>. QED BY <1>1, <1>2, DecodedPlain

\* One entity is decoded to its character, if the character is among those decoded.
LEMMA DecodedEntity ==
    ASSUME NEW c \in Marks, NEW C \in SUBSET Marks
    PROVE  Decoded(<<"&", Entities[c]>>, C) = IF c \in C THEN <<c>> ELSE <<"&", Entities[c]>>
<1>. DEFINE s == <<"&", Entities[c]>>
<1>0. "&" \in Alphabet /\ Entities[c] \in Alphabet /\ c \in Alphabet /\ Entities[c] # "&"
  BY EntityFacts DEF Marks
<1>1. s \in Text /\ Len(s) = 2 /\ s[1] = "&" /\ s[2] = Entities[c] /\ DOMAIN s = 1 .. 2
  BY <1>0, TwoType DEF Text
<1>. HIDE DEF s
<1>2. SpelledAt(s, 1, C) <=> \E d \in C : Entities[c] = Entities[d]
  BY <1>1 DEF SpelledAt
<1>3. ~SpelledAt(s, 2, C) /\ ~SpelledAt(s, 0, C)
  BY <1>1 DEF SpelledAt
<1>4. CASE c \notin C
  <2>1. \A k \in DOMAIN s : ~SpelledAt(s, k, C)
    BY <1>1, <1>2, <1>3, <1>4, EntityFacts
  <2>. QED BY <1>1, <1>4, <2>1, DecodedPlain DEF s
<1>5. CASE c \in C
  <2>. DEFINE p == Parts(s, C)
              e == <<>>
  <2>1. p \in Seq(Text) /\ Len(p) = 2
    BY <1>1, PartsType
  <2>2. p[1] = <<c>>
    <3>1. SpelledAt(s, 1, C) /\ 1 \in DOMAIN s
      BY <1>1, <1>2, <1>5
    <3>2. p[1] = <<CHOOSE d \in C : s[1 + 1] = Entities[d]>>
      BY <3>1 DEF Parts
    <3>3. \A d \in C : s[1 + 1] = Entities[d] <=> d = c
      BY <1>1, <1>5, EntityFacts
    <3>. DEFINE f == CHOOSE d \in C : s[1 + 1] = Entities[d]
    <3>4. f = c
      BY <1>5, <3>3
    <3>. QED BY <3>2, <3>4
  <2>3. p[2] = <<>>
    <3>1. SpelledAt(s, 2 - 1, C) /\ 2 \in DOMAIN s
      BY <1>1, <1>2, <1>5
    <3>. QED BY <1>3, <3>1 DEF Parts
  <2>. HIDE DEF p
  <2>4. e \in Seq(Text) /\ <<c>> \in Text /\ e \in Text
    BY <1>0, EmptySeq, OneType DEF Text
  <2>5. Append(e, <<c>>) \in Seq(Text) /\ Len(Append(e, <<c>>)) = 1 /\ Append(e, <<c>>)[1] = <<c>>
    BY <2>4, EmptySeq, AppendProperties
  <2>6. p = Append(Append(e, <<c>>), e)
    <3>. DEFINE q == Append(e, <<c>>)
    <3>1. Append(q, e) \in Seq(Text) /\ Len(Append(q, e)) = 2
           /\ Append(q, e)[1] = <<c>> /\ Append(q, e)[2] = <<>>
      BY <2>4, <2>5, AppendProperties
    <3>2. \A i \in 1 .. 2 : i = 1 \/ i = 2
      OBVIOUS
    <3>. HIDE DEF q
    <3>. QED BY <2>1, <2>2, <2>3, <3>1, <3>2, SeqEqual
  <2>7. FlattenSeq(p) = (FlattenSeq(e) \o <<c>>) \o e
    <3>1. FlattenSeq(Append(e, <<c>>)) = FlattenSeq(e) \o <<c>>
      BY <2>4, FlattenAppend DEF Text
    <3>. DEFINE q == Append(e, <<c>>)
    <3>2. q \in Seq(Text)
      BY <2>5
    <3>. HIDE DEF q, e
    <3>3. FlattenSeq(Append(q, e)) = FlattenSeq(q) \o e
      BY <2>4, <3>2, FlattenAppend DEF Text
    <3>. QED BY <2>6, <3>1, <3>3 DEF q
  <2>8. FlattenSeq(p) = <<c>>
    <3>1. <<>> \o <<c>> = <<c>> /\ <<c>> \o <<>> = <<c>>
      BY <2>4, ConcatEmptySeq DEF Text
    <3>. QED BY <2>7, <3>1, FlattenEmpty
  <2>. QED BY <1>5, <2>8, DecodedIs DEF p, s
<1>. QED BY <1>4, <1>5

\* An atom more is encoded at the end.
LEMMA EncodedAppend ==
    ASSUME NEW E \in SUBSET Marks, NEW s \in Text, NEW x \in Alphabet
    PROVE  /\ Encoded(Append(s, x), E) = Encoded(s, E) \o EncodeMap(E)[x]
           /\ EncodeMap(E)[x] \in Text
           /\ EncodeMap(E)[x] = IF x \in E THEN <<"&", Entities[x]>> ELSE <<x>>
<1>1. Maps(EncodeMap(E), Alphabet, Alphabet)
  BY EncodeMapType
<1>2. EncodeMap(E)[x] \in Text
  BY <1>1 DEF Maps, Text
<1>3. Encoded(Append(s, x), E) = Encoded(s, E) \o EncodeMap(E)[x]
  <2>. DEFINE f == EncodeMap(E)
  <2>1. Maps(f, Alphabet, Alphabet)
    BY <1>1
  <2>. HIDE DEF f
  <2>2. Images(f, Append(s, x)) = Images(f, s) \o f[x]
    BY <2>1, ImagesAppend DEF Text
  <2>. QED BY <2>2 DEF Encoded, f
<1>. QED BY <1>2, <1>3 DEF EncodeMap

\* The empty text stays empty.
LEMMA EncodedEmpty == \A E : Encoded(<<>>, E) = <<>>
BY ImagesEmpty DEF Encoded

\* The last atom of an encoded text is that of the text, or its entity's name.
LEMMA EncodedLast ==
    ASSUME NEW E \in SUBSET Marks, NEW s \in Text, s # <<>>
    PROVE  LET y == s[Len(s)]
               t == Encoded(s, E)
           IN  t[Len(t)] = IF y \in E THEN Entities[y] ELSE y
<1>. DEFINE y == s[Len(s)]
            t == Encoded(s, E)
<1>1. PICK r \in Text, x \in Alphabet : s = Append(r, x)
  BY SequenceEmptyOrAppend DEF Text
<1>2. y = x
  BY <1>1, AppendProperties DEF Text
<1>. DEFINE a == Encoded(r, E)
            b == EncodeMap(E)[x]
<1>3. t = a \o b /\ b \in Text /\ b = IF x \in E THEN <<"&", Entities[x]>> ELSE <<x>>
  BY <1>1, EncodedAppend
<1>4. a \in Text
  BY EncodedType
<1>5. Len(b) \in Nat /\ Len(b) >= 1 /\ b[Len(b)] = IF x \in E THEN Entities[x] ELSE x
  BY <1>3
<1>. HIDE DEF a, b
<1>6. Len(t) = Len(a) + Len(b) /\ Len(a) \in Nat /\ t[Len(a) + Len(b)] = b[(Len(a) + Len(b)) - Len(a)]
  BY <1>3, <1>4, <1>5, ConcatProperties, LenProperties DEF Text
<1>7. t[Len(t)] = b[Len(b)]
  BY <1>5, <1>6
<1>. HIDE DEF t, y
<1>8. t[Len(t)] = IF y \in E THEN Entities[y] ELSE y
  BY <1>2, <1>5, <1>7
<1>. QED BY <1>8 DEF t, y

\* An ampersand and an entity's name at the end of a text spell the entity.
LEMMA SpellsAppend ==
    ASSUME NEW s \in Text, NEW x \in Alphabet, ~SpellsEntity(Append(s, x))
    PROVE  /\ ~SpellsEntity(s)
           /\ s # <<>> /\ s[Len(s)] = "&" => \A c \in Marks : x # Entities[c]
<1>. DEFINE u == Append(s, x)
            n == Len(s)
<1>1. /\ n \in Nat /\ DOMAIN s = 1 .. n /\ DOMAIN u = 1 .. n + 1 /\ Len(u) = n + 1 /\ u[n + 1] = x
      /\ Len(s) = n
  BY AppendProperties, LenProperties DEF Text
<1>2. \A i \in 1 .. n : u[i] = s[i]
  BY AppendProperties DEF Text
<1>3. \A k \in 1 .. n + 1 : ~SpelledAt(u, k, Marks)
  BY <1>1, EntityFacts DEF SpellsEntity
<1>. HIDE DEF u, n
<1>4. ASSUME NEW k \in DOMAIN s PROVE ~SpelledAt(s, k, Marks)
  <2>1. SUFFICES ASSUME SpelledAt(s, k, Marks) PROVE FALSE
    OBVIOUS
  <2>2. k \in 1 .. n /\ k + 1 \in 1 .. n /\ k \in 1 .. Len(u) - 1
    BY <1>1, <2>1 DEF SpelledAt
  <2>3. u[k] = s[k] /\ u[k + 1] = s[k + 1]
    BY <1>2, <2>2
  <2>4. SpelledAt(u, k, Marks)
    BY <2>1, <2>2, <2>3 DEF SpelledAt
  <2>. QED BY <1>1, <1>3, <2>2, <2>4
<1>5. ASSUME s # <<>>, s[n] = "&", NEW c \in Marks PROVE x # Entities[c]
  <2>1. SUFFICES ASSUME x = Entities[c] PROVE FALSE
    OBVIOUS
  <2>2. n # 0
    BY <1>1, <1>5, EmptySeq DEF Text
  <2>3. n \in 1 .. n /\ n \in 1 .. n + 1 /\ n \in 1 .. Len(u) - 1
    BY <1>1, <2>2
  <2>4. u[n] = "&" /\ u[n + 1] = Entities[c]
    BY <1>1, <1>2, <1>5, <2>1, <2>3
  <2>5. SpelledAt(u, n, Marks)
    BY <2>3, <2>4 DEF SpelledAt
  <2>. QED BY <1>3, <2>3, <2>5
<1>6. ~SpellsEntity(s)
  BY <1>4, EntityFacts DEF SpellsEntity
<1>. QED BY <1>1, <1>5, <1>6 DEF n

\* Decoding the entities of some of the characters that were encoded gives back
\* those characters and changes nothing else.  Either ampersands were encoded
\* too, or there is nothing in the text that looks like an entity.
LEMMA DecodedEncoded ==
    ASSUME NEW E \in SUBSET Marks, NEW C \in SUBSET E, NEW s \in Text,
           "&" \in E \/ ~SpellsEntity(s)
    PROVE  Decoded(Encoded(s, E), C) = Encoded(s, E \ C)
<1>. DEFINE Apt(t) == "&" \in E \/ ~SpellsEntity(t)
            S == {t \in Text : Apt(t) => Decoded(Encoded(t, E), C) = Encoded(t, E \ C)}
<1>0. C \in SUBSET Marks /\ E \ C \in SUBSET Marks
  OBVIOUS
<1>1. <<>> \in S
  <2>1. <<>> \in Text /\ DOMAIN <<>> = {}
    BY EmptySeq DEF Text
  <2>2. Decoded(<<>>, C) = <<>>
    BY <1>0, <2>1, DecodedPlain
  <2>. QED BY <2>1, <2>2, EncodedEmpty
<1>2. ASSUME NEW t \in S, NEW x \in Alphabet PROVE Append(t, x) \in S
  <2>. DEFINE u == Append(t, x)
              a == Encoded(t, E)
              b == EncodeMap(E)[x]
  <2>0. t \in Text /\ u \in Text
    BY AppendProperties DEF Text
  <2>. SUFFICES ASSUME Apt(u) PROVE Decoded(Encoded(u, E), C) = Encoded(u, E \ C)
    BY <2>0
  <2>1. Apt(t)
    BY <2>0, SpellsAppend
  <2>2. Decoded(a, C) = Encoded(t, E \ C)
    BY <2>1
  <2>3. Encoded(u, E) = a \o b /\ b \in Text /\ b = IF x \in E THEN <<"&", Entities[x]>> ELSE <<x>>
    BY <2>0, EncodedAppend
  <2>4. a \in Text
    BY <2>0, EncodedType
  <2>5. ~SpelledAt(a \o b, Len(a), C)
    <3>1. SUFFICES ASSUME SpelledAt(a \o b, Len(a), C) PROVE FALSE
      OBVIOUS
    <3>. HIDE DEF S
    <3>2. PICK c \in C : Len(a) >= 1 /\ (a \o b)[Len(a)] = "&" /\ (a \o b)[Len(a) + 1] = Entities[c]
      BY <3>1, <2>4, LenProperties DEF SpelledAt, Text
    <3>. HIDE DEF a
    <3>3. Len(b) >= 1 /\ Len(b) \in Nat /\ b[1] = IF x \in E THEN "&" ELSE x
      BY <2>3
    <3>. HIDE DEF b
    <3>4. a[Len(a)] = "&" /\ b[1] = Entities[c]
      <4>1. Len(a) \in Nat
        BY <2>4, LenProperties DEF Text
      <4>2. (a \o b)[Len(a)] = a[Len(a)] /\ (a \o b)[Len(a) + 1] = b[(Len(a) + 1) - Len(a)]
        BY <2>3, <2>4, <3>2, <3>3, <4>1, ConcatProperties DEF Text
      <4>3. (Len(a) + 1) - Len(a) = 1
        BY <4>1
      <4>. QED BY <3>2, <4>2, <4>3
    <3>5. x \notin E /\ x = Entities[c]
      BY <3>3, <3>4, EntityFacts DEF Marks
    <3>6. t # <<>>
      BY <3>2, EncodedEmpty, EmptySeq DEF a
    <3>7. a[Len(a)] = IF t[Len(t)] \in E THEN Entities[t[Len(t)]] ELSE t[Len(t)]
      BY <2>0, <3>6, EncodedLast DEF a
    <3>8. t[Len(t)] = "&" /\ "&" \notin E
      BY <3>4, <3>7, EntityFacts DEF Marks
    <3>. QED BY <2>0, <3>5, <3>6, <3>8, SpellsAppend
  <2>6. Decoded(a \o b, C) = Decoded(a, C) \o Decoded(b, C)
    <3>. HIDE DEF a, b
    <3>. QED BY <1>0, <2>3, <2>4, <2>5, DecodedConcat
  <2>7. Decoded(b, C) = EncodeMap(E \ C)[x]
    <3>1. EncodeMap(E \ C)[x] = IF x \in E \ C THEN <<"&", Entities[x]>> ELSE <<x>>
      BY DEF EncodeMap
    <3>2. CASE x \in E
      <4>1. x \in Marks
        BY <3>2
      <4>2. Decoded(b, C) = IF x \in C THEN <<x>> ELSE <<"&", Entities[x]>>
        <5>. HIDE DEF b
        <5>. QED BY <1>0, <2>3, <3>2, <4>1, DecodedEntity
      <4>. QED BY <3>1, <3>2, <4>2
    <3>3. CASE x \notin E
      <4>1. Decoded(b, C) = <<x>>
        <5>. HIDE DEF b
        <5>. QED BY <1>0, <2>3, <3>3, DecodedOne
      <4>. QED BY <3>1, <3>3, <4>1
    <3>. QED BY <3>2, <3>3
  <2>8. Encoded(u, E \ C) = Encoded(t, E \ C) \o EncodeMap(E \ C)[x]
    BY ZenonT(40), <1>0, <2>0, EncodedAppend
  <2>. HIDE DEF a, b, u
  <2>. QED BY <2>2, <2>3, <2>6, <2>7, <2>8
<1>3. S = Text
  <2>. HIDE DEF S
  <2>1. S \in SUBSET Text
    BY DEF S
  <2>. QED BY <1>1, <1>2, <2>1, SeqSetInduction DEF Text
<1>. QED BY <1>3

\* A page displays what was encoded, whatever it is.
LEMMA DisplayedEncoded ==
    ASSUME NEW s \in Text
    PROVE  Displayed(htmlEncode(s)) = s
<1>1. Decoded(Encoded(s, Marks), Marks) = Encoded(s, Marks \ Marks)
  BY DecodedEncoded DEF Marks
<1>2. Marks \ Marks = {}
  OBVIOUS
<1>. QED BY <1>1, <1>2, EncodedNone, HtmlEncodes, EntityFacts DEF Displayed

-----------------------------------------------------------------------------
(* htmlDecode.                                                             *)

\* One replacement of htmlDecode, and their order.
DecodeStep(t, c) == Decoded(t, {c})
Steps6 == <<"&", "\"", "'", "<", ">", " ">>

Decoding == INSTANCE FoldLemmas WITH Op <- DecodeStep

\* htmlDecode is the fold of its six replacements.
LEMMA HtmlDecodeFolds == \A s : htmlDecode(s) = Decoding!Folded(s, Steps6)
<1>. TAKE s
<1>1. FoldLeft(DecodeStep, s, Steps6) = Decoding!Folded(s, Steps6)
  BY DEF FoldLeft, MapThenFoldSet, Max, Decoding!Folded, Decoding!Onto, Decoding!Top
<1>. QED BY <1>1 DEF htmlDecode, DecodeStep, Steps6

\* The text after k of the six replacements.
After(s, k) ==
    Decoding!Folded(s, [i \in 1 .. k |-> Steps6[i]])

\* The text after the first k + 1 replacements comes from that after k.
LEMMA AfterEach ==
    ASSUME NEW s \in Text
    PROVE  /\ After(s, 0) = s /\ htmlDecode(s) = After(s, 6)
           /\ \A k \in 0 .. 5 : After(s, k + 1) = Decoded(After(s, k), {Steps6[k + 1]})
<1>. DEFINE front(k) == [i \in 1 .. k |-> Steps6[i]]
<1>0. Steps6 \in Seq(Marks) /\ Len(Steps6) = 6 /\ \A i \in 1 .. 6 : Steps6[i] \in Marks
  <2>1. Steps6 \in Seq(Marks)
    BY DEF Steps6, Marks
  <2>2. Len(Steps6) = 6
    BY DEF Steps6
  <2>. QED BY <2>1, <2>2, ElementOfSeq
<1>1. Decoding!Closed(Text, Marks)
  <2>1. \A v \in Text : \A x \in Marks : Decoded(v, {x}) \in Text
    BY DecodedType
  <2>. QED BY <2>1 DEF Decoding!Closed, DecodeStep
<1>2. front(0) = <<>>
  OBVIOUS
<1>3. front(6) = Steps6
  BY <1>0, LenProperties
<1>4. ASSUME NEW k \in 0 .. 5
      PROVE  front(k) \in Seq(Marks) /\ front(k + 1) = Append(front(k), Steps6[k + 1])
  <2>1. front(k) \in [1 .. k -> Marks] /\ front(k + 1) \in [1 .. k + 1 -> Marks] /\ k \in Nat /\ k + 1 \in Nat
    BY <1>0
  <2>2. front(k) \in Seq(Marks) /\ Len(front(k)) = k /\ front(k + 1) \in Seq(Marks) /\ Len(front(k + 1)) = k + 1
    <3>. HIDE DEF front
    <3>. QED BY <2>1, IsASeq, LenProperties
  <2>3. Steps6[k + 1] \in Marks /\ \A i \in 1 .. k : front(k + 1)[i] = front(k)[i]
    BY <1>0
  <2>4. front(k + 1)[k + 1] = Steps6[k + 1]
    OBVIOUS
  <2>. HIDE DEF front
  <2>. DEFINE r == Append(front(k), Steps6[k + 1])
  <2>5. r \in Seq(Marks) /\ Len(r) = k + 1 /\ r[k + 1] = Steps6[k + 1] /\ \A i \in 1 .. k : r[i] = front(k)[i]
    BY <2>2, <2>3, AppendProperties
  <2>. HIDE DEF r
  <2>6. \A i \in 1 .. k + 1 : front(k + 1)[i] = r[i]
    BY <2>1, <2>3, <2>4, <2>5
  <2>7. front(k + 1) = r
    BY <2>2, <2>5, <2>6, SeqEqual
  <2>. QED BY <2>2, <2>7 DEF r
<1>. HIDE DEF front
<1>5. After(s, 0) = s
  BY <1>2, Decoding!FoldedEmpty DEF After, front
<1>6. htmlDecode(s) = After(s, 6)
  BY <1>3, HtmlDecodeFolds DEF After, front
<1>7. ASSUME NEW k \in 0 .. 5 PROVE After(s, k + 1) = Decoded(After(s, k), {Steps6[k + 1]})
  <2>1. Steps6[k + 1] \in Marks
    BY <1>0
  <2>2. Decoding!Folded(s, Append(front(k), Steps6[k + 1])) = DecodeStep(Decoding!Folded(s, front(k)), Steps6[k + 1])
    BY <1>1, <1>4, <2>1, Decoding!FoldedAppend
  <2>. QED BY <1>4, <2>2 DEF After, DecodeStep, front
<1>. QED BY <1>5, <1>6, <1>7

\* The six characters, in the order of the replacements in htmlDecode.
LEMMA StepValues ==
    /\ Steps6[1] = "&" /\ Steps6[2] = "\"" /\ Steps6[3] = "'"
    /\ Steps6[4] = "<" /\ Steps6[5] = ">" /\ Steps6[6] = " "
BY DEF Steps6

\* The six replacements of htmlDecode, one after the other.
LEMMA AfterAll ==
    ASSUME NEW s \in Text
    PROVE  /\ After(s, 1) = Decoded(s, {"&"})
           /\ After(s, 2) = Decoded(After(s, 1), {"\""})
           /\ After(s, 3) = Decoded(After(s, 2), {"'"})
           /\ After(s, 4) = Decoded(After(s, 3), {"<"})
           /\ After(s, 5) = Decoded(After(s, 4), {">"})
           /\ htmlDecode(s) = Decoded(After(s, 5), {" "})
<1>1. \A k \in 0 .. 5 : After(s, k + 1) = Decoded(After(s, k), {Steps6[k + 1]})
  BY AfterEach
<1>2. After(s, 0) = s /\ htmlDecode(s) = After(s, 6)
  BY AfterEach
<1>3. /\ After(s, 0 + 1) = Decoded(After(s, 0), {Steps6[0 + 1]})
      /\ After(s, 1 + 1) = Decoded(After(s, 1), {Steps6[1 + 1]})
      /\ After(s, 2 + 1) = Decoded(After(s, 2), {Steps6[2 + 1]})
      /\ After(s, 3 + 1) = Decoded(After(s, 3), {Steps6[3 + 1]})
      /\ After(s, 4 + 1) = Decoded(After(s, 4), {Steps6[4 + 1]})
      /\ After(s, 5 + 1) = Decoded(After(s, 5), {Steps6[5 + 1]})
  BY <1>1
<1>4. 0 + 1 = 1 /\ 1 + 1 = 2 /\ 2 + 1 = 3 /\ 3 + 1 = 4 /\ 4 + 1 = 5 /\ 5 + 1 = 6
  OBVIOUS
<1>. QED BY <1>2, <1>3, <1>4, StepValues

\* htmlDecode makes a text of a text.
LEMMA HtmlDecodeType ==
    ASSUME NEW s \in Text
    PROVE  htmlDecode(s) \in Text
<1>1. \A c \in Marks : {c} \in SUBSET Marks
  OBVIOUS
<1>2. "&" \in Marks /\ "\"" \in Marks /\ "'" \in Marks /\ "<" \in Marks /\ ">" \in Marks /\ " " \in Marks
  BY DEF Marks
<1>3. \A t \in Text : \A c \in Marks : Decoded(t, {c}) \in Text
  BY <1>1, DecodedType
<1>4. After(s, 1) \in Text
  BY <1>2, <1>3, AfterAll
<1>5. After(s, 2) \in Text
  BY <1>2, <1>3, <1>4, AfterAll
<1>6. After(s, 3) \in Text
  BY <1>2, <1>3, <1>5, AfterAll
<1>7. After(s, 4) \in Text
  BY <1>2, <1>3, <1>6, AfterAll
<1>8. After(s, 5) \in Text
  BY <1>2, <1>3, <1>7, AfterAll
<1>. QED BY <1>2, <1>3, <1>8, AfterAll

\* Nothing is decoded in a text that spells no entity.
LEMMA PlainStays ==
    ASSUME NEW s \in Text, ~SpellsEntity(s), NEW C \in SUBSET Marks
    PROVE  Decoded(s, C) = s
<1>1. \A k \in DOMAIN s : ~SpelledAt(s, k, Marks)
  BY EntityFacts DEF SpellsEntity
<1>2. \A k \in DOMAIN s : ~SpelledAt(s, k, C)
  BY <1>1 DEF SpelledAt
<1>. QED BY <1>2, DecodedPlain

\* Neither htmlDecode nor the browser changes a text that spells no entity.
LEMMA HtmlDecodePlain ==
    ASSUME NEW s \in Text, ~SpellsEntity(s)
    PROVE  htmlDecode(s) = s /\ Displayed(s) = s
<1>1. \A c \in Marks : Decoded(s, {c}) = s
  BY PlainStays
<1>2. "&" \in Marks /\ "\"" \in Marks /\ "'" \in Marks /\ "<" \in Marks /\ ">" \in Marks /\ " " \in Marks
  BY DEF Marks
<1>3. Displayed(s) = s
  BY PlainStays, EntityFacts DEF Displayed
<1>. DEFINE D(t, c) == Decoded(t, {c})
<1>4. /\ After(s, 1) = D(s, "&") /\ After(s, 2) = D(After(s, 1), "\"")
      /\ After(s, 3) = D(After(s, 2), "'") /\ After(s, 4) = D(After(s, 3), "<")
      /\ After(s, 5) = D(After(s, 4), ">") /\ htmlDecode(s) = D(After(s, 5), " ")
  BY AfterAll
<1>5. D(s, "&") = s /\ D(s, "\"") = s /\ D(s, "'") = s /\ D(s, "<") = s /\ D(s, ">") = s /\ D(s, " ") = s
  BY <1>1, <1>2
<1>. HIDE DEF D
<1>6. htmlDecode(s) = s
  BY ONLY <1>4, <1>5
<1>. QED BY <1>3, <1>6

\* htmlDecode undoes htmlEncode on a text that spells no entity: the first
\* replacement gives back the ampersands, which start no entity then.
LEMMA HtmlDecodeEncoded ==
    ASSUME NEW s \in Text, ~SpellsEntity(s)
    PROVE  htmlDecode(htmlEncode(s)) = s
<1>. DEFINE E1 == Marks \ {"&"}
            E2 == E1 \ {"\""}
            E3 == E2 \ {"'"}
            E4 == E3 \ {"<"}
            E5 == E4 \ {">"}
            e == Encoded(s, Marks)
<1>1. "&" \in Marks /\ "\"" \in E1 /\ "'" \in E2 /\ "<" \in E3 /\ ">" \in E4 /\ " " \in E5 /\ E5 \ {" "} = {}
  BY DEF Marks
<1>2. E1 \in SUBSET Marks /\ E2 \in SUBSET Marks /\ E3 \in SUBSET Marks /\ E4 \in SUBSET Marks /\ E5 \in SUBSET Marks
  OBVIOUS
<1>3. e \in Text /\ e = htmlEncode(s)
  BY EncodedType, HtmlEncodes
<1>4. \A E \in SUBSET Marks : \A c \in E : Decoded(Encoded(s, E), {c}) = Encoded(s, E \ {c})
  <2>. TAKE E \in SUBSET Marks
  <2>. TAKE c \in E
  <2>1. {c} \in SUBSET E
    OBVIOUS
  <2>. QED BY <2>1, DecodedEncoded
<1>5. After(e, 1) = Encoded(s, E1)
  BY <1>1, <1>3, <1>4, AfterAll
<1>. HIDE DEF e
<1>6. After(e, 2) = Encoded(s, E2)
  BY ZenonT(40), <1>1, <1>2, <1>3, <1>4, <1>5, AfterAll
<1>7. After(e, 3) = Encoded(s, E3)
  BY ZenonT(40), <1>1, <1>2, <1>3, <1>4, <1>6, AfterAll
<1>8. After(e, 4) = Encoded(s, E4)
  BY ZenonT(40), <1>1, <1>2, <1>3, <1>4, <1>7, AfterAll
<1>9. After(e, 5) = Encoded(s, E5)
  BY ZenonT(40), <1>1, <1>2, <1>3, <1>4, <1>8, AfterAll
<1>10. htmlDecode(e) = Encoded(s, {})
  <2>. HIDE DEF E5
  <2>1. htmlDecode(e) = Decoded(Encoded(s, E5), {" "})
    BY <1>3, <1>9, AfterAll
  <2>2. Decoded(Encoded(s, E5), {" "}) = Encoded(s, E5 \ {" "})
    BY <1>1, <1>2, <1>4
  <2>. QED BY <1>1, <2>1, <2>2
<1>. QED BY <1>3, <1>10, EncodedNone

-----------------------------------------------------------------------------
(* A field of a form, on its way to the row.                               *)

\* What urlDecode makes of an encoded form.
Plussed(s) == [k \in DOMAIN s |-> IF s[k] = " " THEN "+" ELSE s[k]]

\* urlDecode undoes the form's encoding, but for the spaces, which stay pluses.
LEMMA FormDecoded ==
    ASSUME NEW s \in Text
    PROVE  urlDecode(FormEncoded(s)) = Plussed(s) /\ Plussed(s) \in Text /\ Len(Plussed(s)) = Len(s)
<1>0. Len(s) \in Nat /\ DOMAIN s = 1 .. Len(s) /\ \A k \in 1 .. Len(s) : s[k] \in Alphabet
  BY LenProperties, ElementOfSeq DEF Text
<1>1. ASSUME NEW k \in DOMAIN s
      PROVE  urlDecode(FormEncoded(s))[k] = Plussed(s)[k]
  <2>1. FormEncoded(s)[k] = IF s[k] = " " THEN <<"+">> ELSE IF s[k] \in Literal THEN <<s[k]>> ELSE <<"%", s[k]>>
    BY DEF FormEncoded
  <2>2. urlDecode(FormEncoded(s))[k] = IF Len(FormEncoded(s)[k]) = 2 THEN FormEncoded(s)[k][2] ELSE FormEncoded(s)[k][1]
    BY DEF urlDecode, FormEncoded
  <2>3. Plussed(s)[k] = IF s[k] = " " THEN "+" ELSE s[k]
    BY DEF Plussed
  <2>. DEFINE e == FormEncoded(s)[k]
  <2>4. CASE s[k] = " "
    <3>1. e = <<"+">>
      BY <2>1, <2>4
    <3>2. Len(e) = 1 /\ e[1] = "+"
      BY <3>1
    <3>. QED BY <2>2, <2>3, <2>4, <3>2
  <2>5. CASE s[k] # " " /\ s[k] \in Literal
    <3>1. e = <<s[k]>>
      BY <2>1, <2>5
    <3>2. Len(e) = 1 /\ e[1] = s[k]
      BY <3>1
    <3>. QED BY <2>2, <2>3, <2>5, <3>2
  <2>6. CASE s[k] # " " /\ s[k] \notin Literal
    <3>1. e = <<"%", s[k]>>
      BY <2>1, <2>6
    <3>2. Len(e) = 2 /\ e[2] = s[k]
      BY <3>1
    <3>. QED BY <2>2, <2>3, <2>6, <3>2
  <2>. QED BY <2>4, <2>5, <2>6
<1>2. DOMAIN urlDecode(FormEncoded(s)) = DOMAIN s
  BY DEF urlDecode, FormEncoded
<1>3. urlDecode(FormEncoded(s)) = [k \in DOMAIN s |-> urlDecode(FormEncoded(s))[k]]
  BY DEF urlDecode, FormEncoded
<1>4. urlDecode(FormEncoded(s)) = Plussed(s)
  <2>1. Plussed(s) = [k \in DOMAIN s |-> Plussed(s)[k]]
    BY DEF Plussed
  <2>. QED BY <1>1, <1>3, <2>1
<1>5. "+" \in Alphabet
  BY DEF Alphabet
<1>6. Plussed(s) \in [1 .. Len(s) -> Alphabet]
  BY <1>0, <1>5 DEF Plussed
<1>. QED BY <1>0, <1>4, <1>6, IsASeq, LenProperties DEF Text

\* Replacing the first "%2F" leaves a text.
LEMMA FirstSlashType ==
    ASSUME NEW s \in Text
    PROVE  FirstSlash(s) \in Text
<1>. DEFINE at == {k \in 1 .. Len(s) - 1 : s[k] = "%" /\ s[k + 1] = "2F"}
            k == CHOOSE i \in at : \A j \in at : i <= j
<1>0. Len(s) \in Nat
  BY LenProperties DEF Text
<1>1. CASE at = {}
  BY <1>1 DEF FirstSlash
<1>2. CASE at # {}
  <2>1. k \in at
    <3>1. at \in SUBSET Nat
      BY <1>0
    <3>. HIDE DEF at
    <3>2. \E i \in at : \A j \in at : i <= j
      BY <1>2, <3>1, LowestExists
    <3>. QED BY <3>2
  <2>2. FirstSlash(s) = SubSeq(s, 1, k - 1) \o <<"/">> \o SubSeq(s, k + 2, Len(s))
    BY <1>2 DEF FirstSlash
  <2>3. k \in 1 .. Len(s) - 1
    BY <2>1
  <2>. HIDE DEF k
  <2>4. SubSeq(s, 1, k - 1) \in Text
    BY <1>0, <2>3, SubSeqProperties DEF Text
  <2>5. SubSeq(s, k + 2, Len(s)) \in Text
    BY <1>0, <2>3, SubSeqProperties DEF Text
  <2>6. <<"/">> \in Text
    <3>1. "/" \in Alphabet
      BY DEF Alphabet
    <3>. QED BY <3>1, OneType DEF Text
  <2>. QED BY <2>2, <2>4, <2>5, <2>6, ConcatProperties DEF Text
<1>. QED BY <1>1, <1>2

\* A space is a text.
LEMMA SpaceType == <<" ">> \in Text
<1>1. " " \in Alphabet
  BY EntityFacts DEF Marks
<1>. QED BY <1>1, OneType DEF Text

\* Whatever is sent, a field is something encoded.
LEMMA FieldType ==
    ASSUME NEW s \in Text
    PROVE  \E t \in Text : Field(FormEncoded(s)) = htmlEncode(t)
<1>. DEFINE t == replace_all(FirstSlash(Plussed(s)), "+", <<" ">>)
<1>1. t \in Text
  BY FormDecoded, FirstSlashType, SpaceType, ReplaceType
<1>. QED BY <1>1, FormDecoded DEF Field

\* parseRequestBody stores a text that can be carried as it was typed, encoded.
LEMMA FieldCarried ==
    ASSUME NEW s \in Text, Carried(s)
    PROVE  Field(FormEncoded(s)) = htmlEncode(s)
<1>. DEFINE p == Plussed(s)
<1>0. /\ Len(s) \in Nat /\ DOMAIN s = 1 .. Len(s) /\ p \in Text /\ Len(p) = Len(s) /\ DOMAIN p = 1 .. Len(s)
      /\ p = [k \in DOMAIN s |-> IF s[k] = " " THEN "+" ELSE s[k]]
  BY FormDecoded, LenProperties DEF Text, Plussed
<1>. HIDE DEF p
<1>1. \A k \in DOMAIN s : s[k] # "+"
  BY DEF Carried, Range
<1>2. FirstSlash(p) = p
  <2>1. \A k \in 1 .. Len(p) - 1 : ~(p[k] = "%" /\ p[k + 1] = "2F")
    <3>. SUFFICES ASSUME NEW k \in 1 .. Len(p) - 1, p[k] = "%", p[k + 1] = "2F" PROVE FALSE
      OBVIOUS
    <3>0. Len(p) = Len(s) /\ Len(s) \in Nat
      BY <1>0
    <3>1. k \in DOMAIN s /\ k + 1 \in DOMAIN s /\ k \in 1 .. Len(s) - 1
      <4>1. k \in 1 .. Len(s) /\ k + 1 \in 1 .. Len(s) /\ k \in 1 .. Len(s) - 1
        BY <3>0
      <4>. QED BY <1>0, <4>1
    <3>2. s[k] = "%" /\ s[k + 1] = "2F"
      BY <1>0, <3>1
    <3>. QED BY <3>1, <3>2 DEF Carried, SpellsSlash
  <2>. QED BY <2>1 DEF FirstSlash
<1>3. replace_all(p, "+", <<" ">>) = s
  <2>1. \A k \in DOMAIN s : s[k] \in Alphabet
    BY <1>0, ElementOfSeq DEF Text
  <2>2. [k \in DOMAIN p |-> IF p[k] = "+" THEN <<" ">> ELSE <<p[k]>>] = [k \in DOMAIN s |-> EncodeMap({})[s[k]]]
    <3>1. \A k \in DOMAIN s : EncodeMap({})[s[k]] = <<s[k]>>
      BY <2>1 DEF EncodeMap
    <3>2. \A k \in DOMAIN s : p[k] = IF s[k] = " " THEN "+" ELSE s[k]
      BY <1>0
    <3>3. \A k \in DOMAIN s : (IF p[k] = "+" THEN <<" ">> ELSE <<p[k]>>) = <<s[k]>>
      BY <1>1, <3>2
    <3>. QED BY <1>0, <3>1, <3>3
  <2>3. replace_all(p, "+", <<" ">>) = Encoded(s, {})
    BY <2>2 DEF replace_all, Substitute, Encoded, Images
  <2>. QED BY <2>3, EncodedNone
<1>. QED BY <1>2, <1>3, FormDecoded DEF Field, p

-----------------------------------------------------------------------------
(* The pages' slots.                                                       *)

\* A lone placeholder is replaced by its text, and stays when another is replaced.
LEMMA ReplaceOne ==
    ASSUME NEW a, NEW b, NEW t \in Text
    PROVE  /\ replace_all(<<a>>, a, t) = t
           /\ a # b => replace_all(<<a>>, b, t) = <<a>>
<1>1. replace_all(<<a>>, a, t) = FlattenSeq(<<t>>)
  <2>1. [k \in DOMAIN <<a>> |-> IF <<a>>[k] = a THEN t ELSE <<<<a>>[k]>>] = <<t>>
    OBVIOUS
  <2>. QED BY <2>1 DEF replace_all, Substitute
<1>2. ASSUME a # b PROVE replace_all(<<a>>, b, t) = FlattenSeq(<< <<a>> >>)
  <2>1. [k \in DOMAIN <<a>> |-> IF <<a>>[k] = b THEN t ELSE <<<<a>>[k]>>] = << <<a>> >>
    BY <1>2
  <2>. QED BY <2>1 DEF replace_all, Substitute
<1>3. <<a>> \in Seq({a})
  OBVIOUS
<1>4. FlattenSeq(<< <<a>> >>) = <<a>>
  BY <1>3, FlattenOne
<1>. QED BY <1>1, <1>2, <1>4, FlattenOne DEF Text

\* A text without the atom stays as it is.
LEMMA ReplaceNone ==
    ASSUME NEW s \in Text, NEW a, a \notin Range(s), NEW t \in Text
    PROVE  replace_all(s, a, t) = s
<1>1. \A k \in DOMAIN s : s[k] \in Alphabet /\ s[k] # a
  BY LenProperties, ElementOfSeq DEF Text, Range
<1>2. \A k \in DOMAIN s : EncodeMap({})[s[k]] = <<s[k]>>
  BY <1>1 DEF EncodeMap
<1>3. [k \in DOMAIN s |-> IF s[k] = a THEN t ELSE <<s[k]>>] = [k \in DOMAIN s |-> EncodeMap({})[s[k]]]
  BY <1>1, <1>2
<1>4. replace_all(s, a, t) = Encoded(s, {})
  BY <1>3 DEF replace_all, Substitute, Encoded, Images
<1>. QED BY <1>4, EncodedNone

\* What is still done to a text when the top text, or the name, has been put in.
AfterTop(s) == replace_all(replace_all(s, "meme_object_bot", <<"bottom">>), "meme_object_atoken", <<"token">>)
AfterName(s, t) == AfterTop(replace_all(replace_all(s, "meme_object_img", <<"image">>), "meme_object_top", t))

\* The texts of the other fields.
LEMMA OtherTexts == <<"image">> \in Text /\ <<"bottom">> \in Text /\ <<"token">> \in Text
<1>1. "image" \in Alphabet /\ "bottom" \in Alphabet /\ "token" \in Alphabet
  BY DEF Alphabet
<1>. QED BY <1>1, OneType DEF Text

\* What the pages put in their slots: the two texts, each searched for the
\* placeholders that come after its own.
LEMMA SlotsAre ==
    ASSUME NEW n \in Text, NEW t \in Text
    PROVE  Slots(n, t) = [name |-> AfterName(n, t), top |-> AfterTop(t)]
<1>1. Filled(<<"meme_object_name">>, n, t) = AfterName(n, t)
  BY ReplaceOne DEF Filled, AfterName, AfterTop
<1>2. Filled(<<"meme_object_top">>, n, t) = AfterTop(t)
  <2>1. "meme_object_top" # "meme_object_name" /\ "meme_object_top" # "meme_object_img"
    OBVIOUS
  <2>2. /\ replace_all(<<"meme_object_top">>, "meme_object_name", n) = <<"meme_object_top">>
        /\ replace_all(<<"meme_object_top">>, "meme_object_img", <<"image">>) = <<"meme_object_top">>
        /\ replace_all(<<"meme_object_top">>, "meme_object_top", t) = t
    BY <2>1, OtherTexts, ReplaceOne
  <2>. QED BY <2>2 DEF Filled, AfterTop
<1>. QED BY <1>1, <1>2 DEF Slots

\* Texts without the later placeholders are put in as they are.
LEMMA NothingToFill ==
    ASSUME NEW n \in Text, NEW t \in Text,
           Range(n) \intersect Placeholders = {}, Range(t) \intersect Placeholders = {}
    PROVE  Slots(n, t) = [name |-> n, top |-> t]
<1>1. \A a \in Placeholders : \A v \in Text : replace_all(n, a, v) = n /\ replace_all(t, a, v) = t
  BY ReplaceNone
<1>2. AfterTop(n) = n /\ AfterTop(t) = t
  BY <1>1, OtherTexts DEF AfterTop, Placeholders
<1>3. AfterName(n, t) = n
  BY <1>1, <1>2, OtherTexts DEF AfterName, Placeholders
<1>. QED BY <1>2, <1>3, SlotsAre

\* The elements of an encoded text: those of the text that are no marks, the
\* ampersand and the names of the entities.
LEMMA EncodedRange ==
    ASSUME NEW s \in Text
    PROVE  Range(htmlEncode(s)) \subseteq (Range(s) \ Marks) \union {"&"} \union Range(Entities)
<1>. DEFINE Ok(u) == (Range(u) \ Marks) \union {"&"} \union Range(Entities)
            S == {u \in Text : Range(Encoded(u, Marks)) \subseteq Ok(u)}
<1>1. <<>> \in S
  <2>1. Range(<<>>) = {}
    BY DEF Range
  <2>. QED BY <2>1, EncodedEmpty, EmptySeq DEF Text
<1>2. ASSUME NEW u \in S, NEW x \in Alphabet PROVE Append(u, x) \in S
  <2>0. u \in Text /\ Append(u, x) \in Text /\ Encoded(u, Marks) \in Text
    BY AppendProperties, EncodedType DEF Text
  <2>. DEFINE a == Encoded(u, Marks)
              b == EncodeMap(Marks)[x]
  <2>1. Encoded(Append(u, x), Marks) = a \o b /\ b \in Text
        /\ b = IF x \in Marks THEN <<"&", Entities[x]>> ELSE <<x>>
    BY <2>0, EncodedAppend
  <2>2. Range(Append(u, x)) = Range(u) \union {x}
    <3>. DEFINE o == <<x>>
    <3>1. u \in Seq(Alphabet) /\ o \in Seq(Alphabet) /\ Range(o) = {x}
      BY <2>0 DEF Text, Range
    <3>2. Append(u, x) = u \o o
      BY <3>1, AppendIsConcat
    <3>. HIDE DEF o
    <3>. QED BY <3>1, <3>2, RangeConcatenation
  <2>3. Range(b) \subseteq ({x} \ Marks) \union {"&"} \union Range(Entities)
    <3>1. CASE x \in Marks
      <4>1. Entities[x] \in Range(Entities)
        BY <3>1, EntityFacts DEF Range
      <4>2. Range(<<"&", Entities[x]>>) = {"&", Entities[x]}
        BY DEF Range
      <4>. QED BY <2>1, <3>1, <4>1, <4>2
    <3>2. CASE x \notin Marks
      <4>1. Range(<<x>>) = {x}
        BY DEF Range
      <4>. QED BY <2>1, <3>2, <4>1
    <3>. QED BY <3>1, <3>2
  <2>4. Range(a \o b) = Range(a) \union Range(b)
    <3>1. a \in Seq(Alphabet) /\ b \in Seq(Alphabet)
      BY <2>0, <2>1 DEF Text
    <3>. HIDE DEF a, b
    <3>. QED BY <3>1, RangeConcatenation
  <2>5. Range(a) \subseteq Ok(u)
    OBVIOUS
  <2>. HIDE DEF a, b
  <2>. QED BY <2>0, <2>1, <2>2, <2>3, <2>4, <2>5
<1>3. S = Text
  <2>. HIDE DEF S
  <2>1. S \in SUBSET Text
    BY DEF S
  <2>. QED BY <1>1, <1>2, <2>1, SeqSetInduction DEF Text
<1>. QED BY <1>3, HtmlEncodes

\* Every ampersand of an encoded text starts an entity.
LEMMA AmpsSpell ==
    ASSUME NEW s \in Text
    PROVE  \A k \in DOMAIN htmlEncode(s) :
             htmlEncode(s)[k] = "&" => SpelledAt(htmlEncode(s), k, Marks)
<1>. DEFINE Good(t) == \A k \in 1 .. Len(t) : t[k] = "&" => SpelledAt(t, k, Marks)
            S == {u \in Text : Good(Encoded(u, Marks))}
<1>1. <<>> \in S
  BY EncodedEmpty, EmptySeq DEF Text
<1>2. ASSUME NEW u \in S, NEW x \in Alphabet PROVE Append(u, x) \in S
  <2>0. u \in Text /\ Append(u, x) \in Text /\ Encoded(u, Marks) \in Text
    BY AppendProperties, EncodedType DEF Text
  <2>. DEFINE a == Encoded(u, Marks)
              b == EncodeMap(Marks)[x]
              m == Len(a)
              n == Len(b)
              c == a \o b
  <2>1. Encoded(Append(u, x), Marks) = c /\ b \in Text
        /\ b = IF x \in Marks THEN <<"&", Entities[x]>> ELSE <<x>>
    BY <2>0, EncodedAppend
  <2>2. Good(a)
    OBVIOUS
  <2>3. Good(b)
    <3>1. CASE x \in Marks
      <4>. DEFINE p == <<"&", Entities[x]>>
      <4>1. b = p /\ Len(p) = 2 /\ p[1] = "&" /\ p[2] = Entities[x] /\ Entities[x] # "&"
        BY <2>1, <3>1, EntityFacts DEF Marks
      <4>2. SpelledAt(b, 1, Marks)
        BY <3>1, <4>1 DEF SpelledAt
      <4>. HIDE DEF p, b
      <4>3. \A k \in 1 .. 2 : k = 1 \/ k = 2
        OBVIOUS
      <4>. QED BY <4>1, <4>2, <4>3
    <3>2. CASE x \notin Marks
      <4>1. b = <<x>> /\ Len(<<x>>) = 1 /\ <<x>>[1] = x /\ x # "&"
        BY <2>1, <3>2 DEF Marks
      <4>. HIDE DEF b
      <4>. QED BY <4>1
    <3>. QED BY <3>1, <3>2
  <2>4. /\ c \in Text /\ Len(c) = m + n /\ m \in Nat /\ n \in Nat /\ Len(a) = m /\ Len(b) = n
    BY <2>0, <2>1, ConcatProperties, LenProperties DEF Text
  <2>5. \A i \in 1 .. m : c[i] = a[i]
    BY <2>0, <2>1, ConcatProperties, LenProperties DEF Text
  <2>6. \A i \in 1 .. n : c[m + i] = b[i]
    BY <2>0, <2>1, ConcatProperties, LenProperties DEF Text
  <2>. HIDE DEF a, b, c, m, n
  <2>7. ASSUME NEW k \in 1 .. Len(c), c[k] = "&" PROVE SpelledAt(c, k, Marks)
    <3>1. CASE k <= m
      <4>1. k \in 1 .. m
        BY <2>4, <3>1
      <4>2. a[k] = "&"
        BY <2>5, <2>7, <4>1
      <4>3. SpelledAt(a, k, Marks)
        BY <2>2, <2>4, <4>1, <4>2
      <4>4. k + 1 \in 1 .. m /\ k \in 1 .. Len(c) - 1
        BY <2>4, <4>3 DEF SpelledAt
      <4>5. c[k + 1] = a[k + 1]
        BY <2>5, <4>4
      <4>. QED BY <2>7, <4>3, <4>4, <4>5 DEF SpelledAt
    <3>2. CASE k > m
      <4>. DEFINE i == k - m
      <4>1. i \in 1 .. n /\ k = m + i
        BY <2>4, <3>2
      <4>. HIDE DEF i
      <4>2. b[i] = "&"
        BY <2>6, <2>7, <4>1
      <4>3. SpelledAt(b, i, Marks)
        BY <2>3, <2>4, <4>1, <4>2
      <4>4. i + 1 \in 1 .. n /\ k \in 1 .. Len(c) - 1 /\ k + 1 = m + (i + 1)
        BY <2>4, <4>1, <4>3 DEF SpelledAt
      <4>5. c[k + 1] = b[i + 1]
        BY <2>6, <4>4
      <4>. QED BY <2>7, <4>3, <4>4, <4>5 DEF SpelledAt
    <3>3. k <= m \/ k > m
      BY <2>4
    <3>. QED BY <3>1, <3>2, <3>3
  <2>8. Good(c)
    BY <2>7
  <2>. QED BY <2>0, <2>1, <2>8
<1>3. S = Text
  <2>. HIDE DEF S
  <2>1. S \in SUBSET Text
    BY DEF S
  <2>. QED BY <1>1, <1>2, <2>1, SeqSetInduction DEF Text
<1>4. Good(Encoded(s, Marks))
  BY <1>3
<1>5. Encoded(s, Marks) \in Text
  BY EncodedType
<1>6. DOMAIN Encoded(s, Marks) = 1 .. Len(Encoded(s, Marks))
  BY <1>5, LenProperties DEF Text
<1>. QED BY <1>4, <1>6, HtmlEncodes

\* An encoded text holds no mark but the ampersands that start its entities.
LEMMA NoMarkup ==
    ASSUME NEW s \in Text
    PROVE  Range(htmlEncode(s)) \intersect (Marks \ {"&"}) = {}
<1>1. Range(htmlEncode(s)) \subseteq (Range(s) \ Marks) \union {"&"} \union Range(Entities)
  BY EncodedRange
<1>2. Range(Entities) \intersect Marks = {}
  BY EntityFacts DEF Range
<1>. QED BY <1>1, <1>2

-----------------------------------------------------------------------------
(* The edit form.                                                          *)

\* The value of an input field is a text.
LEMMA InValueType ==
    ASSUME NEW s \in Text
    PROVE  InValue(s) \in Text
<1>1. CASE "\"" \notin Range(s)
  BY <1>1, DecodedType, EntityFacts DEF InValue, Displayed
<1>2. CASE "\"" \in Range(s)
  <2>. DEFINE at == {i \in 1 .. Len(s) : s[i] = "\""}
              k == SelectInSeq(s, LAMBDA x : x = "\"")
              t == SubSeq(s, 1, k - 1)
  <2>0. Len(s) \in Nat /\ DOMAIN s = 1 .. Len(s)
    BY LenProperties DEF Text
  <2>1. at # {} /\ at \in SUBSET Nat
    <3>1. PICK i \in DOMAIN s : s[i] = "\""
      BY <1>2 DEF Range
    <3>2. i \in at
      BY <2>0, <3>1
    <3>3. at \in SUBSET Nat
      <4>1. at \subseteq 1 .. Len(s)
        OBVIOUS
      <4>. HIDE DEF at, k
      <4>2. 1 .. Len(s) \subseteq Nat
        BY <2>0
      <4>. QED BY <4>1, <4>2
    <3>. QED BY <3>2, <3>3
  <2>2. k = Min(at)
    BY <2>1 DEF SelectInSeq, Min
  <2>3. k \in 1 .. Len(s)
    <3>. HIDE DEF at, k
    <3>1. k \in at
      BY <2>1, <2>2, LowestExists
    <3>. QED BY <3>1 DEF at
  <2>. HIDE DEF k
  <2>4. t \in Text
    BY <2>0, <2>3, SubSeqProperties DEF Text
  <2>5. InValue(s) = Displayed(t)
    BY <1>2 DEF InValue, k
  <2>. QED BY <2>4, <2>5, DecodedType, EntityFacts DEF Displayed
<1>. QED BY <1>1, <1>2

\* An input field holds a text without quotes and entities as it is.
LEMMA InValuePlain ==
    ASSUME NEW s \in Text, "\"" \notin Range(s), ~SpellsEntity(s)
    PROVE  InValue(s) = s
BY HtmlDecodePlain DEF InValue

-----------------------------------------------------------------------------
(* The search.                                                             *)

\* The search term reaches htmlDecode as it was typed.
LEMMA TermDecoded ==
    ASSUME NEW s \in Text
    PROVE  SearchTerm(FormEncoded(s)) = htmlDecode(s)
<1>. DEFINE q == FormEncoded(s)
            p == [k \in DOMAIN q |-> IF q[k] = <<"+">> THEN <<" ">> ELSE q[k]]
<1>1. \A k \in DOMAIN s :
        q[k] = IF s[k] = " " THEN <<"+">> ELSE IF s[k] \in Literal THEN <<s[k]>> ELSE <<"%", s[k]>>
  BY DEF FormEncoded
<1>2. DOMAIN q = DOMAIN s /\ DOMAIN p = DOMAIN s
  BY DEF FormEncoded
<1>3. ASSUME NEW k \in DOMAIN s
      PROVE  (IF Len(p[k]) = 2 THEN p[k][2] ELSE p[k][1]) = s[k]
  <2>1. CASE s[k] = " "
    <3>1. p[k] = <<" ">>
      <4>1. q[k] = <<"+">>
        BY <1>1, <2>1
      <4>. HIDE DEF q
      <4>. QED BY <1>2, <4>1
    <3>2. Len(<<" ">>) = 1 /\ <<" ">>[1] = " "
      OBVIOUS
    <3>. HIDE DEF p
    <3>. QED BY <2>1, <3>1, <3>2
  <2>2. CASE s[k] # " " /\ s[k] \in Literal
    <3>1. q[k] = <<s[k]>> /\ s[k] # "+"
      BY <1>1, <2>2 DEF Literal
    <3>2. Len(<<s[k]>>) = 1 /\ <<s[k]>>[1] = s[k] /\ <<"+">>[1] = "+"
      OBVIOUS
    <3>. HIDE DEF q
    <3>3. p[k] = <<s[k]>>
      BY <1>2, <3>1, <3>2
    <3>. HIDE DEF p
    <3>. QED BY <3>2, <3>3
  <2>3. CASE s[k] # " " /\ s[k] \notin Literal
    <3>1. q[k] = <<"%", s[k]>>
      BY <1>1, <2>3
    <3>2. Len(<<"%", s[k]>>) = 2 /\ <<"%", s[k]>>[2] = s[k] /\ Len(<<"+">>) = 1
      OBVIOUS
    <3>. HIDE DEF q
    <3>3. q[k] # <<"+">>
      <4>. DEFINE two == <<"%", s[k]>>
                  one == <<"+">>
      <4>1. q[k] = two /\ Len(two) = 2 /\ Len(one) = 1
        BY <3>1, <3>2
      <4>. HIDE DEF two, one
      <4>2. q[k] # one
        BY <4>1
      <4>. QED BY <4>2 DEF one
    <3>4. p[k] = q[k]
      BY <1>2, <3>3
    <3>. HIDE DEF p
    <3>. QED BY <3>1, <3>2, <3>4
  <2>. QED BY <2>1, <2>2, <2>3
<1>. DEFINE d == [k \in DOMAIN p |-> IF Len(p[k]) = 2 THEN p[k][2] ELSE p[k][1]]
<1>4. d = s
  <2>. HIDE DEF p, q
  <2>1. d = [k \in DOMAIN s |-> s[k]]
    BY <1>2, <1>3
  <2>2. s = [k \in DOMAIN s |-> s[k]]
    BY LenProperties DEF Text
  <2>. QED BY <2>1, <2>2
<1>5. urlDecode(p) = d
  <2>. HIDE DEF p, q
  <2>. QED BY DEF urlDecode
<1>. QED BY <1>4, <1>5 DEF SearchTerm

\* Where what the pattern has from j on may begin, from where the rest may.
Begins(s, pattern, j, rest) ==
    IF j > Len(pattern) THEN 1 .. Len(s) + 1
    ELSE IF pattern[j] = "%" THEN {i \in 1 .. Len(s) + 1 : \E k \in rest : i <= k}
    ELSE {i \in 1 .. Len(s) : s[i] = pattern[j] /\ i + 1 \in rest}

\* A table of LIKE for s and a pattern.
FromTable(s, pattern, From) ==
    From = [j \in 1 .. Len(pattern) + 1 |-> Begins(s, pattern, j, From[j + 1])]

\* LIKE looks into its table, whichever table satisfies the recursion.
LEMMA LikeWithinIs ==
    ASSUME NEW s, NEW pattern
    PROVE  LikeWithin(s, pattern) <=> (CHOOSE From : FromTable(s, pattern, From))[1] # {}
BY DEF LikeWithin, FromTable, Begins

\* There is such a table: it is filled from the end of the pattern.
LEMMA FromTableExists ==
    ASSUME NEW s \in Text, NEW pattern \in Text
    PROVE  \E From : FromTable(s, pattern, From)
<1>. DEFINE n == Len(s)
            m == Len(pattern)
            V == SUBSET (1 .. n + 1)
            base == 1 .. n + 1
            step == [k \in 1 .. m |-> [v \in V |-> Begins(s, pattern, (m + 1) - k, v)]]
<1>0. m \in Nat /\ n \in Nat /\ m = Len(pattern) /\ n = Len(s)
  BY LenProperties DEF Text
<1>. HIDE DEF n, m
<1>1. Steps(step, m, V)
  <2>1. ASSUME NEW j, NEW v PROVE Begins(s, pattern, j, v) \in V
    BY <1>0 DEF Begins
  <2>. HIDE DEF V
  <2>. QED BY <2>1 DEF Steps
<1>2. base \in V
  OBVIOUS
<1>3. PICK r : Follows(r, m, V, base, step)
  <2>. HIDE DEF V, base, step
  <2>. QED BY <1>0, <1>1, <1>2, RecursionExists
<1>. DEFINE From == [j \in 1 .. m + 1 |-> r[(m + 1) - j]]
<1>4. ASSUME NEW j \in 1 .. m + 1
      PROVE  From[j] = Begins(s, pattern, j, From[j + 1])
  <2>1. CASE j = m + 1
    <3>1. From[j] = base
      BY <1>0, <1>3, <2>1 DEF Follows
    <3>2. Begins(s, pattern, j, From[j + 1]) = base
      BY <1>0, <2>1 DEF Begins
    <3>. QED BY <3>1, <3>2
  <2>2. CASE j # m + 1
    <3>. DEFINE k == (m + 1) - j
    <3>1. k \in 1 .. m /\ (m + 1) - k = j /\ k - 1 = (m + 1) - (j + 1) /\ j + 1 \in 1 .. m + 1 /\ k - 1 \in 0 .. m
      BY <1>0, <2>2
    <3>2. From[j] = r[k] /\ From[j + 1] = r[k - 1]
      BY <3>1
    <3>. HIDE DEF k, From
    <3>3. r[k] = step[k][r[k - 1]] /\ r[k - 1] \in V
      <4>. HIDE DEF V, step, base
      <4>. QED BY <1>3, <3>1 DEF Follows
    <3>. HIDE DEF V
    <3>4. step[k][r[k - 1]] = Begins(s, pattern, (m + 1) - k, r[k - 1])
      BY <3>1, <3>3
    <3>. QED BY <3>1, <3>2, <3>3, <3>4
  <2>. QED BY <2>1, <2>2
<1>5. FromTable(s, pattern, From)
  BY <1>0, <1>4 DEF FromTable
<1>. QED BY <1>5

\* A pattern is found where it stands literally.
LEMMA LikeLiteral ==
    ASSUME NEW s \in Text, NEW pattern \in Text, NEW at \in 0 .. Len(s) - Len(pattern),
           \A x \in 1 .. Len(pattern) : s[at + x] = pattern[x]
    PROVE  LikeWithin(s, pattern)
<1>. DEFINE n == Len(s)
            m == Len(pattern)
            From == CHOOSE f : FromTable(s, pattern, f)
<1>0. m \in Nat /\ n \in Nat /\ m = Len(pattern) /\ n = Len(s) /\ at \in Nat /\ at + m <= n
  BY LenProperties DEF Text
<1>1. FromTable(s, pattern, From)
  BY FromTableExists
<1>. HIDE DEF n, m, From
<1>2. \A j \in 1 .. m + 1 : From[j] = Begins(s, pattern, j, From[j + 1])
  BY <1>0, <1>1 DEF FromTable
<1>. DEFINE N == {k \in Nat : k <= m => at + ((m + 1) - k) \in From[(m + 1) - k]}
<1>3. 0 \in N
  <2>1. From[m + 1] = 1 .. n + 1
    <3>1. m + 1 \in 1 .. m + 1 /\ m + 1 > m
      BY <1>0
    <3>2. From[m + 1] = Begins(s, pattern, m + 1, From[(m + 1) + 1])
      BY <1>2, <3>1
    <3>. QED BY <1>0, <3>1, <3>2 DEF Begins
  <2>. QED BY <1>0, <2>1
<1>4. ASSUME NEW k \in N PROVE k + 1 \in N
  <2>. DEFINE j == (m + 1) - (k + 1)
  <2>. SUFFICES ASSUME k + 1 <= m PROVE at + j \in From[j]
    OBVIOUS
  <2>1. j \in 1 .. m /\ j + 1 = (m + 1) - k /\ at + j \in 1 .. n /\ k <= m /\ k \in Nat
    BY <1>0
  <2>2. (at + j) + 1 \in From[j + 1] /\ (at + j) + 1 \in 1 .. n + 1
    <3>1. at + ((m + 1) - k) \in From[(m + 1) - k]
      BY <2>1
    <3>. HIDE DEF j, N
    <3>2. at + ((m + 1) - k) = (at + j) + 1
      BY <1>0, <2>1
    <3>3. (at + j) + 1 \in 1 .. n + 1
      BY <1>0, <2>1
    <3>. QED BY <2>1, <3>1, <3>2, <3>3
  <2>. HIDE DEF N, j
  <2>3. s[at + j] = pattern[j] /\ j \in 1 .. m + 1 /\ ~(j > m)
    BY <1>0, <2>1
  <2>4. From[j] = Begins(s, pattern, j, From[j + 1])
    BY <1>2, <2>3
  <2>5. at + j <= (at + j) + 1 /\ at + j \in 1 .. n + 1
    BY <1>0, <2>1
  <2>6. CASE pattern[j] = "%"
    <3>1. From[j] = {i \in 1 .. n + 1 : \E l \in From[j + 1] : i <= l}
      BY <1>0, <2>3, <2>4, <2>6 DEF Begins
    <3>. QED BY <2>2, <2>5, <3>1
  <2>7. CASE pattern[j] # "%"
    <3>1. From[j] = {i \in 1 .. n : s[i] = pattern[j] /\ i + 1 \in From[j + 1]}
      BY <1>0, <2>3, <2>4, <2>7 DEF Begins
    <3>. QED BY <2>1, <2>2, <2>3, <3>1
  <2>. QED BY <2>6, <2>7
<1>5. N = Nat
  <2>. HIDE DEF N
  <2>1. N \in SUBSET Nat
    BY DEF N
  <2>. QED BY <1>3, <1>4, <2>1, NatSetInduction
<1>6. From[1] # {}
  <2>1. m \in N
    BY <1>0, <1>5
  <2>. QED BY <1>0, <2>1
<1>. QED BY <1>6, LikeWithinIs DEF From

\* A text in which another stands is what is before it, the other, what is after.
LEMMA WithinParts ==
    ASSUME NEW s \in Text, NEW t \in Text, Within(t, s)
    PROVE  \E p, q \in Text : s = p \o (t \o q)
<1>. DEFINE n == Len(s)
            m == Len(t)
<1>0. n \in Nat /\ m \in Nat /\ m = Len(t) /\ n = Len(s)
  BY LenProperties DEF Text
<1>1. PICK k \in 0 .. n - m : SubSeq(s, k + 1, k + m) = t
  BY DEF Within
<1>. HIDE DEF n, m
<1>. DEFINE p == SubSeq(s, 1, k)
            q == SubSeq(s, k + m + 1, n)
<1>2. p \in Text /\ q \in Text
  BY <1>0, <1>1, SubSeqProperties DEF Text
<1>3. k \in 0 .. n /\ k + m \in k .. n /\ s \in Seq(Alphabet)
  BY <1>0, <1>1 DEF Text
<1>4. SubSeq(s, k + 1, k + m) \o q = SubSeq(s, k + 1, n)
  <2>1. k + 1 \in 1 .. Len(s) + 1 /\ k + m \in (k + 1) - 1 .. Len(s) /\ n \in k + m .. Len(s)
    BY <1>0, <1>3
  <2>. QED BY <1>3, <2>1, ConcatAdjacentSubSeq
<1>5. p \o SubSeq(s, k + 1, n) = SubSeq(s, 1, n)
  <2>1. 1 \in 1 .. Len(s) + 1 /\ k \in 1 - 1 .. Len(s) /\ n \in k .. Len(s)
    BY <1>0, <1>3
  <2>. QED BY <1>3, <2>1, ConcatAdjacentSubSeq
<1>6. SubSeq(s, 1, n) = s
  BY <1>0, <1>3, SubSeqFull
<1>. HIDE DEF p, q
<1>. QED BY <1>1, <1>2, <1>4, <1>5, <1>6

\* What stands in a text stands encoded in the encoded text, and LIKE finds it.
LEMMA EncodedWithin ==
    ASSUME NEW s \in Text, NEW t \in Text, Within(t, s)
    PROVE  LikeWithin(htmlEncode(s), htmlEncode(t))
<1>1. PICK p \in Text, q \in Text : s = p \o (t \o q)
  BY WithinParts
<1>. DEFINE f == EncodeMap(Marks)
            u == t \o q
<1>2. Maps(f, Alphabet, Alphabet)
  BY EncodeMapType
<1>3. u \in Text
  BY ConcatProperties DEF Text
<1>. HIDE DEF f, u
<1>. DEFINE ep == Images(f, p)
            et == Images(f, t)
            eq == Images(f, q)
            eu == Images(f, u)
            es == Images(f, s)
<1>4. ep \in Text /\ et \in Text /\ eq \in Text /\ eu \in Text /\ es \in Text
  BY <1>2, <1>3, ImagesType DEF Text
<1>5. es = ep \o eu
  <2>1. s = p \o u
    BY <1>1 DEF u
  <2>2. Images(f, p \o u) = Images(f, p) \o Images(f, u)
    <3>1. p \in Seq(Alphabet) /\ u \in Seq(Alphabet)
      BY <1>1, <1>3 DEF Text
    <3>. HIDE DEF ep, eu, es, et, eq
    <3>. QED BY <1>2, <3>1, ImagesConcat
  <2>. QED BY <2>1, <2>2
<1>6. eu = et \o eq
  BY <1>2, ImagesConcat DEF Text, u
<1>7. htmlEncode(s) = es /\ htmlEncode(t) = et
  BY HtmlEncodes DEF Encoded, f
<1>. HIDE DEF ep, et, eq, eu, es
<1>. DEFINE at == Len(ep)
<1>8. at \in Nat /\ Len(es) = at + Len(eu) /\ Len(eu) = Len(et) + Len(eq) /\ Len(et) \in Nat /\ Len(eq) \in Nat
  BY <1>4, <1>5, <1>6, ConcatProperties, LenProperties DEF Text
<1>9. \A x \in 1 .. Len(eu) : es[at + x] = eu[x]
  BY <1>4, <1>5, ConcatProperties, LenProperties DEF Text
<1>10. \A x \in 1 .. Len(et) : eu[x] = et[x]
  BY <1>4, <1>6, ConcatProperties, LenProperties DEF Text
<1>. HIDE DEF at
<1>11. \A x \in 1 .. Len(et) : es[at + x] = et[x]
  BY <1>8, <1>9, <1>10
<1>12. at \in 0 .. Len(es) - Len(et)
  BY <1>8
<1>13. LikeWithin(es, et)
  BY <1>4, <1>11, <1>12, LikeLiteral
<1>. QED BY <1>7, <1>13

-----------------------------------------------------------------------------
(* The inductive invariant.                                                *)

\* The two texts of a form, a row or a page.
Texts == [name: Text, top: Text]

\* What the server makes of a form, what a page of the meme displays and what the
\* edit form holds when it is opened.
Fields(f) == [name |-> Field(FormEncoded(f.name)), top |-> Field(FormEncoded(f.top))]
OnView == [name |-> Displayed(ViewPage(row).name), top |-> Displayed(ViewPage(row).top)]
InForm == [name |-> InValue(EditPage.name), top |-> InValue(EditPage.top)]

\* The inductive invariant.
TextInv ==
    /\ page \in {"create", "view", "edit", "list"} /\ changed \in BOOLEAN
    /\ form \in Texts /\ sent \in Texts /\ shown \in Texts
    /\ search \in [term: Text, hit: BOOLEAN]
    /\ row = Fields(sent)
    /\ page # "create" => shown = OnView
    /\ page = "edit" /\ ~changed => form = InForm
    /\ page # "list" => search = NoSearch
    /\ search.hit \/ ~Found(SearchTerm(FormEncoded(search.term)))

\* The empty text is a text.
LEMMA EmptyText == <<>> \in Text
BY EmptySeq DEF Text

\* What is stored of a form are two texts.
LEMMA FieldsType ==
    ASSUME NEW f \in Texts
    PROVE  Fields(f) \in Texts
<1>1. f.name \in Text /\ f.top \in Text
  BY DEF Texts
<1>2. \A t \in Text : htmlEncode(t) \in Text
  <2>1. Marks \in SUBSET Marks
    OBVIOUS
  <2>. QED BY <2>1, EncodedType, HtmlEncodes
<1>3. Field(FormEncoded(f.name)) \in Text /\ Field(FormEncoded(f.top)) \in Text
  BY <1>1, <1>2, FieldType
<1>. QED BY <1>3 DEF Fields, Texts

\* The row of a form with no texts has none.
LEMMA EmptyRow == Fields(NoText) = NoText /\ NoText \in Texts
<1>1. Carried(<<>>)
  <2>1. Range(<<>>) = {}
    BY DEF Range
  <2>2. Len(<<>>) - 1 = -1 /\ 1 .. -1 = {}
    OBVIOUS
  <2>3. ~SpellsSlash(<<>>)
    BY <2>2 DEF SpellsSlash
  <2>. QED BY <2>1, <2>3 DEF Carried
<1>2. Field(FormEncoded(<<>>)) = htmlEncode(<<>>)
  BY <1>1, FieldCarried, EmptyText
<1>3. htmlEncode(<<>>) = <<>>
  BY HtmlEncodes, EmptyText, EncodedEmpty
<1>. QED BY <1>2, <1>3, EmptyText DEF Fields, NoText, Texts

\* What a page puts in its slots are texts.
LEMMA SlotsType ==
    ASSUME NEW n \in Text, NEW t \in Text
    PROVE  Slots(n, t).name \in Text /\ Slots(n, t).top \in Text
<1>1. Slots(n, t) = [name |-> AfterName(n, t), top |-> AfterTop(t)]
  BY SlotsAre
<1>2. \A s \in Text : AfterTop(s) \in Text
  BY ReplaceType, OtherTexts DEF AfterTop
<1>3. AfterName(n, t) \in Text
  BY <1>2, ReplaceType, OtherTexts DEF AfterName
<1>. QED BY <1>1, <1>2, <1>3

\* What the pages show of a row are texts.
LEMMA PagesType ==
    ASSUME NEW r \in Texts
    PROVE  /\ Displayed(Slots(r.name, r.top).name) \in Text
           /\ Displayed(Slots(r.name, r.top).top) \in Text
           /\ InValue(Slots(htmlDecode(r.name), htmlDecode(r.top)).name) \in Text
           /\ InValue(Slots(htmlDecode(r.name), htmlDecode(r.top)).top) \in Text
<1>1. r.name \in Text /\ r.top \in Text
  BY DEF Texts
<1>2. htmlDecode(r.name) \in Text /\ htmlDecode(r.top) \in Text
  BY <1>1, HtmlDecodeType
<1>3. \A t \in Text : Displayed(t) \in Text
  <2>1. Marks \in SUBSET Marks
    OBVIOUS
  <2>. QED BY <2>1, DecodedType, EntityFacts DEF Displayed
<1>. QED BY <1>1, <1>2, <1>3, SlotsType, InValueType

-----------------------------------------------------------------------------
\* The invariant holds at the start.
LEMMA InitInv == Init => TextInv
<1>. SUFFICES ASSUME Init PROVE TextInv
  OBVIOUS
<1>1. form \in Texts
  BY TypedTexts DEF Init, Texts
<1>2. NoSearch \in [term: Text, hit: BOOLEAN] /\ NoSearch.hit
  BY EmptyText DEF NoSearch
<1>. QED BY <1>1, <1>2, EmptyRow DEF Init, TextInv

\* A POST keeps the invariant: the row is made of what was sent, and the page of the row.
LEMMA SubmitInv == TextInv /\ Submit => TextInv'
<1>. SUFFICES ASSUME TextInv, Submit PROVE TextInv'
  OBVIOUS
<1>1. sent' \in Texts /\ row' = Fields(sent') /\ row' \in Texts
  BY FieldsType DEF TextInv, Submit, Fields
<1>2. shown' = OnView'
  BY DEF Submit, OnView
<1>3. shown' \in Texts
  BY <1>1, <1>2, PagesType DEF OnView, ViewPage, Texts
<1>4. page' = "view" /\ search' = NoSearch
  BY DEF TextInv, Submit
<1>5. form' \in Texts /\ changed' \in BOOLEAN /\ search' \in [term: Text, hit: BOOLEAN]
  BY DEF TextInv, Submit
<1>6. search'.hit
  BY <1>4 DEF NoSearch
<1>. QED BY <1>1, <1>2, <1>3, <1>4, <1>5, <1>6 DEF TextInv

\* Opening the edit form keeps the invariant.
LEMMA EditInv == TextInv /\ MemeEdit => TextInv'
<1>. SUFFICES ASSUME TextInv, MemeEdit PROVE TextInv'
  OBVIOUS
<1>1. row \in Texts /\ UNCHANGED <<sent, row, shown, search>>
  BY FieldsType DEF TextInv, MemeEdit
<1>2. form' = InForm /\ InForm' = InForm
  BY <1>1 DEF MemeEdit, InForm, EditPage
<1>3. InForm \in Texts
  BY <1>1, PagesType DEF InForm, EditPage, Texts
<1>4. OnView' = OnView /\ (Found(SearchTerm(FormEncoded(search.term))))' = Found(SearchTerm(FormEncoded(search.term)))
  BY <1>1 DEF OnView, ViewPage, Found
<1>. QED BY <1>1, <1>2, <1>3, <1>4 DEF TextInv, MemeEdit

\* Typing over a text keeps the invariant: the form is no longer bound to the row.
LEMMA RetypeInv == ASSUME NEW t \in Retyped PROVE TextInv /\ Retype(t) => TextInv'
<1>. SUFFICES ASSUME TextInv, Retype(t) PROVE TextInv'
  OBVIOUS
<1>1. UNCHANGED <<page, sent, row, shown, search>> /\ changed' = TRUE
  BY DEF Retype
<1>2. form' \in Texts
  BY TypedTexts DEF TextInv, Retype, Texts
<1>4. OnView' = OnView /\ (Found(SearchTerm(FormEncoded(search.term))))' = Found(SearchTerm(FormEncoded(search.term)))
  BY <1>1 DEF OnView, ViewPage, Found
<1>. QED BY <1>1, <1>2, <1>4 DEF TextInv

\* A search keeps the invariant: a miss means that the term was not found.
LEMMA SearchInv == ASSUME NEW t \in Terms PROVE TextInv /\ MemeSearch(t) => TextInv'
<1>. SUFFICES ASSUME TextInv, MemeSearch(t) PROVE TextInv'
  OBVIOUS
<1>1. UNCHANGED <<form, changed, sent, row, shown>> /\ page' = "list" /\ page = "view"
  BY DEF MemeSearch
<1>2. OnView' = OnView
  BY <1>1 DEF OnView, ViewPage
<1>3. search' = [term |-> t, hit |-> Found(SearchTerm(FormEncoded(t)))]
  BY DEF MemeSearch
<1>4. Found(SearchTerm(FormEncoded(t)))' = Found(SearchTerm(FormEncoded(t)))
  BY <1>1 DEF Found
<1>5. t \in Text /\ Found(SearchTerm(FormEncoded(t))) \in BOOLEAN
  BY TypedTexts DEF Found
<1>6. search' \in [term: Text, hit: BOOLEAN] /\ search'.term = t /\ search'.hit = Found(SearchTerm(FormEncoded(t)))
  BY <1>3, <1>5
<1>7. (search.hit \/ ~Found(SearchTerm(FormEncoded(search.term))))'
  BY <1>4, <1>6
<1>. QED BY <1>1, <1>2, <1>6, <1>7 DEF TextInv

\* Returning to the view, by a link or by going back, keeps the invariant.
LEMMA ViewInv == TextInv /\ (MemeView \/ GoBack) => TextInv'
<1>. SUFFICES ASSUME TextInv, MemeView \/ GoBack PROVE TextInv'
  OBVIOUS
<1>1. UNCHANGED <<form, changed, sent, row>> /\ page' = "view" /\ search' = NoSearch /\ page = "list"
  BY DEF MemeView, GoBack
<1>2. OnView' = OnView
  BY <1>1 DEF OnView, ViewPage
<1>3. shown' = OnView
  BY <1>1 DEF TextInv, MemeView, GoBack, OnView
<1>4. row \in Texts
  BY FieldsType DEF TextInv
<1>5. OnView \in Texts
  BY <1>4, PagesType DEF OnView, ViewPage, Texts
<1>6. search'.hit /\ search' \in [term: Text, hit: BOOLEAN]
  BY <1>1, EmptyText DEF NoSearch
<1>. QED BY <1>1, <1>2, <1>3, <1>5, <1>6 DEF TextInv

\* In every reachable state the row is what the server makes of the form last sent,
\* the page and the untouched edit form show that row, and a search that missed did
\* not find its term in it.
THEOREM TextInvHolds == Spec => []TextInv
<1>1. TextInv /\ [Next]_vars => TextInv'
  <2>. SUFFICES ASSUME TextInv, [Next]_vars PROVE TextInv'
    OBVIOUS
  <2>1. CASE Submit
    BY <2>1, SubmitInv
  <2>2. CASE MemeEdit
    BY <2>2, EditInv
  <2>3. CASE MemeView \/ GoBack
    BY <2>3, ViewInv
  <2>4. ASSUME NEW t \in Retyped, Retype(t) PROVE TextInv'
    BY <2>4, RetypeInv
  <2>5. ASSUME NEW t \in Terms, MemeSearch(t) PROVE TextInv'
    BY <2>5, SearchInv
  <2>6. CASE UNCHANGED vars
    <3>1. OnView' = OnView /\ InForm' = InForm
           /\ (Found(SearchTerm(FormEncoded(search.term))))' = Found(SearchTerm(FormEncoded(search.term)))
      BY <2>6 DEF vars, OnView, ViewPage, InForm, EditPage, Found
    <3>. QED BY <2>6, <3>1 DEF vars, TextInv
  <2>. QED BY <2>1, <2>2, <2>3, <2>4, <2>5, <2>6 DEF Next
<1>. QED BY <1>1, InitInv, PTL DEF Spec

-----------------------------------------------------------------------------
(* The properties of the runs.                                             *)

\* What becomes of a text that can be carried, on its way to the row: nothing in it is
\* taken for a placeholder.
LEMMA SentEncoded ==
    ASSUME NEW s \in Text, Carried(s)
    PROVE  /\ Field(FormEncoded(s)) = htmlEncode(s) /\ htmlEncode(s) \in Text
           /\ Range(htmlEncode(s)) \intersect Placeholders = {} /\ Range(s) \intersect Placeholders = {}
<1>1. Range(htmlEncode(s)) \subseteq (Range(s) \ Marks) \union {"&"} \union Range(Entities)
  BY EncodedRange
<1>2. Range(Entities) \intersect Placeholders = {} /\ "&" \notin Placeholders
  BY EntityFacts DEF Range, Placeholders
<1>3. Range(s) \intersect Placeholders = {}
  BY DEF Carried
<1>4. htmlEncode(s) \in Text
  <2>1. Marks \in SUBSET Marks
    OBVIOUS
  <2>. QED BY <2>1, EncodedType, HtmlEncodes
<1>. QED BY <1>1, <1>2, <1>3, <1>4, FieldCarried

\* What the pages show of the texts n and t, encoded.
LEMMA CarriedShown ==
    ASSUME NEW f \in Texts, Carried(f.name), Carried(f.top)
    PROVE  LET r == Fields(f)
           IN  [name |-> Displayed(Slots(r.name, r.top).name),
                top  |-> Displayed(Slots(r.name, r.top).top)] = f
<1>. DEFINE n == f.name
            t == f.top
            r == Fields(f)
<1>1. n \in Text /\ t \in Text /\ f = [name |-> n, top |-> t]
  BY DEF Texts
<1>2. r.name = htmlEncode(n) /\ r.top = htmlEncode(t)
  BY <1>1, SentEncoded DEF Fields
<1>3. r.name \in Text /\ r.top \in Text
  BY <1>1, <1>2, SentEncoded
<1>4. Slots(r.name, r.top) = [name |-> r.name, top |-> r.top]
  BY <1>1, <1>2, <1>3, SentEncoded, NothingToFill
<1>5. Displayed(r.name) = n /\ Displayed(r.top) = t
  BY <1>1, <1>2, DisplayedEncoded
<1>. QED BY <1>1, <1>4, <1>5

\* What the edit form shows of a form whose texts it can hold, encoded, stored,
\* decoded and filled in: the form.
LEMMA EditableShown ==
    ASSUME NEW f \in Texts, Editable(f.name), Editable(f.top)
    PROVE  LET r == Fields(f)
           IN  [name |-> InValue(Slots(htmlDecode(r.name), htmlDecode(r.top)).name),
                top  |-> InValue(Slots(htmlDecode(r.name), htmlDecode(r.top)).top)] = f
<1>. DEFINE n == f.name
            t == f.top
            r == Fields(f)
<1>1. n \in Text /\ t \in Text /\ f = [name |-> n, top |-> t]
  BY DEF Texts
<1>2. Carried(n) /\ ~SpellsEntity(n) /\ "\"" \notin Range(n)
  BY DEF Editable
<1>3. Carried(t) /\ ~SpellsEntity(t) /\ "\"" \notin Range(t)
  BY DEF Editable
<1>4. r.name = htmlEncode(n) /\ r.top = htmlEncode(t)
  BY <1>1, <1>2, <1>3, SentEncoded DEF Fields
<1>5. htmlDecode(r.name) = n /\ htmlDecode(r.top) = t
  BY <1>1, <1>2, <1>3, <1>4, HtmlDecodeEncoded
<1>6. Slots(n, t) = [name |-> n, top |-> t]
  BY <1>1, <1>2, <1>3, SentEncoded, NothingToFill
<1>7. InValue(n) = n /\ InValue(t) = t
  BY <1>1, <1>2, <1>3, InValuePlain
<1>. QED BY <1>1, <1>5, <1>6, <1>7

\* The invariant implies the type invariant.
LEMMA TextInvTypes == TextInv => TypeOK
<1>. SUFFICES ASSUME TextInv PROVE TypeOK
  OBVIOUS
<1>1. form \in Texts /\ sent \in Texts /\ row \in Texts /\ shown \in Texts
  BY FieldsType DEF TextInv
<1>2. \A t \in Texts : DOMAIN t = {"name", "top"} /\ Range(t.name) \union Range(t.top) \subseteq Alphabet
  <2>. SUFFICES ASSUME NEW t \in Texts
                PROVE  DOMAIN t = {"name", "top"} /\ Range(t.name) \union Range(t.top) \subseteq Alphabet
    OBVIOUS
  <2>1. t.name \in Seq(Alphabet) /\ t.top \in Seq(Alphabet)
    BY DEF Texts, Text
  <2>2. DOMAIN t = {"name", "top"}
    BY DEF Texts
  <2>. QED BY <2>1, <2>2, RangeOfSeq
<1>. QED BY <1>1, <1>2 DEF TextInv, TypeOK

\* Every text in a form, a row or a page is made of atoms that were typed or that
\* the code puts in, for whatever texts are typed.
THEOREM TextTypes == Spec => []TypeOK
BY TextInvHolds, TextInvTypes, PTL

\* A row made by parseRequestBody holds no markup.
LEMMA TextInvRows == TextInv => RowsAreEncoded
<1>. SUFFICES ASSUME TextInv PROVE RowsAreEncoded
  OBVIOUS
<1>1. sent.name \in Text /\ sent.top \in Text /\ row = Fields(sent)
  BY DEF TextInv, Texts
<1>2. ASSUME NEW s \in {row.name, row.top}
      PROVE  /\ Range(s) \intersect (DOMAIN Entities \ {"&"}) = {}
             /\ \A k \in DOMAIN s : s[k] = "&" => SpelledAt(s, k, DOMAIN Entities)
  <2>1. \E t \in Text : s = Field(FormEncoded(t))
    BY <1>1 DEF Fields
  <2>2. PICK t \in Text : s = htmlEncode(t)
    BY <2>1, FieldType
  <2>. QED BY <2>2, NoMarkup, AmpsSpell, EntityFacts
<1>. QED BY <1>2 DEF RowsAreEncoded

\* For every text that may be typed, of any length, and after any number of edits,
\* nothing in a row is markup.
THEOREM RowsStayEncoded == Spec => []RowsAreEncoded
BY TextInvHolds, TextInvRows, PTL

\* The page of a row made of texts that can be carried displays them.
LEMMA TextInvView == TextInv => ViewShowsSent
<1>. SUFFICES ASSUME TextInv, page = "view", Carried(sent.name), Carried(sent.top) PROVE shown = sent
  BY DEF ViewShowsSent, Both
<1>1. sent \in Texts /\ row = Fields(sent) /\ shown = OnView
  BY DEF TextInv
<1>2. OnView = sent
  BY <1>1, CarriedShown DEF OnView, ViewPage
<1>. QED BY <1>1, <1>2

\* Every text without plus signs, "%2F" and later placeholders is displayed as it was
\* typed, whatever quotes, brackets and entities it holds and however long it is.
THEOREM ViewIsAsSent == Spec => []ViewShowsSent
BY TextInvHolds, TextInvView, PTL

\* The edit form of a row made of editable texts holds them.
LEMMA TextInvEdit == TextInv => EditShowsSent
<1>. SUFFICES ASSUME TextInv, page = "edit", ~changed, Editable(sent.name), Editable(sent.top)
              PROVE  form = sent
  BY DEF EditShowsSent, Both
<1>1. sent \in Texts /\ row = Fields(sent) /\ form = InForm
  BY DEF TextInv
<1>2. InForm = sent
  BY <1>1, EditableShown DEF InForm, EditPage
<1>. QED BY <1>1, <1>2

\* Every text that also has no double quote and spells no entity is in the edit
\* form as it was typed: htmlDecode undoes htmlEncode.
THEOREM EditIsAsSent == Spec => []EditShowsSent
BY TextInvHolds, TextInvEdit, PTL

\* A step from an untouched edit form to the view is a Submit of what was sent.
LEMMA EditStep ==
    TextInv /\ EditShowsSent /\ [Next]_vars =>
        [page = "edit" /\ page' = "view" /\ ~changed /\ Both(Editable) => row' = row]_vars
<1>. SUFFICES ASSUME TextInv, EditShowsSent, [Next]_vars,
                     page = "edit", page' = "view", ~changed, Both(Editable)
              PROVE  row' = row
  BY DEF vars
<1>1. form = sent
  BY DEF EditShowsSent
<1>2. Submit \/ UNCHANGED vars
  BY DEF Next, MemeEdit, MemeView, GoBack, Retype, MemeSearch
<1>3. CASE Submit
  <2>1. row' = Fields(form)
    BY <1>3 DEF Submit, Fields
  <2>. QED BY <1>1, <2>1 DEF TextInv
<1>4. CASE UNCHANGED vars
  BY <1>4 DEF vars
<1>. QED BY <1>2, <1>3, <1>4

\* Sending the edit form back as it was opened leaves the row of such texts alone.
THEOREM EditLeavesRow == Spec => EditKeepsRow
BY TextInvHolds, TextInvEdit, EditStep, PTL DEF Spec, EditKeepsRow

\* A term that was not found stands in neither of the texts that were sent.
LEMMA TextInvSearch == TextInv => SearchMissesNothing
<1>. SUFFICES ASSUME TextInv, Carried(sent.name), Carried(sent.top),
                     ~SpellsEntity(search.term), ~search.hit
              PROVE  ~Within(search.term, sent.name) /\ ~Within(search.term, sent.top)
  BY DEF SearchMissesNothing, Both
<1>. DEFINE t == search.term
<1>1. sent.name \in Text /\ sent.top \in Text /\ t \in Text
  BY DEF TextInv, Texts
<1>2. row.name = htmlEncode(sent.name) /\ row.top = htmlEncode(sent.top)
  BY <1>1, SentEncoded DEF TextInv, Fields
<1>3. SearchTerm(FormEncoded(t)) = t
  BY <1>1, TermDecoded, HtmlDecodePlain
<1>4. ~Found(t)
  BY <1>3 DEF TextInv
<1>5. ~LikeWithin(row.name, htmlEncode(t)) /\ ~LikeWithin(row.top, htmlEncode(t))
  BY <1>4 DEF Found
<1>. QED BY <1>1, <1>2, <1>5, EncodedWithin

\* For all texts and terms a search finds every meme in whose texts the term
\* stands: encoding keeps what stands in a text together, and LIKE finds it.
THEOREM SearchFinds == Spec => []SearchMissesNothing
BY TextInvHolds, TextInvSearch, PTL
=============================================================================
