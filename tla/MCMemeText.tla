----------------------------- MODULE MCMemeText -----------------------------
(***************************************************************************)
(* Texts for MemeText: all short ones over the atoms that matter.          *)
(***************************************************************************)
EXTENDS MemeText

Atoms == {"a", " ", "+", "&", "<", "\"", "/", "%", "2F", "amp;", "lt;"}

AllTops == (BoundedSeq(Atoms, 3) \ {<<>>}) \union {<<"meme_object_name">>, <<"meme_object_top", "a">>}
FewNames == {<<"a">>, <<"meme_object_name">>, <<"meme_object_bot">>}
OneRetyped == {<<"b">>}
AllTerms == BoundedSeq({"a", " ", "&", "amp;", "%"}, 2) \ {<<>>}
=============================================================================
