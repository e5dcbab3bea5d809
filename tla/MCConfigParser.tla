--------------------------- MODULE MCConfigParser ---------------------------
(***************************************************************************)
(* Small alphabets for ConfigParser: one letter stands for the characters  *)
(* that mean nothing to the lexer.                                         *)
(***************************************************************************)
EXTENDS ConfigParser

Blocks == {"a", " ", ";", "{", "}"}
Full == Blocks \union {"\n", "\r", "#", "'", "\""}

AnyShort == [chars |-> Full, len |-> 5]
LongBlocks == [chars |-> Blocks, len |-> 10]
Files == {AnyShort, LongBlocks}
=============================================================================
