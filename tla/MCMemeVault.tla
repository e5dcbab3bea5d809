----------------------------- MODULE MCMemeVault -----------------------------
(***************************************************************************)
(* Instances of MemeVault for TLC: tables that earlier lives of the server *)
(* can have left.                                                          *)
(***************************************************************************)
EXTENDS MemeVault

\* A first start: no database file yet.
NoRows == {}

\* A long-lived vault: only its newest meme was not deleted.
OldRows == {[id |-> 99998, content |-> "cat", token |-> [id |-> 99998, draw |-> 0]]}

\* A vault in which the first meme was deleted and the second is left.
SecondRow == {[id |-> 10001, content |-> "cat", token |-> [id |-> 10001, draw |-> 10]]}
=============================================================================
