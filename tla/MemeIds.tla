------------------------------- MODULE MemeIds -------------------------------
(***************************************************************************)
(* Meme ids.  The column MEME_ID is TEXT: SQLite compares ids as text,     *)
(* while the server increments them as integers (stoi, to_string).  An id  *)
(* is modelled by the number it spells.  The ids that the server gives out *)
(* start with five digits; an edit form whose body was cut in its last     *)
(* field, meme_id, stores its row under the digits that are left.  The     *)
(* bound LastId keeps ids below seven digits.                              *)
(***************************************************************************)
EXTENDS Integers

FirstId == 10000
LastId == 999999

\* The empty text.  No id that spells a number is 0.
NoId == 0

\* The length of an id.
Digits(id) ==
    CASE id < 1                      -> 0
      [] 1 <= id /\ id < 10         -> 1
      [] 10 <= id /\ id < 100       -> 2
      [] 100 <= id /\ id < 1000     -> 3
      [] 1000 <= id /\ id < 10000   -> 4
      [] 10000 <= id /\ id < 100000 -> 5
      [] 100000 <= id                -> 6

\* The text of an id is compared digit by digit from the left: as the numbers
\* with zeros for the digits that are missing, and of two that are then equal
\* the shorter text comes first.
Padded(id) == id * <<1000000, 100000, 10000, 1000, 100, 10, 1>>[Digits(id) + 1]

TextLeq(a, b) ==
    \/ Padded(a) < Padded(b)
    \/ Padded(a) = Padded(b) /\ Digits(a) <= Digits(b)

\* SELECT MAX(MEME_ID): the last id of a set in text order.
TextMax(ids) == CHOOSE m \in ids : \A n \in ids : TextLeq(n, m)

\* What is left of an id of which the last digits are cut off.
CutIds(id) == {id \div k : k \in {10, 100, 1000, 10000, 100000, 1000000}}
=============================================================================
