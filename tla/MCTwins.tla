------------------------------ MODULE MCTwins ------------------------------
(***************************************************************************)
(* Two functions that can be edited, swapped and given each other's body.  *)
(***************************************************************************)
EXTENDS Twins

F(n, b) == [fn |-> n, body |-> b]

SomeTexts == {<<F("f", 1), F("g", 2)>>, <<F("g", 2), F("f", 3)>>,
              <<F("f", 2), F("g", 2)>>, <<F("g", 1)>>}
FirstOne == <<F("f", 1), F("g", 2)>>
=============================================================================
