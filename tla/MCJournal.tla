------------------------------ MODULE MCJournal ------------------------------
(***************************************************************************)
(* The journal on small instances: two or three lines to a file, so that   *)
(* rotations follow each other and a rotation meets what an earlier one    *)
(* has left.                                                               *)
(***************************************************************************)
EXTENDS JournalProperties, TLC

CONSTANTS w1, w2

(* Writers run the same code.                                              *)
Symmetric == Permutations(Writers)

=============================================================================
