--------------------------- MODULE MCJournalView ---------------------------
(* Two windows, one file and that of the self-test, a small and a large content. *)
EXTENDS JournalView

CONSTANTS w1, w2, small, large

MCWindows == {w1, w2}
MCContents == {small, large}
MCSize == (small :> 1) @@ (large :> 3) @@ (Torn :> 1)
=============================================================================
