-------------------------------- MODULE Cards --------------------------------
(***************************************************************************)
(* buildCards (src/review/pure/html.ts): the hunks of a request, in the    *)
(* order of its files, become the cards the person decides one by one.     *)
(* With batching, all whitespace and comment hunks share one card, which   *)
(* stands where the first of them stood and bears that one's path.         *)
(***************************************************************************)
EXTENDS Naturals, Sequences, SequencesExt

Trivial(hs) == {i \in DOMAIN hs : hs[i].trivial}
Batched(hs, batch, i) == batch /\ hs[i].trivial
FirstTrivial(hs, i) == hs[i].trivial /\ \A k \in Trivial(hs) : i <= k

\* The hunks that head a card, and the card of the hunk at i.
Heads(hs, batch) == {i \in DOMAIN hs : Batched(hs, batch, i) => FirstTrivial(hs, i)}
CardAt(hs, batch, i) ==
    [path  |-> hs[i].path,
     hunks |-> {hs[k].id : k \in IF Batched(hs, batch, i) THEN Trivial(hs) ELSE {i}},
     self  |-> Batched(hs, batch, i)]   \* selfExplained: no assistant is asked

BuildCards(hs, batch) ==
    FoldLeftDomain(LAMBDA cs, i : IF i \in Heads(hs, batch) THEN Append(cs, CardAt(hs, batch, i))
                                  ELSE cs, <<>>, hs)
=============================================================================
