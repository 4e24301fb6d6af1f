---------------------------- MODULE MCReviewPanel ----------------------------
(***************************************************************************)
(* Small instances of ReviewPanel.tla: reviews of one to three cards.      *)
(***************************************************************************)
EXTENDS ReviewPanelProperties, TLC

CONSTANTS j1, j2

B == INSTANCE Cards

Hk(id, path, trivial) == [id |-> id, path |-> path, trivial |-> trivial]

\* Two files, the first with a function and a comment, the second with a comment.
HunksTwoFiles == <<Hk("a1", "a", FALSE), Hk("a2", "a", TRUE), Hk("b1", "b", FALSE), Hk("b2", "b", TRUE)>>
HunksOneFile == <<Hk("a1", "a", FALSE), Hk("a2", "a", FALSE)>>
HunksTrivial == <<Hk("b1", "b", TRUE)>>

\* Their cards, as buildCards makes them.
C(path, hunks, self) == [path |-> path, hunks |-> hunks, self |-> self]
TwoFiles == <<C("a", {"a1"}, FALSE), C("a", {"a2", "b2"}, TRUE), C("b", {"b1"}, FALSE)>>
OneFile == <<C("a", {"a1"}, FALSE), C("a", {"a2"}, FALSE)>>
OnlyTrivial == <<C("b", {"b1"}, TRUE)>>
ASSUME BuildCardsAssumption ==
    /\ TwoFiles = B!BuildCards(HunksTwoFiles, TRUE)
    /\ OneFile = B!BuildCards(HunksOneFile, TRUE)
    /\ OnlyTrivial = B!BuildCards(HunksTrivial, TRUE)

\* Every hunk is on exactly one card, whatever the order of the files.
ASSUME OneCardPerHunk ==
    \A n \in 1..3 : \A ps \in [1..n -> {"a", "b"}], ts \in [1..n -> BOOLEAN], batch \in BOOLEAN :
        LET hs == [i \in 1..n |-> Hk(ToString(i), ps[i], ts[i])]
            cs == B!BuildCards(hs, batch)
        IN  \A i \in 1..n : Cardinality({k \in DOMAIN cs : hs[i].id \in cs[k].hunks}) = 1

Files(cs) == {cs[i].path : i \in DOMAIN cs}
CardsTwo == [j \in Jobs |-> IF j = j1 THEN TwoFiles ELSE OnlyTrivial]
PathsTwo == [j \in Jobs |-> Files(CardsTwo[j])]
=============================================================================
