-------------------------------- MODULE Hunks --------------------------------
(***************************************************************************)
(* The vocabulary of a proposed change (src/gate/pure/differ.ts): a hunk   *)
(* is one changed function or block of one file.  A text is a member of    *)
(* TEXTS; the content of a file is the set of hunks already applied to it, *)
(* or Absent, so that "accept these hunks, revert those" (reconstruct) is  *)
(* a union and two contents have the same hash iff they are equal.         *)
(***************************************************************************)
EXTENDS Naturals, Sequences, FiniteSets

CONSTANTS
    Paths,      \* canonical paths of the files of the workspace
    Names,      \* function names, with NoName for a block outside functions
    Texts,      \* texts of a block; one of them stands for the empty text
    NoFile      \* stands for the whole content of a file that does not exist

Hunk == [path : Paths, name : Names, before : Texts, after : Texts]
Absent == {NoFile}
Content == (SUBSET Hunk) \cup {Absent}

ASSUME NoFileAssumption == NoFile \notin Hunk

(***************************************************************************)
(* computeHunks names a hunk by path, function name and AFTER text; a hunk *)
(* whose name is already taken in the same file gets an ordinal.  The      *)
(* before text is not part of the name.                                    *)
(***************************************************************************)
HunkIds == Paths \X Names \X Texts \X Nat
HunkBase(h) == <<h.path, h.name, h.after>>
SameBaseUpTo(hs, i) == {j \in DOMAIN hs : j <= i /\ HunkBase(hs[j]) = HunkBase(hs[i])}
HunkId(hs, i) == <<hs[i].path, hs[i].name, hs[i].after, Cardinality(SameBaseUpTo(hs, i))>>

\* hunkHashOf: the content hash covers both texts.
HunkHash(h) == <<h.before, h.after>>

\* The hunks of an edit that still change the content, at their places in it.
NewHunks(edit, content) ==
    [i \in {j \in DOMAIN edit : edit[j] \notin content} |-> edit[i]]

HunkSet(hs) == {hs[i] : i \in DOMAIN hs}

\* The content once the hunks hs have landed on content.
Landed(content, hs) == (IF content = Absent THEN {} ELSE content) \cup hs
=============================================================================
