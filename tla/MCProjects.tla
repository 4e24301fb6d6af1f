----------------------------- MODULE MCProjects -----------------------------
(***************************************************************************)
(* One folder with two code files, its own CLAUDE.md and an older section  *)
(* of instructions in it.                                                  *)
(***************************************************************************)
EXTENDS Backfill, TLC

CONSTANTS t1, t2, j1, j2

\* Which free place a call of ensure() takes (StartJob, StartingJobs) makes no
\* difference: the states it may lead to are permutations of each other.
Symmetric == Permutations(Threads) \cup Permutations(Jobs)

OneFolder == <<"f">>
OneFiles == <<"a", "b">>
OneFolderOf == [file \in {"a", "b"} |-> "f"]
OneNotes == [f \in {"f"} |-> <<"CLAUDE.md", "AGENTS.md">>]
OneFirst == [n \in {"CLAUDE.md", "AGENTS.md"} |->
  IF n = "CLAUDE.md" THEN <<"text", "start", "older", "end", "text">> ELSE None]

=============================================================================
