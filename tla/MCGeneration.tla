---------------------------- MODULE MCGeneration ----------------------------
(***************************************************************************)
(* One request in two chunks, next to the checks of the status view; one   *)
(* assistant of each sort.                                                 *)
(***************************************************************************)
EXTENDS Generation

CONSTANTS r1, h1, h2, h3
Functions == [r \in Requests |-> <<h1, h2, h3>>]
Names == [h \in {h1, h2, h3} |->
  IF h = h1 THEN <<"A", "run">> ELSE IF h = h2 THEN <<"B", "run">> ELSE <<"run">>]
Order == <<"copilot", "claude">>
=============================================================================
