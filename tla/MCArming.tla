------------------------------ MODULE MCArming ------------------------------
(***************************************************************************)
(* Two windows, the second with a newer script, and a hook of the person's *)
(* own.  Both find the same Node.                                          *)
(***************************************************************************)
EXTENDS Arming

CONSTANTS w1, w2

Versions == w1 :> "v1" @@ w2 :> "v2"
Runtimes == w1 :> "n1" @@ w2 :> "n1"
OwnHook == Claude :> [ok |-> TRUE, groups |-> <<<<Handler(FALSE, "p")>>>>] @@ Codex :> None
=============================================================================
