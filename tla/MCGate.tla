-------------------------------- MODULE MCGate --------------------------------
(***************************************************************************)
(* Small instances of Gate.tla: two files and their hunks, a handful of    *)
(* tool calls.                                                             *)
(***************************************************************************)
EXTENDS GateProperties, TLC

CONSTANTS a, b, t, o,       \* two code files, the twin of a, a file outside
          s1, r1, r2, r3

MCPaths == {a, b}
MCPathsMixed == {a, b, t, o}
MCPathsTwin == {a, t}
MCNames == {"none", "f"}
MCTexts == {"", "x", "y"}

H(p, n, bt, at) == [path |-> p, name |-> n, before |-> bt, after |-> at]
DelX == H(a, "none", "x", "")
FunA == H(a, "f", "x", "y")
FunB == H(b, "f", "x", "y")
Twin == H(t, "none", "", "x")
Out == H(o, "none", "x", "y")

W(p, edit) == [path |-> p, kind |-> "modify", edit |-> edit]
Delete(p, h) == [path |-> p, kind |-> "delete", edit |-> <<h>>]
Mixed(s, ws, bs) == [kind |-> "code", session |-> s, writes |-> ws, besides |-> bs]
Code(s, ws) == Mixed(s, ws, <<>>)

\* Two hunks of one file; the other, new file in the same patch, with a twin and
\* a file outside the workspace besides; a call without a session; a deletion.
CallsCore == {Code(s1, <<W(a, <<FunA, DelX>>)>>),
              Mixed(s1, <<W(a, <<FunA>>), W(b, <<FunB>>)>>, <<W(t, <<Twin>>), W(o, <<Out>>)>>),
              Code(NoSession, <<W(b, <<FunB>>)>>), Code(s1, <<Delete(a, DelX)>>)}
\* The same change again, and another one.
CallsTwoFiles == {Code(s1, <<W(a, <<FunA>>)>>), Code(s1, <<W(b, <<FunB>>)>>)}
CallsOne == {Code(s1, <<W(a, <<FunA>>)>>)}
CallsTwin == {[kind |-> "twin", session |-> s1, writes |-> <<W(t, <<Twin>>)>>, besides |-> <<>>],
              [kind |-> "policy", session |-> s1, writes |-> <<>>, besides |-> <<>>]}
CallsTwinAndCode == CallsTwin \cup CallsOne

TwinSelf == [p \in Paths |-> p]
TwinOfA == [p \in Paths |-> t]
NoForeign == {}
NoTwins == {}
NoneOutside == {}
MCOutside == {o}
MCTwins == {t}
NewB == {b}
ForeignA == {H(a, "none", "x", "y")}

Symmetric == Permutations(Requests)
=============================================================================
