------------------------------ MODULE MCEdits ------------------------------
(***************************************************************************)
(* Texts of up to three lines over a function, by indentation or braces, a *)
(* body line in two indentations, a blank line, a comment, the ends of a   *)
(* block comment and of triple-quoted strings, in a language that has the  *)
(* latter, one that has the former and one whose comments are not known.   *)
(***************************************************************************)
EXTENDS Edits, TLC

Triple == "'''"
Value == "v = '''"
MCLines == {"def f", "fn f {", "}", "  x", "x", "", "# note", "/*", "*/", Triple, Value}
MCIndent == [l \in MCLines |-> IF l = "  x" THEN 2 ELSE 0]
MCDefines == [l \in MCLines |-> IF l \in {"def f", "fn f {"} THEN "f" ELSE ""]
MCBraces == [l \in MCLines |-> IF l = "fn f {" THEN <<"{">> ELSE IF l = "}" THEN <<"}">> ELSE <<>>]
MCTrimmed == [l \in MCLines |-> IF l = "  x" THEN "x" ELSE l]
MCSigns == [l \in MCLines |-> CASE l \in {"", Triple} -> <<>> [] l = "  x" -> <<"x">>
                                [] l = Value -> <<"v">> [] OTHER -> <<l>>]

Unknown == [notes |-> {}, opens |-> {}, shuts |-> {}, quotes |-> {}]
Python == [Unknown EXCEPT !.notes = {"# note"}, !.quotes = {Triple, Value}]
CLike == [Unknown EXCEPT !.opens = {"/*"}, !.shuts = {"*/"}]
MCStyles == {Unknown, Python, CLike}

TextsOf(lines, n) == UNION {[1 .. k -> lines] : k \in 0 .. n}

MCTexts ==
  [s \in MCStyles |->
  CASE s = Python -> TextsOf({"def f", "  x", "x", ""}, 2) \cup TextsOf({"def f", "  x"}, 3)
                         \cup TextsOf({"# note", "x", Triple}, 2)
                         \cup {<<q>> \o t \o <<Triple>> : q \in {Value, Triple}, t \in {<<>>, <<"x">>}}
    [] s = CLike -> TextsOf({"/*", "*/", "x"}, 2)
                        \cup {<<"/*">> \o t : t \in TextsOf({"*/", "x"}, 2)}
                        \cup {<<"fn f {", "x", "}">>, <<"fn f {", "}", "x">>, <<"fn f {", "x">>}
    [] OTHER -> TextsOf({"# note", "x", "  x"}, 2)]

Items == [op : {"keep", "drop", "add"}, line : {"x", ""}] \cup {[op |-> "drop", line |-> "  x"]}
  \cup [op : {"@@"}, line : {None, "x"}] \cup [op : {"eof", "junk"}, line : {""}]
MCPatches == [s \in MCStyles |-> TextsOf(Items, IF s = Python THEN 3 ELSE 2)]
MCEditLists == {<<[old |-> o, new |-> n, all |-> a]>> :
              o \in {<<>>, <<"x">>, <<"x", "x">>}, n \in {<<>>, <<"  x">>}, a \in BOOLEAN}

\* A provider that reports a class, overlapping, doubled and misplaced functions.
Function(name, start, last) ==
  [name |-> name, isFunction |-> TRUE, start |-> start, last |-> last, children |-> {}]
Class(start, last, children) ==
  [name |-> "C", isFunction |-> FALSE, start |-> start, last |-> last, children |-> children]
Odd == {Class(0, 2, {Function("f", 0, 1), Function("g", 1, 5)}),
        Function("f", 2, 1), Function("f", 0, 1), Function("h", 7, 8)}
MCSymbols == {{}, Odd}

\* The parser sees every definition as a function that ends at the start of the line
\* after its block, in a class that the heuristics do not know; or it gives up.
MCTrees(text) ==
  LET definitions == {Node(<<"C", "f">>, TRUE, d - 1, BlockEnd(text, d), 0, {}) : d \in Definitions(text)}
  IN {[root |-> Node(<<>>, FALSE, 0, Len(text), 0, {Node(<<"C">>, FALSE, 0, Len(text), 0, definitions)}),
       hasError |-> FALSE],
      [root |-> Node(<<>>, FALSE, 0, Len(text), 0, {}), hasError |-> TRUE]}
=============================================================================
