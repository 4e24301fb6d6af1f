------------------------------- MODULE Differ -------------------------------
(***************************************************************************)
(* The change under review, line by line: the outline of a text            *)
(* (structure/pure/heuristic.ts, by indentation, and buildFunctionMap), its *)
(* hunks (gate/pure/differ.ts) and the text that partial decisions leave   *)
(* (reconstruct).  A text is a sequence of lines that each end with a      *)
(* newline; of a line only its indentation, what it defines, whether it    *)
(* closes a block, its part in comments and what it says without its space *)
(* are told apart.  Positions count from 0, ranges are half open, as in    *)
(* the source.                                                             *)
(***************************************************************************)
EXTENDS Integers, Sequences, FiniteSets, SequencesExt, FiniteSetsExt

CONSTANTS Lines, Indent,    \* the lines, and how deep each is indented
          Defines, Closes,  \* the function a line defines, the closing words
          Braces,           \* the braces of a line that are code, in order
          Trimmed,          \* a line without the space around it
          Signs,            \* what is left of a line without its space and quotes
          Styles,           \* the kinds of comment languages have
          Blank, NoName

ASSUME LinesAssumption ==
  /\ DOMAIN Indent = Lines /\ DOMAIN Defines = Lines
  /\ Trimmed \in [Lines -> Lines] /\ DOMAIN Braces = Lines
  /\ Closes \subseteq Lines /\ DOMAIN Signs = Lines
  /\ Blank \in Lines \ Closes
  /\ Defines[Blank] = NoName /\ Braces[Blank] = <<>> /\ Trimmed[Blank] = Blank /\ Signs[Blank] = <<>>

\* In a style, the lines that are one comment, those that open and that close a block
\* comment, and those that end in a triple quote.
ASSUME StylesAssumption ==
  Styles \subseteq [notes : SUBSET Lines, opens : SUBSET Lines, shuts : SUBSET Lines, quotes : SUBSET Lines]

Part(text, from, to) == SubSeq(text, from + 1, to)

-----------------------------------------------------------------------------
(* The outline.                                                            *)

Deeper(text, i, d) == text[i] # Blank /\ Indent[text[i]] > Indent[text[d]]

\* findIndentBlockEnd: the deeper lines that follow, blank ones among them, and a
\* closing word on the line of the definition's own depth.
IndentBlockEnd(text, d) ==
  LET body == {i \in d + 1 .. Len(text) : /\ Deeper(text, i, d)
                                          /\ \A k \in d + 1 .. i : text[k] = Blank \/ Deeper(text, k, d)}
      end == Max(body \cup {d})
      after == {i \in end + 1 .. Len(text) : text[i] # Blank}
  IN IF body # {} /\ after # {} /\ text[Min(after)] \in Closes
        /\ Indent[text[Min(after)]] = Indent[text[d]]
     THEN Min(after) ELSE end

Opening(line) == Braces[line] # <<>> /\ Head(Braces[line]) = "{"
HasOpening(line) == "{" \in Range(Braces[line])

\* findBraceBlockEnd: the line where the block is shut that opens on line `from'; 0 if
\* it never is.
BraceBlockEnd(text, from) ==
  LET step(w, i) ==
        FoldLeft(LAMBDA v, brace :
                   IF v.end # 0 \/ (brace = "}" /\ v.depth = 0) THEN v
                   ELSE IF brace = "{" THEN [v EXCEPT !.depth = @ + 1]
                   ELSE [depth |-> v.depth - 1, end |-> IF v.depth = 1 THEN i ELSE 0],
                 w, Braces[text[i]])
  IN FoldLeft(step, [depth |-> 0, end |-> 0], [k \in 1 .. Len(text) - from + 1 |-> from + k - 1]).end

\* blockEnd: by the braces, if the block opens on the definition's line or starts the
\* next that is not blank, and is shut; else by the indentation.
BlockEnd(text, d) ==
  LET next == {i \in d + 1 .. Len(text) : text[i] # Blank}
      from == IF HasOpening(text[d]) THEN d
              ELSE IF next # {} /\ Opening(text[Min(next)]) THEN Min(next) ELSE 0
      shut == IF from = 0 THEN 0 ELSE BraceBlockEnd(text, from)
  IN IF shut # 0 THEN shut ELSE IndentBlockEnd(text, d)

Definitions(text) == {d \in DOMAIN text : Defines[text[d]] # NoName}

\* A nested definition is called by the names around it and its own.
QualifiedName(text, d) ==
  LET around == {e \in Definitions(text) : e <= d /\ d <= BlockEnd(text, e)}
      sorted == SetToSortSeq(around, <)
  IN [i \in DOMAIN sorted |-> Defines[text[sorted[i]]]]

\* heuristicFunctions: what each definition spans, the last line included.
HeuristicRaws(text) ==
  {[name |-> QualifiedName(text, d), start |-> d - 1, last |-> BlockEnd(text, d) - 1] :
     d \in Definitions(text)}

\* symbolsToRaw: the functions of a symbol and of those below it, called by the named
\* symbols around them; a symbol without a name only passes its container on.
RECURSIVE Visit(_, _)
Visit(symbol, container) ==
  LET name == IF symbol.name = NoName THEN container ELSE Append(container, symbol.name)
      own == IF symbol.isFunction /\ symbol.name # NoName
             THEN {[name |-> name, start |-> symbol.start, last |-> symbol.last]} ELSE {}
  IN own \cup UNION {Visit(child, name) : child \in symbol.children}

SymbolsToRaw(roots) == UNION {Visit(root, <<>>) : root \in roots}

\* A syntax node as its grammar's family describes it: the name it has as a function or
\* as a container (a sequence, since it may carry its class; <<>> if it has none), and
\* the rows of what a record of it spans, such as a declaration around it.
Node(name, isFunction, start, endRow, endColumn, children) ==
  [name |-> name, isFunction |-> isFunction, start |-> start, endRow |-> endRow,
   endColumn |-> endColumn, children |-> children]

\* endRow: the end is exclusive; at column 0 the node ends on the row before.
EndRow(node) == IF node.endColumn = 0 /\ node.endRow > node.start THEN node.endRow - 1 ELSE node.endRow

\* extractFunctions: the named functions of a syntax tree, called by the named functions
\* and containers around them; the innermost container's name is not said twice.
RECURSIVE FunctionsBelow(_, _)
FunctionsBelow(node, parts) ==
  LET carries == parts # <<>> /\ IsStrictPrefix(Last(parts), node.name)
      name == FlattenSeq(IF carries THEN Front(parts) ELSE parts) \o node.name
      own == IF node.isFunction /\ node.name # <<>>
             THEN {[name |-> name, start |-> node.start, last |-> EndRow(node)]} ELSE {}
      inner == IF node.name = <<>> THEN parts ELSE Append(parts, node.name)
  IN own \cup UNION {FunctionsBelow(child, inner) : child \in node.children}

ExtractFunctions(root) == FunctionsBelow(root, <<>>)

\* expandToFullLines: an end before the start or behind the text is moved into it.
Expanded(raw, size) ==
  [name |-> raw.name, start |-> raw.start, end |-> Min({Max({raw.start, raw.last}), size - 1}) + 1]

\* buildFunctionMap: what starts outside the text is dropped, the rest is put in file
\* order, outer before inner; the ordinal tells namesakes apart.
FunctionMap(text, raws) ==
  LET size == Len(text) + 1   \* the empty one after the last newline too
      cleaned == {Expanded(raw, size) : raw \in {r \in raws : r.start >= 0 /\ r.start < size}}
      Earlier(r, s) == r.start < s.start \/ (r.start = s.start /\ r.end > s.end)
      sorted == SetToSortSeq(cleaned, Earlier)
  IN [i \in DOMAIN sorted |->
        [name |-> sorted[i].name, start |-> sorted[i].start, end |-> sorted[i].end,
         ordinal |-> Cardinality({j \in 1 .. i : sorted[j].name = sorted[i].name})]]

\* The order of asking: the functions among a provider's symbols; the parser's, or none
\* when it read the text without error; else the heuristics.  None: no answer.
Outline(text, symbols, parsed, None) ==
  LET reported == IF symbols = None THEN {} ELSE SymbolsToRaw(symbols)
      raws == IF reported # {} THEN reported
              ELSE IF parsed # None /\ (parsed.functions # {} \/ ~parsed.hasError)
              THEN parsed.functions
              ELSE HeuristicRaws(text)
  IN IF \A i \in DOMAIN text : text[i] = Blank THEN <<>> ELSE FunctionMap(text, raws)

Inside(r, s) == s.start <= r.start /\ r.end <= s.end /\ r.end - r.start < s.end - s.start

\* The records that hold no other, without those that overlap the one before.
Leaves(map, lineCount) ==
  LET within == SelectSeq(map, LAMBDA r : r.start < lineCount)
      clipped == [i \in DOMAIN within |-> [within[i] EXCEPT !.end = Min({@, lineCount})]]
      leaf == SelectSeq(clipped, LAMBDA r : \A i \in DOMAIN clipped : ~Inside(clipped[i], r))
  IN FoldLeft(LAMBDA kept, r : IF kept # <<>> /\ r.start < Last(kept).end THEN kept ELSE Append(kept, r),
              <<>>, leaf)

\* Where a block outside the leaves stands: the innermost record around it.
EnclosingName(map, line) ==
  LET around == {r \in Range(map) : r.start <= line /\ line < r.end}
  IN IF around = {} THEN NoName
     ELSE (CHOOSE r \in around : \A s \in around : r.end - r.start <= s.end - s.start).name

-----------------------------------------------------------------------------
(* The hunks.                                                              *)

\* Longest common subsequence, as pairs of indices, in order.
Pairs(a, b) ==
  LET n == Len(a)
      m == Len(b)
      longest[i \in 1 .. n + 1, j \in 1 .. m + 1] ==
        IF i > n \/ j > m THEN 0
        ELSE IF a[i] = b[j] THEN longest[i + 1, j + 1] + 1
        ELSE Max({longest[i + 1, j], longest[i, j + 1]})
      from[i \in 1 .. n + 1, j \in 1 .. m + 1] ==
        IF i > n \/ j > m THEN <<>>
        ELSE IF a[i] = b[j] THEN <<<<i, j>>>> \o from[i + 1, j + 1]
        ELSE IF longest[i + 1, j] >= longest[i, j + 1] THEN from[i + 1, j] ELSE from[i, j + 1]
  IN from[1, 1]

Hunk(name, b, e, c, d) == [name |-> name, bStart |-> b, bEnd |-> e, aStart |-> c, aEnd |-> d]

\* gapHunks: the line diff of two gaps, one hunk for each block between common lines.
GapHunks(before, after, bGap, aGap, map) ==
  LET pairs == Pairs(Part(before, bGap.start, bGap.end), Part(after, aGap.start, aGap.end))
      B(k) == IF k = 0 THEN bGap.start ELSE bGap.start + pairs[k][1]
      A(k) == IF k = 0 THEN aGap.start ELSE aGap.start + pairs[k][2]
      BStop(k) == IF k = Len(pairs) THEN bGap.end ELSE bGap.start + pairs[k + 1][1] - 1
      AStop(k) == IF k = Len(pairs) THEN aGap.end ELSE aGap.start + pairs[k + 1][2] - 1
      block(k) == Hunk(IF AStop(k) > A(k) THEN EnclosingName(map, A(k)) ELSE NoName,
                       B(k), BStop(k), A(k), AStop(k))
  IN SelectSeq([k \in 1 .. Len(pairs) + 1 |-> block(k - 1)],
               LAMBDA h : h.bEnd > h.bStart \/ h.aEnd > h.aStart)

\* The lines between two matched leaves: gaps and, after each but the last, a leaf.
\* A side that runs out has an empty gap where it ended.
Gap(leaves, g, cursor, stop) ==
  LET start == IF g = 1 \/ leaves = <<>> THEN cursor ELSE leaves[Min({g - 1, Len(leaves)})].end
      end == IF g <= Len(leaves) THEN leaves[g].start ELSE stop
      gap == [start |-> start, end |-> Max({start, end})]
  IN IF g <= Len(leaves) + 1 THEN gap ELSE [start |-> gap.end, end |-> gap.end]

RegionHunks(before, after, bs, as, bCursor, aCursor, bStop, aStop, map) ==
  LET bGap(g) == Gap(bs, g, bCursor, bStop)
      aGap(g) == Gap(as, g, aCursor, aStop)
      removed(g) == IF g > Len(bs) THEN <<>>
        ELSE <<Hunk(bs[g].name, bs[g].start, bs[g].end, aGap(g).end, aGap(g).end)>>
      bPos(g) == IF g > Len(bs) THEN bGap(g).end ELSE bs[g].end
      added(g) == IF g > Len(as) THEN <<>>
        ELSE <<Hunk(as[g].name, bPos(g), bPos(g), as[g].start, as[g].end)>>
  IN FlattenSeq([g \in 1 .. Max({Len(bs), Len(as)}) + 1 |->
       GapHunks(before, after, bGap(g), aGap(g), map) \o removed(g) \o added(g)])

Modified(before, after, b, a) ==
  IF Part(before, b.start, b.end) = Part(after, a.start, a.end) THEN <<>>
  ELSE <<Hunk(a.name, b.start, b.end, a.start, a.end)>>

\* computeHunks: the leaves are matched by name and ordinal; between two matched
\* leaves lies a region.  hints: the map that names what lies outside the leaves.
ComputeHunks(before, after, bMap, aMap, hints) ==
  LET bs == Leaves(bMap, Len(before))
      as == Leaves(aMap, Len(after))
      Id(leaf) == <<leaf.name, leaf.ordinal>>
      pairs == Pairs([i \in DOMAIN bs |-> Id(bs[i])], [i \in DOMAIN as |-> Id(as[i])])
      last == Len(pairs)
      B(k) == IF k = 0 THEN 0 ELSE pairs[k][1]
      A(k) == IF k = 0 THEN 0 ELSE pairs[k][2]
      BNext(k) == IF k = last THEN Len(bs) + 1 ELSE B(k + 1)
      ANext(k) == IF k = last THEN Len(as) + 1 ELSE A(k + 1)
      region(k) ==
        RegionHunks(before, after, Part(bs, B(k), BNext(k) - 1), Part(as, A(k), ANext(k) - 1),
                    IF k = 0 THEN 0 ELSE bs[B(k)].end, IF k = 0 THEN 0 ELSE as[A(k)].end,
                    IF k = last THEN Len(before) ELSE bs[BNext(k)].start,
                    IF k = last THEN Len(after) ELSE as[ANext(k)].start, hints)
      matched(k) == IF k = 0 THEN <<>> ELSE Modified(before, after, bs[B(k)], as[A(k)])
  IN IF before = after THEN <<>>
     ELSE FlattenSeq([k \in 1 .. last + 1 |-> matched(k - 1) \o region(k - 1)])

\* A comment or a triple-quoted string that is open after a line.
OpenAfter(open, line, style) ==
  CASE open = "comment" -> IF line \in style.shuts THEN "nothing" ELSE open
    [] open = "string" -> IF line \in style.quotes THEN "nothing" ELSE open
    [] OTHER -> IF line \in style.opens THEN "comment"
                ELSE IF line \in style.quotes THEN "string" ELSE "nothing"

\* stripForTrivial: what is left without comments, all that stands between triple
\* quotes, and space, line breaks included.
Stripped(text, style) ==
  LET step(w, line) ==
        [open |-> OpenAfter(w.open, line, style),
         out |-> IF w.open # "nothing" \/ line \in style.notes \cup style.opens THEN w.out
                 ELSE w.out \o Signs[line]]
  IN FoldLeft(step, [open |-> "nothing", out |-> <<>>], text).out

BeforeText(before, h) == Part(before, h.bStart, h.bEnd)

AfterText(after, h) == Part(after, h.aStart, h.aEnd)

\* Fault: the same lines, whatever their order.
SameLines(before, after, h, style) ==
  ToSet(Stripped(BeforeText(before, h), style)) = ToSet(Stripped(AfterText(after, h), style))

\* isTrivialChange: judged on the hunk's own text.
IsTrivial(before, after, h, style) ==
  Stripped(BeforeText(before, h), style) = Stripped(AfterText(after, h), style)

-----------------------------------------------------------------------------
(* reconstruct.                                                            *)

Spliced(text, at, len, lines) == Part(text, 0, at) \o lines \o Part(text, at + len, Len(text))

\* Fault: bottom up, but of those at the same line the earlier one first.
TiesTopDown(hunks, rejected) ==
  SetToSortSeq(rejected, LAMBDA i, j : \/ hunks[i].aStart > hunks[j].aStart
                                       \/ hunks[i].aStart = hunks[j].aStart /\ i < j)

\* Bottom up; of those at the same line the later one first.
BottomUp(hunks, rejected) ==
  SetToSortSeq(rejected, LAMBDA i, j : \/ hunks[i].aStart > hunks[j].aStart
                                       \/ hunks[i].aStart = hunks[j].aStart /\ i > j)

Reconstruct(before, after, hunks, rejected) ==
  FoldLeft(LAMBDA text, i :
             Spliced(text, hunks[i].aStart, hunks[i].aEnd - hunks[i].aStart,
                     Part(before, hunks[i].bStart, hunks[i].bEnd)),
           after, BottomUp(hunks, rejected))

\* The other way round, for reference: the text before, with the accepted hunks'
\* lines in the place of theirs, from the first hunk to the last.
Merged(before, after, hunks, rejected) ==
  LET walk == FoldLeft(LAMBDA w, i :
                LET h == hunks[i]
                    mine == IF i \in rejected THEN Part(before, h.bStart, h.bEnd)
                                              ELSE Part(after, h.aStart, h.aEnd)
                IN [out |-> w.out \o Part(before, w.at, h.bStart) \o mine, at |-> h.bEnd],
              [out |-> <<>>, at |-> 0], [i \in DOMAIN hunks |-> i])
  IN walk.out \o Part(before, walk.at, Len(before))
=============================================================================
