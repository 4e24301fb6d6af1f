------------------------------- MODULE Edits -------------------------------
(***************************************************************************)
(* One change to one file, from the tool call to what lands: the call is   *)
(* played on the file (gate/pure/proposals.ts, applyPatch.ts), the change  *)
(* is cut into hunks along the outline of both texts (structure/index.ts), *)
(* the person decides them, the accepted part is written                   *)
(* (GateController.commitPartial) or the agent applies its call itself.    *)
(* An old_string stands for whole lines; line endings are not modelled.    *)
(***************************************************************************)
EXTENDS Differ

CONSTANTS Texts,            \* for each style: what a file can hold, and a call write
          EditLists,        \* the strings of edits
          Patches,          \* the bodies of update sections
          Symbols,          \* what a symbol provider may answer
          Trees(_),         \* the syntax trees the parser may make of a text
          BatchTrivial,     \* explainit.checkpoint.batchTrivialChanges
          None

VARIABLES style,            \* of the file's language
          disk,             \* the file's lines, or None
          stage,            \* idle, review, landed, left or applied
          call, before, after, hunks, rejected

vars == <<style, disk, stage, call, before, after, hunks, rejected>>

-----------------------------------------------------------------------------
(* parsePatch: the chunks of an update section, None when it is malformed. *)

Chunk(context) == [context |-> context, old |-> <<>>, new |-> <<>>, eof |-> FALSE]

EmptyChunk(c) == c.old = <<>> /\ c.new = <<>>

Grown(c, item) == [c EXCEPT
  !.old = IF item.op \in {"keep", "drop"} THEN Append(@, item.line) ELSE @,
  !.new = IF item.op \in {"keep", "add"} THEN Append(@, item.line) ELSE @]

ParseItem(chunks, item) ==
  IF chunks = None \/ item.op = "junk" THEN None
  ELSE LET fresh == chunks = <<>>
           empty == ~fresh /\ EmptyChunk(Last(chunks))
           closed == ~fresh /\ Last(chunks).eof
           mine == IF fresh THEN <<Chunk(None)>> ELSE chunks
       IN IF item.op = "@@" THEN IF empty THEN None ELSE Append(chunks, Chunk(item.line))
          ELSE IF closed THEN IF item = [op |-> "keep", line |-> Blank] THEN chunks ELSE None
          ELSE IF item.op = "eof" THEN IF fresh \/ empty THEN None
                                       ELSE [chunks EXCEPT ![Len(chunks)].eof = TRUE]
          ELSE [mine EXCEPT ![Len(mine)] = Grown(@, item)]

ParseUpdate(items) ==
  LET chunks == FoldLeft(ParseItem, <<>>, items)
  IN IF chunks = None \/ chunks = <<>> THEN None
     ELSE IF EmptyChunk(Last(chunks)) THEN None ELSE chunks

-----------------------------------------------------------------------------
(* applyUpdateChunks.                                                      *)

Fits(lines, pattern, i, loosely) ==
  \A p \in DOMAIN pattern :
    IF loosely THEN Trimmed[lines[i + p]] = Trimmed[pattern[p]] ELSE lines[i + p] = pattern[p]

\* The first place from start on, or None; exact places come before loose ones.
SeekSequence(lines, pattern, start, eof) ==
  LET last == Len(lines) - Len(pattern)
      places(loosely) == {i \in (IF eof THEN last ELSE start) .. last : Fits(lines, pattern, i, loosely)}
  IN IF pattern = <<>> THEN start
     ELSE IF last < 0 \/ places(TRUE) = {} THEN None
     ELSE IF places(FALSE) # {} THEN Min(places(FALSE)) ELSE Min(places(TRUE))

WithoutLastBlank(lines) == IF lines # <<>> /\ Last(lines) = Blank THEN Front(lines) ELSE lines

AfterContext(lines, c, index) ==
  IF c.context = None THEN index
  ELSE LET at == SeekSequence(lines, <<c.context>>, index, FALSE)
       IN IF at = None THEN None ELSE at + 1

\* Where each chunk goes; None when one is not found.  A pure insertion goes to the
\* end; a blank last line that is not found stands for the file's last newline.
Replacement(at, len, new) == [at |-> at, len |-> len, new |-> new]

Locate(lines, w, c) ==
  LET index == IF w = None THEN None ELSE AfterContext(lines, c, w.index)
      full == SeekSequence(lines, c.old, index, c.eof)
      short == WithoutLastBlank(c.old)
      again == SeekSequence(lines, short, index, c.eof)
      found(at, old, new) == [index |-> at + Len(old), places |-> Append(w.places, Replacement(at, Len(old), new))]
  IN IF index = None THEN None
     ELSE IF c.old = <<>>
     THEN [index |-> index,
           places |-> Append(w.places, Replacement(Len(WithoutLastBlank(lines)), 0, c.new))]
     ELSE IF full # None THEN found(full, c.old, c.new)
     ELSE IF Last(c.old) = Blank /\ again # None THEN found(again, short, WithoutLastBlank(c.new))
     ELSE None

Replaced(lines, r) ==
  LET at == Min({r.at, Len(lines)})
  IN Spliced(lines, at, Min({r.len, Len(lines) - at}), r.new)

\* Fault: replaced in the order of the file, each at the place it had.
FromTheTop(lines, places) ==
  FoldLeft(Replaced, lines, SortSeq(places, LAMBDA r, s : r.at < s.at))

\* From the bottom up; of those at one place the last one first.
FromTheBottom(lines, places) ==
  LET order == SetToSortSeq(DOMAIN places, LAMBDA i, j :
                 places[i].at < places[j].at \/ (places[i].at = places[j].at /\ i < j))
  IN FoldRight(LAMBDA i, text : Replaced(text, places[i]), order, lines)

\* A blank last line counts as the text's last newline.
ApplyUpdateChunks(lines, chunks) ==
  LET w == FoldLeft(LAMBDA v, c : Locate(lines, v, c), [index |-> 0, places |-> <<>>], chunks)
  IN IF w = None THEN None ELSE WithoutLastBlank(FromTheBottom(lines, w.places))

-----------------------------------------------------------------------------
(* buildClaudeWrites, buildPatchWrites.                                    *)

\* The places countOccurrences counts: from the left, none inside another.
Occurrences(lines, old) ==
  LET from[i \in 0 .. Len(lines) + 1] ==
        IF i + Len(old) > Len(lines) THEN <<>>
        ELSE IF Fits(lines, old, i, FALSE) THEN <<i>> \o from[i + Len(old)] ELSE from[i + 1]
  IN from[0]

ApplyEdit(lines, edit) ==
  LET places == Occurrences(lines, edit.old)
  IN IF edit.old = <<>> THEN IF lines = <<>> THEN edit.new ELSE None
     ELSE IF places = <<>> \/ (Len(places) > 1 /\ ~edit.all) THEN None
     ELSE FoldRight(LAMBDA at, text : Spliced(text, at, Len(edit.old), edit.new), places, lines)

ApplyEdits(lines, edits) ==
  FoldLeft(LAMBDA text, edit : IF text = None THEN None ELSE ApplyEdit(text, edit), lines, edits)

\* What the file would hold: [text |-> lines, None for a deletion]; None: no proposal.
\* Add File is played like Write, and Edit like MultiEdit.
Proposed(tool, file) ==
  LET of(text) == IF text = None THEN None ELSE [text |-> text]
      was == IF file = None THEN <<>> ELSE file
  IN CASE tool.name = "Write" -> [text |-> tool.content]
       [] tool.name = "MultiEdit" -> IF file = None /\ tool.edits[1].old # <<>> THEN None
                                     ELSE of(ApplyEdits(was, tool.edits))
       [] tool.name = "Delete File" -> IF file = None THEN None ELSE [text |-> None]
       [] tool.name = "Update File" ->
            LET chunks == ParseUpdate(tool.items)
            IN IF chunks = None \/ file = None THEN None ELSE of(ApplyUpdateChunks(file, chunks))

-----------------------------------------------------------------------------
(* The review of one call.                                                 *)

Content(file) == IF file = None THEN <<>> ELSE file

\* What fetch brings back; None when no provider answers in time or at all.
Fetched == Symbols \cup {None}

\* parseFunctions never fails: without the runtime, a grammar or an end in time the
\* next source has its turn.
ParseFunctions(text) ==
  {None} \cup {[functions |-> ExtractFunctions(t.root), hasError |-> t.hasError] : t \in Trees(text)}

\* getFunctionMapForText: a provider is asked through a copy of the text, if at all.
MapForText(text) == {Outline(text, s, p, None) : s \in Fetched, p \in ParseFunctions(text)}

\* functionMap: an empty text has no map, and neither has one whose outline failed.
Maps(text) ==
  {None} \cup IF text = <<>> THEN {} ELSE MapForText(text)

HunksOf(b, a, bMap, aMap) ==
  ComputeHunks(b, a, IF bMap = None THEN <<>> ELSE bMap, IF aMap = None THEN <<>> ELSE aMap,
               IF aMap # None THEN aMap ELSE IF bMap # None THEN bMap ELSE <<>>)

Tools ==
  [name : {"Write"}, content : Texts[style]]
    \cup [name : {"Delete File"}]
    \cup [name : {"MultiEdit"}, edits : EditLists]
    \cup [name : {"Update File"}, items : Patches[style]]

\* A call that cannot be played, or changes nothing, is left to the agent.
Propose(tool) ==
  LET result == Proposed(tool, disk)
  IN /\ call' = tool
     /\ IF result = None
        THEN stage' = "left" /\ UNCHANGED <<before, after, hunks>>
        ELSE /\ before' = disk /\ after' = result.text
             /\ \E bMap \in Maps(Content(disk)), aMap \in Maps(Content(result.text)) :
                  hunks' = HunksOf(Content(disk), Content(result.text), bMap, aMap)
             /\ stage' = IF hunks' = <<>> THEN "left" ELSE "review"
     /\ UNCHANGED <<style, disk, rejected>>

\* Somebody else writes the file during the review.
Touch(text) ==
  /\ stage = "review" /\ text # disk
  /\ disk' = text
  /\ UNCHANGED <<style, stage, call, before, after, hunks, rejected>>

Trivial == {i \in DOMAIN hunks : IsTrivial(Content(before), Content(after), hunks[i], style)}

\* The hunks of one card are decided together: with batchTrivial the trivial ones are.
Votes ==
  {r \in SUBSET DOMAIN hunks : BatchTrivial => Trivial \subseteq r \/ Trivial \cap r = {}}

\* Everything accepted: the agent plays its call on the file as it is by then.
AcceptAll ==
  LET result == Proposed(call, disk)
  IN /\ stage = "review"
     /\ disk' = IF result = None THEN disk ELSE result.text
     /\ stage' = "applied"
     /\ UNCHANGED <<style, call, before, after, hunks, rejected>>

\* commitPartial: nothing of this file accepted, or the file moved on: not written.
\* All of it is accepted when another file of the same call was rejected in part.
DecidePart(r) ==
  /\ stage = "review" /\ r \in Votes
  /\ rejected' = r
  /\ IF r = DOMAIN hunks \/ disk # before
     THEN stage' = "left" /\ UNCHANGED disk
     ELSE /\ stage' = "landed"
          /\ disk' = IF after = None /\ r = {} THEN None
                     ELSE Reconstruct(Content(before), Content(after), hunks, r)
  /\ UNCHANGED <<style, call, before, after, hunks>>

Init ==
  /\ style \in Styles /\ disk \in Texts[style] \cup {None}
  /\ stage = "idle"
  /\ call = None /\ before = None /\ after = None /\ hunks = <<>> /\ rejected = {}

Next ==
  \/ stage = "idle" /\ \E tool \in Tools : Propose(tool)
  \/ Touch(<<>>)
  \/ AcceptAll
  \/ \E r \in SUBSET DOMAIN hunks : DecidePart(r)

Spec == Init /\ [][Next]_vars

-----------------------------------------------------------------------------
(* Properties.                                                             *)

\* What a partial decision writes is the file as it was with exactly the accepted
\* hunks' lines in place of theirs, whatever the outlines were: splicing the rejected
\* hunks back from the bottom up neither loses nor moves a line.
MergeIsExact ==
  stage = "landed" =>
    Content(disk) = Merged(Content(before), Content(after), hunks, rejected)

\* What the language runs: the signs outside comments, and line by line the
\* triple-quoted strings that are values; one alone on its line is a docstring.
WhatRuns(text) ==
  LET open[i \in 0 .. Len(text)] ==
        IF i = 0 THEN "nothing" ELSE OpenAfter(open[i - 1], text[i], style)
      isValue[i \in 0 .. Len(text)] ==
        /\ i > 0
        /\ open[i] = "string"
        /\ IF open[i - 1] = "string" THEN isValue[i - 1] ELSE Signs[text[i]] # <<>>
      runs(i) == CASE open[i - 1] = "comment" -> <<>>
                   [] open[i - 1] = "string" -> IF isValue[i - 1] THEN <<text[i]>> ELSE <<>>
                   [] OTHER -> IF text[i] \in style.notes \cup style.opens THEN <<>> ELSE Signs[text[i]]
  IN FlattenSeq([i \in DOMAIN text |-> runs(i)])

LeftOpen(text) == FoldLeft(LAMBDA open, line : OpenAfter(open, line, style), "nothing", text)

\* What judging a hunk by itself cannot see or does not look at: the comment or string
\* that it stands in, the one that it opens or closes for the lines after it, and a
\* triple-quoted value.
Misjudged(h) ==
  LET old == BeforeText(Content(before), h)
      new == AfterText(Content(after), h)
      hasValue(lines) == \E line \in Range(lines) : line \in style.quotes /\ Signs[line] # <<>>
  IN \/ LeftOpen(Part(Content(before), 0, h.bStart)) # "nothing"
     \/ LeftOpen(old) # LeftOpen(new)
     \/ hasValue(old) \/ hasValue(new)

\* Accepting trivial hunks alone, in part or all of them, leaves what runs as it was,
\* but for the space between its signs, unless one of them is misjudged: the hunks are
\* judged one by one, and together with those that were rejected they make one text.
TrivialKeepsCode ==
  LET accepted == DOMAIN hunks \ rejected
  IN /\ stage = "landed" \/ (stage = "applied" /\ disk = after)
     /\ accepted \subseteq Trivial
     /\ \A i \in accepted : ~Misjudged(hunks[i])
     => WhatRuns(Content(disk)) = WhatRuns(Content(before))

\* The places where the chunks of a patch fit one after the other.
Placements(lines, chunks) ==
  {p \in [DOMAIN chunks -> 0 .. Len(lines)] :
     \A i \in DOMAIN chunks :
       /\ p[i] + Len(chunks[i].old) <= Len(lines)
       /\ Fits(lines, chunks[i].old, p[i], TRUE)
       /\ i > 1 => p[i - 1] + Len(chunks[i - 1].old) <= p[i]}

\* A patch without anchors (@@ lines, End of File) whose chunks, each with old lines,
\* fit in one way only proposes what it says there: in each place the new lines for the old, every other line kept.  The
\* text may lose a blank last line.
PatchIsPlayedWhereItFits ==
  stage # "idle" /\ call.name = "Update File" /\ before # None =>
    LET chunks == ParseUpdate(call.items)
    IN chunks # None =>
         LET places == Placements(before, chunks)
             p == CHOOSE q \in places : TRUE
             walk == FoldLeft(LAMBDA w, i :
                       [out |-> w.out \o Part(before, w.at, p[i]) \o chunks[i].new,
                        at |-> p[i] + Len(chunks[i].old)],
                     [out |-> <<>>, at |-> 0], [i \in DOMAIN chunks |-> i])
             meant == walk.out \o Part(before, walk.at, Len(before))
         IN /\ Cardinality(places) = 1
            /\ \A i \in DOMAIN chunks :
                 chunks[i].context = None /\ ~chunks[i].eof /\ chunks[i].old # <<>>
            => after = WithoutLastBlank(meant)
=============================================================================
