--------------------------- MODULE ProjectsProofs ---------------------------
(***************************************************************************)
(* Proofs about Projects and Backfill, for every number of folders, files, *)
(* preparations under way, calls and edits: the person's files stay        *)
(* theirs, the exclude list stays whole, and the backfill's progress files *)
(* tell what is left.                                                      *)
(***************************************************************************)
EXTENDS Backfill, WellFoundedInduction, SequenceTheorems, FiniteSetTheorems, TLAPS

-----------------------------------------------------------------------------
(* The person's lines in a text.                                           *)

\* Where the person's lines are.
Places(lines) == {i \in DOMAIN lines : lines[i] = "text"}

\* A text holds finitely many of them.
LEMMA PlacesFinite ==
  ASSUME NEW lines \in Seq(Lines)
  PROVE  /\ IsFiniteSet(Places(lines)) /\ Cardinality(Places(lines)) \in Nat
         /\ TextIn(lines) = Cardinality(Places(lines))
  <1>1. Len(lines) \in Nat /\ DOMAIN lines = 1..Len(lines)
    OBVIOUS
  <1>2. IsFiniteSet(1..Len(lines))
    BY <1>1, FS_Interval
  <1>3. Places(lines) \in SUBSET (1..Len(lines))
    BY <1>1 DEF Places
  <1>4. IsFiniteSet(Places(lines))
    BY <1>2, <1>3, FS_Subset
  <1>5. lines # None
    BY ListsAssumption
  <1> QED BY <1>4, <1>5, FS_CardinalityType DEF TextIn, Places

\* The lines of two texts one after the other add up.
LEMMA TextInConcat ==
  ASSUME NEW a \in Seq(Lines), NEW b \in Seq(Lines)
  PROVE  TextIn(a \o b) = TextIn(a) + TextIn(b)
  <1> DEFINE n == Len(a)
             Moved == {n + i : i \in Places(b)}
             f == [i \in Places(b) |-> n + i]
  <1>1. /\ a \o b \in Seq(Lines) /\ n \in Nat /\ Len(b) \in Nat
        /\ DOMAIN a = 1..n /\ DOMAIN b = 1..Len(b) /\ DOMAIN (a \o b) = 1..(n + Len(b))
        /\ \A i \in 1..(n + Len(b)) : (a \o b)[i] = IF i <= n THEN a[i] ELSE b[i - n]
    BY ConcatProperties
  <1>2. Places(b) \subseteq 1..Len(b) /\ Places(a) \subseteq 1..n
    BY <1>1 DEF Places
  <1>3. ExistsBijection(Places(b), Moved)
    <2>1. f \in [Places(b) -> Moved]
      OBVIOUS
    <2>2. \A i, k \in Places(b) : f[i] = f[k] => i = k
      BY <1>1, <1>2
    <2>3. \A m \in Moved : \E i \in Places(b) : f[i] = m
      OBVIOUS
    <2> HIDE DEF f, Moved
    <2>4. f \in Bijection(Places(b), Moved)
      BY <2>1, <2>2, <2>3 DEF Bijection, Injection, Surjection, IsInjective
    <2> QED BY <2>4 DEF ExistsBijection
  <1>4. IsFiniteSet(Moved) /\ Cardinality(Moved) = Cardinality(Places(b))
    BY <1>3, PlacesFinite, FS_Bijection
  <1>5. Places(a \o b) = Places(a) \cup Moved
    <2>1. ASSUME NEW i \in Places(a \o b) PROVE i \in Places(a) \cup Moved
      <3>1. i \in 1..(n + Len(b)) /\ (a \o b)[i] = "text"
        BY <1>1 DEF Places
      <3>2. CASE i <= n
        BY <1>1, <3>1, <3>2 DEF Places
      <3>3. CASE i > n
        <4>1. i - n \in 1..Len(b) /\ i = n + (i - n)
          BY <1>1, <3>1, <3>3
        <4>2. b[i - n] = "text"
          BY <1>1, <3>1, <3>3
        <4>3. i - n \in Places(b)
          BY <1>1, <4>1, <4>2 DEF Places
        <4> QED BY <4>1, <4>3
      <3> QED BY <1>1, <3>1, <3>2, <3>3
    <2>2. Places(a) \subseteq Places(a \o b)
      BY <1>1 DEF Places
    <2>3. ASSUME NEW i \in Places(b) PROVE n + i \in Places(a \o b)
      <3>1. i \in 1..Len(b) /\ b[i] = "text"
        BY <1>1 DEF Places
      <3>2. n + i \in 1..(n + Len(b)) /\ ~(n + i <= n) /\ (n + i) - n = i
        BY <1>1, <3>1
      <3> HIDE DEF n
      <3>3. (a \o b)[n + i] = "text"
        BY <1>1, <3>1, <3>2
      <3> QED BY <1>1, <3>2, <3>3 DEF Places
    <2> QED BY <2>1, <2>2, <2>3
  <1>6. Places(a) \cap Moved = {}
    BY <1>1, <1>2
  <1> HIDE DEF Moved, n
  <1>7. Cardinality(Places(a \o b)) = Cardinality(Places(a)) + Cardinality(Places(b))
    <2>1. IsFiniteSet(Places(a)) /\ Cardinality(Places(a)) \in Nat
      BY PlacesFinite
    <2>2. Cardinality(Places(b)) \in Nat
      BY PlacesFinite
    <2>3. Cardinality(Places(a) \cup Moved)
            = Cardinality(Places(a)) + Cardinality(Moved) - Cardinality(Places(a) \cap Moved)
      BY <1>4, <2>1, FS_Union
    <2>4. Cardinality(Places(a) \cap Moved) = 0
      BY <1>6, FS_EmptySet
    <2> QED BY <1>4, <1>5, <2>1, <2>2, <2>3, <2>4
  <1> QED BY <1>1, <1>7, PlacesFinite

\* A text without a line of the person's.
LEMMA TextInNone ==
  ASSUME NEW lines \in Seq(Lines), \A i \in DOMAIN lines : lines[i] # "text"
  PROVE  TextIn(lines) = 0
  <1>1. Places(lines) = {}
    BY DEF Places
  <1> QED BY <1>1, PlacesFinite, FS_EmptySet

\* A line of the person's.
LEMMA TextInOne == <<"text">> \in Seq(Lines) /\ TextIn(<<"text">>) = 1
  <1>1. <<"text">> \in Seq(Lines)
    BY DEF Lines
  <1>2. Places(<<"text">>) = {1}
    BY DEF Places
  <1> QED BY <1>1, <1>2, PlacesFinite, FS_Singleton

-----------------------------------------------------------------------------
(* upsertSection().                                                        *)

\* The first line with a mark, from a place on.
LEMMA FirstIs ==
  ASSUME NEW lines \in Seq(Lines), NEW mark, NEW from \in Nat \ {0}
  PROVE  /\ (\A i \in from..Len(lines) : lines[i] # mark) => First(lines, mark, from) = 0
         /\ \A k \in from..Len(lines) :
              lines[k] = mark /\ (\A i \in from..(k - 1) : lines[i] # mark)
                => First(lines, mark, from) = k
  <1> DEFINE I == {i \in from..Len(lines) : lines[i] = mark}
  <1>1. First(lines, mark, from) = IF I # {} THEN Min(I) ELSE 0
    BY DEF First, SelectInSubSeq
  <1>2. ASSUME NEW k \in from..Len(lines), lines[k] = mark,
               \A i \in from..(k - 1) : lines[i] # mark
        PROVE  First(lines, mark, from) = k
    <2>1. k \in I /\ \A i \in I : k <= i
      BY <1>2
    <2>2. \A x \in I : (\A y \in I : x <= y) => x = k
      BY <2>1
    <2> HIDE DEF I
    <2>3. Min(I) = k
      BY <2>1, <2>2 DEF Min
    <2> QED BY <1>1, <2>1, <2>3
  <1>3. (\A i \in from..Len(lines) : lines[i] # mark) => I = {}
    OBVIOUS
  <1> QED BY <1>1, <1>2, <1>3

LEMMA SectionIs ==
  /\ Section \in Seq(Lines) /\ Len(Section) = 3 /\ TextIn(Section) = 0
  /\ Section[1] = "start" /\ Section[2] = "body" /\ Section[3] = "end"
  <1>1. /\ Section \in Seq(Lines) /\ Len(Section) = 3
        /\ Section[1] = "start" /\ Section[2] = "body" /\ Section[3] = "end"
    BY DEF Section, Lines
  <1>2. \A i \in DOMAIN Section : Section[i] # "text"
    BY DEF Section
  <1> QED BY <1>1, <1>2, TextInNone
\* The section after a text.
LEMMA ThenSection ==
  ASSUME NEW a \in Seq(Lines)
  PROVE  /\ a \o Section \in Seq(Lines) /\ Len(a \o Section) = Len(a) + 3
         /\ \A i \in 1..Len(a) : (a \o Section)[i] = a[i]
         /\ (a \o Section)[Len(a) + 1] = "start"
         /\ (a \o Section)[Len(a) + 2] = "body"
         /\ (a \o Section)[Len(a) + 3] = "end"
  <1>1. /\ a \o Section \in Seq(Lines) /\ Len(a \o Section) = Len(a) + Len(Section)
        /\ \A i \in 1..Len(a) + Len(Section) :
             (a \o Section)[i] = IF i <= Len(a) THEN a[i] ELSE Section[i - Len(a)]
    BY SectionIs, ConcatProperties
  <1> DEFINE n == Len(a)
             new == a \o Section
  <1>2. n \in Nat /\ Len(Section) = 3
    BY SectionIs
  <1> HIDE DEF n, new
  <1>3. \A i \in 1..(n + 3) : new[i] = IF i <= n THEN a[i] ELSE Section[i - n]
    BY <1>1, <1>2 DEF n, new
  <1>4. \A i \in 1..n : i \in 1..(n + 3) /\ i <= n
    BY <1>2
  <1>5. /\ n + 1 \in 1..(n + 3) /\ ~(n + 1 <= n) /\ (n + 1) - n = 1
        /\ n + 2 \in 1..(n + 3) /\ ~(n + 2 <= n) /\ (n + 2) - n = 2
        /\ n + 3 \in 1..(n + 3) /\ ~(n + 3 <= n) /\ (n + 3) - n = 3
    BY <1>2
  <1>6. \A i \in 1..n : new[i] = a[i]
    BY <1>3, <1>4
  <1>7. new[n + 1] = "start" /\ new[n + 2] = "body" /\ new[n + 3] = "end"
    BY <1>3, <1>5, SectionIs
  <1> QED BY <1>1, <1>2, <1>6, <1>7 DEF n, new

\* The first lines of a text that another follows.
LEMMA FrontStays ==
  ASSUME NEW a \in Seq(Lines), NEW b \in Seq(Lines)
  PROVE  /\ a \o b \in Seq(Lines) /\ Len(a) <= Len(a \o b)
         /\ \A i \in 1..Len(a) : (a \o b)[i] = a[i]
  <1>1. /\ a \o b \in Seq(Lines) /\ Len(a \o b) = Len(a) + Len(b)
        /\ \A i \in 1..Len(a) + Len(b) :
             (a \o b)[i] = IF i <= Len(a) THEN a[i] ELSE b[i - Len(a)]
    BY ConcatProperties
  <1>2. Len(a) \in Nat /\ Len(b) \in Nat
    OBVIOUS
  <1> QED BY <1>1, <1>2

\* A text whose first section is the one that is written now.
LEMMA SectionStands ==
  ASSUME NEW new \in Seq(Lines), NEW s \in Nat \ {0}, s + 2 <= Len(new),
         new[s] = "start", new[s + 1] = "body", new[s + 2] = "end",
         \A i \in 1..(s - 1) : new[i] # "start"
  PROVE  WellMarked(new) /\ new # <<>>
  <1>1. s \in DOMAIN new /\ s + 2 \in DOMAIN new
    OBVIOUS
  <1>2. \A i \in (s + 1)..(s + 2 - 1) : i = s + 1
    OBVIOUS
  <1>3. SectionAt(new, s, s + 2)
    BY <1>2 DEF SectionAt
  <1>4. new # <<>>
    BY <1>1
  <1> QED BY <1>1, <1>3, <1>4 DEF WellMarked

\* What a complete section in front is replaced by.
LEMMA Replaced ==
  ASSUME NEW lines \in Seq(Lines), NEW s \in DOMAIN lines, NEW e \in DOMAIN lines,
         SectionAt(lines, s, e)
  PROVE  /\ Upserted(lines) = SubSeq(lines, 1, s - 1) \o Section \o SubSeq(lines, e + 1, Len(lines))
         /\ WellMarked(Upserted(lines)) /\ Upserted(lines) # <<>>
         /\ TextIn(Upserted(lines)) = TextIn(lines)
  <1> DEFINE before == SubSeq(lines, 1, s - 1)
             inner == SubSeq(lines, s, e)
             after == SubSeq(lines, e + 1, Len(lines))
             new == before \o Section \o after
  <1>1. /\ Len(lines) \in Nat /\ DOMAIN lines = 1..Len(lines) /\ s \in 1..Len(lines) /\ e \in 1..Len(lines)
        /\ s < e /\ lines[s] = "start" /\ lines[e] = "end"
        /\ \A i \in 1..(s - 1) : lines[i] # "start"
        /\ \A i \in (s + 1)..(e - 1) : lines[i] # "end" /\ lines[i] # "text"
    BY DEF SectionAt
  <1>2. First(lines, "start", 1) = s
    BY <1>1, FirstIs
  <1>3. First(lines, "end", s + 1) = e
    <2>1. e \in (s + 1)..Len(lines) /\ s + 1 \in Nat \ {0}
      BY <1>1
    <2> QED BY <1>1, <2>1, FirstIs
  <1>4. Upserted(lines) = new
    <2>1. lines # <<>> /\ lines # None /\ s # 0 /\ e # 0
      BY <1>1, ListsAssumption
    <2> QED BY <1>2, <1>3, <2>1 DEF Upserted
  <1>5. /\ before \in Seq(Lines) /\ Len(before) = s - 1 /\ \A i \in 1..(s - 1) : before[i] = lines[i]
        /\ after \in Seq(Lines)
        /\ inner \in Seq(Lines) /\ Len(inner) = e - s + 1
        /\ \A i \in 1..(e - s + 1) : inner[i] = lines[s + i - 1]
    <2>1. \A i \in 1..Len(lines) : lines[i] \in Lines
      BY <1>1
    <2>2. /\ before \in Seq(Lines) /\ Len(before) = s - 1
          /\ \A i \in 1..(s - 1) : before[i] = lines[i]
      <3>1. /\ s - 1 \in Int /\ 1 \in Int /\ \A i \in 1..(s - 1) : lines[i] \in Lines
        BY <1>1, <2>1
      <3>2. /\ before \in Seq(Lines)
            /\ Len(before) = IF 1 <= s - 1 THEN s - 1 - 1 + 1 ELSE 0
            /\ \A i \in 1..(s - 1 - 1 + 1) : before[i] = lines[1 + i - 1]
        BY <3>1, SubSeqProperties
      <3> HIDE DEF before
      <3> QED BY <1>1, <3>2
    <2>3. after \in Seq(Lines)
      <3>1. e + 1 \in Int /\ Len(lines) \in Int /\ \A i \in (e + 1)..Len(lines) : lines[i] \in Lines
        BY <1>1, <2>1
      <3> QED BY <3>1, SubSeqProperties
    <2>4. /\ inner \in Seq(Lines) /\ Len(inner) = e - s + 1
          /\ \A i \in 1..(e - s + 1) : inner[i] = lines[s + i - 1]
      <3>1. s \in Int /\ e \in Int /\ s <= e /\ \A i \in s..e : lines[i] \in Lines
        BY <1>1, <2>1
      <3> QED BY <3>1, SubSeqProperties
    <2> QED BY <2>2, <2>3, <2>4
  <1>6. lines = before \o inner \o after
    <2>1. before \o inner = SubSeq(lines, 1, e)
      <3>1. /\ 1 \in 1..(Len(lines) + 1) /\ s - 1 \in (1 - 1)..Len(lines) /\ e \in (s - 1)..Len(lines)
            /\ (s - 1) + 1 = s
        BY <1>1
      <3>2. SubSeq(lines, 1, s - 1) \o SubSeq(lines, (s - 1) + 1, e) = SubSeq(lines, 1, e)
        BY <3>1, ConcatAdjacentSubSeq
      <3> QED BY <3>1, <3>2
    <2>2. SubSeq(lines, 1, e) \o after = SubSeq(lines, 1, Len(lines))
      <3>1. /\ 1 \in 1..(Len(lines) + 1) /\ e \in (1 - 1)..Len(lines) /\ Len(lines) \in e..Len(lines)
        BY <1>1
      <3> QED BY <3>1, ConcatAdjacentSubSeq
    <2> HIDE DEF before, inner, after
    <2> QED BY <2>1, <2>2, SubSeqFull
  <1> HIDE DEF before, inner, after
  <1>7. TextIn(inner) = 0
    <2>1. ASSUME NEW i \in DOMAIN inner PROVE inner[i] # "text"
      <3>1. i \in 1..(e - s + 1) /\ inner[i] = lines[s + i - 1]
        BY <1>5
      <3>2. s + i - 1 = s \/ s + i - 1 = e \/ s + i - 1 \in (s + 1)..(e - 1)
        BY <1>1, <3>1
      <3> QED BY <1>1, <3>1, <3>2
    <2> QED BY <1>5, <2>1, TextInNone
  <1>8. TextIn(new) = TextIn(lines)
    <2>1. before \o inner \in Seq(Lines) /\ before \o Section \in Seq(Lines)
      BY <1>5, SectionIs, ConcatProperties
    <2>2. TextIn(lines) = TextIn(before) + TextIn(inner) + TextIn(after)
      BY <1>5, <1>6, <2>1, TextInConcat
    <2>3. TextIn(new) = TextIn(before) + TextIn(Section) + TextIn(after)
      BY <1>5, <2>1, SectionIs, TextInConcat
    <2> QED BY <1>7, <2>2, <2>3, SectionIs
  <1>9. /\ new \in Seq(Lines) /\ s + 2 <= Len(new)
        /\ \A i \in 1..(s - 1) : new[i] # "start"
        /\ new[s] = "start" /\ new[s + 1] = "body" /\ new[s + 2] = "end"
    <2> DEFINE front == before \o Section
    <2>2. /\ front \in Seq(Lines) /\ Len(front) = s + 2
          /\ \A i \in 1..(s - 1) : front[i] = before[i]
          /\ front[s] = "start" /\ front[s + 1] = "body" /\ front[s + 2] = "end"
      <3> DEFINE k == Len(before)
      <3>1. /\ front \in Seq(Lines) /\ Len(front) = k + 3
            /\ \A i \in 1..k : front[i] = before[i]
            /\ front[k + 1] = "start" /\ front[k + 2] = "body" /\ front[k + 3] = "end"
        BY <1>5, ThenSection
      <3>2. k = s - 1
        BY <1>5
      <3> HIDE DEF k, front
      <3>3. k + 1 = s /\ k + 2 = s + 1 /\ k + 3 = s + 2
        BY <1>1, <3>2
      <3> QED BY <3>1, <3>2, <3>3
    <2> HIDE DEF front
    <2>3. /\ front \o after \in Seq(Lines) /\ s + 2 <= Len(front \o after)
          /\ \A i \in 1..(s + 2) : (front \o after)[i] = front[i]
      <3>1. /\ front \o after \in Seq(Lines) /\ Len(front) <= Len(front \o after)
            /\ \A i \in 1..Len(front) : (front \o after)[i] = front[i]
        BY <1>5, <2>2, FrontStays
      <3> QED BY <2>2, <3>1
    <2>4. new = front \o after
      BY DEF front
    <2> HIDE DEF new
    <2>5. /\ s \in 1..(s + 2) /\ s + 1 \in 1..(s + 2) /\ s + 2 \in 1..(s + 2)
          /\ \A i \in 1..(s - 1) : i \in 1..(s + 2)
      BY <1>1
    <2> QED BY <1>1, <1>5, <2>2, <2>3, <2>4, <2>5
  <1> HIDE DEF new
  <1>10. WellMarked(new) /\ new # <<>>
    <2>1. s \in Nat \ {0}
      BY <1>1
    <2> QED BY <1>9, <2>1, SectionStands
  <1> QED BY <1>4, <1>8, <1>10 DEF new, before, after

\* What is appended to a text without a section.
LEMMA Appended ==
  ASSUME NEW lines \in Seq(Lines), \A i \in DOMAIN lines : lines[i] # "start"
  PROVE  /\ WellMarked(lines \o Section) /\ lines \o Section # <<>>
         /\ TextIn(lines \o Section) = TextIn(lines)
         /\ Upserted(lines) = lines \o Section
  <1> DEFINE new == lines \o Section
             n == Len(lines)
  <1>1. /\ new \in Seq(Lines) /\ n \in Nat /\ Len(new) = n + 3
        /\ \A i \in 1..n : new[i] = lines[i]
        /\ new[n + 1] = "start" /\ new[n + 2] = "body" /\ new[n + 3] = "end"
    BY ThenSection
  <1>2. TextIn(new) = TextIn(lines)
    <2>1. TextIn(new) = TextIn(lines) + TextIn(Section) /\ TextIn(lines) \in Nat
      BY SectionIs, TextInConcat, PlacesFinite
    <2> HIDE DEF new
    <2> QED BY <2>1, SectionIs
  <1>3. Upserted(lines) = new
    <2>1. CASE lines = <<>>
      <3>1. new = Section
        BY <2>1, SectionIs, ConcatEmptySeq
      <3> QED BY <2>1, <3>1 DEF Upserted
    <2>2. CASE lines # <<>>
      <3>1. First(lines, "start", 1) = 0
        <4>1. \A i \in 1..Len(lines) : lines[i] # "start"
          OBVIOUS
        <4> QED BY <4>1, FirstIs
      <3>2. lines # None
        BY ListsAssumption
      <3> QED BY <2>2, <3>1, <3>2 DEF Upserted
    <2> QED BY <2>1, <2>2
  <1> HIDE DEF new
  <1>4. WellMarked(new) /\ new # <<>>
    <2>1. DOMAIN lines = 1..n
      OBVIOUS
    <2> HIDE DEF n
    <2>2. \A i \in 1..n : new[i] # "start"
      BY <1>1, <2>1
    <2>5. n + 1 \in Nat \ {0} /\ (n + 1) + 1 = n + 2 /\ (n + 1) + 2 = n + 3 /\ (n + 1) - 1 = n
      BY <1>1
    <2>6. (n + 1) + 2 <= Len(new)
      BY <1>1
    <2> QED BY <1>1, <2>2, <2>5, <2>6, SectionStands
  <1> QED BY <1>2, <1>3, <1>4 DEF new

\* upsertSection() keeps every line of the person's, and leaves a file that it can
\* update again.
LEMMA UpsertKeeps ==
  ASSUME NEW lines, lines = None \/ WellMarked(lines)
  PROVE  /\ WellMarked(Upserted(lines)) /\ Upserted(lines) # None
         /\ TextIn(Upserted(lines)) = TextIn(lines)
  <1>1. CASE lines = None
    <2>1. Upserted(lines) = Section
      BY <1>1 DEF Upserted
    <2>2. WellMarked(Section) /\ TextIn(Section) = 0
      <3>1. SectionAt(Section, 1, 3)
        BY SectionIs DEF SectionAt
      <3>2. 1 \in DOMAIN Section /\ 3 \in DOMAIN Section
        BY SectionIs
      <3> QED BY <3>1, <3>2, SectionIs DEF WellMarked
    <2>3. Section # None
      BY SectionIs, ListsAssumption
    <2> QED BY <1>1, <2>1, <2>2, <2>3 DEF TextIn
  <1>2. CASE WellMarked(lines)
    <2>1. WellMarked(Upserted(lines)) /\ TextIn(Upserted(lines)) = TextIn(lines)
      BY <1>2, Replaced, Appended DEF WellMarked
    <2>2. Upserted(lines) \in Seq(Lines)
      BY <2>1 DEF WellMarked
    <2> QED BY <2>1, <2>2, ListsAssumption
  <1> QED BY <1>1, <1>2
-----------------------------------------------------------------------------
(* The person writes a line.                                               *)

\* A line before or after what there is disturbs no section.
LEMMA LineAdded ==
  ASSUME NEW lines, WellMarked(lines)
  PROVE  /\ WellMarked(<<"text">> \o lines) /\ TextIn(<<"text">> \o lines) = TextIn(lines) + 1
         /\ WellMarked(Append(lines, "text")) /\ TextIn(Append(lines, "text")) = TextIn(lines) + 1
  <1> DEFINE n == Len(lines)
             one == <<"text">>
             new == one \o lines
             old == lines \o one
  <1>1. lines \in Seq(Lines) /\ n \in Nat /\ DOMAIN lines = 1..n
    BY DEF WellMarked
  <1>2. one \in Seq(Lines) /\ Len(one) = 1 /\ one[1] = "text"
    BY TextInOne
  <1>3. /\ new \in Seq(Lines) /\ Len(new) = n + 1 /\ new[1] = "text"
        /\ \A i \in 1..n : new[i + 1] = lines[i]
    <2>1. /\ new \in Seq(Lines) /\ Len(new) = 1 + n
          /\ \A i \in 1..1 + n : new[i] = IF i <= 1 THEN one[i] ELSE lines[i - 1]
      <3>1. /\ new \in Seq(Lines) /\ Len(new) = Len(one) + Len(lines)
            /\ \A i \in 1..Len(one) + Len(lines) :
                 new[i] = IF i <= Len(one) THEN one[i] ELSE lines[i - Len(one)]
        BY <1>1, <1>2, ConcatProperties
      <3> HIDE DEF new
      <3> QED BY <1>2, <3>1
    <2>2. 1 \in 1..1 + n /\ \A i \in 1..n : i + 1 \in 1..1 + n /\ ~(i + 1 <= 1) /\ (i + 1) - 1 = i
      BY <1>1
    <2> HIDE DEF new
    <2> QED BY <1>1, <1>2, <2>1, <2>2
  <1>4. /\ old \in Seq(Lines) /\ Len(old) = n + 1 /\ old[n + 1] = "text"
        /\ \A i \in 1..n : old[i] = lines[i]
    <2>1. /\ old \in Seq(Lines) /\ Len(old) = n + 1
          /\ \A i \in 1..n + 1 : old[i] = IF i <= n THEN lines[i] ELSE one[i - n]
      <3>1. /\ old \in Seq(Lines) /\ Len(old) = Len(lines) + Len(one)
            /\ \A i \in 1..Len(lines) + Len(one) :
                 old[i] = IF i <= Len(lines) THEN lines[i] ELSE one[i - Len(lines)]
        BY <1>1, <1>2, ConcatProperties
      <3> HIDE DEF old
      <3> QED BY <1>2, <3>1
    <2>2. n + 1 \in 1..n + 1 /\ ~(n + 1 <= n) /\ (n + 1) - n = 1 /\ \A i \in 1..n : i \in 1..n + 1 /\ i <= n
      BY <1>1
    <2> HIDE DEF old
    <2> QED BY <1>2, <2>1, <2>2
  <1>5. TextIn(new) = TextIn(lines) + 1 /\ TextIn(old) = TextIn(lines) + 1
    <2>1. TextIn(new) = TextIn(one) + TextIn(lines) /\ TextIn(old) = TextIn(lines) + TextIn(one)
      BY <1>1, <1>2, TextInConcat
    <2>2. TextIn(one) = 1 /\ TextIn(lines) \in Nat
      BY <1>1, TextInOne, PlacesFinite
    <2> HIDE DEF new, old, one
    <2> QED BY <2>1, <2>2
  <1>6. Append(lines, "text") = old
    <2>1. "text" \in Lines
      BY DEF Lines
    <2> QED BY <1>1, <2>1, AppendIsConcat
  <1> HIDE DEF new, old, one, n
  <1>7. CASE \A i \in DOMAIN lines : lines[i] # "start"
    <2>1. \A i \in DOMAIN new : new[i] # "start"
      <3>1. ASSUME NEW i \in 1..n + 1 PROVE new[i] # "start"
        <4>1. CASE i = 1
          BY <1>3, <4>1
        <4>2. CASE i # 1
          <5>1. i - 1 \in 1..n /\ (i - 1) + 1 = i
            BY <1>1, <3>1, <4>2
          <5> QED BY <1>1, <1>3, <1>7, <5>1
        <4> QED BY <4>1, <4>2
      <3> QED BY <1>1, <1>3, <3>1
    <2>2. \A i \in DOMAIN old : old[i] # "start"
      <3>1. ASSUME NEW i \in 1..n + 1 PROVE old[i] # "start"
        <4>1. i = n + 1 \/ i \in 1..n
          BY <1>1
        <4> QED BY <1>1, <1>4, <1>7, <4>1
      <3> QED BY <1>1, <1>4, <3>1
    <2> QED BY <1>3, <1>4, <1>5, <1>6, <2>1, <2>2 DEF WellMarked, new, one
  <1>8. ASSUME NEW s \in DOMAIN lines, NEW e \in DOMAIN lines, SectionAt(lines, s, e)
        PROVE  WellMarked(new) /\ WellMarked(old)
    <2>1. /\ s \in 1..n /\ e \in 1..n /\ s < e /\ lines[s] = "start" /\ lines[e] = "end"
          /\ \A i \in 1..(s - 1) : lines[i] # "start"
          /\ \A i \in (s + 1)..(e - 1) : lines[i] \notin {"end", "text"}
      BY <1>1, <1>8 DEF SectionAt
    <2>2. SectionAt(old, s, e)
      <3>1. \A i \in (1..(s - 1)) \cup ((s + 1)..(e - 1)) : i \in 1..n
        BY <1>1, <2>1
      <3> QED BY <1>4, <2>1, <3>1 DEF SectionAt
    <2>3. SectionAt(new, s + 1, e + 1)
      <3>1. s + 1 < e + 1 /\ new[s + 1] = "start" /\ new[e + 1] = "end"
        BY <1>1, <1>3, <2>1
      <3>2. ASSUME NEW i \in 1..((s + 1) - 1) PROVE new[i] # "start"
        <4>1. CASE i = 1
          BY <1>3, <4>1
        <4>2. CASE i # 1
          <5>1. i - 1 \in 1..n /\ (i - 1) + 1 = i /\ i - 1 \in 1..(s - 1)
            BY <1>1, <2>1, <3>2, <4>2
          <5> QED BY <1>3, <2>1, <5>1
        <4> QED BY <4>1, <4>2
      <3>3. ASSUME NEW i \in ((s + 1) + 1)..((e + 1) - 1) PROVE new[i] \notin {"end", "text"}
        <4>1. i - 1 \in 1..n /\ (i - 1) + 1 = i /\ i - 1 \in (s + 1)..(e - 1)
          BY <1>1, <2>1, <3>3
        <4> QED BY <1>3, <2>1, <4>1
      <3> QED BY <3>1, <3>2, <3>3 DEF SectionAt
    <2>4. s \in DOMAIN old /\ e \in DOMAIN old /\ s + 1 \in DOMAIN new /\ e + 1 \in DOMAIN new
      BY <1>1, <1>3, <1>4, <2>1
    <2> QED BY <1>3, <1>4, <2>2, <2>3, <2>4 DEF WellMarked
  <1>9. CASE \E s, e \in DOMAIN lines : SectionAt(lines, s, e)
    BY <1>5, <1>6, <1>8, <1>9 DEF new, one
  <1> QED BY <1>7, <1>9 DEF WellMarked

\* A new file with one line.
LEMMA LineAlone == WellMarked(<<"text">>) /\ TextIn(<<"text">>) = 1 /\ <<"text">> # None
  <1>1. <<"text">> # None
    BY TextInOne, ListsAssumption
  <1> QED BY <1>1, TextInOne DEF WellMarked
-----------------------------------------------------------------------------
(* The inductive invariant.                                                *)

\* What a preparation under way does to the exclude list: it is between its look
\* and the end of its write; it holds what it read; it has emptied the list.
Rewrites(x) == x # None /\ x.at \in {"read", "open", "fill"}
HoldsList(x) == x # None /\ x.at \in {"open", "fill"}
Fills(x) == x # None /\ x.at = "fill"

\* A preparation holds a list only while it writes one, and then works at the
\* pattern of a file or of the twins.
JobOK(x) ==
  x # None =>
    /\ x.at \in {"next", "read"} => x.held = {}
    /\ x.at # "next" => x.todo # <<>> /\ Head(x.todo) \in AllNotes \cup {TwinPattern}
JobsOK ==
  /\ jobs \in [Jobs -> {None} \cup JobStates]
  /\ \A j \in Jobs : JobOK(jobs[j])

\* The instruction files and the person's lines in them.
NotesOK ==
  /\ notes \in [AllNotes -> {None} \cup Seq(Lines)] /\ texts \in [AllNotes -> Nat]
  /\ team \subseteq AllNotes
  /\ unread \subseteq AllNotes
  /\ \A n \in AllNotes : (notes[n] # None => WellMarked(notes[n]))
  /\ \A n \in AllNotes \ unread : TextIn(notes[n]) = texts[n]

\* No file of the person's own is in the list, or in one that will be written.
TeamIsSeen(list, own, js) ==
  /\ list \subseteq Tasks \cup OwnLines
  /\ list \cap own = {}
  /\ \A j \in Jobs : Rewrites(js[j]) => Head(js[j].todo) \notin own /\ js[j].held \cap own = {}

\* A list that misses nothing but what is about to be added.
Created(n, files, own) == files[n] # None /\ n \notin own
Awaited(n, js) == \E j \in Jobs : Rewrites(js[j]) /\ Head(js[j].todo) = n
Whole(list, files, own, js) ==
  /\ OwnLines \subseteq list
  /\ \A n \in AllNotes : Created(n, files, own) => n \in list \/ Awaited(n, js)

\* The list is whole; or one call has emptied it and holds all of it; or two writes
\* already cross, and the last of them will find what it did not expect.
Settled(list, files, own, js) ==
  /\ Whole(list, files, own, js)
  /\ \A j \in Jobs : HoldsList(js[j]) => js[j].held \subseteq list
Emptied(list, files, own, js) ==
  /\ list = {}
  /\ \E j \in Jobs :
       /\ Fills(js[j]) /\ Whole(js[j].held \cup {Head(js[j].todo)}, files, own, js)
       /\ \A k \in Jobs : HoldsList(js[k]) => js[k].held \subseteq js[j].held
Crossed(list, js) ==
  \/ list # {} /\ \E j \in Jobs : Fills(js[j])
  \/ list = {} /\ \E j, k \in Jobs : j # k /\ Fills(js[j]) /\ Fills(js[k])
\* Unless somebody took it for empty, the person's lines are in the list, or whoever
\* has just emptied it will write them; and in every list that will be written.
OwnKept ==
  ~emptied => /\ OwnLines \subseteq exclude \/ (exclude = {} /\ \E j \in Jobs : Fills(jobs[j]))
              /\ \A j \in Jobs : HoldsList(jobs[j]) => OwnLines \subseteq jobs[j].held
ListKept ==
  /\ OwnKept
  /\ ~disturbed => \/ Settled(exclude, notes, team, jobs)
                   \/ Emptied(exclude, notes, team, jobs)
                   \/ Crossed(exclude, jobs)

ProjectsIInv == JobsOK /\ NotesOK /\ TeamIsSeen(exclude, team, jobs) /\ ListKept
-----------------------------------------------------------------------------
(* Steps of a preparation.                                                 *)

\* The list is of no concern to a preparation that is between two tasks.
LEMMA EndTaskIs ==
  ASSUME JobsOK, NEW j \in Jobs, jobs[j] # None, jobs[j].todo # <<>>, EndTask(j)
  PROVE  JobsOK' /\ ~Rewrites(jobs'[j]) /\ \A k \in Jobs \ {j} : jobs'[k] = jobs[k]
  <1> DEFINE x == jobs[j]
             y == [x EXCEPT !.todo = Tail(x.todo), !.at = "next", !.held = {}]
  <1>1. x \in JobStates
    BY DEF JobsOK
  <1>2. Tail(x.todo) \in Seq(Tasks)
    BY <1>1 DEF JobStates
  <1>3. y \in JobStates /\ y.at = "next" /\ y.held = {}
    BY <1>1, <1>2 DEF JobStates
  <1>4. jobs' = [jobs EXCEPT ![j] = y]
    BY DEF EndTask, JobsOK
  <1> HIDE DEF y
  <1>5. JobOK(y) /\ ~Rewrites(y)
    BY <1>3 DEF JobOK, Rewrites
  <1>6. jobs'[j] = y /\ \A k \in Jobs \ {j} : jobs'[k] = jobs[k]
    BY <1>4 DEF JobsOK
  <1> QED BY <1>3, <1>4, <1>5, <1>6 DEF JobsOK

\* A preparation goes on to a file's or the twins' pattern.
LEMMA EnterReadIs ==
  ASSUME JobsOK, NEW j \in Jobs, At(j, "next"), jobs[j].todo # <<>>,
         Task(j) \in AllNotes \cup {TwinPattern}, Enter(j, "read")
  PROVE  /\ JobsOK' /\ \A k \in Jobs \ {j} : jobs'[k] = jobs[k]
         /\ Rewrites(jobs'[j]) /\ ~HoldsList(jobs'[j])
         /\ Head(jobs'[j].todo) = Task(j) /\ jobs'[j].held = {}
  <1> DEFINE x == jobs[j]
             y == [x EXCEPT !.at = "read"]
  <1>1. x \in JobStates /\ x # None /\ x.held = {} /\ x.at = "next"
    BY DEF JobsOK, At, JobOK
  <1>2. y \in JobStates /\ y.at = "read" /\ y.held = {} /\ y.todo = x.todo
    BY <1>1 DEF JobStates
  <1>3. jobs' = [jobs EXCEPT ![j] = y]
    BY DEF Enter, JobsOK
  <1>4. y # None
    BY <1>2, ListsAssumption
  <1> HIDE DEF y
  <1>5. JobOK(y) /\ Rewrites(y) /\ ~HoldsList(y) /\ Head(y.todo) = Task(j)
    BY <1>2, <1>4 DEF JobOK, Rewrites, HoldsList, Task
  <1>6. jobs'[j] = y /\ \A k \in Jobs \ {j} : jobs'[k] = jobs[k]
    BY <1>3 DEF JobsOK
  <1> QED BY <1>2, <1>3, <1>5, <1>6 DEF JobsOK

\* A preparation starts, or goes on with other tasks.
LEMMA NextTasksAre ==
  ASSUME JobsOK, NEW j \in Jobs, NEW y, y = None \/ (y \in JobStates /\ y.at = "next" /\ y.held = {}),
         jobs' = [jobs EXCEPT ![j] = y]
  PROVE  JobsOK' /\ ~Rewrites(jobs'[j]) /\ \A k \in Jobs \ {j} : jobs'[k] = jobs[k]
  <1>1. JobOK(y) /\ ~Rewrites(y)
    BY DEF JobOK, Rewrites
  <1>2. jobs'[j] = y /\ \A k \in Jobs \ {j} : jobs'[k] = jobs[k]
    BY DEF JobsOK
  <1> QED BY <1>1, <1>2 DEF JobsOK

\* A call that begins.
LEMMA JobIs ==
  ASSUME NEW todo \in Seq(Tasks)
  PROVE  Job(todo) \in JobStates /\ Job(todo).at = "next" /\ Job(todo).held = {}
  BY DEF Job, JobStates

\* Nobody who was at the list has moved, and nothing in it or in the files.
Bystander ==
  /\ \A k \in Jobs : Rewrites(jobs[k]) \/ Rewrites(jobs'[k]) => jobs'[k] = jobs[k]
  /\ UNCHANGED <<notes, exclude, team, texts, unread, disturbed, emptied>>

\* A step that only bystanders make keeps the invariant.
LEMMA BystanderStep ==
  ASSUME ProjectsIInv, JobsOK', Bystander
  PROVE  ProjectsIInv'
  <1> USE DEF ProjectsIInv
  <1>1. \A k \in Jobs : /\ Rewrites(jobs'[k]) <=> Rewrites(jobs[k])
                        /\ Rewrites(jobs[k]) => jobs'[k] = jobs[k]
    BY DEF Bystander
  <1>2. \A k \in Jobs : /\ HoldsList(jobs'[k]) <=> HoldsList(jobs[k])
                        /\ Fills(jobs'[k]) <=> Fills(jobs[k])
                        /\ HoldsList(jobs[k]) \/ Fills(jobs[k]) => jobs'[k] = jobs[k]
    BY <1>1 DEF HoldsList, Fills, Rewrites
  <1>3. \A n : Awaited(n, jobs') <=> Awaited(n, jobs)
    BY <1>1 DEF Awaited
  <1>4. \A list : Whole(list, notes, team, jobs') <=> Whole(list, notes, team, jobs)
    BY <1>3 DEF Whole
  <1>5. NotesOK'
    BY DEF Bystander, NotesOK
  <1>6. TeamIsSeen(exclude, team, jobs)'
    BY <1>1 DEF Bystander, TeamIsSeen
  <1>7. ListKept'
    <2>1. Settled(exclude, notes, team, jobs) => Settled(exclude, notes, team, jobs)'
      BY <1>2, <1>4 DEF Bystander, Settled
    <2>2. Emptied(exclude, notes, team, jobs) => Emptied(exclude, notes, team, jobs)'
      BY <1>2, <1>4 DEF Bystander, Emptied
    <2>3. Crossed(exclude, jobs) => Crossed(exclude, jobs)'
      BY <1>2 DEF Bystander, Crossed
    <2>4. OwnKept'
      BY <1>2 DEF OwnKept, ListKept, Bystander
    <2> QED BY <2>1, <2>2, <2>3, <2>4 DEF ListKept, Bystander
  <1> QED BY <1>5, <1>6, <1>7
\* A call that is over, a folder that is looked up, a file that is up to date or has
\* failed: nobody comes to the list.
LEMMA TypesOfTasks ==
  /\ \A f \in Folders : PrepareFolder(f) \in Seq(Tasks)
  /\ Order \in Seq(Tasks) /\ AllNotes \subseteq Tasks /\ TwinPattern \in Tasks
  <1>1. Folders \subseteq Tasks /\ AllNotes \subseteq Tasks /\ TwinPattern \in Tasks
    BY DEF Tasks
  <1>2. Order \in Seq(Tasks)
    BY <1>1, ListsAssumption
  <1>3. ASSUME NEW f \in Folders PROVE PrepareFolder(f) \in Seq(Tasks)
    <2>1. Notes[f] \in Seq(AllNotes)
      BY ListsAssumption
    <2>2. Notes[f] \in Seq(Tasks)
      BY <1>1, <2>1
    <2> QED BY <1>1, <2>2 DEF PrepareFolder
  <1> QED BY <1>1, <1>2, <1>3

\* Some numbers have a least one.
LEMMA LeastOf ==
  ASSUME NEW I, I \subseteq Nat, I # {}
  PROVE  \E m \in I : \A i \in I : m <= i
  <1>1. PICK m \in I : \A i \in I : ~(<<i, m>> \in OpToRel(<, Nat))
    BY NatLessThanWellFounded, WFMin
  <1>2. ASSUME NEW i \in I PROVE m <= i
    <2>1. i \in Nat /\ m \in Nat
      OBVIOUS
    <2>2. <<i, m>> \in Nat \X Nat /\ <<i, m>>[1] = i /\ <<i, m>>[2] = m
      BY <2>1
    <2>3. ~(i < m)
      <3>1. <<i, m>> \notin OpToRel(<, Nat)
        BY <1>1
      <3>2. <<i, m>> \notin {ss \in Nat \X Nat : ss[1] < ss[2]}
        BY <3>1 DEF OpToRel
      <3> QED BY <2>1, <3>2
    <2> QED BY <2>1, <2>3
  <1> QED BY <1>2

LEMMA QuietSteps ==
  ASSUME ProjectsIInv, NEW j \in Jobs,
         \/ EndJob(j) \/ ExpandFolder(j) \/ NoteFails(j)
         \/ EnsureNote(j) /\ UNCHANGED <<notes, team>> /\ EndTask(j)
  PROVE  ProjectsIInv'
  <1> USE DEF ProjectsIInv
  <1> DEFINE x == jobs[j]
  <1>1. /\ At(j, "next") /\ x \in JobStates /\ x # None /\ x.at = "next" /\ x.held = {}
        /\ x.todo \in Seq(Tasks) /\ x.startup \in BOOLEAN /\ ~Rewrites(x)
    <2>1. At(j, "next")
      BY DEF EndJob, ExpandFolder, NoteFails, EnsureNote
    <2>2. x # None /\ x.at = "next"
      BY <2>1 DEF At
    <2>3. x \in JobStates /\ x.held = {}
      BY <2>2 DEF JobsOK, JobOK
    <2> QED BY <2>1, <2>2, <2>3 DEF JobStates, Rewrites
  <1>2. UNCHANGED <<notes, exclude, team, texts, unread, disturbed, emptied>>
    BY DEF EndJob, ExpandFolder, NoteFails, EnsureNote
  <1>3. SUFFICES JobsOK' /\ ~Rewrites(jobs'[j]) /\ \A k \in Jobs \ {j} : jobs'[k] = jobs[k]
    BY <1>1, <1>2, BystanderStep DEF Bystander
  <1>4. CASE EndJob(j)
    <2>1. jobs' = [jobs EXCEPT ![j] = None]
      BY <1>4 DEF EndJob
    <2>2. JobOK(None) /\ ~Rewrites(None)
      BY DEF JobOK, Rewrites
    <2>3. jobs'[j] = None /\ \A k \in Jobs \ {j} : jobs'[k] = jobs[k]
      BY <2>1 DEF JobsOK
    <2> QED BY <2>1, <2>2, <2>3 DEF JobsOK
  <1>5. CASE ExpandFolder(j)
    <2> DEFINE todo == (IF decision[Task(j)] = "allowed" THEN PrepareFolder(Task(j)) ELSE <<>>) \o Tail(x.todo)
               y == [x EXCEPT !.todo = todo]
    <2>1. x.todo # <<>> /\ Task(j) \in Folders
      BY <1>5 DEF ExpandFolder
    <2>2. todo \in Seq(Tasks)
      <3>1. Tail(x.todo) \in Seq(Tasks)
        BY <1>1, <2>1
      <3>2. PrepareFolder(Task(j)) \in Seq(Tasks) /\ <<>> \in Seq(Tasks)
        BY <2>1, TypesOfTasks
      <3> QED BY <3>1, <3>2, ConcatProperties
    <2>3. jobs' = [jobs EXCEPT ![j] = y]
      BY <1>5 DEF ExpandFolder, JobsOK
    <2> HIDE DEF todo
    <2>4. y \in JobStates /\ y.at = "next" /\ y.held = {}
      BY <1>1, <2>2 DEF JobStates
    <2> HIDE DEF y
    <2> QED BY <2>3, <2>4, NextTasksAre
  <1>6. CASE NoteFails(j)
    <2> DEFINE todo == OtherNotes(x.todo)
               y == [x EXCEPT !.todo = todo, !.startup = FALSE]
    <2>1. x.todo # <<>>
      BY <1>6 DEF NoteFails
    <2>2. todo \in Seq(Tasks)
      <3> DEFINE I == {i \in 1..Len(x.todo) : x.todo[i] = TwinPattern}
                 p == SelectInSeq(x.todo, LAMBDA task : task = TwinPattern)
      <3>1. p = IF I # {} THEN Min(I) ELSE 0
        BY DEF SelectInSeq
      <3>2. todo = IF p = 0 THEN Tail(x.todo) ELSE SubSeq(x.todo, 2, p - 1)
        BY DEF OtherNotes
      <3>3. CASE p = 0
        <4>1. todo = Tail(x.todo)
          BY <3>2, <3>3
        <4> HIDE DEF todo
        <4> QED BY <1>1, <2>1, <4>1
      <3>4. CASE p # 0
        <4>1. p \in 1..Len(x.todo)
          <5>1. I # {} /\ p = Min(I)
            BY <3>1, <3>4
          <5>2. \E m \in I : \A i \in I : m <= i
            <6>1. I \subseteq Nat
              OBVIOUS
            <6> HIDE DEF I
            <6> QED BY <5>1, <6>1, LeastOf
          <5>3. Min(I) \in I
            <6> HIDE DEF I
            <6> QED BY <5>2 DEF Min
          <5> QED BY <5>1, <5>3
        <4>2. todo = SubSeq(x.todo, 2, p - 1)
          BY <3>2, <3>4
        <4> HIDE DEF todo, p, I
        <4>3. \A i \in 2..(p - 1) : x.todo[i] \in Tasks
          BY <1>1, <4>1
        <4>4. 2 \in Int /\ p - 1 \in Int
          BY <4>1
        <4> QED BY <4>2, <4>3, <4>4, SubSeqProperties
      <3> QED BY <3>3, <3>4
    <2>3. jobs' = [jobs EXCEPT ![j] = y]
      BY <1>6 DEF NoteFails, JobsOK
    <2> HIDE DEF todo
    <2>4. y \in JobStates /\ y.at = "next" /\ y.held = {}
      BY <1>1, <2>2 DEF JobStates
    <2> HIDE DEF y
    <2> QED BY <2>3, <2>4, NextTasksAre
  <1>7. CASE EnsureNote(j) /\ EndTask(j)
    BY <1>1, <1>7, EndTaskIs DEF EnsureNote
  <1> QED BY <1>4, <1>5, <1>6, <1>7
\* A list stays whole when it grows, when what is awaited stays awaited or has come,
\* and when each file that was created since is awaited or in it.
LEMMA WholeGrows ==
  ASSUME NEW list, NEW files, NEW own, NEW js, Whole(list, files, own, js),
         NEW list2, NEW files2, NEW own2, NEW js2, list \subseteq list2,
         \A n \in AllNotes : Awaited(n, js) => n \in list2 \/ Awaited(n, js2),
         \A n \in AllNotes : Created(n, files2, own2) =>
           Created(n, files, own) \/ n \in list2 \/ Awaited(n, js2)
  PROVE  Whole(list2, files2, own2, js2)
  BY DEF Whole

\* The list as it is to the other calls when one call comes to it or the files
\* change: whoever holds a list goes on holding it.
LEMMA ListStays ==
  ASSUME ListKept, UNCHANGED <<exclude, disturbed, emptied>>,
         \A k \in Jobs : /\ HoldsList(jobs[k]) \/ HoldsList(jobs'[k]) => jobs'[k] = jobs[k]
                         /\ Rewrites(jobs[k]) => jobs'[k] = jobs[k],
         \A list : exclude \subseteq list /\ (\A k \in Jobs : HoldsList(jobs[k]) => jobs[k].held \subseteq list)
           => \A n \in AllNotes : Created(n, notes', team') =>
                Created(n, notes, team) \/ n \in list \/ Awaited(n, jobs')
  PROVE  ListKept'
  <1>1. \A k \in Jobs : /\ HoldsList(jobs'[k]) <=> HoldsList(jobs[k])
                        /\ Fills(jobs'[k]) <=> Fills(jobs[k])
                        /\ HoldsList(jobs[k]) \/ Fills(jobs[k]) => jobs'[k] = jobs[k]
    BY DEF HoldsList, Fills
  <1>2. \A n \in AllNotes : Awaited(n, jobs) => Awaited(n, jobs')
    BY DEF Awaited
  <1>3. ASSUME Settled(exclude, notes, team, jobs) PROVE Settled(exclude, notes, team, jobs)'
    <2>1. Whole(exclude, notes', team', jobs')
      <3>1. \A n \in AllNotes : Created(n, notes', team') =>
              Created(n, notes, team) \/ n \in exclude \/ Awaited(n, jobs')
        BY <1>3 DEF Settled
      <3> QED BY <1>2, <1>3, <3>1, WholeGrows DEF Settled
    <2> QED BY <1>1, <1>3, <2>1 DEF Settled
  <1>4. ASSUME Emptied(exclude, notes, team, jobs) PROVE Emptied(exclude, notes, team, jobs)'
    <2>1. PICK j \in Jobs :
            /\ Fills(jobs[j]) /\ Whole(jobs[j].held \cup {Head(jobs[j].todo)}, notes, team, jobs)
            /\ \A k \in Jobs : HoldsList(jobs[k]) => jobs[k].held \subseteq jobs[j].held
      BY <1>4 DEF Emptied
    <2>2. Whole(jobs[j].held \cup {Head(jobs[j].todo)}, notes', team', jobs')
      <3> DEFINE list == jobs[j].held \cup {Head(jobs[j].todo)}
      <3>1. exclude \subseteq list /\ \A k \in Jobs : HoldsList(jobs[k]) => jobs[k].held \subseteq list
        BY <1>4, <2>1 DEF Emptied
      <3>2. Whole(list, notes, team, jobs)
        BY <2>1
      <3> HIDE DEF list
      <3>3. \A n \in AllNotes : Created(n, notes', team') =>
              Created(n, notes, team) \/ n \in list \/ Awaited(n, jobs')
        BY <3>1
      <3>4. Whole(list, notes', team', jobs')
        BY <1>2, <3>2, <3>3, WholeGrows
      <3> QED BY <3>4 DEF list
    <2>3. jobs'[j] = jobs[j] /\ Fills(jobs'[j])
      BY <1>1, <2>1
    <2>4. \A k \in Jobs : HoldsList(jobs'[k]) => jobs'[k].held \subseteq jobs'[j].held
      BY <1>1, <2>1, <2>3
    <2>5. exclude' = {}
      BY <1>4 DEF Emptied
    <2> QED BY <2>2, <2>3, <2>4, <2>5 DEF Emptied
  <1>5. Crossed(exclude, jobs) => Crossed(exclude, jobs)'
    BY <1>1 DEF Crossed
  <1>6. OwnKept'
    BY <1>1 DEF OwnKept, ListKept
  <1> QED BY <1>3, <1>4, <1>5, <1>6 DEF ListKept

\* A file is brought up to date or created.
LEMMA NoteWritten ==
  ASSUME ProjectsIInv, NEW j \in Jobs, EnsureNote(j)
  PROVE  ProjectsIInv'
  <1> USE DEF ProjectsIInv
  <1> DEFINE n == Task(j)
             new == Upserted(notes[n])
  <1>1. /\ At(j, "next") /\ jobs[j].todo # <<>> /\ n \in AllNotes
        /\ UNCHANGED <<exclude, texts, unread, disturbed, emptied>>
    BY DEF EnsureNote
  <1>2. jobs[j] # None /\ jobs[j].at = "next" /\ ~Rewrites(jobs[j]) /\ ~HoldsList(jobs[j])
    BY <1>1 DEF At, Rewrites, HoldsList
  <1>3. CASE new = notes[n]
    BY <1>3, QuietSteps DEF EnsureNote
  <1>4. CASE new # notes[n]
    <2>1. /\ notes' = [notes EXCEPT ![n] = new]
          /\ team' = IF notes[n] = None THEN team \ {n} ELSE team
          /\ IF Creates(n) THEN Enter(j, "read") ELSE EndTask(j)
      BY <1>4 DEF EnsureNote
    <2>2. WellMarked(new) /\ new # None /\ TextIn(new) = TextIn(notes[n])
      <3>1. notes[n] = None \/ WellMarked(notes[n])
        BY <1>1 DEF NotesOK
      <3> QED BY <3>1, UpsertKeeps
    <2> HIDE DEF n, new
    <2>3. NotesOK'
      <3>1. new \in Seq(Lines)
        BY <2>2 DEF WellMarked
      <3>2. \A m \in AllNotes : notes'[m] = IF m = n THEN new ELSE notes[m]
        BY <2>1 DEF NotesOK
      <3>3. notes' \in [AllNotes -> {None} \cup Seq(Lines)]
        BY <1>1, <2>1, <3>1 DEF NotesOK
      <3>4. team' \subseteq AllNotes
        BY <2>1 DEF NotesOK
      <3>5. /\ \A m \in AllNotes : notes'[m] # None => WellMarked(notes'[m])
            /\ \A m \in AllNotes \ unread : TextIn(notes'[m]) = texts[m]
        BY <2>2, <3>2 DEF NotesOK
      <3> QED BY <1>1, <3>3, <3>4, <3>5 DEF NotesOK
    <2>4. CASE notes[n] = None
      <3>1. Enter(j, "read") /\ team' = team \ {n}
        BY <2>1, <2>4 DEF Creates
      <3>2. /\ JobsOK' /\ \A k \in Jobs \ {j} : jobs'[k] = jobs[k]
            /\ Rewrites(jobs'[j]) /\ ~HoldsList(jobs'[j])
            /\ Head(jobs'[j].todo) = n /\ jobs'[j].held = {}
        BY <1>1, <3>1, EnterReadIs DEF n
      <3>3. TeamIsSeen(exclude, team, jobs)'
        BY <1>1, <3>1, <3>2 DEF TeamIsSeen
      <3>4. ListKept'
        <4>1. Awaited(n, jobs')
          BY <3>2 DEF Awaited
        <4>2. \A m \in AllNotes : Created(m, notes', team') => Created(m, notes, team) \/ Awaited(m, jobs')
          <5>1. \A m \in AllNotes : m # n => notes'[m] = notes[m] /\ (m \in team' <=> m \in team)
            BY <2>1, <3>1 DEF NotesOK
          <5> QED BY <4>1, <5>1 DEF Created
        <4>3. \A k \in Jobs : /\ HoldsList(jobs[k]) \/ HoldsList(jobs'[k]) => jobs'[k] = jobs[k]
                              /\ Rewrites(jobs[k]) => jobs'[k] = jobs[k]
          BY <1>2, <3>2
        <4> QED BY <1>1, <4>2, <4>3, ListStays
      <3> QED BY <2>3, <3>2, <3>3, <3>4
    <2>5. CASE notes[n] # None
      <3>1. EndTask(j) /\ team' = team
        BY <2>1, <2>5 DEF Creates
      <3>2. JobsOK' /\ ~Rewrites(jobs'[j]) /\ \A k \in Jobs \ {j} : jobs'[k] = jobs[k]
        BY <1>1, <1>2, <3>1, EndTaskIs
      <3>3. TeamIsSeen(exclude, team, jobs)'
        BY <1>1, <3>1, <3>2 DEF TeamIsSeen
      <3>4. ListKept'
        <4>1. \A m \in AllNotes : Created(m, notes', team') => Created(m, notes, team)
          <5>1. \A m \in AllNotes : notes'[m] = None <=> notes[m] = None
            BY <2>1, <2>2, <2>5 DEF NotesOK
          <5> QED BY <3>1, <5>1 DEF Created
        <4>2. ~HoldsList(jobs'[j])
          BY <3>2 DEF HoldsList, Rewrites
        <4>3. \A k \in Jobs : /\ HoldsList(jobs[k]) \/ HoldsList(jobs'[k]) => jobs'[k] = jobs[k]
                              /\ Rewrites(jobs[k]) => jobs'[k] = jobs[k]
          BY <1>2, <3>2, <4>2
        <4> QED BY <1>1, <4>1, <4>3, ListStays
      <3> QED BY <2>3, <3>2, <3>3, <3>4
    <2> QED BY <2>4, <2>5
  <1> QED BY <1>3, <1>4

\* A file that could not be read is written over.
LEMMA NoteReplaced ==
  ASSUME ProjectsIInv, NEW j \in Jobs, NoteUnread(j)
  PROVE  ProjectsIInv'
  <1> USE DEF ProjectsIInv
  <1> DEFINE n == Task(j)
             new == Upserted(None)
  <1>1. /\ At(j, "next") /\ jobs[j].todo # <<>> /\ n \in AllNotes
        /\ UNCHANGED <<exclude, texts, disturbed, emptied>>
        /\ notes' = [notes EXCEPT ![n] = new]
        /\ team' = team \ {n} /\ unread' = unread \cup {n}
        /\ Enter(j, "read")
    BY DEF NoteUnread
  <1>2. jobs[j] # None /\ jobs[j].at = "next" /\ ~Rewrites(jobs[j]) /\ ~HoldsList(jobs[j])
    BY <1>1 DEF At, Rewrites, HoldsList
  <1>3. WellMarked(new) /\ new # None
    BY UpsertKeeps
  <1>4. /\ JobsOK' /\ \A k \in Jobs \ {j} : jobs'[k] = jobs[k]
        /\ Rewrites(jobs'[j]) /\ ~HoldsList(jobs'[j])
        /\ Head(jobs'[j].todo) = n /\ jobs'[j].held = {}
    BY <1>1, EnterReadIs
  <1> HIDE DEF n, new
  <1>5. NotesOK'
    <2>1. new \in Seq(Lines)
      BY <1>3 DEF WellMarked
    <2>2. \A m \in AllNotes : notes'[m] = IF m = n THEN new ELSE notes[m]
      BY <1>1 DEF NotesOK
    <2>3. notes' \in [AllNotes -> {None} \cup Seq(Lines)]
      BY <1>1, <2>1 DEF NotesOK
    <2>4. team' \subseteq AllNotes /\ unread' \subseteq AllNotes
      BY <1>1 DEF NotesOK
    <2>5. /\ \A m \in AllNotes : notes'[m] # None => WellMarked(notes'[m])
          /\ \A m \in AllNotes \ unread' : TextIn(notes'[m]) = texts[m]
      BY <1>1, <1>3, <2>2 DEF NotesOK
    <2> QED BY <1>1, <2>3, <2>4, <2>5 DEF NotesOK
  <1>6. TeamIsSeen(exclude, team, jobs)'
    BY <1>1, <1>4 DEF TeamIsSeen
  <1>7. ListKept'
    <2>1. Awaited(n, jobs')
      BY <1>4 DEF Awaited
    <2>2. \A m \in AllNotes : Created(m, notes', team') => Created(m, notes, team) \/ Awaited(m, jobs')
      <3>1. \A m \in AllNotes : m # n => notes'[m] = notes[m] /\ (m \in team' <=> m \in team)
        BY <1>1 DEF NotesOK
      <3> QED BY <2>1, <3>1 DEF Created
    <2>3. \A k \in Jobs : /\ HoldsList(jobs[k]) \/ HoldsList(jobs'[k]) => jobs'[k] = jobs[k]
                          /\ Rewrites(jobs[k]) => jobs'[k] = jobs[k]
      BY <1>2, <1>4
    <2> QED BY <1>1, <2>2, <2>3, ListStays
  <1> QED BY <1>4, <1>5, <1>6, <1>7

\* The twins' pattern is looked for.
LEMMA PatternWanted ==
  ASSUME ProjectsIInv, NEW j \in Jobs, EnsureGitExclude(j)
  PROVE  ProjectsIInv'
  <1> USE DEF ProjectsIInv
  <1>1. /\ At(j, "next") /\ jobs[j].todo # <<>> /\ Task(j) = TwinPattern
        /\ UNCHANGED <<notes, exclude, team, texts, unread, disturbed, emptied>> /\ Enter(j, "read")
    BY DEF EnsureGitExclude
  <1>2. jobs[j] # None /\ jobs[j].at = "next" /\ ~Rewrites(jobs[j]) /\ ~HoldsList(jobs[j])
    BY <1>1 DEF At, Rewrites, HoldsList
  <1>3. /\ JobsOK' /\ \A k \in Jobs \ {j} : jobs'[k] = jobs[k]
        /\ Rewrites(jobs'[j]) /\ ~HoldsList(jobs'[j])
        /\ Head(jobs'[j].todo) = TwinPattern /\ jobs'[j].held = {}
    BY <1>1, EnterReadIs
  <1>4. NotesOK'
    BY <1>1 DEF NotesOK
  <1>5. TeamIsSeen(exclude, team, jobs)'
    <2>1. TwinPattern \notin team
      BY ProjectsAssumption DEF NotesOK
    <2> QED BY <1>1, <1>3, <2>1 DEF TeamIsSeen
  <1>6. ListKept'
    <2>1. \A k \in Jobs : /\ HoldsList(jobs[k]) \/ HoldsList(jobs'[k]) => jobs'[k] = jobs[k]
                          /\ Rewrites(jobs[k]) => jobs'[k] = jobs[k]
      BY <1>2, <1>3
    <2> QED BY <1>1, <2>1, ListStays
  <1> QED BY <1>3, <1>4, <1>5, <1>6
\* A preparation at the list: what it works at.
LEMMA AtTheList ==
  ASSUME JobsOK, NEW j \in Jobs, At(j, "read") \/ At(j, "open") \/ At(j, "fill")
  PROVE  /\ jobs[j] # None /\ jobs[j] \in JobStates /\ Rewrites(jobs[j])
         /\ jobs[j].todo # <<>> /\ Task(j) \in AllNotes \cup {TwinPattern}
         /\ At(j, "read") => jobs[j].held = {} /\ jobs[j].at = "read" /\ ~HoldsList(jobs[j])
         /\ At(j, "open") => jobs[j].at = "open" /\ HoldsList(jobs[j]) /\ ~Fills(jobs[j])
         /\ At(j, "fill") => jobs[j].at = "fill" /\ HoldsList(jobs[j]) /\ Fills(jobs[j])
         /\ Awaited(Task(j), jobs)
  <1>1. /\ jobs[j] # None /\ jobs[j].at \in {"read", "open", "fill"}
        /\ At(j, "read") => jobs[j].at = "read"
        /\ At(j, "open") => jobs[j].at = "open"
        /\ At(j, "fill") => jobs[j].at = "fill"
    BY DEF At
  <1>2. Rewrites(jobs[j])
    BY <1>1 DEF Rewrites
  <1>3. Awaited(Task(j), jobs)
    BY <1>2 DEF Awaited, Task
  <1> QED BY <1>1, <1>2, <1>3 DEF JobsOK, JobOK, HoldsList, Fills, Task

\* The list is read: the line is there, or what there is is kept to be written back.
LEMMA ListRead ==
  ASSUME ProjectsIInv, NEW j \in Jobs, ReadExclude(j)
  PROVE  ProjectsIInv'
  <1> USE DEF ProjectsIInv
  <1> DEFINE x == jobs[j]
  <1>1. /\ At(j, "read") /\ UNCHANGED <<notes, exclude, team, texts, unread, disturbed>>
        /\ emptied' = (emptied \/ (exclude = {} /\ \E k \in Jobs : At(k, "fill")))
    BY DEF ReadExclude
  <1>2. /\ x # None /\ x \in JobStates /\ Rewrites(x) /\ x.todo # <<>>
        /\ Task(j) \in AllNotes \cup {TwinPattern} /\ x.held = {} /\ x.at = "read" /\ ~HoldsList(x)
    BY <1>1, AtTheList
  <1>3. ~Fills(x)
    BY <1>2 DEF Fills
  <1>4. NotesOK'
    BY <1>1 DEF NotesOK
  <1>5. CASE Task(j) \in exclude
    <2>1. EndTask(j)
      BY <1>5 DEF ReadExclude
    <2>2. JobsOK' /\ ~Rewrites(jobs'[j]) /\ \A k \in Jobs \ {j} : jobs'[k] = jobs[k]
      BY <1>2, <2>1, EndTaskIs
    <2>3. TeamIsSeen(exclude, team, jobs)'
      BY <1>1, <2>2 DEF TeamIsSeen
    <2>4. ~HoldsList(jobs'[j]) /\ ~Fills(jobs'[j])
      BY <2>2 DEF HoldsList, Fills, Rewrites
    <2>5. Settled(exclude, notes, team, jobs) => Settled(exclude, notes, team, jobs)'
      <3>1. ASSUME Settled(exclude, notes, team, jobs) PROVE Settled(exclude, notes, team, jobs)'
        <4>1. \A n \in AllNotes : Awaited(n, jobs) => n \in exclude \/ Awaited(n, jobs')
          BY <1>5, <2>2 DEF Awaited, Task
        <4>2. Whole(exclude, notes, team, jobs')
          BY <3>1, <4>1 DEF Settled, Whole
        <4> QED BY <1>1, <2>2, <2>4, <3>1, <4>2 DEF Settled
      <3> QED BY <3>1
    <2>6. ~Emptied(exclude, notes, team, jobs)
      BY <1>5 DEF Emptied
    <2>7. Crossed(exclude, jobs) => Crossed(exclude, jobs)'
      <3>1. \A k \in Jobs : Fills(jobs[k]) => Fills(jobs'[k])
        BY <1>3, <2>2
      <3> QED BY <1>1, <3>1 DEF Crossed
    <2>8. ListKept'
      <3>1. OwnKept'
        BY <1>1, <1>5, <2>2, <2>4 DEF OwnKept, ListKept
      <3> QED BY <1>1, <2>5, <2>6, <2>7, <3>1 DEF ListKept
    <2> QED BY <1>4, <2>2, <2>3, <2>8
  <1>6. CASE Task(j) \notin exclude
    <2> DEFINE y == [x EXCEPT !.at = "open", !.held = exclude]
    <2>1. jobs' = [jobs EXCEPT ![j] = y]
      BY <1>6 DEF ReadExclude, JobsOK
    <2>2. y \in JobStates /\ y.at = "open" /\ y.held = exclude /\ y.todo = x.todo
      BY <1>2 DEF JobStates, TeamIsSeen
    <2>3. y # None
      BY <2>2, ListsAssumption
    <2> HIDE DEF y
    <2>4. JobOK(y) /\ Rewrites(y) /\ HoldsList(y) /\ ~Fills(y) /\ Head(y.todo) = Task(j)
      BY <1>2, <2>2, <2>3 DEF JobOK, Rewrites, HoldsList, Fills, Task
    <2>5. jobs'[j] = y /\ \A k \in Jobs \ {j} : jobs'[k] = jobs[k]
      BY <2>1 DEF JobsOK
    <2>6. JobsOK'
      BY <2>1, <2>2, <2>4, <2>5 DEF JobsOK
    <2>7. TeamIsSeen(exclude, team, jobs)'
      BY <1>1, <1>2, <2>2, <2>4, <2>5 DEF TeamIsSeen, Task
    <2>8. \A n : Awaited(n, jobs) => Awaited(n, jobs')
      BY <1>2, <2>4, <2>5 DEF Awaited, Task
    <2>9. \A list : Whole(list, notes, team, jobs) => Whole(list, notes, team, jobs')
      BY <2>8 DEF Whole
    <2>10. Settled(exclude, notes, team, jobs) => Settled(exclude, notes, team, jobs)'
      BY <1>1, <2>2, <2>5, <2>9 DEF Settled
    <2>11. ASSUME Emptied(exclude, notes, team, jobs) PROVE Emptied(exclude, notes, team, jobs)'
      <3>1. PICK i \in Jobs :
              /\ Fills(jobs[i]) /\ Whole(jobs[i].held \cup {Head(jobs[i].todo)}, notes, team, jobs)
              /\ \A k \in Jobs : HoldsList(jobs[k]) => jobs[k].held \subseteq jobs[i].held
        BY <2>11 DEF Emptied
      <3>2. i # j /\ jobs'[i] = jobs[i] /\ exclude' = {} /\ exclude = {}
        BY <1>1, <1>3, <2>5, <2>11, <3>1 DEF Emptied
      <3>3. Whole(jobs'[i].held \cup {Head(jobs'[i].todo)}, notes', team', jobs')
        BY <1>1, <2>9, <3>1, <3>2
      <3>4. \A k \in Jobs : HoldsList(jobs'[k]) => jobs'[k].held \subseteq jobs'[i].held
        BY <2>2, <2>5, <3>1, <3>2
      <3> QED BY <3>1, <3>2, <3>3, <3>4 DEF Emptied
    <2>12. Crossed(exclude, jobs) => Crossed(exclude, jobs)'
      <3>1. \A k \in Jobs : Fills(jobs[k]) => Fills(jobs'[k])
        BY <1>3, <2>5
      <3> QED BY <1>1, <3>1 DEF Crossed
    <2>13. ListKept'
      <3>1. OwnKept'
        <4>1. ~emptied' => OwnLines \subseteq exclude
          <5>1. \A k \in Jobs : Fills(jobs[k]) => At(k, "fill")
            BY DEF Fills, At
          <5> QED BY <1>1, <5>1 DEF OwnKept, ListKept
        <4>2. \A k \in Jobs \ {j} : jobs'[k] = jobs[k]
          BY <2>5
        <4> QED BY <1>1, <2>2, <2>5, <4>1, <4>2 DEF OwnKept, ListKept
      <3> QED BY <1>1, <2>10, <2>11, <2>12, <3>1 DEF ListKept
    <2> QED BY <1>4, <2>6, <2>7, <2>13
  <1> QED BY <1>5, <1>6

\* The list could not be read, and counts as empty.
LEMMA ListMissed ==
  ASSUME ProjectsIInv, NEW j \in Jobs, ReadExcludeFails(j)
  PROVE  ProjectsIInv'
  <1> USE DEF ProjectsIInv
  <1> DEFINE x == jobs[j]
             y == [x EXCEPT !.at = "open", !.held = {}]
  <1>1. /\ At(j, "read") /\ UNCHANGED <<notes, exclude, team, texts, unread, disturbed>>
        /\ emptied' = TRUE
    BY DEF ReadExcludeFails
  <1>2. /\ x # None /\ x \in JobStates /\ Rewrites(x) /\ x.todo # <<>>
        /\ Task(j) \in AllNotes \cup {TwinPattern} /\ x.held = {} /\ x.at = "read" /\ ~HoldsList(x)
    BY <1>1, AtTheList
  <1>3. ~Fills(x)
    BY <1>2 DEF Fills
  <1>4. NotesOK'
    BY <1>1 DEF NotesOK
  <1>5. jobs' = [jobs EXCEPT ![j] = y]
    BY DEF ReadExcludeFails, JobsOK
  <1>6. y \in JobStates /\ y.at = "open" /\ y.held = {} /\ y.todo = x.todo
    BY <1>2 DEF JobStates
  <1>7. y # None
    BY <1>6, ListsAssumption
  <1> HIDE DEF y
  <1>8. JobOK(y) /\ Rewrites(y) /\ HoldsList(y) /\ ~Fills(y) /\ Head(y.todo) = Task(j)
    BY <1>2, <1>6, <1>7 DEF JobOK, Rewrites, HoldsList, Fills, Task
  <1>9. jobs'[j] = y /\ \A k \in Jobs \ {j} : jobs'[k] = jobs[k]
    BY <1>5 DEF JobsOK
  <1>10. JobsOK'
    BY <1>5, <1>6, <1>8, <1>9 DEF JobsOK
  <1>11. TeamIsSeen(exclude, team, jobs)'
    BY <1>1, <1>2, <1>6, <1>8, <1>9 DEF TeamIsSeen, Task
  <1>12. \A n : Awaited(n, jobs) => Awaited(n, jobs')
    BY <1>2, <1>8, <1>9 DEF Awaited, Task
  <1>13. \A list : Whole(list, notes, team, jobs) => Whole(list, notes, team, jobs')
    BY <1>12 DEF Whole
  <1>14. Settled(exclude, notes, team, jobs) => Settled(exclude, notes, team, jobs)'
    BY <1>1, <1>6, <1>9, <1>13 DEF Settled
  <1>15. ASSUME Emptied(exclude, notes, team, jobs) PROVE Emptied(exclude, notes, team, jobs)'
    <2>1. PICK i \in Jobs :
            /\ Fills(jobs[i]) /\ Whole(jobs[i].held \cup {Head(jobs[i].todo)}, notes, team, jobs)
            /\ \A k \in Jobs : HoldsList(jobs[k]) => jobs[k].held \subseteq jobs[i].held
      BY <1>15 DEF Emptied
    <2>2. i # j /\ jobs'[i] = jobs[i] /\ exclude' = {}
      BY <1>1, <1>3, <1>9, <1>15, <2>1 DEF Emptied
    <2>3. Whole(jobs'[i].held \cup {Head(jobs'[i].todo)}, notes', team', jobs')
      BY <1>1, <1>13, <2>1, <2>2
    <2>4. \A k \in Jobs : HoldsList(jobs'[k]) => jobs'[k].held \subseteq jobs'[i].held
      BY <1>6, <1>9, <2>1, <2>2
    <2> QED BY <2>1, <2>2, <2>3, <2>4 DEF Emptied
  <1>16. Crossed(exclude, jobs) => Crossed(exclude, jobs)'
    <2>1. \A k \in Jobs : Fills(jobs[k]) => Fills(jobs'[k])
      BY <1>3, <1>9
    <2> QED BY <1>1, <2>1 DEF Crossed
  <1>17. ListKept'
    BY <1>1, <1>14, <1>15, <1>16 DEF ListKept, OwnKept
  <1> QED BY <1>4, <1>10, <1>11, <1>17

\* The list cannot be written.
LEMMA ListFails ==
  ASSUME ProjectsIInv, NEW j \in Jobs, ExcludeFails(j)
  PROVE  ProjectsIInv'
  <1> USE DEF ProjectsIInv
  <1>1. /\ Rewriting(j) /\ EndTask(j) /\ disturbed' = TRUE
        /\ emptied' = (emptied \/ At(j, "fill")) /\ UNCHANGED <<notes, exclude, team, texts, unread>>
    BY DEF ExcludeFails
  <1>2. /\ jobs[j] # None /\ jobs[j].todo # <<>>
        /\ Fills(jobs[j]) => At(j, "fill")
    BY <1>1, AtTheList DEF Rewriting, Fills, At
  <1>3. JobsOK' /\ ~Rewrites(jobs'[j]) /\ \A k \in Jobs \ {j} : jobs'[k] = jobs[k]
    BY <1>1, <1>2, EndTaskIs
  <1>4. NotesOK'
    BY <1>1 DEF NotesOK
  <1>5. TeamIsSeen(exclude, team, jobs)'
    BY <1>1, <1>3 DEF TeamIsSeen
  <1>6. ListKept'
    <2>1. ~HoldsList(jobs'[j])
      BY <1>3 DEF HoldsList, Rewrites
    <2>2. OwnKept'
      BY <1>1, <1>2, <1>3, <2>1 DEF OwnKept, ListKept
    <2> QED BY <1>1, <2>2 DEF ListKept
  <1> QED BY <1>3, <1>4, <1>5, <1>6
\* The list is emptied, to be written again.
LEMMA ListOpened ==
  ASSUME ProjectsIInv, NEW j \in Jobs, OpenExclude(j)
  PROVE  ProjectsIInv'
  <1> USE DEF ProjectsIInv
  <1> DEFINE x == jobs[j]
             y == [x EXCEPT !.at = "fill"]
  <1>1. /\ At(j, "open") /\ exclude' = {} /\ UNCHANGED <<notes, team, texts, unread, emptied>>
        /\ disturbed' = (disturbed \/ exclude # x.held)
    BY DEF OpenExclude
  <1>2. /\ x # None /\ x \in JobStates /\ Rewrites(x) /\ x.todo # <<>>
        /\ Task(j) \in AllNotes \cup {TwinPattern} /\ x.at = "open" /\ HoldsList(x) /\ ~Fills(x)
    BY <1>1, AtTheList
  <1>3. NotesOK'
    BY <1>1 DEF NotesOK
  <1>4. jobs' = [jobs EXCEPT ![j] = y]
    BY DEF OpenExclude, Enter, JobsOK
  <1>5. y \in JobStates /\ y.at = "fill" /\ y.held = x.held /\ y.todo = x.todo
    BY <1>2 DEF JobStates
  <1>6. y # None
    BY <1>5, ListsAssumption
  <1> HIDE DEF y
  <1>7. JobOK(y) /\ Rewrites(y) /\ HoldsList(y) /\ Fills(y) /\ Head(y.todo) = Task(j)
    BY <1>2, <1>5, <1>6 DEF JobOK, Rewrites, HoldsList, Fills, Task
  <1>8. jobs'[j] = y /\ \A k \in Jobs \ {j} : jobs'[k] = jobs[k]
    BY <1>4 DEF JobsOK
  <1>9. JobsOK'
    BY <1>4, <1>5, <1>7, <1>8 DEF JobsOK
  <1>10. TeamIsSeen(exclude, team, jobs)'
    BY <1>1, <1>2, <1>5, <1>7, <1>8 DEF TeamIsSeen, Task
  <1>11. \A n : Awaited(n, jobs) => Awaited(n, jobs')
    BY <1>2, <1>7, <1>8 DEF Awaited, Task
  <1>12. \A k \in Jobs : Fills(jobs[k]) => k # j /\ Fills(jobs'[k]) /\ jobs'[k] = jobs[k]
    BY <1>2, <1>8
  <1>13. ASSUME exclude = x.held, Settled(exclude, notes, team, jobs)
         PROVE  Emptied(exclude, notes, team, jobs)'
    <2>1. Whole(y.held \cup {Head(y.todo)}, notes, team, jobs')
      <3>1. exclude \subseteq y.held \cup {Head(y.todo)} /\ Whole(exclude, notes, team, jobs)
        BY <1>5, <1>13 DEF Settled
      <3> QED BY <1>11, <3>1 DEF Whole
    <2>2. \A k \in Jobs : HoldsList(jobs'[k]) => jobs'[k].held \subseteq y.held
      BY <1>5, <1>8, <1>13 DEF Settled
    <2> QED BY <1>1, <1>7, <1>8, <2>1, <2>2 DEF Emptied
  <1>14. ASSUME exclude = x.held, Emptied(exclude, notes, team, jobs)
         PROVE  Emptied(exclude, notes, team, jobs)'
    <2>1. PICK i \in Jobs :
            /\ Fills(jobs[i]) /\ Whole(jobs[i].held \cup {Head(jobs[i].todo)}, notes, team, jobs)
            /\ \A k \in Jobs : HoldsList(jobs[k]) => jobs[k].held \subseteq jobs[i].held
      BY <1>14 DEF Emptied
    <2>2. i # j /\ jobs'[i] = jobs[i] /\ Fills(jobs'[i])
      BY <1>12, <2>1
    <2>3. Whole(jobs'[i].held \cup {Head(jobs'[i].todo)}, notes', team', jobs')
      BY <1>1, <1>11, <2>1, <2>2 DEF Whole
    <2>4. \A k \in Jobs : HoldsList(jobs'[k]) => jobs'[k].held \subseteq jobs'[i].held
      BY <1>2, <1>5, <1>8, <2>1, <2>2
    <2> QED BY <1>1, <2>2, <2>3, <2>4 DEF Emptied
  <1>15. Crossed(exclude, jobs) => Crossed(exclude, jobs)'
    <2>1. (\E k \in Jobs : Fills(jobs[k])) => Crossed(exclude, jobs)'
      BY <1>1, <1>7, <1>8, <1>12 DEF Crossed
    <2> QED BY <2>1 DEF Crossed
  <1>16. ListKept'
    <2>1. OwnKept'
      BY <1>1, <1>2, <1>5, <1>7, <1>8 DEF OwnKept, ListKept
    <2> QED BY <1>1, <1>13, <1>14, <1>15, <2>1 DEF ListKept
  <1> QED BY <1>3, <1>9, <1>10, <1>16

\* The list is written back with the new line.
LEMMA ListFilled ==
  ASSUME ProjectsIInv, NEW j \in Jobs, FillExclude(j)
  PROVE  ProjectsIInv'
  <1> USE DEF ProjectsIInv
  <1> DEFINE x == jobs[j]
             full == x.held \cup {Task(j)}
  <1>1. /\ At(j, "fill") /\ exclude' = full /\ EndTask(j)
        /\ UNCHANGED <<notes, team, texts, unread, emptied>>
        /\ disturbed' = (disturbed \/ exclude # {})
    BY DEF FillExclude
  <1>2. /\ x # None /\ x \in JobStates /\ Rewrites(x) /\ x.todo # <<>>
        /\ Task(j) \in AllNotes \cup {TwinPattern} /\ x.at = "fill" /\ HoldsList(x) /\ Fills(x)
    BY <1>1, AtTheList
  <1>3. NotesOK'
    BY <1>1 DEF NotesOK
  <1>4. JobsOK' /\ ~Rewrites(jobs'[j]) /\ \A k \in Jobs \ {j} : jobs'[k] = jobs[k]
    BY <1>1, <1>2, EndTaskIs
  <1>5. ~HoldsList(jobs'[j]) /\ ~Fills(jobs'[j])
    BY <1>4 DEF HoldsList, Fills, Rewrites
  <1>6. TeamIsSeen(exclude, team, jobs)'
    <2>1. full \subseteq Tasks \cup OwnLines
      BY <1>2, TypesOfTasks DEF JobStates
    <2>2. full \cap team = {}
      BY <1>2 DEF TeamIsSeen, Task
    <2> QED BY <1>1, <1>4, <2>1, <2>2 DEF TeamIsSeen
  <1>7. \A n : Awaited(n, jobs) => n \in full \/ Awaited(n, jobs')
    BY <1>4 DEF Awaited, Task
  <1>8. full # {}
    OBVIOUS
  <1> HIDE DEF full
  <1>9. ASSUME exclude = {}, Settled(exclude, notes, team, jobs)
        PROVE  Settled(exclude, notes, team, jobs)'
    <2>1. Whole(full, notes, team, jobs')
      BY <1>7, <1>9 DEF Settled, Whole
    <2>2. \A k \in Jobs : HoldsList(jobs'[k]) => jobs'[k].held \subseteq full
      BY <1>4, <1>5, <1>9 DEF Settled
    <2> QED BY <1>1, <2>1, <2>2 DEF Settled
  <1>10. ASSUME Emptied(exclude, notes, team, jobs)
         PROVE  Settled(exclude, notes, team, jobs)' \/ Crossed(exclude, jobs)'
    <2>1. PICK i \in Jobs :
            /\ Fills(jobs[i]) /\ Whole(jobs[i].held \cup {Head(jobs[i].todo)}, notes, team, jobs)
            /\ \A k \in Jobs : HoldsList(jobs[k]) => jobs[k].held \subseteq jobs[i].held
      BY <1>10 DEF Emptied
    <2>2. CASE i = j
      <3>1. Whole(full, notes, team, jobs)
        BY <2>1, <2>2 DEF full, Task
      <3>2. Whole(full, notes, team, jobs')
        BY <1>7, <3>1 DEF Whole
      <3>3. \A k \in Jobs : HoldsList(jobs'[k]) => jobs'[k].held \subseteq full
        BY <1>4, <1>5, <2>1, <2>2 DEF full
      <3> QED BY <1>1, <3>2, <3>3 DEF Settled
    <2>3. CASE i # j
      BY <1>1, <1>4, <1>8, <2>1, <2>3 DEF Crossed
    <2> QED BY <2>2, <2>3
  <1>11. ASSUME exclude = {}, Crossed(exclude, jobs) PROVE Crossed(exclude, jobs)'
    <2>1. PICK k \in Jobs \ {j} : Fills(jobs[k])
      BY <1>11 DEF Crossed
    <2> QED BY <1>1, <1>4, <1>8, <2>1 DEF Crossed
  <1>12. ListKept'
    <2>1. OwnKept'
      <3>1. ~emptied => OwnLines \subseteq full
        BY <1>2 DEF OwnKept, ListKept, full
      <3> QED BY <1>1, <1>4, <1>5, <3>1 DEF OwnKept, ListKept
    <2> QED BY <1>1, <1>9, <1>10, <1>11, <2>1 DEF ListKept
  <1> QED BY <1>3, <1>4, <1>6, <1>12
\* The person writes a line, or a file of their own where none was.
LEMMA PersonWrites ==
  ASSUME ProjectsIInv, NEW n \in AllNotes, WriteNote(n)
  PROVE  ProjectsIInv'
  <1> USE DEF ProjectsIInv
  <1>1. /\ UNCHANGED <<exclude, jobs, unread, disturbed, emptied>>
        /\ team' = IF Hidden(n) \/ notes[n] # None THEN team ELSE team \cup {n}
        /\ texts' = [texts EXCEPT ![n] = @ + 1]
    BY DEF WriteNote
  <1>2. PICK lines \in IF notes[n] = None THEN {<<"text">>}
                       ELSE {<<"text">> \o notes[n], Append(notes[n], "text")} :
          notes' = [notes EXCEPT ![n] = lines]
    BY DEF WriteNote
  <1>3. /\ WellMarked(lines) /\ lines # None
        /\ n \notin unread => TextIn(lines) = texts[n] + 1
    <2>1. CASE notes[n] = None
      <3>1. n \notin unread => texts[n] = 0
        BY <2>1 DEF NotesOK, TextIn
      <3> QED BY <1>2, <2>1, <3>1, LineAlone
    <2>2. CASE notes[n] # None
      <3>1. WellMarked(notes[n]) /\ (n \notin unread => TextIn(notes[n]) = texts[n])
        BY <2>2 DEF NotesOK
      <3>2. WellMarked(lines) /\ TextIn(lines) = TextIn(notes[n]) + 1
        BY <1>2, <2>2, <3>1, LineAdded
      <3>3. lines # None
        BY <3>2, ListsAssumption DEF WellMarked
      <3> QED BY <3>1, <3>2, <3>3
    <2> QED BY <2>1, <2>2
  <1>4. JobsOK'
    BY <1>1 DEF JobsOK
  <1>5. \A m \in AllNotes : /\ notes'[m] = IF m = n THEN lines ELSE notes[m]
                            /\ texts'[m] = IF m = n THEN texts[n] + 1 ELSE texts[m]
    BY <1>1, <1>2 DEF NotesOK
  <1>6. NotesOK'
    <2>1. notes' \in [AllNotes -> {None} \cup Seq(Lines)]
      <3>1. lines \in Seq(Lines)
        BY <1>3 DEF WellMarked
      <3> QED BY <1>2, <3>1 DEF NotesOK
    <2>2. texts' \in [AllNotes -> Nat]
      BY <1>1 DEF NotesOK
    <2>3. team' \subseteq AllNotes
      BY <1>1 DEF NotesOK
    <2>4. /\ \A m \in AllNotes : notes'[m] # None => WellMarked(notes'[m])
          /\ \A m \in AllNotes \ unread : TextIn(notes'[m]) = texts'[m]
      BY <1>3, <1>5 DEF NotesOK
    <2> QED BY <1>1, <2>1, <2>2, <2>3, <2>4 DEF NotesOK
  <1>7. /\ Hidden(n) <=> \/ n \in exclude
                         \/ \E j \in Jobs : Rewrites(jobs[j]) /\ (n = Task(j) \/ n \in jobs[j].held)
    <2>1. \A j \in Jobs : Rewriting(j) <=> Rewrites(jobs[j])
      BY DEF Rewriting, At, Rewrites, JobsOK, JobStates
    <2> QED BY <2>1 DEF Hidden
  <1>8. TeamIsSeen(exclude, team, jobs)'
    <2>1. CASE Hidden(n) \/ notes[n] # None
      BY <1>1, <2>1 DEF TeamIsSeen
    <2>2. CASE ~Hidden(n) /\ notes[n] = None
      BY <1>1, <1>7, <2>2 DEF TeamIsSeen, Task
    <2> QED BY <2>1, <2>2
  <1>9. ListKept'
    <2>1. ASSUME NEW list, exclude \subseteq list,
                 \A k \in Jobs : HoldsList(jobs[k]) => jobs[k].held \subseteq list,
                 NEW m \in AllNotes, Created(m, notes', team')
          PROVE  Created(m, notes, team) \/ m \in list \/ Awaited(m, jobs')
      <3>1. CASE m # n
        BY <1>1, <1>5, <2>1, <3>1 DEF Created
      <3>2. CASE m = n /\ notes[n] # None
        BY <1>1, <2>1, <3>2 DEF Created
      <3>3. CASE m = n /\ notes[n] = None
        <4>1. Hidden(n)
          BY <1>1, <2>1, <3>3 DEF Created
        <4>2. CASE n \in exclude
          BY <2>1, <3>3, <4>2
        <4>3. ASSUME NEW j \in Jobs, Rewrites(jobs[j]), n = Task(j) \/ n \in jobs[j].held
              PROVE  n \in list \/ Awaited(n, jobs')
          <5>1. CASE n = Task(j)
            BY <1>1, <4>3, <5>1 DEF Awaited, Task
          <5>2. CASE n \in jobs[j].held
            <6>1. HoldsList(jobs[j])
              BY <4>3, <5>2 DEF Rewrites, HoldsList, JobsOK, JobOK
            <6> QED BY <2>1, <5>2, <6>1
          <5> QED BY <4>3, <5>1, <5>2
        <4> QED BY <1>7, <3>3, <4>1, <4>2, <4>3
      <3> QED BY <3>1, <3>2, <3>3
    <2> QED BY <1>1, <2>1, ListStays
  <1> QED BY <1>4, <1>6, <1>8, <1>9

\* The person takes a file away.
LEMMA PersonDeletes ==
  ASSUME ProjectsIInv, NEW n \in AllNotes, DeleteNote(n)
  PROVE  ProjectsIInv'
  <1> USE DEF ProjectsIInv
  <1>1. /\ UNCHANGED <<exclude, jobs, disturbed, emptied>>
        /\ team' = team \ {n} /\ unread' = unread \ {n}
        /\ notes' = [notes EXCEPT ![n] = None] /\ texts' = [texts EXCEPT ![n] = 0]
    BY DEF DeleteNote
  <1>2. JobsOK'
    BY <1>1 DEF JobsOK
  <1>3. \A m \in AllNotes : /\ notes'[m] = IF m = n THEN None ELSE notes[m]
                            /\ texts'[m] = IF m = n THEN 0 ELSE texts[m]
    BY <1>1 DEF NotesOK
  <1>4. NotesOK'
    <2>1. TextIn(None) = 0
      BY DEF TextIn
    <2>2. /\ \A m \in AllNotes : notes'[m] # None => WellMarked(notes'[m])
          /\ \A m \in AllNotes \ unread' : TextIn(notes'[m]) = texts'[m]
      BY <1>1, <1>3, <2>1 DEF NotesOK
    <2>3. notes' \in [AllNotes -> {None} \cup Seq(Lines)]
      BY <1>1 DEF NotesOK
    <2>4. texts' \in [AllNotes -> Nat] /\ team' \subseteq AllNotes /\ unread' \subseteq AllNotes
      BY <1>1 DEF NotesOK
    <2> QED BY <2>2, <2>3, <2>4 DEF NotesOK
  <1>5. TeamIsSeen(exclude, team, jobs)'
    BY <1>1 DEF TeamIsSeen
  <1>6. ListKept'
    <2>1. \A m \in AllNotes : Created(m, notes', team') => Created(m, notes, team)
      BY <1>1, <1>3 DEF Created
    <2> QED BY <1>1, <2>1, ListStays
  <1> QED BY <1>2, <1>4, <1>5, <1>6
\* A call begins.
LEMMA JobStarts ==
  ASSUME ProjectsIInv, NEW todo \in Seq(Tasks), Free # {}, StartJob(Job(todo)),
         UNCHANGED <<notes, exclude, team, texts, unread, disturbed, emptied>>
  PROVE  ProjectsIInv'
  <1> USE DEF ProjectsIInv
  <1> DEFINE j == CHOOSE i \in Free : TRUE
             y == Job(todo)
  <1>1. j \in Free /\ jobs' = [jobs EXCEPT ![j] = y]
    BY DEF StartJob
  <1>2. y \in JobStates /\ y.at = "next" /\ y.held = {}
    BY JobIs
  <1> HIDE DEF j, y
  <1>3. j \in Jobs /\ jobs[j] = None
    BY <1>1 DEF Free
  <1>4. ~Rewrites(jobs[j])
    BY <1>3 DEF Rewrites
  <1>5. JobsOK' /\ ~Rewrites(jobs'[j]) /\ \A k \in Jobs \ {j} : jobs'[k] = jobs[k]
    BY <1>1, <1>2, <1>3, NextTasksAre
  <1> QED BY <1>3, <1>4, <1>5, BystanderStep DEF Bystander

\* The first call of a window, which begins with it.
LEMMA StartingJobsAre ==
  ASSUME jobs' = StartingJobs
  PROVE  JobsOK' /\ \A k \in Jobs : ~Rewrites(jobs'[k])
  <1>1. Job(Order) \in JobStates /\ Job(Order).at = "next" /\ Job(Order).held = {}
    BY JobIs, TypesOfTasks
  <1>2. StartupJob \in JobStates /\ StartupJob.at = "next" /\ StartupJob.held = {}
    BY <1>1 DEF StartupJob, JobStates
  <1>3. \A k \in Jobs : jobs'[k] = StartupJob \/ jobs'[k] = None
    BY DEF StartingJobs
  <1>4. \A k \in Jobs : JobOK(jobs'[k]) /\ ~Rewrites(jobs'[k])
    BY <1>2, <1>3 DEF JobOK, Rewrites
  <1>5. jobs' \in [Jobs -> {None} \cup JobStates]
    BY <1>2 DEF StartingJobs
  <1> QED BY <1>4, <1>5 DEF JobsOK

\* The window closes: what was being written is not.
LEMMA WindowRestarts ==
  ASSUME ProjectsIInv, RestartProjects
  PROVE  ProjectsIInv'
  <1> USE DEF ProjectsIInv
  <1>1. /\ jobs' = StartingJobs /\ UNCHANGED <<notes, exclude, team, texts, unread>>
        /\ emptied' = (emptied \/ \E j \in Jobs : At(j, "fill"))
        /\ disturbed' = (disturbed \/ \E j \in Jobs : Rewriting(j))
    BY DEF RestartProjects
  <1>2. JobsOK' /\ \A k \in Jobs : ~Rewrites(jobs'[k])
    BY <1>1, StartingJobsAre
  <1>3. \A k \in Jobs : ~HoldsList(jobs'[k]) /\ ~Fills(jobs'[k])
    BY <1>2 DEF HoldsList, Fills, Rewrites
  <1>4. NotesOK'
    BY <1>1 DEF NotesOK
  <1>5. TeamIsSeen(exclude, team, jobs)'
    BY <1>1, <1>2 DEF TeamIsSeen
  <1>6. ListKept'
    <2>1. ASSUME ~disturbed' PROVE Settled(exclude, notes, team, jobs)'
      <3>1. ~disturbed /\ \A j \in Jobs : ~Rewrites(jobs[j])
        BY <1>1, <2>1 DEF Rewriting, At, Rewrites, JobsOK, JobStates
      <3>2. \A j \in Jobs : ~Fills(jobs[j])
        BY <3>1 DEF Fills, Rewrites
      <3>3. Settled(exclude, notes, team, jobs)
        BY <3>1, <3>2 DEF ListKept, Emptied, Crossed
      <3>4. Whole(exclude, notes', team', jobs')
        BY <1>1, <3>1, <3>3 DEF Settled, Whole, Awaited
      <3> QED BY <1>1, <1>3, <3>4 DEF Settled
    <2>2. OwnKept'
      <3>1. \A j \in Jobs : Fills(jobs[j]) => At(j, "fill")
        BY DEF Fills, At
      <3> QED BY <1>1, <1>3, <3>1 DEF OwnKept, ListKept
    <2> QED BY <2>1, <2>2 DEF ListKept
  <1> QED BY <1>2, <1>4, <1>5, <1>6

-----------------------------------------------------------------------------
(* The invariant holds.                                                    *)

LEMMA ProjectsStart ==
  ASSUME Init
  PROVE  ProjectsIInv
  <1>1. /\ notes = FirstNotes /\ exclude = OwnLines /\ jobs = StartingJobs
        /\ team = {n \in AllNotes : FirstNotes[n] # None}
        /\ texts = [n \in AllNotes |-> TextIn(FirstNotes[n])] /\ unread = {}
    BY DEF Init, ProjectsInit
  <1>2. JobsOK /\ \A k \in Jobs : ~Rewrites(jobs[k])
    <2>1. Job(Order) \in JobStates /\ Job(Order).at = "next" /\ Job(Order).held = {}
      BY JobIs, TypesOfTasks
    <2>2. StartupJob \in JobStates /\ StartupJob.at = "next" /\ StartupJob.held = {}
      BY <2>1 DEF StartupJob, JobStates
    <2>3. \A k \in Jobs : jobs[k] = StartupJob \/ jobs[k] = None
      BY <1>1 DEF StartingJobs
    <2>4. \A k \in Jobs : JobOK(jobs[k]) /\ ~Rewrites(jobs[k])
      BY <2>2, <2>3 DEF JobOK, Rewrites
    <2>5. jobs \in [Jobs -> {None} \cup JobStates]
      BY <1>1, <2>2 DEF StartingJobs
    <2> QED BY <2>4, <2>5 DEF JobsOK
  <1>3. \A n \in AllNotes : FirstNotes[n] # None => WellMarked(FirstNotes[n])
    BY NotesAssumption
  <1>4. NotesOK
    <2>1. \A n \in AllNotes : /\ FirstNotes[n] \in {None} \cup Seq(Lines)
                              /\ TextIn(FirstNotes[n]) \in Nat
      <3>1. ASSUME NEW n \in AllNotes, FirstNotes[n] # None
            PROVE  FirstNotes[n] \in Seq(Lines) /\ TextIn(FirstNotes[n]) \in Nat
        <4>1. FirstNotes[n] \in Seq(Lines)
          BY <1>3, <3>1 DEF WellMarked
        <4>2. \A lines \in Seq(Lines) : TextIn(lines) \in Nat
          BY PlacesFinite
        <4> QED BY <4>1, <4>2
      <3>2. ASSUME NEW n \in AllNotes, FirstNotes[n] = None PROVE TextIn(FirstNotes[n]) \in Nat
        BY <3>2 DEF TextIn
      <3> QED BY <3>1, <3>2
    <2>2. FirstNotes \in [AllNotes -> {None} \cup Seq(Lines)]
      BY NotesAssumption
    <2> QED BY <1>1, <1>3, <2>1, <2>2 DEF NotesOK
  <1>5. TeamIsSeen(exclude, team, jobs)
    BY <1>1, <1>2, ProjectsAssumption DEF TeamIsSeen
  <1>6. OwnKept /\ Settled(exclude, notes, team, jobs)
    <2>1. \A k \in Jobs : ~HoldsList(jobs[k])
      BY <1>2 DEF HoldsList, Rewrites
    <2> QED BY <1>1, <2>1 DEF OwnKept, Settled, Whole, Created
  <1> QED BY <1>2, <1>4, <1>5, <1>6 DEF ProjectsIInv, ListKept

\* What leaves files, list and calls alone.
LEMMA PaperUntouched ==
  ASSUME ProjectsIInv, UNCHANGED paper
  PROVE  ProjectsIInv'
  <1>1. UNCHANGED <<notes, exclude, jobs, team, texts, unread, disturbed, emptied>>
    BY DEF paper
  <1>2. JobsOK'
    BY <1>1 DEF ProjectsIInv, JobsOK
  <1> QED BY <1>1, <1>2, BystanderStep DEF Bystander

\* The person answers, or changes the permission of a folder.
LEMMA PermissionSet ==
  ASSUME ProjectsIInv, NEW f \in Folders, NEW d, Set(f, d)
  PROVE  ProjectsIInv'
  <1>1. UNCHANGED <<notes, exclude, team, texts, unread, disturbed, emptied>>
    BY DEF Set
  <1>2. CASE d = "allowed" /\ listening
    <2>1. Free # {} /\ StartJob(Job(PrepareFolder(f)))
      BY <1>2 DEF Set
    <2>2. PrepareFolder(f) \in Seq(Tasks)
      BY TypesOfTasks
    <2> QED BY <1>1, <2>1, <2>2, JobStarts
  <1>3. CASE ~(d = "allowed" /\ listening)
    <2>1. UNCHANGED jobs
      BY <1>3 DEF Set
    <2>2. JobsOK'
      BY <2>1 DEF ProjectsIInv, JobsOK
    <2> QED BY <1>1, <2>1, <2>2, BystanderStep DEF Bystander
  <1> QED BY <1>2, <1>3

LEMMA AssistantConnected ==
  ASSUME ProjectsIInv, ConnectAssistant
  PROVE  ProjectsIInv'
  <1>1. PICK i \in DOMAIN Notes[Order[1]] : StartJob(Job([k \in DOMAIN Order |-> Notes[Order[k]][i]]))
    BY DEF ConnectAssistant
  <1> DEFINE todo == [k \in DOMAIN Order |-> Notes[Order[k]][i]]
  <1>2. Free # {} /\ UNCHANGED <<notes, exclude, team, texts, unread, disturbed, emptied>>
    BY DEF ConnectAssistant
  <1>3. todo \in Seq(Tasks)
    <2>1. Order \in Seq(Folders) /\ Len(Order) \in Nat /\ DOMAIN Order = 1..Len(Order)
      BY ListsAssumption
    <2>2. ASSUME NEW k \in DOMAIN Order PROVE Notes[Order[k]][i] \in Tasks
      <3>1. Order[k] \in Folders /\ Order[1] \in Folders
        BY <2>1
      <3>2. Notes[Order[k]] \in Seq(AllNotes) /\ Notes[Order[1]] \in Seq(AllNotes)
            /\ Len(Notes[Order[k]]) = Len(Notes[Order[1]])
        BY <3>1, ListsAssumption
      <3>3. i \in DOMAIN Notes[Order[k]]
        BY <3>2
      <3>4. Notes[Order[k]][i] \in AllNotes
        BY <3>2, <3>3
      <3> QED BY <3>4, TypesOfTasks
    <2>3. todo \in [1..Len(Order) -> Tasks]
      BY <2>1, <2>2
    <2> QED BY <2>1, <2>3
  <1> HIDE DEF todo
  <1>4. StartJob(Job(todo))
    BY <1>1 DEF todo
  <1> QED BY <1>2, <1>3, <1>4, JobStarts

\* The backfill writes no instruction file and no list.
LEMMA BackfillLeavesPaper ==
  ASSUME \/ \E t \in Threads :
              \/ Start(t) \/ Resume(t) \/ Works(t) \/ ScanEnds(t) \/ Skip(t) \/ ExplainFails(t)
              \/ PersistFails(t) \/ SaveFails(t)
         \/ \E t \in Threads \cup {Cleaner} : Clear(t)
         \/ Pause \/ Cancel
  PROVE  UNCHANGED paper
  <1>1. \A t \in Threads : Start(t) \/ Resume(t) \/ ScanEnds(t) \/ Skip(t) \/ ExplainFails(t) => UNCHANGED paper
    BY Zenon DEF Start, Resume, ScanEnds, Skip, ExplainFails
  <1>2. \A t \in Threads : Works(t) => UNCHANGED paper
    <2>1. \A t \in Threads : Load(t) \/ Reload(t) \/ Choose(t) \/ Estimate(t) => UNCHANGED paper
      BY Zenon DEF Load, Reload, Choose, Estimate, Alone
    <2>2. \A t \in Threads : Scan(t) \/ Confirm(t) \/ Decline(t) \/ Persist(t) => UNCHANGED paper
      BY Zenon DEF Scan, Confirm, Decline, Persist, Alone
    <2>3. \A t \in Threads : Loop(t) \/ Explain(t) \/ Stop(t) \/ Save(t) \/ Finish(t) => UNCHANGED paper
      BY Zenon DEF Loop, Explain, Stop, Save, Finish, Alone
    <2> QED BY <2>1, <2>2, <2>3 DEF Works
  <1>3. \A t \in Threads \cup {Cleaner} : Clear(t) => UNCHANGED paper
    BY Zenon DEF Clear, Alone
  <1>4. Pause \/ Cancel => UNCHANGED paper
    BY Zenon DEF Pause, Cancel
  <1>5. \A t \in Threads : PersistFails(t) \/ SaveFails(t) => UNCHANGED paper
    BY Zenon DEF PersistFails, SaveFails
  <1> QED BY <1>1, <1>2, <1>3, <1>4, <1>5

LEMMA ProjectsStep ==
  ASSUME ProjectsIInv, [Next]_vars
  PROVE  ProjectsIInv'
  <1>1. CASE UNCHANGED vars
    <2>1. UNCHANGED paper
      BY <1>1 DEF vars, projectVars
    <2> QED BY <2>1, PaperUntouched
  <1>2. CASE ProjectsNext
    <2>1. ASSUME NEW j \in Jobs,
                 Prepares(j) \/ NoteUnread(j) \/ NoteFails(j) \/ ReadExcludeFails(j) \/ ExcludeFails(j)
          PROVE  ProjectsIInv'
      <3>1. CASE EndJob(j) \/ ExpandFolder(j) \/ NoteFails(j)
        BY <3>1, QuietSteps
      <3>2. CASE EnsureNote(j)
        BY <3>2, NoteWritten
      <3>3. CASE EnsureGitExclude(j)
        BY <3>3, PatternWanted
      <3>4. CASE ReadExclude(j)
        BY <3>4, ListRead
      <3>5. CASE OpenExclude(j)
        BY <3>5, ListOpened
      <3>6. CASE FillExclude(j)
        BY <3>6, ListFilled
      <3>7. CASE ExcludeFails(j)
        BY <3>7, ListFails
      <3>8. CASE NoteUnread(j) \/ ReadExcludeFails(j)
        BY <3>8, NoteReplaced, ListMissed
      <3> QED BY <2>1, <3>1, <3>2, <3>3, <3>4, <3>5, <3>6, <3>7, <3>8 DEF Prepares
    <2>2. ASSUME NEW n \in AllNotes, WriteNote(n) \/ DeleteNote(n) PROVE ProjectsIInv'
      BY <2>2, PersonWrites, PersonDeletes
    <2>3. ASSUME NEW f \in Folders, CooldownOver(f) PROVE ProjectsIInv'
      BY <2>3, PaperUntouched DEF CooldownOver
    <2>4. ASSUME NEW f \in Folders, ChangePermission(f) PROVE ProjectsIInv'
      BY <2>4, PermissionSet DEF ChangePermission
    <2>5. ASSUME NEW file, Open(file) \/ EnsureTwin(file) PROVE ProjectsIInv'
      <3>1. UNCHANGED paper
        BY <2>5 DEF Open, EnsureTwin
      <3> QED BY <3>1, PaperUntouched
    <2> QED BY <1>2, <2>1, <2>2, <2>3, <2>4, <2>5, AssistantConnected DEF ProjectsNext
  <1>3. ASSUME NEW f \in Folders, NEW d, AnswerQuestion(f, d) PROVE ProjectsIInv'
    <2>1. Answer(f, d)
      BY <1>3 DEF AnswerQuestion
    <2>2. UNCHANGED paper \/ Set(f, d)
      BY <2>1 DEF Answer
    <2> QED BY <2>2, PaperUntouched, PermissionSet
  <1>4. CASE Restart
    BY <1>4, WindowRestarts DEF Restart
  <1>5. CASE UNCHANGED paper
    BY <1>5, PaperUntouched
  <1> QED BY <1>1, <1>2, <1>3, <1>4, <1>5, BackfillLeavesPaper DEF Next, Step

-----------------------------------------------------------------------------
(* The backfill: what its files and records hold.                          *)

\* What is done, and what the person still waits for.
Written == twins \cup skipped
Wanted == planned \ Written
Missing == Range(Files) \ twins

\* The files a record, a list of records and the disk still have.
ToDo(r) == {r.files[i] : i \in DOMAIN r.files} \ r.done
ToDoOf(recs) == UNION {ToDo(recs[j]) : j \in DOMAIN recs}
KeptOn(disk) == UNION {ToDo(disk[f]) : f \in {g \in Folders : disk[g] # None}}

Apart(recs) == \A i, j \in DOMAIN recs : recs[i].folder = recs[j].folder => i = j
InFile(disk, f, x) == disk[f] # None /\ x \in ToDo(disk[f])
\* What is wanted of a record is in its file: that of one whose write failed may be
\* older than it.
Covers(recs, disk, wanted) ==
  \A j \in DOMAIN recs : \A x \in ToDo(recs[j]) \cap wanted : InFile(disk, recs[j].folder, x)

\* The folders a call has chosen and those it still has to look at.
Sorted(chosen, left) ==
  /\ \A i, j \in DOMAIN chosen : chosen[i] = chosen[j] => i = j
  /\ \A i, j \in DOMAIN left : left[i] = left[j] => i = j
  /\ \A i \in DOMAIN chosen, j \in DOMAIN left : chosen[i] # left[j]

\* A call, whatever the others do.
Sound(w, done) ==
  /\ Sorted(w.chosen, w.left)
  /\ w.pc = "loading" => w.chosen = <<>>
  /\ w.pc = "asking" => w.left # <<>>
  /\ w.pc = "scanning" => w.chosen # <<>>
  /\ w.pc \in {"explaining", "saving"} => w.todo # <<>>
  /\ w.todo # <<>> => w.ri >= 1
  /\ w.pc = "saving" => w.held # None
  /\ w.held # None => w.held.done \subseteq done
  /\ \A i \in DOMAIN w.plan : w.plan[i].done = {}
  /\ w.pc = "clearing" => w.after \in {"cancelled", "done"}

Callers == Threads \cup {Cleaner}
SoundCalls(calls, done) ==
  /\ calls \in [Callers -> {None} \cup ThreadStates]
  /\ \A t \in Callers : calls[t] # None => Sound(calls[t], done)
SoundRecords(recs, done) ==
  /\ recs \in Seq(BackfillRecords)
  /\ \A j \in DOMAIN recs : recs[j].done \subseteq done
SoundDisk(disk, done) ==
  /\ disk \in [Folders -> {None} \cup BackfillRecords]
  /\ \A f \in Folders : disk[f] # None => disk[f].folder = f /\ disk[f].done \subseteq done

Claims ==
  /\ SoundCalls(th, Written) /\ SoundRecords(records, Written) /\ SoundDisk(saved, Written)
  /\ planned \subseteq Range(Files)
  /\ bstate = "paused" => running = None

\* The records before a place are finished, those left of the one there are known.
Walked(recs, ri, todo) ==
  \A j \in DOMAIN recs : /\ j < ri => ToDo(recs[j]) = {}
                         /\ j = ri => ToDo(recs[j]) \subseteq Range(todo)

\* Past the questions, while no other call is: what the stage a call is at says of
\* the records, the disk, the files still wanted and those without words.
Working(w) == IF w = None THEN FALSE
              ELSE w.pc \notin {"loading", "reloading", "choosing", "asking"}
Runs(w) == w.pc \in {"loop", "explaining", "saving", "ending"}

Estimates(w, recs, missing) ==
  /\ w.pc \in {"scanning", "confirming"} => recs = <<>>
  /\ w.pc = "confirming" => Apart(w.plan) /\ missing \subseteq FilesOf(w.plan)
Persists(w, recs, wanted) ==
  w.pc = "persisting" =>
    /\ Apart(w.plan)
    /\ \A i \in DOMAIN w.plan, j \in DOMAIN recs : w.plan[i].folder # recs[j].folder
    /\ wanted \subseteq FilesOf(w.plan) \cup ToDoOf(recs)
Explains(w, recs, wanted) ==
  /\ Runs(w) => wanted \subseteq ToDoOf(recs) /\ (w.cancelled => wanted = {})
  /\ w.pc \in {"loop", "explaining"} => Walked(recs, w.ri, w.todo)
  /\ w.pc = "saving" =>
       /\ Walked(recs, w.ri, Tail(w.todo))
       /\ \A j \in DOMAIN recs : recs[j].folder = w.held.folder => recs[j] = w.held
Closes(w, recs, wanted, stopped) ==
  /\ w.pc = "ending" => w.cancelled \/ stopped \/ ToDoOf(recs) = {}
  /\ w.pc = "clearing" => wanted = {}
AtWork(w, recs, disk, wanted, missing, stopped) ==
  /\ Apart(recs)
  /\ w.pc # "persisting" => wanted \subseteq KeptOn(disk)
  /\ w.pc # "clearing" => Covers(recs, disk, wanted)
  /\ Estimates(w, recs, missing) /\ Persists(w, recs, wanted)
  /\ Explains(w, recs, wanted) /\ Closes(w, recs, wanted, stopped)

\* Between two runs.
AtRest(recs, disk, wanted) ==
  /\ Apart(recs) /\ Covers(recs, disk, wanted)
  /\ wanted \subseteq KeptOn(disk)
  /\ recs # <<>> => wanted \subseteq ToDoOf(recs)

Nobody == \A t \in Callers : ~Working(th[t])
SoleWorker(t) == Working(th[t]) /\ \A u \in Callers \ {t} : ~Working(th[u])
InTurn ==
  \/ Nobody /\ AtRest(records, saved, Wanted)
  \/ \E t \in Callers :
       /\ SoleWorker(t)
       /\ t \in Threads => running = t
       /\ Runs(th[t]) => source = t
       /\ AtWork(th[t], records, saved, Wanted, Missing, failed \/ pausing)

BackfillIInv == Claims /\ (~shared => ~Crowded /\ InTurn)

-----------------------------------------------------------------------------
(* What a filter leaves.                                                   *)

\* The elements of a finite set of places by their number: each place has one.
LEMMA NthIs ==
  ASSUME NEW S \in SUBSET Int, IsFiniteSet(S)
  PROVE  /\ \A k \in 1..Cardinality(S) : Nth(S, k) \in S
         /\ \A k, l \in 1..Cardinality(S) : Nth(S, k) = Nth(S, l) => k = l
         /\ \A i \in S : \E k \in 1..Cardinality(S) : Nth(S, k) = i
  <1> DEFINE n == Cardinality(S)
             under(i) == {j \in S : j < i}
             rank == [i \in S |-> Cardinality(under(i)) + 1]
  <1>1. n \in Nat
    BY FS_CardinalityType
  <1>2. ASSUME NEW i \in S
        PROVE  IsFiniteSet(under(i)) /\ Cardinality(under(i)) \in Nat /\ Cardinality(under(i)) < n
    <2>1. under(i) \in SUBSET S /\ under(i) # S
      OBVIOUS
    <2>2. IsFiniteSet(under(i)) /\ Cardinality(under(i)) <= n /\ Cardinality(under(i)) # n
      BY <2>1, FS_Subset
    <2>3. Cardinality(under(i)) \in Nat
      BY <2>2, FS_CardinalityType
    <2> QED BY <1>1, <2>2, <2>3
  <1>3. ASSUME NEW i \in S, NEW j \in S, i < j
        PROVE  Cardinality(under(i)) < Cardinality(under(j))
    <2>1. i \in Int /\ j \in Int /\ \A k \in S : k \in Int
      OBVIOUS
    <2>2. under(i) \in SUBSET under(j) /\ i \in under(j) /\ i \notin under(i)
      <3>1. \A k \in S : k < i => k < j
        BY <1>3, <2>1
      <3>2. \A k \in under(i) : k \in under(j)
        BY <3>1
      <3>3. i \in under(j)
        BY <1>3
      <3>4. ~(i < i)
        BY <2>1
      <3>5. i \notin under(i)
        BY <3>4
      <3> QED BY <3>2, <3>3, <3>5
    <2>3. under(i) # under(j)
      BY <2>2
    <2>4. /\ Cardinality(under(i)) <= Cardinality(under(j))
          /\ Cardinality(under(i)) # Cardinality(under(j))
      BY <1>2, <2>2, <2>3, FS_Subset
    <2> QED BY <1>2, <2>4
  <1>4. \A i \in S : rank[i] = Cardinality(under(i)) + 1
    OBVIOUS
  <1>5. rank \in [S -> 1..n]
    BY <1>1, <1>2
  <1> HIDE DEF under
  <1>6. \A i, j \in S : Cardinality(under(i)) = Cardinality(under(j)) => i = j
    <2> TAKE i, j \in S
    <2>1. i = j \/ i < j \/ j < i
      OBVIOUS
    <2> QED BY <1>2, <1>3, <2>1
  <1>7. \A i, j \in S : rank[i] = rank[j] => i = j
    BY <1>2, <1>4, <1>6
  <1> HIDE DEF rank
  <1>8. rank \in Injection(S, 1..n)
    BY <1>5, <1>7 DEF Injection, IsInjective
  <1>9. IsFiniteSet(1..n) /\ Cardinality(1..n) = n
    BY <1>1, FS_Interval
  <1>10. rank \in Surjection(S, 1..n)
    BY <1>8, <1>9, FS_Injection
  <1>11. \A k \in 1..n : \E i \in S : Cardinality(under(i)) = k - 1
    <2> TAKE k \in 1..n
    <2>1. PICK i \in S : rank[i] = k
      BY <1>10 DEF Surjection
    <2> QED BY <1>1, <1>2, <1>4, <2>1
  <1>12. ASSUME NEW k \in 1..n
         PROVE  Nth(S, k) \in S /\ Cardinality(under(Nth(S, k))) = k - 1
    BY <1>11 DEF Nth, under
  <1>13. \A k, l \in 1..n : Nth(S, k) = Nth(S, l) => k = l
    <2> TAKE k, l \in 1..n
    <2> HAVE Nth(S, k) = Nth(S, l)
    <2>1. k - 1 = l - 1
      BY <1>12
    <2> QED BY <1>1, <2>1
  <1>14. ASSUME NEW i \in S PROVE \E k \in 1..n : Nth(S, k) = i
    <2>1. rank[i] \in 1..n /\ rank[i] = Cardinality(under(i)) + 1
      BY <1>4, <1>5
    <2>2. Cardinality(under(i)) = rank[i] - 1
      BY <1>2, <2>1
    <2>3. Nth(S, rank[i]) \in S /\ Cardinality(under(Nth(S, rank[i]))) = rank[i] - 1
      BY <1>12, <2>1
    <2>4. Nth(S, rank[i]) = i
      BY <1>6, <2>2, <2>3
    <2> QED BY <2>1, <2>4
  <1> QED BY <1>12, <1>13, <1>14

\* Each element of a selection stands at one of its places, each at another, and each
\* of the places is used.
LEMMA OnlyIs ==
  ASSUME NEW T, NEW s \in Seq(T), NEW S \in SUBSET DOMAIN s
  PROVE  /\ Only(s, S) \in Seq(T)
         /\ \A k \in DOMAIN Only(s, S) : Nth(S, k) \in S /\ Only(s, S)[k] = s[Nth(S, k)]
         /\ \A k, l \in DOMAIN Only(s, S) : Nth(S, k) = Nth(S, l) => k = l
         /\ \A i \in S : \E k \in DOMAIN Only(s, S) : Only(s, S)[k] = s[i]
         /\ Only(s, S) = <<>> <=> S = {}
  <1>1. Len(s) \in Nat /\ DOMAIN s = 1..Len(s) /\ IsFiniteSet(1..Len(s)) /\ S \in SUBSET Int
    BY FS_Interval
  <1>2. IsFiniteSet(S)
    BY <1>1, FS_Subset
  <1>3. Cardinality(S) \in Nat
    BY <1>2, FS_CardinalityType
  <1>4. /\ \A k \in 1..Cardinality(S) : Nth(S, k) \in S
        /\ \A k, l \in 1..Cardinality(S) : Nth(S, k) = Nth(S, l) => k = l
        /\ \A i \in S : \E k \in 1..Cardinality(S) : Nth(S, k) = i
    BY <1>1, <1>2, NthIs
  <1>5. Only(s, S) = [k \in 1..Cardinality(S) |-> s[Nth(S, k)]]
    BY DEF Only
  <1>6. \A i \in S : s[i] \in T
    OBVIOUS
  <1>7. Only(s, S) \in [1..Cardinality(S) -> T]
    BY <1>4, <1>5, <1>6
  <1>8. Only(s, S) \in Seq(T) /\ Len(Only(s, S)) = Cardinality(S)
    BY <1>3, <1>7
  <1>9. DOMAIN Only(s, S) = 1..Cardinality(S)
    BY <1>5
  <1>10. Only(s, S) = <<>> <=> S = {}
    <2>1. Only(s, S) = <<>> <=> Cardinality(S) = 0
      BY <1>8
    <2> QED BY <1>2, <2>1, FS_EmptySet
  <1> QED BY <1>4, <1>5, <1>8, <1>9, <1>10

-----------------------------------------------------------------------------
(* Records.                                                                *)

\* What remainingFiles() returns.
LEMMA RemainingIs ==
  ASSUME NEW r \in BackfillRecords
  PROVE  /\ RemainingFiles(r) \in Seq(Range(Files))
         /\ Range(RemainingFiles(r)) = ToDo(r)
         /\ IsComplete(r) <=> ToDo(r) = {}
  <1> DEFINE S == {i \in DOMAIN r.files : r.files[i] \notin r.done}
  <1>1. r.files \in Seq(Range(Files)) /\ S \in SUBSET DOMAIN r.files
    BY DEF BackfillRecords
  <1>2. RemainingFiles(r) = Only(r.files, S)
    BY DEF RemainingFiles
  <1>3. \A x : x \in ToDo(r) <=> \E i \in S : r.files[i] = x
    BY DEF ToDo
  <1> HIDE DEF S
  <1>4. /\ RemainingFiles(r) \in Seq(Range(Files))
        /\ \A k \in DOMAIN RemainingFiles(r) : \E i \in S : RemainingFiles(r)[k] = r.files[i]
        /\ \A i \in S : \E k \in DOMAIN RemainingFiles(r) : RemainingFiles(r)[k] = r.files[i]
        /\ RemainingFiles(r) = <<>> <=> S = {}
    BY <1>1, <1>2, OnlyIs
  <1>5. Range(RemainingFiles(r)) = ToDo(r)
    BY <1>3, <1>4 DEF Range
  <1>6. IsComplete(r) <=> ToDo(r) = {}
    BY <1>3, <1>4 DEF IsComplete
  <1> QED BY <1>4, <1>5, <1>6

\* The records that loadPersisted() reads: one for each folder that has files left.
LEMMA LoadedIs ==
  ASSUME NEW done, SoundDisk(saved, done)
  PROVE  /\ SoundRecords(Loaded, done)
         /\ Apart(Loaded) /\ \A wanted : Covers(Loaded, saved, wanted)
         /\ KeptOn(saved) = ToDoOf(Loaded)
         /\ \A j \in DOMAIN Loaded : ~IsComplete(Loaded[j])
         /\ KeptOn(saved) = UNION {Range(RemainingFiles(saved[f])) : f \in Unfinished}
  <1> DEFINE read == [i \in DOMAIN Order |-> saved[Order[i]]]
             S == {i \in DOMAIN Order : Order[i] \in Unfinished}
             T == {None} \cup BackfillRecords
  <1>1. /\ Order \in Seq(Folders) /\ None \notin BackfillRecords
        /\ \A i, k \in DOMAIN Order : Order[i] = Order[k] => i = k
    BY ListsAssumption, BackfillAssumption, ProjectsAssumption DEF IsInjective
  <1>2. \A f \in Folders : /\ saved[f] \in T
                           /\ saved[f] # None => /\ saved[f] \in BackfillRecords
                                                 /\ saved[f].folder = f /\ saved[f].done \subseteq done
    BY DEF SoundDisk
  <1>3. read \in Seq(T) /\ S \in SUBSET DOMAIN read /\ DOMAIN read = DOMAIN Order
    <2>1. Len(Order) \in Nat /\ DOMAIN Order = 1..Len(Order) /\ \A i \in DOMAIN Order : Order[i] \in Folders
      BY <1>1
    <2>2. read \in [1..Len(Order) -> T]
      BY <1>2, <2>1
    <2> QED BY <2>1, <2>2
  <1>4. \A f \in Folders : f \in Unfinished <=> saved[f] # None /\ ToDo(saved[f]) # {}
    BY <1>2, RemainingIs DEF Unfinished
  <1>5. \A i \in S : /\ Order[i] \in Folders /\ Order[i] \in Unfinished /\ read[i] = saved[Order[i]]
                     /\ saved[Order[i]] \in BackfillRecords /\ ~IsComplete(saved[Order[i]])
                     /\ saved[Order[i]].folder = Order[i] /\ saved[Order[i]].done \subseteq done
    BY <1>1, <1>2 DEF Unfinished
  <1>6. \A f \in Unfinished : f \in Folders /\ \E i \in S : Order[i] = f
    BY DEF Unfinished, Folders, Range
  <1>7. Loaded = Only(read, S)
    BY DEF Loaded
  <1> HIDE DEF S, read, T
  <1>8. /\ Loaded \in Seq(T)
        /\ \A k \in DOMAIN Loaded : Nth(S, k) \in S /\ Loaded[k] = read[Nth(S, k)]
        /\ \A k, l \in DOMAIN Loaded : Nth(S, k) = Nth(S, l) => k = l
        /\ \A i \in S : \E k \in DOMAIN Loaded : Loaded[k] = read[i]
    BY <1>3, <1>7, OnlyIs
  <1>9. \A k \in DOMAIN Loaded : /\ Loaded[k] \in BackfillRecords /\ ~IsComplete(Loaded[k])
                                 /\ Loaded[k].folder = Order[Nth(S, k)] /\ Loaded[k].done \subseteq done
                                 /\ Loaded[k] = saved[Order[Nth(S, k)]]
    BY <1>5, <1>8
  <1>10. SoundRecords(Loaded, done)
    <2>1. Loaded \in Seq(BackfillRecords)
      BY <1>8, <1>9
    <2> QED BY <1>9, <2>1 DEF SoundRecords
  <1>11. Apart(Loaded)
    <2> SUFFICES ASSUME NEW k \in DOMAIN Loaded, NEW l \in DOMAIN Loaded, Loaded[k].folder = Loaded[l].folder
                 PROVE  k = l
      BY DEF Apart
    <2>1. Nth(S, k) \in DOMAIN Order /\ Nth(S, l) \in DOMAIN Order /\ Order[Nth(S, k)] = Order[Nth(S, l)]
      BY <1>3, <1>8, <1>9
    <2> QED BY <1>1, <1>8, <2>1
  <1>12. ASSUME NEW wanted PROVE Covers(Loaded, saved, wanted)
    <2> SUFFICES ASSUME NEW k \in DOMAIN Loaded, NEW x \in ToDo(Loaded[k])
                 PROVE  InFile(saved, Loaded[k].folder, x)
      BY DEF Covers
    <2>1. Loaded[k] = saved[Loaded[k].folder] /\ Loaded[k] # None
      BY <1>1, <1>9
    <2> QED BY <2>1 DEF InFile
  <1>13. KeptOn(saved) = ToDoOf(Loaded)
    <2>1. ASSUME NEW x \in KeptOn(saved) PROVE x \in ToDoOf(Loaded)
      <3>1. PICK f \in Folders : saved[f] # None /\ x \in ToDo(saved[f])
        BY DEF KeptOn
      <3>2. f \in Unfinished
        BY <1>4, <3>1
      <3>3. PICK i \in S : Order[i] = f
        BY <1>6, <3>2
      <3>4. PICK k \in DOMAIN Loaded : Loaded[k] = saved[f]
        BY <1>5, <1>8, <3>3
      <3> QED BY <3>1, <3>4 DEF ToDoOf
    <2>2. ASSUME NEW x \in ToDoOf(Loaded) PROVE x \in KeptOn(saved)
      <3>1. PICK k \in DOMAIN Loaded : x \in ToDo(Loaded[k])
        BY DEF ToDoOf
      <3>2. /\ Order[Nth(S, k)] \in Folders /\ saved[Order[Nth(S, k)]] # None
            /\ x \in ToDo(saved[Order[Nth(S, k)]])
        BY <1>1, <1>5, <1>8, <1>9, <3>1
      <3> QED BY <3>2 DEF KeptOn
    <2> QED BY <2>1, <2>2
  <1>14. KeptOn(saved) = UNION {Range(RemainingFiles(saved[f])) : f \in Unfinished}
    <2>1. \A f \in Folders : saved[f] # None => Range(RemainingFiles(saved[f])) = ToDo(saved[f])
      BY <1>2, RemainingIs
    <2>2. \A f \in Unfinished : f \in Folders /\ saved[f] # None
      BY <1>4, <1>6
    <2>3. ASSUME NEW x \in KeptOn(saved) PROVE \E f \in Unfinished : x \in Range(RemainingFiles(saved[f]))
      BY <1>4, <2>1 DEF KeptOn
    <2>4. ASSUME NEW f \in Unfinished, NEW x \in Range(RemainingFiles(saved[f])) PROVE x \in KeptOn(saved)
      BY <2>1, <2>2 DEF KeptOn
    <2> QED BY <2>3, <2>4
  <1> QED BY <1>9, <1>10, <1>11, <1>12, <1>13, <1>14

\* What scan() plans: a record for each folder that gets files, and every file
\* without words is in one of them.
LEMMA PlanIs ==
  ASSUME NEW chosen \in Seq(Folders), chosen # <<>>,
         \A i, j \in DOMAIN chosen : chosen[i] = chosen[j] => i = j
  PROVE  /\ Plan(chosen) \in Seq(BackfillRecords) /\ Apart(Plan(chosen))
         /\ \A i \in DOMAIN Plan(chosen) : Plan(chosen)[i].done = {}
         /\ Missing \subseteq FilesOf(Plan(chosen))
  <1> DEFINE of(f) == {i \in Stale : HomeOf(chosen, Files[i]) = f}
             all == [i \in DOMAIN chosen |-> BackfillRecord(chosen[i], EntriesOf(chosen, chosen[i]))]
             S == {i \in DOMAIN chosen : all[i].files # <<>>}
  <1>1. /\ Files \in Seq(Range(Files)) /\ Len(chosen) \in Nat /\ DOMAIN chosen = 1..Len(chosen)
        /\ \A i \in DOMAIN chosen : chosen[i] \in Folders
    BY BackfillAssumption
  <1>2. \A f : of(f) \in SUBSET DOMAIN Files
    BY DEF Stale
  <1>3. \A f : EntriesOf(chosen, f) = Only(Files, of(f))
    BY DEF EntriesOf
  <1> HIDE DEF of
  <1>4. \A f : /\ EntriesOf(chosen, f) \in Seq(Range(Files))
               /\ \A i \in of(f) : \E k \in DOMAIN EntriesOf(chosen, f) : EntriesOf(chosen, f)[k] = Files[i]
    BY <1>1, <1>2, <1>3, OnlyIs
  <1>5. \A i \in DOMAIN chosen : /\ all[i] \in BackfillRecords /\ all[i].folder = chosen[i] /\ all[i].done = {}
                                 /\ all[i].files = EntriesOf(chosen, chosen[i])
    BY <1>1, <1>4 DEF BackfillRecord, BackfillRecords
  <1>6. all \in Seq(BackfillRecords) /\ DOMAIN all = DOMAIN chosen /\ S \in SUBSET DOMAIN all
    <2>1. all \in [1..Len(chosen) -> BackfillRecords]
      BY <1>1, <1>5
    <2> QED BY <1>1, <2>1
  <1>7. Plan(chosen) = Only(all, S)
    BY DEF Plan
  <1>8. \A i \in DOMAIN chosen : i \in S <=> EntriesOf(chosen, chosen[i]) # <<>>
    BY <1>5
  <1> HIDE DEF all, S
  <1>9. /\ Plan(chosen) \in Seq(BackfillRecords)
        /\ \A k \in DOMAIN Plan(chosen) : Nth(S, k) \in S /\ Plan(chosen)[k] = all[Nth(S, k)]
        /\ \A k, l \in DOMAIN Plan(chosen) : Nth(S, k) = Nth(S, l) => k = l
        /\ \A i \in S : \E k \in DOMAIN Plan(chosen) : Plan(chosen)[k] = all[i]
    BY <1>6, <1>7, OnlyIs
  <1>10. \A k \in DOMAIN Plan(chosen) : /\ Nth(S, k) \in DOMAIN chosen /\ Plan(chosen)[k].done = {}
                                        /\ Plan(chosen)[k].folder = chosen[Nth(S, k)]
    BY <1>5, <1>6, <1>9
  <1>11. Apart(Plan(chosen))
    BY <1>9, <1>10 DEF Apart
  <1>12. ASSUME NEW x \in Missing PROVE x \in FilesOf(Plan(chosen))
    <2>1. PICK i \in DOMAIN Files : Files[i] = x
      BY DEF Missing, Range
    <2>2. i \in Stale
      BY <2>1 DEF Stale, Missing
    <2>3. PICK k \in DOMAIN chosen : HomeOf(chosen, Files[i]) = chosen[k]
      <3>1. 1 \in DOMAIN chosen
        BY <1>1
      <3> QED BY <3>1 DEF HomeOf, Range
    <2>4. i \in of(chosen[k])
      BY <2>2, <2>3 DEF of
    <2>5. PICK l \in DOMAIN EntriesOf(chosen, chosen[k]) : EntriesOf(chosen, chosen[k])[l] = x
      BY <1>4, <2>1, <2>4
    <2>6. EntriesOf(chosen, chosen[k]) # <<>>
      BY <1>4, <2>5
    <2>7. PICK m \in DOMAIN Plan(chosen) : Plan(chosen)[m] = all[k]
      BY <1>8, <1>9, <2>6
    <2>8. x \in Range(Plan(chosen)[m].files)
      BY <1>5, <2>5, <2>7 DEF Range
    <2> QED BY <2>8 DEF FilesOf
  <1> QED BY <1>9, <1>10, <1>11, <1>12

-----------------------------------------------------------------------------
(* Calls that move.                                                        *)

\* More is done: what was claimed stays true.
LEMMA SoundGrows ==
  ASSUME NEW done, NEW more, done \subseteq more
  PROVE  /\ \A w : Sound(w, done) => Sound(w, more)
         /\ \A calls : SoundCalls(calls, done) => SoundCalls(calls, more)
         /\ \A recs : SoundRecords(recs, done) => SoundRecords(recs, more)
         /\ \A disk : SoundDisk(disk, done) => SoundDisk(disk, more)
  <1>1. \A w : Sound(w, done) => Sound(w, more)
    BY DEF Sound
  <1>2. \A calls : SoundCalls(calls, done) => SoundCalls(calls, more)
    BY <1>1 DEF SoundCalls
  <1>3. \A recs : SoundRecords(recs, done) => SoundRecords(recs, more)
    BY DEF SoundRecords
  <1>4. \A disk : SoundDisk(disk, done) => SoundDisk(disk, more)
    BY DEF SoundDisk
  <1> QED BY <1>1, <1>2, <1>3, <1>4

\* One call goes on.
LEMMA CallGoes ==
  ASSUME NEW t \in Callers, SoundCalls(th, Written), Written \subseteq Written',
         NEW w \in {None} \cup ThreadStates, w # None => Sound(w, Written'), Goes(t, w)
  PROVE  /\ SoundCalls(th', Written')
         /\ th'[t] = w /\ \A u \in Callers \ {t} : th'[u] = th[u]
  <1>1. th \in [Callers -> {None} \cup ThreadStates] /\ th' = [th EXCEPT ![t] = w]
    BY DEF SoundCalls, Goes
  <1>2. th' \in [Callers -> {None} \cup ThreadStates]
    BY <1>1
  <1>3. th'[t] = w /\ \A u \in Callers \ {t} : th'[u] = th[u]
    BY <1>1
  <1>4. SoundCalls(th, Written')
    BY SoundGrows
  <1>5. \A u \in Callers : th'[u] # None => Sound(th'[u], Written')
    BY <1>3, <1>4 DEF SoundCalls
  <1> QED BY <1>2, <1>3, <1>5 DEF SoundCalls

\* A call that is under way, and its state.
LEMMA CallIs ==
  ASSUME NEW t \in Callers, SoundCalls(th, Written)
  PROVE  /\ \A p : Pc(t, p) => /\ th[t] \in ThreadStates /\ th[t].pc = p /\ Sound(th[t], Written)
                               /\ (p \notin {"loading", "reloading", "choosing", "asking"} => Working(th[t]))
                               /\ (p \in {"loading", "reloading", "choosing", "asking"} => ~Working(th[t]))
         /\ Busy(t) <=> Working(th[t])
         /\ th[t] # None => th[t] \in ThreadStates
  <1>1. th[t] \in {None} \cup ThreadStates /\ (th[t] # None => Sound(th[t], Written))
    BY DEF SoundCalls
  <1> QED BY <1>1 DEF Pc, Busy, Working

\* At most one call works while none is crowded.
LEMMA WorkerIs ==
  ASSUME InTurn, NEW t \in Callers, Working(th[t])
  PROVE  /\ SoleWorker(t)
         /\ t \in Threads => running = t
         /\ Runs(th[t]) => source = t
         /\ AtWork(th[t], records, saved, Wanted, Missing, failed \/ pausing)
  BY DEF InTurn, Nobody, SoleWorker

LEMMA AtWorkShrinks ==
  ASSUME NEW w, NEW recs, NEW disk, NEW wanted, NEW missing, NEW stopped \in BOOLEAN,
         NEW fewer \in SUBSET wanted, NEW less \in SUBSET missing, NEW also \in BOOLEAN, stopped => also,
         AtWork(w, recs, disk, wanted, missing, stopped)
  PROVE  AtWork(w, recs, disk, fewer, less, also)
  <1>1. Estimates(w, recs, less)
    BY DEF AtWork, Estimates
  <1>2. Persists(w, recs, fewer)
    BY DEF AtWork, Persists
  <1>3. Explains(w, recs, fewer)
    BY DEF AtWork, Explains
  <1>4. Closes(w, recs, fewer, also)
    BY DEF AtWork, Closes
  <1>5. w.pc # "clearing" => Covers(recs, disk, fewer)
    BY DEF AtWork, Covers
  <1> QED BY <1>1, <1>2, <1>3, <1>4, <1>5 DEF AtWork

\* The one that works goes on, or ends.
LEMMA WorkerMoves ==
  ASSUME NEW t \in Callers, SoleWorker(t), NEW w,
         th'[t] = w, \A u \in Callers \ {t} : th'[u] = th[u],
         Working(w) => /\ t \in Threads => running' = t
                       /\ Runs(w) => source' = t
                       /\ AtWork(w, records', saved', Wanted', Missing', failed' \/ pausing'),
         ~Working(w) => AtRest(records', saved', Wanted')
  PROVE  InTurn'
  <1>1. \A u \in Callers \ {t} : ~Working(th'[u])
    BY DEF SoleWorker
  <1>2. CASE Working(w)
    <2>1. SoleWorker(t)'
      BY <1>1, <1>2 DEF SoleWorker
    <2> QED BY <1>2, <2>1 DEF InTurn
  <1>3. CASE ~Working(w)
    <2>1. Nobody'
      BY <1>1, <1>3 DEF Nobody
    <2> QED BY <1>3, <2>1 DEF InTurn
  <1> QED BY <1>2, <1>3

\* One begins to work where no other does.
LEMMA StarterMoves ==
  ASSUME SoundCalls(th', Written'), InTurn, ~Crowded', NEW t \in Callers, ~Working(th[t]), NEW w,
         th'[t] = w, \A u \in Callers \ {t} : th'[u] = th[u], Working(w)
  PROVE  /\ AtRest(records, saved, Wanted)
         /\ (/\ t \in Threads => running' = t
             /\ Runs(w) => source' = t
             /\ AtWork(w, records', saved', Wanted', Missing', failed' \/ pausing')) => InTurn'
  <1>1. DOMAIN th' = Callers
    BY DEF SoundCalls
  <1>2. \A u \in Callers \ {t} : ~Working(th'[u])
    <2>1. ~(\E u, v \in DOMAIN th' : u # v /\ Working(th'[u]) /\ Working(th'[v]))
      BY Zenon DEF Crowded, Busy, Working
    <2> QED BY <1>1, <2>1
  <1>3. Nobody
    BY <1>2 DEF Nobody
  <1>4. AtRest(records, saved, Wanted)
    BY <1>3 DEF InTurn, Nobody, SoleWorker
  <1>5. SoleWorker(t)'
    BY <1>2 DEF SoleWorker
  <1> QED BY <1>4, <1>5 DEF InTurn

\* Calls that do not work, and what happens beside the one that does.
LEMMA BystandersMove ==
  ASSUME InTurn, UNCHANGED <<records, saved, running, source>>,
         Wanted' \subseteq Wanted, Missing' \subseteq Missing,
         failed \/ pausing => failed' \/ pausing',
         \A u \in Callers : th'[u] = th[u] \/ (~Working(th[u]) /\ ~Working(th'[u]))
  PROVE  InTurn'
  <1>1. CASE Nobody /\ AtRest(records, saved, Wanted)
    <2>1. Nobody'
      BY <1>1 DEF Nobody
    <2>2. AtRest(records', saved', Wanted')
      BY <1>1 DEF AtRest, Covers
    <2> QED BY <2>1, <2>2 DEF InTurn
  <1>2. ASSUME NEW t \in Callers, SoleWorker(t),
               t \in Threads => running = t, Runs(th[t]) => source = t,
               AtWork(th[t], records, saved, Wanted, Missing, failed \/ pausing)
        PROVE  InTurn'
    <2>1. th'[t] = th[t] /\ SoleWorker(t)'
      BY <1>2 DEF SoleWorker
    <2>2. AtWork(th[t], records', saved', Wanted', Missing', failed' \/ pausing')
      BY <1>2, AtWorkShrinks
    <2> QED BY <1>2, <2>1, <2>2 DEF InTurn
  <1> QED BY <1>1, <1>2 DEF InTurn

-----------------------------------------------------------------------------
(* Calls that begin.                                                       *)

\* What a step keeps of the invariant.
Keeps ==
  /\ Claims'
  /\ ~shared /\ ~Crowded' /\ ~TakesOver => InTurn'

LEMMA ClaimsGo ==
  ASSUME Claims, Written \subseteq Written', NEW t \in Callers,
         NEW w \in {None} \cup ThreadStates, w # None => Sound(w, Written'), Goes(t, w),
         SoundRecords(records', Written'), SoundDisk(saved', Written'),
         planned' \subseteq Range(Files), bstate' = "paused" => running' = None
  PROVE  Claims' /\ th'[t] = w /\ \A u \in Callers \ {t} : th'[u] = th[u]
  <1>1. SoundCalls(th, Written)
    BY DEF Claims
  <1>2. SoundCalls(th', Written') /\ th'[t] = w /\ \A u \in Callers \ {t} : th'[u] = th[u]
    BY <1>1, CallGoes
  <1>3. Claims' <=> /\ SoundCalls(th', Written') /\ SoundRecords(records', Written') /\ SoundDisk(saved', Written')
                    /\ planned' \subseteq Range(Files)
                    /\ bstate' = "paused" => running' = None
    BY DEF Claims
  <1> QED BY <1>2, <1>3

\* More may be done while the rest stays.
LEMMA ClaimsStay ==
  ASSUME Claims, Written \subseteq Written'
  PROVE  /\ UNCHANGED records => SoundRecords(records', Written')
         /\ UNCHANGED saved => SoundDisk(saved', Written')
         /\ UNCHANGED planned => planned' \subseteq Range(Files)
         /\ UNCHANGED planned /\ UNCHANGED skipped /\ UNCHANGED twins => Wanted' = Wanted /\ Missing' = Missing
         /\ UNCHANGED skipped /\ UNCHANGED twins => Written' = Written
  <1>1. SoundRecords(records, Written) /\ SoundDisk(saved, Written) /\ planned \subseteq Range(Files)
    BY DEF Claims
  <1>2. SoundRecords(records, Written') /\ SoundDisk(saved, Written')
    BY <1>1, SoundGrows
  <1> QED BY <1>1, <1>2 DEF Wanted, Missing, Written

\* A new call, and one whose run begins.
LEMMA ThreadIs ==
  ASSUME NEW done
  PROVE  /\ \A p \in Stages \ {"asking", "scanning", "explaining", "saving", "clearing"} :
              Thread(p) \in ThreadStates /\ Thread(p).pc = p /\ Sound(Thread(p), done)
         /\ \A v \in ThreadStates :
              Sound(v, done) =>
                LET w == [v EXCEPT !.pc = "loop", !.ri = 0, !.todo = <<>>, !.cancelled = FALSE]
                IN /\ w \in ThreadStates /\ Sound(w, done) /\ Working(w)
                   /\ w.pc = "loop" /\ w.ri = 0 /\ w.todo = <<>> /\ w.cancelled = FALSE
  <1>1. ASSUME NEW p \in Stages \ {"asking", "scanning", "explaining", "saving", "clearing"}
        PROVE  Thread(p) \in ThreadStates /\ Thread(p).pc = p /\ Sound(Thread(p), done)
    <2>1. Thread(p) \in ThreadStates
      BY DEF Thread, ThreadStates
    <2>2. /\ Thread(p).pc = p /\ Thread(p).left = <<>> /\ Thread(p).chosen = <<>> /\ Thread(p).plan = <<>>
          /\ Thread(p).todo = <<>> /\ Thread(p).held = None
      BY DEF Thread
    <2> QED BY <2>1, <2>2 DEF Sound, Sorted
  <1>2. ASSUME NEW v \in ThreadStates, Sound(v, done), NEW w,
               w = [v EXCEPT !.pc = "loop", !.ri = 0, !.todo = <<>>, !.cancelled = FALSE]
        PROVE  /\ w \in ThreadStates /\ Sound(w, done) /\ Working(w)
               /\ w.pc = "loop" /\ w.ri = 0 /\ w.todo = <<>> /\ w.cancelled = FALSE
    <2>1. w \in ThreadStates
      <3>1. 0 \in Nat /\ <<>> \in Seq(Range(Files)) /\ "loop" \in Stages /\ FALSE \in BOOLEAN
        BY DEF Stages
      <3>2. w = [v EXCEPT !.pc = "loop", !.ri = 0, !.todo = <<>>, !.cancelled = FALSE]
        BY <1>2
      <3> QED BY <3>1, <3>2 DEF ThreadStates
    <2>2. /\ w.pc = "loop" /\ w.ri = 0 /\ w.todo = <<>> /\ w.cancelled = FALSE
          /\ w.left = v.left /\ w.chosen = v.chosen /\ w.plan = v.plan /\ w.held = v.held
      BY <1>2 DEF ThreadStates
    <2>3. w # None
      BY <2>1, BackfillAssumption
    <2> QED BY <1>2, <2>1, <2>2, <2>3 DEF Sound, Working
  <1> QED BY <1>1, <1>2

\* What is wanted of the records is on the disk.
LEMMA ListedIsKept ==
  ASSUME NEW recs, NEW done, SoundRecords(recs, done), NEW disk, NEW wanted, Covers(recs, disk, wanted)
  PROVE  ToDoOf(recs) \cap wanted \subseteq KeptOn(disk)
  <1>1. \A j \in DOMAIN recs : recs[j] \in BackfillRecords
    BY DEF SoundRecords
  <1>2. \A j \in DOMAIN recs : recs[j].folder \in Folders
    BY <1>1 DEF BackfillRecords
  <1> QED BY <1>2 DEF Covers, InFile, ToDoOf, KeptOn

\* Nothing to walk yet, or nothing left.
LEMMA LoopStarts ==
  ASSUME NEW w, w.pc = "loop", w.ri = 0, w.cancelled = FALSE,
         NEW recs, NEW done, SoundRecords(recs, done), NEW disk, NEW wanted, NEW missing, NEW stopped,
         Apart(recs), Covers(recs, disk, wanted), wanted \subseteq KeptOn(disk), wanted \subseteq ToDoOf(recs)
  PROVE  AtWork(w, recs, disk, wanted, missing, stopped)
  <1>1. \A j \in DOMAIN recs : j \in Nat /\ ~(j < 0) /\ j # 0
    BY DEF SoundRecords
  <1>2. Walked(recs, w.ri, w.todo)
    BY <1>1 DEF Walked
  <1> QED BY <1>2 DEF AtWork, Estimates, Persists, Explains, Closes, Runs

\* Nothing is left on the disk: records that were read are none.
LEMMA NothingLeft ==
  ASSUME InTurn, SoundRecords(records, Written), KeptOn(saved) = {}, records' = <<>>,
         UNCHANGED <<saved, running, source, failed, pausing>>,
         Wanted' = Wanted, Missing' = Missing,
         \A u \in Callers : th'[u] = th[u] \/ (~Working(th[u]) /\ ~Working(th'[u]))
  PROVE  InTurn'
  <1> DEFINE stopped == failed \/ pausing
  <1>1. Apart(<<>>) /\ Covers(<<>>, saved, Wanted) /\ ToDoOf(<<>>) = {}
    BY DEF Apart, Covers, ToDoOf
  <1>2. CASE Nobody /\ AtRest(records, saved, Wanted)
    <2>1. Nobody'
      BY <1>2 DEF Nobody
    <2>2. AtRest(<<>>, saved, Wanted)
      BY <1>1, <1>2 DEF AtRest
    <2> QED BY <2>1, <2>2 DEF InTurn
  <1>3. ASSUME NEW t \in Callers, SoleWorker(t),
               t \in Threads => running = t, Runs(th[t]) => source = t,
               AtWork(th[t], records, saved, Wanted, Missing, stopped)
        PROVE  InTurn'
    <2> DEFINE w == th[t]
    <2>1. th'[t] = th[t] /\ SoleWorker(t)'
      BY <1>3 DEF SoleWorker
    <2>2. w.pc # "persisting" => Wanted = {}
      BY <1>3 DEF AtWork
    <2>3. w.pc = "persisting" => ToDoOf(records) \cap Wanted = {}
      <3> HAVE w.pc = "persisting"
      <3>1. Covers(records, saved, Wanted)
        BY <1>3 DEF AtWork
      <3> QED BY <3>1, ListedIsKept
    <2>4. Estimates(w, <<>>, Missing)
      BY <1>3 DEF AtWork, Estimates
    <2>5. Persists(w, <<>>, Wanted)
      BY <1>3, <2>3, <1>1 DEF AtWork, Persists
    <2>6. Explains(w, <<>>, Wanted)
      BY <1>1, <2>2 DEF Explains, Runs, Walked
    <2>7. Closes(w, <<>>, Wanted, stopped)
      BY <1>1, <2>2 DEF Closes
    <2>8. AtWork(w, <<>>, saved, Wanted, Missing, stopped)
      BY <1>1, <2>2, <2>4, <2>5, <2>6, <2>7 DEF AtWork
    <2> QED BY <1>3, <2>1, <2>8 DEF InTurn
  <1> QED BY <1>2, <1>3 DEF InTurn

\* resume(), once it has its records.
LEMMA ResumedMoves ==
  ASSUME Claims, ~shared => InTurn, NEW t \in Threads, ~Working(th[t]),
         NEW recs, recs = records \/ recs = Loaded, records' = recs, Resumed(t, recs),
         UNCHANGED <<saved, planned, twins, skipped>>
  PROVE  Keeps
  <1>1. /\ SoundCalls(th, Written) /\ SoundRecords(records, Written) /\ SoundDisk(saved, Written)
        /\ t \in Callers /\ Written' = Written /\ Wanted' = Wanted /\ Missing' = Missing
    BY DEF Claims, Callers, Written, Wanted, Missing
  <1>2. /\ SoundRecords(Loaded, Written) /\ Apart(Loaded) /\ Covers(Loaded, saved, Wanted)
        /\ KeptOn(saved) = ToDoOf(Loaded) /\ \A j \in DOMAIN Loaded : ~IsComplete(Loaded[j])
    BY <1>1, LoadedIs
  <1>3. SoundRecords(records', Written') /\ SoundDisk(saved', Written') /\ planned' \subseteq Range(Files)
    BY <1>1, <1>2 DEF Claims
  <1>4. CASE \A i \in DOMAIN recs : IsComplete(recs[i])
    <2>1. bstate' = "idle" /\ Goes(t, None) /\ UNCHANGED <<pausing, failed, source, running>>
      BY <1>4 DEF Resumed, Ends
    <2>2. Claims' /\ th'[t] = None /\ \A u \in Callers \ {t} : th'[u] = th[u]
      BY <1>1, <1>3, <2>1, ClaimsGo
    <2>3. \A u \in Callers : th'[u] = th[u] \/ (~Working(th[u]) /\ ~Working(th'[u]))
      BY <2>2 DEF Working
    <2>4. ~shared => InTurn'
      <3>1. CASE recs = records
        BY <1>1, <2>1, <2>3, <3>1, BystandersMove
      <3>2. CASE recs = Loaded
        <4>1. DOMAIN Loaded = {}
          BY <1>2, <1>4, <3>2
        <4>2. Loaded = <<>> /\ KeptOn(saved) = {}
          BY <1>2, <4>1 DEF ToDoOf, SoundRecords
        <4> QED BY <1>1, <2>1, <2>3, <3>2, <4>2, NothingLeft
      <3> QED BY <3>1, <3>2
    <2> QED BY <2>2, <2>4 DEF Keeps
  <1>5. CASE ~(\A i \in DOMAIN recs : IsComplete(recs[i]))
    <2> DEFINE w == [Thread("loop") EXCEPT !.pc = "loop", !.ri = 0, !.todo = <<>>, !.cancelled = FALSE]
    <2>1. bstate' = "running" /\ running' = t /\ source' = t /\ Goes(t, w)
      BY <1>5 DEF Resumed, BeginRun
    <2>2. /\ w \in ThreadStates /\ Sound(w, Written) /\ Working(w)
          /\ w.pc = "loop" /\ w.ri = 0 /\ w.todo = <<>> /\ w.cancelled = FALSE
      <3>1. Thread("loop") \in ThreadStates /\ Sound(Thread("loop"), Written)
        BY ThreadIs DEF Stages
      <3> QED BY <3>1, ThreadIs
    <2> HIDE DEF w
    <2>3. Claims' /\ th'[t] = w /\ \A u \in Callers \ {t} : th'[u] = th[u]
      BY <1>1, <1>3, <2>1, <2>2, ClaimsGo
    <2>4. ASSUME ~shared, ~Crowded' PROVE InTurn'
      <3>1. SoundCalls(th', Written')
        BY <2>3 DEF Claims
      <3>2. AtRest(records, saved, Wanted)
        BY <1>1, <2>2, <2>3, <2>4, <3>1, StarterMoves
      <3>3. Apart(recs) /\ Covers(recs, saved, Wanted) /\ Wanted \subseteq KeptOn(saved) /\ Wanted \subseteq ToDoOf(recs)
        <4>1. recs # <<>>
          BY <1>5
        <4> QED BY <1>2, <3>2, <4>1 DEF AtRest
      <3>4. AtWork(w, records', saved', Wanted', Missing', failed' \/ pausing')
        <4>1. SoundRecords(recs, Written)
          BY <1>1, <1>2
        <4> QED BY <1>1, <2>2, <3>3, <4>1, LoopStarts
      <3> QED BY <1>1, <2>1, <2>2, <2>3, <2>4, <3>1, <3>4, StarterMoves
    <2> QED BY <2>3, <2>4 DEF Keeps
  <1> QED BY <1>4, <1>5

\* A call beside the work goes on, or ends.
LEMMA BystanderGoes ==
  ASSUME Claims, ~shared => InTurn, NEW t \in Callers, ~Working(th[t]),
         NEW w \in {None} \cup ThreadStates, ~Working(w), w # None => Sound(w, Written), Goes(t, w),
         UNCHANGED <<records, saved, running, source, planned, twins, skipped>>,
         failed \/ pausing => failed' \/ pausing',
         bstate' = "paused" => running' = None
  PROVE  Keeps
  <1>1. Written' = Written /\ Wanted' = Wanted /\ Missing' = Missing
    BY DEF Written, Wanted, Missing
  <1>2. SoundRecords(records', Written') /\ SoundDisk(saved', Written') /\ planned' \subseteq Range(Files)
    BY <1>1, ClaimsStay
  <1>3. Claims' /\ th'[t] = w /\ \A u \in Callers \ {t} : th'[u] = th[u]
    BY <1>1, <1>2, ClaimsGo
  <1>4. \A u \in Callers : th'[u] = th[u] \/ (~Working(th[u]) /\ ~Working(th'[u]))
    BY <1>3
  <1>5. ~shared => InTurn'
    BY <1>1, <1>4, BystandersMove
  <1> QED BY <1>3, <1>5 DEF Keeps

\* The one that works goes on, or ends.
LEMMA WorkerGoes ==
  ASSUME Claims, ~shared => InTurn, NEW t \in Callers, Working(th[t]), Written \subseteq Written',
         NEW w \in {None} \cup ThreadStates, w # None => Sound(w, Written'), Goes(t, w),
         SoundRecords(records', Written'), SoundDisk(saved', Written'),
         planned' \subseteq Range(Files), bstate' = "paused" => running' = None,
         Working(w) => UNCHANGED running \/ running' = t,
         Runs(w) /\ Working(w) => (Runs(th[t]) /\ UNCHANGED source) \/ source' = t,
         AtWork(th[t], records, saved, Wanted, Missing, failed \/ pausing) =>
           /\ Working(w) => AtWork(w, records', saved', Wanted', Missing', failed' \/ pausing')
           /\ ~Working(w) => AtRest(records', saved', Wanted')
  PROVE  Keeps
  <1>1. Claims' /\ th'[t] = w /\ \A u \in Callers \ {t} : th'[u] = th[u]
    BY ClaimsGo
  <1>2. ASSUME ~shared PROVE InTurn'
    <2>1. /\ SoleWorker(t)
          /\ t \in Threads => running = t
          /\ Runs(th[t]) => source = t
          /\ AtWork(th[t], records, saved, Wanted, Missing, failed \/ pausing)
      BY <1>2, WorkerIs
    <2>2. Working(w) => (t \in Threads => running' = t) /\ (Runs(w) => source' = t)
      BY <2>1
    <2>3. /\ Working(w) => AtWork(w, records', saved', Wanted', Missing', failed' \/ pausing')
          /\ ~Working(w) => AtRest(records', saved', Wanted')
      BY <2>1
    <2> QED BY <1>1, <2>1, <2>2, <2>3, WorkerMoves
  <1> QED BY <1>1, <1>2 DEF Keeps

LEMMA CallResumeMoves ==
  ASSUME Claims, ~shared => InTurn, NEW t \in Threads, ~Working(th[t]), CallResume(t),
         running = None \/ TakesOver, UNCHANGED <<saved, planned, twins, skipped>>
  PROVE  Keeps
  <1>1. t \in Callers /\ Written' = Written
    BY DEF Callers, Written
  <1>2. CASE running # None
    <2>1. Goes(t, None) /\ UNCHANGED <<bstate, records, running>>
      BY <1>2 DEF CallResume, Ends
    <2>2. SoundRecords(records', Written') /\ SoundDisk(saved', Written') /\ planned' \subseteq Range(Files)
      BY <1>1, <2>1, ClaimsStay
    <2>3. Claims'
      <3>1. bstate' = "paused" => running' = None
        BY <2>1 DEF Claims
      <3> QED BY <1>1, <2>1, <2>2, <3>1, ClaimsGo
    <2> QED BY <1>2, <2>3 DEF Keeps
  <1>3. CASE running = None /\ records = <<>>
    <2>1. Goes(t, Thread("reloading")) /\ UNCHANGED <<bstate, records, pausing, failed, running, source>>
      BY <1>3 DEF CallResume
    <2>2. /\ Thread("reloading") \in ThreadStates /\ Sound(Thread("reloading"), Written)
          /\ ~Working(Thread("reloading"))
      BY ThreadIs DEF Stages, Working
    <2>3. bstate' = "paused" => running' = None
      BY <2>1 DEF Claims
    <2> HIDE DEF Thread
    <2> QED BY <1>1, <2>1, <2>2, <2>3, BystanderGoes
  <1>4. CASE running = None /\ records # <<>>
    <2>1. Resumed(t, records) /\ records' = records
      BY <1>4 DEF CallResume
    <2> QED BY <2>1, ResumedMoves
  <1> QED BY <1>2, <1>3, <1>4

-----------------------------------------------------------------------------
(* The questions.                                                          *)

\* The next folder is chosen, or not.
LEMMA SortedMoves ==
  ASSUME NEW chosen \in Seq(Folders), NEW left \in Seq(Folders), left # <<>>, Sorted(chosen, left)
  PROVE  /\ Tail(left) \in Seq(Folders) /\ Append(chosen, Head(left)) \in Seq(Folders)
         /\ Sorted(chosen, Tail(left)) /\ Sorted(Append(chosen, Head(left)), Tail(left))
  <1> DEFINE more == Append(chosen, Head(left))
  <1>1. /\ Len(left) \in Nat /\ Len(left) # 0 /\ Len(chosen) \in Nat
        /\ DOMAIN left = 1..Len(left) /\ DOMAIN chosen = 1..Len(chosen)
    OBVIOUS
  <1>2. /\ Tail(left) \in Seq(Folders) /\ DOMAIN Tail(left) = 1..(Len(left) - 1)
        /\ \A i \in DOMAIN Tail(left) : i + 1 \in DOMAIN left /\ Tail(left)[i] = left[i + 1]
    BY <1>1
  <1>3. /\ more \in Seq(Folders) /\ DOMAIN more = 1..(Len(chosen) + 1)
        /\ \A i \in DOMAIN more : more[i] = IF i \in DOMAIN chosen THEN chosen[i] ELSE left[1]
        /\ \A i \in DOMAIN more : i \notin DOMAIN chosen => i = Len(chosen) + 1
    BY <1>1
  <1>4. 1 \in DOMAIN left /\ \A i \in DOMAIN Tail(left) : i + 1 # 1
    BY <1>1, <1>2
  <1> HIDE DEF more
  <1>5. Sorted(chosen, Tail(left))
    <2>1. \A i, j \in DOMAIN Tail(left) : Tail(left)[i] = Tail(left)[j] => i = j
      BY <1>2 DEF Sorted
    <2> QED BY <1>2, <2>1 DEF Sorted
  <1>6. \A i, j \in DOMAIN more : more[i] = more[j] => i = j
    BY <1>3, <1>4 DEF Sorted
  <1>7. \A i \in DOMAIN more, j \in DOMAIN Tail(left) : more[i] # Tail(left)[j]
    BY <1>2, <1>3, <1>4 DEF Sorted
  <1>8. Sorted(more, Tail(left))
    BY <1>5, <1>6, <1>7 DEF Sorted
  <1> QED BY <1>2, <1>3, <1>5, <1>8 DEF more

\* A call that still has its questions to ask.
LEMMA ChoosingIs ==
  ASSUME NEW done, NEW w \in ThreadStates, Sound(w, done),
         NEW v \in ThreadStates, v.pc \in {"choosing", "asking"}, v.pc = "asking" => v.left # <<>>,
         Sorted(v.chosen, v.left), v.todo = w.todo, v.ri = w.ri, v.held = w.held, v.plan = w.plan
  PROVE  Sound(v, done) /\ ~Working(v)
  BY DEF Sound, Working

LEMMA ChooseMoves ==
  ASSUME Claims, ~shared => InTurn, NEW t \in Threads, Choose(t)
  PROVE  Keeps
  <1> DEFINE w == th[t]
             f == Head(w.left)
             next == [w EXCEPT !.left = Tail(@)]
             taken == [next EXCEPT !.chosen = Append(@, f)]
             asks == [w EXCEPT !.pc = "asking"]
  <1>1. /\ t \in Callers /\ SoundCalls(th, Written) /\ Pc(t, "choosing") /\ w.left # <<>>
        /\ UNCHANGED <<bstate, records, pausing, failed, running, source, saved, planned, skipped, twins>>
    BY DEF Claims, Callers, Choose
  <1>2. Goes(t, taken) \/ Goes(t, next) \/ Goes(t, asks)
    BY Zenon DEF Choose, To
  <1>3. w \in ThreadStates /\ w.pc = "choosing" /\ Sound(w, Written) /\ ~Working(w)
    BY <1>1, CallIs
  <1>4. w.left \in Seq(Folders) /\ w.chosen \in Seq(Folders) /\ Sorted(w.chosen, w.left)
    BY <1>3 DEF ThreadStates, Sound
  <1>5. /\ Tail(w.left) \in Seq(Folders) /\ Append(w.chosen, f) \in Seq(Folders)
        /\ Sorted(w.chosen, Tail(w.left)) /\ Sorted(Append(w.chosen, f), Tail(w.left))
    BY <1>1, <1>4, SortedMoves
  <1> HIDE DEF w, f
  <1>6. /\ next \in ThreadStates /\ next.pc = w.pc /\ next.left = Tail(w.left) /\ next.chosen = w.chosen
        /\ next.todo = w.todo /\ next.ri = w.ri /\ next.held = w.held /\ next.plan = w.plan
    BY <1>3, <1>5 DEF ThreadStates
  <1> HIDE DEF next
  <1>7. /\ taken \in ThreadStates /\ taken.pc = w.pc /\ taken.left = next.left /\ taken.chosen = Append(w.chosen, f)
        /\ taken.todo = w.todo /\ taken.ri = w.ri /\ taken.held = w.held /\ taken.plan = w.plan
    BY <1>3, <1>5, <1>6 DEF ThreadStates
  <1>8. /\ asks \in ThreadStates /\ asks.pc = "asking" /\ asks.left = w.left /\ asks.chosen = w.chosen
        /\ asks.todo = w.todo /\ asks.ri = w.ri /\ asks.held = w.held /\ asks.plan = w.plan
    BY <1>3 DEF ThreadStates, Stages
  <1> HIDE DEF taken, asks
  <1>9. /\ Sound(next, Written) /\ ~Working(next)
        /\ Sound(taken, Written) /\ ~Working(taken)
        /\ Sound(asks, Written) /\ ~Working(asks)
    BY <1>1, <1>3, <1>4, <1>5, <1>6, <1>7, <1>8, ChoosingIs DEF w
  <1>10. bstate' = "paused" => running' = None
    BY <1>1 DEF Claims
  <1>11. ~Working(th[t])
    BY <1>3 DEF w
  <1> QED BY <1>1, <1>2, <1>6, <1>7, <1>8, <1>9, <1>10, <1>11, BystanderGoes

LEMMA AnswerMoves ==
  ASSUME Claims, ~shared => InTurn, NEW f \in Folders, NEW d, AnswerQuestion(f, d)
  PROVE  Keeps
  <1> DEFINE next(w) == [w EXCEPT !.pc = "choosing", !.left = Tail(@),
                                  !.chosen = IF d = "allowed" THEN Append(@, f) ELSE @]
  <1>1. /\ SoundCalls(th, Written) /\ DOMAIN th = Callers
        /\ UNCHANGED <<bstate, records, pausing, failed, running, source, saved, planned, skipped>>
    BY DEF Claims, SoundCalls, AnswerQuestion
  <1>2. UNCHANGED twins
    BY Zenon DEF AnswerQuestion, Answer, Set
  <1>3. th' = [t \in Callers |-> IF Pc(t, "asking") /\ Head(th[t].left) = f THEN next(th[t]) ELSE th[t]]
    BY <1>1 DEF AnswerQuestion
  <1>4. Written' = Written /\ Wanted' = Wanted /\ Missing' = Missing
    BY <1>1, <1>2 DEF Written, Wanted, Missing
  <1>5. ASSUME NEW t \in Callers, Pc(t, "asking"), Head(th[t].left) = f, NEW w, w = th[t]
        PROVE  /\ ~Working(w) /\ next(w) \in ThreadStates /\ Sound(next(w), Written) /\ ~Working(next(w))
    <2> DEFINE chosen == IF d = "allowed" THEN Append(w.chosen, f) ELSE w.chosen
    <2>1. w \in ThreadStates /\ w.pc = "asking" /\ Sound(w, Written) /\ ~Working(w)
      BY <1>1, <1>5, CallIs
    <2>2. w.left \in Seq(Folders) /\ w.chosen \in Seq(Folders) /\ Sorted(w.chosen, w.left) /\ w.left # <<>>
      BY <2>1 DEF ThreadStates, Sound
    <2>3. /\ Tail(w.left) \in Seq(Folders) /\ Append(w.chosen, f) \in Seq(Folders)
          /\ Sorted(w.chosen, Tail(w.left)) /\ Sorted(Append(w.chosen, f), Tail(w.left))
      BY <1>5, <2>2, SortedMoves
    <2>4. chosen \in Seq(Folders) /\ Sorted(chosen, Tail(w.left))
      BY <2>2, <2>3
    <2>5. next(w) = [w EXCEPT !.pc = "choosing", !.left = Tail(w.left), !.chosen = chosen]
      OBVIOUS
    <2> HIDE DEF next, chosen
    <2>6. /\ next(w) \in ThreadStates /\ next(w).pc = "choosing" /\ next(w).left = Tail(w.left)
          /\ next(w).chosen = chosen /\ next(w).todo = w.todo /\ next(w).ri = w.ri
          /\ next(w).held = w.held /\ next(w).plan = w.plan
      BY <2>1, <2>3, <2>4, <2>5 DEF ThreadStates, Stages
    <2>7. Sound(next(w), Written) /\ ~Working(next(w))
      BY <2>1, <2>4, <2>6, ChoosingIs
    <2> QED BY <2>1, <2>6, <2>7
  <1> HIDE DEF next
  <1>6. \A t \in Callers :
          \/ th'[t] = th[t]
          \/ /\ ~Working(th[t]) /\ th'[t] \in ThreadStates /\ Sound(th'[t], Written) /\ ~Working(th'[t])
    BY <1>3, <1>5
  <1>7. SoundCalls(th', Written')
    <2>1. \A t \in Callers : /\ th'[t] \in {None} \cup ThreadStates
                             /\ th'[t] # None => Sound(th'[t], Written)
      BY <1>1, <1>6 DEF SoundCalls
    <2>2. th' \in [Callers -> {None} \cup ThreadStates]
      BY <1>3, <2>1
    <2> QED BY <1>4, <2>1, <2>2 DEF SoundCalls
  <1>8. Claims'
    BY <1>1, <1>4, <1>7 DEF Claims
  <1>9. ~shared => InTurn'
    <2>1. \A t \in Callers : th'[t] = th[t] \/ (~Working(th[t]) /\ ~Working(th'[t]))
      BY <1>6
    <2> QED BY <1>1, <1>4, <2>1, BystandersMove
  <1> QED BY <1>8, <1>9 DEF Keeps

-----------------------------------------------------------------------------
(* start() and resume() up to the run.                                     *)

LEMMA LoadMoves ==
  ASSUME Claims, ~shared => InTurn, NEW t \in Threads, Load(t)
  PROVE  Keeps
  <1>1. /\ t \in Callers /\ SoundCalls(th, Written) /\ Pc(t, "loading")
        /\ UNCHANGED <<saved, planned, twins, skipped>>
    BY DEF Claims, Callers, Load, Alone
  <1>2. th[t] \in ThreadStates /\ th[t].pc = "loading" /\ Sound(th[t], Written) /\ ~Working(th[t])
    BY <1>1, CallIs
  <1>3. CASE Loaded # <<>>
    <2>1. CallResume(t)
      BY <1>3 DEF Load
    <2>2. running = None \/ TakesOver
      BY DEF TakesOver
    <2> QED BY <1>1, <1>2, <2>1, <2>2, CallResumeMoves
  <1>4. CASE Loaded = <<>>
    <2> DEFINE w == [th[t] EXCEPT !.pc = "choosing", !.left = Order]
    <2>1. Goes(t, w) /\ UNCHANGED <<bstate, records, pausing, failed, running, source>>
      BY <1>4 DEF Load
    <2>2. Order \in Seq(Folders) /\ \A i, j \in DOMAIN Order : Order[i] = Order[j] => i = j
      BY ListsAssumption, ProjectsAssumption DEF IsInjective
    <2>3. /\ w \in ThreadStates /\ w.pc = "choosing" /\ w.left = Order /\ w.chosen = th[t].chosen
          /\ w.todo = th[t].todo /\ w.ri = th[t].ri /\ w.held = th[t].held /\ w.plan = th[t].plan
      BY <1>2, <2>2 DEF ThreadStates, Stages
    <2>4. Sorted(w.chosen, w.left)
      BY <1>2, <2>2, <2>3 DEF Sound, Sorted
    <2>5. bstate' = "paused" => running' = None
      BY <2>1 DEF Claims
    <2> HIDE DEF w
    <2>6. Sound(w, Written) /\ ~Working(w)
      BY <1>2, <2>3, <2>4, ChoosingIs
    <2> QED BY <1>1, <1>2, <2>1, <2>3, <2>5, <2>6, BystanderGoes
  <1> QED BY <1>3, <1>4

LEMMA ReloadMoves ==
  ASSUME Claims, ~shared => InTurn, NEW t \in Threads, Reload(t)
  PROVE  Keeps
  <1>1. /\ t \in Callers /\ SoundCalls(th, Written) /\ Pc(t, "reloading")
        /\ UNCHANGED <<saved, planned, twins, skipped>> /\ records' = Loaded /\ Resumed(t, Loaded)
    BY DEF Claims, Callers, Reload, Alone
  <1>2. ~Working(th[t])
    BY <1>1, CallIs
  <1> QED BY <1>1, <1>2, ResumedMoves

LEMMA StartMoves ==
  ASSUME Claims, ~shared => InTurn, NEW t \in Threads, Start(t) \/ Resume(t)
  PROVE  Keeps
  <1>1. /\ t \in Callers /\ th[t] = None /\ ~Working(th[t]) /\ running = None
        /\ UNCHANGED <<saved, planned, twins, skipped>>
    BY DEF Claims, Callers, Start, Resume, Working
  <1>2. CASE CallResume(t)
    BY <1>1, <1>2, CallResumeMoves
  <1>3. CASE Goes(t, Thread("loading")) /\ UNCHANGED <<bstate, records, pausing, failed, running, source>>
    <2>1. Thread("loading") \in ThreadStates /\ Sound(Thread("loading"), Written) /\ ~Working(Thread("loading"))
      BY ThreadIs DEF Stages, Working
    <2>2. bstate' = "paused" => running' = None
      BY <1>3 DEF Claims
    <2> HIDE DEF Thread
    <2> QED BY <1>1, <1>3, <2>1, <2>2, BystanderGoes
  <1> QED BY <1>2, <1>3 DEF Start, Resume

LEMMA EstimateMoves ==
  ASSUME Claims, ~shared => InTurn, NEW t \in Threads, Estimate(t)
  PROVE  Keeps
  <1>1. /\ t \in Callers /\ SoundCalls(th, Written) /\ SoundDisk(saved, Written) /\ Pc(t, "choosing")
        /\ UNCHANGED <<saved, planned, twins, skipped, source, pausing>>
        /\ Written' = Written /\ Wanted' = Wanted /\ Missing' = Missing
    BY DEF Claims, Callers, Estimate, Alone, Written, Wanted, Missing
  <1>2. th[t] \in ThreadStates /\ th[t].pc = "choosing" /\ Sound(th[t], Written) /\ ~Working(th[t])
    BY <1>1, CallIs
  <1>3. CASE th[t].chosen = <<>>
    <2>1. Goes(t, None) /\ UNCHANGED <<bstate, records, failed, running>>
      BY <1>3 DEF Estimate, Ends
    <2>2. (bstate' = "paused" => running' = None) /\ ~Working(None)
      BY <2>1 DEF Claims, Working
    <2> QED BY <1>1, <1>2, <2>1, <2>2, BystanderGoes
  <1>4. CASE th[t].chosen # <<>>
    <2> DEFINE w == [th[t] EXCEPT !.pc = "scanning", !.caught = TRUE]
    <2>1. /\ Goes(t, w) /\ running' = t /\ records' = <<>> /\ bstate' = "estimating"
      BY <1>4 DEF Estimate
    <2>2. /\ w \in ThreadStates /\ w.pc = "scanning" /\ w.left = th[t].left /\ w.chosen = th[t].chosen
          /\ w.todo = th[t].todo /\ w.ri = th[t].ri /\ w.held = th[t].held /\ w.plan = th[t].plan
      BY <1>2 DEF ThreadStates, Stages
    <2> HIDE DEF w
    <2>3. w # None
      BY <2>2, BackfillAssumption
    <2>4. Sound(w, Written) /\ Working(w) /\ ~Runs(w)
      BY <1>2, <1>4, <2>2, <2>3 DEF Sound, Working, Runs
    <2>5. /\ SoundRecords(<<>>, Written) /\ Apart(<<>>) /\ Covers(<<>>, saved, Wanted)
      BY DEF SoundRecords, Apart, Covers
    <2>6. planned' \subseteq Range(Files)
      BY <1>1 DEF Claims
    <2>7. Claims' /\ th'[t] = w /\ \A u \in Callers \ {t} : th'[u] = th[u]
      BY <1>1, <2>1, <2>2, <2>4, <2>5, <2>6, ClaimsGo
    <2>8. ASSUME ~shared, ~Crowded' PROVE InTurn'
      <3>1. SoundCalls(th', Written')
        BY <2>7 DEF Claims
      <3>2. AtRest(records, saved, Wanted)
        BY <1>1, <1>2, <2>4, <2>7, <2>8, <3>1, StarterMoves
      <3>3. AtWork(w, <<>>, saved, Wanted, Missing, failed' \/ pausing')
        BY <2>2, <2>5, <3>2 DEF AtRest, AtWork, Estimates, Persists, Explains, Closes, Runs
      <3> QED BY <1>1, <1>2, <2>1, <2>4, <2>7, <2>8, <3>1, <3>3, StarterMoves
    <2> QED BY <2>7, <2>8 DEF Keeps
  <1> QED BY <1>3, <1>4

\* The one that works ends, and nothing on the disk was touched.
LEMMA SettlesMoves ==
  ASSUME Claims, ~shared => InTurn, NEW t \in Callers, Working(th[t]), NEW state, Settles(t, state),
         UNCHANGED <<records, saved, planned>>, Written \subseteq Written', Missing' \subseteq Missing,
         AtWork(th[t], records, saved, Wanted, Missing, failed \/ pausing)
           => AtRest(records', saved', Wanted')
  PROVE  Keeps
  <1>1. Goes(t, None) /\ running' = None
    BY DEF Settles, Ends
  <1>2. SoundRecords(records', Written') /\ SoundDisk(saved', Written') /\ planned' \subseteq Range(Files)
    BY ClaimsStay
  <1>3. ~Working(None)
    BY DEF Working
  <1> QED BY <1>1, <1>2, <1>3, WorkerGoes

\* From the estimate and from the run it is back to rest.
LEMMA RestsFrom ==
  ASSUME NEW w, NEW recs, NEW disk, NEW wanted, NEW missing, NEW stopped,
         AtWork(w, recs, disk, wanted, missing, stopped),
         w.pc \in {"scanning", "confirming", "loop", "explaining", "ending"}
  PROVE  AtRest(recs, disk, wanted)
  BY DEF AtWork, Estimates, Explains, Runs, AtRest

LEMMA ScanMoves ==
  ASSUME Claims, ~shared => InTurn, NEW t \in Threads, Scan(t) \/ ScanEnds(t) \/ Decline(t)
  PROVE  Keeps
  <1>1. /\ t \in Callers /\ SoundCalls(th, Written) /\ (Pc(t, "scanning") \/ Pc(t, "confirming"))
        /\ UNCHANGED <<records, saved, planned, twins, skipped, source, pausing>>
        /\ Written' = Written /\ Wanted' = Wanted /\ Missing' = Missing
    BY Zenon DEF Claims, Callers, Scan, ScanEnds, Decline, Alone, Written, Wanted, Missing
  <1>2. th[t] \in ThreadStates /\ th[t].pc \in {"scanning", "confirming"} /\ Sound(th[t], Written) /\ Working(th[t])
    BY <1>1, CallIs
  <1>3. ASSUME NEW state, Settles(t, state) PROVE Keeps
    <2>1. AtWork(th[t], records, saved, Wanted, Missing, failed \/ pausing) => AtRest(records', saved', Wanted')
      BY <1>1, <1>2, RestsFrom
    <2> QED BY <1>1, <1>2, <1>3, <2>1, SettlesMoves
  <1>4. ASSUME Pc(t, "scanning"), Goes(t, [th[t] EXCEPT !.pc = "confirming", !.plan = Plan(th[t].chosen)]),
               UNCHANGED <<bstate, running>>
        PROVE  Keeps
    <2> DEFINE plan == Plan(th[t].chosen)
               w == [th[t] EXCEPT !.pc = "confirming", !.plan = plan]
    <2>1. th[t].pc = "scanning" /\ th[t].chosen \in Seq(Folders) /\ th[t].chosen # <<>>
          /\ \A i, j \in DOMAIN th[t].chosen : th[t].chosen[i] = th[t].chosen[j] => i = j
      <3>1. th[t].pc = "scanning"
        BY <1>1, <1>4, CallIs
      <3> QED BY <1>2, <3>1 DEF ThreadStates, Sound, Sorted
    <2>2. /\ plan \in Seq(BackfillRecords) /\ Apart(plan) /\ \A i \in DOMAIN plan : plan[i].done = {}
          /\ Missing \subseteq FilesOf(plan)
      BY <2>1, PlanIs
    <2> HIDE DEF plan
    <2>3. /\ w \in ThreadStates /\ w.pc = "confirming" /\ w.left = th[t].left /\ w.chosen = th[t].chosen
          /\ w.todo = th[t].todo /\ w.ri = th[t].ri /\ w.held = th[t].held /\ w.plan = plan
      BY <1>2, <2>2 DEF ThreadStates, Stages
    <2>4. Goes(t, w)
      BY <1>4 DEF plan
    <2> HIDE DEF w
    <2>5. w # None
      BY <2>3, BackfillAssumption
    <2>6. Sound(w, Written) /\ Working(w) /\ ~Runs(w)
      BY <1>2, <2>2, <2>3, <2>5 DEF Sound, Working, Runs
    <2>7. SoundRecords(records', Written') /\ SoundDisk(saved', Written') /\ planned' \subseteq Range(Files)
      BY <1>1, ClaimsStay
    <2>8. bstate' = "paused" => running' = None
      BY <1>4 DEF Claims
    <2>9. ASSUME AtWork(th[t], records, saved, Wanted, Missing, failed \/ pausing)
          PROVE  AtWork(w, records', saved', Wanted', Missing', failed' \/ pausing')
      BY <1>1, <2>1, <2>2, <2>3, <2>9 DEF AtWork, Estimates, Persists, Explains, Closes, Runs
    <2> QED BY <1>1, <1>2, <1>4, <2>3, <2>4, <2>6, <2>7, <2>8, <2>9, WorkerGoes
  <1>5. CASE Scan(t)
    BY <1>3, <1>4, <1>5, Zenon DEF Scan
  <1>6. CASE ScanEnds(t)
    BY <1>3, <1>6 DEF ScanEnds
  <1>7. CASE Decline(t)
    BY <1>3, <1>7 DEF Decline
  <1> QED BY <1>5, <1>6, <1>7

LEMMA FilesOfIn ==
  ASSUME NEW recs \in Seq(BackfillRecords)
  PROVE  FilesOf(recs) \subseteq Range(Files)
  <1>1. \A i \in DOMAIN recs : recs[i].files \in Seq(Range(Files))
    <2>1. \A i \in DOMAIN recs : recs[i] \in BackfillRecords
      OBVIOUS
    <2> QED BY <2>1 DEF BackfillRecords
  <1>2. \A i \in DOMAIN recs : \A x \in Range(recs[i].files) : x \in Range(Files)
    <2> TAKE i \in DOMAIN recs
    <2>1. \A k \in DOMAIN recs[i].files : recs[i].files[k] \in Range(Files)
      BY <1>1
    <2> QED BY <2>1 DEF Range
  <1> QED BY <1>2 DEF FilesOf

LEMMA ConfirmMoves ==
  ASSUME Claims, ~shared => InTurn, NEW t \in Threads, Confirm(t)
  PROVE  Keeps
  <1> DEFINE w == [th[t] EXCEPT !.pc = "persisting"]
  <1>1. /\ t \in Callers /\ SoundCalls(th, Written) /\ Pc(t, "confirming") /\ Goes(t, w)
        /\ UNCHANGED <<records, saved, twins, skipped, source, running, bstate, pausing, failed>>
        /\ Written' = Written /\ Missing' = Missing
    BY DEF Claims, Callers, Confirm, To, Written, Missing
  <1>2. th[t] \in ThreadStates /\ th[t].pc = "confirming" /\ Sound(th[t], Written) /\ Working(th[t])
    BY <1>1, CallIs
  <1>3. planned' = planned \cup FilesOf(th[t].plan)
    BY DEF Confirm, FilesOf
  <1>4. /\ w \in ThreadStates /\ w.pc = "persisting" /\ w.left = th[t].left /\ w.chosen = th[t].chosen
        /\ w.todo = th[t].todo /\ w.ri = th[t].ri /\ w.held = th[t].held /\ w.plan = th[t].plan
    BY <1>2 DEF ThreadStates, Stages
  <1> HIDE DEF w
  <1>5. w # None
    BY <1>4, BackfillAssumption
  <1>6. Sound(w, Written) /\ Working(w) /\ ~Runs(w)
    BY <1>2, <1>4, <1>5 DEF Sound, Working, Runs
  <1>7. SoundRecords(records', Written') /\ SoundDisk(saved', Written')
    BY <1>1, ClaimsStay
  <1>8. th[t].plan \in Seq(BackfillRecords)
    BY <1>2 DEF ThreadStates
  <1>9. planned' \subseteq Range(Files) /\ (bstate' = "paused" => running' = None)
    BY <1>1, <1>3, <1>8, FilesOfIn DEF Claims
  <1>10. ASSUME AtWork(th[t], records, saved, Wanted, Missing, failed \/ pausing)
         PROVE  AtWork(w, records', saved', Wanted', Missing', failed' \/ pausing')
    <2>1. /\ Apart(records) /\ records = <<>> /\ Apart(th[t].plan)
          /\ Missing \subseteq FilesOf(th[t].plan)
      BY <1>2, <1>10 DEF AtWork, Estimates
    <2>2. Wanted' \subseteq FilesOf(w.plan)
      <3>1. planned \ Written' \subseteq Missing
        BY <1>1 DEF Claims, Missing, Written
      <3> QED BY <1>3, <1>4, <2>1, <3>1 DEF Wanted
    <2>3. Persists(w, records', Wanted')
      BY <1>1, <1>4, <2>1, <2>2 DEF Persists
    <2>4. Covers(records', saved', Wanted')
      BY <1>1, <2>1 DEF Covers
    <2> QED BY <1>1, <1>4, <2>1, <2>3, <2>4 DEF AtWork, Estimates, Explains, Closes, Runs
  <1> QED BY <1>1, <1>2, <1>4, <1>6, <1>7, <1>9, <1>10, WorkerGoes

\* One record is put in the list and on the disk.
LEMMA RecordWritten ==
  ASSUME SoundRecords(records, Written), SoundDisk(saved, Written), Apart(records),
         NEW wanted, Covers(records, saved, wanted),
         NEW rec \in BackfillRecords, rec.done = {},
         \A j \in DOMAIN records : records[j].folder # rec.folder,
         records' = Append(records, rec), saved' = [saved EXCEPT ![rec.folder] = rec]
  PROVE  /\ Apart(records') /\ Covers(records', saved', wanted)
         /\ ToDoOf(records') = ToDoOf(records) \cup Range(rec.files)
         /\ \A j \in DOMAIN records' : j \in DOMAIN records \/ records'[j] = rec
         /\ \A j \in DOMAIN records : records'[j] = records[j]
  <1> DEFINE n == Len(records) + 1
  <1>1. records \in Seq(BackfillRecords) /\ rec.folder \in Folders
    BY DEF SoundRecords, BackfillRecords
  <1>2. /\ records' \in Seq(BackfillRecords) /\ DOMAIN records' = DOMAIN records \cup {n} /\ n \notin DOMAIN records
        /\ records'[n] = rec /\ \A j \in DOMAIN records : records'[j] = records[j]
    BY <1>1
  <1>3. saved'[rec.folder] = rec /\ \A f \in Folders : f # rec.folder => saved'[f] = saved[f]
    BY <1>1 DEF SoundDisk
  <1>4. \A j \in DOMAIN records : records[j].folder \in Folders
    <2>1. \A j \in DOMAIN records : records[j] \in BackfillRecords
      BY <1>1
    <2> QED BY <2>1 DEF BackfillRecords
  <1> HIDE DEF n
  <1>5. Apart(records')
    BY <1>2 DEF Apart
  <1>6. Covers(records', saved', wanted)
    <2>1. rec # None
      BY BackfillAssumption
    <2> QED BY <1>2, <1>3, <1>4, <2>1 DEF Covers, InFile
  <1>7. ToDo(rec) = Range(rec.files)
    BY DEF ToDo, Range
  <1>8. ToDoOf(records') = ToDoOf(records) \cup Range(rec.files)
    BY <1>2, <1>7 DEF ToDoOf
  <1> QED BY <1>2, <1>5, <1>6, <1>8

LEMMA PersistMoves ==
  ASSUME Claims, ~shared => InTurn, NEW t \in Threads, Persist(t)
  PROVE  Keeps
  <1> DEFINE plan == th[t].plan
             r == Head(plan)
  <1>1. /\ t \in Callers /\ SoundCalls(th, Written) /\ SoundRecords(records, Written) /\ SoundDisk(saved, Written)
        /\ Pc(t, "persisting") /\ UNCHANGED <<planned, twins, skipped>>
        /\ Written' = Written /\ Wanted' = Wanted /\ Missing' = Missing
    BY DEF Claims, Callers, Persist, Alone, Written, Wanted, Missing
  <1>2. th[t] \in ThreadStates /\ th[t].pc = "persisting" /\ Sound(th[t], Written) /\ Working(th[t])
    BY <1>1, CallIs
  <1>3. plan \in Seq(BackfillRecords) /\ \A i \in DOMAIN plan : plan[i].done = {}
    BY <1>2 DEF ThreadStates, Sound
  <1>4. planned' \subseteq Range(Files)
    BY <1>1, ClaimsStay
  <1>5. CASE plan = <<>>
    <2> DEFINE w == [th[t] EXCEPT !.pc = "loop", !.ri = 0, !.todo = <<>>, !.cancelled = FALSE]
    <2>1. /\ bstate' = "running" /\ running' = t /\ source' = t /\ Goes(t, w) /\ UNCHANGED <<records, saved>>
      BY <1>5 DEF Persist, BeginRun
    <2>2. /\ w \in ThreadStates /\ Sound(w, Written) /\ Working(w)
          /\ w.pc = "loop" /\ w.ri = 0 /\ w.todo = <<>> /\ w.cancelled = FALSE
      BY <1>2, ThreadIs
    <2> HIDE DEF w
    <2>3. ASSUME AtWork(th[t], records, saved, Wanted, Missing, failed \/ pausing)
          PROVE  AtWork(w, records', saved', Wanted', Missing', failed' \/ pausing')
      <3>1. Apart(records) /\ Covers(records, saved, Wanted) /\ Wanted \subseteq FilesOf(plan) \cup ToDoOf(records)
        BY <1>2, <2>3 DEF AtWork, Persists
      <3>2. FilesOf(plan) = {}
        BY <1>5 DEF FilesOf
      <3>3. Wanted \subseteq ToDoOf(records) /\ Wanted \subseteq KeptOn(saved)
        BY <1>1, <3>1, <3>2, ListedIsKept
      <3> QED BY <1>1, <2>1, <2>2, <3>1, <3>3, LoopStarts
    <2> QED BY <1>1, <1>2, <1>4, <2>1, <2>2, <2>3, WorkerGoes
  <1>6. CASE plan # <<>>
    <2> DEFINE w == [th[t] EXCEPT !.plan = Tail(plan)]
               more == Append(records, r)
               now == [saved EXCEPT ![r.folder] = r]
    <2>1. /\ records' = more /\ saved' = now /\ Goes(t, w)
          /\ UNCHANGED <<bstate, pausing, failed, running, source>>
      BY <1>6 DEF Persist
    <2>2. /\ r \in BackfillRecords /\ r.done = {} /\ r = plan[1] /\ 1 \in DOMAIN plan
          /\ Tail(plan) \in Seq(BackfillRecords)
          /\ \A i \in DOMAIN Tail(plan) : i + 1 \in DOMAIN plan /\ Tail(plan)[i] = plan[i + 1] /\ i + 1 # 1
          /\ \A i \in DOMAIN plan : i = 1 \/ \E k \in DOMAIN Tail(plan) : plan[i] = Tail(plan)[k]
      <3>1. r \in BackfillRecords /\ r = plan[1] /\ 1 \in DOMAIN plan
        BY <1>3, <1>6
      <3>2. /\ Tail(plan) \in Seq(BackfillRecords) /\ Len(plan) \in Nat /\ DOMAIN plan = 1..Len(plan)
            /\ DOMAIN Tail(plan) = 1..(Len(plan) - 1)
            /\ \A i \in DOMAIN Tail(plan) : Tail(plan)[i] = plan[i + 1]
        BY <1>3, <1>6
      <3>3. \A i \in DOMAIN Tail(plan) : i + 1 \in DOMAIN plan /\ i + 1 # 1
        BY <3>2
      <3>4. \A i \in DOMAIN plan : i = 1 \/ \E k \in DOMAIN Tail(plan) : plan[i] = Tail(plan)[k]
        <4> SUFFICES ASSUME NEW i \in DOMAIN plan, i # 1
                     PROVE  \E k \in DOMAIN Tail(plan) : plan[i] = Tail(plan)[k]
          OBVIOUS
        <4>1. i - 1 \in DOMAIN Tail(plan) /\ (i - 1) + 1 = i
          BY <3>2
        <4>2. Tail(plan)[i - 1] = plan[i]
          BY <3>2, <4>1
        <4> QED BY <4>1, <4>2
      <3> QED BY <1>3, <3>1, <3>2, <3>3, <3>4
    <2> HIDE DEF plan, r
    <2>3. /\ w \in ThreadStates /\ w.pc = th[t].pc /\ w.left = th[t].left /\ w.chosen = th[t].chosen
          /\ w.todo = th[t].todo /\ w.ri = th[t].ri /\ w.held = th[t].held /\ w.plan = Tail(plan)
      BY <1>2, <2>2 DEF ThreadStates
    <2> HIDE DEF w
    <2>4. w # None
      BY <2>3, BackfillAssumption
    <2>5. Sound(w, Written) /\ Working(w) /\ ~Runs(w)
      BY <1>2, <1>3, <2>2, <2>3, <2>4 DEF Sound, Working, Runs
    <2>6. SoundRecords(records', Written') /\ SoundDisk(saved', Written')
      <3>1. SoundRecords(more, Written)
        <4>1. more \in Seq(BackfillRecords)
          BY <1>1, <2>2 DEF SoundRecords
        <4>2. \A j \in DOMAIN more : more[j].done \subseteq Written
          BY <1>1, <2>2 DEF SoundRecords
        <4> QED BY <4>1, <4>2 DEF SoundRecords
      <3>2. SoundDisk(now, Written)
        <4>1. r.folder \in Folders
          BY <2>2 DEF BackfillRecords
        <4> QED BY <1>1, <2>2, <4>1 DEF SoundDisk
      <3> QED BY <1>1, <2>1, <3>1, <3>2
    <2>7. bstate' = "paused" => running' = None
      BY <2>1 DEF Claims
    <2> HIDE DEF more, now
    <2>8. ASSUME AtWork(th[t], records, saved, Wanted, Missing, failed \/ pausing)
          PROVE  AtWork(w, records', saved', Wanted', Missing', failed' \/ pausing')
      <3>1. /\ Apart(records) /\ Covers(records, saved, Wanted)
            /\ Wanted \subseteq FilesOf(plan) \cup ToDoOf(records)
            /\ Apart(plan) /\ \A i \in DOMAIN plan, j \in DOMAIN records : plan[i].folder # records[j].folder
        BY <1>2, <2>8 DEF AtWork, Persists, plan
      <3>2. \A j \in DOMAIN records : records[j].folder # r.folder
        BY <2>2, <3>1
      <3>3. /\ Apart(more) /\ Covers(more, now, Wanted) /\ ToDoOf(more) = ToDoOf(records) \cup Range(r.files)
            /\ \A j \in DOMAIN more : j \in DOMAIN records \/ more[j] = r
            /\ \A j \in DOMAIN records : more[j] = records[j]
        <4>1. r \in BackfillRecords /\ r.done = {} /\ Apart(records) /\ Covers(records, saved, Wanted)
          BY <2>2, <3>1
        <4>2. records' = Append(records, r) /\ saved' = [saved EXCEPT ![r.folder] = r]
          BY <2>1 DEF more, now
        <4>3. /\ Apart(records') /\ Covers(records', saved', Wanted)
              /\ ToDoOf(records') = ToDoOf(records) \cup Range(r.files)
              /\ \A j \in DOMAIN records' : j \in DOMAIN records \/ records'[j] = r
              /\ \A j \in DOMAIN records : records'[j] = records[j]
          BY <1>1, <3>2, <4>1, <4>2, RecordWritten
        <4> QED BY <2>1, <4>3
      <3>4. Apart(w.plan)
        BY <2>2, <2>3, <3>1 DEF Apart
      <3>5. \A i \in DOMAIN w.plan, j \in DOMAIN more : w.plan[i].folder # more[j].folder
        <4>1. \A i \in DOMAIN w.plan : w.plan[i].folder # r.folder
          BY <2>2, <2>3, <3>1 DEF Apart
        <4>2. \A i \in DOMAIN w.plan, j \in DOMAIN records : w.plan[i].folder # records[j].folder
          BY <2>2, <2>3, <3>1
        <4> QED BY <3>3, <4>1, <4>2
      <3>6. FilesOf(plan) \subseteq Range(r.files) \cup FilesOf(w.plan)
        BY <2>2, <2>3 DEF FilesOf
      <3>7. Wanted \subseteq FilesOf(w.plan) \cup ToDoOf(more)
        BY <3>1, <3>3, <3>6
      <3>8. Persists(w, more, Wanted)
        BY <3>4, <3>5, <3>7 DEF Persists
      <3> QED BY <1>1, <1>2, <2>1, <2>3, <3>3, <3>8 DEF AtWork, Estimates, Explains, Closes, Runs
    <2> QED BY <1>1, <1>2, <1>4, <2>1, <2>3, <2>5, <2>6, <2>7, <2>8, WorkerGoes
  <1> QED BY <1>5, <1>6

\* A record could not be written: neither it nor the rest is waited for any more.
LEMMA PersistFailsMoves ==
  ASSUME Claims, ~shared => InTurn, NEW t \in Threads, PersistFails(t)
  PROVE  Keeps
  <1> DEFINE plan == th[t].plan
             r == Head(plan)
             more == Append(records, r)
             work == AtWork(th[t], records, saved, Wanted, Missing, failed \/ pausing)
  <1>1. /\ t \in Callers /\ SoundCalls(th, Written) /\ SoundRecords(records, Written) /\ SoundDisk(saved, Written)
        /\ Pc(t, "persisting") /\ plan # <<>> /\ records' = more /\ planned' = planned \ FilesOf(plan)
        /\ saved' \in {saved, [saved EXCEPT ![r.folder] = None]}
        /\ Goes(t, None) /\ running' = None /\ UNCHANGED <<twins, skipped>>
        /\ Written' = Written /\ Wanted' = Wanted \ FilesOf(plan)
    BY DEF Claims, Callers, PersistFails, Settles, Ends, Written, Wanted
  <1>2. th[t] \in ThreadStates /\ th[t].pc = "persisting" /\ Sound(th[t], Written) /\ Working(th[t])
    BY <1>1, CallIs
  <1>3. plan \in Seq(BackfillRecords) /\ \A i \in DOMAIN plan : plan[i].done = {}
    BY <1>2 DEF ThreadStates, Sound
  <1>4. /\ r = plan[1] /\ 1 \in DOMAIN plan /\ r \in BackfillRecords /\ r.folder \in Folders
        /\ r.done = {} /\ ToDo(r) \subseteq FilesOf(plan)
    <2>1. r = plan[1] /\ 1 \in DOMAIN plan
      BY <1>1, <1>3
    <2>2. r \in BackfillRecords /\ r.done = {}
      BY <1>3, <2>1
    <2>3. Range(r.files) \subseteq FilesOf(plan)
      BY <2>1 DEF FilesOf
    <2>4. ToDo(r) \subseteq Range(r.files)
      BY DEF ToDo, Range
    <2> QED BY <2>1, <2>2, <2>3, <2>4 DEF BackfillRecords
  <1> HIDE DEF r, plan
  <1>5. /\ more \in Seq(BackfillRecords)
        /\ \A j \in DOMAIN more : (j \in DOMAIN records /\ more[j] = records[j]) \/ more[j] = r
        /\ \A j \in DOMAIN records : j \in DOMAIN more /\ more[j] = records[j]
        /\ \A i, j \in DOMAIN more : i \notin DOMAIN records /\ j \notin DOMAIN records => i = j
    BY <1>1, <1>4 DEF SoundRecords
  <1> HIDE DEF more
  <1>6. SoundRecords(records', Written')
    BY <1>1, <1>4, <1>5 DEF SoundRecords
  <1>7. SoundDisk(saved', Written') /\ \A f \in Folders : f # r.folder => saved'[f] = saved[f]
    BY <1>1, <1>4 DEF SoundDisk
  <1>8. planned' \subseteq Range(Files)
    BY <1>1 DEF Claims
  <1>9. ASSUME work PROVE AtRest(records', saved', Wanted')
    <2>1. /\ Apart(records) /\ Covers(records, saved, Wanted) /\ Wanted \subseteq FilesOf(plan) \cup ToDoOf(records)
          /\ \A i \in DOMAIN plan, j \in DOMAIN records : plan[i].folder # records[j].folder
      BY <1>2, <1>9 DEF AtWork, Persists, plan
    <2>2. \A j \in DOMAIN records : records[j].folder # r.folder /\ records[j].folder \in Folders
      <3>1. \A j \in DOMAIN records : records[j] \in BackfillRecords
        BY <1>1 DEF SoundRecords
      <3> QED BY <1>4, <2>1, <3>1 DEF BackfillRecords
    <2>3. Apart(more)
      BY <1>5, <2>1, <2>2 DEF Apart
    <2>4. Covers(more, saved', Wanted')
      <3>1. \A j \in DOMAIN more : more[j] = r => ToDo(more[j]) \cap Wanted' = {}
        BY <1>1, <1>4
      <3>2. \A j \in DOMAIN records : saved'[records[j].folder] = saved[records[j].folder]
        BY <1>7, <2>2
      <3> QED BY <1>1, <1>5, <2>1, <3>1, <3>2 DEF Covers, InFile
    <2>5. Wanted' \subseteq ToDoOf(more)
      BY <1>1, <1>5, <2>1 DEF ToDoOf
    <2>6. Wanted' \subseteq KeptOn(saved')
      BY <1>1, <1>6, <2>4, <2>5, ListedIsKept
    <2> QED BY <1>1, <2>3, <2>4, <2>5, <2>6 DEF AtRest
  <1>10. ~Working(None)
    BY DEF Working
  <1> QED BY <1>1, <1>2, <1>6, <1>7, <1>8, <1>9, <1>10, WorkerGoes

-----------------------------------------------------------------------------
(* The run.                                                                *)

\* What the first of the files left, and the rest, are.
LEMMA TodoIs ==
  ASSUME NEW w \in ThreadStates, NEW done, Sound(w, done), w.todo # <<>>
  PROVE  /\ Head(w.todo) \in Range(Files) /\ Tail(w.todo) \in Seq(Range(Files))
         /\ Range(w.todo) \subseteq Range(Tail(w.todo)) \cup {Head(w.todo)}
         /\ w.ri \in Nat /\ w.ri >= 1
  <1> DEFINE s == w.todo
  <1>1. s \in Seq(Range(Files)) /\ s # <<>> /\ w.ri \in Nat /\ w.ri >= 1
    BY DEF ThreadStates, Sound
  <1> HIDE DEF s
  <1>2. /\ Len(s) \in Nat /\ DOMAIN s = 1..Len(s) /\ Head(s) = s[1] /\ s[1] \in Range(Files)
        /\ Tail(s) \in Seq(Range(Files)) /\ DOMAIN Tail(s) = 1..(Len(s) - 1)
        /\ \A i \in DOMAIN Tail(s) : Tail(s)[i] = s[i + 1]
    BY <1>1
  <1>3. ASSUME NEW i \in DOMAIN s PROVE s[i] \in Range(Tail(s)) \cup {Head(s)}
    <2>1. i = 1 \/ (i - 1 \in DOMAIN Tail(s) /\ (i - 1) + 1 = i)
      BY <1>2
    <2>2. CASE i = 1
      BY <1>2, <2>2
    <2>3. CASE i - 1 \in DOMAIN Tail(s) /\ (i - 1) + 1 = i
      <3>1. Tail(s)[i - 1] = s[i]
        BY <1>2, <2>3
      <3> QED BY <2>3, <3>1 DEF Range
    <2> QED BY <2>1, <2>2, <2>3
  <1>4. Range(s) \subseteq Range(Tail(s)) \cup {Head(s)}
    BY <1>3 DEF Range
  <1> QED BY <1>1, <1>2, <1>4 DEF s

\* The loop is left.
LEMMA EndsRun ==
  ASSUME Claims, ~shared => InTurn, NEW t \in Threads, Pc(t, "loop") \/ Pc(t, "explaining"),
         To(t, "ending"), UNCHANGED <<records, saved, running, source, bstate, planned>>,
         Written \subseteq Written', Missing' \subseteq Missing,
         AtWork(th[t], records, saved, Wanted, Missing, failed \/ pausing) =>
           /\ failed \/ pausing => failed' \/ pausing'
           /\ th[t].cancelled \/ failed' \/ pausing' \/ ToDoOf(records) = {}
  PROVE  Keeps
  <1> DEFINE w == [th[t] EXCEPT !.pc = "ending"]
  <1>1. t \in Callers /\ SoundCalls(th, Written) /\ Goes(t, w) /\ Wanted' \subseteq Wanted
    BY DEF Claims, Callers, To, Wanted
  <1>2. /\ th[t] \in ThreadStates /\ th[t].pc \in {"loop", "explaining"} /\ Sound(th[t], Written)
        /\ Working(th[t]) /\ Runs(th[t])
    BY <1>1, CallIs DEF Runs
  <1>3. /\ w \in ThreadStates /\ w.pc = "ending" /\ w.left = th[t].left /\ w.chosen = th[t].chosen
        /\ w.todo = th[t].todo /\ w.ri = th[t].ri /\ w.held = th[t].held /\ w.plan = th[t].plan
        /\ w.cancelled = th[t].cancelled
    BY <1>2 DEF ThreadStates, Stages
  <1> HIDE DEF w
  <1>4. w # None
    BY <1>3, BackfillAssumption
  <1>5. Sound(w, Written)
    BY <1>2, <1>3, <1>4 DEF Sound
  <1>6. Sound(w, Written') /\ Working(w)
    BY <1>3, <1>4, <1>5, SoundGrows DEF Working
  <1>7. /\ SoundRecords(records', Written') /\ SoundDisk(saved', Written') /\ planned' \subseteq Range(Files)
        /\ bstate' = "paused" => running' = None
    <2>1. bstate' = "paused" => running' = None
      BY DEF Claims
    <2> QED BY <2>1, ClaimsStay
  <1>8. ASSUME AtWork(th[t], records, saved, Wanted, Missing, failed \/ pausing)
        PROVE  AtWork(w, records', saved', Wanted', Missing', failed' \/ pausing')
    <2>1. AtWork(th[t], records, saved, Wanted', Missing', failed' \/ pausing')
      BY <1>1, <1>8, AtWorkShrinks
    <2>2. w.cancelled \/ failed' \/ pausing' \/ ToDoOf(records) = {}
      BY <1>3, <1>8
    <2> QED BY <1>2, <1>3, <2>1, <2>2 DEF AtWork, Estimates, Persists, Explains, Closes, Runs
  <1> QED BY <1>1, <1>2, <1>3, <1>6, <1>7, <1>8, WorkerGoes

\* A file of a record is done.
LEMMA RecordMarked ==
  ASSUME SoundRecords(records, Written), NEW k \in DOMAIN records, NEW file \in Range(Files),
         records' = [records EXCEPT ![k].done = @ \cup {file}], Written \subseteq Written', file \in Written'
  PROVE  /\ SoundRecords(records', Written') /\ DOMAIN records' = DOMAIN records
         /\ \A j \in DOMAIN records : j # k => records'[j] = records[j]
         /\ records'[k] \in BackfillRecords /\ records'[k].folder = records[k].folder
         /\ records'[k].done \subseteq Written' /\ ToDo(records'[k]) = ToDo(records[k]) \ {file}
  <1>1. records \in Seq(BackfillRecords) /\ DOMAIN records' = DOMAIN records
    BY DEF SoundRecords
  <1>2. \A j \in DOMAIN records : j # k => records'[j] = records[j]
    BY <1>1
  <1>3. records[k] \in BackfillRecords /\ records[k].done \subseteq Written'
    BY <1>1 DEF SoundRecords
  <1>4. records'[k] = [records[k] EXCEPT !.done = @ \cup {file}]
    BY <1>1
  <1>5. /\ records'[k] \in BackfillRecords /\ records'[k].folder = records[k].folder
        /\ records'[k].files = records[k].files /\ records'[k].done = records[k].done \cup {file}
    BY <1>3, <1>4 DEF BackfillRecords
  <1>6. \A j \in DOMAIN records' : records'[j] \in BackfillRecords /\ records'[j].done \subseteq Written'
    <2> TAKE j \in DOMAIN records'
    <2>1. CASE j = k
      BY <1>3, <1>5, <2>1
    <2>2. CASE j # k
      <3>1. records'[j] = records[j] /\ records[j] \in BackfillRecords
        BY <1>1, <1>2, <2>2
      <3> QED BY <1>1, <3>1 DEF SoundRecords
    <2> QED BY <2>1, <2>2
  <1>7. records' \in Seq(BackfillRecords)
    <2>1. Len(records) \in Nat /\ DOMAIN records = 1..Len(records)
      BY <1>1
    <2>2. records' = [j \in 1..Len(records) |-> records'[j]]
      BY <1>1, <2>1
    <2>3. records' \in [1..Len(records) -> BackfillRecords]
      BY <1>1, <1>6, <2>1, <2>2
    <2>4. \A n \in Nat : \A f \in [1..n -> BackfillRecords] : f \in Seq(BackfillRecords)
      OBVIOUS
    <2> QED BY <2>1, <2>3, <2>4
  <1>8. ToDo(records'[k]) = ToDo(records[k]) \ {file}
    BY <1>5 DEF ToDo
  <1> QED BY <1>1, <1>2, <1>3, <1>5, <1>6, <1>7, <1>8 DEF SoundRecords

\* A file was explained, or skipped.
LEMMA MarksMoves ==
  ASSUME Claims, ~shared => InTurn, NEW t \in Threads, Explain(t) \/ Skip(t)
  PROVE  Keeps
  <1> DEFINE w == th[t]
             file == File(t)
             k == w.ri
             v == [w EXCEPT !.pc = "saving", !.held = records'[k]]
             work == AtWork(w, records, saved, Wanted, Missing, failed \/ pausing)
  <1>1. /\ t \in Callers /\ SoundCalls(th, Written) /\ SoundRecords(records, Written)
        /\ Pc(t, "explaining") /\ MarkFileDone(t)
        /\ UNCHANGED <<planned, pausing, source, saved>>
        /\ Written \subseteq Written' /\ file \in Written' /\ Missing' \subseteq Missing
    BY Zenon DEF Claims, Callers, Explain, Skip, Written, Missing
  <1>2. w \in ThreadStates /\ w.pc = "explaining" /\ Sound(w, Written) /\ Working(w) /\ Runs(w)
    BY <1>1, CallIs DEF Runs
  <1>3. w.todo # <<>>
    BY <1>2 DEF Sound
  <1>4. /\ file \in Range(Files) /\ Tail(w.todo) \in Seq(Range(Files))
        /\ Range(w.todo) \subseteq Range(Tail(w.todo)) \cup {file} /\ k \in Nat /\ k >= 1
    BY <1>2, <1>3, TodoIs DEF File
  <1>5. Wanted' \subseteq Wanted /\ Wanted' \subseteq Wanted \ {file}
    BY <1>1 DEF Wanted
  <1>6. CASE w.cancelled
    <2>1. To(t, "ending") /\ UNCHANGED <<records, failed, bstate, running>>
      BY <1>1, <1>6 DEF MarkFileDone
    <2> QED BY <1>1, <1>6, <2>1, EndsRun
  <1>7. CASE ~w.cancelled /\ k > Len(records)
    <2>1. Throws(t)
      BY <1>1, <1>7 DEF MarkFileDone
    <2>2. UNCHANGED <<records, saved>> /\ (Settles(t, "error") \/ Settles(t, bstate))
      <3>1. UNCHANGED records
        BY <1>1, <1>7 DEF MarkFileDone
      <3>2. Settles(t, "error") \/ Settles(t, bstate)
        BY <2>1, Zenon DEF Throws
      <3> QED BY <1>1, <3>1, <3>2
    <2>3. work => AtRest(records', saved', Wanted')
      <3> HAVE work
      <3>1. AtRest(records, saved, Wanted)
        BY <1>2, RestsFrom
      <3> QED BY <1>5, <2>2, <3>1 DEF AtRest, Covers
    <2> QED BY <1>1, <1>2, <2>2, <2>3, SettlesMoves
  <1>8. CASE ~w.cancelled /\ ~(k > Len(records))
    <2>1. /\ records' = [records EXCEPT ![k].done = @ \cup {file}] /\ Goes(t, v)
          /\ UNCHANGED <<failed, bstate, running>>
      BY <1>1, <1>8 DEF MarkFileDone
    <2>2. k \in DOMAIN records
      BY <1>1, <1>4, <1>8 DEF SoundRecords
    <2> HIDE DEF k, file
    <2>3. /\ SoundRecords(records', Written') /\ DOMAIN records' = DOMAIN records
          /\ \A j \in DOMAIN records : j # k => records'[j] = records[j]
          /\ records'[k] \in BackfillRecords /\ records'[k].folder = records[k].folder
          /\ records'[k].done \subseteq Written' /\ ToDo(records'[k]) = ToDo(records[k]) \ {file}
      BY <1>1, <1>4, <2>1, <2>2, RecordMarked
    <2>4. /\ v \in ThreadStates /\ v.pc = "saving" /\ v.left = w.left /\ v.chosen = w.chosen
          /\ v.todo = w.todo /\ v.ri = k /\ v.held = records'[k] /\ v.plan = w.plan /\ v.cancelled = w.cancelled
      BY <1>2, <2>3 DEF ThreadStates, Stages, k
    <2> HIDE DEF v
    <2>5. v # None /\ v.held # None
      BY <2>3, <2>4, BackfillAssumption
    <2>6. Sound(w, Written')
      BY <1>1, <1>2, SoundGrows
    <2>7. Sound(v, Written') /\ Working(v) /\ Runs(v)
      BY <1>3, <1>4, <2>3, <2>4, <2>5, <2>6 DEF Sound, Working, Runs, k
    <2>8. SoundDisk(saved', Written') /\ planned' \subseteq Range(Files) /\ (bstate' = "paused" => running' = None)
      <3>1. bstate' = "paused" => running' = None
        BY <2>1 DEF Claims
      <3> QED BY <1>1, <3>1, ClaimsStay
    <2>9. ASSUME work PROVE AtWork(v, records', saved', Wanted', Missing', failed' \/ pausing')
      <3>1. /\ Apart(records) /\ Wanted \subseteq KeptOn(saved) /\ Covers(records, saved, Wanted)
            /\ Wanted \subseteq ToDoOf(records) /\ Walked(records, k, w.todo)
        BY <1>2, <2>9 DEF AtWork, Explains, k
      <3>2. \A j \in DOMAIN records : records'[j].folder = records[j].folder
        BY <2>3
      <3>3. Apart(records')
        BY <2>3, <3>1, <3>2 DEF Apart
      <3>4. Wanted' \subseteq ToDoOf(records')
        <4> SUFFICES ASSUME NEW x \in Wanted' PROVE x \in ToDoOf(records')
          OBVIOUS
        <4>1. PICK j \in DOMAIN records : x \in ToDo(records[j])
          BY <1>5, <3>1 DEF ToDoOf
        <4>2. x \in ToDo(records'[j])
          BY <1>5, <2>3, <4>1
        <4> QED BY <2>3, <4>2 DEF ToDoOf
      <3>5. Walked(records', v.ri, Tail(v.todo))
        <4>1. \A j \in DOMAIN records : j < k => j # k
          BY <1>4, <1>1 DEF SoundRecords
        <4>2. ToDo(records'[k]) \subseteq Range(Tail(w.todo))
          BY <1>4, <2>2, <2>3, <3>1 DEF Walked
        <4> QED BY <2>3, <2>4, <3>1, <4>1, <4>2 DEF Walked
      <3>6. \A j \in DOMAIN records' : records'[j].folder = v.held.folder => records'[j] = v.held
        <4> SUFFICES ASSUME NEW j \in DOMAIN records', records'[j].folder = v.held.folder
                     PROVE  records'[j] = v.held
          OBVIOUS
        <4>1. j = k
          BY <2>2, <2>3, <2>4, <3>3 DEF Apart
        <4> QED BY <2>4, <4>1
      <3>7. Explains(v, records', Wanted')
        BY <1>8, <2>4, <3>4, <3>5, <3>6 DEF Explains
      <3>8. Estimates(v, records', Missing') /\ Persists(v, records', Wanted')
            /\ Closes(v, records', Wanted', failed' \/ pausing')
        BY <2>4 DEF Estimates, Persists, Closes
      <3>9. Wanted' \subseteq KeptOn(saved')
        BY <1>1, <1>5, <3>1
      <3>10. Covers(records', saved', Wanted')
        <4>1. \A j \in DOMAIN records' : ToDo(records'[j]) \subseteq ToDo(records[j])
          BY <2>3
        <4> QED BY <1>1, <1>5, <2>3, <3>1, <3>2, <4>1 DEF Covers
      <3> QED BY <2>4, <3>3, <3>7, <3>8, <3>9, <3>10 DEF AtWork
    <2> QED BY <1>1, <1>2, <2>1, <2>3, <2>4, <2>7, <2>8, <2>9, WorkerGoes
  <1> QED BY <1>6, <1>7, <1>8

LEMMA StopMoves ==
  ASSUME Claims, ~shared => InTurn, NEW t \in Threads, Stop(t) \/ ExplainFails(t)
  PROVE  Keeps
  <1>1. /\ Pc(t, "explaining") /\ To(t, "ending")
        /\ UNCHANGED <<records, saved, running, source, bstate, planned, twins, skipped>>
    BY DEF Stop, ExplainFails, Alone
  <1>2. /\ th[t].cancelled \/ failed' \/ pausing'
        /\ failed \/ pausing => failed' \/ pausing'
    <2>1. CASE Stop(t)
      <3>1. (pausing \/ th[t].cancelled) /\ pausing' = pausing /\ failed' = failed
        BY <2>1 DEF Stop
      <3> QED BY <3>1
    <2>2. CASE ExplainFails(t)
      <3>1. failed' = (failed \/ ~th[t].cancelled) /\ pausing' = pausing
        BY <2>2 DEF ExplainFails
      <3> QED BY <3>1
    <2> QED BY <2>1, <2>2
  <1>3. Written' = Written /\ Missing' = Missing
    BY <1>1 DEF Written, Missing
  <1> QED BY <1>1, <1>2, <1>3, EndsRun

LEMMA SaveMoves ==
  ASSUME Claims, ~shared => InTurn, NEW t \in Threads, Save(t)
  PROVE  Keeps
  <1> DEFINE w == th[t]
             r == w.held
             v == [w EXCEPT !.pc = "loop", !.todo = Tail(@), !.held = None]
             work == AtWork(w, records, saved, Wanted, Missing, failed \/ pausing)
  <1>1. /\ t \in Callers /\ SoundCalls(th, Written) /\ SoundRecords(records, Written) /\ SoundDisk(saved, Written)
        /\ Pc(t, "saving") /\ Goes(t, v) /\ saved' = [saved EXCEPT ![r.folder] = r]
        /\ UNCHANGED <<planned, twins, skipped, bstate, records, pausing, failed, running, source>>
        /\ Written' = Written /\ Wanted' = Wanted /\ Missing' = Missing
    BY DEF Claims, Callers, Save, Alone, Written, Wanted, Missing
  <1>2. w \in ThreadStates /\ w.pc = "saving" /\ Sound(w, Written) /\ Working(w) /\ Runs(w)
    BY <1>1, CallIs DEF Runs
  <1>3. w.todo # <<>> /\ r # None /\ r \in BackfillRecords /\ r.done \subseteq Written
    BY <1>2 DEF Sound, ThreadStates
  <1>4. Tail(w.todo) \in Seq(Range(Files)) /\ w.ri >= 1
    BY <1>2, <1>3, TodoIs
  <1>5. r.folder \in Folders
    BY <1>3 DEF BackfillRecords
  <1> HIDE DEF r
  <1>6. /\ saved'[r.folder] = r /\ \A f \in Folders : f # r.folder => saved'[f] = saved[f]
        /\ SoundDisk(saved', Written')
    BY <1>1, <1>3, <1>5 DEF SoundDisk
  <1>7. /\ v \in ThreadStates /\ v.pc = "loop" /\ v.left = w.left /\ v.chosen = w.chosen
        /\ v.todo = Tail(w.todo) /\ v.ri = w.ri /\ v.held = None /\ v.plan = w.plan /\ v.cancelled = w.cancelled
    BY <1>2, <1>4 DEF ThreadStates, Stages
  <1> HIDE DEF v
  <1>8. v # None
    BY <1>7, BackfillAssumption
  <1>9. Sound(v, Written') /\ Working(v) /\ Runs(v)
    BY <1>1, <1>2, <1>4, <1>7, <1>8 DEF Sound, Working, Runs
  <1>10. SoundRecords(records', Written') /\ planned' \subseteq Range(Files) /\ (bstate' = "paused" => running' = None)
    BY <1>1 DEF Claims
  <1>11. ASSUME work PROVE AtWork(v, records', saved', Wanted', Missing', failed' \/ pausing')
    <2>1. /\ Apart(records) /\ Wanted \subseteq ToDoOf(records) /\ (w.cancelled => Wanted = {})
          /\ Walked(records, w.ri, Tail(w.todo)) /\ Covers(records, saved, Wanted)
          /\ \A j \in DOMAIN records : records[j].folder = r.folder => records[j] = r
      BY <1>2, <1>11 DEF AtWork, Explains, r
    <2>2. \A j \in DOMAIN records : records[j].folder \in Folders
      <3>1. \A j \in DOMAIN records : records[j] \in BackfillRecords
        BY <1>1 DEF SoundRecords
      <3> QED BY <3>1 DEF BackfillRecords
    <2>3. Covers(records, saved', Wanted)
      BY <1>3, <1>6, <2>1, <2>2 DEF Covers, InFile
    <2>4. Wanted \subseteq KeptOn(saved')
      BY <1>1, <2>1, <2>3, ListedIsKept
    <2>5. Explains(v, records, Wanted)
      BY <1>7, <2>1 DEF Explains
    <2> QED BY <1>1, <1>7, <2>1, <2>3, <2>4, <2>5 DEF AtWork, Estimates, Persists, Closes
  <1> QED BY <1>1, <1>2, <1>6, <1>7, <1>9, <1>10, <1>11, WorkerGoes

\* A record could not be written: its file is what it was, or nothing it held is
\* waited for any more.
LEMMA SaveFailsMoves ==
  ASSUME Claims, ~shared => InTurn, NEW t \in Threads, SaveFails(t)
  PROVE  Keeps
  <1> DEFINE w == th[t]
             r == w.held
             work == AtWork(w, records, saved, Wanted, Missing, failed \/ pausing)
  <1>1. /\ t \in Callers /\ SoundCalls(th, Written) /\ SoundRecords(records, Written) /\ SoundDisk(saved, Written)
        /\ Pc(t, "saving") /\ UNCHANGED <<twins, skipped, records>> /\ Written' = Written
    BY DEF Claims, Callers, SaveFails, Written
  <1>2. w \in ThreadStates /\ w.pc = "saving" /\ Sound(w, Written) /\ Working(w) /\ Runs(w)
    BY <1>1, CallIs DEF Runs
  <1>3. r # None /\ r \in BackfillRecords /\ r.folder \in Folders /\ ToDo(r) \subseteq Range(r.files)
    <2>1. r # None /\ r \in BackfillRecords
      BY <1>2 DEF Sound, ThreadStates
    <2> QED BY <2>1 DEF BackfillRecords, ToDo, Range
  <1>4. \/ saved' = saved /\ planned' = planned
        \/ saved' = [saved EXCEPT ![r.folder] = None] /\ planned' = planned \ Range(r.files)
    BY DEF SaveFails
  <1>5. Goes(t, None) /\ running' = None
    <2>1. Settles(t, "error") \/ Settles(t, bstate)
      BY Zenon DEF SaveFails, Throws
    <2> QED BY <2>1 DEF Settles, Ends
  <1> HIDE DEF r
  <1>6. /\ SoundRecords(records', Written') /\ SoundDisk(saved', Written') /\ planned' \subseteq Range(Files)
        /\ Wanted' \subseteq Wanted
        /\ \A f \in Folders : f # r.folder => saved'[f] = saved[f]
        /\ saved' = saved \/ Wanted' \cap ToDo(r) = {}
    BY <1>1, <1>3, <1>4 DEF Claims, SoundDisk, Wanted
  <1>7. ASSUME work PROVE AtRest(records', saved', Wanted')
    <2>1. /\ Apart(records) /\ Wanted \subseteq ToDoOf(records) /\ Covers(records, saved, Wanted)
          /\ \A j \in DOMAIN records : records[j].folder = r.folder => records[j] = r
      BY <1>2, <1>7 DEF AtWork, Explains, r
    <2>2. \A j \in DOMAIN records : records[j].folder \in Folders
      <3>1. \A j \in DOMAIN records : records[j] \in BackfillRecords
        BY <1>1 DEF SoundRecords
      <3> QED BY <3>1 DEF BackfillRecords
    <2>3. Covers(records, saved', Wanted')
      <3>1. CASE saved' = saved
        BY <1>6, <2>1, <3>1 DEF Covers
      <3>2. CASE Wanted' \cap ToDo(r) = {}
        BY <1>6, <2>1, <2>2, <3>2 DEF Covers, InFile
      <3> QED BY <1>6, <3>1, <3>2
    <2>4. Wanted' \subseteq KeptOn(saved')
      <3>1. ToDoOf(records) \cap Wanted' \subseteq KeptOn(saved')
        BY <1>1, <2>3, ListedIsKept
      <3> QED BY <1>6, <2>1, <3>1
    <2> QED BY <1>1, <1>6, <2>1, <2>3, <2>4 DEF AtRest
  <1>8. ~Working(None)
    BY DEF Working
  <1> QED BY <1>1, <1>2, <1>5, <1>6, <1>7, <1>8, WorkerGoes

LEMMA LoopMoves ==
  ASSUME Claims, ~shared => InTurn, NEW t \in Threads, Loop(t)
  PROVE  Keeps
  <1> DEFINE w == th[t]
             work == AtWork(w, records, saved, Wanted, Missing, failed \/ pausing)
             explains == [w EXCEPT !.pc = "explaining"]
             turns == [w EXCEPT !.ri = @ + 1, !.todo = RemainingFiles(records[w.ri + 1])]
  <1>1. /\ t \in Callers /\ SoundCalls(th, Written) /\ SoundRecords(records, Written) /\ Pc(t, "loop")
        /\ UNCHANGED <<planned, twins, skipped, bstate, records, pausing, failed, running, source, saved>>
        /\ Written' = Written /\ Wanted' = Wanted /\ Missing' = Missing
    BY DEF Claims, Callers, Loop, Alone, Written, Wanted, Missing
  <1>2. w \in ThreadStates /\ w.pc = "loop" /\ Sound(w, Written) /\ Working(w) /\ Runs(w)
    BY <1>1, CallIs DEF Runs
  <1>3. /\ w.todo \in Seq(Range(Files)) /\ w.ri \in Nat /\ Len(records) \in Nat /\ DOMAIN records = 1..Len(records)
        /\ records \in Seq(BackfillRecords)
    BY <1>1, <1>2 DEF ThreadStates, SoundRecords
  <1>4. /\ SoundRecords(records', Written') /\ SoundDisk(saved', Written') /\ planned' \subseteq Range(Files)
        /\ bstate' = "paused" => running' = None
    <2>1. bstate' = "paused" => running' = None
      BY <1>1 DEF Claims
    <2> QED BY <1>1, <2>1, ClaimsStay
  <1>5. work => /\ Apart(records) /\ Covers(records, saved, Wanted) /\ Wanted \subseteq KeptOn(saved)
                /\ Wanted \subseteq ToDoOf(records) /\ (w.cancelled => Wanted = {})
                /\ Walked(records, w.ri, w.todo)
    BY <1>2 DEF AtWork, Explains
  <1>6. CASE w.todo # <<>> /\ (w.cancelled \/ pausing)
    <2>1. To(t, "ending")
      BY <1>6 DEF Loop, To
    <2> QED BY <1>1, <1>6, <2>1, EndsRun
  <1>7. CASE w.todo # <<>> /\ ~(w.cancelled \/ pausing)
    <2>1. Goes(t, explains)
      BY <1>7 DEF Loop
    <2>2. /\ explains \in ThreadStates /\ explains.pc = "explaining" /\ explains.left = w.left
          /\ explains.chosen = w.chosen /\ explains.todo = w.todo /\ explains.ri = w.ri /\ explains.held = w.held
          /\ explains.plan = w.plan /\ explains.cancelled = w.cancelled
      BY <1>2 DEF ThreadStates, Stages
    <2> HIDE DEF explains
    <2>3. explains # None
      BY <2>2, BackfillAssumption
    <2>4. Sound(explains, Written') /\ Working(explains) /\ Runs(explains)
      BY <1>1, <1>2, <1>7, <2>2, <2>3 DEF Sound, Working, Runs
    <2>5. work => AtWork(explains, records', saved', Wanted', Missing', failed' \/ pausing')
      BY <1>1, <1>5, <2>2 DEF AtWork, Estimates, Persists, Explains, Closes
    <2> HIDE DEF w
    <2> QED BY <1>1, <1>2, <1>4, <2>1, <2>2, <2>4, <2>5, WorkerGoes DEF w
  <1>8. CASE w.todo = <<>> /\ w.ri < Len(records)
    <2> DEFINE k == w.ri + 1
    <2>1. Goes(t, turns)
      BY <1>8 DEF Loop
    <2>2. k \in DOMAIN records /\ k \in Nat /\ k >= 1 /\ \A j \in DOMAIN records : j < k => j < w.ri \/ j = w.ri
      BY <1>3, <1>8
    <2>3. records[k] \in BackfillRecords
      BY <1>3, <2>2
    <2>4. RemainingFiles(records[k]) \in Seq(Range(Files)) /\ Range(RemainingFiles(records[k])) = ToDo(records[k])
      BY <2>3, RemainingIs
    <2>5. turns = [w EXCEPT !.ri = k, !.todo = RemainingFiles(records[k])]
      OBVIOUS
    <2> HIDE DEF k
    <2>6. /\ turns \in ThreadStates /\ turns.pc = "loop" /\ turns.left = w.left
          /\ turns.chosen = w.chosen /\ turns.todo = RemainingFiles(records[k]) /\ turns.ri = k /\ turns.held = w.held
          /\ turns.plan = w.plan /\ turns.cancelled = w.cancelled
      BY <1>2, <2>2, <2>4, <2>5 DEF ThreadStates
    <2> HIDE DEF turns
    <2>7. turns # None
      BY <2>6, BackfillAssumption
    <2>8. Sound(turns, Written') /\ Working(turns) /\ Runs(turns)
      BY <1>1, <1>2, <2>2, <2>6, <2>7 DEF Sound, Working, Runs
    <2>9. work => Walked(records, k, turns.todo)
      <3> HAVE work
      <3>1. \A j \in DOMAIN records : j = w.ri => ToDo(records[j]) = {}
        BY <1>5, <1>8 DEF Walked, Range
      <3>2. \A j \in DOMAIN records : j < k => ToDo(records[j]) = {}
        BY <1>5, <2>2, <3>1 DEF Walked
      <3> QED BY <2>4, <2>6, <3>2 DEF Walked
    <2>10. work => AtWork(turns, records', saved', Wanted', Missing', failed' \/ pausing')
      BY <1>1, <1>5, <2>6, <2>9 DEF AtWork, Estimates, Persists, Explains, Closes
    <2> QED BY <1>1, <1>2, <1>4, <2>1, <2>6, <2>8, <2>10, WorkerGoes
  <1>9. CASE w.todo = <<>> /\ ~(w.ri < Len(records))
    <2>1. To(t, "ending")
      BY <1>9 DEF Loop, To
    <2>2. work => ToDoOf(records) = {}
      <3> HAVE work
      <3>1. \A j \in DOMAIN records : j < w.ri \/ j = w.ri
        BY <1>3, <1>9
      <3>2. \A j \in DOMAIN records : ToDo(records[j]) = {}
        BY <1>5, <1>9, <3>1 DEF Walked, Range
      <3> QED BY <3>2 DEF ToDoOf
    <2> QED BY <1>1, <2>1, <2>2, EndsRun
  <1> QED BY <1>6, <1>7, <1>8, <1>9

LEMMA FinishMoves ==
  ASSUME Claims, ~shared => InTurn, NEW t \in Threads, Finish(t)
  PROVE  Keeps
  <1> DEFINE w == th[t]
             work == AtWork(w, records, saved, Wanted, Missing, failed \/ pausing)
             clears == [w EXCEPT !.pc = "clearing", !.after = IF w.cancelled THEN "cancelled" ELSE "done"]
  <1>1. /\ t \in Callers /\ SoundCalls(th, Written) /\ Pc(t, "ending") /\ Ending(t)
        /\ UNCHANGED <<planned, twins, skipped, records, pausing, failed, source, saved>>
        /\ Written' = Written /\ Wanted' = Wanted /\ Missing' = Missing
    BY DEF Claims, Callers, Finish, Alone, Written, Wanted, Missing
  <1>2. w \in ThreadStates /\ w.pc = "ending" /\ Sound(w, Written) /\ Working(w) /\ Runs(w)
    BY <1>1, CallIs DEF Runs
  <1>3. CASE Settles(t, "error") \/ Settles(t, "paused")
    <2>1. work => AtRest(records', saved', Wanted')
      BY <1>1, <1>2, RestsFrom
    <2> QED BY <1>1, <1>2, <1>3, <2>1, SettlesMoves
  <1>4. CASE (w.cancelled \/ (~failed /\ ~pausing)) /\ Goes(t, clears) /\ UNCHANGED <<bstate, running>>
    <2>1. /\ clears \in ThreadStates /\ clears.pc = "clearing" /\ clears.left = w.left
          /\ clears.chosen = w.chosen /\ clears.todo = w.todo /\ clears.ri = w.ri /\ clears.held = w.held
          /\ clears.plan = w.plan /\ clears.after \in {"cancelled", "done"}
      BY <1>2 DEF ThreadStates, Stages
    <2> HIDE DEF clears
    <2>2. clears # None
      BY <2>1, BackfillAssumption
    <2>3. Sound(clears, Written') /\ Working(clears) /\ ~Runs(clears)
      BY <1>1, <1>2, <2>1, <2>2 DEF Sound, Working, Runs
    <2>4. /\ SoundRecords(records', Written') /\ SoundDisk(saved', Written') /\ planned' \subseteq Range(Files)
          /\ bstate' = "paused" => running' = None
      <3>1. bstate' = "paused" => running' = None
        BY <1>4 DEF Claims
      <3> QED BY <1>1, <3>1, ClaimsStay
    <2>5. work => AtWork(clears, records', saved', Wanted', Missing', failed' \/ pausing')
      <3> HAVE work
      <3>1. Apart(records) /\ Wanted \subseteq ToDoOf(records) /\ (w.cancelled => Wanted = {})
            /\ (w.cancelled \/ (failed \/ pausing) \/ ToDoOf(records) = {})
        BY <1>2 DEF AtWork, Explains, Closes
      <3>2. Wanted = {}
        BY <1>4, <3>1
      <3> QED BY <1>1, <2>1, <3>1, <3>2 DEF AtWork, Estimates, Persists, Explains, Closes, Runs
    <2> QED BY <1>1, <1>2, <1>4, <2>1, <2>3, <2>4, <2>5, WorkerGoes
  <1> QED BY <1>1, <1>3, <1>4, Zenon DEF Ending

LEMMA ClearMoves ==
  ASSUME Claims, ~shared => InTurn, NEW t \in Callers, Clear(t)
  PROVE  Keeps
  <1> DEFINE w == th[t]
             work == AtWork(w, records, saved, Wanted, Missing, failed \/ pausing)
  <1>1. /\ SoundCalls(th, Written) /\ SoundDisk(saved, Written) /\ Pc(t, "clearing")
        /\ UNCHANGED <<planned, twins, skipped, pausing, failed, source>>
        /\ Written' = Written /\ Wanted' = Wanted /\ Missing' = Missing
    BY DEF Claims, Clear, Alone, Written, Wanted, Missing
  <1>2. /\ w \in ThreadStates /\ w.pc = "clearing" /\ Sound(w, Written) /\ Working(w) /\ ~Runs(w)
        /\ w.after \in {"cancelled", "done"}
    BY <1>1, CallIs DEF Runs, Sound
  <1>3. work => Apart(records) /\ Wanted = {}
    BY <1>2 DEF AtWork, Closes
  <1>4. planned' \subseteq Range(Files)
    BY <1>1, ClaimsStay
  <1>5. CASE \E f \in Folders : saved[f] # None
    <2>1. UNCHANGED <<bstate, records, running, th>>
      BY <1>5 DEF Clear
    <2>2. Goes(t, w)
      BY <1>1, <2>1 DEF SoundCalls, Goes
    <2>3. SoundDisk(saved', Written')
      <3>1. PICK f : saved' = [saved EXCEPT ![f] = None]
        BY <1>5 DEF Clear
      <3> QED BY <1>1, <3>1 DEF SoundDisk
    <2>4. SoundRecords(records', Written') /\ (bstate' = "paused" => running' = None)
      <3>1. bstate' = "paused" => running' = None
        BY <2>1 DEF Claims
      <3> QED BY <1>1, <2>1, <3>1, ClaimsStay
    <2>5. work => AtWork(w, records', saved', Wanted', Missing', failed' \/ pausing')
      BY <1>1, <1>2, <1>3, <2>1 DEF AtWork, Estimates, Persists, Explains, Closes, Runs
    <2> QED BY <1>1, <1>2, <1>4, <2>1, <2>2, <2>3, <2>4, <2>5, WorkerGoes
  <1>6. CASE ~\E f \in Folders : saved[f] # None
    <2>1. /\ records' = <<>> /\ Goes(t, None) /\ bstate' = w.after /\ UNCHANGED saved
      BY <1>6 DEF Clear, Settles, Ends
    <2>2. SoundRecords(records', Written') /\ SoundDisk(saved', Written') /\ bstate' # "paused"
      BY <1>1, <1>2, <2>1 DEF SoundRecords
    <2>3. work => AtRest(records', saved', Wanted')
      <3> HAVE work
      <3>1. Apart(<<>>) /\ Covers(<<>>, saved, Wanted)
        BY DEF Apart, Covers
      <3> QED BY <1>1, <1>3, <2>1, <3>1 DEF AtRest
    <2>4. ~Working(None)
      BY DEF Working
    <2> QED BY <1>1, <1>2, <1>4, <2>1, <2>2, <2>3, <2>4, WorkerGoes
  <1> QED BY <1>5, <1>6

-----------------------------------------------------------------------------
(* The commands, the window and the rest of the projects.                  *)

LEMMA PauseMoves ==
  ASSUME Claims, ~shared => InTurn, Pause
  PROVE  Keeps
  <1>1. /\ UNCHANGED <<planned, twins, skipped, bstate, records, failed, running, source, th, saved>>
        /\ pausing' = TRUE
    BY DEF Pause
  <1>2. Written' = Written /\ Wanted' = Wanted /\ Missing' = Missing
    BY <1>1 DEF Written, Wanted, Missing
  <1>3. Claims'
    BY <1>1, <1>2 DEF Claims
  <1>4. ~shared => InTurn'
    BY <1>1, <1>2, BystandersMove
  <1> QED BY <1>3, <1>4 DEF Keeps

\* What cancel() does to the calls.
LEMMA CallsCancelled ==
  ASSUME SoundCalls(th, Written), Cancel
  PROVE  /\ SoundCalls(th', Written)
         /\ \A t \in Callers : running # None \/ t # Cleaner =>
              \/ th'[t] = th[t]
              \/ /\ t = source /\ Working(th'[t]) = Working(th[t]) /\ th'[t].pc = th[t].pc
                 /\ th'[t].plan = th[t].plan /\ th'[t].ri = th[t].ri /\ th'[t].todo = th[t].todo
                 /\ th'[t].held = th[t].held /\ th'[t].cancelled
         /\ \A t \in Callers : t = source /\ th[t] # None /\ running # None => th'[t].cancelled
         /\ running = None => /\ ~Working(th[Cleaner]) /\ Working(th'[Cleaner])
                              /\ th'[Cleaner].pc = "clearing"
  <1> DEFINE stops(w) == [w EXCEPT !.cancelled = TRUE]
             clears == [Thread("clearing") EXCEPT !.after = "cancelled"]
  <1>1. /\ DOMAIN th = Callers /\ (running = None => th[Cleaner] = None)
        /\ th' = [t \in Callers |-> IF t = Cleaner /\ running = None THEN clears
                                    ELSE IF t = source /\ th[t] # None THEN stops(th[t]) ELSE th[t]]
    BY DEF SoundCalls, Cancel
  <1>2. \A w \in ThreadStates :
          /\ stops(w) \in ThreadStates /\ stops(w).pc = w.pc /\ stops(w).plan = w.plan /\ stops(w).ri = w.ri
          /\ stops(w).todo = w.todo /\ stops(w).held = w.held /\ stops(w).cancelled
          /\ stops(w).left = w.left /\ stops(w).chosen = w.chosen /\ stops(w).after = w.after
    <2> TAKE w \in ThreadStates
    <2> QED BY DEF ThreadStates
  <1>3. clears \in ThreadStates /\ clears.pc = "clearing" /\ Sound(clears, Written)
    <2> DEFINE new == Thread("clearing")
    <2>1. /\ new \in ThreadStates /\ new.pc = "clearing"
          /\ new.left = <<>> /\ new.chosen = <<>> /\ new.todo = <<>> /\ new.plan = <<>> /\ new.held = None
      BY DEF Thread, ThreadStates, Stages
    <2> HIDE DEF new
    <2>2. clears = [new EXCEPT !.after = "cancelled"]
      BY DEF new
    <2> HIDE DEF clears
    <2>3. /\ clears \in ThreadStates /\ clears.pc = "clearing" /\ clears.after = "cancelled"
          /\ clears.left = <<>> /\ clears.chosen = <<>> /\ clears.todo = <<>> /\ clears.plan = <<>> /\ clears.held = None
      BY <2>1, <2>2 DEF ThreadStates
    <2> QED BY <2>3 DEF Sound, Sorted
  <1> HIDE DEF stops, clears
  <1>4. \A w \in ThreadStates : w # None /\ stops(w) # None /\ (Sound(w, Written) => Sound(stops(w), Written))
    <2> TAKE w \in ThreadStates
    <2>1. w # None /\ stops(w) # None
      BY <1>2, BackfillAssumption
    <2>2. Sound(w, Written) => Sound(stops(w), Written)
      BY <1>2 DEF Sound
    <2> QED BY <2>1, <2>2
  <1>5. \A t \in Callers : th[t] \in {None} \cup ThreadStates /\ (th[t] # None => Sound(th[t], Written))
    BY DEF SoundCalls
  <1>6. clears # None
    BY <1>3, BackfillAssumption
  <1>7. SoundCalls(th', Written)
    <2>1. \A t \in Callers : th'[t] \in {None} \cup ThreadStates /\ (th'[t] # None => Sound(th'[t], Written))
      BY <1>1, <1>2, <1>3, <1>4, <1>5
    <2>2. th' \in [Callers -> {None} \cup ThreadStates]
      BY <1>1, <2>1
    <2> QED BY <2>1, <2>2 DEF SoundCalls
  <1>8. ASSUME NEW t \in Callers, running # None \/ t # Cleaner
        PROVE  \/ th'[t] = th[t]
               \/ /\ t = source /\ Working(th'[t]) = Working(th[t]) /\ th'[t].pc = th[t].pc
                  /\ th'[t].plan = th[t].plan /\ th'[t].ri = th[t].ri /\ th'[t].todo = th[t].todo
                  /\ th'[t].held = th[t].held /\ th'[t].cancelled
    <2>1. CASE t = source /\ th[t] # None
      <3>1. th'[t] = stops(th[t]) /\ th[t] \in ThreadStates
        BY <1>1, <1>5, <1>8, <2>1
      <3>2. th'[t] # None /\ th'[t].pc = th[t].pc
        BY <1>2, <1>4, <3>1
      <3> QED BY <1>2, <2>1, <3>1, <3>2 DEF Working
    <2>2. CASE ~(t = source /\ th[t] # None)
      BY <1>1, <1>8, <2>2
    <2> QED BY <2>1, <2>2
  <1>9. \A t \in Callers : t = source /\ th[t] # None /\ running # None => th'[t].cancelled
    BY <1>1, <1>2, <1>5
  <1>10. running = None => /\ ~Working(th[Cleaner]) /\ Working(th'[Cleaner])
                           /\ th'[Cleaner].pc = "clearing"
    <2> HAVE running = None
    <2>1. Cleaner \in Callers
      BY DEF Callers
    <2>2. th[Cleaner] = None /\ th'[Cleaner] = clears
      BY <1>1, <2>1
    <2> QED BY <1>3, <1>6, <2>2 DEF Working
  <1> QED BY <1>7, <1>8, <1>9, <1>10

LEMMA CancelMoves ==
  ASSUME Claims, ~shared => InTurn, Cancel
  PROVE  Keeps
  <1>1. /\ SoundCalls(th, Written) /\ planned' = {} /\ pausing' = FALSE
        /\ UNCHANGED <<twins, skipped, bstate, records, failed, running, source, saved>>
    BY DEF Claims, Cancel
  <1>2. Written' = Written /\ Wanted' = {} /\ Missing' = Missing
    BY <1>1 DEF Written, Wanted, Missing
  <1>3. Claims'
    BY <1>1, <1>2, CallsCancelled DEF Claims
  <1>4. ASSUME ~shared PROVE InTurn'
    <2>1. CASE running = None
      <3>1. ~Working(th[Cleaner]) /\ Working(th'[Cleaner]) /\ th'[Cleaner].pc = "clearing" /\ Cleaner \in Callers
        BY <1>1, <2>1, CallsCancelled DEF Callers
      <3>2. \A t \in Threads : t # None
        BY BackfillAssumption
      <3>3. Nobody /\ AtRest(records, saved, Wanted)
        <4> SUFFICES ASSUME NEW t \in Callers, SoleWorker(t), t \in Threads => running = t PROVE FALSE
          BY <1>4 DEF InTurn
        <4>1. Working(th[t]) /\ (t \in Threads \/ t = Cleaner)
          BY DEF SoleWorker, Callers
        <4> QED BY <2>1, <3>1, <3>2, <4>1
      <3>4. \A t \in Callers \ {Cleaner} : ~Working(th'[t])
        BY <1>1, <3>3, CallsCancelled DEF Nobody
      <3>5. SoleWorker(Cleaner)'
        BY <3>1, <3>4 DEF SoleWorker
      <3>6. AtWork(th'[Cleaner], records', saved', Wanted', Missing', failed' \/ pausing')
        BY <1>1, <1>2, <3>1, <3>3 DEF AtRest, AtWork, Estimates, Persists, Explains, Closes, Runs
      <3>7. Cleaner \notin Threads /\ ~Runs(th'[Cleaner])
        BY <3>1, BackfillAssumption DEF Runs
      <3> QED BY <3>1, <3>5, <3>6, <3>7 DEF InTurn
    <2>2. CASE running # None
      <3>1. \A t \in Callers : Working(th'[t]) = Working(th[t])
        BY <1>1, <2>2, CallsCancelled
      <3>2. CASE Nobody /\ AtRest(records, saved, Wanted)
        <4>1. Nobody'
          BY <3>1, <3>2 DEF Nobody
        <4>2. AtRest(records', saved', Wanted')
          BY <1>1, <1>2, <3>2 DEF AtRest, Covers
        <4> QED BY <4>1, <4>2 DEF InTurn
      <3>3. ASSUME NEW t \in Callers, SoleWorker(t),
                   t \in Threads => running = t, Runs(th[t]) => source = t,
                   AtWork(th[t], records, saved, Wanted, Missing, failed \/ pausing)
            PROVE  InTurn'
        <4> DEFINE w == th[t]
                   v == th'[t]
        <4>1. SoleWorker(t)'
          BY <3>1, <3>3 DEF SoleWorker
        <4>2. /\ v.pc = w.pc /\ v.plan = w.plan /\ v.ri = w.ri /\ v.todo = w.todo /\ v.held = w.held
              /\ Runs(w) => v.cancelled
          <5>1. th[t] # None
            BY <3>3 DEF SoleWorker, Working
          <5> QED BY <1>1, <2>2, <3>3, <5>1, CallsCancelled
        <4> HIDE DEF w, v
        <4>3. Runs(v) <=> Runs(w)
          BY <4>2 DEF Runs
        <4>4. AtWork(w, records, saved, Wanted, Missing, failed \/ pausing)
          BY <3>3 DEF w
        <4>5. Estimates(v, records, Missing)
          BY <4>2, <4>4 DEF AtWork, Estimates
        <4>6. Persists(v, records, {})
          BY <4>2, <4>4 DEF AtWork, Persists
        <4>7. Explains(v, records, {})
          BY <4>2, <4>3, <4>4 DEF AtWork, Explains
        <4>8. Closes(v, records, {}, failed' \/ pausing')
          BY <4>2 DEF Closes, Runs
        <4>9. AtWork(v, records, saved, {}, Missing, failed' \/ pausing')
          BY <4>2, <4>4, <4>5, <4>6, <4>7, <4>8 DEF AtWork, Covers
        <4>10. AtWork(th'[t], records', saved', Wanted', Missing', failed' \/ pausing')
          BY <1>1, <1>2, <4>9 DEF v
        <4>11. Runs(th'[t]) => source' = t
          BY <1>1, <3>3, <4>3 DEF v, w
        <4> QED BY <1>1, <3>3, <4>1, <4>10, <4>11 DEF InTurn
      <3> QED BY <1>4, <3>2, <3>3 DEF InTurn
    <2> QED BY <2>1, <2>2
  <1> QED BY <1>3, <1>4 DEF Keeps

\* The window closes or dies: what the torn records and the unwritten plan held is
\* not waited for any more, and everything else is on the disk.
LEMMA RestartMoves ==
  ASSUME Claims, ~shared => InTurn, Restart
  PROVE  Keeps
  <1> PICK torn : /\ saved' = [f \in Folders |-> IF f \in torn THEN None ELSE saved[f]]
                  /\ planned' = planned \ (Unwritten \cup UNION {Range(saved[f].files) : f \in {g \in torn : saved[g] # None}})
    BY DEF Restart
  <1>1. /\ SoundCalls(th, Written) /\ SoundRecords(records, Written) /\ SoundDisk(saved, Written)
        /\ bstate' = "idle" /\ records' = <<>> /\ th' = [t \in Callers |-> None]
        /\ UNCHANGED <<twins, skipped>>
    BY DEF Claims, SoundCalls, Restart, RestartProjects
  <1>2. Written' = Written
    BY <1>1 DEF Written
  <1>3. Claims'
    <2>1. SoundCalls(th', Written')
      BY <1>1 DEF SoundCalls
    <2>2. SoundRecords(records', Written')
      BY <1>1 DEF SoundRecords
    <2>3. SoundDisk(saved', Written')
      BY <1>1, <1>2 DEF SoundDisk
    <2>4. planned' \subseteq Range(Files)
      BY DEF Claims
    <2> QED BY <1>1, <2>1, <2>2, <2>3, <2>4 DEF Claims
  <1>4. ASSUME NEW x \in Wanted' PROVE x \in Wanted /\ x \notin Unwritten
    BY <1>2 DEF Wanted
  <1>5. ASSUME NEW x \in Wanted', x \in KeptOn(saved) PROVE x \in KeptOn(saved')
    <2>1. PICK f \in Folders : saved[f] # None /\ x \in ToDo(saved[f])
      BY <1>5 DEF KeptOn
    <2>2. x \in Range(saved[f].files)
      BY <2>1 DEF ToDo, Range
    <2>3. f \notin torn
      BY <2>1, <2>2 DEF Wanted
    <2>4. saved'[f] = saved[f]
      BY <2>3
    <2> QED BY <2>1, <2>4 DEF KeptOn
  <1>6. ASSUME ~shared PROVE InTurn'
    <2>1. Wanted' \subseteq KeptOn(saved')
      <3>1. CASE Nobody /\ AtRest(records, saved, Wanted)
        BY <1>4, <1>5, <3>1 DEF AtRest
      <3>2. ASSUME NEW t \in Callers, SoleWorker(t), AtWork(th[t], records, saved, Wanted, Missing, failed \/ pausing)
            PROVE  Wanted' \subseteq KeptOn(saved')
        <4>1. CASE th[t].pc # "persisting"
          BY <1>4, <1>5, <3>2, <4>1 DEF AtWork
        <4>2. CASE th[t].pc = "persisting"
          <5>1. Covers(records, saved, Wanted) /\ Wanted \subseteq FilesOf(th[t].plan) \cup ToDoOf(records)
            BY <3>2, <4>2 DEF AtWork, Persists
          <5>2. ToDoOf(records) \cap Wanted \subseteq KeptOn(saved)
            BY <1>1, <5>1, ListedIsKept
          <5>3. t \in DOMAIN th /\ Pc(t, "persisting")
            BY <1>1, <3>2, <4>2 DEF SoundCalls, SoleWorker, Working, Pc
          <5>4. FilesOf(th[t].plan) \subseteq Unwritten
            BY <5>3 DEF Unwritten
          <5> QED BY <1>4, <1>5, <5>1, <5>2, <5>4
        <4> QED BY <4>1, <4>2
      <3> QED BY <1>6, <3>1, <3>2 DEF InTurn
    <2>2. Nobody'
      BY <1>1 DEF Nobody, Working
    <2>3. Apart(<<>>) /\ Covers(<<>>, saved', Wanted')
      BY DEF Apart, Covers
    <2>4. AtRest(records', saved', Wanted')
      BY <1>1, <2>1, <2>3 DEF AtRest
    <2> QED BY <2>2, <2>4 DEF InTurn
  <1> QED BY <1>3, <1>6 DEF Keeps

\* Files that are opened get their twins too.
LEMMA TwinsGrow ==
  ASSUME ProjectsNext
  PROVE  twins \subseteq twins'
  <1>1. ASSUME NEW j, Prepares(j) \/ NoteUnread(j) \/ NoteFails(j) \/ ReadExcludeFails(j) \/ ExcludeFails(j)
        PROVE  UNCHANGED twins
    BY <1>1, Zenon DEF Prepares, NoteUnread, NoteFails, ReadExcludeFails, ExcludeFails, EndJob, ExpandFolder, EnsureNote, EnsureGitExclude,
       ReadExclude, OpenExclude, FillExclude
  <1>2. ConnectAssistant => UNCHANGED twins
    BY Zenon DEF ConnectAssistant
  <1>3. \A n : WriteNote(n) \/ DeleteNote(n) => UNCHANGED twins
    BY Zenon DEF WriteNote, DeleteNote
  <1>4. \A f : CooldownOver(f) \/ ChangePermission(f) => UNCHANGED twins
    BY Zenon DEF CooldownOver, ChangePermission, Set
  <1>5. \A file : Open(file) => UNCHANGED twins
    BY Zenon DEF Open
  <1>6. \A file : EnsureTwin(file) => twins \subseteq twins'
    BY DEF EnsureTwin
  <1> QED BY <1>1, <1>2, <1>3, <1>4, <1>5, <1>6 DEF ProjectsNext

LEMMA ProjectsGoOn ==
  ASSUME Claims, ~shared => InTurn, twins \subseteq twins', UNCHANGED backfillVars
  PROVE  Keeps
  <1>1. UNCHANGED <<bstate, records, pausing, failed, running, source, th, saved, planned, skipped>>
    BY DEF backfillVars
  <1>2. Written \subseteq Written' /\ Wanted' \subseteq Wanted /\ Missing' \subseteq Missing
    BY <1>1 DEF Written, Wanted, Missing
  <1>3. Claims'
    BY <1>1, <1>2, SoundGrows DEF Claims
  <1>4. ~shared => InTurn'
    BY <1>1, <1>2, BystandersMove
  <1> QED BY <1>3, <1>4 DEF Keeps

-----------------------------------------------------------------------------
(* The invariant.                                                          *)

LEMMA BackfillStarts ==
  ASSUME Init
  PROVE  BackfillIInv
  <1>1. /\ bstate = "idle" /\ records = <<>> /\ th = [t \in Callers |-> None] /\ saved = [f \in Folders |-> None]
        /\ planned = {}
    BY DEF Init, Callers
  <1>2. Claims
    BY <1>1 DEF Claims, SoundCalls, SoundRecords, SoundDisk
  <1>3. ~Crowded
    BY <1>1 DEF Crowded, Busy
  <1>4. Nobody /\ AtRest(records, saved, Wanted)
    BY <1>1 DEF Nobody, Working, AtRest, Apart, Covers, Wanted
  <1> QED BY <1>2, <1>3, <1>4 DEF BackfillIInv, InTurn

LEMMA BackfillStep ==
  ASSUME BackfillIInv, [Next]_vars
  PROVE  BackfillIInv'
  <1>1. Claims /\ (~shared => ~Crowded /\ InTurn)
    BY DEF BackfillIInv
  <1>2. CASE UNCHANGED vars
    <2>1. UNCHANGED <<bstate, records, pausing, failed, running, source, th, saved, planned, skipped, twins, shared>>
      BY <1>2 DEF vars, projectVars, backfillVars
    <2>2. Keeps
      BY <1>1, <2>1, ProjectsGoOn DEF backfillVars
    <2>3. Crowded' <=> Crowded
      BY <2>1 DEF Crowded, Busy
    <2>4. Claims' /\ (~shared => InTurn')
      <3>1. Written' = Written /\ Wanted' = Wanted /\ Missing' = Missing
        BY <2>1 DEF Written, Wanted, Missing
      <3>2. ~shared => InTurn'
        BY <1>1, <2>1, <3>1, BystandersMove
      <3> QED BY <2>2, <3>2 DEF Keeps
    <2> QED BY <1>1, <2>1, <2>3, <2>4 DEF BackfillIInv
  <1>3. CASE Next
    <2>1. ASSUME ProjectsNext, UNCHANGED backfillVars PROVE Keeps
      <3>1. /\ twins \subseteq twins'
            /\ UNCHANGED <<bstate, records, pausing, failed, running, source, th, saved, planned, skipped>>
        BY <2>1, TwinsGrow DEF backfillVars
      <3> QED BY <1>1, <3>1, ProjectsGoOn DEF backfillVars
    <2>2. ASSUME NEW f \in Folders, NEW d, AnswerQuestion(f, d) PROVE Keeps
      BY <1>1, <2>2, AnswerMoves
    <2>3. ASSUME NEW t \in Threads,
                 Start(t) \/ Resume(t) \/ Works(t) \/ ScanEnds(t) \/ Skip(t) \/ ExplainFails(t) \/
                 PersistFails(t) \/ SaveFails(t)
          PROVE  Keeps
      <3>1. CASE Start(t) \/ Resume(t) \/ Load(t) \/ Reload(t) \/ Choose(t) \/ Estimate(t)
        BY <1>1, <3>1, StartMoves, LoadMoves, ReloadMoves, ChooseMoves, EstimateMoves
      <3>2. CASE Scan(t) \/ ScanEnds(t) \/ Decline(t) \/ Confirm(t) \/ Persist(t)
        BY <1>1, <3>2, ScanMoves, ConfirmMoves, PersistMoves
      <3>3. CASE Loop(t) \/ Explain(t) \/ Skip(t) \/ Stop(t) \/ ExplainFails(t)
        BY <1>1, <3>3, LoopMoves, MarksMoves, StopMoves
      <3>4. CASE Save(t) \/ Finish(t)
        BY <1>1, <3>4, SaveMoves, FinishMoves
      <3>5. CASE PersistFails(t) \/ SaveFails(t)
        BY <1>1, <3>5, PersistFailsMoves, SaveFailsMoves
      <3> QED BY <2>3, <3>1, <3>2, <3>3, <3>4, <3>5 DEF Works
    <2>4. ASSUME NEW t \in Threads \cup {Cleaner}, Clear(t) PROVE Keeps
      BY <1>1, <2>4, ClearMoves DEF Callers
    <2>5. Pause \/ Cancel \/ Restart => Keeps
      BY <1>1, PauseMoves, CancelMoves, RestartMoves
    <2>6. Step => Keeps
      <3> HAVE Step
      <3>1. CASE \E f \in Folders, d \in {"allowed", "denied", "unknown"} : AnswerQuestion(f, d)
        BY <2>2, <3>1
      <3>2. CASE \E t \in Threads :
                   Start(t) \/ Resume(t) \/ Works(t) \/ ScanEnds(t) \/ Skip(t) \/ ExplainFails(t) \/
                   PersistFails(t) \/ SaveFails(t)
        BY <2>3, <3>2
      <3>3. CASE \E t \in Threads \cup {Cleaner} : Clear(t)
        BY <2>4, <3>3
      <3> QED BY <2>1, <2>5, <3>1, <3>2, <3>3 DEF Step
    <2>7. Keeps
      BY <1>3, <2>6 DEF Next
    <2>8. ~shared' => ~shared /\ ~Crowded' /\ ~TakesOver
      <3>1. shared' = (shared \/ Crowded' \/ TakesOver)
        BY <1>3 DEF Next
      <3> QED BY <3>1
    <2> QED BY <2>7, <2>8 DEF Keeps, BackfillIInv
  <1> QED BY <1>2, <1>3

-----------------------------------------------------------------------------
(* The theorems.                                                           *)

\* The inductive invariant holds in every state.
THEOREM ProjectsInvariance == Spec => []ProjectsIInv
  <1>1. Init => ProjectsIInv
    BY ProjectsStart
  <1>2. ProjectsIInv /\ [Next]_vars => ProjectsIInv'
    BY ProjectsStep
  <1> QED BY <1>1, <1>2, PTL DEF Spec

\* The person's lines stay in the instruction files, and no file that was the
\* person's when ExplainIT looked is hidden from git (instructions/index.ts:3 and
\* :7), however preparations, edits, failures and restarts interleave, but for a
\* file that could not be read, which is replaced.
THEOREM FilesStayThePersons == Spec => []PersonsFilesStay
  <1>1. ProjectsIInv => PersonsFilesStay
    BY DEF ProjectsIInv, NotesOK, TeamIsSeen, PersonsFilesStay
  <1> QED BY <1>1, ProjectsInvariance, PTL

\* Once every call is over, the person's own lines are in the exclude list, though
\* writes crossed, unless somebody took it for empty or left it so; and each file
\* that ExplainIT created is in it (instructions/index.ts:6, gitExclude.ts), unless
\* writes crossed, or a read, a write or the window failed in its rewriting.
THEOREM CreatedFilesStayOut == Spec => []ExcludeIsWhole
  <1>1. ProjectsIInv => ExcludeIsWhole
    <2> SUFFICES ASSUME ProjectsIInv, \A j \in Jobs : jobs[j] = None
                 PROVE  /\ ~emptied => OwnLines \subseteq exclude
                        /\ ~disturbed => \A n \in AllNotes :
                              notes[n] # None /\ n \notin team => n \in exclude
      BY DEF ExcludeIsWhole
    <2>1. \A j \in Jobs : ~Rewrites(jobs[j]) /\ ~Fills(jobs[j])
      BY DEF Rewrites, Fills
    <2>2. ~disturbed => Settled(exclude, notes, team, jobs)
      BY <2>1 DEF ProjectsIInv, ListKept, Emptied, Crossed
    <2>3. ~emptied => OwnLines \subseteq exclude
      BY <2>1 DEF ProjectsIInv, ListKept, OwnKept
    <2> QED BY <2>1, <2>2, <2>3 DEF Settled, Whole, Created, Awaited
  <1> QED BY <1>1, ProjectsInvariance, PTL

\* The inductive invariant of the backfill holds in every state.
THEOREM BackfillInvariance == Spec => []BackfillIInv
  <1>1. Init => BackfillIInv
    BY BackfillStarts
  <1>2. BackfillIInv /\ [Next]_vars => BackfillIInv'
    BY BackfillStep
  <1> QED BY <1>1, <1>2, PTL DEF Spec

\* The progress files never claim a file that was not dealt with, and whenever no
\* call is under way they hold every confirmed file that still has no words
\* (backfillState.ts:3 and :4), through failures, pauses, cancellations and
\* restarts, unless two calls met past the questions.  What a record that was cut
\* short held, and what was then never written, is given up.
THEOREM ProgressTold == Spec => []ProgressIsTrue
  <1>1. BackfillIInv => ClaimsNoMore
    BY DEF BackfillIInv, Claims, SoundDisk, ClaimsNoMore, Written
  <1>2. BackfillIInv => ForgetsNone
    <2> SUFFICES ASSUME BackfillIInv, ~shared, \A t \in DOMAIN th : th[t] = None
                 PROVE  planned \ (twins \cup skipped)
                          \subseteq UNION {Range(RemainingFiles(saved[f])) : f \in Unfinished}
      BY DEF ForgetsNone
    <2>1. SoundCalls(th, Written) /\ SoundDisk(saved, Written) /\ InTurn
      BY DEF BackfillIInv, Claims
    <2>2. \A t \in Callers : ~Working(th[t])
      BY <2>1 DEF SoundCalls, Working
    <2>3. Wanted \subseteq KeptOn(saved)
      BY <2>1, <2>2 DEF InTurn, SoleWorker, AtRest
    <2>4. KeptOn(saved) = UNION {Range(RemainingFiles(saved[f])) : f \in Unfinished}
      BY <2>1, LoadedIs
    <2> QED BY <2>3, <2>4 DEF Wanted, Written
  <1> QED BY <1>1, <1>2, BackfillInvariance, PTL DEF ProgressIsTrue

=============================================================================
