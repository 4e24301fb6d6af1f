-------------------------- MODULE ReviewPanelProofs --------------------------
(***************************************************************************)
(* Proofs about the review panel of ReviewPanel.tla, for every set of      *)
(* reviews, cards, files and limits.                                       *)
(***************************************************************************)
EXTENDS ReviewPanelProperties, FiniteSetTheorems, WellFoundedInduction, TLAPS

-------------------------------------------------------------------------------
(* The inductive invariant: what the panel knows of one review, and what    *)
(* holds of it while it waits, while it is shown and when it is over.       *)

Dossier(j) ==
    [cards |-> cards[j], runs |-> runs[j], current |-> current[j], scope |-> scope[j],
     files |-> files[j], closed |-> closed[j], decision |-> decision[j]]

\* What an explanation in this state may still cost in tries.
TriesLeft(c, r) ==
    IF c.explain = "pending" THEN 2 ELSE IF r.phase \in {"first", "backoff"} THEN 1 ELSE 0

\* A card and its explanation call after n retries: only the last try streams, and
\* all that has been streamed is of that try.
CellOK(c, r, self, n) ==
    /\ c \in CardState /\ r \in Run
    /\ r.live \subseteq {r.tries} /\ c.text \subseteq {r.tries}
    /\ r.phase = "backoff" => r.live = {}
    /\ r.phase = "none" /\ c.explain # "done" => r.live = {}
    /\ r.phase # "none" <=> c.explain = "streaming"
    /\ self => c.explain = "done"
    /\ r.tries + TriesLeft(c, r) <= 2 * (n + 1)
Cells(j, cs, rs, n) ==
    /\ cs \in [CardIds(j) -> CardState] /\ rs \in [CardIds(j) -> Run]
    /\ \A i \in CardIds(j) : CellOK(cs[i], rs[i], CardsOf[j][i].self, n)
    /\ Cardinality(InFlight(rs)) <= MaxInFlight
\* A card that still waits for its explanation waits for a place.
Served(cs, rs, from) ==
    \A i \in DOMAIN cs :
        i >= from /\ cs[i].verdict = "none" /\ cs[i].explain = "pending" =>
            Cardinality(InFlight(rs)) = MaxInFlight

\* What was accepted, and with which choice.
OneText(c) == \A a, b \in c.text : a = b
Explained(j, cs, sc, fs) ==
    \A i \in CardIds(j) :
        cs[i].verdict = "accept" =>
            \E k \in 1..i :
                /\ cs[k].verdict = "accept" /\ cs[k].explain = "done" /\ OneText(cs[k])
                /\ \/ k = i
                   \/ sc = "session"
                   \/ CardsOf[j][k].path = CardsOf[j][i].path /\ CardsOf[j][k].path \in fs
Widened(j, cs, sc, fs) ==
    /\ sc # "one" => \E i \in CardIds(j) : cs[i].verdict = "accept"
    /\ \A p \in fs : \E i \in CardIds(j) : CardsOf[j][i].path = p /\ cs[i].verdict = "accept"
Chosenly(j, d) ==
    /\ d.cards \in [CardIds(j) -> CardState]
    /\ d.scope \in {"one", "file", "session"} /\ d.files \in SUBSET STRING
    /\ d.current \in 1..Len(CardsOf[j]) + 1
    /\ Explained(j, d.cards, d.scope, d.files) /\ Widened(j, d.cards, d.scope, d.files)

Waiting(j, d) ==
    d = [cards |-> Unstarted(j), runs |-> NoRuns(j), current |-> 1, scope |-> "one",
         files |-> {}, closed |-> FALSE, decision |-> NoDecision]
OnScreen(j, d, n) ==
    /\ Chosenly(j, d) /\ Cells(j, d.cards, d.runs, n) /\ Served(d.cards, d.runs, d.current)
    /\ d.closed = FALSE /\ d.decision = NoDecision
Over(j, d) ==
    /\ Chosenly(j, d) /\ d.runs = NoRuns(j) /\ d.closed \in BOOLEAN
    /\ d.decision = Finalize(j, d.cards, d.scope, d.files, d.closed)

Answer == [verdict : {"none", "accept", "reject", "partial"},
           scope : {"one", "file", "session"}, accepted : SUBSET STRING]
Dossiers ==
    \A j \in Jobs :
        /\ j \in done => Over(j, Dossier(j))
        /\ j = active => OnScreen(j, Dossier(j), retries)
        /\ j \notin done /\ j # active => Waiting(j, Dossier(j))
Choices ==
    /\ current \in [Jobs -> Nat \ {0}]
    /\ scope \in [Jobs -> {"one", "file", "session"}] /\ files \in [Jobs -> SUBSET STRING]
    /\ closed \in [Jobs -> BOOLEAN] /\ retries \in 0..MaxRetries
    /\ decision \in [Jobs -> Answer]
Tables == cards \in [Jobs -> Seq(CardState)] /\ runs \in [Jobs -> Seq(Run)] /\ Choices
Line(q, a, d) ==
    /\ q \in Seq(Jobs) /\ a \in Jobs \cup {NoJob} /\ d \in SUBSET Jobs
    /\ \A k, l \in DOMAIN q : q[k] = q[l] => k = l
    /\ \A k \in DOMAIN q : q[k] # a /\ q[k] \notin d
    /\ a \notin d
    /\ q # <<>> => a # NoJob
Clicks ==
    /\ mail \in Seq([kind : Click, card : Nat, job : Jobs \cup {NoJob}]) /\ Len(mail) <= MaxMail
    /\ view.job \in Jobs \cup {NoJob} /\ view.card \in Nat
Panels == disposed \in BOOLEAN /\ panel \in BOOLEAN /\ (active # NoJob => panel)

PanelIInv == Tables /\ Line(queue, active, done) /\ Panels /\ Clicks /\ Dossiers

-------------------------------------------------------------------------------
(* Places: the first cards that fit. *)

LEMMA FirstPosition ==
    ASSUME NEW S \in SUBSET Nat, S # {}
    PROVE  \E i \in S : \A j \in S : i <= j
  <1>1. PICK x \in S : \A y \in S : ~ (<<y, x>> \in OpToRel(<, Nat))
    BY NatLessThanWellFounded, WFMin
  <1>2. \A y \in S : ~ (y < x)
    BY <1>1 DEF OpToRel
  <1> QED BY <1>2

LEMMA LastOf ==
    ASSUME NEW n \in Nat, NEW S \in SUBSET (1..n), S # {}
    PROVE  \E i \in S : \A j \in S : j <= i
  <1> DEFINE T == {n - i : i \in S}
  <1>0. \A i \in S : i \in Nat /\ n - i \in Nat
    OBVIOUS
  <1>1. T \in SUBSET Nat /\ T # {}
    BY <1>0
  <1>2. PICK x \in T : \A y \in T : x <= y
    BY <1>1, FirstPosition
  <1>3. PICK i \in S : x = n - i
    OBVIOUS
  <1> QED BY <1>0, <1>2, <1>3

\* The first m of a set of positions: at most m, and exactly m when one is left.
LEMMA FirstOnes ==
    ASSUME NEW n \in Nat, NEW T \in SUBSET (1..n), NEW m \in Nat,
           NEW S \in SUBSET T, \A i \in T : i \in S <=> Cardinality({k \in T : k < i}) < m
    PROVE  /\ IsFiniteSet(S) /\ Cardinality(S) \in Nat /\ Cardinality(S) <= m
           /\ S # T => Cardinality(S) = m
  <1> DEFINE Before(i) == {k \in T : k < i}
  <1>0. /\ S \in SUBSET T /\ \A i \in T : i \in S <=> Cardinality(Before(i)) < m
        /\ \A i \in T : Before(i) \in SUBSET T /\ \A k \in T : k \in Before(i) <=> k < i
        /\ \A i \in T : i \in Nat
    OBVIOUS
  <1> HIDE DEF Before
  <1>1. IsFiniteSet(1..n)
    BY FS_Interval
  <1>2. IsFiniteSet(T) /\ IsFiniteSet(S)
    BY <1>0, <1>1, FS_Subset
  <1>3. \A i \in T : IsFiniteSet(Before(i)) /\ Cardinality(Before(i)) \in Nat
    BY <1>0, <1>2, FS_Subset, FS_CardinalityType
  <1>4. \A i, j \in T : i <= j => Cardinality(Before(i)) <= Cardinality(Before(j))
    <2> SUFFICES ASSUME NEW i \in T, NEW j \in T, i <= j PROVE Cardinality(Before(i)) <= Cardinality(Before(j))
      OBVIOUS
    <2>1. \A k \in T : k < i => k < j
      BY <1>0
    <2>2. Before(i) \in SUBSET Before(j)
      BY <1>0, <2>1
    <2> QED BY <2>2, <1>3, FS_Subset
  <1>5. Cardinality(S) \in Nat /\ Cardinality(S) <= m
    <2>1. CASE S = {}
      <3>1. Cardinality({}) = 0
        BY FS_EmptySet
      <3> QED BY <2>1, <3>1
    <2>2. CASE S # {}
      <3>0. S \in SUBSET (1..n)
        BY <1>0
      <3>1. PICK s \in S : \A j \in S : j <= s
        BY <2>2, <3>0, LastOf
      <3>2. S \in SUBSET (Before(s) \cup {s})
        <4> SUFFICES ASSUME NEW j \in S, j # s PROVE j \in Before(s)
          OBVIOUS
        <4>1. j <= s /\ j \in Nat /\ s \in Nat
          BY <3>1, <1>0
        <4> QED BY <4>1, <1>0
      <3>3. Cardinality(Before(s) \cup {s}) = Cardinality(Before(s)) + 1
        <4>1. s \in T /\ s \notin Before(s)
          BY <1>0
        <4> QED BY <4>1, <1>3, FS_AddElement
      <3>4. IsFiniteSet(Before(s) \cup {s})
        BY <1>0, <1>3, FS_AddElement
      <3>5. Cardinality(S) <= Cardinality(Before(s) \cup {s})
        BY <3>2, <3>4, FS_Subset
      <3>6. Cardinality(Before(s)) < m /\ Cardinality(Before(s)) \in Nat
        BY <1>0, <1>3
      <3>7. Cardinality(S) \in Nat
        BY <1>2, FS_CardinalityType
      <3> QED BY <3>3, <3>5, <3>6, <3>7
    <2> QED BY <2>1, <2>2
  <1>6. ASSUME S # T PROVE Cardinality(S) = m
    <2>1. T \ S # {} /\ T \ S \in SUBSET Nat
      BY <1>0, <1>6
    <2>2. PICK t \in T \ S : \A j \in T \ S : t <= j
      BY <2>1, FirstPosition
    <2>3. ~ (Cardinality(Before(t)) < m)
      BY <1>0
    <2>4. Before(t) \in SUBSET S
      <3> SUFFICES ASSUME NEW k \in Before(t) PROVE k \in S
        OBVIOUS
      <3>1. k \in T /\ k < t /\ k \in Nat /\ t \in Nat
        BY <1>0
      <3>2. ~ (t <= k)
        BY <3>1
      <3> QED BY <2>2, <3>1, <3>2
    <2>5. Cardinality(Before(t)) <= Cardinality(S)
      BY <2>4, <1>2, FS_Subset
    <2>6. Cardinality(Before(t)) \in Nat
      BY <1>3
    <2> QED BY <2>3, <2>5, <2>6, <1>5
  <1>7. IsFiniteSet(S) /\ Cardinality(S) \in Nat /\ Cardinality(S) <= m /\ (S # T => Cardinality(S) = m)
    BY <1>2, <1>5, <1>6
  <1> QED BY <1>7

-------------------------------------------------------------------------------
(* Explanations are started. *)

LEMMA Limits ==
    /\ MaxRetries \in Nat /\ MaxInFlight \in Nat \ {0} /\ MaxMail \in Nat \ {0}
    /\ \A n \in 0..MaxRetries : 2 * (n + 1) <= 2 * (MaxRetries + 1) /\ n \in Nat
  BY LimitsAssumption

LEMMA JobCards ==
    ASSUME NEW j \in Jobs
    PROVE  /\ CardsOf[j] \in Seq(Card) /\ Len(CardsOf[j]) \in Nat \ {0}
           /\ CardIds(j) = 1..Len(CardsOf[j])
           /\ \A i \in CardIds(j) : /\ CardsOf[j][i].path \in STRING /\ CardsOf[j][i].self \in BOOLEAN
                                    /\ CardsOf[j][i].hunks \in SUBSET STRING /\ CardsOf[j][i].hunks # {}
  <1>1. CardsOf[j] \in Seq(Card) /\ CardsOf[j] # <<>>
    BY CardsAssumption
  <1>2. \A i \in CardIds(j) : CardsOf[j][i] \in Card
    BY <1>1 DEF CardIds
  <1> QED BY <1>1, <1>2 DEF CardIds, Card

\* A further try: explainStart and runExplain's attempt() on the state of its card.
LEMMA TryCell ==
    ASSUME NEW c, NEW r, NEW self, NEW n \in 0..MaxRetries, CellOK(c, r, self, n),
           NEW p \in {"first", "second"},
           \/ c.explain = "pending" /\ p = "first"
           \/ r.phase = "backoff" /\ p = "second"
    PROVE  CellOK(Started(c), NextTry(r, p), self, n) /\ Started(c).verdict = c.verdict
  <1>1. c \in CardState /\ r \in Run /\ c.explain # "done" /\ ~ self
    BY DEF CellOK
  <1>2. /\ Started(c) = [c EXCEPT !.explain = "streaming", !.text = {}]
        /\ Started(c) \in CardState
    BY <1>1 DEF Started, CardState, Status
  <1>3. r.tries \in Nat /\ r.tries + 1 <= 2 * (n + 1) /\ (p = "first" => r.tries + 2 <= 2 * (n + 1))
    BY <1>1 DEF CellOK, TriesLeft, Run, Attempts
  <1>4. r.tries + 1 \in Attempts
    BY <1>3, Limits DEF Attempts
  <1>5. r.live = {}
    BY DEF CellOK
  <1>6. NextTry(r, p) = [phase |-> p, tries |-> r.tries + 1, live |-> {r.tries + 1}]
    BY <1>5 DEF NextTry
  <1>7. NextTry(r, p) \in Run
    BY <1>4, <1>6 DEF Run, Phase
  <1>8. /\ Started(c).explain = "streaming" /\ Started(c).text = {} /\ Started(c).verdict = c.verdict
    BY <1>1, <1>2 DEF CardState
  <1> QED BY <1>1, <1>2, <1>3, <1>6, <1>7, <1>8 DEF CellOK, TriesLeft

Kept(j, cs, c2) ==
    \A i \in CardIds(j) : /\ c2[i].verdict = cs[i].verdict
                          /\ cs[i].explain = "done" => c2[i] = cs[i]

\* scheduleExplains: places are given to the first cards in need of one, so that
\* whoever is still in need waits for a place.
LEMMA Scheduling ==
    ASSUME NEW j \in Jobs, NEW n \in 0..MaxRetries, NEW from \in Nat, NEW cs, NEW rs,
           Cells(j, cs, rs, n),
           NEW c2, c2 = ScheduledCards(j, cs, rs, from),
           NEW r2, r2 = ScheduledRuns(j, cs, rs, from)
    PROVE  Cells(j, c2, r2, n) /\ Served(c2, r2, from) /\ Kept(j, cs, c2)
  <1> DEFINE T == ToExplain(j, cs, rs, from)
             F == InFlight(rs)
             S == Starting(j, cs, rs, from)
             N == Len(CardsOf[j])
  <1>1. /\ cs \in [CardIds(j) -> CardState] /\ rs \in [CardIds(j) -> Run]
        /\ DOMAIN cs = CardIds(j) /\ DOMAIN rs = CardIds(j) /\ CardIds(j) = 1..N /\ N \in Nat
    BY JobCards DEF Cells
  <1>2. T \in SUBSET (1..N) /\ F \in SUBSET (1..N) /\ T \cap F = {}
    BY <1>1 DEF ToExplain, InFlight
  <1>a. /\ S = {i \in T : Cardinality({k \in T : k < i}) + Cardinality(F) < MaxInFlight}
        /\ c2 = [i \in CardIds(j) |-> IF i \in S THEN Started(cs[i]) ELSE cs[i]]
        /\ r2 = [i \in CardIds(j) |-> IF i \in S THEN NextTry(rs[i], "first") ELSE rs[i]]
    BY <1>1 DEF Starting, ScheduledCards, ScheduledRuns
  <1>b. \A i \in T : i \in CardIds(j) /\ cs[i].explain = "pending" /\ rs[i].phase = "none"
    BY <1>1 DEF ToExplain
  <1>c. \A i \in CardIds(j) :
           i >= from /\ cs[i].verdict = "none" /\ ~ CardsOf[j][i].self /\ cs[i].explain = "pending"
              /\ rs[i].phase = "none" => i \in T
    BY <1>1 DEF ToExplain
  <1>d. F = InFlight(rs) /\ F = {i \in CardIds(j) : rs[i].phase # "none"}
    BY <1>1 DEF InFlight
  <1> HIDE DEF T, F, S
  <1>e. IsFiniteSet(1..N)
    BY <1>1, FS_Interval
  <1>3. IsFiniteSet(F) /\ Cardinality(F) \in Nat /\ Cardinality(F) <= MaxInFlight
    <2>1. IsFiniteSet(F)
      BY <1>2, <1>e, FS_Subset
    <2> QED BY <2>1, FS_CardinalityType, <1>d DEF Cells
  <1>4. PICK m \in Nat : m = MaxInFlight - Cardinality(F)
    BY <1>3, Limits
  <1>5. \A i \in T : IsFiniteSet({k \in T : k < i}) /\ Cardinality({k \in T : k < i}) \in Nat
    <2> TAKE i \in T
    <2>1. {k \in T : k < i} \in SUBSET (1..N)
      BY <1>2
    <2>2. IsFiniteSet({k \in T : k < i})
      BY <2>1, <1>e, FS_Subset
    <2> QED BY <2>2, FS_CardinalityType
  <1>6. S = {i \in T : Cardinality({k \in T : k < i}) < m}
    <2>1. \A i \in T : Cardinality({k \in T : k < i}) + Cardinality(F) < MaxInFlight
                         <=> Cardinality({k \in T : k < i}) < m
      <3> TAKE i \in T
      <3>1. PICK z \in Nat : z = Cardinality({k \in T : k < i})
        BY <1>5
      <3> QED BY <3>1, <1>3, <1>4, Limits
    <2> QED BY <2>1, <1>a
  <1>7. /\ IsFiniteSet(S) /\ Cardinality(S) \in Nat /\ Cardinality(S) <= m
        /\ S # T => Cardinality(S) = m
    <2>1. N \in Nat /\ T \in SUBSET (1..N)
      BY <1>1, <1>2
    <2>2. S \in SUBSET T /\ \A i \in T : i \in S <=> Cardinality({k \in T : k < i}) < m
      BY <1>6
    <2> HIDE DEF N
    <2> QED BY <2>1, <2>2, FirstOnes
  <1>8. /\ c2 = [i \in CardIds(j) |-> IF i \in S THEN Started(cs[i]) ELSE cs[i]]
        /\ r2 = [i \in CardIds(j) |-> IF i \in S THEN NextTry(rs[i], "first") ELSE rs[i]]
    BY <1>a
  <1>9. \A i \in S : /\ cs[i].explain = "pending" /\ rs[i].phase = "none" /\ i \in CardIds(j)
    BY <1>6, <1>b
  <1>10. \A i \in S : /\ CellOK(c2[i], r2[i], CardsOf[j][i].self, n)
                      /\ c2[i].verdict = cs[i].verdict
                      /\ r2[i].phase = "first"
    <2> TAKE i \in S
    <2>1. CellOK(cs[i], rs[i], CardsOf[j][i].self, n)
      BY <1>9 DEF Cells
    <2>2. c2[i] = Started(cs[i]) /\ r2[i] = NextTry(rs[i], "first")
      BY <1>8, <1>9
    <2>3. CellOK(Started(cs[i]), NextTry(rs[i], "first"), CardsOf[j][i].self, n) /\ Started(cs[i]).verdict = cs[i].verdict
      BY <1>9, <2>1, TryCell
    <2>4. NextTry(rs[i], "first").phase = "first"
      BY DEF NextTry
    <2> QED BY <2>2, <2>3, <2>4
  <1>11. \A i \in CardIds(j) \ S : c2[i] = cs[i] /\ r2[i] = rs[i]
    BY <1>8
  <1>12. \A i \in CardIds(j) : CellOK(c2[i], r2[i], CardsOf[j][i].self, n)
    BY <1>10, <1>11 DEF Cells
  <1>13. c2 \in [CardIds(j) -> CardState] /\ r2 \in [CardIds(j) -> Run]
    BY <1>8, <1>12 DEF CellOK
  <1>14. InFlight(r2) = F \cup S
    <2>1. \A i \in CardIds(j) : i \in InFlight(r2) <=> i \in F \cup S
      BY <1>1, <1>10, <1>11, <1>13, <1>d DEF InFlight
    <2> QED BY <2>1, <1>d, <1>9, <1>13, <1>1 DEF InFlight
  <1>15. Cardinality(InFlight(r2)) = Cardinality(F) + Cardinality(S)
    <2>1. F \cap S = {}
      BY <1>2, <1>6
    <2>2. Cardinality(F \cap S) = 0
      BY <2>1, FS_EmptySet
    <2>3. Cardinality(F \cup S) = Cardinality(F) + Cardinality(S) - Cardinality(F \cap S)
      BY <1>3, <1>7, FS_Union
    <2> QED BY <2>2, <2>3, <1>3, <1>7, <1>14
  <1>16. Cardinality(InFlight(r2)) <= MaxInFlight
    BY <1>3, <1>4, <1>7, <1>15, Limits
  <1>17. Served(c2, r2, from)
    <2> SUFFICES ASSUME NEW i \in CardIds(j), i >= from, c2[i].verdict = "none", c2[i].explain = "pending"
                 PROVE  Cardinality(InFlight(r2)) = MaxInFlight
      BY <1>13 DEF Served
    <2>1. i \notin S
      BY <1>9, <1>10 DEF CellOK
    <2>2. c2[i] = cs[i] /\ rs[i] = r2[i] /\ CellOK(cs[i], rs[i], CardsOf[j][i].self, n)
      BY <2>1, <1>11 DEF Cells
    <2>3. i \in T
      BY <2>2, <1>c DEF CellOK
    <2>4. Cardinality(S) = m
      BY <2>1, <2>3, <1>7
    <2> QED BY <2>4, <1>3, <1>4, <1>15, Limits
  <1>18. Kept(j, cs, c2)
    BY <1>9, <1>10, <1>11 DEF Kept
  <1> QED BY <1>12, <1>13, <1>16, <1>17, <1>18 DEF Cells

-------------------------------------------------------------------------------
(* Cards change, and other cards are shown. *)

\* What was accepted stays accepted, and explained, while cards are explained.
LEMMA KeptChoice ==
    ASSUME NEW j \in Jobs, NEW cs, NEW c2, NEW sc, NEW fs, Kept(j, cs, c2),
           Explained(j, cs, sc, fs), Widened(j, cs, sc, fs)
    PROVE  Explained(j, c2, sc, fs) /\ Widened(j, c2, sc, fs)
  <1>0. CardIds(j) = 1..Len(CardsOf[j]) /\ Len(CardsOf[j]) \in Nat
    BY JobCards
  <1>1. \A i \in CardIds(j) : \A k \in 1..i : k \in CardIds(j)
    BY <1>0
  <1>2. Explained(j, c2, sc, fs)
    <2> SUFFICES ASSUME NEW i \in CardIds(j), c2[i].verdict = "accept"
                 PROVE  \E k \in 1..i :
                            /\ c2[k].verdict = "accept" /\ c2[k].explain = "done" /\ OneText(c2[k])
                            /\ \/ k = i
                               \/ sc = "session"
                               \/ CardsOf[j][k].path = CardsOf[j][i].path /\ CardsOf[j][k].path \in fs
      BY DEF Explained
    <2>1. cs[i].verdict = "accept"
      BY DEF Kept
    <2>2. PICK k \in 1..i :
              /\ cs[k].verdict = "accept" /\ cs[k].explain = "done" /\ OneText(cs[k])
              /\ \/ k = i
                 \/ sc = "session"
                 \/ CardsOf[j][k].path = CardsOf[j][i].path /\ CardsOf[j][k].path \in fs
      BY <2>1 DEF Explained
    <2>3. c2[k] = cs[k]
      BY <1>1, <2>2 DEF Kept
    <2> QED BY <2>2, <2>3
  <1>3. Widened(j, c2, sc, fs)
    BY DEF Kept, Widened
  <1> QED BY <1>2, <1>3

\* One cell is exchanged for a sound one that takes no new place.
LEMMA CellChanges ==
    ASSUME NEW j \in Jobs, NEW n \in 0..MaxRetries, NEW m \in 0..MaxRetries, n <= m,
           NEW cs, NEW rs, Cells(j, cs, rs, n),
           NEW i \in CardIds(j), NEW c, NEW r, CellOK(c, r, CardsOf[j][i].self, m),
           r.phase # "none" => rs[i].phase # "none"
    PROVE  /\ Cells(j, [cs EXCEPT ![i] = c], [rs EXCEPT ![i] = r], m)
           /\ \/ r.phase = "none" 
              \/ InFlight([rs EXCEPT ![i] = r]) = InFlight(rs)
  <1> DEFINE c2 == [cs EXCEPT ![i] = c]
             r2 == [rs EXCEPT ![i] = r]
             F == InFlight(rs)
             G == InFlight(r2)
  <1>1. /\ cs \in [CardIds(j) -> CardState] /\ rs \in [CardIds(j) -> Run]
        /\ CardIds(j) = 1..Len(CardsOf[j]) /\ Len(CardsOf[j]) \in Nat
    BY JobCards DEF Cells
  <1>2. c \in CardState /\ r \in Run
    BY DEF CellOK
  <1>3. c2 \in [CardIds(j) -> CardState] /\ r2 \in [CardIds(j) -> Run]
    BY <1>1, <1>2
  <1>4. \A k \in CardIds(j) : CellOK(c2[k], r2[k], CardsOf[j][k].self, m)
    <2> TAKE k \in CardIds(j)
    <2>1. CASE k = i
      BY <2>1, <1>1
    <2>2. CASE k # i
      <3>1. c2[k] = cs[k] /\ r2[k] = rs[k]
        BY <2>2, <1>1
      <3>2. CellOK(cs[k], rs[k], CardsOf[j][k].self, n)
        BY DEF Cells
      <3>3. rs[k].tries \in Nat /\ n \in Nat /\ m \in Nat /\ 2 * (n + 1) <= 2 * (m + 1)
        BY <1>1, Limits DEF Run, Attempts
      <3>4. TriesLeft(cs[k], rs[k]) \in Nat
        BY DEF TriesLeft
      <3>5. rs[k].tries + TriesLeft(cs[k], rs[k]) <= 2 * (m + 1)
        BY <3>2, <3>3, <3>4 DEF CellOK
      <3> QED BY <3>1, <3>2, <3>5 DEF CellOK
    <2> QED BY <2>1, <2>2
  <1>5. F = {k \in CardIds(j) : rs[k].phase # "none"} /\ G = {k \in CardIds(j) : r2[k].phase # "none"}
    BY <1>1, <1>3 DEF InFlight
  <1>6. \A k \in CardIds(j) : r2[k] = IF k = i THEN r ELSE rs[k]
    BY <1>1
  <1> HIDE DEF c2, r2, F, G
  <1>7. G \in SUBSET F /\ (r.phase # "none" => G = F)
    BY <1>5, <1>6
  <1>8. IsFiniteSet(F)
    <2>1. IsFiniteSet(1..Len(CardsOf[j]))
      BY <1>1, FS_Interval
    <2>2. F \in SUBSET (1..Len(CardsOf[j]))
      BY <1>1, <1>5
    <2> QED BY <2>1, <2>2, FS_Subset
  <1>9. Cardinality(G) <= Cardinality(F) /\ IsFiniteSet(G)
    BY <1>7, <1>8, FS_Subset
  <1>10. Cardinality(G) \in Nat /\ Cardinality(F) \in Nat
    BY <1>8, <1>9, FS_CardinalityType
  <1>11. Cardinality(F) <= MaxInFlight
    BY DEF Cells, F
  <1>12. Cardinality(G) <= MaxInFlight
    BY <1>9, <1>10, <1>11, Limits
  <1> QED BY <1>3, <1>4, <1>7, <1>12 DEF Cells, c2, r2, F, G

\* A review as the gate asks for it: nothing explained, nothing decided.
LEMMA FreshCells ==
    ASSUME NEW j \in Jobs, NEW n \in 0..MaxRetries
    PROVE  /\ Cells(j, Unstarted(j), NoRuns(j), n)
           /\ Unstarted(j) \in Seq(CardState) /\ NoRuns(j) \in Seq(Run)
           /\ \A i \in CardIds(j) : Unstarted(j)[i].verdict = "none"
           /\ NoRuns(j) \in [CardIds(j) -> Run]
  <1> DEFINE N == Len(CardsOf[j])
  <1>1. CardIds(j) = 1..N /\ N \in Nat
    BY JobCards
  <1>2. 0 \in Attempts /\ n \in Nat
    BY Limits DEF Attempts
  <1>3. \A i \in CardIds(j) : /\ Unstarted(j)[i] \in CardState /\ NoRuns(j)[i] \in Run
                              /\ Unstarted(j)[i].verdict = "none"
                              /\ NoRuns(j)[i] = [phase |-> "none", tries |-> 0, live |-> {}]
                              /\ Unstarted(j)[i] = [explain |-> IF CardsOf[j][i].self THEN "done" ELSE "pending",
                                                    text |-> {}, verdict |-> "none"]
    BY <1>2 DEF Unstarted, NoRuns, CardState, Run, Status, Choice, Phase
  <1>4. /\ Unstarted(j) \in [CardIds(j) -> CardState] /\ NoRuns(j) \in [CardIds(j) -> Run]
        /\ Unstarted(j) \in Seq(CardState) /\ NoRuns(j) \in Seq(Run)
    <2>1. Unstarted(j) \in [1..N -> CardState] /\ NoRuns(j) \in [1..N -> Run]
      BY <1>1, <1>3 DEF Unstarted, NoRuns
    <2> HIDE DEF N
    <2> QED BY <1>1, <2>1
  <1>5. \A i \in CardIds(j) : CellOK(Unstarted(j)[i], NoRuns(j)[i], CardsOf[j][i].self, n)
    <2> TAKE i \in CardIds(j)
    <2> DEFINE c == Unstarted(j)[i]
               r == NoRuns(j)[i]
    <2>0. /\ c \in CardState /\ r \in Run /\ r = [phase |-> "none", tries |-> 0, live |-> {}]
          /\ c = [explain |-> IF CardsOf[j][i].self THEN "done" ELSE "pending",
                  text |-> {}, verdict |-> "none"]
      BY <1>3
    <2> HIDE DEF c, r
    <2>1. /\ c \in CardState /\ r \in Run /\ r.phase = "none" /\ r.tries = 0 /\ r.live = {}
          /\ c.text = {} /\ c.explain = IF CardsOf[j][i].self THEN "done" ELSE "pending"
      BY <2>0
    <2>2. TriesLeft(c, r) \in {0, 2}
      BY <2>1 DEF TriesLeft
    <2>3. r.tries + TriesLeft(c, r) <= 2 * (n + 1)
      BY <2>1, <2>2, <1>2
    <2>4. CellOK(c, r, CardsOf[j][i].self, n)
      BY <2>1, <2>3 DEF CellOK
    <2> QED BY <2>4 DEF c, r
  <1>6. InFlight(NoRuns(j)) = {}
    BY <1>3, <1>4 DEF InFlight
  <1>7. Cardinality({}) = 0
    BY FS_EmptySet
  <1> QED BY <1>3, <1>4, <1>5, <1>6, <1>7, Limits DEF Cells

\* pump: the next review is shown, and its first cards are explained.
LEMMA PumpShows ==
    ASSUME NEW q \in Seq(Jobs), NEW d \in SUBSET Jobs, NEW n \in 0..MaxRetries,
           NEW cs \in [Jobs -> Seq(CardState)], NEW rs \in [Jobs -> Seq(Run)],
           \A k, l \in DOMAIN q : q[k] = q[l] => k = l,
           \A k \in DOMAIN q : q[k] \notin d,
           \A k \in DOMAIN q : cs[q[k]] = Unstarted(q[k]) /\ rs[q[k]] = NoRuns(q[k]),
           panel \in BOOLEAN, Pump(q, cs, rs)
    PROVE  /\ Line(queue', active', d)
           /\ cards' \in [Jobs -> Seq(CardState)] /\ runs' \in [Jobs -> Seq(Run)]
           /\ panel' \in BOOLEAN /\ (active' # NoJob => panel')
           /\ \A k \in Jobs : k # active' => cards'[k] = cs[k] /\ runs'[k] = rs[k]
           /\ active' # NoJob =>
                 /\ active' \in Jobs /\ q # <<>> /\ active' = Head(q)
                 /\ Cells(active', cards'[active'], runs'[active'], n)
                 /\ Served(cards'[active'], runs'[active'], 1)
                 /\ Kept(active', Unstarted(active'), cards'[active'])
  <1>1. CASE q = <<>>
    BY <1>1, CardsAssumption DEF Pump, Line
  <1>2. CASE q # <<>>
    <2> DEFINE h == Head(q)
               ch == ScheduledCards(h, cs[h], rs[h], 1)
               rh == ScheduledRuns(h, cs[h], rs[h], 1)
    <2>1. /\ active' = h /\ queue' = Tail(q) /\ panel' = TRUE
          /\ cards' = [cs EXCEPT ![h] = ch] /\ runs' = [rs EXCEPT ![h] = rh]
      BY <1>2 DEF Pump
    <2>2. h \in Jobs /\ h = q[1] /\ 1 \in DOMAIN q /\ h \notin d /\ h # NoJob
      BY <1>2, CardsAssumption
    <2>3. cs[h] = Unstarted(h) /\ rs[h] = NoRuns(h)
      BY <2>2
    <2>4. Cells(h, ch, rh, n) /\ Served(ch, rh, 1) /\ Kept(h, Unstarted(h), ch)
      BY <2>2, <2>3, FreshCells, Scheduling
    <2>5. ch \in Seq(CardState) /\ rh \in Seq(Run)
      <3>1. ch \in [1..Len(CardsOf[h]) -> CardState] /\ rh \in [1..Len(CardsOf[h]) -> Run] /\ Len(CardsOf[h]) \in Nat
        BY <2>2, <2>4, JobCards DEF Cells
      <3> HIDE DEF ch, rh
      <3>2. \A N \in Nat : /\ \A f \in [1..N -> CardState] : f \in Seq(CardState)
                           /\ \A g \in [1..N -> Run] : g \in Seq(Run)
        OBVIOUS
      <3> QED BY <3>1, <3>2
    <2> HIDE DEF ch, rh
    <2>6. /\ cards' \in [Jobs -> Seq(CardState)] /\ runs' \in [Jobs -> Seq(Run)]
          /\ cards'[h] = ch /\ runs'[h] = rh
          /\ \A k \in Jobs : k # h => cards'[k] = cs[k] /\ runs'[k] = rs[k]
      BY <2>1, <2>2, <2>5
    <2>7. Line(Tail(q), h, d)
      <3>1. /\ Tail(q) \in Seq(Jobs) /\ Len(q) \in Nat /\ DOMAIN q = 1..Len(q)
            /\ DOMAIN Tail(q) = 1..Len(q) - 1
            /\ \A k \in 1..Len(q) - 1 : Tail(q)[k] = q[k + 1]
        BY <1>2
      <3>2. \A k \in 1..Len(q) - 1 : k + 1 \in DOMAIN q /\ k + 1 # 1
        BY <3>1
      <3>3. \A k, l \in DOMAIN Tail(q) : Tail(q)[k] = Tail(q)[l] => k = l
        <4> SUFFICES ASSUME NEW k \in 1..Len(q) - 1, NEW l \in 1..Len(q) - 1, q[k + 1] = q[l + 1]
                     PROVE  k = l
          BY <3>1
        <4>1. k + 1 = l + 1
          BY <3>2
        <4> QED BY <4>1, <3>1
      <3>4. \A k \in DOMAIN Tail(q) : Tail(q)[k] # h /\ Tail(q)[k] \notin d
        <4> SUFFICES ASSUME NEW k \in 1..Len(q) - 1 PROVE q[k + 1] # h /\ q[k + 1] \notin d
          BY <3>1
        <4>1. k + 1 \in DOMAIN q /\ k + 1 # 1
          BY <3>2
        <4> QED BY <4>1, <2>2
      <3> QED BY <3>1, <3>3, <3>4, <2>2 DEF Line
    <2> QED BY <1>2, <2>1, <2>2, <2>4, <2>6, <2>7
  <1> QED BY <1>1, <1>2

-------------------------------------------------------------------------------
(* Steps on the review that is shown. *)

LEMMA InitSound == Init => PanelIInv
  <1> SUFFICES ASSUME Init PROVE PanelIInv
    OBVIOUS
  <1>0. \A j \in Jobs : Unstarted(j) \in Seq(CardState) /\ NoRuns(j) \in Seq(Run)
    BY FreshCells, Limits
  <1>1. NoDecision \in Answer
    BY DEF NoDecision, Answer
  <1>2. Tables
    BY <1>0, <1>1, Limits DEF Init, Tables, Choices
  <1>3. Line(queue, active, done)
    BY CardsAssumption DEF Init, Line
  <1>4. Panels /\ Clicks
    <2>1. mail = <<>> /\ view = Idle /\ Panels
      BY CardsAssumption DEF Init, Panels
    <2>2. mail \in Seq([kind : Click, card : Nat, job : Jobs \cup {NoJob}]) /\ Len(mail) = 0
      BY <2>1
    <2>3. view.job = NoJob /\ view.card = 0
      BY <2>1 DEF Idle
    <2> QED BY <2>1, <2>2, <2>3, Limits DEF Clicks
  <1>5. Dossiers
    <2> SUFFICES ASSUME NEW j \in Jobs PROVE j \notin done /\ j # active /\ Waiting(j, Dossier(j))
      BY DEF Dossiers
    <2> QED BY CardsAssumption DEF Init, Waiting, Dossier
  <1> QED BY <1>2, <1>3, <1>4, <1>5 DEF PanelIInv

\* What is known of the review that is shown.
LEMMA ShownReview ==
    ASSUME PanelIInv, NEW j \in Jobs, j = active
    PROVE  /\ Cells(j, cards[j], runs[j], retries) /\ Served(cards[j], runs[j], current[j])
           /\ Explained(j, cards[j], scope[j], files[j]) /\ Widened(j, cards[j], scope[j], files[j])
           /\ current[j] \in 1..Len(CardsOf[j]) + 1 /\ Len(CardsOf[j]) \in Nat
           /\ closed[j] = FALSE /\ decision[j] = NoDecision
           /\ cards[j] \in [CardIds(j) -> CardState] /\ runs[j] \in [CardIds(j) -> Run]
           /\ retries \in 0..MaxRetries /\ j \notin done
           /\ scope[j] \in {"one", "file", "session"} /\ files[j] \in SUBSET STRING
  <1>1. OnScreen(j, Dossier(j), retries)
    BY DEF PanelIInv, Dossiers
  <1>2. retries \in 0..MaxRetries /\ j \notin done
    BY DEF PanelIInv, Tables, Choices, Line
  <1> QED BY <1>1, <1>2, JobCards DEF OnScreen, Chosenly, Dossier, Cells

LEMMA AsSequences ==
    ASSUME NEW j \in Jobs
    PROVE  /\ \A f \in [CardIds(j) -> CardState] : f \in Seq(CardState)
           /\ \A g \in [CardIds(j) -> Run] : g \in Seq(Run)
  <1>1. \A N \in Nat : /\ \A f \in [1..N -> CardState] : f \in Seq(CardState)
                       /\ \A g \in [1..N -> Run] : g \in Seq(Run)
    OBVIOUS
  <1> QED BY <1>1, JobCards

\* Only the review that is shown changes, and stays shown.
LEMMA ActiveChanges ==
    ASSUME PanelIInv, NEW j \in Jobs, j = active,
           UNCHANGED <<queue, active, done, disposed, panel>>,
           Tables', Clicks',
           \A k \in Jobs : k # j => Dossier(k)' = Dossier(k),
           OnScreen(j, Dossier(j)', retries')
    PROVE  PanelIInv'
  <1>1. Line(queue', active', done')
    BY DEF PanelIInv
  <1>2. Panels'
    BY DEF PanelIInv, Panels
  <1>3. Dossiers'
    <2> SUFFICES ASSUME NEW k \in Jobs
                 PROVE  /\ k \in done' => Over(k, Dossier(k)')
                        /\ k = active' => OnScreen(k, Dossier(k)', retries')
                        /\ k \notin done' /\ k # active' => Waiting(k, Dossier(k)')
      BY DEF Dossiers
    <2>1. CASE k = j
      <3>1. j \notin done
        BY DEF PanelIInv, Line
      <3> QED BY <2>1, <3>1
    <2>2. CASE k # j
      <3>1. Dossier(k)' = Dossier(k)
        BY <2>2
      <3> QED BY <2>2, <3>1 DEF PanelIInv, Dossiers
    <2> QED BY <2>1, <2>2
  <1>4. Line(queue, active, done)'
    BY <1>1
  <1> QED BY <1>2, <1>3, <1>4 DEF PanelIInv

\* The same for a step of an explanation: nothing is decided by it.
LEMMA ExplanationChanges ==
    ASSUME PanelIInv, NEW j \in Jobs, j = active,
           NEW cs, NEW rs, cards' = [cards EXCEPT ![j] = cs], runs' = [runs EXCEPT ![j] = rs],
           retries' \in 0..MaxRetries,
           Cells(j, cs, rs, retries'), Served(cs, rs, current[j]), Kept(j, cards[j], cs),
           UNCHANGED <<presenter, current, scope, files, closed, decision>>, Clicks'
    PROVE  PanelIInv'
  <1>0. Tables
    BY DEF PanelIInv
  <1>1. /\ cards'[j] = cs /\ runs'[j] = rs
        /\ \A k \in Jobs : k # j => cards'[k] = cards[k] /\ runs'[k] = runs[k]
    BY <1>0 DEF Tables
  <1>2. Tables'
    <2>1. cs \in Seq(CardState) /\ rs \in Seq(Run)
      BY AsSequences DEF Cells
    <2>2. cards' \in [Jobs -> Seq(CardState)] /\ runs' \in [Jobs -> Seq(Run)]
      BY <1>0, <2>1 DEF Tables
    <2> QED BY <1>0, <2>2 DEF Tables, Choices
  <1>3. \A k \in Jobs : k # j => Dossier(k)' = Dossier(k)
    BY <1>1 DEF Dossier
  <1>4. Explained(j, cs, scope[j], files[j]) /\ Widened(j, cs, scope[j], files[j])
    BY ShownReview, KeptChoice
  <1>5. OnScreen(j, Dossier(j)', retries')
    <2>1. Dossier(j)' = [cards |-> cs, runs |-> rs, current |-> current[j], scope |-> scope[j],
                         files |-> files[j], closed |-> FALSE, decision |-> NoDecision]
      BY <1>1, ShownReview DEF Dossier
    <2>2. cs \in [CardIds(j) -> CardState]
      BY DEF Cells
    <2> DEFINE d == Dossier(j)'
    <2>3. /\ d.cards = cs /\ d.runs = rs /\ d.current = current[j] /\ d.scope = scope[j]
          /\ d.files = files[j] /\ d.closed = FALSE /\ d.decision = NoDecision
      BY <2>1
    <2>4. Chosenly(j, d)
      BY <2>2, <2>3, <1>4, ShownReview DEF Chosenly
    <2> HIDE DEF d
    <2>5. OnScreen(j, d, retries')
      BY <2>3, <2>4 DEF OnScreen
    <2> QED BY <2>5 DEF d
  <1>6. UNCHANGED <<queue, active, done, disposed, panel>>
    BY DEF presenter
  <1> QED BY <1>2, <1>3, <1>5, <1>6, ActiveChanges

LEMMA SameClicks ==
    ASSUME PanelIInv, UNCHANGED webview PROVE Clicks'
  BY DEF PanelIInv, Clicks, webview

-------------------------------------------------------------------------------
(* The explanations, step by step. *)
\* A call goes on: its card streams before and after.
LEMMA CallGoesOn ==
    ASSUME PanelIInv, NEW j \in Jobs, NEW i \in CardIds(j), Explaining(j, i),
           NEW c, NEW r, CellOK(c, r, CardsOf[j][i].self, retries), r.phase # "none",
           runs[j][i].phase # "none", c.verdict = cards[j][i].verdict,
           cards' = [cards EXCEPT ![j] = [cards[j] EXCEPT ![i] = c]],
           runs' = [runs EXCEPT ![j] = [runs[j] EXCEPT ![i] = r]]
    PROVE  PanelIInv'
  <1> DEFINE cs == [cards[j] EXCEPT ![i] = c]
             rs == [runs[j] EXCEPT ![i] = r]
  <1>1. j = active /\ UNCHANGED <<presenter, current, scope, files, closed, decision>>
    BY DEF Explaining
  <1>2. /\ Cells(j, cards[j], runs[j], retries) /\ CellOK(cards[j][i], runs[j][i], CardsOf[j][i].self, retries)
        /\ cards[j] \in [CardIds(j) -> CardState] /\ runs[j] \in [CardIds(j) -> Run]
        /\ retries \in 0..MaxRetries /\ Served(cards[j], runs[j], current[j])
    BY <1>1, ShownReview DEF Cells
  <1>3. Cells(j, cs, rs, retries) /\ InFlight(rs) = InFlight(runs[j])
    BY <1>2, CellChanges
  <1>4. c.explain = "streaming" /\ cards[j][i].explain = "streaming"
    BY <1>2 DEF CellOK
  <1>5. Served(cs, rs, current[j]) /\ Kept(j, cards[j], cs)
    <2>1. \A x \in CardIds(j) : cs[x] = IF x = i THEN c ELSE cards[j][x]
      BY <1>2
    <2>2. DOMAIN cs = CardIds(j) /\ DOMAIN cards[j] = CardIds(j)
      BY <1>2
    <2> HIDE DEF cs, rs
    <2>3. Served(cs, rs, current[j])
      BY <1>2, <1>3, <1>4, <2>1, <2>2 DEF Served
    <2> QED BY <1>4, <2>1, <2>3 DEF Kept
  <1>6. Clicks' /\ retries' = retries
    BY SameClicks DEF Explaining
  <1> HIDE DEF cs, rs
  <1>7. cards' = [cards EXCEPT ![j] = cs] /\ runs' = [runs EXCEPT ![j] = rs]
    BY DEF cs, rs
  <1> QED BY <1>1, <1>2, <1>3, <1>5, <1>6, <1>7, ExplanationChanges

LEMMA ExplainingCell ==
    ASSUME PanelIInv, NEW j \in Jobs, NEW i \in CardIds(j), Explaining(j, i)
    PROVE  /\ j = active /\ CellOK(cards[j][i], runs[j][i], CardsOf[j][i].self, retries)
           /\ cards[j] \in [CardIds(j) -> CardState] /\ runs[j] \in [CardIds(j) -> Run]
           /\ cards \in [Jobs -> Seq(CardState)] /\ runs \in [Jobs -> Seq(Run)]
           /\ cards[j][i] \in CardState /\ runs[j][i] \in Run
           /\ retries \in 0..MaxRetries
  <1>1. j = active
    BY DEF Explaining
  <1>2. cards \in [Jobs -> Seq(CardState)] /\ runs \in [Jobs -> Seq(Run)]
    BY DEF PanelIInv, Tables
  <1> QED BY <1>1, <1>2, ShownReview DEF Cells

LEMMA ChunkStep ==
    ASSUME PanelIInv, NEW j \in Jobs, NEW i \in CardIds(j), NEW k \in Attempts,
           ExplainChunk(j, i, k)
    PROVE  PanelIInv'
  <1> DEFINE c == cards[j][i]
             r == runs[j][i]
             e == [c EXCEPT !.explain = "streaming", !.text = @ \cup {k}]
  <1>1. Explaining(j, i) /\ k \in r.live /\ c.explain \notin {"done", "error"}
    BY DEF ExplainChunk
  <1>2. CellOK(c, r, CardsOf[j][i].self, retries)
    BY <1>1, ExplainingCell
  <1>3. c \in CardState /\ k = r.tries /\ c.explain = "streaming" /\ r.phase # "none"
    BY <1>1, <1>2 DEF CellOK, CardState, Status
  <1>4. e \in CardState /\ e.explain = "streaming" /\ e.text = c.text \cup {k} /\ e.verdict = c.verdict
    BY <1>3 DEF CardState, Status
  <1>5. CellOK(e, r, CardsOf[j][i].self, retries)
    <2>1. TriesLeft(e, r) = TriesLeft(c, r)
      BY <1>3, <1>4 DEF TriesLeft
    <2> HIDE DEF e, c, r
    <2> QED BY <1>2, <1>3, <1>4, <2>1 DEF CellOK
  <1>6. /\ cards' = [cards EXCEPT ![j] = [cards[j] EXCEPT ![i] = e]]
        /\ runs' = [runs EXCEPT ![j] = [runs[j] EXCEPT ![i] = r]]
    BY <1>1, ExplainingCell DEF ExplainChunk
  <1> QED BY <1>1, <1>3, <1>4, <1>5, <1>6, CallGoesOn

LEMMA FailsStep ==
    ASSUME PanelIInv, NEW j \in Jobs, NEW i \in CardIds(j), ExplainFails(j, i)
    PROVE  PanelIInv'
  <1> DEFINE c == cards[j][i]
             r == runs[j][i]
             b == [Cancelled(r) EXCEPT !.phase = "backoff"]
  <1>1. Explaining(j, i) /\ r.phase = "first"
    BY DEF ExplainFails
  <1>2. CellOK(c, r, CardsOf[j][i].self, retries) /\ r \in Run
    BY <1>1, ExplainingCell
  <1>3. b \in Run /\ b.phase = "backoff" /\ b.live = {} /\ b.tries = r.tries
    <2>1. r.live \ {r.tries} = {}
      BY <1>2 DEF CellOK
    <2> QED BY <1>2, <2>1 DEF Run, Cancelled, Phase
  <1>4. CellOK(c, b, CardsOf[j][i].self, retries)
    <2>1. TriesLeft(c, b) = TriesLeft(c, r)
      BY <1>1, <1>3 DEF TriesLeft
    <2> HIDE DEF b, c, r
    <2> QED BY <1>1, <1>2, <1>3, <2>1 DEF CellOK
  <1>5. /\ cards' = [cards EXCEPT ![j] = [cards[j] EXCEPT ![i] = c]]
        /\ runs' = [runs EXCEPT ![j] = [runs[j] EXCEPT ![i] = b]]
    BY <1>1, ExplainingCell DEF ExplainFails
  <1> HIDE DEF b
  <1> QED BY <1>1, <1>3, <1>4, <1>5, CallGoesOn

LEMMA RetryExplainStep ==
    ASSUME PanelIInv, NEW j \in Jobs, NEW i \in CardIds(j), RetryExplain(j, i)
    PROVE  PanelIInv'
  <1> DEFINE c == cards[j][i]
             r == runs[j][i]
  <1>1. Explaining(j, i) /\ r.phase = "backoff"
    BY DEF RetryExplain
  <1>2. CellOK(c, r, CardsOf[j][i].self, retries) /\ retries \in 0..MaxRetries
    BY <1>1, ExplainingCell
  <1>3. /\ CellOK(Started(c), NextTry(r, "second"), CardsOf[j][i].self, retries)
        /\ Started(c).verdict = c.verdict
    BY <1>1, <1>2, TryCell
  <1>4. NextTry(r, "second").phase = "second"
    BY DEF NextTry
  <1>5. /\ cards' = [cards EXCEPT ![j] = [cards[j] EXCEPT ![i] = Started(c)]]
        /\ runs' = [runs EXCEPT ![j] = [runs[j] EXCEPT ![i] = NextTry(r, "second")]]
    BY <1>1, ExplainingCell DEF RetryExplain
  <1> QED BY <1>1, <1>3, <1>4, <1>5, CallGoesOn

\* A call is over: its place goes to the next card in need.
LEMMA CallEnds ==
    ASSUME PanelIInv, NEW j \in Jobs, NEW i \in CardIds(j), Explaining(j, i),
           NEW c, NEW r, NEW f, f = [r EXCEPT !.phase = "none"],
           CellOK(c, f, CardsOf[j][i].self, retries), f.phase = "none",
           runs[j][i].phase # "none", c.verdict = cards[j][i].verdict, CallOver(j, i, c, r)
    PROVE  PanelIInv'
  <1> DEFINE cs == [cards[j] EXCEPT ![i] = c]
             rs == [runs[j] EXCEPT ![i] = f]
             c2 == ScheduledCards(j, cs, rs, current[j])
             r2 == ScheduledRuns(j, cs, rs, current[j])
  <1>1. /\ j = active /\ UNCHANGED <<presenter, current, scope, files, closed, decision>>
        /\ retries' = retries
    BY DEF Explaining
  <1>2. /\ Cells(j, cards[j], runs[j], retries) /\ CellOK(cards[j][i], runs[j][i], CardsOf[j][i].self, retries)
        /\ cards[j] \in [CardIds(j) -> CardState] /\ runs[j] \in [CardIds(j) -> Run]
        /\ retries \in 0..MaxRetries
    BY <1>1, ShownReview DEF Cells
  <1>a. current[j] \in Nat
    <2>1. current[j] \in 1..Len(CardsOf[j]) + 1 /\ Len(CardsOf[j]) \in Nat
      BY <1>1, ShownReview
    <2> QED BY <2>1
  <1>b. retries <= retries
    BY <1>2, Limits
  <1>3. Cells(j, cs, rs, retries)
    BY <1>2, <1>b, CellChanges
  <1>4. Kept(j, cards[j], cs)
    <2>1. cards[j][i].explain = "streaming"
      BY <1>2 DEF CellOK
    <2>2. \A x \in CardIds(j) : cs[x] = IF x = i THEN c ELSE cards[j][x]
      BY <1>2
    <2> HIDE DEF cs
    <2> QED BY <2>1, <2>2 DEF Kept
  <1>5. cards' = [cards EXCEPT ![j] = c2] /\ runs' = [runs EXCEPT ![j] = r2]
    BY DEF CallOver
  <1>6. Clicks'
    BY SameClicks DEF Explaining
  <1> HIDE DEF cs, rs
  <1>7. Cells(j, c2, r2, retries) /\ Served(c2, r2, current[j]) /\ Kept(j, cs, c2)
    BY <1>2, <1>a, <1>3, Scheduling
  <1> HIDE DEF c2, r2
  <1>8. Kept(j, cards[j], c2)
    BY <1>4, <1>7 DEF Kept
  <1> QED BY <1>1, <1>2, <1>5, <1>6, <1>7, <1>8, ExplanationChanges

LEMMA DoneStep ==
    ASSUME PanelIInv, NEW j \in Jobs, NEW i \in CardIds(j), ExplainDone(j, i)
    PROVE  PanelIInv'
  <1> DEFINE c == cards[j][i]
             r == runs[j][i]
             e == [c EXCEPT !.explain = "done"]
             f == [r EXCEPT !.phase = "none"]
  <1>1. Explaining(j, i) /\ r.phase \in {"first", "second"} /\ CallOver(j, i, e, r)
    BY DEF ExplainDone
  <1>2. CellOK(c, r, CardsOf[j][i].self, retries) /\ c \in CardState /\ r \in Run
    BY <1>1, ExplainingCell
  <1>3. /\ e \in CardState /\ e.explain = "done" /\ e.text = c.text /\ e.verdict = c.verdict
        /\ f \in Run /\ f.phase = "none" /\ f.live = r.live /\ f.tries = r.tries
    BY <1>2 DEF CardState, Status, Run, Phase
  <1>4. CellOK(e, f, CardsOf[j][i].self, retries)
    <2>1. TriesLeft(e, f) = 0 /\ TriesLeft(c, r) \in {0, 1, 2} /\ r.tries \in Nat /\ retries \in Nat
      BY <1>1, <1>2, <1>3, ExplainingCell, Limits DEF TriesLeft, Run, Attempts
    <2>2. f.tries + TriesLeft(e, f) <= 2 * (retries + 1)
      BY <1>2, <1>3, <2>1 DEF CellOK
    <2> HIDE DEF e, f, c, r
    <2> QED BY <1>2, <1>3, <2>2 DEF CellOK
  <1> HIDE DEF e
  <1> QED BY <1>1, <1>3, <1>4, CallEnds

LEMMA ErrorStep ==
    ASSUME PanelIInv, NEW j \in Jobs, NEW i \in CardIds(j), ExplainError(j, i)
    PROVE  PanelIInv'
  <1> DEFINE c == cards[j][i]
             r == runs[j][i]
             e == GivesUp(c)
             x == Cancelled(r)
             f == [x EXCEPT !.phase = "none"]
  <1>1. Explaining(j, i) /\ r.phase \in {"first", "second"} /\ CallOver(j, i, e, x)
    BY DEF ExplainError
  <1>2. CellOK(c, r, CardsOf[j][i].self, retries) /\ c \in CardState /\ r \in Run
    BY <1>1, ExplainingCell
  <1>3. c.explain = "streaming" /\ r.live \ {r.tries} = {}
    BY <1>1, <1>2 DEF CellOK
  <1>4. /\ e \in CardState /\ e.explain = "error" /\ e.text = c.text /\ e.verdict = c.verdict
        /\ f \in Run /\ f.phase = "none" /\ f.live = {} /\ f.tries = r.tries
    BY <1>2, <1>3 DEF CardState, Status, Run, Phase, GivesUp, Cancelled
  <1>5. CellOK(e, f, CardsOf[j][i].self, retries)
    <2>1. TriesLeft(e, f) = 0 /\ TriesLeft(c, r) \in {0, 1, 2} /\ r.tries \in Nat /\ retries \in Nat
      BY <1>1, <1>2, <1>4, ExplainingCell, Limits DEF TriesLeft, Run, Attempts
    <2>2. f.tries + TriesLeft(e, f) <= 2 * (retries + 1)
      BY <1>2, <1>4, <2>1 DEF CellOK
    <2> HIDE DEF e, f, c, r
    <2>3. ~ CardsOf[j][i].self
      BY <1>2, <1>3 DEF CellOK
    <2> QED BY <1>2, <1>4, <2>2, <2>3 DEF CellOK
  <1> HIDE DEF e, x
  <1> QED BY <1>1, <1>4, <1>5, CallEnds

-------------------------------------------------------------------------------
(* Clicks arrive. *)

LEMMA Delivered ==
    ASSUME PanelIInv, mail # <<>>, mail' = Tail(mail), view' = view
    PROVE  Clicks' /\ Head(mail).card \in Nat
  <1> DEFINE M == [kind : Click, card : Nat, job : Jobs \cup {NoJob}]
  <1>1. mail \in Seq(M) /\ Len(mail) <= MaxMail
    BY DEF PanelIInv, Clicks
  <1> HIDE DEF M
  <1>2. Tail(mail) \in Seq(M) /\ Len(Tail(mail)) = Len(mail) - 1 /\ Head(mail) \in M /\ Len(mail) \in Nat
    BY <1>1
  <1>3. Len(Tail(mail)) <= MaxMail
    BY <1>1, <1>2, Limits
  <1>4. Clicks'
    BY <1>2, <1>3 DEF PanelIInv, Clicks, M
  <1> QED BY <1>2, <1>4 DEF M

LEMMA RetryStep ==
    ASSUME PanelIInv, Retry PROVE PanelIInv'
  <1> DEFINE j == active
             i == Target
             c == cards[j][i]
             r == runs[j][i]
             e == [c EXCEPT !.explain = "pending", !.text = {}]
             cs == [cards[j] EXCEPT ![i] = e]
             rs == [runs[j] EXCEPT ![i] = r]
             c2 == ScheduledCards(j, cs, rs, current[j])
             r2 == ScheduledRuns(j, cs, rs, current[j])
             n == retries + 1
  <1>1. /\ j \in Jobs /\ i \in CardIds(j) /\ c.explain = "error" /\ retries < MaxRetries
        /\ retries' = n /\ cards \in [Jobs -> Seq(CardState)] /\ runs \in [Jobs -> Seq(Run)]
    BY DEF Retry, Deliver, PanelIInv, Line, Tables
  <1>2. /\ Cells(j, cards[j], runs[j], retries) /\ CellOK(c, r, CardsOf[j][i].self, retries)
        /\ cards[j] \in [CardIds(j) -> CardState] /\ runs[j] \in [CardIds(j) -> Run]
        /\ retries \in 0..MaxRetries
    BY <1>1, ShownReview DEF Cells
  <1>3. n \in 0..MaxRetries /\ retries <= n
    BY <1>1, <1>2, Limits
  <1>4. current[j] \in Nat
    <2>1. current[j] \in 1..Len(CardsOf[j]) + 1 /\ Len(CardsOf[j]) \in Nat
      BY <1>1, ShownReview
    <2> QED BY <2>1
  <1>5. /\ e \in CardState /\ e.explain = "pending" /\ e.text = {} /\ e.verdict = c.verdict
        /\ r.phase = "none" /\ r.live = {} /\ r \in Run /\ ~ CardsOf[j][i].self
    <2>1. c \in CardState /\ r \in Run
      BY <1>2 DEF CellOK
    <2> QED BY <1>1, <1>2, <2>1 DEF CellOK, CardState, Status
  <1>6. CellOK(e, r, CardsOf[j][i].self, n)
    <2>1. r.tries \in Nat /\ TriesLeft(e, r) = 2 /\ TriesLeft(c, r) = 0
      BY <1>1, <1>5 DEF TriesLeft, Run, Attempts
    <2>2. r.tries <= 2 * (retries + 1) /\ retries \in Nat
      BY <1>2, <2>1, Limits DEF CellOK
    <2>3. r.tries + TriesLeft(e, r) <= 2 * (n + 1)
      BY <2>1, <2>2
    <2> HIDE DEF e, c, r, n
    <2> QED BY <1>2, <1>5, <2>3 DEF CellOK
  <1>7. Cells(j, cs, rs, n)
    <2> HIDE DEF e, n
    <2> QED BY <1>1, <1>2, <1>3, <1>5, <1>6, CellChanges
  <1>8. Kept(j, cards[j], cs)
    <2>1. \A x \in CardIds(j) : cs[x] = IF x = i THEN e ELSE cards[j][x]
      BY <1>2
    <2> HIDE DEF cs, e
    <2> QED BY <1>1, <1>5, <2>1 DEF Kept
  <1>9. cards' = [cards EXCEPT ![j] = c2] /\ runs' = [runs EXCEPT ![j] = r2]
    <2>1. rs = runs[j]
      BY <1>1, <1>2
    <2>2. cs = [cards[j] EXCEPT ![i].explain = "pending", ![i].text = {}]
      BY <1>1, <1>2, <1>5
    <2> QED BY <2>1, <2>2 DEF Retry
  <1>10. Clicks' /\ UNCHANGED <<presenter, current, scope, files, closed, decision>>
    BY Delivered DEF Retry, Deliver, presenter
  <1> HIDE DEF cs, rs, n, e, c, r, j, i
  <1>11. Cells(j, c2, r2, n) /\ Served(c2, r2, current[j]) /\ Kept(j, cs, c2)
    BY <1>1, <1>3, <1>4, <1>7, Scheduling
  <1> HIDE DEF c2, r2
  <1>12. Kept(j, cards[j], c2)
    BY <1>8, <1>11 DEF Kept
  <1>13. j = active
    BY DEF j
  <1> QED BY <1>1, <1>3, <1>9, <1>10, <1>11, <1>12, <1>13, ExplanationChanges

-------------------------------------------------------------------------------
(* Decisions. *)

\* A decision touches the verdicts of the undecided cards it is about.
LEMMA ChosenCards ==
    ASSUME NEW j \in Jobs, cards[j] \in [CardIds(j) -> CardState], NEW S, NEW v \in {"accept", "reject"},
           NEW cs, cs = Chosen(j, S, v)
    PROVE  /\ cs \in [CardIds(j) -> CardState]
           /\ \A k \in CardIds(j) :
                 /\ cs[k].explain = cards[j][k].explain /\ cs[k].text = cards[j][k].text
                 /\ cards[j][k].verdict # "none" => cs[k] = cards[j][k]
                 /\ cs[k].verdict # cards[j][k].verdict => k \in S /\ cs[k].verdict = v
                 /\ k \in S /\ cards[j][k].verdict = "none" => cs[k].verdict = v
  <1>1. \A k \in CardIds(j) : /\ cards[j][k] \in CardState
                              /\ cs[k] = IF k \in S /\ cards[j][k].verdict = "none"
                                         THEN [cards[j][k] EXCEPT !.verdict = v] ELSE cards[j][k]
    BY DEF Chosen
  <1>2. \A k \in CardIds(j) : /\ cs[k] \in CardState
                              /\ cs[k].explain = cards[j][k].explain /\ cs[k].text = cards[j][k].text
                              /\ cs[k].verdict = IF k \in S /\ cards[j][k].verdict = "none"
                                                 THEN v ELSE cards[j][k].verdict
    BY <1>1 DEF CardState, Choice
  <1>3. cs \in [CardIds(j) -> CardState]
    BY <1>2 DEF Chosen
  <1> QED BY <1>1, <1>2, <1>3

LEMMA ChosenCells ==
    ASSUME NEW j \in Jobs, NEW n \in 0..MaxRetries, Cells(j, cards[j], runs[j], n),
           NEW S, NEW v \in {"accept", "reject"}, NEW cs, cs = Chosen(j, S, v)
    PROVE  Cells(j, cs, runs[j], n)
  <1>1. /\ cs \in [CardIds(j) -> CardState]
        /\ \A k \in CardIds(j) : cs[k].explain = cards[j][k].explain /\ cs[k].text = cards[j][k].text
    BY ChosenCards DEF Cells
  <1>2. \A k \in CardIds(j) : CellOK(cs[k], runs[j][k], CardsOf[j][k].self, n)
    <2> TAKE k \in CardIds(j)
    <2>1. CellOK(cards[j][k], runs[j][k], CardsOf[j][k].self, n)
      BY DEF Cells
    <2>2. TriesLeft(cs[k], runs[j][k]) = TriesLeft(cards[j][k], runs[j][k])
      BY <1>1 DEF TriesLeft
    <2> QED BY <1>1, <2>1, <2>2 DEF CellOK
  <1> QED BY <1>1, <1>2 DEF Cells

\* Accepting a card whose explanation is on the screen, and with it later cards
\* of the same file or of the session.
LEMMA AcceptedCards ==
    ASSUME NEW j \in Jobs, cards[j] \in [CardIds(j) -> CardState],
           NEW t \in CardIds(j), cards[j][t].verdict = "none", cards[j][t].explain = "done", OneText(cards[j][t]),
           NEW S \in SUBSET CardIds(j), t \in S, NEW sc, NEW fs,
           \A k \in S : t <= k /\ \/ k = t
                                  \/ sc = "session"
                                  \/ CardsOf[j][t].path = CardsOf[j][k].path /\ CardsOf[j][t].path \in fs,
           scope[j] = "session" => sc = "session",
           files[j] \subseteq fs, \A p \in fs : p \in files[j] \/ p = CardsOf[j][t].path,
           Explained(j, cards[j], scope[j], files[j]), Widened(j, cards[j], scope[j], files[j]),
           NEW cs, cs = Chosen(j, S, "accept")
    PROVE  Explained(j, cs, sc, fs) /\ Widened(j, cs, sc, fs)
  <1>0. CardIds(j) = 1..Len(CardsOf[j]) /\ Len(CardsOf[j]) \in Nat
    BY JobCards
  <1>1. \A i \in CardIds(j) : \A k \in 1..i : k \in CardIds(j)
    BY <1>0
  <1>2. \A k \in CardIds(j) :
            /\ cs[k].explain = cards[j][k].explain /\ cs[k].text = cards[j][k].text
            /\ cards[j][k].verdict # "none" => cs[k] = cards[j][k]
            /\ cs[k].verdict # cards[j][k].verdict => k \in S /\ cs[k].verdict = "accept"
            /\ k \in S /\ cards[j][k].verdict = "none" => cs[k].verdict = "accept"
    BY ChosenCards
  <1>3. cs[t].verdict = "accept" /\ cs[t].explain = "done" /\ OneText(cs[t])
    BY <1>2 DEF OneText
  <1>4. Explained(j, cs, sc, fs)
    <2> SUFFICES ASSUME NEW i \in CardIds(j), cs[i].verdict = "accept"
                 PROVE  \E k \in 1..i :
                            /\ cs[k].verdict = "accept" /\ cs[k].explain = "done" /\ OneText(cs[k])
                            /\ \/ k = i
                               \/ sc = "session"
                               \/ CardsOf[j][k].path = CardsOf[j][i].path /\ CardsOf[j][k].path \in fs
      BY DEF Explained
    <2>1. CASE cards[j][i].verdict = "accept"
      <3>1. PICK k \in 1..i :
                /\ cards[j][k].verdict = "accept" /\ cards[j][k].explain = "done" /\ OneText(cards[j][k])
                /\ \/ k = i
                   \/ scope[j] = "session"
                   \/ CardsOf[j][k].path = CardsOf[j][i].path /\ CardsOf[j][k].path \in files[j]
        BY <2>1 DEF Explained
      <3>2. cs[k] = cards[j][k]
        BY <1>1, <1>2, <3>1
      <3> QED BY <3>1, <3>2
    <2>2. CASE cards[j][i].verdict # "accept"
      <3>1. i \in S
        BY <2>2, <1>2
      <3>2. t \in 1..i
        BY <3>1, <1>0
      <3> QED BY <3>1, <3>2, <1>3
    <2> QED BY <2>1, <2>2
  <1>5. Widened(j, cs, sc, fs)
    <2>1. \A k \in CardIds(j) : cards[j][k].verdict = "accept" => cs[k].verdict = "accept"
      BY <1>2
    <2> QED BY <2>1, <1>3 DEF Widened
  <1> QED BY <1>4, <1>5

LEMMA RejectedCards ==
    ASSUME NEW j \in Jobs, cards[j] \in [CardIds(j) -> CardState], NEW S,
           Explained(j, cards[j], scope[j], files[j]), Widened(j, cards[j], scope[j], files[j]),
           NEW cs, cs = Chosen(j, S, "reject")
    PROVE  Explained(j, cs, scope[j], files[j]) /\ Widened(j, cs, scope[j], files[j])
  <1>0. CardIds(j) = 1..Len(CardsOf[j]) /\ Len(CardsOf[j]) \in Nat
    BY JobCards
  <1>1. \A i \in CardIds(j) : \A k \in 1..i : k \in CardIds(j)
    BY <1>0
  <1>2. \A k \in CardIds(j) : /\ cards[j][k].verdict = "accept" => cs[k] = cards[j][k]
                              /\ cs[k].verdict = "accept" => cards[j][k].verdict = "accept"
    BY ChosenCards
  <1>3. Explained(j, cs, scope[j], files[j])
    <2> SUFFICES ASSUME NEW i \in CardIds(j), cs[i].verdict = "accept"
                 PROVE  \E k \in 1..i :
                            /\ cs[k].verdict = "accept" /\ cs[k].explain = "done" /\ OneText(cs[k])
                            /\ \/ k = i
                               \/ scope[j] = "session"
                               \/ CardsOf[j][k].path = CardsOf[j][i].path /\ CardsOf[j][k].path \in files[j]
      BY DEF Explained
    <2>1. PICK k \in 1..i :
              /\ cards[j][k].verdict = "accept" /\ cards[j][k].explain = "done" /\ OneText(cards[j][k])
              /\ \/ k = i
                 \/ scope[j] = "session"
                 \/ CardsOf[j][k].path = CardsOf[j][i].path /\ CardsOf[j][k].path \in files[j]
      BY <1>2 DEF Explained
    <2>2. cs[k] = cards[j][k]
      BY <1>1, <1>2, <2>1
    <2> QED BY <2>1, <2>2
  <1>4. Widened(j, cs, scope[j], files[j])
    BY <1>2 DEF Widened
  <1> QED BY <1>3, <1>4

\* The first undecided card from the current one on, or none.
LEMMA FirstUndecidedRange ==
    ASSUME NEW N \in Nat, NEW cs, DOMAIN cs = 1..N, Len(cs) = N, NEW from \in 1..N + 1
    PROVE  FirstUndecided(cs, from) \in 1..N + 1
  <1> DEFINE P(i) == /\ i <= Len(cs) => cs[i].verdict = "none"
                     /\ \A k \in from..i - 1 : cs[k].verdict # "none"
             S == {i \in from..N : cs[i].verdict = "none"}
  <1>1. \E i \in from..Len(cs) + 1 : P(i)
    <2>1. CASE S = {}
      <3>1. N + 1 \in from..Len(cs) + 1 /\ P(N + 1)
        BY <2>1
      <3> QED BY <3>1
    <2>2. CASE S # {}
      <3>1. S \in SUBSET Nat
        OBVIOUS
      <3>2. PICK i \in S : \A k \in S : i <= k
        BY <2>2, <3>1, FirstPosition
      <3>3. i \in from..N /\ cs[i].verdict = "none"
        OBVIOUS
      <3>4. ASSUME NEW k \in from..i - 1 PROVE cs[k].verdict # "none"
        <4>1. k \in from..N /\ ~ (i <= k)
          BY <3>3
        <4> QED BY <4>1, <3>2
      <3>5. i \in from..Len(cs) + 1 /\ P(i)
        BY <3>3, <3>4
      <3> QED BY <3>5
    <2> QED BY <2>1, <2>2
  <1>2. FirstUndecided(cs, from) \in from..Len(cs) + 1
    BY <1>1 DEF FirstUndecided
  <1> QED BY <1>2

-------------------------------------------------------------------------------
(* Reviews end, and the next one is shown. *)

LEMMA AnswerType ==
    ASSUME NEW j \in Jobs, NEW cs \in [CardIds(j) -> CardState],
           NEW sc \in {"one", "file", "session"}, NEW fs, NEW cl
    PROVE  Finalize(j, cs, sc, fs, cl) \in Answer /\ Finalize(j, cs, sc, fs, cl) # NoDecision
  <1> DEFINE yes == {i \in DOMAIN cs : cs[i].verdict = "accept"}
             hunks == UNION {CardsOf[j][i].hunks : i \in yes}
  <1>1. hunks \in SUBSET STRING
    BY JobCards
  <1>2. EffectiveScope(j, sc, fs) \in {"one", "file", "session"}
    BY DEF EffectiveScope
  <1>3. CASE cl
    BY <1>3 DEF Finalize, Answer, NoDecision
  <1>4. CASE ~ cl
    <2>1. Finalize(j, cs, sc, fs, cl) =
              [verdict  |-> IF yes = {} THEN "reject" ELSE IF yes = DOMAIN cs THEN "accept" ELSE "partial",
               scope    |-> EffectiveScope(j, sc, fs), accepted |-> hunks]
      BY <1>4 DEF Finalize
    <2> HIDE DEF yes, hunks
    <2> QED BY <1>1, <1>2, <2>1 DEF Answer, NoDecision
  <1> QED BY <1>3, <1>4

\* The reviews in done' are over, the first of q is shown, the others wait.
LEMMA Handover ==
    ASSUME PanelIInv, NEW q \in Seq(Jobs), NEW cs \in [Jobs -> Seq(CardState)], NEW rs \in [Jobs -> Seq(Run)],
           \A k, l \in DOMAIN q : q[k] = q[l] => k = l,
           \A k \in DOMAIN q : q[k] \notin done' /\ q[k] # active,
           done' \in SUBSET Jobs, done \subseteq done', active = NoJob \/ active \in done',
           \A k \in Jobs \ done' :
               /\ cs[k] = cards[k] /\ rs[k] = runs[k] /\ current'[k] = current[k] /\ scope'[k] = scope[k]
               /\ files'[k] = files[k] /\ closed'[k] = closed[k] /\ decision'[k] = decision[k],
           \A k \in done' :
               Over(k, [cards |-> cs[k], runs |-> rs[k], current |-> current'[k], scope |-> scope'[k],
                        files |-> files'[k], closed |-> closed'[k], decision |-> decision'[k]]),
           \/ Pump(q, cs, rs)
           \/ q = <<>> /\ active' = NoJob /\ queue' = <<>> /\ cards' = cs /\ runs' = rs /\ panel' = FALSE,
           disposed' \in BOOLEAN, retries' = retries, Choices', Clicks'
    PROVE  PanelIInv'
  <1>0. /\ retries \in 0..MaxRetries /\ panel \in BOOLEAN /\ NoJob \notin Jobs
    BY CardsAssumption DEF PanelIInv, Tables, Choices, Panels
  <1>1. \A k \in Jobs \ done' : Waiting(k, Dossier(k)) /\ k \notin done /\ k # active
    BY <1>0 DEF PanelIInv, Dossiers
  <1>2. \A k \in Jobs \ done' : /\ cs[k] = Unstarted(k) /\ rs[k] = NoRuns(k) /\ current'[k] = 1
                                /\ scope'[k] = "one" /\ files'[k] = {} /\ closed'[k] = FALSE
                                /\ decision'[k] = NoDecision
    BY <1>1 DEF Waiting, Dossier
  <1>3. \A k \in DOMAIN q : q[k] \in Jobs \ done'
    OBVIOUS
  <1>4. /\ Line(queue', active', done')
        /\ cards' \in [Jobs -> Seq(CardState)] /\ runs' \in [Jobs -> Seq(Run)]
        /\ panel' \in BOOLEAN /\ (active' # NoJob => panel')
        /\ \A k \in Jobs : k # active' => cards'[k] = cs[k] /\ runs'[k] = rs[k]
        /\ active' # NoJob =>
              /\ active' \in Jobs /\ q # <<>> /\ active' = Head(q)
              /\ Cells(active', cards'[active'], runs'[active'], retries)
              /\ Served(cards'[active'], runs'[active'], 1)
              /\ Kept(active', Unstarted(active'), cards'[active'])
    <2>1. CASE Pump(q, cs, rs)
      <3>1. \A k \in DOMAIN q : cs[q[k]] = Unstarted(q[k]) /\ rs[q[k]] = NoRuns(q[k])
        BY <1>2, <1>3
      <3>2. \A k \in DOMAIN q : q[k] \notin done'
        OBVIOUS
      <3> QED BY <1>0, <2>1, <3>1, <3>2, PumpShows
    <2>2. CASE q = <<>> /\ active' = NoJob /\ queue' = <<>> /\ cards' = cs /\ runs' = rs /\ panel' = FALSE
      <3>1. queue' = <<>> /\ active' = NoJob /\ done' \in SUBSET Jobs /\ NoJob \notin Jobs
        BY <2>2, <1>0
      <3>2. Line(queue', active', done')
        BY <3>1 DEF Line
      <3>3. cards' = cs /\ runs' = rs /\ panel' = FALSE /\ active' = NoJob
        BY <2>2
      <3> QED BY <3>2, <3>3
    <2> QED BY <2>1, <2>2
  <1>5. ASSUME NEW k \in Jobs
        PROVE  /\ k \in done' => Over(k, Dossier(k)')
               /\ k = active' => OnScreen(k, Dossier(k)', retries')
               /\ k \notin done' /\ k # active' => Waiting(k, Dossier(k)')
    <2>1. active' \notin done'
      BY <1>4 DEF Line
    <2>2. CASE k # active'
      <3>1. Dossier(k)' = [cards |-> cs[k], runs |-> rs[k], current |-> current'[k], scope |-> scope'[k],
                           files |-> files'[k], closed |-> closed'[k], decision |-> decision'[k]]
        BY <1>4, <2>2 DEF Dossier
      <3> QED BY <2>2, <3>1, <1>2 DEF Waiting
    <2>3. CASE k = active'
      <3>1. k \in Jobs \ done' /\ k # NoJob
        BY <2>1, <2>3, <1>0
      <3> DEFINE d == Dossier(k)'
      <3>2. /\ d.cards = cards'[k] /\ d.runs = runs'[k] /\ d.current = 1 /\ d.scope = "one"
            /\ d.files = {} /\ d.closed = FALSE /\ d.decision = NoDecision
        BY <3>1, <1>2 DEF Dossier
      <3>3. /\ Cells(k, d.cards, d.runs, retries') /\ Served(d.cards, d.runs, d.current)
            /\ Kept(k, Unstarted(k), d.cards)
        BY <3>1, <3>2, <2>3, <1>4
      <3> HIDE DEF d
      <3>4. d.cards \in [CardIds(k) -> CardState] /\ \A i \in CardIds(k) : d.cards[i].verdict = "none"
        BY <3>3, <1>0, FreshCells DEF Cells, Kept
      <3>5. Explained(k, d.cards, d.scope, d.files) /\ Widened(k, d.cards, d.scope, d.files)
        BY <3>2, <3>4 DEF Explained, Widened
      <3>6. d.current \in 1..Len(CardsOf[k]) + 1
        BY <3>2, JobCards
      <3>7. OnScreen(k, d, retries')
        BY <3>2, <3>3, <3>4, <3>5, <3>6 DEF OnScreen, Chosenly
      <3> QED BY <3>1, <3>7, <2>3 DEF d
    <2> QED BY <2>2, <2>3
  <1>6. Dossiers'
    BY <1>5 DEF Dossiers
  <1>7. Tables' /\ Panels' /\ Line(queue, active, done)'
    BY <1>4 DEF Tables, Panels
  <1> QED BY <1>6, <1>7 DEF PanelIInv

\* A decision was taken on the review that is shown: it goes on, or is complete.
LEMMA AdvanceStep ==
    ASSUME PanelIInv, NEW j \in Jobs, j = active,
           NEW S, NEW v \in {"accept", "reject"}, NEW cs, cs = Chosen(j, S, v),
           NEW sc \in {"one", "file", "session"}, NEW fs \in SUBSET STRING,
           Explained(j, cs, sc, fs), Widened(j, cs, sc, fs),
           Advance(j, cs, sc, fs), UNCHANGED <<disposed, closed>>, Clicks'
    PROVE  PanelIInv'
  <1> DEFINE N == Len(CardsOf[j])
             cu == FirstUndecided(cs, current[j])
  <1>1. /\ Cells(j, cards[j], runs[j], retries) /\ retries \in 0..MaxRetries /\ j \notin done
        /\ current[j] \in 1..N + 1 /\ closed[j] = FALSE /\ decision[j] = NoDecision
        /\ cards[j] \in [CardIds(j) -> CardState]
    BY ShownReview
  <1>2. CardIds(j) = 1..N /\ N \in Nat
    BY JobCards
  <1>3. cs \in [CardIds(j) -> CardState]
    BY <1>1, ChosenCards
  <1>4. Cells(j, cs, runs[j], retries)
    BY <1>1, ChosenCells
  <1>5. cu \in 1..N + 1
    <2>1. DOMAIN cs = 1..N /\ Len(cs) = N
      BY <1>2, <1>3
    <2> HIDE DEF N
    <2> QED BY <2>1, <1>1, <1>2, FirstUndecidedRange
  <1>6. /\ Tables /\ Choices /\ Line(queue, active, done) /\ cs \in Seq(CardState)
        /\ NoRuns(j) \in Seq(Run) /\ NoJob \notin Jobs
    <2>1. NoRuns(j) \in Seq(Run)
      BY <1>1, FreshCells
    <2> QED BY <1>3, <2>1, AsSequences, CardsAssumption DEF PanelIInv, Tables
  <1>7. /\ scope' = [scope EXCEPT ![j] = sc] /\ files' = [files EXCEPT ![j] = fs]
        /\ current' = [current EXCEPT ![j] = cu] /\ retries' = retries
    BY DEF Advance
  <1> HIDE DEF cu, N
  <1>8. /\ current'[j] = cu /\ scope'[j] = sc /\ files'[j] = fs /\ closed'[j] = FALSE
        /\ \A k \in Jobs : k # j => /\ current'[k] = current[k] /\ scope'[k] = scope[k]
                                    /\ files'[k] = files[k] /\ closed'[k] = closed[k]
    BY <1>1, <1>6, <1>7 DEF Choices
  <1>9. /\ current' \in [Jobs -> Nat \ {0}] /\ scope' \in [Jobs -> {"one", "file", "session"}]
        /\ files' \in [Jobs -> SUBSET STRING] /\ closed' \in [Jobs -> BOOLEAN]
    <2>1. cu \in Nat \ {0}
      BY <1>2, <1>5
    <2> QED BY <2>1, <1>6, <1>7 DEF Choices
  <1>10. CASE Complete(cs)
    <2> DEFINE d == Finalize(j, cs, sc, fs, FALSE)
               C == [cards EXCEPT ![j] = cs]
               R == [runs EXCEPT ![j] = NoRuns(j)]
    <2>1. /\ done' = done \cup {j} /\ decision' = [decision EXCEPT ![j] = d] /\ Pump(queue, C, R)
      BY <1>10 DEF Advance, Finish
    <2>2. d \in Answer
      BY <1>3, AnswerType
    <2> HIDE DEF d
    <2>3. /\ decision' \in [Jobs -> Answer] /\ decision'[j] = d
          /\ \A k \in Jobs : k # j => decision'[k] = decision[k]
      BY <2>1, <2>2, <1>6 DEF Choices
    <2>4. /\ C \in [Jobs -> Seq(CardState)] /\ R \in [Jobs -> Seq(Run)] /\ C[j] = cs /\ R[j] = NoRuns(j)
          /\ \A k \in Jobs : k # j => C[k] = cards[k] /\ R[k] = runs[k]
      BY <1>6 DEF Tables
    <2>5. Choices'
      BY <2>3, <1>1, <1>7, <1>9 DEF Choices
    <2>6. /\ queue \in Seq(Jobs) /\ done \in SUBSET Jobs
          /\ \A k, l \in DOMAIN queue : queue[k] = queue[l] => k = l
          /\ \A k \in DOMAIN queue : queue[k] # active /\ queue[k] \notin done
      BY <1>6 DEF Line
    <2> DEFINE D(k) == [cards |-> C[k], runs |-> R[k], current |-> current'[k], scope |-> scope'[k],
                        files |-> files'[k], closed |-> closed'[k], decision |-> decision'[k]]
    <2>7. ASSUME NEW k \in done' PROVE Over(k, D(k))
      <3>1. CASE k = j
        <4>1. /\ D(j).cards = cs /\ D(j).runs = NoRuns(j) /\ D(j).current = cu /\ D(j).scope = sc
              /\ D(j).files = fs /\ D(j).closed = FALSE /\ D(j).decision = d
          BY <1>8, <2>3, <2>4
        <4> HIDE DEF D
        <4> QED BY <3>1, <4>1, <1>3, <1>5 DEF Over, Chosenly, d, N
      <3>2. CASE k # j
        <4>1. k \in done /\ k \in Jobs
          BY <3>2, <2>1, <2>6
        <4>2. D(k) = Dossier(k)
          BY <3>2, <4>1, <1>8, <2>3, <2>4 DEF Dossier
        <4>3. Over(k, Dossier(k))
          BY <4>1 DEF PanelIInv, Dossiers
        <4> QED BY <4>2, <4>3
      <3> QED BY <3>1, <3>2
    <2>8. \A k \in Jobs \ done' :
               /\ C[k] = cards[k] /\ R[k] = runs[k] /\ current'[k] = current[k] /\ scope'[k] = scope[k]
               /\ files'[k] = files[k] /\ closed'[k] = closed[k] /\ decision'[k] = decision[k]
      BY <2>1, <2>3, <2>4, <1>8
    <2>9. \A k \in DOMAIN queue : queue[k] \notin done' /\ queue[k] # active
      BY <2>1, <2>6
    <2>10. done' \in SUBSET Jobs /\ done \subseteq done' /\ active \in done' /\ disposed' \in BOOLEAN
      BY <2>1, <2>6 DEF PanelIInv, Panels
    <2> HIDE DEF C, R
    <2> QED BY <2>1, <2>4, <2>5, <2>6, <2>7, <2>8, <2>9, <2>10, <1>7, Handover
  <1>11. CASE ~ Complete(cs)
    <2> DEFINE c2 == ScheduledCards(j, cs, runs[j], cu)
               r2 == ScheduledRuns(j, cs, runs[j], cu)
    <2>1. /\ cards' = [cards EXCEPT ![j] = c2] /\ runs' = [runs EXCEPT ![j] = r2]
          /\ UNCHANGED <<queue, active, done, disposed, panel, decision>>
      BY <1>8, <1>11 DEF Advance
    <2>2. cu \in Nat
      BY <1>2, <1>5
    <2>3. Cells(j, c2, r2, retries) /\ Served(c2, r2, cu) /\ Kept(j, cs, c2)
      BY <1>1, <1>4, <2>2, Scheduling
    <2> HIDE DEF c2, r2
    <2>4. Explained(j, c2, sc, fs) /\ Widened(j, c2, sc, fs)
      BY <2>3, KeptChoice
    <2>5. c2 \in [CardIds(j) -> CardState] /\ c2 \in Seq(CardState) /\ r2 \in Seq(Run)
      BY <2>3, AsSequences DEF Cells
    <2>6. /\ cards' \in [Jobs -> Seq(CardState)] /\ runs' \in [Jobs -> Seq(Run)]
          /\ cards'[j] = c2 /\ runs'[j] = r2
          /\ \A k \in Jobs : k # j => cards'[k] = cards[k] /\ runs'[k] = runs[k]
      BY <2>1, <2>5, <1>6 DEF Tables
    <2>7. Tables'
      BY <2>1, <2>6, <1>1, <1>6, <1>7, <1>9 DEF Tables, Choices
    <2>8. \A k \in Jobs : k # j => Dossier(k)' = Dossier(k)
      BY <2>1, <2>6, <1>8 DEF Dossier
    <2> DEFINE d == Dossier(j)'
    <2>9. /\ d.cards = c2 /\ d.runs = r2 /\ d.current = cu /\ d.scope = sc
          /\ d.files = fs /\ d.closed = FALSE /\ d.decision = NoDecision
      BY <2>1, <2>6, <1>1, <1>8 DEF Dossier
    <2> HIDE DEF d
    <2>10. OnScreen(j, d, retries')
      BY <2>3, <2>4, <2>5, <2>9, <1>5, <1>7 DEF OnScreen, Chosenly, N
    <2>11. OnScreen(j, Dossier(j)', retries')
      BY <2>10 DEF d
    <2> QED BY <2>1, <2>7, <2>8, <2>11, ActiveChanges
  <1> QED BY <1>10, <1>11

LEMMA AcceptableCard ==
    ASSUME PanelIInv, active # NoJob, mail # <<>>, Acceptable(active, Target)
    PROVE  /\ active \in Jobs /\ Target \in CardIds(active) /\ Target \in Nat
           /\ cards[active] \in [CardIds(active) -> CardState]
           /\ cards[active][Target].verdict = "none" /\ cards[active][Target].explain = "done"
           /\ OneText(cards[active][Target])
           /\ CardIds(active) = 1..Len(CardsOf[active]) /\ Len(CardsOf[active]) \in Nat
           /\ Explained(active, cards[active], scope[active], files[active])
           /\ Widened(active, cards[active], scope[active], files[active])
           /\ scope[active] \in {"one", "file", "session"} /\ files[active] \in SUBSET STRING
           /\ CardsOf[active][Target].path \in STRING
  <1>1. active \in Jobs
    BY DEF PanelIInv, Line
  <1>2. /\ Target \in CardIds(active)
        /\ cards[active][Target].verdict = "none" /\ cards[active][Target].explain = "done"
    BY DEF Acceptable, CurrentCard
  <1>3. CardIds(active) = 1..Len(CardsOf[active]) /\ Len(CardsOf[active]) \in Nat
    BY <1>1, JobCards
  <1>4. OneText(cards[active][Target])
    <2>1. CellOK(cards[active][Target], runs[active][Target], CardsOf[active][Target].self, retries)
      BY <1>1, <1>2, ShownReview DEF Cells
    <2> QED BY <2>1 DEF CellOK, OneText
  <1>5. Target \in Nat
    BY <1>2, <1>3
  <1> QED BY <1>1, <1>2, <1>3, <1>4, <1>5, ShownReview, JobCards

LEMMA AcceptStep ==
    ASSUME PanelIInv, Accept PROVE PanelIInv'
  <1> DEFINE j == active
             t == Target
             cs == Chosen(j, {t}, "accept")
  <1>1. /\ mail # <<>> /\ mail' = Tail(mail) /\ UNCHANGED <<disposed, view, closed>>
        /\ j # NoJob /\ Acceptable(j, t) /\ Advance(j, cs, scope[j], files[j])
    BY DEF Accept, Deliver
  <1>2. Clicks'
    BY <1>1, Delivered
  <1>3. /\ j \in Jobs /\ t \in CardIds(j) /\ t \in Nat /\ cards[j] \in [CardIds(j) -> CardState]
        /\ cards[j][t].verdict = "none" /\ cards[j][t].explain = "done" /\ OneText(cards[j][t])
        /\ Explained(j, cards[j], scope[j], files[j]) /\ Widened(j, cards[j], scope[j], files[j])
        /\ scope[j] \in {"one", "file", "session"} /\ files[j] \in SUBSET STRING
    BY <1>1, AcceptableCard
  <1>4. Explained(j, cs, scope[j], files[j]) /\ Widened(j, cs, scope[j], files[j])
    <2>1. \A k \in {t} : t <= k /\ k = t
      BY <1>3
    <2>2. {t} \in SUBSET CardIds(j) /\ t \in {t} /\ files[j] \subseteq files[j]
      BY <1>3
    <2> QED BY <1>3, <2>1, <2>2, AcceptedCards
  <1> HIDE DEF cs
  <1> QED BY <1>1, <1>2, <1>3, <1>4, AdvanceStep DEF cs

LEMMA AcceptFileStep ==
    ASSUME PanelIInv, AcceptFile PROVE PanelIInv'
  <1> DEFINE j == active
             t == Target
             S == RestOfFile(j, t)
             cs == Chosen(j, S, "accept")
             sc == IF scope[j] = "one" THEN "file" ELSE scope[j]
             fs == files[j] \cup {CardsOf[j][t].path}
  <1>1. /\ mail # <<>> /\ mail' = Tail(mail) /\ UNCHANGED <<disposed, view, closed>>
        /\ j # NoJob /\ Acceptable(j, t) /\ Advance(j, cs, sc, fs)
    BY DEF AcceptFile, Deliver
  <1>2. Clicks'
    BY <1>1, Delivered
  <1>3. /\ j \in Jobs /\ t \in CardIds(j) /\ t \in Nat /\ cards[j] \in [CardIds(j) -> CardState]
        /\ cards[j][t].verdict = "none" /\ cards[j][t].explain = "done" /\ OneText(cards[j][t])
        /\ CardIds(j) = 1..Len(CardsOf[j])
        /\ Explained(j, cards[j], scope[j], files[j]) /\ Widened(j, cards[j], scope[j], files[j])
        /\ scope[j] \in {"one", "file", "session"} /\ files[j] \in SUBSET STRING
        /\ CardsOf[j][t].path \in STRING
    BY <1>1, AcceptableCard
  <1>4. /\ sc \in {"one", "file", "session"} /\ fs \in SUBSET STRING
        /\ scope[j] = "session" => sc = "session"
        /\ files[j] \subseteq fs /\ \A p \in fs : p \in files[j] \/ p = CardsOf[j][t].path
        /\ CardsOf[j][t].path \in fs
    BY <1>3
  <1>5. /\ S \in SUBSET CardIds(j) /\ t \in S
        /\ \A k \in S : t <= k /\ CardsOf[j][t].path = CardsOf[j][k].path
    <2>1. \A k \in S : t <= k
      <3> SUFFICES ASSUME NEW k \in S PROVE t <= k
        OBVIOUS
      <3>1. k \in CardIds(j) /\ k >= t
        BY DEF RestOfFile
      <3> QED BY <1>3, <3>1
    <2>2. t \in S
      BY <1>3 DEF RestOfFile
    <2> QED BY <2>1, <2>2 DEF RestOfFile
  <1> HIDE DEF S, sc, fs
  <1>6. Explained(j, cs, sc, fs) /\ Widened(j, cs, sc, fs)
    <2>1. \A k \in S : t <= k /\ \/ k = t
                                 \/ sc = "session"
                                 \/ CardsOf[j][t].path = CardsOf[j][k].path /\ CardsOf[j][t].path \in fs
      BY <1>4, <1>5
    <2> QED BY <1>3, <1>4, <1>5, <2>1, AcceptedCards
  <1> HIDE DEF cs
  <1>7. cs = Chosen(j, S, "accept")
    BY DEF cs
  <1> QED BY <1>1, <1>2, <1>3, <1>4, <1>6, <1>7, AdvanceStep

LEMMA AcceptSessionStep ==
    ASSUME PanelIInv, AcceptSession PROVE PanelIInv'
  <1> DEFINE j == active
             t == Target
             S == RestOfSession(j, t)
             cs == Chosen(j, S, "accept")
  <1>1. /\ mail # <<>> /\ mail' = Tail(mail) /\ UNCHANGED <<disposed, view, closed>>
        /\ j # NoJob /\ Acceptable(j, t) /\ Advance(j, cs, "session", files[j])
    BY DEF AcceptSession, Deliver
  <1>2. Clicks'
    BY <1>1, Delivered
  <1>3. /\ j \in Jobs /\ t \in CardIds(j) /\ t \in Nat /\ cards[j] \in [CardIds(j) -> CardState]
        /\ cards[j][t].verdict = "none" /\ cards[j][t].explain = "done" /\ OneText(cards[j][t])
        /\ CardIds(j) = 1..Len(CardsOf[j])
        /\ Explained(j, cards[j], scope[j], files[j]) /\ Widened(j, cards[j], scope[j], files[j])
        /\ files[j] \in SUBSET STRING
    BY <1>1, AcceptableCard
  <1>4. S \in SUBSET CardIds(j) /\ t \in S /\ \A k \in S : t <= k
    <2>1. \A k \in S : t <= k
      <3> SUFFICES ASSUME NEW k \in S PROVE t <= k
        OBVIOUS
      <3>1. k \in CardIds(j) /\ k >= t
        BY DEF RestOfSession
      <3> QED BY <1>3, <3>1
    <2> QED BY <1>3, <2>1 DEF RestOfSession
  <1> HIDE DEF S
  <1>5. Explained(j, cs, "session", files[j]) /\ Widened(j, cs, "session", files[j])
    <2>1. files[j] \subseteq files[j] /\ \A p \in files[j] : p \in files[j] \/ p = CardsOf[j][t].path
      OBVIOUS
    <2> QED BY <1>3, <1>4, <2>1, AcceptedCards
  <1> HIDE DEF cs
  <1>6. cs = Chosen(j, S, "accept")
    BY DEF cs
  <1> QED BY <1>1, <1>2, <1>3, <1>5, <1>6, AdvanceStep

LEMMA RejectStep ==
    ASSUME PanelIInv, Reject PROVE PanelIInv'
  <1> DEFINE j == active
             cs == Chosen(j, {Target}, "reject")
  <1>1. /\ mail # <<>> /\ mail' = Tail(mail) /\ UNCHANGED <<disposed, view, closed>>
        /\ j # NoJob /\ Advance(j, cs, scope[j], files[j])
    BY DEF Reject, Deliver
  <1>2. Clicks'
    BY <1>1, Delivered
  <1>3. j \in Jobs
    BY <1>1 DEF PanelIInv, Line
  <1>4. /\ cards[j] \in [CardIds(j) -> CardState]
        /\ Explained(j, cards[j], scope[j], files[j]) /\ Widened(j, cards[j], scope[j], files[j])
        /\ scope[j] \in {"one", "file", "session"} /\ files[j] \in SUBSET STRING
    BY <1>3, ShownReview
  <1>5. Explained(j, cs, scope[j], files[j]) /\ Widened(j, cs, scope[j], files[j])
    BY <1>3, <1>4, RejectedCards
  <1> HIDE DEF cs
  <1>6. cs = Chosen(j, {Target}, "reject")
    BY DEF cs
  <1> QED BY <1>1, <1>2, <1>3, <1>4, <1>5, <1>6, AdvanceStep

-------------------------------------------------------------------------------
(* Reviews asked for, closed and disposed of. *)

\* Steps of the webview alone.
LEMMA WebviewStep ==
    ASSUME PanelIInv, UNCHANGED <<review, presenter, decision>>, Clicks'
    PROVE  PanelIInv'
  <1>1. /\ UNCHANGED <<cards, current, scope, files, closed, runs, retries>>
        /\ UNCHANGED <<queue, active, done, disposed, panel>> /\ decision' = decision
    BY DEF review, presenter
  <1>2. Tables' /\ Line(queue, active, done)' /\ Panels'
    BY <1>1 DEF PanelIInv, Tables, Choices, Panels
  <1>3. Dossiers'
    <2> SUFFICES ASSUME NEW k \in Jobs
                 PROVE  /\ k \in done' => Over(k, Dossier(k)')
                        /\ k = active' => OnScreen(k, Dossier(k)', retries')
                        /\ k \notin done' /\ k # active' => Waiting(k, Dossier(k)')
      BY DEF Dossiers
    <2>1. Dossier(k)' = Dossier(k)
      BY <1>1 DEF Dossier
    <2> QED BY <1>1, <2>1 DEF PanelIInv, Dossiers
  <1> QED BY <1>2, <1>3 DEF PanelIInv

LEMMA RenderStep == ASSUME PanelIInv, Render PROVE PanelIInv'
  <1>1. UNCHANGED <<review, presenter, decision, mail>> /\ view' = Shown
    BY DEF Render
  <1>2. Shown.job \in Jobs \cup {NoJob} /\ Shown.card \in Nat
    <2>1. CASE active = NoJob
      BY <2>1 DEF Shown, Idle
    <2>2. CASE active # NoJob
      <3>1. active \in Jobs /\ current[active] \in Nat
        BY <2>2 DEF PanelIInv, Line, Tables, Choices
      <3> QED BY <2>2, <3>1 DEF Shown
    <2> QED BY <2>1, <2>2
  <1>3. Clicks'
    BY <1>1, <1>2 DEF PanelIInv, Clicks
  <1> QED BY <1>1, <1>3, WebviewStep

LEMMA PressStep == ASSUME PanelIInv, NEW kind \in Click, Press(kind) PROVE PanelIInv'
  <1> DEFINE M == [kind : Click, card : Nat, job : Jobs \cup {NoJob}]
  <1>1. /\ UNCHANGED <<review, presenter, decision, view>> /\ mail' = Append(mail, Message(kind))
        /\ Len(mail) < MaxMail
    BY DEF Press
  <1>2. mail \in Seq(M) /\ Message(kind) \in M
    BY DEF PanelIInv, Clicks, Message
  <1> HIDE DEF M
  <1>3. mail' \in Seq(M) /\ Len(mail') = Len(mail) + 1 /\ Len(mail) \in Nat
    BY <1>1, <1>2
  <1>4. Clicks'
    BY <1>1, <1>3, Limits DEF PanelIInv, Clicks, M
  <1> QED BY <1>1, <1>4, WebviewStep

LEMMA RefusedStep == ASSUME PanelIInv, Refused PROVE PanelIInv'
  <1>1. UNCHANGED <<review, presenter, decision, view>> /\ mail # <<>> /\ mail' = Tail(mail)
    BY DEF Refused
  <1> QED BY <1>1, Delivered, WebviewStep

LEMMA AllChosenly ==
    ASSUME PanelIInv, NEW j \in Jobs
    PROVE  /\ Chosenly(j, Dossier(j))
           /\ Finalize(j, cards[j], scope[j], files[j], TRUE) \in Answer
           /\ Finalize(j, cards[j], "one", {}, TRUE) = Finalize(j, cards[j], scope[j], files[j], TRUE)
  <1>1. Chosenly(j, Dossier(j))
    <2>1. CASE Waiting(j, Dossier(j))
      <3>1. /\ Dossier(j).cards = Unstarted(j) /\ Dossier(j).current = 1
            /\ Dossier(j).scope = "one" /\ Dossier(j).files = {}
        BY <2>1 DEF Waiting
      <3>2. /\ Unstarted(j) \in [CardIds(j) -> CardState]
            /\ \A i \in CardIds(j) : Unstarted(j)[i].verdict = "none"
        BY FreshCells, Limits DEF Cells
      <3>3. 1 \in 1..Len(CardsOf[j]) + 1
        BY JobCards
      <3>4. Explained(j, Unstarted(j), "one", {}) /\ Widened(j, Unstarted(j), "one", {})
        BY <3>2 DEF Explained, Widened
      <3> QED BY <3>1, <3>2, <3>3, <3>4 DEF Chosenly
    <2>2. CASE Over(j, Dossier(j)) \/ OnScreen(j, Dossier(j), retries)
      BY <2>2 DEF Over, OnScreen
    <2> QED BY <2>1, <2>2 DEF PanelIInv, Dossiers
  <1>2. Finalize(j, cards[j], scope[j], files[j], TRUE) = [verdict |-> "reject", scope |-> "one", accepted |-> {}]
    BY DEF Finalize
  <1>3. Finalize(j, cards[j], "one", {}, TRUE) = [verdict |-> "reject", scope |-> "one", accepted |-> {}]
    BY DEF Finalize
  <1>4. [verdict |-> "reject", scope |-> "one", accepted |-> {}] \in Answer
    BY DEF Answer
  <1> QED BY <1>1, <1>2, <1>3, <1>4

\* A review that ends without an answer of the person.
LEMMA ClosedReview ==
    ASSUME PanelIInv, NEW j \in Jobs
    PROVE  Over(j, [cards |-> cards[j], runs |-> NoRuns(j), current |-> current[j], scope |-> scope[j],
                    files |-> files[j], closed |-> TRUE,
                    decision |-> Finalize(j, cards[j], scope[j], files[j], TRUE)])
  <1> DEFINE d == [cards |-> cards[j], runs |-> NoRuns(j), current |-> current[j], scope |-> scope[j],
                   files |-> files[j], closed |-> TRUE,
                   decision |-> Finalize(j, cards[j], scope[j], files[j], TRUE)]
             e == Dossier(j)
  <1>1. /\ d.cards = cards[j] /\ d.runs = NoRuns(j) /\ d.current = current[j] /\ d.scope = scope[j]
        /\ d.files = files[j] /\ d.closed = TRUE
        /\ d.decision = Finalize(j, cards[j], scope[j], files[j], TRUE)
    OBVIOUS
  <1>2. /\ e.cards = cards[j] /\ e.current = current[j] /\ e.scope = scope[j] /\ e.files = files[j]
    BY DEF Dossier
  <1>3. Chosenly(j, e)
    BY AllChosenly
  <1> HIDE DEF d, e
  <1>4. Over(j, d)
    BY <1>1, <1>2, <1>3 DEF Over, Chosenly
  <1> QED BY <1>4 DEF d

LEMMA AppendQueue ==
    ASSUME NEW q \in Seq(Jobs), NEW j \in Jobs, \A k \in DOMAIN q : q[k] # j,
           \A k, l \in DOMAIN q : q[k] = q[l] => k = l
    PROVE  /\ Append(q, j) \in Seq(Jobs) /\ Append(q, j) # <<>>
           /\ \A k, l \in DOMAIN Append(q, j) : Append(q, j)[k] = Append(q, j)[l] => k = l
           /\ \A k \in DOMAIN Append(q, j) : Append(q, j)[k] = j \/ \E l \in DOMAIN q : Append(q, j)[k] = q[l]
  <1> DEFINE a == Append(q, j)
  <1>1. /\ a \in Seq(Jobs) /\ Len(q) \in Nat /\ DOMAIN q = 1..Len(q) /\ DOMAIN a = 1..Len(q) + 1
        /\ a[Len(q) + 1] = j /\ \A k \in 1..Len(q) : a[k] = q[k]
    OBVIOUS
  <1> HIDE DEF a
  <1>2. \A k \in DOMAIN a : k = Len(q) + 1 \/ k \in DOMAIN q
    BY <1>1
  <1>3. \A k \in DOMAIN a : a[k] = j \/ \E l \in DOMAIN q : a[k] = q[l]
    BY <1>1, <1>2
  <1>4. \A k, l \in DOMAIN a : a[k] = a[l] => k = l
    <2> TAKE k, l \in DOMAIN a
    <2>1. CASE k \in DOMAIN q /\ l \in DOMAIN q
      BY <2>1, <1>1
    <2>2. CASE k = Len(q) + 1 \/ l = Len(q) + 1
      BY <2>2, <1>1, <1>2
    <2> QED BY <2>1, <2>2, <1>2
  <1>5. a # <<>>
    BY <1>1
  <1> QED BY <1>1, <1>3, <1>4, <1>5 DEF a

LEMMA ReviewStep ==
    ASSUME PanelIInv, NEW j \in Jobs, Review(j) PROVE PanelIInv'
  <1>1. /\ j # active /\ j \notin done /\ \A k \in DOMAIN queue : queue[k] # j
        /\ UNCHANGED <<disposed, current, scope, files, retries, webview>>
    BY DEF Review
  <1>2. /\ Tables /\ Choices /\ Line(queue, active, done) /\ Dossiers /\ Panels /\ Clicks'
        /\ NoJob \notin Jobs
    BY <1>1, SameClicks, CardsAssumption DEF PanelIInv, Tables
  <1>3. /\ queue \in Seq(Jobs) /\ done \in SUBSET Jobs
        /\ \A k, l \in DOMAIN queue : queue[k] = queue[l] => k = l
        /\ \A k \in DOMAIN queue : queue[k] # active /\ queue[k] \notin done
        /\ queue # <<>> => active # NoJob
    BY <1>2 DEF Line
  <1>4. CASE disposed
    <2> DEFINE d == Finalize(j, cards[j], "one", {}, TRUE)
    <2>1. /\ done' = done \cup {j} /\ closed' = [closed EXCEPT ![j] = TRUE]
          /\ decision' = [decision EXCEPT ![j] = d]
          /\ UNCHANGED <<queue, active, panel, cards, runs>>
      BY <1>4 DEF Review
    <2>2. d \in Answer /\ d = Finalize(j, cards[j], scope[j], files[j], TRUE)
      BY AllChosenly
    <2> HIDE DEF d
    <2>3. /\ closed' \in [Jobs -> BOOLEAN] /\ decision' \in [Jobs -> Answer]
          /\ closed'[j] = TRUE /\ decision'[j] = d
          /\ \A k \in Jobs : k # j => closed'[k] = closed[k] /\ decision'[k] = decision[k]
      BY <1>2, <2>1, <2>2 DEF Choices
    <2>4. Tables' /\ Panels'
      BY <1>1, <1>2, <2>1, <2>3 DEF Tables, Choices, Panels
    <2>5. Line(queue', active', done')
      BY <1>1, <1>2, <2>1 DEF Line
    <2>6. Dossiers'
      <3> SUFFICES ASSUME NEW k \in Jobs
                   PROVE  /\ k \in done' => Over(k, Dossier(k)')
                          /\ k = active' => OnScreen(k, Dossier(k)', retries')
                          /\ k \notin done' /\ k # active' => Waiting(k, Dossier(k)')
        BY DEF Dossiers
      <3>1. CASE k = j
        <4>1. Waiting(j, Dossier(j))
          BY <1>1, <1>2 DEF Dossiers
        <4>2. runs[j] = NoRuns(j)
          BY <4>1 DEF Waiting, Dossier
        <4>3. Dossier(j)' = [cards |-> cards[j], runs |-> NoRuns(j), current |-> current[j], scope |-> scope[j],
                             files |-> files[j], closed |-> TRUE,
                             decision |-> Finalize(j, cards[j], scope[j], files[j], TRUE)]
          BY <1>1, <2>1, <2>2, <2>3, <4>2 DEF Dossier
        <4>4. Over(j, Dossier(j)')
          BY <4>3, ClosedReview
        <4> QED BY <1>1, <2>1, <3>1, <4>4
      <3>2. CASE k # j
        <4>1. Dossier(k)' = Dossier(k)
          BY <1>1, <2>1, <2>3, <3>2 DEF Dossier
        <4> QED BY <1>1, <1>2, <2>1, <3>2, <4>1 DEF Dossiers
      <3> QED BY <3>1, <3>2
    <2> QED BY <1>2, <2>4, <2>5, <2>6 DEF PanelIInv
  <1>5. CASE ~ disposed /\ active = NoJob
    <2> DEFINE q == Append(queue, j)
    <2>1. Pump(q, cards, runs) /\ UNCHANGED <<done, closed, decision>>
      BY <1>5 DEF Review
    <2>2. /\ q \in Seq(Jobs) /\ q # <<>>
          /\ \A k, l \in DOMAIN q : q[k] = q[l] => k = l
          /\ \A k \in DOMAIN q : q[k] = j \/ \E l \in DOMAIN queue : q[k] = queue[l]
      BY <1>1, <1>3, AppendQueue
    <2> HIDE DEF q
    <2>3. \A k \in DOMAIN q : q[k] \notin done' /\ q[k] # active
      BY <1>1, <1>3, <2>1, <2>2
    <2>4. Choices'
      BY <1>1, <1>2, <2>1 DEF Choices
    <2>5. \A k \in Jobs \ done' :
               /\ cards[k] = cards[k] /\ runs[k] = runs[k] /\ current'[k] = current[k] /\ scope'[k] = scope[k]
               /\ files'[k] = files[k] /\ closed'[k] = closed[k] /\ decision'[k] = decision[k]
      BY <1>1, <2>1
    <2>6. \A k \in done' :
               Over(k, [cards |-> cards[k], runs |-> runs[k], current |-> current'[k], scope |-> scope'[k],
                        files |-> files'[k], closed |-> closed'[k], decision |-> decision'[k]])
      <3> TAKE k \in done'
      <3>1. k \in done /\ k \in Jobs
        BY <1>3, <2>1
      <3>2. Over(k, Dossier(k))
        BY <1>2, <3>1 DEF Dossiers
      <3> QED BY <1>1, <2>1, <3>2 DEF Dossier
    <2>7. /\ cards \in [Jobs -> Seq(CardState)] /\ runs \in [Jobs -> Seq(Run)]
          /\ done' \in SUBSET Jobs /\ done \subseteq done' /\ disposed' \in BOOLEAN /\ retries' = retries
      BY <1>1, <1>2, <1>3, <2>1 DEF Tables, Panels
    <2> QED BY <1>2, <1>5, <2>1, <2>2, <2>3, <2>4, <2>5, <2>6, <2>7, Handover
  <1>6. CASE ~ disposed /\ active # NoJob
    <2> DEFINE q == Append(queue, j)
    <2>1. queue' = q /\ UNCHANGED <<active, panel, cards, runs, done, closed, decision>>
      BY <1>6 DEF Review
    <2>2. /\ q \in Seq(Jobs) /\ q # <<>>
          /\ \A k, l \in DOMAIN q : q[k] = q[l] => k = l
          /\ \A k \in DOMAIN q : q[k] = j \/ \E l \in DOMAIN queue : q[k] = queue[l]
      BY <1>1, <1>3, AppendQueue
    <2> HIDE DEF q
    <2>3. Line(queue', active', done')
      BY <1>1, <1>2, <1>3, <1>6, <2>1, <2>2 DEF Line
    <2>4. Tables' /\ Panels'
      BY <1>1, <1>2, <2>1 DEF Tables, Choices, Panels
    <2>5. Dossiers'
      <3> SUFFICES ASSUME NEW k \in Jobs
                   PROVE  /\ k \in done' => Over(k, Dossier(k)')
                          /\ k = active' => OnScreen(k, Dossier(k)', retries')
                          /\ k \notin done' /\ k # active' => Waiting(k, Dossier(k)')
        BY DEF Dossiers
      <3>1. Dossier(k)' = Dossier(k)
        BY <1>1, <2>1 DEF Dossier
      <3> QED BY <1>1, <1>2, <2>1, <3>1 DEF Dossiers
    <2> QED BY <1>2, <2>3, <2>4, <2>5 DEF PanelIInv
  <1> QED BY <1>4, <1>5, <1>6

LEMMA ClosePanelStep ==
    ASSUME PanelIInv, ClosePanel PROVE PanelIInv'
  <1>1. /\ panel /\ view' = Idle /\ mail' = <<>>
        /\ UNCHANGED <<disposed, current, scope, files, retries>>
    BY DEF ClosePanel
  <1>2. Clicks'
    <2>1. mail' \in Seq([kind : Click, card : Nat, job : Jobs \cup {NoJob}]) /\ Len(mail') = 0
      BY <1>1
    <2>2. view'.job = NoJob /\ view'.card = 0
      BY <1>1 DEF Idle
    <2> QED BY <2>1, <2>2, Limits DEF Clicks
  <1>3. /\ Tables /\ Choices /\ Line(queue, active, done) /\ Dossiers /\ Panels /\ NoJob \notin Jobs
        /\ cards \in [Jobs -> Seq(CardState)] /\ runs \in [Jobs -> Seq(Run)]
    BY CardsAssumption DEF PanelIInv, Tables
  <1>4. /\ queue \in Seq(Jobs) /\ done \in SUBSET Jobs /\ active \in Jobs \cup {NoJob}
        /\ \A k, l \in DOMAIN queue : queue[k] = queue[l] => k = l
        /\ \A k \in DOMAIN queue : queue[k] # active /\ queue[k] \notin done
        /\ queue # <<>> => active # NoJob
    BY <1>3 DEF Line
  <1>5. CASE active = NoJob
    <2>1. panel' = FALSE /\ UNCHANGED <<queue, active, done, cards, runs, closed, decision>>
      BY <1>5 DEF ClosePanel
    <2>2. Tables' /\ Panels'
      BY <1>1, <1>3, <1>5, <2>1 DEF Tables, Choices, Panels
    <2>3. Dossiers'
      <3> SUFFICES ASSUME NEW k \in Jobs
                   PROVE  /\ k \in done' => Over(k, Dossier(k)')
                          /\ k = active' => OnScreen(k, Dossier(k)', retries')
                          /\ k \notin done' /\ k # active' => Waiting(k, Dossier(k)')
        BY DEF Dossiers
      <3>1. Dossier(k)' = Dossier(k)
        BY <1>1, <2>1 DEF Dossier
      <3> QED BY <1>1, <1>3, <2>1, <3>1 DEF Dossiers
    <2>4. Line(queue', active', done')
      BY <1>3, <2>1
    <2> QED BY <1>2, <2>2, <2>3, <2>4 DEF PanelIInv
  <1>6. CASE active # NoJob
    <2> DEFINE j == active
               d == Finalize(j, cards[j], scope[j], files[j], TRUE)
               rs == [runs EXCEPT ![j] = NoRuns(j)]
    <2>1. /\ closed' = [closed EXCEPT ![j] = TRUE] /\ done' = done \cup {j}
          /\ decision' = [decision EXCEPT ![j] = d]
          /\ \/ queue # <<>> /\ Pump(queue, cards, rs)
             \/ queue = <<>> /\ active' = NoJob /\ queue' = <<>> /\ cards' = cards /\ runs' = rs /\ panel' = FALSE
      BY <1>6 DEF ClosePanel
    <2>2. j \in Jobs /\ d \in Answer /\ NoRuns(j) \in Seq(Run)
      <3>1. j \in Jobs /\ retries \in 0..MaxRetries
        BY <1>3, <1>4, <1>6 DEF Choices
      <3>2. d \in Answer
        BY <3>1, AllChosenly
      <3>3. NoRuns(j) \in Seq(Run)
        BY <3>1, FreshCells
      <3> QED BY <3>1, <3>2, <3>3
    <2>3. /\ closed' \in [Jobs -> BOOLEAN] /\ decision' \in [Jobs -> Answer]
          /\ closed'[j] = TRUE /\ decision'[j] = d
          /\ rs \in [Jobs -> Seq(Run)] /\ rs[j] = NoRuns(j)
          /\ \A k \in Jobs : k # j => closed'[k] = closed[k] /\ decision'[k] = decision[k] /\ rs[k] = runs[k]
      <3> HIDE DEF d
      <3> QED BY <1>3, <2>1, <2>2 DEF Choices
    <2>4. Choices'
      BY <1>1, <1>3, <2>3 DEF Choices
    <2>5. ASSUME NEW k \in done'
          PROVE  Over(k, [cards |-> cards[k], runs |-> rs[k], current |-> current'[k], scope |-> scope'[k],
                          files |-> files'[k], closed |-> closed'[k], decision |-> decision'[k]])
      <3>1. CASE k = j
        <4>1. [cards |-> cards[k], runs |-> rs[k], current |-> current'[k], scope |-> scope'[k],
               files |-> files'[k], closed |-> closed'[k], decision |-> decision'[k]]
              = [cards |-> cards[j], runs |-> NoRuns(j), current |-> current[j], scope |-> scope[j],
                 files |-> files[j], closed |-> TRUE, decision |-> d]
          BY <1>1, <2>3, <3>1
        <4> QED BY <2>2, <3>1, <4>1, ClosedReview
      <3>2. CASE k # j
        <4>1. k \in done /\ k \in Jobs
          BY <1>4, <2>1, <3>2
        <4>2. Over(k, Dossier(k))
          BY <1>3, <4>1 DEF Dossiers
        <4> QED BY <1>1, <2>3, <3>2, <4>1, <4>2 DEF Dossier
      <3> QED BY <3>1, <3>2
    <2>6. \A k \in Jobs \ done' :
               /\ cards[k] = cards[k] /\ rs[k] = runs[k] /\ current'[k] = current[k] /\ scope'[k] = scope[k]
               /\ files'[k] = files[k] /\ closed'[k] = closed[k] /\ decision'[k] = decision[k]
      BY <1>1, <2>1, <2>3
    <2>7. /\ \A k \in DOMAIN queue : queue[k] \notin done' /\ queue[k] # active
          /\ done' \in SUBSET Jobs /\ done \subseteq done' /\ active \in done'
          /\ disposed' \in BOOLEAN /\ retries' = retries
      BY <1>1, <1>3, <1>4, <2>1, <2>2 DEF Panels
    <2>8. \/ Pump(queue, cards, rs)
          \/ queue = <<>> /\ active' = NoJob /\ queue' = <<>> /\ cards' = cards /\ runs' = rs /\ panel' = FALSE
      BY <2>1
    <2> HIDE DEF rs, d
    <2> QED BY <1>2, <1>3, <1>4, <2>8, <2>3, <2>4, <2>5, <2>6, <2>7, Handover
  <1> QED BY <1>5, <1>6

LEMMA DisposeStep ==
    ASSUME PanelIInv, Dispose PROVE PanelIInv'
  <1>1. /\ disposed' = TRUE /\ queue' = <<>> /\ active' = NoJob /\ done' = done \cup Open
        /\ closed' = [j \in Jobs |-> closed[j] \/ j \in Open]
        /\ decision' = [j \in Jobs |->
               IF j \in Open THEN Finalize(j, cards[j], scope[j], files[j], TRUE) ELSE decision[j]]
        /\ runs' = [j \in Jobs |-> IF j \in Open THEN NoRuns(j) ELSE runs[j]]
        /\ panel' = FALSE /\ view' = Idle /\ mail' = <<>>
        /\ UNCHANGED <<cards, current, scope, files, retries>>
    BY DEF Dispose
  <1>2. Clicks'
    <2>1. mail' \in Seq([kind : Click, card : Nat, job : Jobs \cup {NoJob}]) /\ Len(mail') = 0
      BY <1>1
    <2>2. view'.job = NoJob /\ view'.card = 0
      BY <1>1 DEF Idle
    <2> QED BY <2>1, <2>2, Limits DEF Clicks
  <1>3. /\ Tables /\ Choices /\ Line(queue, active, done) /\ Dossiers /\ NoJob \notin Jobs
        /\ cards \in [Jobs -> Seq(CardState)] /\ runs \in [Jobs -> Seq(Run)]
        /\ closed \in [Jobs -> BOOLEAN] /\ decision \in [Jobs -> Answer]
        /\ queue \in Seq(Jobs) /\ done \in SUBSET Jobs /\ active \in Jobs \cup {NoJob}
    BY CardsAssumption DEF PanelIInv, Tables, Choices, Line
  <1>4. Open \in SUBSET Jobs /\ (active # NoJob => active \in Open)
    BY <1>3 DEF Open
  <1>5. /\ \A j \in Jobs : NoRuns(j) \in Seq(Run)
        /\ \A j \in Jobs : Finalize(j, cards[j], scope[j], files[j], TRUE) \in Answer
    <2>1. retries \in 0..MaxRetries
      BY <1>3 DEF Choices
    <2>2. \A j \in Jobs : NoRuns(j) \in Seq(Run)
      BY <2>1, FreshCells
    <2> QED BY <2>2, AllChosenly
  <1>6. /\ closed' \in [Jobs -> BOOLEAN] /\ runs' \in [Jobs -> Seq(Run)] /\ decision' \in [Jobs -> Answer]
    BY <1>1, <1>3, <1>5
  <1>7. Choices'
    BY <1>1, <1>3, <1>6 DEF Choices
  <1>8. ASSUME NEW k \in done'
        PROVE  Over(k, [cards |-> cards[k], runs |-> runs'[k], current |-> current'[k], scope |-> scope'[k],
                        files |-> files'[k], closed |-> closed'[k], decision |-> decision'[k]])
    <2>1. CASE k \in Open
      <3>1. [cards |-> cards[k], runs |-> runs'[k], current |-> current'[k], scope |-> scope'[k],
             files |-> files'[k], closed |-> closed'[k], decision |-> decision'[k]]
            = [cards |-> cards[k], runs |-> NoRuns(k), current |-> current[k], scope |-> scope[k],
               files |-> files[k], closed |-> TRUE,
               decision |-> Finalize(k, cards[k], scope[k], files[k], TRUE)]
        BY <1>1, <1>4, <2>1
      <3> QED BY <1>4, <2>1, <3>1, ClosedReview
    <2>2. CASE k \notin Open
      <3>1. k \in done /\ k \in Jobs
        BY <1>1, <1>3, <2>2
      <3>2. closed'[k] = closed[k] /\ runs'[k] = runs[k] /\ decision'[k] = decision[k]
        BY <1>1, <1>3, <2>2, <3>1
      <3>3. Over(k, Dossier(k))
        BY <1>3, <3>1 DEF Dossiers
      <3> QED BY <1>1, <3>1, <3>2, <3>3 DEF Dossier
    <2> QED BY <2>1, <2>2
  <1>9. \A k \in Jobs \ done' :
             /\ cards[k] = cards[k] /\ runs'[k] = runs[k] /\ current'[k] = current[k] /\ scope'[k] = scope[k]
             /\ files'[k] = files[k] /\ closed'[k] = closed[k] /\ decision'[k] = decision[k]
    <2> TAKE k \in Jobs \ done'
    <2>1. k \notin Open
      BY <1>1
    <2> QED BY <1>1, <1>3, <2>1
  <1>10. /\ done' \in SUBSET Jobs /\ done \subseteq done' /\ (active = NoJob \/ active \in done')
         /\ disposed' \in BOOLEAN /\ retries' = retries /\ cards' = cards
    BY <1>1, <1>3, <1>4
  <1>11. /\ <<>> \in Seq(Jobs)
         /\ \A k, l \in DOMAIN <<>> : <<>>[k] = <<>>[l] => k = l
         /\ \A k \in DOMAIN <<>> : <<>>[k] \notin done' /\ <<>>[k] # active
    OBVIOUS
  <1>12. PICK q \in Seq(Jobs) : q = <<>>
    BY <1>11
  <1>13. /\ \A k, l \in DOMAIN q : q[k] = q[l] => k = l
         /\ \A k \in DOMAIN q : q[k] \notin done' /\ q[k] # active
         /\ q = <<>> /\ active' = NoJob /\ queue' = <<>> /\ cards' = cards /\ runs' = runs' /\ panel' = FALSE
    BY <1>1, <1>11, <1>12
  <1> QED BY <1>2, <1>3, <1>6, <1>7, <1>8, <1>9, <1>10, <1>13, Handover

\* Every step keeps the invariant.
LEMMA StepSound == PanelIInv /\ [Next]_vars => PanelIInv'
  <1> SUFFICES ASSUME PanelIInv, [Next]_vars PROVE PanelIInv'
    OBVIOUS
  <1>1. ASSUME NEW j \in Jobs, Review(j) PROVE PanelIInv'
    BY <1>1, ReviewStep
  <1>2. ASSUME NEW j \in Jobs, NEW i \in CardIds(j), Explain(j, i) PROVE PanelIInv'
    BY <1>2, DoneStep, FailsStep, RetryExplainStep, ErrorStep DEF Explain
  <1>3. ASSUME NEW j \in Jobs, NEW i \in CardIds(j), NEW k \in Attempts, ExplainChunk(j, i, k)
        PROVE  PanelIInv'
    BY <1>3, ChunkStep
  <1>4. ASSUME Render PROVE PanelIInv'
    BY <1>4, RenderStep
  <1>5. ASSUME NEW kind \in Click, Press(kind) PROVE PanelIInv'
    BY <1>5, PressStep
  <1>6. ASSUME Dispatch PROVE PanelIInv'
    BY <1>6, AcceptStep, RejectStep, AcceptFileStep, AcceptSessionStep, RetryStep, RefusedStep DEF Dispatch
  <1>7. ASSUME ClosePanel PROVE PanelIInv'
    BY <1>7, ClosePanelStep
  <1>8. ASSUME Dispose PROVE PanelIInv'
    BY <1>8, DisposeStep
  <1>9. ASSUME UNCHANGED vars PROVE PanelIInv'
    BY <1>9, SameClicks, WebviewStep DEF vars
  <1> QED BY <1>1, <1>2, <1>3, <1>4, <1>5, <1>6, <1>7, <1>8, <1>9 DEF Next

-------------------------------------------------------------------------------
(* The theorems. *)

LEMMA PanelSound == Spec => []PanelIInv
  BY InitSound, StepSound, PTL DEF Spec

\* What is known of a review at any time.
LEMMA EveryReview ==
    ASSUME PanelIInv, NEW j \in Jobs
    PROVE  /\ cards[j] \in [CardIds(j) -> CardState] /\ runs[j] \in [CardIds(j) -> Run]
           /\ CardIds(j) = 1..Len(CardsOf[j]) /\ Len(CardsOf[j]) \in Nat
           /\ Explained(j, cards[j], scope[j], files[j]) /\ Widened(j, cards[j], scope[j], files[j])
           /\ decision[j] # NoDecision <=> j \in done
           /\ j \in done => decision[j] = Finalize(j, cards[j], scope[j], files[j], closed[j])
           /\ scope[j] \in {"one", "file", "session"}
  <1>1. /\ cards[j] \in [CardIds(j) -> CardState] /\ scope[j] \in {"one", "file", "session"}
        /\ Explained(j, cards[j], scope[j], files[j]) /\ Widened(j, cards[j], scope[j], files[j])
    <2>1. Chosenly(j, Dossier(j))
      BY AllChosenly
    <2> QED BY <2>1 DEF Chosenly, Dossier
  <1>2. retries \in 0..MaxRetries /\ active \notin done
    BY DEF PanelIInv, Tables, Choices, Line
  <1>3. NoRuns(j) \in [CardIds(j) -> Run]
    BY <1>2, FreshCells
  <1>4. CASE j \in done
    <2>1. Over(j, Dossier(j))
      BY <1>4 DEF PanelIInv, Dossiers
    <2>2. decision[j] = Finalize(j, cards[j], scope[j], files[j], closed[j]) /\ runs[j] = NoRuns(j)
      BY <2>1 DEF Over, Dossier
    <2> QED BY <1>1, <1>3, <1>4, <2>2, AnswerType, JobCards
  <1>5. CASE j = active
    <2>1. decision[j] = NoDecision /\ runs[j] \in [CardIds(j) -> Run]
      BY <1>5, ShownReview
    <2> QED BY <1>1, <1>2, <1>5, <2>1, JobCards
  <1>6. CASE j \notin done /\ j # active
    <2>1. Waiting(j, Dossier(j))
      BY <1>6 DEF PanelIInv, Dossiers
    <2>2. decision[j] = NoDecision /\ runs[j] = NoRuns(j)
      BY <2>1 DEF Waiting, Dossier
    <2> QED BY <1>1, <1>3, <1>6, <2>2, JobCards
  <1> QED BY <1>4, <1>5, <1>6

LEMMA TypesSound == PanelIInv => TypeOK
  <1> SUFFICES ASSUME PanelIInv PROVE TypeOK
    OBVIOUS
  <1>1. PresenterOK
    BY DEF PanelIInv, Line, Panels, PresenterOK
  <1>2. \A j \in Jobs : Len(cards[j]) = Len(CardsOf[j]) /\ DOMAIN runs[j] = CardIds(j)
    <2> TAKE j \in Jobs
    <2>1. /\ cards[j] \in [CardIds(j) -> CardState] /\ runs[j] \in [CardIds(j) -> Run]
          /\ CardIds(j) = 1..Len(CardsOf[j]) /\ Len(CardsOf[j]) \in Nat
      BY EveryReview
    <2>2. \A N \in Nat : \A f \in [1..N -> CardState] : Len(f) = N
      OBVIOUS
    <2> QED BY <2>1, <2>2
  <1>3. StatesOK
    BY <1>2 DEF PanelIInv, Tables, Choices, StatesOK
  <1>4. RunsOK
    BY <1>2 DEF PanelIInv, Tables, RunsOK
  <1>5. WebviewOK
    BY DEF PanelIInv, Clicks, WebviewOK
  <1> QED BY <1>1, <1>3, <1>4, <1>5 DEF TypeOK

LEMMA AccountedSound == PanelIInv => ReviewsAccountedFor
  <1> SUFFICES ASSUME PanelIInv PROVE ReviewsAccountedFor
    OBVIOUS
  <1>1. \A j \in Jobs : decision[j] # NoDecision <=> j \in done
    BY EveryReview
  <1> QED BY <1>1 DEF PanelIInv, Line, Panels, ReviewsAccountedFor

LEMMA PlacesSound == PanelIInv => NoCardForgotten
  <1> SUFFICES ASSUME PanelIInv, active # NoJob PROVE
                   /\ Cardinality(InFlight(runs[active])) <= MaxInFlight
                   /\ \A i \in CardIds(active) :
                         i >= current[active] /\ cards[active][i].verdict = "none"
                           /\ cards[active][i].explain \in {"pending", "streaming"} =>
                             \/ runs[active][i].phase # "none"
                             \/ /\ cards[active][i].explain = "pending"
                                /\ Cardinality(InFlight(runs[active])) = MaxInFlight
    BY DEF NoCardForgotten
  <1>1. active \in Jobs
    BY DEF PanelIInv, Line
  <1>2. /\ Cells(active, cards[active], runs[active], retries)
        /\ Served(cards[active], runs[active], current[active])
        /\ cards[active] \in [CardIds(active) -> CardState]
    BY <1>1, ShownReview
  <1> QED BY <1>2 DEF Cells, CellOK, Served

\* Every review the gate asks for is waiting, shown or answered once, whatever is
\* clicked, closed or disposed of, and no card is left without the explanation it
\* is owed; no explanation is tried more than twice per request (review, pump,
\* finish, scheduleExplains and runExplain of src/review/panel.ts).
THEOREM NoReviewLost == Spec => []PanelInvariant
  <1>1. PanelIInv => PanelInvariant
    BY TypesSound, AccountedSound, PlacesSound DEF PanelInvariant
  <1> QED BY <1>1, PanelSound, PTL

\* An accepted card was explained by one call, or accepted along with an earlier
\* card that was (acceptCard and the two "rest of" acceptances of
\* src/review/pure/state.ts, with the retries of runExplain).
THEOREM AcceptNeedsExplanation == Spec => []AcceptedWasExplained
  <1>1. PanelIInv => AcceptedWasExplained
    <2> SUFFICES ASSUME PanelIInv, NEW j \in Jobs, NEW i \in CardIds(j), cards[j][i].verdict = "accept"
                 PROVE  \E k \in 1..i :
                            /\ cards[j][k].verdict = "accept"
                            /\ cards[j][k].explain = "done" /\ Cardinality(cards[j][k].text) <= 1
                            /\ \/ k = i
                               \/ scope[j] = "session"
                               \/ CardsOf[j][k].path = CardsOf[j][i].path /\ CardsOf[j][k].path \in files[j]
      BY DEF AcceptedWasExplained
    <2>1. Explained(j, cards[j], scope[j], files[j])
      BY EveryReview
    <2>2. PICK k \in 1..i :
              /\ cards[j][k].verdict = "accept" /\ cards[j][k].explain = "done" /\ OneText(cards[j][k])
              /\ \/ k = i
                 \/ scope[j] = "session"
                 \/ CardsOf[j][k].path = CardsOf[j][i].path /\ CardsOf[j][k].path \in files[j]
      BY <2>1 DEF Explained
    <2> DEFINE t == cards[j][k].text
    <2>3. Cardinality(t) <= 1
      <3>1. CASE t = {}
        <4>1. Cardinality({}) = 0
          BY FS_EmptySet
        <4> HIDE DEF t
        <4> QED BY <3>1, <4>1
      <3>2. CASE t # {}
        <4>1. PICK a : t = {a}
          BY <2>2, <3>2 DEF OneText
        <4>2. Cardinality({a}) = 1
          BY FS_Singleton
        <4> HIDE DEF t
        <4> QED BY <4>1, <4>2
      <3> QED BY <3>1, <3>2
    <2> QED BY <2>2, <2>3
  <1> QED BY <1>1, PanelSound, PTL

-------------------------------------------------------------------------------
(* What the person asked for with a "rest of" click is all that widens.     *)

AskedFor(j, sc, fs, clicks) ==
    /\ \A p \in fs : \E i \in CardIds(j) : CardsOf[j][i].path = p /\ <<"acceptFile", i>> \in clicks
    /\ sc = "session" => \E i \in CardIds(j) : <<"acceptSession", i>> \in clicks
AskedIInv == \A j \in Jobs : /\ asked[j] \in SUBSET (Click \X Nat)
                             /\ AskedFor(j, scope[j], files[j], asked[j])
AskedTable == asked \in [Jobs -> SUBSET (Click \X Nat)]

LEMMA AskedMore ==
    ASSUME NEW j \in Jobs, NEW sc, NEW fs, NEW c1, NEW c2, c1 \subseteq c2, AskedFor(j, sc, fs, c1)
    PROVE  AskedFor(j, sc, fs, c2)
  BY DEF AskedFor

\* One obeyed click: only the review shown changes.
LEMMA DeliveredAsked ==
    ASSUME PanelIInv, AskedTable, AskedIInv, NEW kind \in Click, Deliver(kind),
           NEW sc, NEW fs, NEW i \in CardIds(active),
           i = Target,
           scope' = [scope EXCEPT ![active] = sc], files' = [files EXCEPT ![active] = fs],
           \/ sc = scope[active] /\ fs = files[active]
           \/ kind = "acceptFile" /\ sc \in {scope[active], "file"}
              /\ fs = files[active] \cup {CardsOf[active][i].path}
           \/ kind = "acceptSession" /\ sc = "session" /\ fs = files[active]
    PROVE  AskedTable' /\ AskedIInv'
  <1>1. /\ active \in Jobs /\ scope \in [Jobs -> {"one", "file", "session"}]
        /\ files \in [Jobs -> SUBSET STRING] /\ i \in Nat
        /\ Head(mail).kind = kind /\ Head(mail).card = i
    <2>1. active \in Jobs
      BY DEF PanelIInv, Line, Deliver
    <2>2. i \in Nat
      BY <2>1, JobCards
    <2>3. Head(mail).kind = kind /\ Head(mail).card = i
      BY DEF Deliver, Target
    <2> QED BY <2>1, <2>2, <2>3 DEF PanelIInv, Tables, Choices
  <1> DEFINE w == Widening(Head(mail))
  <1>2. /\ w \in SUBSET (Click \X Nat)
        /\ kind = "acceptFile" => <<"acceptFile", i>> \in w
        /\ kind = "acceptSession" => <<"acceptSession", i>> \in w
    BY <1>1 DEF Widening, Click
  <1>3. asked' = [asked EXCEPT ![active] = @ \cup w]
    BY DEF Deliver
  <1> HIDE DEF w
  <1>4. AskedTable'
    BY <1>1, <1>2, <1>3 DEF AskedTable
  <1>5. asked'[active] = asked[active] \cup w /\ scope'[active] = sc /\ files'[active] = fs
    BY <1>1, <1>3 DEF AskedTable
  <1>6. AskedFor(active, scope[active], files[active], asked'[active])
    BY <1>1, <1>5, AskedMore DEF AskedIInv
  <1>7. AskedFor(active, sc, fs, asked'[active])
    BY <1>1, <1>2, <1>5, <1>6 DEF AskedFor
  <1>8. \A j \in Jobs : j # active =>
           asked'[j] = asked[j] /\ scope'[j] = scope[j] /\ files'[j] = files[j]
    BY <1>1, <1>3 DEF AskedTable
  <1>9. \A j \in Jobs : asked'[j] \in SUBSET (Click \X Nat)
    BY <1>4 DEF AskedTable
  <1>10. ASSUME NEW j \in Jobs PROVE AskedFor(j, scope'[j], files'[j], asked'[j])
    BY <1>5, <1>7, <1>8 DEF AskedIInv
  <1>11. AskedIInv'
    BY <1>9, <1>10 DEF AskedIInv, AskedFor, CardIds
  <1> QED BY <1>4, <1>11

LEMMA AskedUntouched ==
    ASSUME AskedTable, AskedIInv, UNCHANGED <<scope, files, asked>> PROVE AskedTable' /\ AskedIInv'
  BY DEF AskedTable, AskedIInv, AskedFor, CardIds

LEMMA AskedStep == PanelIInv /\ AskedTable /\ AskedIInv /\ [Next]_vars => AskedTable' /\ AskedIInv'
  <1> SUFFICES ASSUME PanelIInv, AskedTable, AskedIInv, [Next]_vars PROVE AskedTable' /\ AskedIInv'
    OBVIOUS
  <1> DEFINE Goal == AskedTable' /\ AskedIInv'
  <1>0. ASSUME active # NoJob
        PROVE active \in Jobs /\ scope \in [Jobs -> {"one", "file", "session"}] /\ files \in [Jobs -> SUBSET STRING]
    BY <1>0 DEF PanelIInv, Line, Tables, Choices
  <1>1. ASSUME NEW j \in Jobs, Review(j) PROVE Goal
    BY <1>1, AskedUntouched DEF Review
  <1>2. ASSUME NEW j \in Jobs, NEW i \in CardIds(j), Explain(j, i) PROVE Goal
    BY <1>2, AskedUntouched
       DEF Explain, ExplainDone, ExplainFails, RetryExplain, ExplainError, Explaining
  <1>3. ASSUME NEW j \in Jobs, NEW i \in CardIds(j), NEW k \in Attempts, ExplainChunk(j, i, k) PROVE Goal
    BY <1>3, AskedUntouched DEF ExplainChunk, Explaining
  <1>4. ASSUME Render PROVE Goal
    BY <1>4, AskedUntouched DEF Render, review
  <1>5. ASSUME NEW kind \in Click, Press(kind) PROVE Goal
    BY <1>5, AskedUntouched DEF Press, review
  <1>6. ASSUME Accept PROVE Goal
    <2>1. /\ Deliver("accept") /\ active # NoJob /\ Target \in CardIds(active)
          /\ scope' = [scope EXCEPT ![active] = scope[active]]
          /\ files' = [files EXCEPT ![active] = files[active]]
      BY <1>6 DEF Accept, Deliver, Advance, Acceptable, CurrentCard
    <2> QED BY <2>1, DeliveredAsked DEF Click
  <1>7. ASSUME Reject PROVE Goal
    <2>1. /\ Deliver("reject") /\ active # NoJob /\ Target \in CardIds(active)
          /\ scope' = [scope EXCEPT ![active] = scope[active]]
          /\ files' = [files EXCEPT ![active] = files[active]]
      BY <1>7 DEF Reject, Deliver, Advance, CurrentCard
    <2> QED BY <2>1, DeliveredAsked DEF Click
  <1>8. ASSUME AcceptFile PROVE Goal
    <2> DEFINE sc == IF scope[active] = "one" THEN "file" ELSE scope[active]
               fs == files[active] \cup {CardsOf[active][Target].path}
    <2>1. /\ Deliver("acceptFile") /\ active # NoJob /\ Target \in CardIds(active)
          /\ scope' = [scope EXCEPT ![active] = sc]
          /\ files' = [files EXCEPT ![active] = fs]
      BY <1>8 DEF AcceptFile, Deliver, Advance, Acceptable, CurrentCard
    <2>2. sc \in {scope[active], "file"} /\ fs = files[active] \cup {CardsOf[active][Target].path}
      OBVIOUS
    <2> HIDE DEF sc, fs
    <2> QED BY <2>1, <2>2, DeliveredAsked DEF Click
  <1>9. ASSUME AcceptSession PROVE Goal
    <2>1. /\ Deliver("acceptSession") /\ active # NoJob /\ Target \in CardIds(active)
          /\ scope' = [scope EXCEPT ![active] = "session"]
          /\ files' = [files EXCEPT ![active] = files[active]]
      BY <1>9 DEF AcceptSession, Deliver, Advance, Acceptable, CurrentCard
    <2> QED BY <2>1, DeliveredAsked DEF Click
  <1>10. ASSUME Retry PROVE Goal
    <2>1. /\ Deliver("retry") /\ active # NoJob /\ Target \in CardIds(active)
          /\ scope' = scope /\ files' = files
      BY <1>10 DEF Retry, Deliver
    <2>2. /\ scope' = [scope EXCEPT ![active] = scope[active]]
          /\ files' = [files EXCEPT ![active] = files[active]]
      BY <1>0, <2>1
    <2> QED BY <2>1, <2>2, DeliveredAsked DEF Click
  <1>11. ASSUME Refused PROVE Goal
    BY <1>11, AskedUntouched DEF Refused, review
  <1>12. ASSUME ClosePanel PROVE Goal
    BY <1>12, AskedUntouched DEF ClosePanel
  <1>13. ASSUME Dispose PROVE Goal
    BY <1>13, AskedUntouched DEF Dispose
  <1>14. ASSUME UNCHANGED vars PROVE Goal
    BY <1>14, AskedUntouched DEF vars, review
  <1> QED BY <1>1, <1>2, <1>3, <1>4, <1>5, <1>6, <1>7, <1>8, <1>9, <1>10, <1>11, <1>12, <1>13, <1>14
          DEF Next, Dispatch

LEMMA AskedInit == Init => AskedTable /\ AskedIInv
  BY DEF Init, AskedTable, AskedIInv, AskedFor

LEMMA AskedSound == Spec => [](PanelIInv /\ AskedIInv)
  <1>1. Init => PanelIInv /\ AskedTable /\ AskedIInv
    BY InitSound, AskedInit
  <1>2. PanelIInv /\ AskedTable /\ AskedIInv /\ [Next]_vars => (PanelIInv /\ AskedTable /\ AskedIInv)'
    BY StepSound, AskedStep
  <1> QED BY <1>1, <1>2, PTL DEF Spec

\* The decision given to the gate is never wider than what was asked for: "rest of
\* file" only when that was clicked on a card of every file of the request, "rest
\* of session" only when that was clicked, and nothing of a review that was closed
\* (effectiveScope and finalize of src/review/pure/state.ts).
THEOREM LoosensLittle == Spec => []DecisionLoosensLittle
  <1>1. PanelIInv /\ AskedIInv => DecisionLoosensLittle
    <2> SUFFICES ASSUME PanelIInv, AskedIInv, NEW j \in done
                 PROVE  /\ decision[j].scope = "file" =>
                              \A p \in PathsOf[j] : \E i \in CardIds(j) :
                                  CardsOf[j][i].path = p /\ <<"acceptFile", i>> \in asked[j]
                        /\ decision[j].scope = "session" =>
                              \E i \in CardIds(j) : <<"acceptSession", i>> \in asked[j]
                        /\ decision[j].scope # "one" => decision[j].accepted # {}
                        /\ closed[j] => decision[j].accepted = {}
                        /\ decision[j].verdict = "accept" => ~closed[j]
      BY DEF DecisionLoosensLittle
    <2>1. j \in Jobs
      BY DEF PanelIInv, Line
    <2> DEFINE yes == {i \in DOMAIN cards[j] : cards[j][i].verdict = "accept"}
    <2>2. /\ decision[j] = Finalize(j, cards[j], scope[j], files[j], closed[j])
          /\ Widened(j, cards[j], scope[j], files[j])
          /\ DOMAIN cards[j] = CardIds(j)
          /\ AskedFor(j, scope[j], files[j], asked[j])
      BY <2>1, EveryReview DEF AskedIInv
    <2>3. CASE closed[j]
      <3>1. decision[j] = [verdict |-> "reject", scope |-> "one", accepted |-> {}]
        BY <2>2, <2>3 DEF Finalize
      <3> QED BY <2>3, <3>1
    <2>4. CASE ~ closed[j]
      <3>1. /\ decision[j].scope = EffectiveScope(j, scope[j], files[j])
            /\ decision[j].accepted = UNION {CardsOf[j][i].hunks : i \in yes}
        BY <2>2, <2>4 DEF Finalize
      <3>2. /\ decision[j].scope = "file" => PathsOf[j] \subseteq files[j]
            /\ decision[j].scope = "session" => scope[j] = "session"
        BY <3>1 DEF EffectiveScope
      <3>3. decision[j].scope # "one" => \E i \in yes : i \in CardIds(j)
        BY <2>2, <3>1 DEF EffectiveScope, Widened
      <3>4. \A i \in yes : CardsOf[j][i].hunks # {}
        BY <2>1, <2>2, JobCards
      <3>5. decision[j].scope # "one" => decision[j].accepted # {}
        BY <3>1, <3>3, <3>4
      <3> QED BY <2>2, <2>4, <3>2, <3>5 DEF AskedFor
    <2> QED BY <2>3, <2>4
  <1> QED BY <1>1, AskedSound, PTL
=============================================================================
