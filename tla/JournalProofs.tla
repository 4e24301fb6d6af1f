---------------------------- MODULE JournalProofs ----------------------------
(***************************************************************************)
(* Proofs about src/journal.  The change journal: whatever windows append, *)
(* rotate, fail or die, and whatever people do to the files, a journal     *)
(* that verifies is as it was written; and while nobody disturbs it, its   *)
(* log only grows at the end, loses nothing and verifies.  The restore     *)
(* points of a folder: whatever windows save, restore, test and rotate     *)
(* them, fail or die, what the index lists can be restored, and a restore  *)
(* loses neither what it replaces nor its Undo.                            *)
(***************************************************************************)
EXTENDS JournalProperties, JournalView, FiniteSetTheorems, FunctionTheorems,
        SequenceTheorems, WellFoundedInduction, TLAPS

-----------------------------------------------------------------------------
(* The inductive invariant of the journal.                                 *)

\* What a line of the files may be: an entry as it was written, one that somebody has
\* changed since, or no entry.
Altered(entry) == [entry EXCEPT !.intact = FALSE]
Written(past) == {past[h].entry : h \in DOMAIN past}
LinesFrom(past) == {Junk} \cup Written(past) \cup {Altered(entry) : entry \in Written(past)}

\* A list of hashes of which each is the one before in what the next one continues.
Leads(prev, log) ==
  \A k \in DOMAIN log : prev[log[k]] = IF k = 1 THEN GENESIS_HASH ELSE log[k - 1]
EndOf(log) == IF log = <<>> THEN GENESIS_HASH ELSE log[Len(log)]
PrevIn(past) == [h \in DOMAIN past |-> past[h].entry.prev]

\* What is remembered of every hash: its entry, and if it continued a log, a log that
\* leads to it from the beginning.
Remembers(past) ==
  /\ past \in Seq({past[h] : h \in DOMAIN past})
  /\ \A h \in DOMAIN past :
       /\ past[h].entry \in Entry
       /\ past[h].entry.hash = h /\ past[h].entry.intact = TRUE
       /\ past[h].log # NoLog =>
            /\ past[h].log \in Seq(DOMAIN past)
            /\ Leads(PrevIn(past), past[h].log)
            /\ past[h].entry.prev = EndOf(past[h].log)

TextsOf(lines) == [lines : Seq(lines), newline : BOOLEAN]
StatesOf(lines) == [seq : Nat, hash : Nat, lines : Nat, seen : TextsOf(lines)]
JobsOf(lines) == [head : Int, todo : SUBSET Nat, older : Seq(lines), newer : Seq(lines), stamp : Nat]

\* Nothing stands in the files, or is held by a window, that was never written.
Holds(lines) ==
  /\ active # NoFile => active \in TextsOf(lines)
  /\ archives \in [DOMAIN archives -> Seq(lines)]
  /\ tmps \in [DOMAIN tmps -> Seq(lines)]
  /\ IsFiniteSet(DOMAIN archives) /\ DOMAIN archives \subseteq Nat /\ DOMAIN tmps \subseteq Nat
  /\ stamped \in Nat
  /\ pc \in [Writers -> Calls]
  /\ st \in [Writers -> {NoState} \cup StatesOf(lines)]
  /\ job \in [Writers -> JobsOf(lines)]
  /\ \A w \in Writers : pc[w] \notin {"idle", "stat"} => st[w] \in StatesOf(lines)
  /\ \A w \in Writers : pc[w] = "trim" => st[w].lines = Len(st[w].seen.lines) /\ st[w].lines # 0

JournalIInv == Remembers(history) /\ Holds(LinesFrom(history))

-----------------------------------------------------------------------------
(* Lists of hashes.                                                        *)

\* A set of numbers has a least one.
LEMMA LeastNumber ==
  ASSUME NEW I, I \subseteq Nat, I # {}
  PROVE  \E m \in I : \A i \in I : m <= i
  <1>1. PICK m \in I : \A i \in I : ~(<<i, m>> \in OpToRel(<, Nat))
    BY NatLessThanWellFounded, WFMin
  <1>2. ASSUME NEW i \in I PROVE m <= i
    <2>1. i \in Nat /\ m \in Nat
      OBVIOUS
    <2>2. <<i, m>> \notin {ss \in Nat \X Nat : ss[1] < ss[2]}
      BY <1>1 DEF OpToRel
    <2>3. ~(i < m)
      BY <2>1, <2>2
    <2> QED BY <2>1, <2>3
  <1> QED BY <1>2

\* Two lists that end with the same hash, each of which leads there from the
\* beginning, are the same: counted from the end, they agree as far as either goes.
LEMMA SamePast ==
  ASSUME NEW prev, NEW a \in Seq(Nat \ {0}), NEW b \in Seq(Nat \ {0}),
         Leads(prev, a), Leads(prev, b), EndOf(a) = EndOf(b)
  PROVE  a = b
  <1> DEFINE Agree(d) == d < Len(a) \/ d < Len(b) =>
                           /\ d < Len(a) /\ d < Len(b)
                           /\ a[Len(a) - d] = b[Len(b) - d]
             Differ == {d \in Nat : ~Agree(d)}
  <1>1. Len(a) \in Nat /\ Len(b) \in Nat
    OBVIOUS
  <1>2. /\ \A i \in 1..Len(a) : a[i] \in Nat /\ a[i] # 0 /\ prev[a[i]] = IF i = 1 THEN 0 ELSE a[i - 1]
        /\ \A i \in 1..Len(b) : b[i] \in Nat /\ b[i] # 0 /\ prev[b[i]] = IF i = 1 THEN 0 ELSE b[i - 1]
    BY DEF Leads, GENESIS_HASH
  <1>3. Agree(0)
    <2>1. /\ Len(a) = 0 => EndOf(a) = 0
          /\ Len(a) # 0 => EndOf(a) = a[Len(a)] /\ EndOf(a) # 0
      BY <1>1, <1>2 DEF EndOf, GENESIS_HASH
    <2>2. /\ Len(b) = 0 => EndOf(b) = 0
          /\ Len(b) # 0 => EndOf(b) = b[Len(b)] /\ EndOf(b) # 0
      BY <1>1, <1>2 DEF EndOf, GENESIS_HASH
    <2> QED BY <1>1, <2>1, <2>2
  <1>4. ASSUME NEW d \in Nat, Agree(d) PROVE Agree(d + 1)
    <2>1. SUFFICES ASSUME d + 1 < Len(a) \/ d + 1 < Len(b)
                   PROVE  /\ d + 1 < Len(a) /\ d + 1 < Len(b)
                          /\ a[Len(a) - (d + 1)] = b[Len(b) - (d + 1)]
      OBVIOUS
    <2> DEFINE i == Len(a) - d
               j == Len(b) - d
    <2>2. i \in 1..Len(a) /\ j \in 1..Len(b) /\ a[i] = b[j]
      BY <1>1, <1>4, <2>1
    <2>3. i # 1 \/ j # 1
      BY <1>1, <2>1
    <2>4. /\ i - 1 = Len(a) - (d + 1) /\ j - 1 = Len(b) - (d + 1)
          /\ i # 1 => d + 1 < Len(a)
          /\ j # 1 => d + 1 < Len(b)
      BY <1>1, <2>2
    <2> HIDE DEF i, j
    <2>5. /\ prev[a[i]] = IF i = 1 THEN 0 ELSE a[i - 1]
          /\ prev[b[j]] = IF j = 1 THEN 0 ELSE b[j - 1]
      BY <1>2, <2>2
    <2>6. (i # 1 => a[i - 1] # 0) /\ (j # 1 => b[j - 1] # 0)
      <3>1. (i # 1 => i - 1 \in 1..Len(a)) /\ (j # 1 => j - 1 \in 1..Len(b))
        BY <1>1, <2>2
      <3> QED BY <1>2, <3>1
    <2>7. i # 1 /\ j # 1 /\ a[i - 1] = b[j - 1]
      BY <2>2, <2>3, <2>5, <2>6
    <2> QED BY <2>4, <2>7
  <1>5. Differ = {}
    <2>1. SUFFICES ASSUME Differ # {} PROVE FALSE
      OBVIOUS
    <2>2. PICK m \in Differ : \A d \in Differ : m <= d
      <3>1. Differ \subseteq Nat
        OBVIOUS
      <3> HIDE DEF Differ
      <3> QED BY <2>1, <3>1, LeastNumber
    <2>3. m \in Nat /\ ~Agree(m)
      OBVIOUS
    <2> HIDE DEF Agree
    <2>4. m # 0
      BY <1>3, <2>3
    <2>5. m - 1 \in Nat /\ m - 1 \notin Differ
      BY <2>2, <2>3, <2>4
    <2>6. Agree(m - 1)
      BY <2>5
    <2>7. (m - 1) + 1 = m
      BY <2>3
    <2>8. Agree((m - 1) + 1)
      BY <1>4, <2>5, <2>6
    <2> QED BY <2>3, <2>7, <2>8
  <1>6. \A d \in Nat : Agree(d)
    <2> HIDE DEF Agree
    <2> QED BY <1>5
  <1>7. Len(a) = Len(b)
    <2>1. Agree(Len(a)) /\ Agree(Len(b))
      BY <1>1, <1>6
    <2> QED BY <1>1, <2>1
  <1>8. ASSUME NEW i \in 1..Len(a) PROVE a[i] = b[i]
    <2>1. Len(a) - i \in Nat /\ Len(a) - i < Len(a) /\ Len(a) - (Len(a) - i) = i
      BY <1>1
    <2>2. Agree(Len(a) - i)
      BY <1>6, <2>1
    <2> QED BY <1>7, <2>1, <2>2
  <1> QED BY <1>7, <1>8

-----------------------------------------------------------------------------
(* Sequences put together.                                                 *)

\* What the sequences of a sequence make together, one after the other.
LEMMA FlattenIs ==
  ASSUME NEW s, Len(s) \in Nat \ {0}
  PROVE  \E g : /\ g = [i \in 1..Len(s) |-> IF i = 1 THEN s[i] ELSE g[i - 1] \o s[i]]
                /\ FlattenSeq(s) = g[Len(s)]
  <1> DEFINE Is(g, n) == g = [i \in 1..n |-> IF i = 1 THEN s[i] ELSE g[i - 1] \o s[i]]
             flatten == CHOOSE g : Is(g, Len(s))
             Lacking == {n \in Nat : ~\E g : Is(g, n)}
  <1>1. Len(s) \in Nat
    OBVIOUS
  <1>2. \E g : Is(g, 0)
    <2> DEFINE e == [i \in 1..0 |-> s[i]]
    <2>1. e = [i \in 1..0 |-> IF i = 1 THEN s[i] ELSE e[i - 1] \o s[i]]
      OBVIOUS
    <2> HIDE DEF e
    <2>2. Is(e, 0)
      BY <2>1
    <2> HIDE DEF Is
    <2> QED BY <2>2
  <1>3. ASSUME NEW n \in Nat, NEW g, Is(g, n) PROVE \E h : Is(h, n + 1)
    <2> DEFINE next == IF n + 1 = 1 THEN s[n + 1] ELSE g[n] \o s[n + 1]
               h == [i \in 1..(n + 1) |-> IF i = n + 1 THEN next ELSE g[i]]
    <2>1. \A i \in 1..n : g[i] = IF i = 1 THEN s[i] ELSE g[i - 1] \o s[i]
      BY <1>3
    <2>2. \A i \in 1..(n + 1) : h[i] = IF i = n + 1 THEN next ELSE g[i]
      OBVIOUS
    <2>3. h = [i \in 1..(n + 1) |-> h[i]]
      OBVIOUS
    <2>4. ASSUME NEW i \in 1..(n + 1)
          PROVE  h[i] = IF i = 1 THEN s[i] ELSE h[i - 1] \o s[i]
      <3> HIDE DEF h
      <3>1. CASE i = n + 1
        <4>1. h[i] = IF n + 1 = 1 THEN s[n + 1] ELSE g[n] \o s[n + 1]
          BY <2>2, <3>1
        <4>2. n # 0 => i - 1 = n /\ h[n] = g[n]
          <5>1. n # 0 => n \in 1..(n + 1) /\ n # n + 1 /\ i - 1 = n
            BY <3>1
          <5> QED BY <2>2, <5>1
        <4>3. i = 1 <=> n = 0
          BY <3>1
        <4> QED BY <3>1, <4>1, <4>2, <4>3
      <3>2. CASE i # n + 1
        <4>1. i \in 1..n /\ (i # 1 => i - 1 \in 1..(n + 1) /\ i - 1 # n + 1)
          BY <3>2
        <4>2. h[i] = g[i] /\ (i # 1 => h[i - 1] = g[i - 1])
          BY <2>2, <3>2, <4>1
        <4> QED BY <2>1, <4>1, <4>2
      <3> QED BY <3>1, <3>2
    <2> HIDE DEF h
    <2>5. Is(h, n + 1)
      BY <2>3, <2>4
    <2> HIDE DEF Is
    <2> QED BY <2>5
  <1>4. \E g : Is(g, Len(s))
    <2> HIDE DEF Is
    <2>1. SUFFICES ASSUME ~\E g : Is(g, Len(s)) PROVE FALSE
      OBVIOUS
    <2>2. Lacking # {} /\ Lacking \subseteq Nat
      BY <1>1, <2>1
    <2>3. PICK m \in Lacking : \A n \in Lacking : m <= n
      <3> HIDE DEF Lacking
      <3> QED BY <2>2, LeastNumber
    <2>4. m \in Nat /\ ~\E g : Is(g, m)
      OBVIOUS
    <2>5. m # 0
      BY <1>2, <2>4
    <2>6. m - 1 \in Nat /\ m - 1 \notin Lacking
      BY <2>3, <2>4, <2>5
    <2>7. PICK g : Is(g, m - 1)
      BY <2>6
    <2>8. \E h : Is(h, (m - 1) + 1)
      BY <1>3, <2>6, <2>7
    <2>9. (m - 1) + 1 = m
      BY <2>4
    <2> QED BY <2>4, <2>8, <2>9
  <1>5. flatten = [i \in 1..Len(s) |-> IF i = 1 THEN s[i] ELSE flatten[i - 1] \o s[i]]
    <2>1. Is(flatten, Len(s))
      <3> HIDE DEF Is
      <3> QED BY <1>4
    <2> HIDE DEF flatten
    <2> QED BY <2>1
  <1>6. FlattenSeq(s) = flatten[Len(s)]
    BY DEF FlattenSeq
  <1> HIDE DEF flatten
  <1> QED BY <1>5, <1>6

\* They make a sequence.
LEMMA FlattenTyped ==
  ASSUME NEW T, NEW s \in Seq(Seq(T))
  PROVE  FlattenSeq(s) \in Seq(T)
  <1>1. Len(s) \in Nat
    OBVIOUS
  <1>2. CASE Len(s) = 0
    BY <1>2 DEF FlattenSeq
  <1>3. CASE Len(s) # 0
    <2>1. PICK g : /\ g = [i \in 1..Len(s) |-> IF i = 1 THEN s[i] ELSE g[i - 1] \o s[i]]
                   /\ FlattenSeq(s) = g[Len(s)]
      BY <1>1, <1>3, FlattenIs
    <2> DEFINE Untyped == {n \in 1..Len(s) : g[n] \notin Seq(T)}
    <2>2. Untyped = {}
      <3>1. \A i \in 1..Len(s) : g[i] = IF i = 1 THEN s[i] ELSE g[i - 1] \o s[i]
        BY <2>1
      <3>2. SUFFICES ASSUME Untyped # {} PROVE FALSE
        OBVIOUS
      <3>3. PICK m \in Untyped : \A n \in Untyped : m <= n
        <4>1. Untyped \subseteq Nat
          OBVIOUS
        <4> HIDE DEF Untyped
        <4> QED BY <3>2, <4>1, LeastNumber
      <3>4. m \in 1..Len(s) /\ g[m] \notin Seq(T) /\ s[m] \in Seq(T)
        OBVIOUS
      <3>5. m # 1 => m - 1 \in 1..Len(s) /\ m - 1 \notin Untyped
        BY <1>1, <3>3, <3>4
      <3>6. m # 1 => g[m - 1] \in Seq(T)
        BY <3>5
      <3>7. CASE m = 1
        BY <3>1, <3>4, <3>7
      <3>8. CASE m # 1
        <4>1. g[m - 1] \o s[m] \in Seq(T)
          BY <3>4, <3>6, <3>8, ConcatProperties
        <4> QED BY <3>1, <3>4, <3>8, <4>1
      <3> QED BY <3>7, <3>8
    <2>3. Len(s) \in 1..Len(s)
      BY <1>1, <1>3
    <2> QED BY <2>1, <2>2, <2>3
  <1> QED BY <1>2, <1>3

\* What one more adds to them.
LEMMA FlattenMore ==
  ASSUME NEW T, NEW s \in Seq(Seq(T)), NEW x \in Seq(T)
  PROVE  FlattenSeq(Append(s, x)) = FlattenSeq(s) \o x
  <1> DEFINE n == Len(s)
             t == Append(s, x)
  <1>1. /\ n \in Nat /\ Len(t) = n + 1 /\ Len(t) \in Nat \ {0}
        /\ \A i \in 1..n : t[i] = s[i]
        /\ t[n + 1] = x
    OBVIOUS
  <1> HIDE DEF t
  <1>2. PICK g : /\ g = [i \in 1..Len(t) |-> IF i = 1 THEN t[i] ELSE g[i - 1] \o t[i]]
                 /\ FlattenSeq(t) = g[Len(t)]
    BY <1>1, FlattenIs
  <1>3. \A i \in 1..n + 1 : g[i] = IF i = 1 THEN t[i] ELSE g[i - 1] \o t[i]
    BY <1>1, <1>2
  <1>4. CASE n = 0
    <2>1. FlattenSeq(s) = <<>> /\ FlattenSeq(s) \o x = x
      BY <1>4 DEF FlattenSeq
    <2>2. g[1] = x
      BY <1>1, <1>3, <1>4
    <2> QED BY <1>1, <1>2, <1>4, <2>1, <2>2 DEF t
  <1>5. CASE n # 0
    <2>1. PICK f : /\ f = [i \in 1..Len(s) |-> IF i = 1 THEN s[i] ELSE f[i - 1] \o s[i]]
                   /\ FlattenSeq(s) = f[Len(s)]
      BY <1>1, <1>5, FlattenIs
    <2>2. \A i \in 1..n : f[i] = IF i = 1 THEN s[i] ELSE f[i - 1] \o s[i]
      BY <2>1
    <2> DEFINE Apart == {i \in 1..n : f[i] # g[i]}
    <2>3. Apart = {}
      <3>1. SUFFICES ASSUME Apart # {} PROVE FALSE
        OBVIOUS
      <3>2. PICK m \in Apart : \A i \in Apart : m <= i
        <4>1. Apart \subseteq Nat
          OBVIOUS
        <4> HIDE DEF Apart
        <4> QED BY <3>1, <4>1, LeastNumber
      <3>3. m \in 1..n /\ f[m] # g[m] /\ m \in 1..n + 1 /\ t[m] = s[m]
        BY <1>1
      <3>4. m # 1 => m - 1 \in 1..n /\ m - 1 \notin Apart
        BY <1>1, <3>2, <3>3
      <3>5. m # 1 => f[m - 1] = g[m - 1]
        BY <3>4
      <3> QED BY <1>3, <2>2, <3>3, <3>5
    <2>4. n \in 1..n /\ n + 1 \in 1..n + 1 /\ n + 1 # 1 /\ (n + 1) - 1 = n
      BY <1>1, <1>5
    <2>5. f[n] = g[n] /\ g[n + 1] = g[n] \o x
      BY <1>1, <1>3, <2>3, <2>4
    <2> QED BY <1>1, <1>2, <2>1, <2>5 DEF t
  <1> QED BY <1>4, <1>5

-----------------------------------------------------------------------------
(* Finite sets in order.                                                   *)

Below(P, R, p) == {q \in P : <<q, p>> \in R}

\* In a finite set that is strictly ordered, there is for every number less than its
\* size one element with so many before it.
LEMMA RankTaken ==
  ASSUME NEW P, IsFiniteSet(P), NEW R,
         \A p \in P : <<p, p>> \notin R,
         \A p, q \in P : p = q \/ <<p, q>> \in R \/ <<q, p>> \in R,
         \A p, q, r \in P : <<p, q>> \in R /\ <<q, r>> \in R => <<p, r>> \in R
  PROVE  /\ \A k \in 1..Cardinality(P) : \E p \in P : Cardinality(Below(P, R, p)) = k - 1
         /\ \A p \in P : Cardinality(Below(P, R, p)) \in 0..Cardinality(P) - 1
         /\ \A p, q \in P : Cardinality(Below(P, R, p)) = Cardinality(Below(P, R, q)) => p = q
  <1> DEFINE n == Cardinality(P)
             rank == [p \in P |-> Cardinality(Below(P, R, p)) + 1]
  <1>1. n \in Nat
    BY FS_CardinalityType
  <1>2. ASSUME NEW p \in P
        PROVE  /\ IsFiniteSet(Below(P, R, p)) /\ Cardinality(Below(P, R, p)) \in Nat
               /\ Cardinality(Below(P, R, p)) < n
    <2>1. Below(P, R, p) \in SUBSET P /\ p \notin Below(P, R, p)
      BY DEF Below
    <2>2. Below(P, R, p) # P
      BY <2>1
    <2>3. /\ IsFiniteSet(Below(P, R, p)) /\ Cardinality(Below(P, R, p)) <= n
          /\ Cardinality(Below(P, R, p)) # n
      BY <2>1, <2>2, FS_Subset
    <2>4. Cardinality(Below(P, R, p)) \in Nat
      BY <2>3, FS_CardinalityType
    <2> QED BY <1>1, <2>3, <2>4
  <1>3. ASSUME NEW p \in P, NEW q \in P, <<p, q>> \in R
        PROVE  Cardinality(Below(P, R, p)) < Cardinality(Below(P, R, q))
    <2>1. Below(P, R, p) \in SUBSET Below(P, R, q)
      BY <1>3 DEF Below
    <2>2. p \in Below(P, R, q) /\ p \notin Below(P, R, p)
      BY <1>3 DEF Below
    <2>3. Below(P, R, p) # Below(P, R, q)
      BY <2>2
    <2>4. /\ Cardinality(Below(P, R, p)) <= Cardinality(Below(P, R, q))
          /\ Cardinality(Below(P, R, p)) # Cardinality(Below(P, R, q))
      BY <1>2, <2>1, <2>3, FS_Subset
    <2> QED BY <1>2, <2>4
  <1>4. \A p \in P : rank[p] = Cardinality(Below(P, R, p)) + 1
    OBVIOUS
  <1>5. rank \in [P -> 1..n]
    BY <1>1, <1>2
  <1>6. \A p, q \in P : Cardinality(Below(P, R, p)) = Cardinality(Below(P, R, q)) => p = q
    <2> TAKE p, q \in P
    <2>1. /\ Cardinality(Below(P, R, p)) \in Nat /\ Cardinality(Below(P, R, q)) \in Nat
          /\ p = q \/ <<p, q>> \in R \/ <<q, p>> \in R
      BY <1>2
    <2> QED BY <1>3, <2>1
  <1>7. \A p, q \in P : rank[p] = rank[q] => p = q
    BY <1>2, <1>4, <1>6
  <1> HIDE DEF rank
  <1>8. rank \in Injection(P, 1..n)
    BY <1>5, <1>7 DEF Injection, IsInjective
  <1>9. IsFiniteSet(1..n) /\ Cardinality(1..n) = n
    BY <1>1, FS_Interval
  <1>10. rank \in Surjection(P, 1..n)
    BY <1>8, <1>9, FS_Injection
  <1>11. ASSUME NEW k \in 1..n PROVE \E p \in P : Cardinality(Below(P, R, p)) = k - 1
    <2>1. PICK p \in P : rank[p] = k
      BY <1>10 DEF Surjection
    <2> QED BY <1>1, <1>2, <1>4, <2>1
  <1> QED BY <1>1, <1>2, <1>6, <1>11

-----------------------------------------------------------------------------
(* Lines and what is remembered of them.                                   *)

\* Lists of more.
LEMMA SeqGrows ==
  ASSUME NEW S, NEW T, S \subseteq T
  PROVE  Seq(S) \subseteq Seq(T)
  <1>1. ASSUME NEW s \in Seq(S) PROVE s \in Seq(T)
    OBVIOUS
  <1> QED BY <1>1

\* What an altered entry is.
LEMMA AlteredIs ==
  ASSUME NEW entry \in Entry
  PROVE  /\ Altered(entry) \in Entry /\ Altered(entry).intact = FALSE
         /\ Altered(entry).hash = entry.hash
         /\ Altered(Altered(entry)) = Altered(entry)
  BY DEF Altered, Entry, Hashes, Stamps, GENESIS_HASH, NoArchive

\* A line is no entry, or one of the hashes that were written; if it is intact, it is
\* the entry that was written with that hash.
LEMMA LineIs ==
  ASSUME NEW past, Remembers(past), NEW line \in LinesFrom(past), line # Junk
  PROVE  /\ line \in Entry /\ line.hash \in DOMAIN past
         /\ line.intact = TRUE => line = past[line.hash].entry
         /\ Altered(line) \in LinesFrom(past)
  <1>1. \A h \in DOMAIN past : past[h].entry \in Entry /\ past[h].entry.hash = h
    BY DEF Remembers
  <1>2. PICK h \in DOMAIN past : line = past[h].entry \/ line = Altered(past[h].entry)
    BY DEF LinesFrom, Written
  <1>3. past[h].entry \in Entry /\ past[h].entry.hash = h
    BY <1>1
  <1> DEFINE entry == past[h].entry
  <1>4. /\ Altered(entry) \in Entry /\ Altered(entry).intact = FALSE
        /\ Altered(entry).hash = entry.hash
        /\ Altered(Altered(entry)) = Altered(entry)
    BY <1>3, AlteredIs
  <1>5. Altered(entry) \in LinesFrom(past)
    BY DEF LinesFrom, Written
  <1> HIDE DEF entry
  <1>6. CASE line = entry
    BY <1>3, <1>4, <1>5, <1>6 DEF entry
  <1>7. CASE line = Altered(entry)
    BY <1>3, <1>4, <1>5, <1>7 DEF entry
  <1> QED BY <1>2, <1>6, <1>7 DEF entry

\* The numbers of what is remembered.
LEMMA PastIs ==
  ASSUME NEW past, Remembers(past)
  PROVE  /\ Len(past) \in Nat /\ DOMAIN past = 1..Len(past) /\ DOMAIN past \subseteq Nat \ {0}
         /\ past \in Seq({past[h] : h \in DOMAIN past})
  <1>1. past \in Seq({past[h] : h \in DOMAIN past})
    BY DEF Remembers
  <1>2. Len(past) \in Nat /\ DOMAIN past = 1..Len(past)
    BY <1>1
  <1> QED BY <1>1, <1>2

\* With more remembered there are more lines that may be in the files.
LEMMA LinesGrow ==
  ASSUME NEW past, NEW more, DOMAIN past \subseteq DOMAIN more,
         \A h \in DOMAIN past : more[h] = past[h]
  PROVE  LinesFrom(past) \subseteq LinesFrom(more)
  <1>1. Written(past) \subseteq Written(more)
    BY DEF Written
  <1> QED BY <1>1 DEF LinesFrom

\* A verified list of lines links at every place.
LEMMA AllLink ==
  ASSUME NEW T, NEW lines \in Seq(T), FirstBroken(lines) = 0
  PROVE  \A i \in 1..Len(lines) : Links(lines, i)
  <1> DEFINE Faulty == {i \in 1..Len(lines) : ~Links(lines, i)}
             broken == {i \in DOMAIN lines : /\ \A k \in 1 .. i - 1 : Links(lines, k)
                                             /\ ~Links(lines, i)}
  <1>1. Len(lines) \in Nat /\ DOMAIN lines = 1..Len(lines)
    OBVIOUS
  <1>2. SUFFICES ASSUME Faulty # {} PROVE FALSE
    OBVIOUS
  <1>3. PICK m \in Faulty : \A i \in Faulty : m <= i
    <2>1. Faulty \subseteq Nat
      BY <1>1
    <2> HIDE DEF Faulty
    <2> QED BY <1>2, <2>1, LeastNumber
  <1>4. m \in 1..Len(lines) /\ ~Links(lines, m)
    OBVIOUS
  <1>5. \A k \in 1..m - 1 : Links(lines, k)
    BY <1>1, <1>3, <1>4
  <1>6. m \in broken
    BY <1>1, <1>4, <1>5
  <1>7. FirstBroken(lines) = CHOOSE i \in broken : TRUE
    BY <1>6 DEF FirstBroken
  <1>8. FirstBroken(lines) \in broken
    <2> HIDE DEF broken
    <2> QED BY <1>6, <1>7
  <1> QED BY <1>1, <1>8

-----------------------------------------------------------------------------
(* Reading the files.                                                      *)

\* The first and the last entry of a file are two of its lines.
LEMMA EntriesAtEnds ==
  ASSUME NEW T, NEW lines \in Seq(T), EntryPlaces(lines) # {}
  PROVE  /\ FirstEntry(lines) \in T /\ FirstEntry(lines) # Junk
         /\ LastEntry(lines) \in T /\ LastEntry(lines) # Junk
  <1> DEFINE Places == EntryPlaces(lines)
             FromEnd == {Len(lines) - i : i \in Places}
  <1>1. /\ Len(lines) \in Nat /\ Places \subseteq 1..Len(lines) /\ Places \subseteq Nat
        /\ \A i \in Places : lines[i] \in T /\ lines[i] # Junk
    BY DEF EntryPlaces
  <1> HIDE DEF Places
  <1>2. \E m \in Places : \A i \in Places : m <= i
    BY <1>1, LeastNumber DEF Places
  <1>3. Min(Places) \in Places
    BY <1>2 DEF Min
  <1>4. FromEnd \subseteq Nat /\ FromEnd # {}
    BY <1>1 DEF Places
  <1>5. PICK m \in FromEnd : \A d \in FromEnd : m <= d
    BY <1>4, LeastNumber
  <1>6. PICK x \in Places : m = Len(lines) - x
    OBVIOUS
  <1>7. \A i \in Places : x >= i
    <2> TAKE i \in Places
    <2>1. Len(lines) - x <= Len(lines) - i
      BY <1>5, <1>6
    <2> QED BY <1>1, <2>1
  <1>8. Max(Places) \in Places
    BY <1>6, <1>7 DEF Max
  <1> QED BY <1>1, <1>3, <1>8 DEF Places, FirstEntry, LastEntry

\* What a file says of its ends has the types of entries.
LEMMA EndsTyped ==
  ASSUME NEW past, Remembers(past), NEW lines \in Seq(LinesFrom(past))
  PROVE  /\ FirstSeq(lines) \in Int
         /\ EntryPlaces(lines) # {} => LastEntry(lines).seq \in Nat
         /\ LastHash(lines) \in Nat /\ HeadOf(lines) \in Int
  <1>1. EntryPlaces(lines) # {} => FirstEntry(lines) \in Entry /\ LastEntry(lines) \in Entry
    BY EntriesAtEnds, LineIs
  <1>2. EntryPlaces(lines) # {} =>
          /\ FirstEntry(lines).seq \in Nat /\ FirstEntry(lines).prev \in Nat
          /\ LastEntry(lines).seq \in Nat /\ LastEntry(lines).hash \in Nat
    BY <1>1 DEF Entry, Hashes, Stamps, GENESIS_HASH, NoArchive
  <1>3. 4 * MaxAppends + MaxStops + MaxFaults \in Int
    BY JournalConstants
  <1> QED BY <1>2, <1>3 DEF FirstSeq, LastHash, HeadOf, GENESIS_HASH, NoHead

\* The order of any archives.
EarlierIn(f, a, b) ==
  \/ FirstSeq(f[a]) < FirstSeq(f[b])
  \/ FirstSeq(f[a]) = FirstSeq(f[b]) /\ a < b
RankIn(f, a) == Cardinality({b \in DOMAIN f : EarlierIn(f, b, a)})
NthIn(f, k) == CHOOSE a \in DOMAIN f : RankIn(f, a) = k - 1
OrderIn(f) == [k \in 1 .. Cardinality(DOMAIN f) |-> NthIn(f, k)]
ArchivedIn(f) == FlattenSeq([i \in DOMAIN OrderIn(f) |-> f[OrderIn(f)[i]]])

LEMMA ArchivesInOrder ==
  ArchiveOrder = OrderIn(archives) /\ Archived = ArchivedIn(archives)
  BY DEF ArchiveOrder, NthArchive, Earlier, Archived, OrderIn, NthIn, RankIn, EarlierIn, ArchivedIn

\* The archives in their order are archives, each at one place.
LEMMA OrderIs ==
  ASSUME NEW past, Remembers(past), NEW f, f \in [DOMAIN f -> Seq(LinesFrom(past))],
         IsFiniteSet(DOMAIN f), DOMAIN f \subseteq Nat
  PROVE  /\ Cardinality(DOMAIN f) \in Nat
         /\ OrderIn(f) \in Seq(DOMAIN f) /\ Len(OrderIn(f)) = Cardinality(DOMAIN f)
         /\ \A k \in 1..Cardinality(DOMAIN f) : /\ OrderIn(f)[k] \in DOMAIN f
                                                /\ RankIn(f, OrderIn(f)[k]) = k - 1
         /\ \A a \in DOMAIN f : RankIn(f, a) \in 0..Cardinality(DOMAIN f) - 1
         /\ \A a, b \in DOMAIN f : RankIn(f, a) = RankIn(f, b) => a = b
  <1> DEFINE P == DOMAIN f
             n == Cardinality(P)
             first == [a \in P |-> FirstSeq(f[a])]
             R == {e \in P \X P : \/ first[e[1]] < first[e[2]]
                                  \/ first[e[1]] = first[e[2]] /\ e[1] < e[2]}
  <1>1. /\ IsFiniteSet(P) /\ P \subseteq Nat
        /\ \A a \in P : f[a] \in Seq(LinesFrom(past))
    OBVIOUS
  <1>2. n \in Nat
    BY <1>1, FS_CardinalityType
  <1>3. \A a \in P : first[a] \in Int
    BY <1>1, EndsTyped
  <1>4. \A a, b \in P : <<b, a>> \in R <=> EarlierIn(f, b, a)
    BY DEF EarlierIn
  <1>5. \A a, b \in P : <<b, a>> \in R <=> \/ first[b] < first[a]
                                           \/ first[b] = first[a] /\ b < a
    OBVIOUS
  <1> HIDE DEF R, first
  <1>6. /\ \A a \in P : <<a, a>> \notin R
        /\ \A a, b \in P : a = b \/ <<a, b>> \in R \/ <<b, a>> \in R
        /\ \A a, b, c \in P : <<a, b>> \in R /\ <<b, c>> \in R => <<a, c>> \in R
    <2>1. \A a \in P : a \in Nat /\ first[a] \in Int
      BY <1>1, <1>3
    <2>2. \A a \in P : <<a, a>> \notin R
      BY <1>5, <2>1
    <2>3. ASSUME NEW a \in P, NEW b \in P PROVE a = b \/ <<a, b>> \in R \/ <<b, a>> \in R
      <3>1. a \in Nat /\ b \in Nat /\ first[a] \in Int /\ first[b] \in Int
        BY <2>1
      <3>2. \/ first[a] < first[b] \/ (first[a] = first[b] /\ a < b)
            \/ first[b] < first[a] \/ (first[b] = first[a] /\ b < a) \/ a = b
        BY <3>1
      <3> QED BY <1>5, <3>2
    <2>4. ASSUME NEW a \in P, NEW b \in P, NEW c \in P, <<a, b>> \in R, <<b, c>> \in R
          PROVE  <<a, c>> \in R
      <3>1. /\ a \in Nat /\ b \in Nat /\ c \in Nat
            /\ first[a] \in Int /\ first[b] \in Int /\ first[c] \in Int
        BY <2>1
      <3>2. /\ first[a] < first[b] \/ (first[a] = first[b] /\ a < b)
            /\ first[b] < first[c] \/ (first[b] = first[c] /\ b < c)
        BY <1>5, <2>4
      <3>3. first[a] < first[c] \/ (first[a] = first[c] /\ a < c)
        BY <3>1, <3>2
      <3> QED BY <1>5, <3>3
    <2> QED BY <2>2, <2>3, <2>4
  <1>7. /\ \A k \in 1..n : \E a \in P : Cardinality(Below(P, R, a)) = k - 1
        /\ \A a \in P : Cardinality(Below(P, R, a)) \in 0..n - 1
        /\ \A a, b \in P : Cardinality(Below(P, R, a)) = Cardinality(Below(P, R, b)) => a = b
    <2> HIDE DEF P
    <2> QED BY <1>1, <1>6, RankTaken
  <1>8. \A a \in P : RankIn(f, a) = Cardinality(Below(P, R, a))
    <2>1. \A a \in P : Below(P, R, a) = {b \in P : EarlierIn(f, b, a)}
      BY <1>4 DEF Below
    <2> QED BY <2>1 DEF RankIn
  <1>9. \A k \in 1..n : NthIn(f, k) \in P /\ RankIn(f, NthIn(f, k)) = k - 1
    <2> TAKE k \in 1..n
    <2>1. \E a \in P : RankIn(f, a) = k - 1
      BY <1>7, <1>8
    <2> QED BY <2>1 DEF NthIn
  <1>10. OrderIn(f) = [k \in 1..n |-> NthIn(f, k)]
    BY DEF OrderIn
  <1> HIDE DEF P, n
  <1>11. OrderIn(f) \in Seq(P) /\ Len(OrderIn(f)) = n
    BY <1>2, <1>9, <1>10
  <1>12. \A k \in 1..n : OrderIn(f)[k] \in P /\ RankIn(f, OrderIn(f)[k]) = k - 1
    BY <1>9, <1>10
  <1>13. \A a, b \in P : RankIn(f, a) = RankIn(f, b) => a = b
    BY <1>7, <1>8
  <1>14. \A a \in P : RankIn(f, a) \in 0..n - 1
    BY <1>7, <1>8
  <1> QED BY <1>2, <1>11, <1>12, <1>13, <1>14 DEF P, n

\* One after the other they are lines.
LEMMA ArchivedTyped ==
  ASSUME NEW past, Remembers(past), NEW f, f \in [DOMAIN f -> Seq(LinesFrom(past))],
         IsFiniteSet(DOMAIN f), DOMAIN f \subseteq Nat
  PROVE  /\ [i \in DOMAIN OrderIn(f) |-> f[OrderIn(f)[i]]] \in Seq(Seq(LinesFrom(past)))
         /\ ArchivedIn(f) \in Seq(LinesFrom(past))
  <1> DEFINE texts == [i \in DOMAIN OrderIn(f) |-> f[OrderIn(f)[i]]]
             L == LinesFrom(past)
             order == OrderIn(f)
  <1>1. order \in Seq(DOMAIN f)
    BY OrderIs
  <1> HIDE DEF L, order
  <1>2. Len(order) \in Nat /\ DOMAIN order = 1..Len(order)
        /\ \A i \in 1..Len(order) : f[order[i]] \in Seq(L)
    BY <1>1 DEF L
  <1>3. [i \in DOMAIN order |-> f[order[i]]] \in Seq(Seq(L))
    BY <1>2
  <1>4. texts \in Seq(Seq(L))
    BY <1>3 DEF order
  <1>5. FlattenSeq(texts) \in Seq(L)
    <2> HIDE DEF texts
    <2> QED BY <1>4, FlattenTyped
  <1> QED BY <1>4, <1>5 DEF ArchivedIn, L

\* What verification walks along, and what a new entry is compared with.
LEMMA ChainTyped ==
  ASSUME JournalIInv
  PROVE  /\ Chain \in Seq(LinesFrom(history)) /\ LogLines \in Seq(LinesFrom(history))
         /\ Archived \in Seq(LinesFrom(history)) /\ Pending \in Seq(LinesFrom(history))
         /\ LinesOf(active) \in Seq(LinesFrom(history))
  <1> DEFINE L == LinesFrom(history)
  <1>2. Archived \in Seq(L)
    <2>1. ArchivedIn(archives) \in Seq(LinesFrom(history))
      BY ArchivedTyped DEF JournalIInv, Holds
    <2> QED BY <2>1, ArchivesInOrder
  <1>3. LinesOf(active) \in Seq(L)
    BY DEF LinesOf, JournalIInv, Holds, TextsOf
  <1>4. Pending \in Seq(L)
    <2> DEFINE linking == {n \in DOMAIN tmps : Linking(n, HeadOf(LinesOf(active)))}
    <2>1. \A n \in DOMAIN tmps : tmps[n] \in Seq(L)
      BY DEF JournalIInv, Holds
    <2>2. linking # {} => (CHOOSE n \in linking : TRUE) \in DOMAIN tmps
      OBVIOUS
    <2> QED BY <2>1, <2>2 DEF Pending
  <1>5. Chain = Archived \o LinesOf(active) /\ LogLines = Archived \o Pending \o LinesOf(active)
    BY DEF Chain, LogLines
  <1> HIDE DEF L
  <1>6. Archived \o Pending \in Seq(L)
    BY <1>2, <1>4
  <1> QED BY <1>2, <1>3, <1>4, <1>5, <1>6 DEF L

-----------------------------------------------------------------------------
(* A verified chain.                                                       *)

\* The hashes of lines that link from the beginning, as far as they do.
HashesUpTo(lines, n) == [k \in 1..n |-> lines[k].hash]

\* They lead from the beginning to the last of them.
LEMMA LinkedLeads ==
  ASSUME NEW past, Remembers(past), NEW lines \in Seq(LinesFrom(past)), NEW n \in 0..Len(lines),
         \A i \in 1..n : Links(lines, i)
  PROVE  /\ HashesUpTo(lines, n) \in Seq(DOMAIN past)
         /\ Leads(PrevIn(past), HashesUpTo(lines, n))
         /\ EndOf(HashesUpTo(lines, n)) = IF n = 0 THEN GENESIS_HASH ELSE lines[n].hash
         /\ \A i \in 1..n : lines[i] = past[lines[i].hash].entry
  <1> DEFINE hashes == HashesUpTo(lines, n)
  <1>1. n \in Nat /\ n <= Len(lines)
    OBVIOUS
  <1>2. ASSUME NEW i \in 1..n
        PROVE  lines[i].hash \in DOMAIN past /\ lines[i] = past[lines[i].hash].entry
    <2>1. lines[i] \in LinesFrom(past)
      BY <1>1
    <2>2. lines[i] # Junk /\ lines[i].intact
      BY DEF Links
    <2>3. lines[i] \in Entry
      BY <2>1, <2>2, LineIs
    <2>4. lines[i].intact = TRUE
      BY <2>2, <2>3 DEF Entry, Hashes, Stamps, GENESIS_HASH, NoArchive
    <2> QED BY <2>1, <2>2, <2>4, LineIs
  <1>3. hashes = [k \in 1..n |-> lines[k].hash]
    BY DEF HashesUpTo
  <1>4. hashes \in Seq(DOMAIN past) /\ Len(hashes) = n /\ DOMAIN hashes = 1..n
    BY <1>1, <1>2, <1>3
  <1>5. \A k \in 1..n : hashes[k] = lines[k].hash
    BY <1>3
  <1>6. ASSUME NEW k \in 1..n
        PROVE  PrevIn(past)[hashes[k]] = IF k = 1 THEN GENESIS_HASH ELSE hashes[k - 1]
    <2>1. PrevIn(past)[hashes[k]] = lines[k].prev
      <3>1. hashes[k] \in DOMAIN past
        BY <1>2, <1>5
      <3>2. PrevIn(past)[hashes[k]] = past[hashes[k]].entry.prev
        BY <3>1 DEF PrevIn
      <3> QED BY <1>2, <1>5, <3>2
    <2>2. lines[k].prev = IF k = 1 THEN GENESIS_HASH ELSE lines[k - 1].hash
      BY DEF Links
    <2>3. k # 1 => hashes[k - 1] = lines[k - 1].hash
      <3>1. k # 1 => k - 1 \in 1..n
        BY <1>1
      <3> QED BY <1>5, <3>1
    <2> QED BY <2>1, <2>2, <2>3
  <1>7. EndOf(hashes) = IF n = 0 THEN GENESIS_HASH ELSE lines[n].hash
    <2>1. hashes = <<>> <=> n = 0
      BY <1>1, <1>4
    <2>2. n # 0 => n \in 1..n
      BY <1>1
    <2> QED BY <1>4, <1>5, <2>1, <2>2 DEF EndOf
  <1> HIDE DEF hashes
  <1>8. Leads(PrevIn(past), hashes)
    BY <1>4, <1>6 DEF Leads
  <1> QED BY <1>2, <1>4, <1>7, <1>8 DEF hashes

\* A journal that verifies is as it was written.
LEMMA VerifiedIsPast ==
  ASSUME JournalIInv PROVE VerifiedIsAsWritten
  <1> DEFINE chain == Chain
  <1>1. chain \in Seq(LinesFrom(history)) /\ Remembers(history)
    BY ChainTyped DEF JournalIInv
  <1>2. SUFFICES ASSUME VerifyChain = "verified"
                 PROVE  \A i \in DOMAIN chain :
                          /\ chain[i] = history[chain[i].hash].entry
                          /\ history[chain[i].hash].log \in {NoLog, HashesUpTo(chain, i - 1)}
    BY DEF VerifiedIsAsWritten, HashesUpTo
  <1>3. FirstBroken(chain) = 0
    BY <1>2 DEF VerifyChain
  <1> HIDE DEF chain
  <1>4. Len(chain) \in Nat /\ DOMAIN chain = 1..Len(chain)
    BY <1>1
  <1>5. \A i \in 1..Len(chain) : Links(chain, i)
    BY <1>1, <1>3, AllLink
  <1>6. DOMAIN history \subseteq Nat \ {0}
    BY <1>1, PastIs
  <1>7. ASSUME NEW i \in 1..Len(chain)
        PROVE  /\ chain[i] = history[chain[i].hash].entry
               /\ history[chain[i].hash].log \in {NoLog, HashesUpTo(chain, i - 1)}
    <2> DEFINE h == chain[i].hash
               before == HashesUpTo(chain, i - 1)
               log == history[h].log
    <2>1. /\ HashesUpTo(chain, i) \in Seq(DOMAIN history)
          /\ \A k \in 1..i : chain[k] = history[chain[k].hash].entry
      <3>1. i \in 0..Len(chain) /\ \A k \in 1..i : Links(chain, k)
        BY <1>4, <1>5
      <3> QED BY <1>1, <3>1, LinkedLeads
    <2>2. i \in 1..i
      BY <1>4
    <2>3. chain[i] = history[h].entry /\ h \in DOMAIN history
      <3>1. HashesUpTo(chain, i)[i] = h /\ Len(HashesUpTo(chain, i)) = i
        BY <1>4, <2>2 DEF HashesUpTo
      <3>2. h \in DOMAIN history
        BY <2>1, <2>2, <3>1
      <3> QED BY <2>1, <2>2, <3>2
    <2>4. /\ before \in Seq(DOMAIN history)
          /\ Leads(PrevIn(history), before)
          /\ EndOf(before) = IF i - 1 = 0 THEN GENESIS_HASH ELSE chain[i - 1].hash
      <3>1. i - 1 \in 0..Len(chain) /\ \A k \in 1..(i - 1) : Links(chain, k)
        BY <1>4, <1>5
      <3> QED BY <1>1, <3>1, LinkedLeads
    <2>5. chain[i].prev = IF i = 1 THEN GENESIS_HASH ELSE chain[i - 1].hash
      BY <1>5 DEF Links
    <2>6. EndOf(before) = chain[i].prev
      BY <1>4, <2>4, <2>5
    <2>7. CASE log # NoLog
      <3> HIDE DEF before
      <3>1. /\ log \in Seq(DOMAIN history) /\ Leads(PrevIn(history), log)
            /\ history[h].entry.prev = EndOf(log)
        BY <1>1, <2>3, <2>7 DEF Remembers
      <3>2. log \in Seq(Nat \ {0}) /\ before \in Seq(Nat \ {0})
        BY <1>6, <2>4, <3>1, SeqGrows
      <3>3. EndOf(log) = EndOf(before)
        BY <2>3, <2>6, <3>1
      <3> HIDE DEF log
      <3>4. log = before
        BY <2>4, <3>1, <3>2, <3>3, SamePast DEF log
      <3> QED BY <2>3, <3>4 DEF log, before
    <2>8. CASE log = NoLog
      BY <2>3, <2>8
    <2> QED BY <2>7, <2>8
  <1> QED BY <1>4, <1>7

-----------------------------------------------------------------------------
(* Steps.  Each is looked at with one set of lines for before and after:   *)
(* those that may be there after it.                                       *)

Usable(L) ==
  /\ Junk \in L
  /\ \A line \in L : line # Junk => Altered(line) \in L
  /\ \A lines \in Seq(L) :
       /\ EntryPlaces(lines) # {} => LastEntry(lines).seq \in Nat
       /\ LastHash(lines) \in Nat /\ HeadOf(lines) \in Int

LEMMA LinesUsable ==
  ASSUME NEW past, Remembers(past)
  PROVE  Usable(LinesFrom(past))
  <1>1. Junk \in LinesFrom(past)
    BY DEF LinesFrom
  <1>2. \A line \in LinesFrom(past) : line # Junk => Altered(line) \in LinesFrom(past)
    BY LineIs
  <1> QED BY <1>1, <1>2, EndsTyped DEF Usable

\* What is held stays so when more may be.
LEMMA HoldsMore ==
  ASSUME NEW L, NEW M, L \subseteq M, Holds(L)
  PROVE  Holds(M)
  <1>1. Seq(L) \subseteq Seq(M)
    BY SeqGrows
  <1>2. TextsOf(L) \subseteq TextsOf(M)
    BY <1>1 DEF TextsOf
  <1>3. StatesOf(L) \subseteq StatesOf(M)
    BY <1>2 DEF StatesOf
  <1>4. JobsOf(L) \subseteq JobsOf(M)
    BY <1>1 DEF JobsOf
  <1>5. /\ archives \in [DOMAIN archives -> Seq(M)]
        /\ tmps \in [DOMAIN tmps -> Seq(M)]
        /\ st \in [Writers -> {NoState} \cup StatesOf(M)]
        /\ job \in [Writers -> JobsOf(M)]
    BY <1>1, <1>3, <1>4 DEF Holds
  <1> QED BY <1>2, <1>3, <1>5 DEF Holds

\* Changing a text.
LEMMA TextsChange ==
  ASSUME NEW L, Usable(L), NEW text, text # NoFile => text \in TextsOf(L),
         NEW line \in L, NEW newline \in BOOLEAN
  PROVE  /\ LinesOf(text) \in Seq(L)
         /\ Appended(text, line, newline) \in TextsOf(L)
         /\ LineFinished(text) \in TextsOf(L)
  <1> DEFINE lines == LinesOf(text)
  <1>1. lines \in Seq(L) /\ (text # NoFile => text.lines = lines /\ text.newline \in BOOLEAN)
    BY DEF LinesOf, TextsOf
  <1>2. \A l \in L, b \in BOOLEAN : Appended(text, l, b) \in TextsOf(L)
    <2> TAKE l \in L, b \in BOOLEAN
    <2>1. Append(lines, l) \in Seq(L)
      BY <1>1
    <2>2. lines # <<>> => [lines EXCEPT ![Len(lines)] = Junk] \in Seq(L)
      BY <1>1 DEF Usable
    <2> HIDE DEF lines
    <2> QED BY <2>1, <2>2 DEF Appended, TextsOf, lines
  <1>3. LineFinished(text) \in TextsOf(L)
    <2>1. CASE lines # <<>> /\ ~text.newline
      <3>1. text # NoFile
        BY <2>1 DEF LinesOf
      <3>2. text \in TextsOf(L)
        BY <3>1
      <3>3. [text EXCEPT !.newline = TRUE] \in TextsOf(L)
        BY <3>2 DEF TextsOf
      <3> QED BY <2>1, <3>3 DEF LineFinished
    <2>2. CASE ~(lines # <<>> /\ ~text.newline)
      BY <1>2, <2>2 DEF LineFinished, Usable
    <2> QED BY <2>1, <2>2
  <1> QED BY <1>1, <1>2, <1>3

LEMMA TruncatedIs ==
  ASSUME NEW L, NEW text \in TextsOf(L), NEW keep \in Int, keep <= Len(text.lines)
  PROVE  Truncated(text, keep) \in TextsOf(L)
  <1>1. text.lines \in Seq(L)
    BY DEF TextsOf
  <1>2. SubSeq(text.lines, 1, keep) \in Seq(L)
    BY <1>1, SubSeqProperties
  <1> QED BY <1>2 DEF Truncated, TextsOf

\* Changing what a window remembers of its append.
LEMMA JobsChange ==
  ASSUME NEW L, NEW locals \in JobsOf(L)
  PROVE  /\ \A head \in Int : [locals EXCEPT !.head = head] \in JobsOf(L)
         /\ \A todo \in SUBSET Nat : [locals EXCEPT !.todo = todo] \in JobsOf(L)
         /\ \A older, newer \in Seq(L), stamp \in Nat :
               [locals EXCEPT !.older = older, !.newer = newer, !.stamp = stamp] \in JobsOf(L)
         /\ NoJob \in JobsOf(L)
  <1>1. NoJob \in JobsOf(L)
    <2>1. NoHead \in Int /\ NoArchive \in Nat /\ <<>> \in Seq(L)
      BY DEF NoHead, NoArchive
    <2> QED BY <2>1 DEF NoJob, JobsOf
  <1>2. locals.head \in Int
    BY DEF JobsOf
  <1> QED BY <1>1, <1>2 DEF JobsOf

\* A window goes on with the text as it is, or as it makes it.
LEMMA LoadingKeeps ==
  ASSUME NEW L, Usable(L), Holds(L), NEW w \in Writers,
         \/ Start(w) \/ StatMissing(w) \/ StatKnown(w) \/ StatAndRead(w)
         \/ TrimTail(w) \/ FinishLine(w) \/ Readdir(w)
  PROVE  Holds(L)'
  <1> USE DEF Holds
  <1>1. st[w] # NoState => /\ st[w] \in StatesOf(L) /\ st[w].seen \in TextsOf(L)
                           /\ st[w].seen.lines \in Seq(L) /\ st[w].lines \in Int
    BY DEF StatesOf, TextsOf
  <1>2. job[w] \in JobsOf(L)
    OBVIOUS
  <1>3. CASE Start(w)
    BY <1>3 DEF Start, Goto, files, ghosts, Calls
  <1>4. CASE StatMissing(w)
    <2>1. Genesis \in StatesOf(L)
      <3>1. <<>> \in Seq(L)
        OBVIOUS
      <3> QED BY <3>1 DEF Genesis, StatesOf, TextsOf, EmptyText, GENESIS_HASH
    <2>2. [job[w] EXCEPT !.head = NoHead] \in JobsOf(L)
      <3>1. NoHead \in Int
        BY DEF NoHead
      <3> QED BY <1>2, <3>1, JobsChange
    <2>3. job' \in [Writers -> JobsOf(L)]
      BY <1>4, <2>2 DEF StatMissing
    <2>4. st' = [st EXCEPT ![w] = Genesis] /\ pc' = [pc EXCEPT ![w] = "readdir"]
      BY <1>4 DEF StatMissing, Goto
    <2>5. UNCHANGED <<active, archives, tmps, stamped>>
      BY <1>4 DEF StatMissing, files
    <2> QED BY <2>1, <2>3, <2>4, <2>5 DEF Calls
  <1>5. CASE StatKnown(w)
    BY <1>1, <1>5 DEF StatKnown, UpToDate, Goto, files, ghosts, Calls
  <1>6. CASE StatAndRead(w)
    <2> DEFINE lines == active.lines
               state == [seq |-> IF EntryPlaces(lines) = {} THEN 0 ELSE LastEntry(lines).seq,
                         hash |-> LastHash(lines), lines |-> Len(lines), seen |-> active]
    <2>1. active \in TextsOf(L) /\ lines \in Seq(L) /\ Len(lines) \in Nat
      <3>1. active \in TextsOf(L)
        BY <1>6 DEF StatAndRead
      <3>2. active.lines \in Seq(L)
        BY <3>1 DEF TextsOf
      <3> QED BY <3>1, <3>2, LenProperties
    <2>2. state \in StatesOf(L) /\ state.lines = Len(state.seen.lines)
      BY <2>1 DEF StatesOf, Usable
    <2>3. [job[w] EXCEPT !.head = HeadOf(lines)] \in JobsOf(L)
      <3>1. HeadOf(lines) \in Int
        BY <2>1 DEF Usable
      <3> QED BY <1>2, <3>1, JobsChange
    <2>4. st' = [st EXCEPT ![w] = state] /\ UNCHANGED <<active, archives, tmps, stamped>>
      BY <1>6 DEF StatAndRead, files
    <2>5. job' \in [Writers -> JobsOf(L)]
      BY <1>6, <2>3 DEF StatAndRead
    <2>6. \E step \in {"readdir", "trim", "finish line"} :
            pc' = [pc EXCEPT ![w] = step] /\ (step = "trim" => lines # <<>>)
      BY <1>6 DEF StatAndRead, Goto
    <2>7. lines # <<>> => state.lines # 0
      BY <2>1
    <2> HIDE DEF state, lines
    <2> QED BY <2>2, <2>4, <2>5, <2>6, <2>7 DEF Calls
  <1>7. CASE TrimTail(w)
    <2> DEFINE keep == st[w].lines - 1
    <2>1. /\ pc[w] = "trim" /\ active # NoFile
          /\ st[w] \in StatesOf(L) /\ st[w].lines = Len(st[w].seen.lines)
          /\ st[w].seen \in TextsOf(L) /\ st[w].lines \in Nat \ {0}
      BY <1>7 DEF TrimTail, StatesOf
    <2>2. keep \in Nat /\ keep <= Len(st[w].seen.lines)
      BY <2>1
    <2>3. Truncated(st[w].seen, keep) \in TextsOf(L)
      BY <2>1, <2>2, TruncatedIs
    <2>4. active' \in TextsOf(L)
      <3>1. active \in TextsOf(L)
        BY <2>1
      <3>2. keep <= Len(active.lines) => Truncated(active, keep) \in TextsOf(L)
        BY <2>2, <3>1, TruncatedIs
      <3>3. Appended(active, Junk, FALSE) \in TextsOf(L)
        BY <3>1, TextsChange DEF Usable
      <3> QED BY <1>7, <3>2, <3>3 DEF TrimTail
    <2>5. [st[w] EXCEPT !.lines = keep, !.seen = Truncated(st[w].seen, keep)] \in StatesOf(L)
      BY <2>1, <2>2, <2>3 DEF StatesOf
    <2> DEFINE state == [st[w] EXCEPT !.lines = keep, !.seen = Truncated(st[w].seen, keep)]
    <2>6. st' = [st EXCEPT ![w] = state]
      BY <1>7 DEF TrimTail
    <2>7. pc' = [pc EXCEPT ![w] = "repair"] /\ UNCHANGED <<archives, tmps, job, stamped>>
      BY <1>7 DEF TrimTail, Goto
    <2>8. state \in StatesOf(L)
      BY <2>5
    <2> HIDE DEF state
    <2> QED BY <2>4, <2>6, <2>7, <2>8 DEF Calls
  <1>8. CASE FinishLine(w)
    <2> DEFINE state == [st[w] EXCEPT !.seen = LineFinished(st[w].seen)]
    <2>1. pc[w] = "finish line" /\ st[w] \in StatesOf(L) /\ st[w].seen \in TextsOf(L)
      BY <1>8 DEF FinishLine, StatesOf
    <2>2. LineFinished(st[w].seen) \in TextsOf(L) /\ LineFinished(active) \in TextsOf(L)
      BY <2>1, TextsChange DEF Usable
    <2>3. state \in StatesOf(L)
      BY <2>1, <2>2 DEF StatesOf
    <2>4. st' = [st EXCEPT ![w] = state] /\ active' = LineFinished(active)
      BY <1>8 DEF FinishLine
    <2>5. pc' = [pc EXCEPT ![w] = "readdir"] /\ UNCHANGED <<archives, tmps, job, stamped>>
      BY <1>8 DEF FinishLine, Goto
    <2> HIDE DEF state
    <2> QED BY <2>2, <2>3, <2>4, <2>5 DEF Calls
  <1>9. CASE Readdir(w)
    <2>1. [job[w] EXCEPT !.todo = DOMAIN tmps] \in JobsOf(L)
      BY <1>2 DEF JobsOf
    <2>2. job' \in [Writers -> JobsOf(L)]
      BY <1>9, <2>1 DEF Readdir
    <2>3. /\ pc[w] = "readdir" /\ UNCHANGED <<active, archives, tmps, st, stamped>>
          /\ \E step \in {"write", "recover"} : pc' = [pc EXCEPT ![w] = step]
      BY <1>9 DEF Readdir, Goto, files
    <2> QED BY <2>2, <2>3 DEF Calls
  <1> QED BY <1>3, <1>4, <1>5, <1>6, <1>7, <1>8, <1>9

\* Adding a file, and taking one away.
LEMMA FilesChange ==
  ASSUME NEW S, NEW f, f \in [DOMAIN f -> S], DOMAIN f \subseteq Nat, NEW n \in Nat, NEW value \in S
  PROVE  /\ Removed(f, n) \in [DOMAIN Removed(f, n) -> S]
         /\ DOMAIN Removed(f, n) \subseteq Nat
         /\ With(f, n, value) \in [DOMAIN With(f, n, value) -> S]
         /\ DOMAIN With(f, n, value) \subseteq Nat
         /\ IsFiniteSet(DOMAIN f) => /\ IsFiniteSet(DOMAIN Removed(f, n))
                                     /\ IsFiniteSet(DOMAIN With(f, n, value))
  <1>1. Removed(f, n) \in [DOMAIN f \ {n} -> S]
    BY DEF Removed
  <1>2. With(f, n, value) \in [DOMAIN f \cup {n} -> S]
    BY DEF With
  <1>3. DOMAIN Removed(f, n) = DOMAIN f \ {n} /\ DOMAIN With(f, n, value) = DOMAIN f \cup {n}
    BY DEF Removed, With
  <1>4. IsFiniteSet(DOMAIN f) => IsFiniteSet(DOMAIN f \ {n}) /\ IsFiniteSet(DOMAIN f \cup {n})
    BY FS_AddElement, FS_RemoveElement
  <1> QED BY <1>1, <1>2, <1>3, <1>4

\* What a recovery finishes was in the temporary file.
LEMMA RecoveringKeeps ==
  ASSUME NEW L, Usable(L), Holds(L), NEW w \in Writers, NEW n \in job[w].todo,
         CompleteRotation(w, n) \/ Discard(w, n) \/ RecoveryFails(w, n)
  PROVE  Holds(L)'
  <1>1. /\ Recovered(w, n)
        /\ n \in Nat /\ job[w] \in JobsOf(L) /\ job[w].todo \in SUBSET Nat
    <2>1. job[w] \in JobsOf(L)
      BY DEF Holds
    <2> QED BY <2>1 DEF JobsOf, CompleteRotation, Discard, RecoveryFails
  <1>2. job' \in [Writers -> JobsOf(L)]
    <2>1. job[w].todo \ {n} \in SUBSET Nat
      BY <1>1
    <2>2. [job[w] EXCEPT !.todo = job[w].todo \ {n}] \in JobsOf(L)
      BY <1>1, <2>1, JobsChange
    <2> QED BY <1>1, <2>2 DEF Recovered, Holds
  <1>3. /\ pc[w] = "recover" /\ UNCHANGED <<active, st, stamped>>
        /\ \E step \in {"write", "recover"} : pc' = [pc EXCEPT ![w] = step]
    BY <1>1 DEF Recovered, Goto
  <1>4. /\ pc' \in [Writers -> Calls]
        /\ \A v \in Writers : pc'[v] \notin {"idle", "stat"} => st[v] \in StatesOf(L)
        /\ \A v \in Writers : pc'[v] = "trim" => st[v].lines = Len(st[v].seen.lines) /\ st[v].lines # 0
    BY <1>3 DEF Calls, Holds
  <1>5. /\ tmps' \in [DOMAIN tmps' -> Seq(L)] /\ DOMAIN tmps' \subseteq Nat
        /\ archives' \in [DOMAIN archives' -> Seq(L)] /\ DOMAIN archives' \subseteq Nat
        /\ IsFiniteSet(DOMAIN archives')
    <2>1. CASE CompleteRotation(w, n)
      <3>1. /\ tmps[n] \in Seq(L)
            /\ tmps' = Removed(tmps, n) /\ archives' = With(archives, n, tmps[n])
        BY <2>1 DEF CompleteRotation, Holds
      <3> QED BY <1>1, <3>1, FilesChange DEF Holds
    <2>2. CASE Discard(w, n)
      <3>1. tmps' = Removed(tmps, n) /\ archives' = archives /\ <<>> \in Seq(L)
        BY <2>2 DEF Discard
      <3> QED BY <1>1, <3>1, FilesChange DEF Holds
    <2>3. CASE RecoveryFails(w, n)
      BY <2>3 DEF RecoveryFails, Holds
    <2> QED BY <2>1, <2>2, <2>3
  <1> QED BY <1>2, <1>3, <1>4, <1>5 DEF Holds

\* A rotation writes what the file held.
LEMMA RotatingKeeps ==
  ASSUME NEW L, Usable(L), Holds(L), NEW w \in Writers,
         Rotate(w) \/ WriteArchive(w) \/ WriteActive(w) \/ Swap(w) \/ Commit(w)
  PROVE  Holds(L)'
  <1>1. /\ job[w] \in JobsOf(L) /\ NoJob \in JobsOf(L)
        /\ job[w].older \in Seq(L) /\ job[w].newer \in Seq(L) /\ job[w].stamp \in Nat
    <2>1. job[w] \in JobsOf(L)
      BY DEF Holds
    <2> QED BY <2>1, JobsChange DEF JobsOf
  <1>2. CASE Rotate(w)
    <2> DEFINE lines == active.lines
               half == Len(lines) \div 2
               older == SubSeq(lines, 1, half)
               newer == SubSeq(lines, half + 1, Len(lines))
    <2>1. lines \in Seq(L) /\ Len(lines) \in Nat
      <3>1. active \in TextsOf(L)
        BY <1>2 DEF Rotate, Holds
      <3>2. active.lines \in Seq(L)
        BY <3>1 DEF TextsOf
      <3> QED BY <3>2, LenProperties
    <2>2. older \in Seq(L) /\ newer \in Seq(L)
      <3>1. half \in Int /\ half + 1 \in 1..(Len(lines) + 1) /\ half <= Len(lines)
        <4>1. \A n \in Nat : n \div 2 \in Int /\ 0 <= n \div 2 /\ n \div 2 <= n
          OBVIOUS
        <4> HIDE DEF lines
        <4> QED BY <2>1, <4>1
      <3> HIDE DEF half, lines
      <3> QED BY <2>1, <3>1, SubSeqProperties
    <2>3. stamped \in Nat /\ stamped + 1 \in Nat
      BY DEF Holds
    <2>4. [job[w] EXCEPT !.older = older, !.newer = newer, !.stamp = stamped + 1] \in JobsOf(L)
      <3> HIDE DEF older, newer
      <3> QED BY <1>1, <2>2, <2>3, JobsChange
    <2>5. /\ pc[w] = "rotate" /\ UNCHANGED <<active, archives, tmps, st>>
          /\ \/ stamped' = stamped
             \/ stamped' = stamped + 1
          /\ \E step \in {"idle", "write archive"} : pc' = [pc EXCEPT ![w] = step]
      BY <1>2 DEF Rotate, Return, Goto, files
    <2>6. job' \in [Writers -> JobsOf(L)]
      BY <1>1, <1>2, <2>4 DEF Rotate, Return, Holds
    <2> HIDE DEF older, newer, half, lines
    <2> QED BY <2>3, <2>5, <2>6 DEF Holds, Calls
  <1>3. CASE WriteArchive(w) \/ WriteActive(w)
    <2>1. PICK name \in Nat, lines \in Seq(L), step \in {"write archive", "write active"}, next \in {"write active", "swap"} :
            WriteTmp(w, step, name, lines, next)
      BY <1>1, <1>3 DEF WriteArchive, WriteActive, Active
    <2>2. /\ pc[w] = step /\ UNCHANGED <<active, archives, st, job, stamped>>
          /\ pc' = [pc EXCEPT ![w] = next] /\ tmps' = With(tmps, name, lines)
      BY <2>1 DEF WriteTmp, Goto
    <2>3. tmps' \in [DOMAIN tmps' -> Seq(L)] /\ DOMAIN tmps' \subseteq Nat
      BY <2>2, FilesChange DEF Holds
    <2> QED BY <2>2, <2>3 DEF Holds, Calls
  <1>4. CASE Swap(w)
    <2>1. /\ pc[w] = "swap" /\ tmps[Active] \in Seq(L) /\ Active \in Nat
          /\ active' = [lines |-> tmps[Active], newline |-> TRUE]
          /\ tmps' = Removed(tmps, Active) /\ UNCHANGED <<archives, st, job, stamped>>
          /\ pc' = [pc EXCEPT ![w] = "commit"]
      BY <1>4 DEF Swap, Goto, Holds, Active
    <2>2. tmps' \in [DOMAIN tmps' -> Seq(L)] /\ DOMAIN tmps' \subseteq Nat
      BY <2>1, FilesChange DEF Holds
    <2>3. active' \in TextsOf(L)
      BY <2>1 DEF TextsOf
    <2> QED BY <2>1, <2>2, <2>3 DEF Holds, Calls
  <1>5. CASE Commit(w)
    <2> DEFINE stamp == job[w].stamp
               state == [st[w] EXCEPT !.lines = Len(job[w].newer),
                                      !.seen = [lines |-> job[w].newer, newline |-> TRUE]]
    <2>1. /\ pc[w] = "commit" /\ tmps[stamp] \in Seq(L)
          /\ tmps' = Removed(tmps, stamp) /\ archives' = With(archives, stamp, tmps[stamp])
          /\ UNCHANGED <<active, job, stamped>>
          /\ pc' = [pc EXCEPT ![w] = "note"]
          /\ st' = [st EXCEPT ![w] = state]
      BY <1>5 DEF Commit, Goto, Holds
    <2>2. /\ tmps' \in [DOMAIN tmps' -> Seq(L)] /\ DOMAIN tmps' \subseteq Nat
          /\ archives' \in [DOMAIN archives' -> Seq(L)] /\ DOMAIN archives' \subseteq Nat
          /\ IsFiniteSet(DOMAIN archives')
      BY <1>1, <2>1, FilesChange DEF Holds
    <2>3. state \in StatesOf(L)
      <3>1. st[w] \in StatesOf(L)
        BY <2>1 DEF Holds
      <3>2. [lines |-> job[w].newer, newline |-> TRUE] \in TextsOf(L) /\ Len(job[w].newer) \in Nat
        BY <1>1 DEF TextsOf
      <3> QED BY <3>1, <3>2 DEF StatesOf
    <2> HIDE DEF state
    <2> QED BY <2>1, <2>2, <2>3 DEF Holds, Calls
  <1> QED BY <1>2, <1>3, <1>4, <1>5

\* An append that is given up leaves files and nothing else.
LEMMA ForgettingKeeps ==
  ASSUME NEW L, Holds(L), NEW w \in Writers, Forget(w),
         active' # NoFile => active' \in TextsOf(L),
         archives' = archives,
         tmps' \in [DOMAIN tmps' -> Seq(L)], DOMAIN tmps' \subseteq Nat
  PROVE  Holds(L)'
  <1>1. NoJob \in JobsOf(L)
    <2>1. job[w] \in JobsOf(L)
      BY DEF Holds
    <2> QED BY <2>1, JobsChange
  <1>2. /\ st' = [st EXCEPT ![w] = NoState] /\ job' = [job EXCEPT ![w] = NoJob]
        /\ pc' = [pc EXCEPT ![w] = "idle"] /\ stamped' = stamped
    BY DEF Forget, Return, Goto
  <1> QED BY <1>1, <1>2 DEF Holds, Calls

\* A window whose file is gone forgets what it knew of it.
LEMMA FileGoneKeeps ==
  ASSUME NEW L, Holds(L), NEW w \in Writers, FileGone(w)
  PROVE  Holds(L)'
  <1>1. Forget(w) /\ UNCHANGED <<active, archives, tmps>>
    BY DEF FileGone, files
  <1> QED BY <1>1, ForgettingKeeps DEF Holds

\* A line that is changed, spoilt, taken out or moved is still such a line.
LEMMA RevisionsAre ==
  ASSUME NEW L, Usable(L), NEW lines \in Seq(L), NEW r \in Revisions(lines)
  PROVE  r.lines \in Seq(L)
  <1>1. /\ Len(lines) \in Nat /\ DOMAIN lines = 1..Len(lines)
        /\ \A i \in DOMAIN lines : lines[i] \in L
    OBVIOUS
  <1>2. \A i \in DOMAIN lines, line \in L : [lines EXCEPT ![i] = line] \in Seq(L)
    OBVIOUS
  <1>3. ASSUME NEW i \in DOMAIN lines, lines[i] # Junk,
               r = [kind |-> "alter", lines |-> [lines EXCEPT ![i] = [lines[i] EXCEPT !.intact = FALSE]]]
        PROVE  r.lines \in Seq(L)
    BY <1>1, <1>2, <1>3 DEF Usable, Altered
  <1>4. ASSUME NEW i \in DOMAIN lines, r = [kind |-> "damage", lines |-> [lines EXCEPT ![i] = Junk]]
        PROVE  r.lines \in Seq(L)
    BY <1>2, <1>4 DEF Usable
  <1>5. ASSUME NEW i \in DOMAIN lines, r = [kind |-> "remove", lines |-> RemoveAt(lines, i)]
        PROVE  r.lines \in Seq(L)
    <2>1. SubSeq(lines, 1, i - 1) \in Seq(L) /\ SubSeq(lines, i + 1, Len(lines)) \in Seq(L)
      <3>1. /\ i - 1 \in Int /\ i - 1 <= Len(lines)
            /\ i + 1 \in 1..(Len(lines) + 1)
        BY <1>1
      <3> QED BY <1>1, <3>1, SubSeqProperties
    <2>2. RemoveAt(lines, i) \in Seq(L)
      BY <2>1 DEF RemoveAt
    <2> QED BY <1>5, <2>2
  <1>6. ASSUME NEW i \in DOMAIN lines \ {Len(lines)},
               r = [kind |-> "reorder", lines |-> [lines EXCEPT ![i] = lines[i + 1], ![i + 1] = lines[i]]]
        PROVE  r.lines \in Seq(L)
    <2>1. i + 1 \in DOMAIN lines /\ i \in DOMAIN lines
      BY <1>1
    <2>2. [lines EXCEPT ![i] = lines[i + 1], ![i + 1] = lines[i]] \in Seq(L)
      BY <1>1, <2>1
    <2> QED BY <1>6, <2>2
  <1> QED BY <1>3, <1>4, <1>5, <1>6 DEF Revisions

\* What people do to the files brings in no line that was never written.
LEMMA HandEditsKeep ==
  ASSUME NEW L, Usable(L), Holds(L), HandEdit
  PROVE  Holds(L)' /\ history' = history
  <1>1. ASSUME NEW kind, Edited(kind) PROVE UNCHANGED <<tmps, st, pc, job, stamped, history>>
    BY <1>1 DEF Edited, ghosts
  <1>2. CASE EditJournal
    <2>1. PICK r \in Revisions(active.lines) :
             Edited(r.kind) /\ active' = [active EXCEPT !.lines = r.lines]
      BY <1>2 DEF EditJournal
    <2>2. active \in TextsOf(L) /\ archives' = archives
      BY <1>2 DEF EditJournal, Holds
    <2>3. r.lines \in Seq(L)
      <3>1. active.lines \in Seq(L)
        BY <2>2 DEF TextsOf
      <3> QED BY <3>1, RevisionsAre
    <2>4. active' \in TextsOf(L)
      BY <2>1, <2>2, <2>3 DEF TextsOf
    <2>5. UNCHANGED <<tmps, st, pc, job, stamped, history>>
      BY <1>1, <2>1
    <2> QED BY <2>2, <2>4, <2>5 DEF Holds
  <1>3. CASE EditArchive
    <2>1. PICK n \in DOMAIN archives : \E r \in Revisions(archives[n]) :
             Edited(r.kind) /\ archives' = [archives EXCEPT ![n] = r.lines]
      BY <1>3 DEF EditArchive
    <2>2. PICK r \in Revisions(archives[n]) :
             Edited(r.kind) /\ archives' = [archives EXCEPT ![n] = r.lines]
      BY <2>1
    <2>3. archives[n] \in Seq(L) /\ active' = active
      BY <1>3 DEF EditArchive, Holds
    <2>4. r.lines \in Seq(L)
      BY <2>3, RevisionsAre
    <2>5. archives' \in [DOMAIN archives -> Seq(L)] /\ DOMAIN archives' = DOMAIN archives
      BY <2>2, <2>4 DEF Holds
    <2>6. UNCHANGED <<tmps, st, pc, job, stamped, history>>
      BY <1>1, <2>2
    <2> QED BY <2>3, <2>5, <2>6 DEF Holds
  <1>4. CASE SetAside \/ DeleteJournal
    <2>1. \E kind : Edited(kind)
      BY <1>4 DEF SetAside, DeleteJournal
    <2>2. active' = NoFile /\ archives' = archives
      BY <1>4 DEF SetAside, DeleteJournal
    <2>3. UNCHANGED <<tmps, st, pc, job, stamped, history>>
      BY <1>1, <2>1
    <2> QED BY <2>2, <2>3 DEF Holds
  <1>5. CASE LoseArchive
    <2>1. PICK n \in DOMAIN archives : archives' = Removed(archives, n)
      BY <1>5 DEF LoseArchive
    <2>2. UNCHANGED <<tmps, st, pc, job, stamped, history>> /\ active' = active
      BY <1>1, <1>5 DEF LoseArchive
    <2>3. /\ archives' \in [DOMAIN archives' -> Seq(L)] /\ DOMAIN archives' \subseteq Nat
          /\ IsFiniteSet(DOMAIN archives')
      <3>1. n \in Nat /\ <<>> \in Seq(L)
        BY DEF Holds
      <3> QED BY <2>1, <3>1, FilesChange DEF Holds
    <2> QED BY <2>2, <2>3 DEF Holds
  <1> QED BY <1>2, <1>3, <1>4, <1>5 DEF HandEdit

-----------------------------------------------------------------------------
(* Writing an entry.                                                       *)

\* What is remembered of an entry: if the log and the entry make one chain, the log
\* leads to the entry.
LEMMA VouchedIs ==
  ASSUME JournalIInv, NEW entry, Vouched(entry) # NoLog
  PROVE  /\ Vouched(entry) \in Seq(DOMAIN history)
         /\ Leads(PrevIn(history), Vouched(entry))
         /\ entry.prev = EndOf(Vouched(entry))
  <1> DEFINE lines == LogLines
             n == Len(lines)
             longer == Append(lines, entry)
             T == LinesFrom(history) \cup {entry}
  <1>1. /\ lines \in Seq(LinesFrom(history)) /\ Remembers(history)
        /\ n \in Nat /\ DOMAIN lines = 1..n
    BY ChainTyped DEF JournalIInv
  <1>2. FirstBroken(longer) = 0 /\ Vouched(entry) = [i \in DOMAIN lines |-> lines[i].hash]
    BY DEF Vouched
  <1>3. Vouched(entry) = HashesUpTo(lines, n)
    BY <1>1, <1>2 DEF HashesUpTo
  <1> HIDE DEF lines, T
  <1>4. longer \in Seq(T) /\ Len(longer) = n + 1
    <2>1. lines \in Seq(T) /\ entry \in T
      BY <1>1, SeqGrows DEF T
    <2> QED BY <2>1
  <1>5. /\ \A i \in 1..n : longer[i] = lines[i]
        /\ longer[n + 1] = entry
    BY <1>1
  <1> HIDE DEF longer, n
  <1>6. \A i \in 1..(n + 1) : Links(longer, i)
    BY <1>2, <1>4, AllLink
  <1>7. \A i \in 1..n : Links(lines, i)
    <2> TAKE i \in 1..n
    <2>1. Links(longer, i) /\ longer[i] = lines[i]
      BY <1>1, <1>5, <1>6
    <2>2. i # 1 => longer[i - 1] = lines[i - 1]
      <3>1. i # 1 => i - 1 \in 1..n
        BY <1>1
      <3> QED BY <1>5, <3>1
    <2> QED BY <2>1, <2>2 DEF Links
  <1>8. entry.prev = IF n = 0 THEN GENESIS_HASH ELSE lines[n].hash
    <2>1. Links(longer, n + 1) /\ (n + 1) - 1 = n /\ (n + 1 = 1 <=> n = 0)
      BY <1>1, <1>6
    <2>2. n # 0 => longer[n] = lines[n]
      BY <1>1, <1>5
    <2> QED BY <1>5, <2>1, <2>2 DEF Links
  <1>9. n \in 0..Len(lines)
    BY <1>1 DEF n
  <1> QED BY <1>1, <1>3, <1>7, <1>8, <1>9, LinkedLeads

\* A new entry is remembered behind the others.
LEMMA Remembering ==
  ASSUME JournalIInv, NEW entry \in Entry, entry.hash = Len(history) + 1, entry.intact = TRUE
  PROVE  /\ Remembers(Remembered(entry))
         /\ LinesFrom(history) \subseteq LinesFrom(Remembered(entry))
         /\ entry \in LinesFrom(Remembered(entry))
  <1> DEFINE n == Len(history)
             record == [entry |-> entry, log |-> Vouched(entry)]
             more == Append(history, record)
  <1>1. /\ Remembers(history) /\ n \in Nat /\ DOMAIN history = 1..n
        /\ history \in Seq({history[h] : h \in DOMAIN history})
    BY PastIs DEF JournalIInv
  <1>2. Remembered(entry) = more
    BY DEF Remembered
  <1>3. /\ record.entry = entry /\ record.log = Vouched(entry)
    OBVIOUS
  <1> HIDE DEF record
  <1>4. /\ DOMAIN more = 1..(n + 1) /\ more[n + 1] = record
        /\ \A h \in DOMAIN history : more[h] = history[h]
        /\ DOMAIN history \subseteq DOMAIN more /\ n + 1 \in DOMAIN more
    BY <1>1
  <1>5. more \in Seq({more[h] : h \in DOMAIN more})
    <2>1. Len(more) = n + 1 /\ DOMAIN more = 1..Len(more)
      BY <1>1
    <2>2. \A h \in 1..Len(more) : more[h] \in {more[k] : k \in DOMAIN more}
      BY <2>1
    <2>3. more \in Seq({history[h] : h \in DOMAIN history} \cup {record})
      <3>1. history \in Seq({history[h] : h \in DOMAIN history} \cup {record})
        BY <1>1, SeqGrows
      <3> QED BY <3>1
    <2> HIDE DEF more, n
    <2> QED BY <2>1, <2>2, <2>3
  <1>6. \A h \in DOMAIN more : h = n + 1 \/ h \in DOMAIN history
    BY <1>1, <1>4
  <1> HIDE DEF more, n
  <1>7. ASSUME NEW log \in Seq(DOMAIN history), Leads(PrevIn(history), log)
        PROVE  log \in Seq(DOMAIN more) /\ Leads(PrevIn(more), log)
    <2>1. log \in Seq(DOMAIN more)
      BY <1>4, SeqGrows
    <2>2. \A h \in DOMAIN history : PrevIn(more)[h] = PrevIn(history)[h]
      BY <1>4 DEF PrevIn
    <2>3. \A k \in DOMAIN log : log[k] \in DOMAIN history
      OBVIOUS
    <2> QED BY <1>7, <2>1, <2>2, <2>3 DEF Leads
  <1>8. Remembers(more)
    <2>1. ASSUME NEW h \in DOMAIN history
          PROVE  /\ more[h].entry \in Entry
                 /\ more[h].entry.hash = h /\ more[h].entry.intact = TRUE
                 /\ more[h].log # NoLog =>
                      /\ more[h].log \in Seq(DOMAIN more)
                      /\ Leads(PrevIn(more), more[h].log)
                      /\ more[h].entry.prev = EndOf(more[h].log)
      <3>1. more[h] = history[h]
        BY <1>4
      <3> QED BY <1>1, <1>7, <3>1 DEF Remembers
    <2>2. /\ more[n + 1].entry \in Entry
          /\ more[n + 1].entry.hash = n + 1 /\ more[n + 1].entry.intact = TRUE
          /\ more[n + 1].log # NoLog =>
               /\ more[n + 1].log \in Seq(DOMAIN more)
               /\ Leads(PrevIn(more), more[n + 1].log)
               /\ more[n + 1].entry.prev = EndOf(more[n + 1].log)
      <3>1. more[n + 1].entry = entry /\ more[n + 1].log = Vouched(entry)
        BY <1>3, <1>4
      <3>2. entry.hash = n + 1
        BY DEF n
      <3>3. Vouched(entry) # NoLog => /\ Vouched(entry) \in Seq(DOMAIN history)
                                      /\ Leads(PrevIn(history), Vouched(entry))
                                      /\ entry.prev = EndOf(Vouched(entry))
        BY VouchedIs
      <3> QED BY <1>7, <3>1, <3>2, <3>3
    <2> QED BY <1>5, <1>6, <2>1, <2>2 DEF Remembers
  <1>9. LinesFrom(history) \subseteq LinesFrom(more)
    BY <1>4, LinesGrow
  <1>10. entry \in LinesFrom(more)
    <2>1. more[n + 1].entry \in Written(more)
      BY <1>4 DEF Written
    <2> QED BY <1>3, <1>4, <2>1 DEF LinesFrom
  <1> QED BY <1>2, <1>8, <1>9, <1>10

\* The entry that a window is about to write.
LEMMA EntryIs ==
  ASSUME JournalIInv, NEW w \in Writers, pc[w] \in {"write", "repair", "note"}
  PROVE  /\ EntryToWrite(w) \in Entry
         /\ EntryToWrite(w).hash = Len(history) + 1 /\ EntryToWrite(w).intact = TRUE
  <1> DEFINE L == LinesFrom(history)
  <1>1. Holds(L) /\ Usable(L) /\ Len(history) + 1 \in Nat
    BY LinesUsable, PastIs DEF JournalIInv
  <1> HIDE DEF L
  <1>2. /\ st[w].hash \in Nat /\ st[w].seq + 1 \in Nat \ {0}
        /\ Len(history) + 1 \in Nat \ {0}
    <2>1. st[w] \in StatesOf(L)
      BY <1>1 DEF Holds
    <2>2. Len(history) \in Nat
      BY PastIs DEF JournalIInv
    <2> QED BY <2>1, <2>2 DEF StatesOf
  <1>3. job[w].stamp \in Nat /\ LastHash(job[w].older) \in Nat
    <2>1. job[w] \in JobsOf(L)
      BY <1>1 DEF Holds
    <2>2. job[w].stamp \in Nat /\ job[w].older \in Seq(L)
      BY <2>1 DEF JobsOf
    <2> QED BY <1>1, <2>2 DEF Usable
  <1>4. \A kind \in {"change", "repair", "rotation"}, path, after \in Nat :
           /\ NewEntry(w, kind, path, after) \in Entry
           /\ NewEntry(w, kind, path, after).hash = Len(history) + 1
           /\ NewEntry(w, kind, path, after).intact = TRUE
    BY <1>2 DEF NewEntry, Entry, Hashes, Stamps, GENESIS_HASH, NoArchive
  <1>5. NoArchive \in Nat /\ GENESIS_HASH \in Nat
    BY DEF NoArchive, GENESIS_HASH
  <1>6. CASE pc[w] = "write"
    BY <1>4, <1>5, <1>6 DEF EntryToWrite
  <1>7. CASE pc[w] = "repair"
    BY <1>4, <1>5, <1>7 DEF EntryToWrite
  <1>8. CASE pc[w] = "note"
    BY <1>3, <1>4, <1>8 DEF EntryToWrite
  <1> QED BY <1>6, <1>7, <1>8

\* The invariant after a step, put together.
LEMMA StillHolds ==
  ASSUME NEW L, L = LinesFrom(history'), Remembers(history'), Holds(L)'
  PROVE  JournalIInv'
  BY DEF JournalIInv, Holds

\* An entry that is written is remembered, and is what the window goes on from.
LEMMA WritingKeeps ==
  ASSUME JournalIInv, NEW w \in Writers, Repair(w) \/ WriteChange(w) \/ NoteRotation(w)
  PROVE  JournalIInv'
  <1> DEFINE entry == EntryToWrite(w)
             more == Remembered(entry)
  <1>1. /\ WriteEntry(w) /\ pc[w] \in {"write", "repair", "note"}
        /\ \E step \in {"readdir", "rotate", "idle"} : pc' = [pc EXCEPT ![w] = step]
        /\ job' = job \/ job' = [job EXCEPT ![w] = NoJob]
    BY DEF Repair, WriteChange, NoteRotation, Return, Goto
  <1>2. /\ entry \in Entry /\ entry.hash = Len(history) + 1 /\ entry.intact = TRUE
    BY <1>1, EntryIs
  <1> HIDE DEF entry
  <1>3. Remembers(more) /\ LinesFrom(history) \subseteq LinesFrom(more) /\ entry \in LinesFrom(more)
    BY <1>2, Remembering
  <1>4. history' = more
    BY <1>1 DEF WriteEntry, entry
  <1> HIDE DEF more
  <1>5. PICK L : L = LinesFrom(more)
    OBVIOUS
  <1>6. Holds(L) /\ Usable(L) /\ entry \in L
    <2>1. Holds(LinesFrom(history))
      BY DEF JournalIInv
    <2> QED BY <1>3, <1>5, <2>1, HoldsMore, LinesUsable
  <1>7. active' = Appended(active, entry, TRUE) /\ UNCHANGED <<archives, tmps, stamped>>
    BY <1>1 DEF WriteEntry, entry
  <1>8. active' \in TextsOf(L)
    <2>1. active # NoFile => active \in TextsOf(L)
      BY <1>6 DEF Holds
    <2> QED BY <1>6, <1>7, <2>1, TextsChange
  <1>9. st' \in [Writers -> {NoState} \cup StatesOf(L)] /\ st'[w] \in StatesOf(L)
        /\ \A v \in Writers \ {w} : st'[v] = st[v]
    <2> DEFINE state == [seq |-> entry.seq, hash |-> entry.hash, lines |-> st[w].lines + 1,
                         seen |-> Appended(st[w].seen, entry, TRUE)]
    <2>1. st' = [st EXCEPT ![w] = state] /\ st \in [Writers -> {NoState} \cup StatesOf(L)]
      BY <1>1, <1>6 DEF WriteEntry, Holds, entry
    <2>2. st[w] \in StatesOf(L)
      BY <1>1, <1>6 DEF Holds
    <2>3. st[w].lines + 1 \in Nat /\ st[w].seen \in TextsOf(L)
      BY <2>2 DEF StatesOf
    <2>4. Appended(st[w].seen, entry, TRUE) \in TextsOf(L)
      BY <1>6, <2>3, TextsChange
    <2>5. entry.seq \in Nat /\ entry.hash \in Nat
      BY <1>2 DEF Entry, Hashes, Stamps, GENESIS_HASH, NoArchive
    <2>6. state \in StatesOf(L)
      BY <2>3, <2>4, <2>5 DEF StatesOf
    <2> HIDE DEF state
    <2> QED BY <2>1, <2>6
  <1>10. job' \in [Writers -> JobsOf(L)]
    <2>1. job[w] \in JobsOf(L) /\ job \in [Writers -> JobsOf(L)]
      BY <1>6 DEF Holds
    <2>2. NoJob \in JobsOf(L)
      BY <2>1, JobsChange
    <2> QED BY <1>1, <2>1, <2>2
  <1>11. Holds(L)'
    BY <1>1, <1>6, <1>7, <1>8, <1>9, <1>10 DEF Holds, Calls
  <1>12. L = LinesFrom(history') /\ Remembers(history')
    BY <1>3, <1>4, <1>5
  <1> QED BY <1>11, <1>12, StillHolds

\* A process that dies, or whose call fails, has written part of what it was to write:
\* if it is a whole entry, that is remembered.
LEMMA StoppingKeeps ==
  ASSUME JournalIInv, NEW w \in Writers, Forget(w), BrokenOff(w)
  PROVE  JournalIInv'
  <1>1. PICK L : L = LinesFrom(history)
    OBVIOUS
  <1>2. Holds(L) /\ Usable(L) /\ Remembers(history) /\ Junk \in L
    BY <1>1, LinesUsable DEF JournalIInv, Usable
  <1>3. ASSUME history' = history,
               active' # NoFile => active' \in TextsOf(L),
               archives' = archives,
               tmps' \in [DOMAIN tmps' -> Seq(L)], DOMAIN tmps' \subseteq Nat
        PROVE  JournalIInv'
    <2>1. Holds(L)'
      BY <1>2, <1>3, ForgettingKeeps
    <2> QED BY <1>1, <1>2, <1>3, <2>1, StillHolds
  <1>4. CASE UNCHANGED <<active, archives, tmps, history>>
    BY <1>2, <1>3, <1>4 DEF Holds
  <1>5. ASSUME NEW name \in Nat, NEW lines \in Seq(L), TornTmp(name, lines)
        PROVE  JournalIInv'
    <2>1. PICK k \in 0 .. Len(lines) : tmps' = With(tmps, name, SubSeq(lines, 1, k))
      BY <1>5 DEF TornTmp
    <2>2. SubSeq(lines, 1, k) \in Seq(L)
      <3>1. k \in Int /\ k <= Len(lines)
        OBVIOUS
      <3> QED BY <3>1, SubSeqProperties
    <2>3. tmps' \in [DOMAIN tmps' -> Seq(L)] /\ DOMAIN tmps' \subseteq Nat
      BY <1>2, <2>1, <2>2, FilesChange DEF Holds
    <2>4. UNCHANGED <<active, archives, history>>
      BY <1>5 DEF TornTmp
    <2> QED BY <1>2, <1>3, <2>3, <2>4 DEF Holds
  <1>6. /\ job[w].older \in Seq(L) /\ job[w].newer \in Seq(L) /\ job[w].stamp \in Nat
        /\ Active \in Nat
    <2>1. job[w] \in JobsOf(L)
      BY <1>2 DEF Holds
    <2> QED BY <2>1 DEF JobsOf, Active
  <1>7. CASE pc[w] \in {"write", "repair", "note"} /\ TornEntry(w)
    <2> DEFINE entry == EntryToWrite(w)
               more == Remembered(entry)
    <2>1. /\ entry \in Entry /\ entry.hash = Len(history) + 1 /\ entry.intact = TRUE
      BY <1>7, EntryIs
    <2>2. /\ \/ active' = IF active = NoFile THEN EmptyText ELSE active
             \/ active' = Appended(active, Junk, FALSE)
             \/ \E newline \in BOOLEAN : active' = Appended(active, entry, newline)
          /\ history' = IF Last(<<Junk>> \o active'.lines) = entry THEN more ELSE history
          /\ UNCHANGED <<archives, tmps>>
      BY <1>7 DEF TornEntry
    <2> HIDE DEF entry
    <2>3. Remembers(more) /\ LinesFrom(history) \subseteq LinesFrom(more) /\ entry \in LinesFrom(more)
      BY <2>1, Remembering
    <2> HIDE DEF more
    <2>4. PICK M : M = LinesFrom(more)
      OBVIOUS
    <2>5. L \subseteq M /\ Holds(M) /\ Usable(M) /\ entry \in M
      BY <1>1, <1>2, <2>3, <2>4, HoldsMore, LinesUsable
    <2>6. active # NoFile => active \in TextsOf(L) /\ active \in TextsOf(M)
      BY <1>2, <2>5 DEF Holds
    <2>7. EmptyText \in TextsOf(L) /\ EmptyText \in TextsOf(M)
      BY DEF EmptyText, TextsOf
    <2>8. active' \in TextsOf(M)
      <3>1. Junk \in M
        BY <2>5 DEF Usable
      <3> QED BY <2>2, <2>5, <2>6, <2>7, <3>1, TextsChange
    <2>9. CASE history' = more
      <3>1. /\ tmps' \in [DOMAIN tmps' -> Seq(M)] /\ DOMAIN tmps' \subseteq Nat
            /\ archives' = archives
        BY <2>2, <2>5 DEF Holds
      <3>2. Holds(M)'
        BY <2>5, <2>8, <3>1, ForgettingKeeps
      <3> QED BY <2>3, <2>4, <2>9, <3>2, StillHolds
    <2>10. CASE history' = history /\ Last(<<Junk>> \o active'.lines) # entry
      <3>1. ASSUME NEW newline \in BOOLEAN, active' = Appended(active, entry, newline)
            PROVE  active' \in TextsOf(L)
        <4> DEFINE lines == LinesOf(active)
        <4>1. lines \in Seq(L) /\ lines \in Seq(M)
          BY <1>2, <2>5, <2>6, TextsChange
        <4> HIDE DEF lines
        <4>2. lines # <<>> /\ ~active.newline
          <5>1. SUFFICES ASSUME ~(lines # <<>> /\ ~active.newline) PROVE FALSE
            OBVIOUS
          <5>2. active'.lines = Append(lines, entry)
            BY <3>1, <5>1 DEF Appended, lines
          <5>3. <<Junk>> \o Append(lines, entry) \in Seq(M) /\ Len(lines) \in Nat
            BY <2>5, <4>1 DEF Usable
          <5>4. Last(<<Junk>> \o Append(lines, entry)) = entry
            BY <4>1, <5>3 DEF Last
          <5> QED BY <2>10, <5>2, <5>4
        <4>3. active' = [lines |-> [lines EXCEPT ![Len(lines)] = Junk], newline |-> newline]
          BY <3>1, <4>2 DEF Appended, lines
        <4>4. [lines EXCEPT ![Len(lines)] = Junk] \in Seq(L)
          BY <1>2, <4>1, <4>2
        <4> QED BY <4>3, <4>4 DEF TextsOf
      <3>2. active' \in TextsOf(L)
        BY <1>2, <2>2, <2>6, <2>7, <3>1, TextsChange
      <3> QED BY <1>2, <1>3, <2>2, <2>10, <3>2 DEF Holds
    <2> QED BY <2>2, <2>9, <2>10
  <1> QED BY <1>4, <1>5, <1>6, <1>7 DEF BrokenOff, files

-----------------------------------------------------------------------------
(* The invariant holds.                                                    *)

\* An empty journal has no past.
LEMMA JournalStarts ==
  ASSUME JournalInit PROVE JournalIInv
  <1> USE DEF JournalInit
  <1>1. Remembers(history)
    BY DEF Remembers
  <1>2. PICK L : L = LinesFrom(history)
    OBVIOUS
  <1>3. <<>> \in Seq(L) /\ NoJob \in JobsOf(L)
    <2>1. NoHead \in Int /\ NoArchive \in Nat /\ <<>> \in Seq(L)
      BY DEF NoHead, NoArchive
    <2> QED BY <2>1 DEF NoJob, JobsOf
  <1>4. IsFiniteSet(DOMAIN archives) /\ DOMAIN archives = {} /\ DOMAIN tmps = {}
    BY FS_EmptySet
  <1>5. archives \in [DOMAIN archives -> Seq(L)] /\ tmps \in [DOMAIN tmps -> Seq(L)]
    BY <1>4
  <1>6. Holds(L)
    BY <1>3, <1>4, <1>5 DEF Holds, Calls
  <1> QED BY <1>1, <1>2, <1>6 DEF JournalIInv

\* Every step leaves in the files only what was written once.
LEMMA JournalSteps ==
  ASSUME JournalIInv, [JournalNext]_journalVars PROVE JournalIInv'
  <1>1. PICK L : L = LinesFrom(history)
    OBVIOUS
  <1>2. Holds(L) /\ Usable(L) /\ Remembers(history)
    BY <1>1, LinesUsable DEF JournalIInv
  <1>3. ASSUME Holds(L)', history' = history PROVE JournalIInv'
    BY <1>1, <1>2, <1>3, StillHolds
  <1>4. ASSUME NEW w \in Writers,
               \/ Start(w) \/ StatMissing(w) \/ StatKnown(w) \/ StatAndRead(w)
               \/ TrimTail(w) \/ FinishLine(w) \/ Readdir(w)
        PROVE  JournalIInv'
    <2>1. history' = history
      BY <1>4 DEF Start, StatMissing, StatKnown, StatAndRead, TrimTail, FinishLine, Readdir, ghosts
    <2> QED BY <1>2, <1>3, <1>4, <2>1, LoadingKeeps
  <1>5. ASSUME NEW w \in Writers, NEW n \in job[w].todo,
               CompleteRotation(w, n) \/ Discard(w, n) \/ RecoveryFails(w, n)
        PROVE  JournalIInv'
    <2>1. history' = history
      BY <1>5 DEF CompleteRotation, Discard, RecoveryFails, Recovered
    <2> QED BY <1>2, <1>3, <1>5, <2>1, RecoveringKeeps
  <1>6. ASSUME NEW w \in Writers,
               Rotate(w) \/ WriteArchive(w) \/ WriteActive(w) \/ Swap(w) \/ Commit(w)
        PROVE  JournalIInv'
    <2>1. history' = history
      BY <1>6 DEF Rotate, WriteArchive, WriteActive, WriteTmp, Swap, Commit, ghosts
    <2> QED BY <1>2, <1>3, <1>6, <2>1, RotatingKeeps
  <1>7. ASSUME NEW w \in Writers, FileGone(w) PROVE JournalIInv'
    <2>1. history' = history
      BY <1>7 DEF FileGone
    <2> QED BY <1>2, <1>3, <1>7, <2>1, FileGoneKeeps
  <1>8. ASSUME NEW w \in Writers, Stop(w) \/ CallFails(w) PROVE JournalIInv'
    BY <1>8, StoppingKeeps DEF Stop, CallFails
  <1>9. CASE HandEdit
    BY <1>2, <1>3, <1>9, HandEditsKeep
  <1>10. CASE UNCHANGED journalVars
    <2>1. UNCHANGED <<active, archives, tmps, st, pc, job, stamped, history>>
      BY <1>10 DEF journalVars
    <2>2. Holds(L)'
      BY <1>2, <2>1 DEF Holds
    <2> QED BY <1>3, <2>1, <2>2
  <1>11. ASSUME NEW w \in Writers, EnsureLoaded(w) \/ Recover(w) \/ WriteChange(w) \/ Rotation(w)
         PROVE  JournalIInv'
    BY <1>4, <1>5, <1>6, <1>11, WritingKeeps DEF EnsureLoaded, Recover, Rotation
  <1> QED BY <1>4, <1>7, <1>8, <1>9, <1>10, <1>11 DEF JournalNext

\* So it is at all times.
LEMMA JournalInvariantHolds == JournalSpec => []JournalIInv
  <1>1. JournalInit => JournalIInv
    BY JournalStarts
  <1>2. JournalIInv /\ [JournalNext]_journalVars => JournalIInv'
    BY JournalSteps
  <1> QED BY <1>1, <1>2, PTL DEF JournalSpec

(* verifyChain (journal.ts:499-544) vouches for nothing that was changed: for any    *)
(* windows, any length at which the file rotates and any bounds, through crashes,   *)
(* failed calls, appends at the same time and every edit of the files, a journal     *)
(* that verifies holds its entries as they were written, each behind the log that it *)
(* continued.                                                                       *)
THEOREM VerifiedHistoryIsWritten == JournalSpec => []VerifiedIsAsWritten
  <1>1. JournalIInv => VerifiedIsAsWritten
    BY VerifiedIsPast
  <1> QED BY <1>1, JournalInvariantHolds, PTL

-----------------------------------------------------------------------------
(* The log of a journal that nobody disturbed, from its files: archives f, *)
(* temporary files t, active file text.                                    *)

\* What a rotation that is half done has taken out of the active file.
HeadIn(text) == HeadOf(LinesOf(text))
LinkingIn(t, head) ==
  {n \in DOMAIN t : n # Active /\ head # NoHead /\ EntryPlaces(t[n]) # {} /\ LastHash(t[n]) = head}
PendingIn(t, head) ==
  IF LinkingIn(t, head) = {} THEN <<>> ELSE t[CHOOSE n \in LinkingIn(t, head) : TRUE]

\* The lines of the active file without one that was cut off.
Body(text) ==
  IF LinesOf(text) # <<>> /\ LinesOf(text)[Len(LinesOf(text))] = Junk
  THEN SubSeq(LinesOf(text), 1, Len(LinesOf(text)) - 1) ELSE LinesOf(text)

\* Everything that was written, in order.
Ahead(f, t, text) == ArchivedIn(f) \o PendingIn(t, HeadIn(text))
Whole(f, t, text) == Ahead(f, t, text) \o Body(text)

\* One chain, each entry with the number of its place.
Sound(log) ==
  \A i \in DOMAIN log :
    /\ log[i] # Junk /\ log[i].intact = TRUE /\ log[i].seq = i
    /\ log[i].prev = IF i = 1 THEN GENESIS_HASH ELSE log[i - 1].hash

LastSeq(lines) == IF EntryPlaces(lines) = {} THEN 0 ELSE LastEntry(lines).seq
Clean(text) == /\ \A i \in DOMAIN text.lines : text.lines[i] # Junk
               /\ text.newline \/ text.lines = <<>>

\* The files hold one chain; only its last line may be cut off.
CutAtEnd(text) ==
  \A i \in DOMAIN LinesOf(text) :
    LinesOf(text)[i] = Junk => i = Len(LinesOf(text)) /\ ~text.newline
Chained(f, t, text) ==
  /\ Sound(Whole(f, t, text)) /\ CutAtEnd(text)
  /\ Body(text) = <<>> => Whole(f, t, text) = <<>>

\* The archives are the beginning of the log, and it notes them as they are.
Filed(f, log) ==
  /\ \A a \in DOMAIN f :
       /\ f[a] # <<>>
       /\ \A i \in DOMAIN f[a] : f[a][i] # Junk /\ f[a][i].seq <= Len(ArchivedIn(f))
  /\ \A i \in DOMAIN log : log[i].kind = "rotation" =>
       log[i].path \in DOMAIN f /\ log[i].after = LastHash(f[log[i].path])

\* The temporary files are of one rotation, the last.
Named(f, t, stamp) ==
  /\ \A a, b \in DOMAIN t \ {Active} : a = b
  /\ \A a \in DOMAIN f \cup (DOMAIN t \ {Active}) : a # Active /\ a <= stamp
  /\ DOMAIN f \cap DOMAIN t = {}

\* What a window takes for the tail is that of the text it has seen.
TailIs(s, lines) == s.seq = LastSeq(lines) /\ s.hash = LastHash(lines)
Knows(s) == TailIs(s, s.seen.lines) /\ s.lines = Len(s.seen.lines)
Current(s, text) == /\ Knows(s) /\ Clean(s.seen)
                    /\ s.seen = IF text = NoFile THEN EmptyText ELSE text
HeadKnown(j, t, text) ==
  j.head = HeadIn(text) \/ (j.head = NoHead /\ PendingIn(t, HeadIn(text)) = <<>>)

\* How far a window has come that is appending.
AtWork(p, s, j, f, t, text, stamp) ==
  /\ p \in {"trim", "finish line"} =>
       /\ text # NoFile /\ s.seen = text /\ Knows(s) /\ HeadKnown(j, t, text)
       /\ text.lines # <<>> /\ ~text.newline
       /\ p = "trim" <=> text.lines[Len(text.lines)] = Junk
  /\ p \in {"repair", "readdir", "recover", "write", "rotate", "write archive", "write active",
            "swap", "note"} => Current(s, text)
  /\ p \in {"repair", "readdir", "recover"} => HeadKnown(j, t, text)
  /\ p = "recover" => j.todo = DOMAIN t
  /\ p \in {"write", "rotate", "write archive", "note"} => DOMAIN t = {}
  /\ p = "rotate" => LinesOf(text) # <<>>
  /\ p \in {"write archive", "write active", "swap", "commit"} =>
       /\ j.older # <<>> /\ j.newer # <<>>
       /\ j.stamp = stamp /\ stamp # Active /\ stamp \notin DOMAIN f
  /\ p \in {"write archive", "write active", "swap"} => LinesOf(text) = j.older \o j.newer
  /\ p \in {"write active", "commit"} => DOMAIN t = {stamp} /\ t[stamp] = j.older
  /\ p = "swap" => DOMAIN t = {stamp, Active} /\ t[stamp] = j.older /\ t[Active] = j.newer
  /\ p = "commit" => /\ text = [lines |-> j.newer, newline |-> TRUE]
                     /\ PendingIn(t, HeadIn(text)) = j.older /\ TailIs(s, j.newer)
  /\ p = "note" => j.stamp \in DOMAIN f /\ f[j.stamp] = j.older

\* A window that is not, knows an earlier text or the present one; after a rotation
\* that stopped half way only an earlier one.
AtRest(s, t, n) ==
  s # NoState => /\ Knows(s) /\ Clean(s.seen) /\ s.seq <= n
                 /\ DOMAIN t # {} => s.seq < n
Behind(w, states, n) == \A v \in Writers \ {w} : states[v] # NoState => states[v].seq < n

HashesOf(log) == {log[i].hash : i \in DOMAIN log}
Now == Whole(archives, tmps, active)
Honest ==
  /\ Chained(archives, tmps, active) /\ Filed(archives, Now) /\ Named(archives, tmps, stamped)
  /\ recorded \subseteq HashesOf(Now)
  /\ \A v, w \in Writers : pc[v] # "idle" /\ pc[w] # "idle" => v = w
  /\ \A w \in Writers :
       IF pc[w] \in {"idle", "stat"} THEN AtRest(st[w], tmps, Len(Now))
       ELSE AtWork(pc[w], st[w], job[w], archives, tmps, active, stamped)
  /\ \A w \in Writers : pc[w] \in {"rotate", "write archive"} => Behind(w, st, Len(Now))

HonestInv == Undisturbed => Honest

-----------------------------------------------------------------------------
(* One archive more.                                                       *)

\* An archive whose entries come later than all others is the last.
LEMMA ArchivedMore ==
  ASSUME NEW past, Remembers(past), NEW f, f \in [DOMAIN f -> Seq(LinesFrom(past))],
         IsFiniteSet(DOMAIN f), DOMAIN f \subseteq Nat,
         NEW n \in Nat \ DOMAIN f, NEW lines \in Seq(LinesFrom(past)),
         \A a \in DOMAIN f : FirstSeq(f[a]) < FirstSeq(lines)
  PROVE  ArchivedIn(With(f, n, lines)) = ArchivedIn(f) \o lines
  <1> DEFINE g == With(f, n, lines)
             m == Cardinality(DOMAIN f)
             order == OrderIn(f)
             L == LinesFrom(past)
  <1>1. /\ g \in [DOMAIN g -> Seq(L)] /\ IsFiniteSet(DOMAIN g) /\ DOMAIN g \subseteq Nat
    BY FilesChange
  <1>2. /\ DOMAIN g = DOMAIN f \cup {n} /\ g[n] = lines
        /\ \A a \in DOMAIN f : g[a] = f[a] /\ a # n
    BY DEF With
  <1> HIDE DEF g, L
  <1>3. m \in Nat /\ Cardinality(DOMAIN g) = m + 1
    BY <1>2, OrderIs, FS_AddElement
  <1>4. /\ \A a \in DOMAIN f : FirstSeq(f[a]) \in Int
        /\ FirstSeq(lines) \in Int
    BY EndsTyped
  <1>5. ASSUME NEW a \in DOMAIN f PROVE RankIn(g, a) = RankIn(f, a)
    <2>1. ~EarlierIn(g, n, a)
      BY <1>2, <1>4 DEF EarlierIn
    <2>2. \A b \in DOMAIN f : EarlierIn(g, b, a) <=> EarlierIn(f, b, a)
      BY <1>2 DEF EarlierIn
    <2>3. {b \in DOMAIN g : EarlierIn(g, b, a)} = {b \in DOMAIN f : EarlierIn(f, b, a)}
      BY <1>2, <2>1, <2>2
    <2> QED BY <2>3 DEF RankIn
  <1>6. RankIn(g, n) = m
    <2>1. \A b \in DOMAIN f : EarlierIn(g, b, n)
      BY <1>2, <1>4 DEF EarlierIn
    <2>2. ~EarlierIn(g, n, n)
      BY <1>2, <1>4 DEF EarlierIn
    <2>3. {b \in DOMAIN g : EarlierIn(g, b, n)} = DOMAIN f
      BY <1>2, <2>1, <2>2
    <2> QED BY <2>3 DEF RankIn
  <1>7. /\ order \in Seq(DOMAIN f) /\ Len(order) = m
        /\ \A k \in 1..m : order[k] \in DOMAIN f /\ RankIn(f, order[k]) = k - 1
    BY OrderIs
  <1>8. /\ OrderIn(g) \in Seq(DOMAIN g) /\ Len(OrderIn(g)) = m + 1
        /\ \A k \in 1..m + 1 : OrderIn(g)[k] \in DOMAIN g /\ RankIn(g, OrderIn(g)[k]) = k - 1
        /\ \A a, b \in DOMAIN g : RankIn(g, a) = RankIn(g, b) => a = b
    BY <1>1, <1>3, OrderIs DEF L
  <1> HIDE DEF m, order
  <1>9. \A k \in 1..m : OrderIn(g)[k] = order[k]
    <2> TAKE k \in 1..m
    <2>1. RankIn(g, order[k]) = k - 1 /\ order[k] \in DOMAIN g
      BY <1>2, <1>5, <1>7
    <2>2. k \in 1..m + 1
      BY <1>3
    <2> QED BY <1>8, <2>1, <2>2
  <1>10. OrderIn(g)[m + 1] = n
    <2>1. m + 1 \in 1..m + 1 /\ (m + 1) - 1 = m /\ n \in DOMAIN g
      BY <1>2, <1>3
    <2>2. RankIn(g, OrderIn(g)[m + 1]) = m /\ OrderIn(g)[m + 1] \in DOMAIN g
      BY <1>8, <2>1
    <2> QED BY <1>6, <1>8, <2>1, <2>2
  <1> DEFINE before == [i \in DOMAIN order |-> f[order[i]]]
             after == [i \in DOMAIN OrderIn(g) |-> g[OrderIn(g)[i]]]
  <1>11. before \in Seq(Seq(L))
    BY ArchivedTyped DEF order, L
  <1>12. Len(before) = m /\ \A i \in 1..m : before[i] = f[order[i]]
    BY <1>3, <1>7
  <1>13. after \in Seq(Seq(L)) /\ Len(after) = m + 1
    <2>1. after \in Seq(Seq(L))
      BY <1>1, ArchivedTyped DEF L
    <2>2. DOMAIN after = 1..m + 1
      BY <1>3, <1>8
    <2> HIDE DEF after
    <2> QED BY <1>3, <2>1, <2>2
  <1>14. \A i \in 1..m + 1 : after[i] = g[OrderIn(g)[i]]
    BY <1>3, <1>8
  <1> HIDE DEF before, after
  <1>15. after = Append(before, lines)
    <2>1. Len(Append(before, lines)) = m + 1 /\ Append(before, lines) \in Seq(Seq(L))
      <3>1. lines \in Seq(L)
        BY DEF L
      <3> HIDE DEF L
      <3>2. Append(before, lines) \in Seq(Seq(L)) /\ Len(Append(before, lines)) = Len(before) + 1
        BY <1>11, <3>1, AppendProperties
      <3> QED BY <1>12, <3>2
    <2>2. ASSUME NEW i \in 1..m + 1 PROVE after[i] = Append(before, lines)[i]
      <3>1. CASE i = m + 1
        BY <1>2, <1>3, <1>10, <1>11, <1>12, <1>14, <3>1
      <3>2. CASE i # m + 1
        <4>1. i \in 1..m
          BY <1>3, <3>2
        <4>2. after[i] = f[order[i]]
          BY <1>2, <1>7, <1>9, <1>14, <4>1
        <4> QED BY <1>11, <1>12, <4>1, <4>2
      <3> QED BY <3>1, <3>2
    <2> QED BY <1>3, <1>13, <2>1, <2>2
  <1>16. FlattenSeq(after) = FlattenSeq(before) \o lines
    BY <1>11, <1>15, FlattenMore DEF L
  <1> QED BY <1>16 DEF ArchivedIn, before, after, order, g

-----------------------------------------------------------------------------
(* The ends of a file.                                                     *)

\* The least and the greatest of the first numbers.
LEMMA FirstNumbers ==
  ASSUME NEW m \in Nat \ {0}
  PROVE  Min(1..m) = 1 /\ Max(1..m) = m
  <1>1. 1 \in 1..m /\ (\A y \in 1..m : 1 <= y) /\ m \in 1..m /\ (\A y \in 1..m : m >= y)
    OBVIOUS
  <1>2. Min(1..m) \in 1..m /\ \A y \in 1..m : Min(1..m) <= y
    BY <1>1 DEF Min
  <1>3. Max(1..m) \in 1..m /\ \A y \in 1..m : Max(1..m) >= y
    BY <1>1 DEF Max
  <1>4. Min(1..m) <= 1 /\ Max(1..m) >= m
    BY <1>1, <1>2, <1>3
  <1> HIDE DEF Min, Max
  <1> QED BY <1>2, <1>3, <1>4

\* A file tells its ends from its entries, which are all its lines but one cut off.
LEMMA EndsOf ==
  ASSUME NEW T, NEW lines \in Seq(T), NEW m \in 0..Len(lines),
         EntryPlaces(lines) = 1..m
  PROVE  /\ m = 0 => HeadOf(lines) = NoHead /\ LastHash(lines) = GENESIS_HASH /\ LastSeq(lines) = 0
         /\ m # 0 => /\ HeadOf(lines) = lines[1].prev /\ FirstSeq(lines) = lines[1].seq
                     /\ LastHash(lines) = lines[m].hash /\ LastSeq(lines) = lines[m].seq
  <1>1. CASE m = 0
    <2>1. EntryPlaces(lines) = {}
      BY <1>1
    <2> QED BY <1>1, <2>1 DEF HeadOf, LastHash, LastSeq
  <1>2. CASE m # 0
    <2>1. EntryPlaces(lines) # {} /\ m \in Nat \ {0}
      <3>1. m \in Nat /\ 1 \in 1..m
        BY <1>2
      <3> QED BY <1>2, <3>1
    <2>2. FirstEntry(lines) = lines[1] /\ LastEntry(lines) = lines[m]
      BY <2>1, FirstNumbers DEF FirstEntry, LastEntry
    <2> QED BY <1>2, <2>1, <2>2 DEF HeadOf, LastHash, LastSeq, FirstSeq
  <1> QED BY <1>1, <1>2

\* Whether the last line was cut off or not.
LEMMA BodyIs ==
  ASSUME NEW T, NEW text, LinesOf(text) \in Seq(T),
         \A i \in DOMAIN LinesOf(text) : LinesOf(text)[i] = Junk => i = Len(LinesOf(text))
  PROVE  /\ Body(text) \in Seq(T) /\ Len(Body(text)) \in 0..Len(LinesOf(text))
         /\ EntryPlaces(LinesOf(text)) = 1..Len(Body(text))
         /\ \A i \in 1..Len(Body(text)) : Body(text)[i] = LinesOf(text)[i] /\ Body(text)[i] # Junk
         /\ IF LinesOf(text) # <<>> /\ LinesOf(text)[Len(LinesOf(text))] = Junk
            THEN Len(Body(text)) = Len(LinesOf(text)) - 1
            ELSE Body(text) = LinesOf(text)
  <1> DEFINE lines == LinesOf(text)
             n == Len(lines)
  <1>1. n \in Nat /\ DOMAIN lines = 1..n /\ lines \in Seq(T)
    OBVIOUS
  <1> HIDE DEF lines
  <1>2. CASE lines # <<>> /\ lines[n] = Junk
    <2>1. n # 0 /\ n - 1 \in Int /\ n - 1 <= n
      BY <1>1, <1>2
    <2>2. Body(text) = SubSeq(lines, 1, n - 1)
      BY <1>2 DEF Body, lines
    <2>3. /\ SubSeq(lines, 1, n - 1) \in Seq(T) /\ Len(SubSeq(lines, 1, n - 1)) = n - 1
          /\ \A i \in 1..n - 1 : SubSeq(lines, 1, n - 1)[i] = lines[i]
      BY <1>1, <2>1, SubSeqProperties
    <2>4. EntryPlaces(lines) = 1..n - 1
      <3>1. \A i \in 1..n : lines[i] = Junk <=> i = n
        BY <1>1, <1>2, <2>1 DEF lines
      <3>2. \A k \in Nat : \A i \in 1..k : i # k <=> i \in 1..k - 1
        OBVIOUS
      <3>3. 1..n - 1 \subseteq 1..n
        BY <1>1
      <3>4. EntryPlaces(lines) = {i \in 1..n : lines[i] # Junk}
        BY <1>1 DEF EntryPlaces
      <3> HIDE DEF n
      <3> QED BY <1>1, <3>1, <3>2, <3>3, <3>4
    <2>5. \A i \in 1..n - 1 : lines[i] # Junk
      BY <1>1, <2>4 DEF EntryPlaces
    <2> QED BY <1>1, <1>2, <2>1, <2>2, <2>3, <2>4, <2>5 DEF lines
  <1>3. CASE ~(lines # <<>> /\ lines[n] = Junk)
    <2>1. Body(text) = lines
      BY <1>3 DEF Body, lines
    <2>2. \A i \in 1..n : lines[i] # Junk
      BY <1>1, <1>3 DEF lines
    <2>3. EntryPlaces(lines) = 1..n
      BY <1>1, <2>2 DEF EntryPlaces
    <2>4. Len(Body(text)) = n /\ n \in 0..n
      BY <1>1, <2>1
    <2> QED BY <1>1, <1>3, <2>1, <2>2, <2>3, <2>4 DEF lines
  <1> QED BY <1>2, <1>3

-----------------------------------------------------------------------------
(* The log that the files hold.                                            *)

FilesOf(past, f, t, text) ==
  /\ Remembers(past)
  /\ f \in [DOMAIN f -> Seq(LinesFrom(past))] /\ IsFiniteSet(DOMAIN f) /\ DOMAIN f \subseteq Nat
  /\ t \in [DOMAIN t -> Seq(LinesFrom(past))] /\ DOMAIN t \subseteq Nat
  /\ text # NoFile => text \in TextsOf(LinesFrom(past))

EndHash(log) == IF log = <<>> THEN GENESIS_HASH ELSE log[Len(log)].hash
Continues(entry, log) == /\ entry # Junk /\ entry.intact = TRUE
                         /\ entry.seq = Len(log) + 1 /\ entry.prev = EndHash(log)

\* One sequence and then another.
LEMMA TwoParts ==
  ASSUME NEW T, NEW a \in Seq(T), NEW b \in Seq(T)
  PROVE  /\ a \o b \in Seq(T) /\ Len(a) \in Nat /\ Len(b) \in Nat
         /\ Len(a \o b) = Len(a) + Len(b)
         /\ \A i \in 1..Len(a) : (a \o b)[i] = a[i]
         /\ \A i \in 1..Len(b) : (a \o b)[Len(a) + i] = b[i]
         /\ a \o <<>> = a /\ <<>> \o a = a
  BY ConcatProperties, ConcatEmptySeq

\* All that the files hold are lines.
LEMMA WholeTyped ==
  ASSUME NEW past, NEW f, NEW t, NEW text, FilesOf(past, f, t, text)
  PROVE  /\ ArchivedIn(f) \in Seq(LinesFrom(past))
         /\ \A head : PendingIn(t, head) \in Seq(LinesFrom(past))
         /\ LinesOf(text) \in Seq(LinesFrom(past)) /\ Body(text) \in Seq(LinesFrom(past))
         /\ Ahead(f, t, text) \in Seq(LinesFrom(past))
         /\ Whole(f, t, text) \in Seq(LinesFrom(past))
  <1> DEFINE L == LinesFrom(past)
  <1>1. ArchivedIn(f) \in Seq(L)
    BY ArchivedTyped DEF FilesOf
  <1>2. ASSUME NEW head PROVE PendingIn(t, head) \in Seq(L)
    <2>1. LinkingIn(t, head) # {} => (CHOOSE n \in LinkingIn(t, head) : TRUE) \in DOMAIN t
      BY DEF LinkingIn
    <2>2. \A n \in DOMAIN t : t[n] \in Seq(L)
      BY DEF FilesOf
    <2> QED BY <2>1, <2>2 DEF PendingIn
  <1>3. LinesOf(text) \in Seq(L)
    BY DEF FilesOf, LinesOf, TextsOf
  <1> HIDE DEF L
  <1>4. Body(text) \in Seq(L)
    <2>1. Len(LinesOf(text)) - 1 \in Int /\ Len(LinesOf(text)) - 1 <= Len(LinesOf(text))
      BY <1>3
    <2>2. SubSeq(LinesOf(text), 1, Len(LinesOf(text)) - 1) \in Seq(L)
      BY <1>3, <2>1, SubSeqProperties
    <2> QED BY <1>3, <2>2 DEF Body
  <1>5. Ahead(f, t, text) \in Seq(L)
    BY <1>1, <1>2, TwoParts DEF Ahead
  <1>6. Whole(f, t, text) \in Seq(L)
    BY <1>4, <1>5, TwoParts DEF Whole
  <1> QED BY <1>1, <1>2, <1>3, <1>4, <1>5, <1>6 DEF L

\* The active file tells the end of the log, and what it continues.
LEMMA EndsOfWhole ==
  ASSUME NEW past, NEW f, NEW t, NEW text, FilesOf(past, f, t, text), Chained(f, t, text)
  PROVE  /\ LastSeq(LinesOf(text)) = Len(Whole(f, t, text))
         /\ LastHash(LinesOf(text)) = EndHash(Whole(f, t, text))
         /\ HeadIn(text) = IF Body(text) = <<>> THEN NoHead ELSE EndHash(Ahead(f, t, text))
  <1> DEFINE L == LinesFrom(past)
             lines == LinesOf(text)
             body == Body(text)
             ahead == Ahead(f, t, text)
             log == Whole(f, t, text)
             m == Len(body)
             k == Len(ahead)
  <1>1. lines \in Seq(L) /\ body \in Seq(L) /\ ahead \in Seq(L) /\ log \in Seq(L)
    BY WholeTyped
  <1>2. /\ m \in 0..Len(lines) /\ EntryPlaces(lines) = 1..m
        /\ \A i \in 1..m : body[i] = lines[i]
    BY <1>1, BodyIs DEF Chained, CutAtEnd
  <1>3. /\ m = 0 => HeadOf(lines) = NoHead /\ LastHash(lines) = GENESIS_HASH /\ LastSeq(lines) = 0
        /\ m # 0 => /\ HeadOf(lines) = lines[1].prev
                    /\ LastHash(lines) = lines[m].hash /\ LastSeq(lines) = lines[m].seq
    <2> HIDE DEF lines, L, m
    <2> QED BY <1>1, <1>2, EndsOf
  <1>4. /\ Len(log) = k + m /\ k \in Nat /\ m \in Nat
        /\ \A i \in 1..k : log[i] = ahead[i]
        /\ \A i \in 1..m : log[k + i] = body[i]
    <2>1. log = ahead \o body
      BY DEF Whole
    <2> HIDE DEF log, ahead, body, L
    <2> QED BY <1>1, <2>1, TwoParts
  <1>5. /\ \A i \in 1..Len(log) : /\ log[i].seq = i
                                  /\ log[i].prev = IF i = 1 THEN GENESIS_HASH ELSE log[i - 1].hash
        /\ body = <<>> => log = <<>>
    <2>1. DOMAIN log = 1..Len(log)
      BY <1>1
    <2> QED BY <2>1 DEF Chained, Sound
  <1>6. (body = <<>> <=> m = 0) /\ (ahead = <<>> <=> k = 0) /\ (log = <<>> <=> k + m = 0)
    BY <1>1, <1>4
  <1>7. HeadIn(text) = HeadOf(lines)
    BY DEF HeadIn
  <1> HIDE DEF lines, body, ahead, log, L
  <1>8. CASE m = 0
    BY <1>3, <1>4, <1>5, <1>6, <1>7, <1>8 DEF EndHash, lines, body, log, ahead
  <1>9. CASE m # 0
    <2>1. 1 \in 1..m /\ m \in 1..m /\ k + 1 \in 1..(k + m) /\ k + m \in 1..(k + m) /\ k + m # 0
      BY <1>4, <1>9
    <2>2. lines[1] = log[k + 1] /\ lines[m] = log[k + m]
      BY <1>2, <1>4, <2>1
    <2>3. log[k + m].seq = k + m /\ EndHash(log) = log[k + m].hash
      BY <1>4, <1>5, <1>6, <2>1 DEF EndHash
    <2>4. log[k + 1].prev = EndHash(ahead)
      <3>1. log[k + 1].prev = IF k + 1 = 1 THEN GENESIS_HASH ELSE log[(k + 1) - 1].hash
        BY <1>4, <1>5, <2>1
      <3>2. (k + 1 = 1 <=> k = 0) /\ (k + 1) - 1 = k /\ (k # 0 => k \in 1..k)
        BY <1>4
      <3> QED BY <1>4, <1>6, <3>1, <3>2 DEF EndHash
    <2> QED BY <1>3, <1>4, <1>6, <1>7, <1>9, <2>2, <2>3, <2>4 DEF lines, body, log, ahead
  <1> QED BY <1>8, <1>9

\* No hash is in a log twice.
LEMMA HashesDiffer ==
  ASSUME NEW past, Remembers(past), NEW log \in Seq(LinesFrom(past)), Sound(log)
  PROVE  /\ \A i \in 1..Len(log) : log[i].hash \in Nat \ {0}
         /\ \A i, k \in 1..Len(log) : log[i].hash = log[k].hash => i = k
  <1>1. DOMAIN log = 1..Len(log) /\ \A i \in 1..Len(log) : log[i] \in LinesFrom(past)
    OBVIOUS
  <1>2. \A i \in 1..Len(log) : log[i] # Junk /\ log[i].intact = TRUE /\ log[i].seq = i
    BY <1>1 DEF Sound
  <1>3. \A i \in 1..Len(log) : /\ log[i] = past[log[i].hash].entry /\ log[i].hash \in DOMAIN past
                               /\ log[i] \in Entry
    BY <1>1, <1>2, LineIs
  <1>4. \A i \in 1..Len(log) : log[i].hash \in Nat \ {0}
    BY <1>3, PastIs
  <1>5. ASSUME NEW i \in 1..Len(log), NEW k \in 1..Len(log), log[i].hash = log[k].hash
        PROVE  i = k
    <2>1. log[i] = log[k]
      BY <1>3, <1>5
    <2> QED BY <1>2, <2>1
  <1> QED BY <1>4, <1>5

\* A temporary file that continues into the active file is what is pending.
LEMMA PendingIs ==
  ASSUME NEW f, NEW t, NEW stamp, Named(f, t, stamp), NEW head
  PROVE  /\ \A n \in LinkingIn(t, head) : /\ PendingIn(t, head) = t[n] /\ n \in DOMAIN t \ {Active}
                                          /\ t[n] # <<>>
         /\ PendingIn(t, head) = <<>> <=> LinkingIn(t, head) = {}
  <1>1. ASSUME NEW n \in LinkingIn(t, head)
        PROVE  PendingIn(t, head) = t[n] /\ n \in DOMAIN t \ {Active} /\ t[n] # <<>>
    <2> DEFINE m == CHOOSE x \in LinkingIn(t, head) : TRUE
    <2>1. m \in LinkingIn(t, head)
      OBVIOUS
    <2> HIDE DEF m
    <2>2. m = n
      BY <1>1, <2>1 DEF LinkingIn, Named
    <2>3. PendingIn(t, head) = t[m]
      BY DEF PendingIn, m
    <2>4. t[n] # <<>>
      BY <1>1 DEF LinkingIn, EntryPlaces
    <2> QED BY <1>1, <2>2, <2>3, <2>4 DEF LinkingIn
  <1>2. LinkingIn(t, head) = {} => PendingIn(t, head) = <<>>
    BY DEF PendingIn
  <1> QED BY <1>1, <1>2

\* A copy of the beginning of the active file does not continue into it.
LEMMA CopyDoesNotLink ==
  ASSUME NEW past, NEW f, NEW t, NEW text, FilesOf(past, f, t, text), Chained(f, t, text),
         NEW n \in 0..Len(Body(text)), NEW lines \in Seq(LinesFrom(past)),
         Len(lines) = n, \A i \in 1..n : lines[i] = Body(text)[i]
  PROVE  ~(HeadIn(text) # NoHead /\ EntryPlaces(lines) # {} /\ LastHash(lines) = HeadIn(text))
  <1> DEFINE L == LinesFrom(past)
             body == Body(text)
             ahead == Ahead(f, t, text)
             log == Whole(f, t, text)
             m == Len(body)
             k == Len(ahead)
  <1>1. body \in Seq(L) /\ ahead \in Seq(L) /\ log \in Seq(L) /\ LinesOf(text) \in Seq(L)
    BY WholeTyped
  <1>2. \A i \in 1..m : body[i] # Junk
    BY <1>1, BodyIs DEF Chained, CutAtEnd
  <1>3. /\ Len(log) = k + m /\ k \in Nat /\ m \in Nat
        /\ \A i \in 1..k : log[i] = ahead[i]
        /\ \A i \in 1..m : log[k + i] = body[i]
    <2>1. log = ahead \o body
      BY DEF Whole
    <2> HIDE DEF log, ahead, body, L
    <2> QED BY <1>1, <2>1, TwoParts
  <1>4. /\ \A i \in 1..Len(log) : log[i].hash \in Nat \ {0}
        /\ \A i, j \in 1..Len(log) : log[i].hash = log[j].hash => i = j
    BY <1>1, HashesDiffer DEF Chained, FilesOf
  <1>5. HeadIn(text) = IF body = <<>> THEN NoHead ELSE EndHash(ahead)
    BY EndsOfWhole
  <1>6. (ahead = <<>> <=> k = 0)
    BY <1>1, <1>3
  <1> HIDE DEF body, ahead, log, m, k, L
  <1>7. n \in Nat /\ n <= m
    BY <1>3 DEF m, body
  <1>8. EntryPlaces(lines) = 1..n
    <2>1. \A i \in 1..n : lines[i] # Junk
      <3>1. \A i \in 1..n : i \in 1..m
        BY <1>3, <1>7
      <3> QED BY <1>2, <3>1 DEF body
    <2> QED BY <2>1 DEF EntryPlaces
  <1>9. CASE n = 0
    BY <1>8, <1>9
  <1>10. CASE n # 0
    <2>1. LastHash(lines) = lines[n].hash
      <3>1. n \in 0..Len(lines)
        BY <1>7
      <3> QED BY <1>8, <1>10, <3>1, EndsOf
    <2>2. n \in 1..n /\ n \in 1..m /\ k + n \in 1..Len(log) /\ (k # 0 => k \in 1..Len(log) /\ k \in 1..k)
      BY <1>3, <1>7, <1>10
    <2>3. lines[n] = log[k + n]
      BY <1>3, <2>2 DEF body
    <2>4. k # 0 => ahead[k].hash # log[k + n].hash
      <3>1. k # 0 => ahead[k] = log[k] /\ k # k + n
        BY <1>3, <1>7, <1>10, <2>2
      <3> QED BY <1>4, <2>2, <3>1
    <2>5. log[k + n].hash # GENESIS_HASH
      BY <1>4, <2>2 DEF GENESIS_HASH
    <2>6. EndHash(ahead) # lines[n].hash
      BY <1>6, <2>3, <2>4, <2>5 DEF EndHash, k
    <2> QED BY <1>5, <2>1, <2>6
  <1> QED BY <1>9, <1>10

-----------------------------------------------------------------------------
(* What becomes of the log when the files change.                          *)

\* What the active file continues, its first entry tells.
LEMMA HeadOfBody ==
  ASSUME NEW T, NEW text, LinesOf(text) \in Seq(T), CutAtEnd(text)
  PROVE  HeadIn(text) = IF Body(text) = <<>> THEN NoHead ELSE Body(text)[1].prev
  <1> DEFINE lines == LinesOf(text)
             m == Len(Body(text))
  <1>1. /\ Body(text) \in Seq(T) /\ m \in 0..Len(lines) /\ EntryPlaces(lines) = 1..m
        /\ \A i \in 1..m : Body(text)[i] = lines[i]
    BY BodyIs DEF CutAtEnd
  <1>2. /\ m = 0 => HeadOf(lines) = NoHead
        /\ m # 0 => HeadOf(lines) = lines[1].prev
    <2> HIDE DEF lines, m
    <2> QED BY <1>1, EndsOf DEF lines
  <1>3. (Body(text) = <<>> <=> m = 0) /\ (m # 0 => 1 \in 1..m)
    BY <1>1
  <1> HIDE DEF m
  <1> QED BY <1>1, <1>2, <1>3 DEF HeadIn

\* The active file holds the same entries as before.
LEMMA SameBody ==
  ASSUME NEW past, NEW f, NEW t, NEW text, FilesOf(past, f, t, text), Chained(f, t, text),
         NEW text2, FilesOf(past, f, t, text2), Body(text2) = Body(text), CutAtEnd(text2)
  PROVE  /\ Whole(f, t, text2) = Whole(f, t, text) /\ Chained(f, t, text2)
         /\ HeadIn(text2) = HeadIn(text)
  <1>1. HeadIn(text2) = HeadIn(text)
    <2>1. LinesOf(text) \in Seq(LinesFrom(past)) /\ LinesOf(text2) \in Seq(LinesFrom(past))
      BY WholeTyped
    <2>2. CutAtEnd(text)
      BY DEF Chained
    <2> QED BY <2>1, <2>2, HeadOfBody
  <1>2. Whole(f, t, text2) = Whole(f, t, text)
    BY <1>1 DEF Whole, Ahead
  <1> QED BY <1>1, <1>2 DEF Chained

\* An entry is in the file, behind the others.
LEMMA OneMore ==
  ASSUME NEW past, NEW f, NEW t, NEW text, FilesOf(past, f, t, text), Chained(f, t, text),
         NEW entry \in LinesFrom(past), Continues(entry, Whole(f, t, text)),
         NEW text2, FilesOf(past, f, t, text2), Body(text2) = Append(Body(text), entry),
         CutAtEnd(text2)
  PROVE  /\ Whole(f, t, text2) = Append(Whole(f, t, text), entry)
         /\ Chained(f, t, text2)
         /\ PendingIn(t, HeadIn(text2)) = PendingIn(t, HeadIn(text))
         /\ Body(text) # <<>> => HeadIn(text2) = HeadIn(text)
  <1> DEFINE L == LinesFrom(past)
             body == Body(text)
             log == Whole(f, t, text)
             n == Len(log)
  <1>1. /\ LinesOf(text) \in Seq(L) /\ LinesOf(text2) \in Seq(L) /\ body \in Seq(L) /\ log \in Seq(L)
        /\ Ahead(f, t, text) \in Seq(L)
    BY WholeTyped
  <1>2. /\ HeadIn(text) = IF body = <<>> THEN NoHead ELSE body[1].prev
        /\ HeadIn(text2) = Append(body, entry)[1].prev
    <2>1. CutAtEnd(text)
      BY DEF Chained
    <2>2. Append(body, entry) # <<>>
      BY <1>1, AppendProperties
    <2> HIDE DEF body, L
    <2>3. HeadIn(text) = IF body = <<>> THEN NoHead ELSE body[1].prev
      BY <1>1, <2>1, HeadOfBody DEF body
    <2>4. HeadIn(text2) = IF Append(body, entry) = <<>> THEN NoHead ELSE Append(body, entry)[1].prev
      BY <1>1, HeadOfBody DEF body
    <2> QED BY <2>2, <2>3, <2>4
  <1>3. body # <<>> => HeadIn(text2) = HeadIn(text)
    <2>1. body # <<>> => 1 \in 1..Len(body)
      BY <1>1
    <2>2. body # <<>> => Append(body, entry)[1] = body[1]
      BY <1>1, <2>1
    <2> HIDE DEF body
    <2> QED BY <1>2, <2>2
  <1>4. PendingIn(t, HeadIn(text2)) = PendingIn(t, HeadIn(text))
    <2>1. CASE body = <<>>
      <3>1. log = <<>>
        BY <2>1 DEF Chained
      <3>2. HeadIn(text2) = GENESIS_HASH
        <4>1. Append(body, entry)[1] = entry
          BY <1>1, <2>1
        <4> QED BY <1>2, <3>1, <4>1 DEF EndHash, Continues
      <3>3. LinkingIn(t, NoHead) = {}
        BY DEF LinkingIn
      <3>4. LinkingIn(t, GENESIS_HASH) = {}
        <4>1. ASSUME NEW k \in DOMAIN t, EntryPlaces(t[k]) # {} PROVE LastHash(t[k]) # GENESIS_HASH
          <5>1. t[k] \in Seq(L)
            BY DEF FilesOf
          <5>2. LastEntry(t[k]) \in L /\ LastEntry(t[k]) # Junk
            BY <4>1, <5>1, EntriesAtEnds
          <5>3. LastEntry(t[k]) \in Entry
            BY <5>2, LineIs DEF FilesOf
          <5>4. LastEntry(t[k]).hash # 0
            BY <5>3 DEF Entry, Hashes
          <5> QED BY <4>1, <5>4 DEF LastHash, GENESIS_HASH
        <4> QED BY <4>1 DEF LinkingIn
      <3> QED BY <1>2, <2>1, <3>2, <3>3, <3>4 DEF PendingIn
    <2>2. CASE body # <<>>
      BY <1>3, <2>2
    <2> QED BY <2>1, <2>2
  <1>5. Whole(f, t, text2) = Append(log, entry)
    <2>1. Ahead(f, t, text2) = Ahead(f, t, text)
      BY <1>4 DEF Ahead
    <2>2. Whole(f, t, text2) = Ahead(f, t, text) \o Append(body, entry)
      BY <2>1 DEF Whole
    <2>3. log = Ahead(f, t, text) \o body
      BY DEF Whole
    <2> DEFINE a == Ahead(f, t, text)
    <2>4. a \in Seq(L) /\ body \in Seq(L) /\ entry \in L
      BY <1>1
    <2> HIDE DEF a, body, L, log
    <2>5. a \o Append(body, entry) = Append(a \o body, entry)
      BY <2>4
    <2> QED BY <2>2, <2>3, <2>5 DEF a
  <1>6. Chained(f, t, text2)
    <2>1. Append(body, entry) # <<>>
      BY <1>1, AppendProperties
    <2>2. Sound(log)
      BY DEF Chained
    <2> DEFINE longer == Append(log, entry)
    <2>3. /\ n \in Nat /\ DOMAIN log = 1..n /\ DOMAIN longer = 1..n + 1 /\ longer[n + 1] = entry
          /\ \A i \in 1..n : longer[i] = log[i]
          /\ log = <<>> <=> n = 0
      BY <1>1
    <2> HIDE DEF longer, log, n
    <2>4. ASSUME NEW i \in 1..n + 1
          PROVE  /\ longer[i] # Junk /\ longer[i].intact = TRUE /\ longer[i].seq = i
                 /\ longer[i].prev = IF i = 1 THEN GENESIS_HASH ELSE longer[i - 1].hash
      <3>1. CASE i = n + 1
        <4>1. longer[i] = entry /\ (i = 1 <=> n = 0) /\ i - 1 = n /\ (n # 0 => n \in 1..n)
          BY <2>3, <3>1
        <4>2. entry.seq = i
          BY <3>1 DEF n, log, Continues
        <4>3. entry.prev = IF n = 0 THEN GENESIS_HASH ELSE log[n].hash
          BY <2>3 DEF EndHash, n, log, Continues
        <4> QED BY <2>3, <4>1, <4>2, <4>3 DEF Continues
      <3>2. CASE i # n + 1
        <4>1. i \in 1..n /\ (i # 1 => i - 1 \in 1..n)
          BY <2>3, <3>2
        <4>2. longer[i] = log[i] /\ (i # 1 => longer[i - 1] = log[i - 1])
          BY <2>3, <4>1
        <4>3. /\ log[i] # Junk /\ log[i].intact = TRUE /\ log[i].seq = i
              /\ log[i].prev = IF i = 1 THEN GENESIS_HASH ELSE log[i - 1].hash
          BY <2>2, <2>3, <4>1 DEF Sound
        <4> QED BY <4>2, <4>3
      <3> QED BY <3>1, <3>2
    <2>5. Sound(longer)
      BY <2>3, <2>4 DEF Sound
    <2> QED BY <1>5, <2>1, <2>5 DEF Chained, longer
  <1> QED BY <1>3, <1>4, <1>5, <1>6

\* A leftover is taken away that does not continue into the active file.
LEMMA OneLess ==
  ASSUME NEW f, NEW t, NEW stamp, Named(f, t, stamp), NEW head, NEW n,
         n \notin LinkingIn(t, head) \/ PendingIn(t, head) = <<>>
  PROVE  PendingIn(Removed(t, n), head) = PendingIn(t, head) /\ Named(f, Removed(t, n), stamp)
  <1> DEFINE t2 == Removed(t, n)
  <1>1. DOMAIN t2 = DOMAIN t \ {n} /\ \A a \in DOMAIN t2 : t2[a] = t[a]
    BY DEF Removed
  <1> HIDE DEF t2
  <1>2. Named(f, t2, stamp)
    BY <1>1 DEF Named
  <1>3. n \notin LinkingIn(t, head)
    BY PendingIs
  <1>4. LinkingIn(t2, head) = LinkingIn(t, head)
    BY <1>1, <1>3 DEF LinkingIn
  <1>5. PendingIn(t2, head) = PendingIn(t, head)
    <2>1. CASE LinkingIn(t, head) = {}
      BY <1>4, <2>1 DEF PendingIn
    <2>2. CASE LinkingIn(t, head) # {}
      <3>1. PICK a \in LinkingIn(t, head) : TRUE
        BY <2>2
      <3>2. PendingIn(t, head) = t[a]
        BY PendingIs
      <3>3. PendingIn(t2, head) = t2[a]
        BY <1>2, <1>4, PendingIs
      <3>4. a \in DOMAIN t2
        BY <1>4 DEF LinkingIn
      <3> QED BY <1>1, <3>2, <3>3, <3>4
    <2> QED BY <2>1, <2>2
  <1> QED BY <1>2, <1>5 DEF t2

\* A copy of the beginning of the body.
CopyOf(lines, body) == Len(lines) <= Len(body) /\ \A i \in 1..Len(lines) : lines[i] = body[i]

\* Copies of what the active file begins with are not pending.
LEMMA OnlyCopies ==
  ASSUME NEW past, NEW f, NEW t, NEW text, FilesOf(past, f, t, text), Chained(f, t, text),
         NEW t2, t2 \in [DOMAIN t2 -> Seq(LinesFrom(past))],
         \A n \in DOMAIN t2 \ {Active} : CopyOf(t2[n], Body(text))
  PROVE  PendingIn(t2, HeadIn(text)) = <<>>
  <1>1. ASSUME NEW n \in DOMAIN t2 \ {Active}
        PROVE  ~(HeadIn(text) # NoHead /\ EntryPlaces(t2[n]) # {} /\ LastHash(t2[n]) = HeadIn(text))
    <2> DEFINE lines == t2[n]
               k == Len(lines)
    <2>1. lines \in Seq(LinesFrom(past)) /\ Body(text) \in Seq(LinesFrom(past))
      BY WholeTyped
    <2>2. CopyOf(lines, Body(text))
      OBVIOUS
    <2> HIDE DEF lines
    <2>3. k \in 0..Len(Body(text)) /\ \A i \in 1..k : lines[i] = Body(text)[i]
      BY <2>1, <2>2 DEF CopyOf
    <2> HIDE DEF k
    <2> QED BY <2>1, <2>3, CopyDoesNotLink DEF lines, k
  <1>2. LinkingIn(t2, HeadIn(text)) = {}
    BY <1>1 DEF LinkingIn
  <1> QED BY <1>2 DEF PendingIn

\* The log notes the archives as they are, with an entry more too.
LEMMA FiledMore ==
  ASSUME NEW T, NEW f, NEW log \in Seq(T), Filed(f, log), NEW entry,
         entry.kind = "rotation" => entry.path \in DOMAIN f /\ entry.after = LastHash(f[entry.path])
  PROVE  Filed(f, Append(log, entry))
  <1>1. /\ Len(log) \in Nat /\ DOMAIN log = 1..Len(log)
        /\ DOMAIN Append(log, entry) = 1..Len(log) + 1
        /\ \A i \in 1..Len(log) : Append(log, entry)[i] = log[i]
        /\ Append(log, entry)[Len(log) + 1] = entry
    OBVIOUS
  <1>2. \A i \in 1..Len(log) + 1 : i \in 1..Len(log) \/ i = Len(log) + 1
    BY <1>1
  <1> QED BY <1>1, <1>2 DEF Filed

\* A file without lines that were cut off.
LEMMA AllEntries ==
  ASSUME NEW T, NEW lines \in Seq(T), \A i \in DOMAIN lines : lines[i] # Junk, lines # <<>>
  PROVE  /\ EntryPlaces(lines) # {}
         /\ FirstSeq(lines) = lines[1].seq /\ LastHash(lines) = lines[Len(lines)].hash
  <1> DEFINE m == Len(lines)
  <1>1. m \in Nat \ {0} /\ DOMAIN lines = 1..m /\ 1 \in 1..m
    OBVIOUS
  <1>2. EntryPlaces(lines) = 1..m
    BY <1>1 DEF EntryPlaces
  <1>3. m \in 0..Len(lines) /\ m # 0
    BY <1>1
  <1> HIDE DEF m
  <1> QED BY <1>1, <1>2, <1>3, EndsOf DEF m

\* What is pending becomes an archive.
LEMMA Completed ==
  ASSUME NEW past, NEW f, NEW t, NEW text, FilesOf(past, f, t, text), Chained(f, t, text),
         NEW stamp, Named(f, t, stamp), Filed(f, Whole(f, t, text)),
         NEW n \in LinkingIn(t, HeadIn(text))
  PROVE  /\ Whole(With(f, n, t[n]), Removed(t, n), text) = Whole(f, t, text)
         /\ PendingIn(Removed(t, n), HeadIn(text)) = <<>>
         /\ Chained(With(f, n, t[n]), Removed(t, n), text)
         /\ Named(With(f, n, t[n]), Removed(t, n), stamp)
         /\ Filed(With(f, n, t[n]), Whole(f, t, text))
  <1> DEFINE f2 == With(f, n, t[n])
             t2 == Removed(t, n)
             L == LinesFrom(past)
             old == ArchivedIn(f)
             new == t[n]
             log == Whole(f, t, text)
             body == Body(text)
  <1>1. /\ PendingIn(t, HeadIn(text)) = new /\ n \in DOMAIN t \ {Active} /\ new # <<>>
        /\ DOMAIN t2 = DOMAIN t \ {n} /\ DOMAIN f2 = DOMAIN f \cup {n}
        /\ \A a \in DOMAIN t2 : t2[a] = t[a]
        /\ f2[n] = new /\ n \notin DOMAIN f /\ \A a \in DOMAIN f : f2[a] = f[a] /\ a # n
    <2>1. PendingIn(t, HeadIn(text)) = new /\ n \in DOMAIN t \ {Active} /\ new # <<>>
      BY PendingIs
    <2>2. n \notin DOMAIN f
      BY <2>1 DEF Named
    <2> QED BY <2>1, <2>2 DEF With, Removed
  <1>2. old \in Seq(L) /\ new \in Seq(L) /\ body \in Seq(L) /\ log \in Seq(L) /\ old \o new \in Seq(L)
    <2>1. old \in Seq(L) /\ new \in Seq(L) /\ body \in Seq(L) /\ log \in Seq(L)
      BY <1>1, WholeTyped DEF FilesOf
    <2> HIDE DEF old, new, L
    <2> QED BY <2>1, TwoParts
  <1>3. log = (old \o new) \o body
    BY <1>1 DEF Whole, Ahead
  <1>4. /\ \A i \in 1..Len(log) : log[i] # Junk /\ log[i].seq = i
        /\ DOMAIN log = 1..Len(log)
    <2>1. DOMAIN log = 1..Len(log)
      BY <1>2
    <2> QED BY <2>1 DEF Chained, Sound
  <1> HIDE DEF f2, t2, L, old, new, log, body
  <1>5. /\ Len(old) \in Nat /\ Len(new) \in Nat \ {0} /\ DOMAIN new = 1..Len(new)
        /\ Len(old \o new) = Len(old) + Len(new)
        /\ \A i \in 1..Len(new) : new[i] # Junk /\ new[i].seq = Len(old) + i
    <2>1. /\ Len(old) \in Nat /\ Len(new) \in Nat /\ DOMAIN new = 1..Len(new) /\ Len(body) \in Nat
          /\ Len(new) # 0
      BY <1>1, <1>2
    <2>2. /\ Len(old \o new) = Len(old) + Len(new)
          /\ \A i \in 1..Len(new) : (old \o new)[Len(old) + i] = new[i]
      BY <1>2, TwoParts
    <2>3. /\ Len(log) = Len(old \o new) + Len(body)
          /\ \A i \in 1..Len(old \o new) : log[i] = (old \o new)[i]
      <3> DEFINE both == old \o new
      <3>1. both \in Seq(L) /\ log = both \o body
        BY <1>2, <1>3
      <3> HIDE DEF both
      <3>2. Len(log) = Len(both) + Len(body) /\ \A i \in 1..Len(both) : log[i] = both[i]
        BY <1>2, <3>1, TwoParts
      <3> QED BY <3>2 DEF both
    <2>4. ASSUME NEW i \in 1..Len(new) PROVE new[i] # Junk /\ new[i].seq = Len(old) + i
      <3>1. Len(old) + i \in 1..Len(old \o new) /\ Len(old) + i \in 1..Len(log)
        BY <2>1, <2>2, <2>3
      <3>2. new[i] = log[Len(old) + i]
        BY <2>2, <2>3, <3>1
      <3> QED BY <1>4, <3>1, <3>2
    <2> QED BY <2>1, <2>2, <2>4
  <1>6. ArchivedIn(f2) = old \o new
    <2>1. FirstSeq(new) = Len(old) + 1
      <3>1. FirstSeq(new) = new[1].seq /\ 1 \in 1..Len(new)
        BY <1>1, <1>2, <1>5, AllEntries
      <3> QED BY <1>5, <3>1
    <2>2. ASSUME NEW a \in DOMAIN f PROVE FirstSeq(f[a]) < FirstSeq(new)
      <3>1. f[a] \in Seq(L) /\ f[a] # <<>> /\ \A i \in DOMAIN f[a] : f[a][i] # Junk
        BY DEF FilesOf, Filed, L
      <3>2. FirstSeq(f[a]) = f[a][1].seq /\ 1 \in DOMAIN f[a]
        <4>1. 1 \in DOMAIN f[a]
          BY <3>1
        <4> QED BY <3>1, <4>1, AllEntries
      <3>3. f[a][1].seq <= Len(old)
        BY <3>2 DEF Filed, old
      <3>4. FirstSeq(f[a]) \in Int
        BY <3>1, EndsTyped DEF FilesOf, L
      <3> QED BY <1>5, <2>1, <3>2, <3>3, <3>4
    <2>3. /\ Remembers(past) /\ f \in [DOMAIN f -> Seq(LinesFrom(past))]
          /\ IsFiniteSet(DOMAIN f) /\ DOMAIN f \subseteq Nat
          /\ n \in Nat \ DOMAIN f /\ new \in Seq(LinesFrom(past))
      BY <1>1, <1>2 DEF FilesOf, L
    <2>4. ArchivedIn(With(f, n, new)) = ArchivedIn(f) \o new
      BY <2>2, <2>3, ArchivedMore
    <2> QED BY <2>4 DEF f2, old, new
  <1>7. \A head : LinkingIn(t2, head) = {}
    <2>1. \A a \in DOMAIN t2 : a = Active
      BY <1>1 DEF Named
    <2> QED BY <2>1 DEF LinkingIn
  <1>8. PendingIn(t2, HeadIn(text)) = <<>>
    BY <1>7 DEF PendingIn
  <1>9. Whole(f2, t2, text) = log
    <2>1. Ahead(f2, t2, text) = (old \o new) \o <<>>
      BY <1>6, <1>8 DEF Ahead
    <2>2. (old \o new) \o <<>> = old \o new
      <3> DEFINE both == old \o new
      <3>1. both \in Seq(L)
        BY <1>2
      <3> HIDE DEF both
      <3>2. both \o <<>> = both
        BY <3>1, TwoParts
      <3> QED BY <3>2 DEF both
    <2> QED BY <1>3, <2>1, <2>2 DEF Whole, body
  <1>10. Chained(f2, t2, text)
    BY <1>9 DEF Chained, log
  <1>11. Named(f2, t2, stamp)
    BY <1>1 DEF Named
  <1>12. Filed(f2, log)
    <2>1. ASSUME NEW a \in DOMAIN f2
          PROVE  /\ f2[a] # <<>>
                 /\ \A i \in DOMAIN f2[a] : f2[a][i] # Junk /\ f2[a][i].seq <= Len(old \o new)
      <3>1. CASE a = n
        BY <1>1, <1>5, <3>1
      <3>2. CASE a # n
        <4>1. a \in DOMAIN f /\ f2[a] = f[a] /\ f[a] \in Seq(L)
          BY <1>1, <3>2 DEF FilesOf, L
        <4>2. ASSUME NEW i \in DOMAIN f[a] PROVE f[a][i] # Junk /\ f[a][i].seq <= Len(old \o new)
          <5>1. f[a][i] # Junk /\ f[a][i].seq <= Len(old)
            BY <4>1 DEF Filed, old
          <5>2. f[a][i] \in L
            BY <4>1
          <5>3. f[a][i] \in Entry
            BY <5>1, <5>2, LineIs DEF FilesOf, L
          <5>4. f[a][i].seq \in Nat
            BY <5>3 DEF Entry
          <5> QED BY <1>5, <5>1, <5>4
        <4> QED BY <4>1, <4>2 DEF Filed
      <3> QED BY <3>1, <3>2
    <2>2. \A i \in DOMAIN log : log[i].kind = "rotation" =>
            log[i].path \in DOMAIN f2 /\ log[i].after = LastHash(f2[log[i].path])
      BY <1>1 DEF Filed, log
    <2> QED BY <1>6, <2>1, <2>2 DEF Filed
  <1> QED BY <1>8, <1>9, <1>10, <1>11, <1>12 DEF f2, t2, log, new

\* A rotation has written both halves of the file.
Halved(L, t, text, stamp, older, newer, text2) ==
  /\ older \in Seq(L) /\ newer \in Seq(L)
  /\ stamp # Active /\ older # <<>> /\ newer # <<>> /\ LinesOf(text) = older \o newer
  /\ \A i \in DOMAIN LinesOf(text) : LinesOf(text)[i] # Junk
  /\ DOMAIN t = {stamp, Active} /\ t[stamp] = older
  /\ text2 = [lines |-> newer, newline |-> TRUE] /\ text2 # NoFile

\* The newer half takes the place of the active file, and the older one is pending.
LEMMA Swapped ==
  ASSUME NEW past, NEW f, NEW t, NEW text, FilesOf(past, f, t, text), Chained(f, t, text),
         NEW stamp, Named(f, t, stamp), NEW older, NEW newer, NEW text2,
         Halved(LinesFrom(past), t, text, stamp, older, newer, text2)
  PROVE  /\ Whole(f, Removed(t, Active), text2) = Whole(f, t, text)
         /\ PendingIn(Removed(t, Active), HeadIn(text2)) = older
         /\ Chained(f, Removed(t, Active), text2)
         /\ Named(f, Removed(t, Active), stamp)
         /\ DOMAIN Removed(t, Active) = {stamp} /\ Removed(t, Active)[stamp] = older
  <1> DEFINE t2 == Removed(t, Active)
             L == LinesFrom(past)
             old == ArchivedIn(f)
             log == Whole(f, t, text)
             lines == LinesOf(text)
  <1>0. /\ older \in Seq(L) /\ newer \in Seq(L)
        /\ stamp # Active /\ older # <<>> /\ newer # <<>> /\ LinesOf(text) = older \o newer
        /\ \A i \in DOMAIN LinesOf(text) : LinesOf(text)[i] # Junk
        /\ DOMAIN t = {stamp, Active} /\ t[stamp] = older
        /\ text2 = [lines |-> newer, newline |-> TRUE] /\ text2 # NoFile
    BY DEF Halved
  <1> USE <1>0
  <1>1. DOMAIN t2 = {stamp} /\ t2[stamp] = older
    BY DEF Removed
  <1>2. Named(f, t2, stamp)
    BY <1>1 DEF Named
  <1>3. old \in Seq(L) /\ log \in Seq(L) /\ lines \in Seq(L)
    BY WholeTyped
  <1> HIDE DEF t2, L, old, log, lines
  <1>4. /\ Len(lines) = Len(older) + Len(newer) /\ DOMAIN lines = 1..Len(lines)
        /\ Len(older) \in Nat \ {0} /\ Len(newer) \in Nat \ {0}
        /\ DOMAIN older = 1..Len(older) /\ DOMAIN newer = 1..Len(newer)
        /\ \A i \in 1..Len(older) : lines[i] = older[i]
        /\ \A i \in 1..Len(newer) : lines[Len(older) + i] = newer[i]
    <2>1. older \in Seq(L) /\ newer \in Seq(L) /\ lines = older \o newer
      BY DEF L, lines
    <2>2. /\ Len(older) \in Nat /\ Len(older) # 0 /\ Len(newer) \in Nat /\ Len(newer) # 0
          /\ DOMAIN older = 1..Len(older) /\ DOMAIN newer = 1..Len(newer) /\ DOMAIN lines = 1..Len(lines)
      BY <1>3, <2>1
    <2> QED BY <2>1, <2>2, TwoParts
  <1>5. /\ \A i \in DOMAIN older : older[i] # Junk
        /\ \A i \in DOMAIN newer : newer[i] # Junk
    <2>1. \A i \in 1..Len(lines) : lines[i] # Junk
      BY <1>4 DEF lines
    <2>2. \A i \in 1..Len(older) : i \in 1..Len(lines)
      BY <1>4
    <2>3. \A i \in 1..Len(newer) : Len(older) + i \in 1..Len(lines)
      BY <1>4
    <2> QED BY <1>4, <2>1, <2>2, <2>3
  <1>6. Body(text) = lines /\ LinesOf(text2) = newer /\ Body(text2) = newer /\ CutAtEnd(text2)
    <2>1. LinesOf(text2) = newer
      BY DEF LinesOf
    <2>2. Len(newer) \in DOMAIN newer
      BY <1>4
    <2>4. Body(text2) = newer
      BY <1>5, <2>1, <2>2 DEF Body
    <2>5. CutAtEnd(text2)
      BY <1>5, <2>1 DEF CutAtEnd
    <2>3. Body(text) = lines
      <3>1. lines # <<>> => Len(lines) \in DOMAIN lines
        BY <1>4
      <3> QED BY <3>1 DEF Body, lines
    <2> QED BY <2>1, <2>3, <2>4, <2>5
  <1>7. PendingIn(t, HeadIn(text)) = <<>>
    <2>1. CopyOf(older, Body(text))
      BY <1>4, <1>6 DEF CopyOf
    <2>2. \A a \in DOMAIN t \ {Active} : CopyOf(t[a], Body(text))
      BY <2>1
    <2> QED BY <2>2, OnlyCopies DEF FilesOf
  <1>8. log = old \o lines
    <2>1. old \o <<>> = old
      BY <1>3, TwoParts
    <2> QED BY <1>6, <1>7, <2>1 DEF Whole, Ahead, log, old
  <1>9. /\ Len(old) \in Nat /\ Len(log) = Len(old) + Len(lines) /\ DOMAIN log = 1..Len(log)
        /\ \A i \in 1..Len(lines) : log[Len(old) + i] = lines[i]
    BY <1>3, <1>8, TwoParts
  <1>10. HeadIn(text2) = newer[1].prev
    <2>1. newer \in Seq(L)
      BY DEF L
    <2> QED BY <1>6, <2>1, HeadOfBody
  <1>11. newer[1].prev = older[Len(older)].hash /\ older[Len(older)].hash \in Nat
    <2> DEFINE k == Len(old) + Len(older)
    <2>1. /\ k \in 1..Len(log) /\ k + 1 \in 1..Len(log) /\ k + 1 # 1 /\ (k + 1) - 1 = k
          /\ Len(older) \in 1..Len(lines) /\ Len(older) + 1 \in 1..Len(lines) /\ 1 \in 1..Len(newer)
          /\ Len(older) \in 1..Len(older) /\ Len(old) + (Len(older) + 1) = k + 1
      BY <1>4, <1>9
    <2>2. log[k + 1] = newer[1] /\ log[k] = older[Len(older)]
      <3>1. log[Len(old) + (Len(older) + 1)] = lines[Len(older) + 1]
        BY <1>9, <2>1
      <3>2. log[Len(old) + Len(older)] = lines[Len(older)]
        BY <1>9, <2>1
      <3> QED BY <1>4, <2>1, <3>1, <3>2
    <2> HIDE DEF k
    <2>3. Sound(log)
      BY DEF Chained, log
    <2>4. log[k + 1].prev = IF k + 1 = 1 THEN GENESIS_HASH ELSE log[(k + 1) - 1].hash
      BY <1>9, <2>1, <2>3 DEF Sound
    <2>5. log[k].hash \in Nat
      BY <1>3, <2>1, <2>3, HashesDiffer DEF FilesOf, L
    <2> QED BY <2>1, <2>2, <2>4, <2>5
  <1>12. PendingIn(t2, HeadIn(text2)) = older
    <2>1. LastHash(older) = older[Len(older)].hash /\ EntryPlaces(older) # {}
      BY <1>5, AllEntries
    <2>2. stamp \in LinkingIn(t2, HeadIn(text2))
      BY <1>1, <1>10, <1>11, <2>1 DEF LinkingIn, NoHead
    <2>3. PendingIn(t2, HeadIn(text2)) = t2[stamp]
      BY <1>2, <2>2, PendingIs
    <2> QED BY <1>1, <2>3
  <1>13. Whole(f, t2, text2) = log
    <2>1. Whole(f, t2, text2) = (old \o older) \o newer
      BY <1>6, <1>12 DEF Whole, Ahead, old
    <2>2. older \in Seq(L) /\ newer \in Seq(L) /\ lines = older \o newer
      BY DEF L, lines
    <2>3. (old \o older) \o newer = old \o (older \o newer)
      BY <1>3, <2>2, ConcatAssociative
    <2> QED BY <1>8, <2>1, <2>2, <2>3
  <1>14. Chained(f, t2, text2)
    BY <1>6, <1>13 DEF Chained, log
  <1> QED BY <1>1, <1>2, <1>12, <1>13, <1>14 DEF t2, log

-----------------------------------------------------------------------------
(* The files of a step.                                                    *)

\* What the invariant says of the files.
LEMMA FilesNow ==
  ASSUME JournalIInv PROVE FilesOf(history, archives, tmps, active)
  BY DEF JournalIInv, Holds, FilesOf

\* It says so of the files after a step, too.
LEMMA FilesThen ==
  ASSUME JournalIInv' PROVE FilesOf(history', archives', tmps', active')
  BY DEF JournalIInv, Holds, FilesOf

\* With more remembered they are still lines.
LEMMA FilesMore ==
  ASSUME NEW past, NEW f, NEW t, NEW text, FilesOf(past, f, t, text),
         NEW more, Remembers(more), LinesFrom(past) \subseteq LinesFrom(more)
  PROVE  FilesOf(more, f, t, text)
  <1>1. Seq(LinesFrom(past)) \subseteq Seq(LinesFrom(more))
    BY SeqGrows
  <1>2. /\ f \in [DOMAIN f -> Seq(LinesFrom(more))]
        /\ t \in [DOMAIN t -> Seq(LinesFrom(more))]
    BY <1>1 DEF FilesOf
  <1>3. text # NoFile => text \in TextsOf(LinesFrom(more))
    BY <1>1 DEF FilesOf, TextsOf
  <1> QED BY <1>2, <1>3 DEF FilesOf

\* How numbers are ordered.
LEMMA Orders ==
  /\ \A a, b, c \in Nat : /\ a <= b /\ b <= c => a <= c
                          /\ a <= b /\ b < c => a < c
                          /\ a < b /\ b <= c => a < c
  /\ \A a \in Nat : a <= a /\ ~(a < a) /\ a < a + 1 /\ a <= a + 1 /\ a + 1 \in Nat
  OBVIOUS

\* A step of one window leaves the others where they are.
LEMMA OneGoesOn ==
  ASSUME JournalIInv, Honest, NEW w \in Writers,
         pc[w] # "idle" \/ \A v \in Writers : pc[v] = "idle",
         \A v \in Writers \ {w} : pc'[v] = pc[v] /\ st'[v] = st[v] /\ job'[v] = job[v],
         NEW log, log = Whole(archives', tmps', active'),
         Chained(archives', tmps', active'), Filed(archives', log), Named(archives', tmps', stamped'),
         recorded' \subseteq HashesOf(log),
         Len(log) \in Nat, Len(Now) <= Len(log),
         DOMAIN tmps' # {} => Len(Now) < Len(log) \/ DOMAIN tmps # {} \/ Behind(w, st, Len(Now)),
         IF pc'[w] \in {"idle", "stat"} THEN AtRest(st'[w], tmps', Len(log))
         ELSE AtWork(pc'[w], st'[w], job'[w], archives', tmps', active', stamped'),
         pc'[w] \in {"rotate", "write archive"} => Behind(w, st', Len(log))
  PROVE  Honest'
  <1>1. \A v \in Writers \ {w} : pc[v] = "idle" /\ pc'[v] = "idle"
    BY DEF Honest
  <1>2. Len(Now) \in Nat
    <2>1. Now \in Seq(LinesFrom(history))
      BY FilesNow, WholeTyped DEF Now
    <2> QED BY <2>1, LenProperties
  <1>3. ASSUME NEW v \in Writers \ {w} PROVE AtRest(st'[v], tmps', Len(log))
    <2>1. AtRest(st[v], tmps, Len(Now))
      BY <1>1 DEF Honest
    <2>2. st[v] # NoState => st[v].seq \in Nat
      BY DEF JournalIInv, Holds, StatesOf
    <2>3. SUFFICES ASSUME st[v] # NoState
                   PROVE  /\ Knows(st[v]) /\ Clean(st[v].seen) /\ st[v].seq <= Len(log)
                          /\ DOMAIN tmps' # {} => st[v].seq < Len(log)
      BY DEF AtRest
    <2>4. Knows(st[v]) /\ Clean(st[v].seen) /\ st[v].seq <= Len(log)
      <3>1. Knows(st[v]) /\ Clean(st[v].seen) /\ st[v].seq <= Len(Now)
        BY <2>1, <2>3 DEF AtRest
      <3>2. st[v].seq <= Len(log)
        BY <1>2, <2>2, <2>3, <3>1, Orders
      <3> QED BY <3>1, <3>2
    <2>5. ASSUME DOMAIN tmps' # {} PROVE st[v].seq < Len(log)
      <3>1. Len(Now) < Len(log) \/ DOMAIN tmps # {} \/ Behind(w, st, Len(Now))
        BY <2>5
      <3>2. DOMAIN tmps # {} => st[v].seq < Len(Now)
        BY <2>1, <2>3 DEF AtRest
      <3>3. Behind(w, st, Len(Now)) => st[v].seq < Len(Now)
        BY <2>3 DEF Behind
      <3>4. st[v].seq <= Len(Now) /\ st[v].seq \in Nat
        BY <2>1, <2>2, <2>3 DEF AtRest
      <3>6. Len(Now) < Len(log) => st[v].seq < Len(log)
        BY <1>2, <3>4, Orders
      <3>7. st[v].seq < Len(Now) => st[v].seq < Len(log)
        BY <1>2, <3>4, Orders
      <3> QED BY <3>1, <3>2, <3>3, <3>6, <3>7
    <2> QED BY <2>4, <2>5
  <1>4. Now' = log
    BY DEF Now
  <1>5. /\ Chained(archives, tmps, active)' /\ Filed(archives, Now)'
        /\ Named(archives, tmps, stamped)' /\ (recorded \subseteq HashesOf(Now))'
    BY <1>4
  <1>6. \A u, v \in Writers : pc'[u] # "idle" /\ pc'[v] # "idle" => u = v
    BY <1>1
  <1>7. ASSUME NEW v \in Writers
        PROVE  IF pc'[v] \in {"idle", "stat"} THEN AtRest(st'[v], tmps', Len(log))
               ELSE AtWork(pc'[v], st'[v], job'[v], archives', tmps', active', stamped')
    BY <1>1, <1>3
  <1>8. ASSUME NEW v \in Writers, pc'[v] \in {"rotate", "write archive"}
        PROVE  Behind(v, st', Len(log))
    <2>1. v = w
      BY <1>1, <1>8
    <2> QED BY <1>8, <2>1
  <1> QED BY <1>4, <1>5, <1>6, <1>7, <1>8 DEF Honest

-----------------------------------------------------------------------------
(* What a window knows that has read the file.                             *)

\* A text is a file.
LEMMA TextIsThere ==
  ASSUME NEW past, Remembers(past), NEW text \in TextsOf(LinesFrom(past))
  PROVE  text # NoFile /\ LinesOf(text) = text.lines /\ text.lines \in Seq(LinesFrom(past))
         /\ text.newline \in BOOLEAN
  <1>1. LinesFrom(past) \subseteq Entry \cup {Junk}
    BY LineIs
  <1>2. text.lines \in Seq(LinesFrom(past)) /\ text.newline \in BOOLEAN
    BY DEF TextsOf
  <1>3. Seq(LinesFrom(past)) \subseteq Seq(Entry \cup {Junk})
    BY <1>1, SeqGrows
  <1>4. text \in Text
    BY <1>3 DEF Text, TextsOf
  <1> QED BY <1>2, <1>4, JournalValues DEF LinesOf

\* A window that knows the file as it is knows the end of the log.
LEMMA CurrentIs ==
  ASSUME NEW past, NEW f, NEW t, NEW text, FilesOf(past, f, t, text), Chained(f, t, text),
         NEW s, Current(s, text)
  PROVE  /\ s.seen.lines = LinesOf(text) /\ Body(text) = LinesOf(text)
         /\ LinesOf(text) \in Seq(LinesFrom(past))
         /\ \A i \in DOMAIN LinesOf(text) : LinesOf(text)[i] # Junk
         /\ s.seq = Len(Whole(f, t, text)) /\ s.hash = EndHash(Whole(f, t, text))
         /\ s.lines = Len(LinesOf(text))
         /\ ~(LinesOf(text) # <<>> /\ ~text.newline)
         /\ ~(LinesOf(text) # <<>> /\ ~s.seen.newline) /\ LinesOf(s.seen) = LinesOf(text)
  <1> DEFINE lines == LinesOf(text)
  <1>1. EmptyText \in TextsOf(LinesFrom(past))
    BY DEF EmptyText, TextsOf
  <1>2. s.seen \in TextsOf(LinesFrom(past))
    BY <1>1 DEF Current, FilesOf
  <1>3. s.seen # NoFile /\ LinesOf(s.seen) = s.seen.lines
    BY <1>2, TextIsThere DEF FilesOf
  <1>4. s.seen.lines = lines
    <2>1. CASE text = NoFile
      BY <2>1 DEF Current, EmptyText, LinesOf
    <2>2. CASE text # NoFile
      BY <2>2 DEF Current, LinesOf
    <2> QED BY <2>1, <2>2
  <1>5. lines \in Seq(LinesFrom(past))
    BY WholeTyped
  <1>6. (\A i \in DOMAIN lines : lines[i] # Junk) /\ (s.seen.newline \/ lines = <<>>)
    BY <1>4 DEF Current, Clean
  <1>7. text # NoFile => text.newline \/ lines = <<>>
    BY <1>6 DEF Current
  <1>8. Body(text) = lines
    <2>1. lines # <<>> => Len(lines) \in DOMAIN lines
      BY <1>5
    <2> QED BY <1>6, <2>1 DEF Body
  <1>9. s.seq = LastSeq(lines) /\ s.hash = LastHash(lines) /\ s.lines = Len(lines)
    BY <1>4 DEF Current, Knows, TailIs
  <1>10. LastSeq(lines) = Len(Whole(f, t, text)) /\ LastHash(lines) = EndHash(Whole(f, t, text))
    BY EndsOfWhole
  <1>11. ~(lines # <<>> /\ ~text.newline)
    <2>1. text = NoFile => lines = <<>>
      BY DEF LinesOf
    <2> QED BY <1>7, <2>1
  <1> HIDE DEF lines
  <1> QED BY <1>3, <1>4, <1>5, <1>6, <1>8, <1>9, <1>10, <1>11 DEF lines

\* A window writes an entry behind the one it takes for the last.
GoesOn(L, s, entry, s2) ==
  /\ entry \in L /\ entry # Junk /\ entry.intact = TRUE
  /\ entry.seq = s.seq + 1 /\ entry.prev = s.hash
  /\ s2 = [seq |-> entry.seq, hash |-> entry.hash, lines |-> s.lines + 1,
            seen |-> Appended(s.seen, entry, TRUE)]

\* What a window that knows the file writes continues the log, and it knows the file still.
LEMMA Writes ==
  ASSUME NEW past, NEW f, NEW t, NEW text, FilesOf(past, f, t, text), Chained(f, t, text),
         NEW s, Current(s, text), NEW s2, NEW entry, GoesOn(LinesFrom(past), s, entry, s2),
         NEW newline \in BOOLEAN, FilesOf(past, f, t, Appended(text, entry, newline))
  PROVE  /\ Whole(f, t, Appended(text, entry, newline)) = Append(Whole(f, t, text), entry)
         /\ Chained(f, t, Appended(text, entry, newline))
         /\ PendingIn(t, HeadIn(Appended(text, entry, newline))) = PendingIn(t, HeadIn(text))
         /\ Body(text) # <<>> => HeadIn(Appended(text, entry, newline)) = HeadIn(text)
         /\ Body(text) = LinesOf(text)
         /\ LinesOf(Appended(text, entry, newline)) # <<>>
         /\ s.seq = Len(Whole(f, t, text))
         /\ newline => Current(s2, Appended(text, entry, newline))
  <1> DEFINE L == LinesFrom(past)
             lines == LinesOf(text)
             text2 == Appended(text, entry, newline)
             log == Whole(f, t, text)
  <1>0. /\ entry \in L /\ entry # Junk /\ entry.intact = TRUE
        /\ entry.seq = s.seq + 1 /\ entry.prev = s.hash
        /\ s2 = [seq |-> entry.seq, hash |-> entry.hash, lines |-> s.lines + 1,
                  seen |-> Appended(s.seen, entry, TRUE)]
    BY DEF GoesOn
  <1> USE <1>0
  <1>1. /\ s.seen.lines = lines /\ Body(text) = lines /\ lines \in Seq(L)
        /\ \A i \in DOMAIN lines : lines[i] # Junk
        /\ s.seq = Len(log) /\ s.hash = EndHash(log) /\ s.lines = Len(lines)
        /\ text2 = [lines |-> Append(lines, entry), newline |-> newline]
        /\ Appended(s.seen, entry, TRUE) = [lines |-> Append(lines, entry), newline |-> TRUE]
    <2>0. /\ ~(LinesOf(text) # <<>> /\ ~text.newline)
          /\ ~(LinesOf(text) # <<>> /\ ~s.seen.newline) /\ LinesOf(s.seen) = LinesOf(text)
      BY CurrentIs
    <2>1. /\ text2 = [lines |-> Append(lines, entry), newline |-> newline]
          /\ Appended(s.seen, entry, TRUE) = [lines |-> Append(lines, entry), newline |-> TRUE]
      BY <2>0 DEF Appended
    <2>2. /\ s.seen.lines = lines /\ Body(text) = lines /\ lines \in Seq(L)
          /\ \A i \in DOMAIN lines : lines[i] # Junk
          /\ s.seq = Len(log) /\ s.hash = EndHash(log) /\ s.lines = Len(lines)
      BY CurrentIs
    <2> HIDE DEF text2, lines, log, L
    <2> QED BY <2>1, <2>2
  <1> HIDE DEF text2, log, lines
  <1>2. text2.lines = Append(lines, entry) /\ text2.newline = newline
    BY <1>1
  <1>3. text2 # NoFile /\ LinesOf(text2) = Append(lines, entry)
    <2>1. entry \in L /\ lines \in Seq(L)
      BY <1>1
    <2> HIDE DEF L
    <2>2. Append(lines, entry) \in Seq(L)
      BY <2>1
    <2>3. text2 \in TextsOf(L)
      BY <1>1, <2>2 DEF TextsOf
    <2> QED BY <1>2, <2>3, TextIsThere DEF L, FilesOf
  <1>4. \A i \in DOMAIN Append(lines, entry) : Append(lines, entry)[i] # Junk
    <2>1. /\ DOMAIN lines = 1..Len(lines) /\ Len(lines) \in Nat
          /\ DOMAIN Append(lines, entry) = 1..Len(lines) + 1
          /\ \A i \in 1..Len(lines) : Append(lines, entry)[i] = lines[i]
          /\ Append(lines, entry)[Len(lines) + 1] = entry
      BY <1>1
    <2>2. \A i \in 1..Len(lines) + 1 : i \in 1..Len(lines) \/ i = Len(lines) + 1
      BY <2>1
    <2> QED BY <1>1, <2>1, <2>2
  <1>5. Append(lines, entry) # <<>> /\ Len(Append(lines, entry)) \in DOMAIN Append(lines, entry)
        /\ Len(Append(lines, entry)) = Len(lines) + 1
    BY <1>1
  <1>6. Body(text2) = Append(Body(text), entry) /\ CutAtEnd(text2)
    BY <1>1, <1>3, <1>4, <1>5 DEF Body, CutAtEnd
  <1>7. entry.seq = Len(log) + 1 /\ entry.prev = EndHash(log)
    BY <1>1
  <1>8. /\ Whole(f, t, text2) = Append(log, entry)
        /\ Chained(f, t, text2)
        /\ PendingIn(t, HeadIn(text2)) = PendingIn(t, HeadIn(text))
        /\ Body(text) # <<>> => HeadIn(text2) = HeadIn(text)
    <2>1. FilesOf(past, f, t, text2)
      BY DEF text2
    <2>2. Continues(entry, Whole(f, t, text))
      BY <1>7 DEF Continues, log
    <2>3. entry \in LinesFrom(past)
      OBVIOUS
    <2>4. /\ Whole(f, t, text2) = Append(Whole(f, t, text), entry)
          /\ Chained(f, t, text2)
          /\ PendingIn(t, HeadIn(text2)) = PendingIn(t, HeadIn(text))
          /\ Body(text) # <<>> => HeadIn(text2) = HeadIn(text)
      BY <1>6, <2>1, <2>2, <2>3, OneMore
    <2> QED BY <2>4 DEF log
  <1>9. ASSUME newline = TRUE PROVE Current(s2, text2)
    <2>1. s2.seen = text2
      BY <1>1, <1>9
    <2>2. Clean(s2.seen)
      BY <1>2, <1>4, <1>9, <2>1 DEF Clean
    <2>3. LastSeq(LinesOf(text2)) = Len(Append(log, entry)) /\ LastHash(LinesOf(text2)) = EndHash(Append(log, entry))
      <3>1. FilesOf(past, f, t, text2)
        BY DEF text2
      <3> QED BY <1>8, <3>1, EndsOfWhole
    <2>4. /\ Len(Append(log, entry)) = Len(log) + 1
          /\ EndHash(Append(log, entry)) = entry.hash
      <3>1. log \in Seq(L)
        BY WholeTyped DEF log
      <3> QED BY <3>1 DEF EndHash
    <2>5. s2.seq = entry.seq /\ s2.hash = entry.hash /\ s2.lines = Len(lines) + 1
      BY <1>1
    <2>6. Knows(s2)
      BY <1>2, <1>3, <1>5, <1>7, <2>1, <2>3, <2>4, <2>5 DEF Knows, TailIs
    <2> QED BY <1>3, <2>1, <2>2, <2>6 DEF Current
  <1> QED BY <1>1, <1>3, <1>5, <1>8, <1>9 DEF text2, log, lines

\* A line that was begun is not part of the log.
LEMMA Begun ==
  ASSUME NEW past, NEW f, NEW t, NEW text, FilesOf(past, f, t, text), Chained(f, t, text),
         NEW s, Current(s, text), NEW newline \in BOOLEAN, ~newline,
         NEW text2, text2 = Appended(text, Junk, newline), FilesOf(past, f, t, text2)
  PROVE  /\ Whole(f, t, text2) = Whole(f, t, text) /\ Chained(f, t, text2)
         /\ HeadIn(text2) = HeadIn(text)
  <1> DEFINE L == LinesFrom(past)
             lines == LinesOf(text)
             more == Append(lines, Junk)
  <1>1. /\ Body(text) = lines /\ lines \in Seq(L)
        /\ \A i \in DOMAIN lines : lines[i] # Junk
        /\ text2 = [lines |-> more, newline |-> newline]
    <2>0. /\ ~(LinesOf(text) # <<>> /\ ~text.newline)
          /\ ~(LinesOf(text) # <<>> /\ ~s.seen.newline) /\ LinesOf(s.seen) = LinesOf(text)
      BY CurrentIs
    <2>1. text2 = [lines |-> more, newline |-> newline]
      BY <2>0 DEF Appended
    <2>2. Body(text) = lines /\ lines \in Seq(L) /\ \A i \in DOMAIN lines : lines[i] # Junk
      BY CurrentIs
    <2> HIDE DEF lines, L, more
    <2> QED BY <2>1, <2>2
  <1>2. Junk \in L
    BY DEF LinesFrom
  <1> HIDE DEF lines, L
  <1>3. /\ more \in Seq(L) /\ Len(more) = Len(lines) + 1 /\ Len(lines) \in Nat
        /\ DOMAIN lines = 1..Len(lines) /\ DOMAIN more = 1..Len(lines) + 1
        /\ \A i \in 1..Len(lines) : more[i] = lines[i]
        /\ more[Len(lines) + 1] = Junk /\ more # <<>>
    BY <1>1, <1>2
  <1> HIDE DEF more
  <1>4. text2.lines = more /\ text2.newline = newline /\ LinesOf(text2) = more
    <2>1. text2 \in TextsOf(L)
      BY <1>1, <1>3 DEF TextsOf
    <2> QED BY <1>1, <2>1, TextIsThere DEF FilesOf, L
  <1>5. Body(text2) = lines
    <2>1. Body(text2) = SubSeq(more, 1, Len(lines))
      <3>1. Len(more) - 1 = Len(lines) /\ more[Len(more)] = Junk
        BY <1>3
      <3> QED BY <1>3, <1>4, <3>1 DEF Body
    <2>2. SubSeq(more, 1, Len(lines)) = lines
      <3>1. /\ SubSeq(more, 1, Len(lines)) \in Seq(L) /\ Len(SubSeq(more, 1, Len(lines))) = Len(lines)
            /\ \A i \in 1..Len(lines) : SubSeq(more, 1, Len(lines))[i] = more[i]
        BY <1>3
      <3> QED BY <1>1, <1>3, <3>1, SeqEqual
    <2> QED BY <2>1, <2>2
  <1>6. CutAtEnd(text2)
    <2>1. \A i \in 1..Len(lines) + 1 : i \in 1..Len(lines) \/ i = Len(lines) + 1
      BY <1>3
    <2> QED BY <1>1, <1>3, <1>4, <2>1 DEF CutAtEnd
  <1>7. Body(text2) = Body(text)
    BY <1>1, <1>5
  <1> QED BY <1>6, <1>7, SameBody

-----------------------------------------------------------------------------
(* Steps that leave the files alone.                                       *)

Grows(log, more) == more = log \/ \E entry : more = Append(log, entry)

\* What the other windows are at.
Alone(w) == pc[w] # "idle" \/ \A v \in Writers : pc[v] = "idle"
OthersStay(w) == \A v \in Writers \ {w} : pc'[v] = pc[v] /\ st'[v] = st[v] /\ job'[v] = job[v]

\* One window takes a step that leaves the files and what is recorded as they are.
LEMMA OnlyGoesOn ==
  ASSUME JournalIInv, Honest, NEW w \in Writers, Alone(w), OthersStay(w),
         UNCHANGED <<active, archives, tmps, recorded>>, Named(archives, tmps, stamped'),
         IF pc'[w] \in {"idle", "stat"} THEN AtRest(st'[w], tmps, Len(Now))
         ELSE AtWork(pc'[w], st'[w], job'[w], archives, tmps, active, stamped'),
         pc'[w] \in {"rotate", "write archive"} => Behind(w, st', Len(Now))
  PROVE  Honest' /\ Grows(Now, Whole(archives', tmps', active'))
  <1> DEFINE log == Now
  <1>1. log = Whole(archives', tmps', active')
    BY DEF Now
  <1>2. Len(log) \in Nat /\ Len(log) <= Len(log)
    <2>1. log \in Seq(LinesFrom(history))
      BY FilesNow, WholeTyped DEF Now
    <2> HIDE DEF log
    <2>2. Len(log) \in Nat
      BY <2>1, LenProperties
    <2> QED BY <2>2, Orders
  <1>3. /\ Chained(archives', tmps', active') /\ Filed(archives', log)
        /\ Named(archives', tmps', stamped') /\ recorded' \subseteq HashesOf(log)
    BY DEF Honest
  <1>4. /\ IF pc'[w] \in {"idle", "stat"} THEN AtRest(st'[w], tmps', Len(log))
           ELSE AtWork(pc'[w], st'[w], job'[w], archives', tmps', active', stamped')
        /\ pc'[w] \in {"rotate", "write archive"} => Behind(w, st', Len(log))
        /\ DOMAIN tmps' = DOMAIN tmps
    OBVIOUS
  <1>5. Honest'
    BY <1>1, <1>2, <1>3, <1>4, OneGoesOn DEF Alone, OthersStay
  <1> QED BY <1>1, <1>5 DEF Grows

\* What a step tells of a window.
LEMMA Steps1 ==
  ASSUME NEW w \in Writers, NEW step, JournalIInv, Goto(w, step)
  PROVE  pc'[w] = step /\ \A v \in Writers \ {w} : pc'[v] = pc[v]
  BY DEF Goto, JournalIInv, Holds

\* The types of what a window keeps.
LEMMA WindowTyped ==
  ASSUME JournalIInv, NEW w \in Writers
  PROVE  /\ job[w] \in JobsOf(LinesFrom(history))
         /\ job[w].older \in Seq(LinesFrom(history)) /\ job[w].newer \in Seq(LinesFrom(history))
         /\ job[w].stamp \in Nat /\ stamped \in Nat
         /\ pc[w] \notin {"idle", "stat"} \/ st[w] # NoState =>
              st[w] \in StatesOf(LinesFrom(history)) /\ st[w].seen \in TextsOf(LinesFrom(history))
              /\ st[w].seq \in Nat
         /\ active # NoFile => active \in TextsOf(LinesFrom(history))
  <1> DEFINE L == LinesFrom(history)
  <1>1. job[w] \in JobsOf(L) /\ (pc[w] \notin {"idle", "stat"} \/ st[w] # NoState => st[w] \in StatesOf(L))
        /\ stamped \in Nat /\ (active # NoFile => active \in TextsOf(L))
    BY DEF JournalIInv, Holds
  <1> QED BY <1>1 DEF JobsOf, StatesOf

\* An append starts when no other is under way.
LEMMA StartGoesOn ==
  ASSUME JournalIInv, Honest, NEW w \in Writers, Start(w), \A v \in Writers : pc[v] = "idle"
  PROVE  Honest' /\ Grows(Now, Whole(archives', tmps', active'))
  <1>1. /\ pc'[w] = "stat" /\ pc[w] = "idle" /\ OthersStay(w) /\ Alone(w) /\ st'[w] = st[w]
        /\ UNCHANGED <<active, archives, tmps, recorded, stamped>>
    BY Steps1 DEF Start, OthersStay, Alone, files, ghosts
  <1>2. AtRest(st[w], tmps, Len(Now)) /\ Named(archives, tmps, stamped)
    BY <1>1 DEF Honest
  <1> QED BY <1>1, <1>2, OnlyGoesOn

\* There is no file yet.
LEMMA StatMissingGoesOn ==
  ASSUME JournalIInv, Honest, NEW w \in Writers, StatMissing(w)
  PROVE  Honest' /\ Grows(Now, Whole(archives', tmps', active'))
  <1>1. /\ pc'[w] = "readdir" /\ pc[w] = "stat" /\ Alone(w) /\ active = NoFile
        /\ st' = [st EXCEPT ![w] = Genesis] /\ job' = [job EXCEPT ![w].head = NoHead]
        /\ \A v \in Writers \ {w} : pc'[v] = pc[v]
        /\ UNCHANGED <<active, archives, tmps, recorded, stamped>>
    BY Steps1 DEF StatMissing, Alone, files, ghosts
  <1>2. st'[w] = Genesis /\ job'[w].head = NoHead /\ OthersStay(w)
    <2>1. job[w] \in JobsOf(LinesFrom(history)) /\ st \in [Writers -> {NoState} \cup StatesOf(LinesFrom(history))]
          /\ job \in [Writers -> JobsOf(LinesFrom(history))]
      BY DEF JournalIInv, Holds
    <2>2. job'[w] = [job[w] EXCEPT !.head = NoHead]
      BY <1>1, <2>1
    <2>3. job'[w].head = NoHead
      BY <2>1, <2>2 DEF JobsOf
    <2> QED BY <1>1, <2>1, <2>3 DEF OthersStay
  <1>3. EntryPlaces(<<>>) = {}
    BY DEF EntryPlaces
  <1>4. Current(Genesis, active)
    BY <1>1, <1>3 DEF Genesis, Current, Knows, TailIs, Clean, EmptyText, LastSeq, LastHash
  <1>5. HeadIn(active) = NoHead
    BY <1>1, <1>3 DEF HeadIn, LinesOf, HeadOf
  <1>6. AtWork(pc'[w], st'[w], job'[w], archives, tmps, active, stamped)
    BY <1>1, <1>2, <1>4, <1>5 DEF AtWork, HeadKnown
  <1> QED BY <1>1, <1>2, <1>6, OnlyGoesOn DEF Honest

\* The file is as the window left it: nothing of a rotation is left over.
LEMMA StatKnownGoesOn ==
  ASSUME JournalIInv, Honest, NEW w \in Writers, StatKnown(w)
  PROVE  Honest' /\ Grows(Now, Whole(archives', tmps', active'))
  <1>1. /\ pc'[w] = "write" /\ pc[w] = "stat" /\ Alone(w) /\ OthersStay(w)
        /\ active # NoFile /\ st[w] # NoState /\ st[w].seen = active /\ st'[w] = st[w]
        /\ UNCHANGED <<active, archives, tmps, recorded, stamped>>
    BY Steps1 DEF StatKnown, Alone, OthersStay, UpToDate, files, ghosts
  <1>2. AtRest(st[w], tmps, Len(Now)) /\ Named(archives, tmps, stamped) /\ Chained(archives, tmps, active)
    BY <1>1 DEF Honest
  <1>3. Current(st[w], active)
    BY <1>1, <1>2 DEF AtRest, Current
  <1>4. st[w].seq = Len(Now) /\ st[w].seq \in Nat
    <2>1. st[w].seq = Len(Now)
      BY <1>2, <1>3, FilesNow, CurrentIs DEF Now
    <2> QED BY <1>1, <2>1, WindowTyped
  <1>5. DOMAIN tmps = {}
    <2>1. DOMAIN tmps # {} => st[w].seq < Len(Now)
      BY <1>1, <1>2 DEF AtRest
    <2> QED BY <1>4, <2>1, Orders
  <1>6. AtWork(pc'[w], st'[w], job'[w], archives, tmps, active, stamped)
    BY <1>1, <1>3, <1>5 DEF AtWork
  <1> QED BY <1>1, <1>2, <1>6, OnlyGoesOn

\* The window reads the file anew.
LEMMA StatAndReadGoesOn ==
  ASSUME JournalIInv, Honest, NEW w \in Writers, StatAndRead(w)
  PROVE  Honest' /\ Grows(Now, Whole(archives', tmps', active'))
  <1> DEFINE lines == active.lines
             state == [seq |-> IF EntryPlaces(lines) = {} THEN 0 ELSE LastEntry(lines).seq,
                       hash |-> LastHash(lines), lines |-> Len(lines), seen |-> active]
             next == IF active.newline \/ lines = <<>> THEN "readdir"
                     ELSE IF Last(lines) = Junk THEN "trim" ELSE "finish line"
  <1>1. /\ pc'[w] = next /\ pc[w] = "stat" /\ Alone(w) /\ active # NoFile
        /\ st' = [st EXCEPT ![w] = state] /\ job' = [job EXCEPT ![w].head = HeadOf(lines)]
        /\ \A v \in Writers \ {w} : pc'[v] = pc[v]
        /\ UNCHANGED <<active, archives, tmps, recorded, stamped>>
    BY Steps1 DEF StatAndRead, Alone, files, ghosts
  <1>2. st'[w] = state /\ job'[w].head = HeadOf(lines) /\ OthersStay(w)
    <2>1. job[w] \in JobsOf(LinesFrom(history)) /\ st \in [Writers -> {NoState} \cup StatesOf(LinesFrom(history))]
          /\ job \in [Writers -> JobsOf(LinesFrom(history))]
      BY DEF JournalIInv, Holds
    <2> HIDE DEF state, lines
    <2>2. job'[w] = [job[w] EXCEPT !.head = HeadOf(lines)]
      BY <1>1, <2>1
    <2>3. job'[w].head = HeadOf(lines)
      BY <2>1, <2>2 DEF JobsOf
    <2> QED BY <1>1, <2>1, <2>3 DEF OthersStay
  <1>3. LinesOf(active) = lines /\ lines \in Seq(LinesFrom(history))
    BY <1>1, WindowTyped, TextIsThere DEF JournalIInv
  <1>4. HeadIn(active) = HeadOf(lines) /\ Knows(state)
    BY <1>3 DEF HeadIn, Knows, TailIs, LastSeq
  <1>5. state.seen = active
    OBVIOUS
  <1> HIDE DEF state
  <1>6. HeadKnown(job'[w], tmps, active)
    BY <1>2, <1>4 DEF HeadKnown
  <1>7. CutAtEnd(active)
    BY DEF Honest, Chained
  <1>8. AtWork(pc'[w], st'[w], job'[w], archives, tmps, active, stamped)
    <2>1. CASE active.newline \/ lines = <<>>
      <3>1. Current(state, active)
        <4>1. \A i \in DOMAIN lines : lines[i] # Junk
          BY <1>3, <1>7, <2>1 DEF CutAtEnd
        <4> QED BY <1>1, <1>4, <1>5, <2>1, <4>1 DEF Current, Clean
      <3> QED BY <1>1, <1>2, <1>6, <2>1, <3>1 DEF AtWork
    <2>2. CASE ~(active.newline \/ lines = <<>>)
      <3>1. next \in {"trim", "finish line"} /\ (next = "trim" <=> lines[Len(lines)] = Junk)
        BY <2>2 DEF Last
      <3> HIDE DEF next
      <3> QED BY <1>1, <1>2, <1>4, <1>5, <1>6, <2>2, <3>1 DEF AtWork
    <2> QED BY <2>1, <2>2
  <1>9. next \notin {"idle", "stat", "rotate", "write archive"} /\ Named(archives, tmps, stamped)
    BY DEF Honest
  <1> HIDE DEF next
  <1> QED BY <1>1, <1>2, <1>8, <1>9, OnlyGoesOn

\* It looks for what a rotation has left over.
LEMMA ReaddirGoesOn ==
  ASSUME JournalIInv, Honest, NEW w \in Writers, Readdir(w)
  PROVE  Honest' /\ Grows(Now, Whole(archives', tmps', active'))
  <1> DEFINE next == IF DOMAIN tmps = {} THEN "write" ELSE "recover"
  <1>1. /\ pc'[w] = next /\ pc[w] = "readdir" /\ Alone(w)
        /\ job' = [job EXCEPT ![w].todo = DOMAIN tmps]
        /\ \A v \in Writers \ {w} : pc'[v] = pc[v]
        /\ UNCHANGED <<active, archives, tmps, recorded, stamped, st>>
    BY Steps1 DEF Readdir, Alone, files, ghosts
  <1>2. /\ job'[w].todo = DOMAIN tmps /\ job'[w].head = job[w].head
        /\ OthersStay(w)
    <2>1. job[w] \in JobsOf(LinesFrom(history)) /\ job \in [Writers -> JobsOf(LinesFrom(history))]
      BY DEF JournalIInv, Holds
    <2>2. job'[w] = [job[w] EXCEPT !.todo = DOMAIN tmps]
      BY <1>1, <2>1
    <2>3. job'[w].todo = DOMAIN tmps /\ job'[w].head = job[w].head
      BY <2>1, <2>2 DEF JobsOf
    <2> QED BY <1>1, <2>1, <2>3 DEF OthersStay
  <1>3. Current(st[w], active) /\ HeadKnown(job[w], tmps, active)
    BY <1>1 DEF Honest, AtWork
  <1>4. AtWork(pc'[w], st'[w], job'[w], archives, tmps, active, stamped)
    BY <1>1, <1>2, <1>3 DEF AtWork, HeadKnown
  <1>5. next \notin {"idle", "stat", "rotate", "write archive"} /\ Named(archives, tmps, stamped)
    BY DEF Honest
  <1> HIDE DEF next
  <1> QED BY <1>1, <1>2, <1>4, <1>5, OnlyGoesOn

-----------------------------------------------------------------------------
(* Steps that change the files, but not the log.                           *)

\* The log is one of lines.
LEMMA NowTyped ==
  ASSUME JournalIInv
  PROVE  Now \in Seq(LinesFrom(history)) /\ Len(Now) \in Nat
  <1>1. Now \in Seq(LinesFrom(history))
    BY FilesNow, WholeTyped DEF Now
  <1> QED BY <1>1, LenProperties

\* A step that leaves the log as it is.
LEMMA SameLogGoesOn ==
  ASSUME JournalIInv, Honest, NEW w \in Writers, Alone(w), OthersStay(w), recorded' = recorded,
         Whole(archives', tmps', active') = Now, Chained(archives', tmps', active'),
         Filed(archives', Now), Named(archives', tmps', stamped'),
         DOMAIN tmps' # {} => DOMAIN tmps # {} \/ Behind(w, st, Len(Now)),
         IF pc'[w] \in {"idle", "stat"} THEN AtRest(st'[w], tmps', Len(Now))
         ELSE AtWork(pc'[w], st'[w], job'[w], archives', tmps', active', stamped'),
         pc'[w] \in {"rotate", "write archive"} => Behind(w, st', Len(Now))
  PROVE  Honest' /\ Grows(Now, Whole(archives', tmps', active'))
  <1> DEFINE log == Now
  <1>1. Len(log) \in Nat /\ Len(log) <= Len(log) /\ log = Whole(archives', tmps', active')
    BY NowTyped, Orders
  <1>2. recorded' \subseteq HashesOf(log)
    BY DEF Honest
  <1>3. Honest'
    BY <1>1, <1>2, OneGoesOn DEF Alone, OthersStay
  <1> QED BY <1>3 DEF Grows

\* A window that knows the file as it is may rest, when nothing is left over.
LEMMA CurrentRests ==
  ASSUME JournalIInv, Honest, NEW s, Current(s, active), DOMAIN tmps = {}
  PROVE  AtRest(s, tmps, Len(Now)) /\ s.seq = Len(Now)
  <1>1. s.seq = Len(Now)
    <2>1. FilesOf(history, archives, tmps, active) /\ Chained(archives, tmps, active)
      BY FilesNow DEF Honest
    <2> QED BY <2>1, CurrentIs DEF Now
  <1>2. s.seq <= Len(Now)
    BY <1>1, NowTyped, Orders
  <1> QED BY <1>1, <1>2 DEF AtRest, Current

\* Cutting a file in two.
LEMMA TwoHalves ==
  ASSUME NEW T, NEW lines \in Seq(T), NEW half \in Nat, half >= 1, half + 1 <= Len(lines)
  PROVE  /\ SubSeq(lines, 1, half) # <<>> /\ SubSeq(lines, half + 1, Len(lines)) # <<>>
         /\ SubSeq(lines, 1, half) \o SubSeq(lines, half + 1, Len(lines)) = lines
  <1>1. /\ Len(lines) \in Nat /\ 1 \in 1..Len(lines) + 1 /\ half \in 1 - 1..Len(lines)
        /\ Len(lines) \in half..Len(lines)
    OBVIOUS
  <1>2. SubSeq(lines, 1, half) \o SubSeq(lines, half + 1, Len(lines)) = SubSeq(lines, 1, Len(lines))
    BY <1>1, ConcatAdjacentSubSeq
  <1>3. SubSeq(lines, 1, Len(lines)) = lines
    BY SubSeqFull
  <1>4. Len(SubSeq(lines, 1, half)) = half
    <2>1. \A i \in 1..half : lines[i] \in T
      BY <1>1
    <2> QED BY <2>1, SubSeqProperties
  <1>5. Len(SubSeq(lines, half + 1, Len(lines))) = Len(lines) - (half + 1) + 1
    <2>1. \A i \in half + 1..Len(lines) : lines[i] \in T
      BY <1>1
    <2> QED BY <1>1, <2>1, SubSeqProperties
  <1>6. Len(SubSeq(lines, 1, half)) # 0 /\ Len(SubSeq(lines, half + 1, Len(lines))) # 0
    <2>1. \A n, h \in Nat : h >= 1 /\ h + 1 <= n => h # 0 /\ n - (h + 1) + 1 # 0
      OBVIOUS
    <2>2. half # 0 /\ Len(lines) - (half + 1) + 1 # 0
      BY <1>1, <2>1
    <2> QED BY <1>4, <1>5, <2>2
  <1>7. Len(<<>>) = 0
    OBVIOUS
  <1> QED BY <1>2, <1>3, <1>6, <1>7

\* A rotation is planned, or not needed.
LEMMA RotateGoesOn ==
  ASSUME JournalIInv, Honest, NEW w \in Writers, Rotate(w)
  PROVE  Honest' /\ Grows(Now, Whole(archives', tmps', active'))
  <1> DEFINE lines == active.lines
             half == Len(lines) \div 2
             L == LinesFrom(history)
  <1>1. /\ pc[w] = "rotate" /\ Alone(w) /\ active # NoFile
        /\ UNCHANGED <<active, archives, tmps, recorded, st>>
        /\ Current(st[w], active) /\ DOMAIN tmps = {} /\ Behind(w, st, Len(Now))
        /\ Named(archives, tmps, stamped)
    BY DEF Rotate, Alone, files, ghosts, Honest, AtWork
  <1>2. LinesOf(active) = lines /\ lines \in Seq(L)
    BY <1>1, WindowTyped, TextIsThere DEF JournalIInv
  <1>3. CASE half < 1
    <2>1. /\ pc'[w] = "idle" /\ OthersStay(w) /\ stamped' = stamped
      <3>1. Return(w) /\ stamped' = stamped
        BY <1>3 DEF Rotate
      <3>2. job' = [job EXCEPT ![w] = NoJob] /\ Goto(w, "idle")
        BY <3>1 DEF Return
      <3>3. \A v \in Writers \ {w} : job'[v] = job[v]
        BY <3>2 DEF JournalIInv, Holds
      <3> QED BY <1>1, <3>1, <3>2, <3>3, Steps1 DEF OthersStay
    <2>2. AtRest(st'[w], tmps, Len(Now))
      BY <1>1, CurrentRests
    <2> QED BY <1>1, <2>1, <2>2, OnlyGoesOn
  <1>4. CASE ~(half < 1)
    <2> DEFINE older == SubSeq(lines, 1, half)
               newer == SubSeq(lines, half + 1, Len(lines))
               stamp == stamped + 1
    <2>1. /\ job' = [job EXCEPT ![w].older = older, ![w].newer = newer, ![w].stamp = stamp]
          /\ stamped' = stamp /\ Goto(w, "write archive")
      BY <1>4 DEF Rotate
    <2>2. /\ job'[w].older = older /\ job'[w].newer = newer /\ job'[w].stamp = stamp
          /\ OthersStay(w) /\ pc'[w] = "write archive"
      <3>1. job[w] \in JobsOf(L) /\ job \in [Writers -> JobsOf(L)]
        BY DEF JournalIInv, Holds
      <3> HIDE DEF older, newer, stamp, L
      <3>2. job'[w] = [job[w] EXCEPT !.older = older, !.newer = newer, !.stamp = stamp]
        BY <2>1, <3>1
      <3>3. job'[w].older = older /\ job'[w].newer = newer /\ job'[w].stamp = stamp
        BY <3>1, <3>2 DEF JobsOf
      <3>4. \A v \in Writers \ {w} : job'[v] = job[v]
        BY <2>1, <3>1
      <3> QED BY <1>1, <2>1, <3>3, <3>4, Steps1 DEF OthersStay
    <2>3. half \in Nat /\ half >= 1 /\ half + 1 <= Len(lines)
      <3>1. \A n \in Nat : n \div 2 \in Nat /\ (~(n \div 2 < 1) => n \div 2 >= 1 /\ n \div 2 + 1 <= n)
        OBVIOUS
      <3>2. Len(lines) \in Nat
        BY <1>2, LenProperties
      <3> QED BY <1>4, <3>1, <3>2
    <2>4. older # <<>> /\ newer # <<>> /\ older \o newer = lines
      <3> HIDE DEF half, L
      <3> QED BY <1>2, <2>3, TwoHalves
    <2>5. stamp # Active /\ stamp \notin DOMAIN archives /\ Named(archives, tmps, stamp)
      <3>1. stamped \in Nat /\ DOMAIN archives \subseteq Nat /\ DOMAIN tmps \subseteq Nat
        BY DEF JournalIInv, Holds
      <3>2. \A a \in Nat : a <= stamped => a <= stamp /\ a # stamp
        BY <3>1
      <3>3. stamp # Active
        BY <3>1 DEF Active
      <3> HIDE DEF stamp
      <3> QED BY <1>1, <3>1, <3>2, <3>3 DEF Named
    <2> HIDE DEF older, newer, stamp
    <2>6. AtWork(pc'[w], st'[w], job'[w], archives, tmps, active, stamped')
      BY <1>1, <1>2, <2>1, <2>2, <2>4, <2>5 DEF AtWork
    <2> QED BY <1>1, <2>1, <2>2, <2>5, <2>6, OnlyGoesOn
  <1> QED BY <1>3, <1>4

\* The first of two parts, and every beginning of it, are copies of what both begin with.
LEMMA BeginningsAreCopies ==
  ASSUME NEW T, NEW older \in Seq(T), NEW newer \in Seq(T)
  PROVE  /\ \A k \in 0..Len(older) : CopyOf(SubSeq(older, 1, k), older \o newer)
         /\ CopyOf(older, older \o newer)
  <1>1. /\ Len(older \o newer) = Len(older) + Len(newer) /\ Len(older) \in Nat /\ Len(newer) \in Nat
        /\ \A i \in 1..Len(older) : (older \o newer)[i] = older[i]
    BY TwoParts
  <1>2. \A k, m, n \in Nat : k <= m => k <= m + n
    OBVIOUS
  <1>3. CopyOf(older, older \o newer)
    BY <1>1, <1>2 DEF CopyOf
  <1>4. ASSUME NEW k \in 0..Len(older) PROVE CopyOf(SubSeq(older, 1, k), older \o newer)
    <2>1. k \in Nat /\ k <= Len(older) /\ \A i \in 1..k : i \in 1..Len(older)
      BY <1>1
    <2>2. \A i \in 1..k : older[i] \in T
      BY <2>1
    <2>3. Len(SubSeq(older, 1, k)) = k /\ \A i \in 1..k : SubSeq(older, 1, k)[i] = older[i]
      BY <2>1, <2>2
    <2> QED BY <1>1, <1>2, <2>1, <2>3 DEF CopyOf
  <1> QED BY <1>3, <1>4

\* The temporary files of a rotation before the active file is changed: copies.
LEMMA HalvesAreCopies ==
  ASSUME JournalIInv, Honest, NEW w \in Writers, pc[w] \in {"write archive", "write active"}
  PROVE  /\ Current(st[w], active) /\ Body(active) = job[w].older \o job[w].newer
         /\ LinesOf(active) = job[w].older \o job[w].newer
         /\ job[w].older \in Seq(LinesFrom(history)) /\ job[w].newer \in Seq(LinesFrom(history))
         /\ job[w].older # <<>> /\ job[w].newer # <<>>
         /\ job[w].stamp = stamped /\ stamped # Active /\ stamped \notin DOMAIN archives
         /\ \A k \in 0..Len(job[w].older) : CopyOf(SubSeq(job[w].older, 1, k), Body(active))
         /\ CopyOf(job[w].older, Body(active))
         /\ DOMAIN tmps \subseteq {stamped} /\ \A n \in DOMAIN tmps : tmps[n] = job[w].older
  <1> DEFINE L == LinesFrom(history)
             older == job[w].older
             newer == job[w].newer
  <1>1. AtWork(pc[w], st[w], job[w], archives, tmps, active, stamped)
    BY DEF Honest
  <1>2. /\ Current(st[w], active) /\ LinesOf(active) = older \o newer
        /\ older # <<>> /\ newer # <<>>
        /\ job[w].stamp = stamped /\ stamped # Active /\ stamped \notin DOMAIN archives
        /\ DOMAIN tmps \subseteq {stamped} /\ \A n \in DOMAIN tmps : tmps[n] = older
    BY <1>1 DEF AtWork
  <1>3. older \in Seq(L) /\ newer \in Seq(L)
    BY WindowTyped
  <1>4. Body(active) = LinesOf(active)
    <2>1. /\ FilesOf(history, archives, tmps, active) /\ Chained(archives, tmps, active)
          /\ Current(st[w], active)
      BY <1>2, FilesNow DEF Honest
    <2> HIDE DEF older, newer, L
    <2> QED BY <2>1, CurrentIs
  <1> HIDE DEF older, newer, L
  <1>5. /\ \A k \in 0..Len(older) : CopyOf(SubSeq(older, 1, k), older \o newer)
        /\ CopyOf(older, older \o newer)
    BY <1>3, BeginningsAreCopies
  <1> QED BY <1>2, <1>3, <1>4, <1>5 DEF older, newer, L

\* Temporary copies of the beginning of the active file are no part of the log.
LEMMA TmpsChange ==
  ASSUME JournalIInv, JournalIInv', Honest, NEW w \in Writers, pc[w] \in {"write archive", "write active"},
         UNCHANGED <<active, archives, history>>, stamped' = stamped,
         \A n \in DOMAIN tmps' \ {Active} : n = stamped /\ CopyOf(tmps'[n], Body(active))
  PROVE  /\ Whole(archives', tmps', active') = Now /\ Chained(archives', tmps', active')
         /\ Filed(archives', Now) /\ Named(archives', tmps', stamped')
  <1>1. FilesOf(history, archives, tmps, active) /\ Chained(archives, tmps, active)
    BY FilesNow DEF Honest
  <1>2. /\ stamped # Active /\ stamped \notin DOMAIN archives
        /\ tmps \in [DOMAIN tmps -> Seq(LinesFrom(history))]
        /\ \A n \in DOMAIN tmps \ {Active} : CopyOf(tmps[n], Body(active))
    BY HalvesAreCopies DEF JournalIInv, Holds
  <1>3. PendingIn(tmps, HeadIn(active)) = <<>>
    BY <1>1, <1>2, OnlyCopies
  <1>4. tmps' \in [DOMAIN tmps' -> Seq(LinesFrom(history))]
    BY DEF JournalIInv, Holds
  <1>5. PICK t2 : t2 = tmps'
    OBVIOUS
  <1>6. t2 \in [DOMAIN t2 -> Seq(LinesFrom(history))] /\ \A n \in DOMAIN t2 \ {Active} : CopyOf(t2[n], Body(active))
    BY <1>4, <1>5
  <1>7. PendingIn(t2, HeadIn(active)) = <<>>
    BY <1>1, <1>6, OnlyCopies
  <1>8. Whole(archives, t2, active) = Now
    BY <1>3, <1>7 DEF Whole, Ahead, Now
  <1>9. Chained(archives, t2, active)
    BY <1>1, <1>8 DEF Chained, Now
  <1>10. Named(archives, t2, stamped)
    <2>1. stamped \in Nat /\ stamped <= stamped
      BY Orders DEF JournalIInv, Holds
    <2>2. Named(archives, tmps, stamped)
      BY DEF Honest
    <2>3. \A n \in DOMAIN t2 : n = Active \/ n = stamped
      BY <1>5
    <2>4. Active \notin DOMAIN archives
      BY <2>2 DEF Named
    <2> QED BY <1>2, <2>1, <2>2, <2>3, <2>4 DEF Named
  <1> QED BY <1>5, <1>8, <1>9, <1>10 DEF Honest

\* The two halves are written to temporary files.
LEMMA WriteTmpsGoesOn ==
  ASSUME JournalIInv, JournalIInv', Honest, NEW w \in Writers, WriteArchive(w) \/ WriteActive(w)
  PROVE  Honest' /\ Grows(Now, Whole(archives', tmps', active'))
  <1> DEFINE older == job[w].older
             newer == job[w].newer
  <1>1. /\ pc[w] \in {"write archive", "write active"} /\ Alone(w)
        /\ UNCHANGED <<active, archives, history, recorded, stamped, st, job>>
        /\ \A v \in Writers \ {w} : pc'[v] = pc[v]
    BY Steps1 DEF WriteArchive, WriteActive, WriteTmp, Alone, ghosts
  <1>2. OthersStay(w)
    BY <1>1 DEF OthersStay
  <1>3. /\ Current(st[w], active) /\ LinesOf(active) = older \o newer
        /\ older # <<>> /\ newer # <<>>
        /\ job[w].stamp = stamped /\ stamped # Active /\ stamped \notin DOMAIN archives
        /\ CopyOf(older, Body(active))
        /\ DOMAIN tmps \subseteq {stamped} /\ \A n \in DOMAIN tmps : tmps[n] = older
    BY <1>1, HalvesAreCopies
  <1>4. AtWork(pc[w], st[w], job[w], archives, tmps, active, stamped)
    BY <1>1 DEF Honest
  <1> HIDE DEF older, newer
  <1>5. CASE WriteArchive(w)
    <2>1. tmps' = With(tmps, stamped, older) /\ pc'[w] = "write active" /\ pc[w] = "write archive"
      BY <1>3, <1>5, Steps1 DEF WriteArchive, WriteTmp, older
    <2>2. DOMAIN tmps = {}
      BY <1>4, <2>1 DEF AtWork
    <2>3. DOMAIN tmps' = {stamped} /\ tmps'[stamped] = older
      BY <2>1, <2>2 DEF With
    <2>4. /\ Whole(archives', tmps', active') = Now /\ Chained(archives', tmps', active')
          /\ Filed(archives', Now) /\ Named(archives', tmps', stamped')
      BY <1>1, <1>3, <2>3, TmpsChange
    <2>5. AtWork(pc'[w], st'[w], job'[w], archives', tmps', active', stamped')
      BY <1>1, <1>3, <2>1, <2>3 DEF AtWork, older, newer
    <2>6. Behind(w, st, Len(Now))
      BY <2>1 DEF Honest
    <2> QED BY <1>1, <1>2, <2>1, <2>4, <2>5, <2>6, SameLogGoesOn
  <1>6. CASE WriteActive(w)
    <2>1. tmps' = With(tmps, Active, newer) /\ pc'[w] = "swap" /\ pc[w] = "write active"
      BY <1>3, <1>6, Steps1 DEF WriteActive, WriteTmp, newer
    <2>2. DOMAIN tmps = {stamped} /\ tmps[stamped] = older
      BY <1>4, <2>1 DEF AtWork, older
    <2>3. DOMAIN tmps' = {stamped, Active} /\ tmps'[stamped] = older /\ tmps'[Active] = newer
      BY <1>3, <2>1, <2>2 DEF With
    <2>4. /\ Whole(archives', tmps', active') = Now /\ Chained(archives', tmps', active')
          /\ Filed(archives', Now) /\ Named(archives', tmps', stamped')
      BY <1>1, <1>3, <2>3, TmpsChange
    <2>5. AtWork(pc'[w], st'[w], job'[w], archives', tmps', active', stamped')
      BY <1>1, <1>3, <2>1, <2>3 DEF AtWork, older, newer
    <2> QED BY <1>1, <1>2, <2>1, <2>2, <2>4, <2>5, SameLogGoesOn
  <1> QED BY <1>5, <1>6

\* The newer half becomes the active file.
LEMMA SwapGoesOn ==
  ASSUME JournalIInv, JournalIInv', Honest, NEW w \in Writers, Swap(w)
  PROVE  Honest' /\ Grows(Now, Whole(archives', tmps', active'))
  <1> DEFINE L == LinesFrom(history)
             older == job[w].older
             newer == job[w].newer
             text2 == [lines |-> newer, newline |-> TRUE]
  <1>1. /\ pc[w] = "swap" /\ Alone(w) /\ pc'[w] = "commit"
        /\ UNCHANGED <<archives, history, recorded, stamped, st, job>>
        /\ active' = [lines |-> tmps[Active], newline |-> TRUE] /\ tmps' = Removed(tmps, Active)
        /\ \A v \in Writers \ {w} : pc'[v] = pc[v]
    BY Steps1 DEF Swap, Alone, ghosts
  <1>2. OthersStay(w)
    BY <1>1 DEF OthersStay
  <1>3. AtWork(pc[w], st[w], job[w], archives, tmps, active, stamped)
    BY <1>1 DEF Honest
  <1>4. /\ Current(st[w], active) /\ LinesOf(active) = older \o newer
        /\ older # <<>> /\ newer # <<>>
        /\ job[w].stamp = stamped /\ stamped # Active /\ stamped \notin DOMAIN archives
        /\ DOMAIN tmps = {stamped, Active} /\ tmps[stamped] = older /\ tmps[Active] = newer
    BY <1>1, <1>3 DEF AtWork
  <1>5. older \in Seq(L) /\ newer \in Seq(L)
    BY WindowTyped
  <1>6. active' = text2 /\ text2 # NoFile
    <2>1. text2 \in TextsOf(L)
      BY <1>5 DEF TextsOf
    <2>2. text2 # NoFile
      BY <2>1, TextIsThere DEF JournalIInv
    <2> QED BY <1>1, <1>4, <2>2
  <1> HIDE DEF older, newer, L, text2
  <1>7. /\ FilesOf(history, archives, tmps, active) /\ Chained(archives, tmps, active)
        /\ Named(archives, tmps, stamped) /\ Current(st[w], active)
    BY <1>4, FilesNow DEF Honest
  <1>8. /\ \A i \in DOMAIN LinesOf(active) : LinesOf(active)[i] # Junk
        /\ st[w].seq = Len(Now) /\ st[w].hash = EndHash(Now)
    BY <1>7, CurrentIs DEF Now
  <1>9. /\ Whole(archives, Removed(tmps, Active), text2) = Whole(archives, tmps, active)
        /\ PendingIn(Removed(tmps, Active), HeadIn(text2)) = older
        /\ Chained(archives, Removed(tmps, Active), text2)
        /\ Named(archives, Removed(tmps, Active), stamped)
        /\ DOMAIN Removed(tmps, Active) = {stamped} /\ Removed(tmps, Active)[stamped] = older
    <2>1. Halved(LinesFrom(history), tmps, active, stamped, older, newer, text2)
      BY <1>4, <1>5, <1>6, <1>8 DEF Halved, L, text2
    <2> QED BY <1>7, <2>1, Swapped
  <1>10. /\ Whole(archives', tmps', active') = Now /\ Chained(archives', tmps', active')
         /\ Filed(archives', Now) /\ Named(archives', tmps', stamped')
    BY <1>1, <1>6, <1>9 DEF Now, Honest
  <1>11. TailIs(st[w], newer)
    <2>1. FilesOf(history', archives', tmps', active') /\ Chained(archives', tmps', active')
      BY <1>10, FilesThen
    <2>2. /\ LastSeq(LinesOf(active')) = Len(Now)
          /\ LastHash(LinesOf(active')) = EndHash(Now)
      BY <1>10, <2>1, EndsOfWhole
    <2>3. LinesOf(active') = newer
      BY <1>6 DEF LinesOf, text2
    <2> QED BY <1>8, <2>2, <2>3 DEF TailIs
  <1>12. AtWork(pc'[w], st'[w], job'[w], archives', tmps', active', stamped')
    BY <1>1, <1>4, <1>6, <1>9, <1>11 DEF AtWork, older, newer, text2
  <1> QED BY <1>1, <1>2, <1>4, <1>10, <1>12, SameLogGoesOn

\* The older half becomes an archive.
LEMMA CommitGoesOn ==
  ASSUME JournalIInv, JournalIInv', Honest, NEW w \in Writers, Commit(w)
  PROVE  Honest' /\ Grows(Now, Whole(archives', tmps', active'))
  <1> DEFINE L == LinesFrom(history)
             older == job[w].older
             newer == job[w].newer
             text == [lines |-> newer, newline |-> TRUE]
  <1>1. /\ pc[w] = "commit" /\ Alone(w) /\ pc'[w] = "note"
        /\ UNCHANGED <<active, history, recorded, stamped, job>>
        /\ archives' = With(archives, job[w].stamp, tmps[job[w].stamp])
        /\ tmps' = Removed(tmps, job[w].stamp)
        /\ st' = [st EXCEPT ![w].lines = Len(newer), ![w].seen = text]
        /\ \A v \in Writers \ {w} : pc'[v] = pc[v]
    BY Steps1 DEF Commit, Alone, ghosts
  <1>2. /\ st'[w].seq = st[w].seq /\ st'[w].hash = st[w].hash
        /\ st'[w].lines = Len(newer) /\ st'[w].seen = text /\ OthersStay(w)
    <2>1. st[w] \in StatesOf(L) /\ st \in [Writers -> {NoState} \cup StatesOf(L)]
      BY <1>1, WindowTyped DEF JournalIInv, Holds
    <2> HIDE DEF text, newer, L
    <2>2. st'[w] = [st[w] EXCEPT !.lines = Len(newer), !.seen = text]
      BY <1>1, <2>1
    <2>3. /\ st'[w].seq = st[w].seq /\ st'[w].hash = st[w].hash
          /\ st'[w].lines = Len(newer) /\ st'[w].seen = text
      BY <2>1, <2>2 DEF StatesOf
    <2> QED BY <1>1, <2>1, <2>3 DEF OthersStay
  <1>3. AtWork(pc[w], st[w], job[w], archives, tmps, active, stamped)
    BY <1>1 DEF Honest
  <1>4. /\ older # <<>> /\ newer # <<>>
        /\ job[w].stamp = stamped /\ stamped # Active /\ stamped \notin DOMAIN archives
        /\ DOMAIN tmps = {stamped} /\ tmps[stamped] = older /\ active = text
        /\ PendingIn(tmps, HeadIn(active)) = older /\ TailIs(st[w], newer)
    BY <1>1, <1>3 DEF AtWork
  <1> HIDE DEF older, L, text
  <1>5. /\ FilesOf(history, archives, tmps, active) /\ Chained(archives, tmps, active)
        /\ Named(archives, tmps, stamped) /\ Filed(archives, Whole(archives, tmps, active))
    BY FilesNow DEF Honest, Now
  <1>6. stamped \in LinkingIn(tmps, HeadIn(active))
    <2>1. LinkingIn(tmps, HeadIn(active)) # {}
      BY <1>4, <1>5, PendingIs
    <2> QED BY <1>4, <2>1 DEF LinkingIn
  <1>7. /\ Whole(archives', tmps', active) = Now /\ Chained(archives', tmps', active)
        /\ Named(archives', tmps', stamped) /\ Filed(archives', Now)
    BY <1>1, <1>4, <1>5, <1>6, Completed DEF Now
  <1>8. DOMAIN tmps' = {} /\ stamped \in DOMAIN archives' /\ archives'[stamped] = older
    BY <1>1, <1>4 DEF With, Removed
  <1>9. Current(st'[w], active)
    <2>1. active # NoFile /\ LinesOf(active) = newer
      <3>1. newer \in Seq(L)
        BY WindowTyped DEF L
      <3>2. active \in TextsOf(L)
        BY <1>4, <3>1 DEF TextsOf, text
      <3>3. active # NoFile /\ LinesOf(active) = active.lines
        BY <3>2, TextIsThere DEF JournalIInv, L
      <3> QED BY <1>4, <3>3 DEF text
    <2>2. \A i \in DOMAIN newer : newer[i] # Junk
      BY <1>4, <1>5, <2>1 DEF Chained, CutAtEnd, text
    <2>3. Clean(st'[w].seen) /\ Knows(st'[w])
      BY <1>2, <1>4, <2>2 DEF Clean, Knows, TailIs, text
    <2> QED BY <1>2, <1>4, <2>1, <2>3 DEF Current
  <1> HIDE DEF newer
  <1>10. AtWork(pc'[w], st'[w], job'[w], archives', tmps', active', stamped')
    BY <1>1, <1>4, <1>8, <1>9 DEF AtWork, older
  <1> QED BY <1>1, <1>2, <1>7, <1>8, <1>10, SameLogGoesOn

\* A window that knew the file but for its last line has put that right.
LEMMA TailIsRight ==
  ASSUME JournalIInv, JournalIInv', Honest, NEW w \in Writers, Alone(w), OthersStay(w),
         UNCHANGED <<archives, tmps, job, stamped, history, recorded>>,
         pc'[w] \in {"repair", "readdir"},
         Knows(st[w]), HeadKnown(job[w], tmps, active), st[w].seen = active,
         active' # NoFile, LinesOf(active') = Body(active), Body(active') = Body(active),
         active'.lines = Body(active), active'.newline = TRUE, active # NoFile,
         st'[w].seq = st[w].seq, st'[w].hash = st[w].hash,
         st'[w].lines = Len(Body(active)), st'[w].seen = active'
  PROVE  Honest' /\ Grows(Now, Whole(archives', tmps', active'))
  <1>1. /\ FilesOf(history, archives, tmps, active) /\ Chained(archives, tmps, active)
        /\ LinesOf(active) \in Seq(LinesFrom(history)) /\ CutAtEnd(active)
        /\ LinesOf(active) = active.lines
    BY FilesNow, WholeTyped, TextIsThere DEF Honest, Chained, JournalIInv, FilesOf
  <1>2. \A i \in DOMAIN Body(active) : Body(active)[i] # Junk
    BY <1>1, BodyIs DEF CutAtEnd
  <1>3. FilesOf(history, archives, tmps, active') /\ CutAtEnd(active')
    BY <1>2, FilesThen DEF CutAtEnd
  <1>4. /\ Whole(archives, tmps, active') = Now /\ Chained(archives, tmps, active')
        /\ HeadIn(active') = HeadIn(active)
    <2> DEFINE text2 == active'
    <2>1. FilesOf(history, archives, tmps, text2) /\ CutAtEnd(text2) /\ Body(text2) = Body(active)
      BY <1>3
    <2> HIDE DEF text2
    <2>2. /\ Whole(archives, tmps, text2) = Whole(archives, tmps, active) /\ Chained(archives, tmps, text2)
          /\ HeadIn(text2) = HeadIn(active)
      BY <1>1, <2>1, SameBody
    <2> QED BY <2>2 DEF text2, Now
  <1>5. TailIs(st'[w], LinesOf(active'))
    <2>1. LastSeq(LinesOf(active)) = Len(Now) /\ LastHash(LinesOf(active)) = EndHash(Now)
      BY <1>1, EndsOfWhole DEF Now
    <2>2. LastSeq(LinesOf(active')) = Len(Now) /\ LastHash(LinesOf(active')) = EndHash(Now)
      <3> DEFINE text2 == active'
      <3>1. FilesOf(history, archives, tmps, text2) /\ Chained(archives, tmps, text2)
        BY <1>3, <1>4
      <3> HIDE DEF text2
      <3>2. /\ LastSeq(LinesOf(text2)) = Len(Whole(archives, tmps, text2))
            /\ LastHash(LinesOf(text2)) = EndHash(Whole(archives, tmps, text2))
        BY <3>1, EndsOfWhole
      <3> QED BY <1>4, <3>2 DEF text2
    <2>3. st[w].seq = LastSeq(LinesOf(active)) /\ st[w].hash = LastHash(LinesOf(active))
      BY <1>1 DEF Knows, TailIs
    <2> QED BY <2>1, <2>2, <2>3 DEF TailIs
  <1>6. Current(st'[w], active')
    BY <1>2, <1>5 DEF Current, Knows, Clean, TailIs
  <1>7. HeadKnown(job'[w], tmps', active')
    BY <1>4 DEF HeadKnown
  <1>8. AtWork(pc'[w], st'[w], job'[w], archives', tmps', active', stamped')
    BY <1>6, <1>7 DEF AtWork
  <1> QED BY <1>4, <1>8, SameLogGoesOn DEF Honest

\* A line that was cut off is taken away.
LEMMA TrimTailGoesOn ==
  ASSUME JournalIInv, JournalIInv', Honest, NEW w \in Writers, TrimTail(w)
  PROVE  Honest' /\ Grows(Now, Whole(archives', tmps', active'))
  <1> DEFINE L == LinesFrom(history)
             lines == active.lines
             keep == st[w].lines - 1
  <1>1. /\ pc[w] = "trim" /\ Alone(w) /\ pc'[w] = "repair" /\ active # NoFile
        /\ UNCHANGED <<archives, tmps, job, stamped, history, recorded>>
        /\ active' = IF keep <= Len(active.lines) THEN Truncated(active, keep)
                     ELSE Appended(active, Junk, FALSE)
        /\ st' = [st EXCEPT ![w].lines = keep, ![w].seen = Truncated(@, keep)]
        /\ \A v \in Writers \ {w} : pc'[v] = pc[v]
    BY Steps1 DEF TrimTail, Alone, ghosts
  <1>2. /\ st'[w].seq = st[w].seq /\ st'[w].hash = st[w].hash
        /\ st'[w].lines = keep /\ st'[w].seen = Truncated(st[w].seen, keep) /\ OthersStay(w)
    <2>1. st[w] \in StatesOf(L) /\ st \in [Writers -> {NoState} \cup StatesOf(L)]
      BY <1>1, WindowTyped DEF JournalIInv, Holds
    <2> HIDE DEF keep, L
    <2>2. st'[w] = [st[w] EXCEPT !.lines = keep, !.seen = Truncated(st[w].seen, keep)]
      BY <1>1, <2>1
    <2>3. /\ st'[w].seq = st[w].seq /\ st'[w].hash = st[w].hash
          /\ st'[w].lines = keep /\ st'[w].seen = Truncated(st[w].seen, keep)
      BY <2>1, <2>2 DEF StatesOf
    <2> QED BY <1>1, <2>1, <2>3 DEF OthersStay
  <1>3. AtWork(pc[w], st[w], job[w], archives, tmps, active, stamped)
    BY <1>1 DEF Honest
  <1>4. /\ st[w].seen = active /\ Knows(st[w]) /\ HeadKnown(job[w], tmps, active)
        /\ lines # <<>> /\ lines[Len(lines)] = Junk
    BY <1>1, <1>3 DEF AtWork
  <1>5. lines \in Seq(L) /\ LinesOf(active) = lines /\ active \in TextsOf(L)
    BY <1>1, WindowTyped, TextIsThere DEF JournalIInv
  <1>6. keep = Len(lines) - 1 /\ keep \in Int /\ keep <= Len(lines)
    <2>1. st[w].lines = Len(lines)
      BY <1>4 DEF Knows
    <2>2. Len(lines) \in Nat
      BY <1>5, LenProperties
    <2> QED BY <2>1, <2>2
  <1>7. active' = [lines |-> SubSeq(lines, 1, Len(lines) - 1), newline |-> TRUE]
        /\ active' \in TextsOf(L) /\ st'[w].seen = active'
    <2>1. active' = Truncated(active, keep)
      BY <1>1, <1>6
    <2>2. Truncated(active, keep) \in TextsOf(L)
      <3> HIDE DEF keep
      <3> QED BY <1>5, <1>6, TruncatedIs
    <2> QED BY <1>2, <1>4, <1>6, <2>1, <2>2 DEF Truncated
  <1> HIDE DEF L, lines, keep
  <1>8. Body(active) = SubSeq(lines, 1, Len(lines) - 1)
    BY <1>4, <1>5 DEF Body
  <1>9. /\ active' # NoFile /\ LinesOf(active') = Body(active)
        /\ active'.lines = Body(active) /\ active'.newline = TRUE
    BY <1>7, <1>8, TextIsThere DEF JournalIInv, L
  <1>10. CutAtEnd(active)
    BY DEF Honest, Chained
  <1>11. /\ \A i \in 1..Len(Body(active)) : Body(active)[i] # Junk
         /\ Len(Body(active)) = Len(lines) - 1 /\ Body(active) \in Seq(L)
    BY <1>4, <1>5, <1>10, BodyIs DEF CutAtEnd
  <1>12. Body(active') = Body(active)
    <2>1. Body(active) # <<>> => Len(Body(active)) \in 1..Len(Body(active))
      BY <1>11
    <2> QED BY <1>9, <1>11, <2>1 DEF Body
  <1> QED BY <1>1, <1>2, <1>4, <1>6, <1>7, <1>9, <1>11, <1>12, TailIsRight

\* A last entry gets its newline.
LEMMA FinishLineGoesOn ==
  ASSUME JournalIInv, JournalIInv', Honest, NEW w \in Writers, FinishLine(w)
  PROVE  Honest' /\ Grows(Now, Whole(archives', tmps', active'))
  <1> DEFINE L == LinesFrom(history)
             lines == active.lines
  <1>1. /\ pc[w] = "finish line" /\ Alone(w) /\ pc'[w] = "readdir"
        /\ UNCHANGED <<archives, tmps, job, stamped, history, recorded>>
        /\ active' = LineFinished(active)
        /\ st' = [st EXCEPT ![w].seen = LineFinished(@)]
        /\ \A v \in Writers \ {w} : pc'[v] = pc[v]
    BY Steps1 DEF FinishLine, Alone, ghosts
  <1>2. /\ st'[w].seq = st[w].seq /\ st'[w].hash = st[w].hash
        /\ st'[w].lines = st[w].lines /\ st'[w].seen = LineFinished(st[w].seen) /\ OthersStay(w)
    <2>1. st[w] \in StatesOf(L) /\ st \in [Writers -> {NoState} \cup StatesOf(L)]
      BY <1>1, WindowTyped DEF JournalIInv, Holds
    <2> HIDE DEF L
    <2>2. st'[w] = [st[w] EXCEPT !.seen = LineFinished(st[w].seen)]
      BY <1>1, <2>1
    <2>3. /\ st'[w].seq = st[w].seq /\ st'[w].hash = st[w].hash
          /\ st'[w].lines = st[w].lines /\ st'[w].seen = LineFinished(st[w].seen)
      BY <2>1, <2>2 DEF StatesOf
    <2> QED BY <1>1, <2>1, <2>3 DEF OthersStay
  <1>3. AtWork(pc[w], st[w], job[w], archives, tmps, active, stamped)
    BY <1>1 DEF Honest
  <1>4. /\ st[w].seen = active /\ Knows(st[w]) /\ HeadKnown(job[w], tmps, active) /\ active # NoFile
        /\ lines # <<>> /\ lines[Len(lines)] # Junk /\ ~active.newline
    BY <1>1, <1>3 DEF AtWork
  <1>5. lines \in Seq(L) /\ LinesOf(active) = lines /\ active \in TextsOf(L)
    BY <1>4, WindowTyped, TextIsThere DEF JournalIInv
  <1>6. Body(active) = lines
    BY <1>4, <1>5 DEF Body
  <1> HIDE DEF lines
  <1>7. active' = [active EXCEPT !.newline = TRUE]
    BY <1>1, <1>4, <1>5 DEF LineFinished
  <1>8. active' = [lines |-> lines, newline |-> TRUE] /\ active' \in TextsOf(L)
    BY <1>5, <1>7 DEF TextsOf, lines
  <1>9. /\ active' # NoFile /\ LinesOf(active') = Body(active)
        /\ active'.lines = Body(active) /\ active'.newline = TRUE
    BY <1>6, <1>8, TextIsThere DEF JournalIInv
  <1>10. Body(active') = Body(active)
    BY <1>4, <1>6, <1>9 DEF Body
  <1>11. st'[w].lines = Len(Body(active)) /\ st'[w].seen = active'
    BY <1>1, <1>2, <1>4, <1>6 DEF Knows, lines
  <1> QED BY <1>1, <1>2, <1>4, <1>9, <1>10, <1>11, TailIsRight

\* What a recovery has done with one file it does not look at again.
LEMMA RecoveredIs ==
  ASSUME JournalIInv, Honest, NEW w \in Writers, NEW n, Recovered(w, n)
  PROVE  /\ Alone(w) /\ OthersStay(w) /\ UNCHANGED <<active, st, stamped, history, recorded>>
         /\ Current(st[w], active) /\ HeadKnown(job[w], tmps, active)
         /\ n \in DOMAIN tmps /\ job[w].todo = DOMAIN tmps
         /\ job'[w].todo = DOMAIN tmps \ {n} /\ job'[w].head = job[w].head
         /\ pc'[w] = IF DOMAIN tmps \ {n} = {} THEN "write" ELSE "recover"
         /\ Named(archives, tmps, stamped)
  <1>1. /\ pc[w] = "recover" /\ n \in job[w].todo
        /\ job' = [job EXCEPT ![w].todo = @ \ {n}]
        /\ Goto(w, IF job[w].todo = {n} THEN "write" ELSE "recover")
        /\ UNCHANGED <<active, st, stamped, history, recorded>>
    BY DEF Recovered
  <1>2. /\ pc'[w] = IF job[w].todo = {n} THEN "write" ELSE "recover"
        /\ \A v \in Writers \ {w} : pc'[v] = pc[v]
    BY <1>1, Steps1
  <1>3. job'[w].todo = job[w].todo \ {n} /\ job'[w].head = job[w].head /\ OthersStay(w)
    <2>1. job[w] \in JobsOf(LinesFrom(history)) /\ job \in [Writers -> JobsOf(LinesFrom(history))]
      BY DEF JournalIInv, Holds
    <2>2. job'[w] = [job[w] EXCEPT !.todo = job[w].todo \ {n}]
      BY <1>1, <2>1
    <2>3. job'[w].todo = job[w].todo \ {n} /\ job'[w].head = job[w].head
      BY <2>1, <2>2 DEF JobsOf
    <2> QED BY <1>1, <1>2, <2>1, <2>3 DEF OthersStay
  <1>4. Current(st[w], active) /\ HeadKnown(job[w], tmps, active) /\ job[w].todo = DOMAIN tmps
    BY <1>1 DEF Honest, AtWork
  <1>5. Alone(w) /\ Named(archives, tmps, stamped)
    BY <1>1 DEF Alone, Honest
  <1>6. job[w].todo = {n} <=> DOMAIN tmps \ {n} = {}
    BY <1>1, <1>4
  <1> QED BY <1>1, <1>2, <1>3, <1>4, <1>5, <1>6

\* When it goes on.
LEMMA RecoveryGoesOn ==
  ASSUME JournalIInv, Honest, NEW w \in Writers, NEW n, Recovered(w, n),
         DOMAIN tmps' = DOMAIN tmps \ {n}, HeadKnown(job'[w], tmps', active),
         Whole(archives', tmps', active) = Now, Chained(archives', tmps', active),
         Filed(archives', Now), Named(archives', tmps', stamped)
  PROVE  Honest' /\ Grows(Now, Whole(archives', tmps', active'))
  <1>1. /\ Alone(w) /\ OthersStay(w) /\ UNCHANGED <<active, st, stamped, history, recorded>>
        /\ Current(st[w], active) /\ n \in DOMAIN tmps
        /\ job'[w].todo = DOMAIN tmps \ {n}
        /\ pc'[w] = IF DOMAIN tmps \ {n} = {} THEN "write" ELSE "recover"
    BY RecoveredIs
  <1>2. AtWork(pc'[w], st'[w], job'[w], archives', tmps', active', stamped')
    <2>1. CASE DOMAIN tmps \ {n} = {}
      BY <1>1, <2>1 DEF AtWork
    <2>2. CASE DOMAIN tmps \ {n} # {}
      BY <1>1, <2>2 DEF AtWork
    <2> QED BY <2>1, <2>2
  <1>3. pc'[w] \in {"write", "recover"} /\ DOMAIN tmps # {}
    BY <1>1
  <1>4. pc'[w] \notin {"idle", "stat", "rotate", "write archive"}
    BY <1>3
  <1> QED BY <1>1, <1>2, <1>3, <1>4, SameLogGoesOn

\* A recovery finishes a rotation.
LEMMA CompleteGoesOn ==
  ASSUME JournalIInv, Honest, NEW w \in Writers, NEW n, CompleteRotation(w, n)
  PROVE  Honest' /\ Grows(Now, Whole(archives', tmps', active'))
  <1>1. /\ Recovered(w, n) /\ n \in DOMAIN tmps /\ Linking(n, job[w].head)
        /\ archives' = With(archives, n, tmps[n]) /\ tmps' = Removed(tmps, n)
    BY DEF CompleteRotation
  <1>2. /\ HeadKnown(job[w], tmps, active) /\ job'[w].head = job[w].head
        /\ Named(archives, tmps, stamped)
    BY <1>1, RecoveredIs
  <1>3. job[w].head = HeadIn(active) /\ n \in LinkingIn(tmps, HeadIn(active))
    BY <1>1, <1>2 DEF HeadKnown, Linking, LinkingIn
  <1>4. /\ FilesOf(history, archives, tmps, active) /\ Chained(archives, tmps, active)
        /\ Filed(archives, Whole(archives, tmps, active))
    BY FilesNow DEF Honest, Now
  <1>5. /\ Whole(archives', tmps', active) = Now /\ Chained(archives', tmps', active)
        /\ Named(archives', tmps', stamped) /\ Filed(archives', Now)
    BY <1>1, <1>2, <1>3, <1>4, Completed DEF Now
  <1>6. DOMAIN tmps' = DOMAIN tmps \ {n} /\ HeadKnown(job'[w], tmps', active)
    BY <1>1, <1>2, <1>3 DEF Removed, HeadKnown
  <1> QED BY <1>1, <1>5, <1>6, RecoveryGoesOn

\* A recovery takes away what is in the active file, too.
LEMMA DiscardGoesOn ==
  ASSUME JournalIInv, Honest, NEW w \in Writers, NEW n, Discard(w, n)
  PROVE  Honest' /\ Grows(Now, Whole(archives', tmps', active'))
  <1>1. /\ Recovered(w, n) /\ (n \in DOMAIN tmps => ~Linking(n, job[w].head))
        /\ archives' = archives /\ tmps' = Removed(tmps, n)
    BY DEF Discard
  <1>2. /\ HeadKnown(job[w], tmps, active) /\ job'[w].head = job[w].head
        /\ Named(archives, tmps, stamped) /\ n \in DOMAIN tmps
    BY <1>1, RecoveredIs
  <1>3. n \notin LinkingIn(tmps, HeadIn(active)) \/ PendingIn(tmps, HeadIn(active)) = <<>>
    BY <1>1, <1>2 DEF HeadKnown, Linking, LinkingIn
  <1>4. PendingIn(tmps', HeadIn(active)) = PendingIn(tmps, HeadIn(active)) /\ Named(archives, tmps', stamped)
    BY <1>1, <1>2, <1>3, OneLess
  <1>5. Whole(archives', tmps', active) = Now
    BY <1>1, <1>4 DEF Whole, Ahead, Now
  <1>6. Chained(archives', tmps', active) /\ Filed(archives', Now) /\ Named(archives', tmps', stamped)
    BY <1>1, <1>4, <1>5 DEF Honest, Chained, Now
  <1>7. DOMAIN tmps' = DOMAIN tmps \ {n} /\ HeadKnown(job'[w], tmps', active)
    BY <1>1, <1>2, <1>4 DEF Removed, HeadKnown
  <1> QED BY <1>1, <1>5, <1>6, <1>7, RecoveryGoesOn

-----------------------------------------------------------------------------
(* Steps that write an entry.                                              *)

\* One hash more.
LEMMA HashesMore ==
  ASSUME NEW T, NEW log \in Seq(T), NEW entry
  PROVE  /\ Len(Append(log, entry)) = Len(log) + 1
         /\ HashesOf(log) \subseteq HashesOf(Append(log, entry))
         /\ entry.hash \in HashesOf(Append(log, entry))
  <1>1. /\ Len(log) \in Nat /\ DOMAIN log = 1..Len(log)
        /\ DOMAIN Append(log, entry) = 1..Len(log) + 1
        /\ Len(Append(log, entry)) = Len(log) + 1
        /\ \A i \in 1..Len(log) : Append(log, entry)[i] = log[i]
        /\ Append(log, entry)[Len(log) + 1] = entry
    OBVIOUS
  <1>2. Len(log) + 1 \in 1..Len(log) + 1 /\ 1..Len(log) \subseteq 1..Len(log) + 1
    BY <1>1
  <1> QED BY <1>1, <1>2 DEF HashesOf

\* What is written is what the window knows to be next.
LEMMA EntryContinues ==
  ASSUME NEW w \in Writers, pc[w] \in {"write", "repair", "note"}
  PROVE  LET entry == EntryToWrite(w) IN
         /\ entry.seq = st[w].seq + 1 /\ entry.prev = st[w].hash
         /\ entry.kind = "rotation" =>
              pc[w] = "note" /\ entry.path = job[w].stamp /\ entry.after = LastHash(job[w].older)
  <1>1. CASE pc[w] = "write"
    BY <1>1 DEF EntryToWrite, NewEntry
  <1>2. CASE pc[w] = "repair"
    BY <1>2 DEF EntryToWrite, NewEntry
  <1>3. CASE pc[w] = "note"
    BY <1>3 DEF EntryToWrite, NewEntry
  <1> QED BY <1>1, <1>2, <1>3

\* The log after an entry was written, with its newline or without.
LEMMA EntryWritten ==
  ASSUME JournalIInv, Honest, NEW w \in Writers, pc[w] \in {"write", "repair", "note"},
         NEW newline \in BOOLEAN, NEW entry, entry = EntryToWrite(w),
         NEW text2, text2 = Appended(active, entry, newline),
         FilesOf(Remembered(entry), archives, tmps, text2)
  PROVE  LET log == Whole(archives, tmps, text2) IN
         /\ log = Append(Now, entry) /\ Len(log) = Len(Now) + 1
         /\ Chained(archives, tmps, text2) /\ Filed(archives, log)
         /\ HashesOf(Now) \subseteq HashesOf(log) /\ entry.hash \in HashesOf(log)
         /\ PendingIn(tmps, HeadIn(text2)) = PendingIn(tmps, HeadIn(active))
         /\ Body(active) # <<>> => HeadIn(text2) = HeadIn(active)
         /\ LinesOf(text2) # <<>> /\ Body(active) = LinesOf(active)
         /\ newline => \A s2 : s2 = [seq |-> entry.seq, hash |-> entry.hash, lines |-> st[w].lines + 1,
                                     seen |-> Appended(st[w].seen, entry, TRUE)] =>
                       Current(s2, text2)
  <1> DEFINE more == Remembered(entry)
             log == Whole(archives, tmps, text2)
  <1>1. /\ entry \in Entry /\ entry.hash = Len(history) + 1 /\ entry.intact = TRUE
    BY EntryIs
  <1>2. /\ Remembers(more) /\ LinesFrom(history) \subseteq LinesFrom(more) /\ entry \in LinesFrom(more)
    BY <1>1, Remembering
  <1>3. /\ FilesOf(history, archives, tmps, active) /\ Chained(archives, tmps, active)
        /\ Filed(archives, Now) /\ AtWork(pc[w], st[w], job[w], archives, tmps, active, stamped)
    BY FilesNow DEF Honest
  <1>4. FilesOf(more, archives, tmps, text2)
    OBVIOUS
  <1> HIDE DEF more
  <1>5. FilesOf(more, archives, tmps, active)
    BY <1>2, <1>3, FilesMore
  <1>6. Current(st[w], active) /\ (pc[w] = "note" => job[w].stamp \in DOMAIN archives
                                                     /\ archives[job[w].stamp] = job[w].older)
    BY <1>3 DEF AtWork
  <1>7. /\ entry.seq = st[w].seq + 1 /\ entry.prev = st[w].hash /\ entry # Junk
        /\ entry.kind = "rotation" => entry.path \in DOMAIN archives
                                      /\ entry.after = LastHash(archives[entry.path])
    BY <1>1, <1>6, EntryContinues, JournalValues
  <1> DEFINE s == st[w]
  <1>8. ASSUME NEW s2, s2 = [seq |-> entry.seq, hash |-> entry.hash, lines |-> s.lines + 1,
                             seen |-> Appended(s.seen, entry, TRUE)]
        PROVE  /\ Whole(archives, tmps, Appended(active, entry, newline)) = Append(Whole(archives, tmps, active), entry)
               /\ Chained(archives, tmps, Appended(active, entry, newline))
               /\ PendingIn(tmps, HeadIn(Appended(active, entry, newline))) = PendingIn(tmps, HeadIn(active))
               /\ Body(active) # <<>> => HeadIn(Appended(active, entry, newline)) = HeadIn(active)
               /\ Body(active) = LinesOf(active)
               /\ LinesOf(Appended(active, entry, newline)) # <<>>
               /\ newline => Current(s2, Appended(active, entry, newline))
    <2>1. Current(s, active) /\ FilesOf(more, archives, tmps, Appended(active, entry, newline))
      BY <1>4, <1>6
    <2>2. GoesOn(LinesFrom(more), s, entry, s2)
      BY <1>1, <1>2, <1>7, <1>8 DEF GoesOn
    <2> HIDE DEF s
    <2> QED BY <1>3, <1>5, <2>1, <2>2, Writes
  <1>9. \E s2 : s2 = [seq |-> entry.seq, hash |-> entry.hash, lines |-> s.lines + 1,
                      seen |-> Appended(s.seen, entry, TRUE)]
    OBVIOUS
  <1> HIDE DEF log
  <1>10. /\ log = Append(Now, entry) /\ Chained(archives, tmps, text2)
         /\ PendingIn(tmps, HeadIn(text2)) = PendingIn(tmps, HeadIn(active))
         /\ Body(active) # <<>> => HeadIn(text2) = HeadIn(active)
         /\ LinesOf(text2) # <<>> /\ Body(active) = LinesOf(active)
    BY <1>8, <1>9 DEF Now, log
  <1>11. Now \in Seq(LinesFrom(history))
    BY NowTyped
  <1>12. /\ Len(log) = Len(Now) + 1
         /\ HashesOf(Now) \subseteq HashesOf(log) /\ entry.hash \in HashesOf(log)
    BY <1>10, <1>11, HashesMore
  <1>13. Filed(archives, log)
    BY <1>3, <1>7, <1>10, <1>11, FiledMore
  <1> QED BY <1>8, <1>10, <1>12, <1>13 DEF log

\* A window that has just written the last entry may rest.
LEMMA WriterRests ==
  ASSUME NEW past, NEW f, NEW t, NEW text, FilesOf(past, f, t, text), Chained(f, t, text),
         NEW s, Current(s, text), DOMAIN t = {}
  PROVE  AtRest(s, t, Len(Whole(f, t, text)))
  <1>1. s.seq = Len(Whole(f, t, text))
    BY CurrentIs
  <1>2. Whole(f, t, text) \in Seq(LinesFrom(past))
    BY WholeTyped
  <1>3. Len(Whole(f, t, text)) \in Nat
    BY <1>2, LenProperties
  <1>4. s.seq <= Len(Whole(f, t, text))
    BY <1>1, <1>3, Orders
  <1> QED BY <1>4 DEF AtRest, Current

\* A change, a repair or the note of a rotation is written.
LEMMA WritingGoesOn ==
  ASSUME JournalIInv, JournalIInv', Honest, NEW w \in Writers,
         Repair(w) \/ WriteChange(w) \/ NoteRotation(w)
  PROVE  Honest' /\ Grows(Now, Whole(archives', tmps', active'))
  <1> DEFINE L == LinesFrom(history)
             log == Whole(archives', tmps', active')
  <1>1. PICK entry : entry = EntryToWrite(w)
    OBVIOUS
  <1>2. /\ WriteEntry(w) /\ pc[w] \in {"write", "repair", "note"} /\ Alone(w)
        /\ \/ pc[w] = "repair" /\ Goto(w, "readdir") /\ job' = job
           \/ /\ pc[w] = "write" /\ Goto(w, "rotate") /\ job' = job
           \/ pc[w] \in {"write", "note"} /\ Goto(w, "idle") /\ job' = [job EXCEPT ![w] = NoJob]
    BY DEF Repair, WriteChange, NoteRotation, Return, Alone
  <1>3. /\ active' = Appended(active, entry, TRUE) /\ UNCHANGED <<archives, tmps, stamped>>
        /\ history' = Remembered(entry) /\ recorded' = recorded \cup {entry.hash}
        /\ st' = [st EXCEPT ![w] = [seq |-> entry.seq, hash |-> entry.hash, lines |-> @.lines + 1,
                                    seen |-> Appended(@.seen, entry, TRUE)]]
    BY <1>1, <1>2 DEF WriteEntry
  <1>4. /\ st'[w] = [seq |-> entry.seq, hash |-> entry.hash, lines |-> st[w].lines + 1,
                     seen |-> Appended(st[w].seen, entry, TRUE)]
        /\ OthersStay(w) /\ \A v \in Writers \ {w} : st'[v] = st[v]
    <2> DEFINE state == [seq |-> entry.seq, hash |-> entry.hash, lines |-> st[w].lines + 1,
                         seen |-> Appended(st[w].seen, entry, TRUE)]
    <2>1. st \in [Writers -> {NoState} \cup StatesOf(L)] /\ job \in [Writers -> JobsOf(L)]
      BY DEF JournalIInv, Holds
    <2>2. st' = [st EXCEPT ![w] = state]
      BY <1>3
    <2> HIDE DEF state, L
    <2>3. st'[w] = state /\ \A v \in Writers \ {w} : st'[v] = st[v]
      BY <2>1, <2>2
    <2>4. \A v \in Writers \ {w} : job'[v] = job[v]
      BY <1>2, <2>1
    <2>5. \A v \in Writers \ {w} : pc'[v] = pc[v]
      BY <1>2, Steps1
    <2> QED BY <2>3, <2>4, <2>5 DEF OthersStay, state
  <1>5. AtWork(pc[w], st[w], job[w], archives, tmps, active, stamped)
    BY <1>2 DEF Honest
  <1>6. /\ log = Append(Now, entry) /\ Len(log) = Len(Now) + 1
        /\ Chained(archives', tmps', active') /\ Filed(archives', log)
        /\ HashesOf(Now) \subseteq HashesOf(log) /\ entry.hash \in HashesOf(log)
        /\ PendingIn(tmps, HeadIn(active')) = PendingIn(tmps, HeadIn(active))
        /\ Body(active) # <<>> => HeadIn(active') = HeadIn(active)
        /\ LinesOf(active') # <<>> /\ Body(active) = LinesOf(active)
        /\ Current(st'[w], active')
    <2> DEFINE text2 == active'
               more == Whole(archives, tmps, text2)
    <2>1. text2 = Appended(active, entry, TRUE) /\ FilesOf(Remembered(entry), archives, tmps, text2)
      BY <1>3, FilesThen
    <2> HIDE DEF text2
    <2>2. /\ more = Append(Now, entry) /\ Len(more) = Len(Now) + 1
          /\ Chained(archives, tmps, text2) /\ Filed(archives, more)
          /\ HashesOf(Now) \subseteq HashesOf(more) /\ entry.hash \in HashesOf(more)
          /\ PendingIn(tmps, HeadIn(text2)) = PendingIn(tmps, HeadIn(active))
          /\ Body(active) # <<>> => HeadIn(text2) = HeadIn(active)
          /\ LinesOf(text2) # <<>> /\ Body(active) = LinesOf(active)
          /\ \A s2 : s2 = [seq |-> entry.seq, hash |-> entry.hash, lines |-> st[w].lines + 1,
                           seen |-> Appended(st[w].seen, entry, TRUE)] => Current(s2, text2)
      BY <1>1, <1>2, <2>1, EntryWritten
    <2> HIDE DEF more
    <2>3. Current(st'[w], text2)
      BY <1>4, <2>2
    <2>4. log = more
      BY <1>3 DEF text2, more
    <2> HIDE DEF log
    <2> QED BY <1>3, <2>2, <2>3, <2>4 DEF text2
  <1> HIDE DEF log
  <1>7. recorded' \subseteq HashesOf(log)
    BY <1>3, <1>6 DEF Honest
  <1>8. Len(log) \in Nat /\ Len(Now) <= Len(log) /\ Len(Now) < Len(log) /\ Len(Now) \in Nat
    BY <1>6, NowTyped, Orders
  <1>9. Named(archives', tmps', stamped')
    BY <1>3 DEF Honest
  <1>10. \A v \in Writers \ {w} : st'[v] # NoState => st'[v].seq < Len(log)
    <2> TAKE v \in Writers \ {w}
    <2>1. pc[v] = "idle"
      BY <1>2 DEF Honest
    <2>2. AtRest(st[v], tmps, Len(Now))
      BY <2>1 DEF Honest
    <2>3. st[v] # NoState => st[v].seq \in Nat /\ st[v].seq <= Len(Now)
      BY <2>2, WindowTyped DEF AtRest
    <2>4. st[v] # NoState => st[v].seq < Len(log)
      BY <1>8, <2>3, Orders
    <2> QED BY <1>4, <2>4
  <1>11. /\ IF pc'[w] \in {"idle", "stat"} THEN AtRest(st'[w], tmps', Len(log))
            ELSE AtWork(pc'[w], st'[w], job'[w], archives', tmps', active', stamped')
         /\ pc'[w] \in {"rotate", "write archive"} => Behind(w, st', Len(log))
    <2>1. CASE pc[w] = "repair" /\ Goto(w, "readdir") /\ job' = job
      <3>1. pc'[w] = "readdir"
        BY <2>1, Steps1
      <3>2. HeadKnown(job[w], tmps, active)
        BY <1>5, <2>1 DEF AtWork
      <3>3. HeadKnown(job[w], tmps, active')
        <4>1. CASE Body(active) # <<>>
          BY <1>6, <3>2, <4>1 DEF HeadKnown
        <4>2. CASE Body(active) = <<>>
          <5>1. HeadIn(active) = NoHead
            <6>1. FilesOf(history, archives, tmps, active) /\ Chained(archives, tmps, active)
              BY FilesNow DEF Honest
            <6> QED BY <4>2, <6>1, EndsOfWhole
          <5>2. PendingIn(tmps, NoHead) = <<>>
            BY DEF PendingIn, LinkingIn
          <5> QED BY <1>6, <3>2, <5>1, <5>2 DEF HeadKnown
        <4> QED BY <4>1, <4>2
      <3> QED BY <1>3, <1>6, <2>1, <3>1, <3>3 DEF AtWork
    <2>2. CASE pc[w] = "write" /\ Goto(w, "rotate") /\ job' = job
      <3>1. pc'[w] = "rotate" /\ DOMAIN tmps = {}
        BY <1>5, <2>2, Steps1 DEF AtWork
      <3>2. Behind(w, st', Len(log))
        BY <1>10 DEF Behind
      <3> QED BY <1>3, <1>6, <3>1, <3>2 DEF AtWork
    <2>3. CASE pc[w] \in {"write", "note"} /\ Goto(w, "idle") /\ job' = [job EXCEPT ![w] = NoJob]
      <3>1. pc'[w] = "idle" /\ DOMAIN tmps' = {}
        BY <1>3, <1>5, <2>3, Steps1 DEF AtWork
      <3>2. AtRest(st'[w], tmps', Len(Whole(archives', tmps', active')))
        <4>1. FilesOf(history', archives', tmps', active')
          BY FilesThen
        <4> QED BY <1>6, <3>1, <4>1, WriterRests
      <3> QED BY <3>1, <3>2 DEF log
    <2> QED BY <1>2, <2>1, <2>2, <2>3
  <1>12. Honest'
    <2>1. log = Whole(archives', tmps', active')
      BY DEF log
    <2> QED BY <1>2, <1>4, <1>6, <1>7, <1>8, <1>9, <1>11, <2>1, OneGoesOn DEF Alone, OthersStay
  <1> QED BY <1>6, <1>12 DEF Grows, log

-----------------------------------------------------------------------------
(* An append that is broken off.                                           *)

\* What a window that stops keeps.
LEMMA ForgetIs ==
  ASSUME JournalIInv, NEW w \in Writers, Forget(w)
  PROVE  /\ pc'[w] = "idle" /\ st'[w] = NoState /\ OthersStay(w) /\ UNCHANGED <<stamped, recorded>>
         /\ \A t, n : AtRest(st'[w], t, n)
  <1>1. /\ st' = [st EXCEPT ![w] = NoState] /\ job' = [job EXCEPT ![w] = NoJob]
        /\ Goto(w, "idle") /\ UNCHANGED <<stamped, recorded>>
    BY DEF Forget, Return
  <1>2. /\ DOMAIN st = Writers /\ DOMAIN job = Writers
        /\ st = [v \in Writers |-> st[v]] /\ job = [v \in Writers |-> job[v]]
    BY DEF JournalIInv, Holds
  <1>3. /\ st'[w] = NoState /\ \A v \in Writers \ {w} : st'[v] = st[v] /\ job'[v] = job[v]
    BY <1>1, <1>2
  <1>4. pc'[w] = "idle" /\ \A v \in Writers \ {w} : pc'[v] = pc[v]
    BY <1>1, Steps1
  <1> QED BY <1>1, <1>3, <1>4 DEF OthersStay, AtRest

\* A window that is not appending is closed.
LEMMA ClosingGoesOn ==
  ASSUME JournalIInv, Honest, NEW w \in Writers, Forget(w), pc[w] = "idle",
         UNCHANGED <<active, archives, tmps>>
  PROVE  Honest' /\ Grows(Now, Whole(archives', tmps', active'))
  <1>1. /\ pc'[w] = "idle" /\ st'[w] = NoState /\ OthersStay(w) /\ UNCHANGED <<stamped, recorded>>
        /\ \A t, n : AtRest(st'[w], t, n)
    BY ForgetIs
  <1>2. Now' = Now
    BY DEF Now
  <1>3. \A v \in Writers \ {w} : pc'[v] = pc[v] /\ st'[v] = st[v] /\ job'[v] = job[v]
    BY <1>1 DEF OthersStay
  <1>4. /\ Chained(archives, tmps, active)' /\ Filed(archives, Now)'
        /\ Named(archives, tmps, stamped)' /\ (recorded \subseteq HashesOf(Now))'
    BY <1>1, <1>2 DEF Honest
  <1>5. \A u, v \in Writers : pc'[u] # "idle" /\ pc'[v] # "idle" => u = v
    BY <1>1, <1>3 DEF Honest
  <1>6. ASSUME NEW v \in Writers
        PROVE  IF pc'[v] \in {"idle", "stat"} THEN AtRest(st'[v], tmps', Len(Now))
               ELSE AtWork(pc'[v], st'[v], job'[v], archives', tmps', active', stamped')
    <2>1. CASE v = w
      BY <1>1, <2>1
    <2>2. CASE v # w
      BY <1>1, <1>3, <2>2 DEF Honest
    <2> QED BY <2>1, <2>2
  <1>7. ASSUME NEW v \in Writers, pc'[v] \in {"rotate", "write archive"}
        PROVE  Behind(v, st', Len(Now))
    <2>1. v # w /\ Behind(v, st, Len(Now))
      BY <1>1, <1>3, <1>7 DEF Honest
    <2> QED BY <1>1, <1>3, <2>1 DEF Behind
  <1>8. Honest'
    BY <1>2, <1>4, <1>5, <1>6, <1>7 DEF Honest
  <1> QED BY <1>8 DEF Grows, Now

\* Part of the entry is in the file, or all of it.
LEMMA TornEntryGoesOn ==
  ASSUME JournalIInv, JournalIInv', Honest, NEW w \in Writers, Forget(w),
         pc[w] \in {"write", "repair", "note"}, TornEntry(w)
  PROVE  Honest' /\ Grows(Now, Whole(archives', tmps', active'))
  <1>1. PICK entry : entry = EntryToWrite(w)
    OBVIOUS
  <1>2. /\ \/ active' = IF active = NoFile THEN EmptyText ELSE active
           \/ active' = Appended(active, Junk, FALSE)
           \/ \E newline \in BOOLEAN : active' = Appended(active, entry, newline)
        /\ history' = IF Last(<<Junk>> \o active'.lines) = entry
                      THEN Remembered(entry) ELSE history
        /\ UNCHANGED <<archives, tmps>>
    BY <1>1 DEF TornEntry
  <1>3. /\ pc'[w] = "idle" /\ OthersStay(w) /\ UNCHANGED <<stamped, recorded>> /\ Alone(w)
        /\ \A t, n : AtRest(st'[w], t, n)
    BY ForgetIs DEF Alone
  <1>4. /\ FilesOf(history, archives, tmps, active) /\ Chained(archives, tmps, active)
        /\ AtWork(pc[w], st[w], job[w], archives, tmps, active, stamped)
        /\ Filed(archives, Now) /\ Named(archives, tmps, stamped) /\ recorded \subseteq HashesOf(Now)
    BY FilesNow DEF Honest
  <1>5. Current(st[w], active)
    BY <1>4 DEF AtWork
  <1>6. /\ entry \in Entry /\ entry.hash = Len(history) + 1 /\ entry.intact = TRUE
    BY <1>1, EntryIs
  <1>7. /\ Remembers(Remembered(entry)) /\ LinesFrom(history) \subseteq LinesFrom(Remembered(entry))
        /\ entry \in LinesFrom(Remembered(entry))
    BY <1>6, Remembering
  <1>8. FilesOf(history', archives, tmps, active)
    <2>1. FilesOf(Remembered(entry), archives, tmps, active)
      BY <1>4, <1>7, FilesMore
    <2>2. history' = Remembered(entry) \/ history' = history
      BY <1>2
    <2> QED BY <1>4, <2>1, <2>2
  <1>9. FilesOf(history', archives, tmps, active')
    BY <1>2, FilesThen
  <1>10. CASE active' = IF active = NoFile THEN EmptyText ELSE active
    <2>1. Body(active') = Body(active) /\ CutAtEnd(active')
      <3>1. CASE active = NoFile
        <4>1. LinesOf(EmptyText) = <<>> /\ LinesOf(NoFile) = <<>>
          BY DEF LinesOf, EmptyText
        <4> QED BY <1>10, <3>1, <4>1 DEF Body, CutAtEnd
      <3>2. CASE active # NoFile
        BY <1>4, <1>10, <3>2 DEF Chained
      <3> QED BY <3>1, <3>2
    <2> DEFINE text2 == active'
               past == history'
    <2>2. /\ FilesOf(past, archives, tmps, active) /\ FilesOf(past, archives, tmps, text2)
          /\ Body(text2) = Body(active) /\ CutAtEnd(text2)
      BY <1>8, <1>9, <2>1
    <2> HIDE DEF text2, past
    <2>3. Whole(archives, tmps, text2) = Whole(archives, tmps, active) /\ Chained(archives, tmps, text2)
      BY <1>4, <2>2, SameBody
    <2>4. Whole(archives', tmps', active') = Now /\ Chained(archives', tmps', active')
      BY <1>2, <2>3 DEF text2, Now
    <2> QED BY <1>2, <1>3, <1>4, <2>4, SameLogGoesOn
  <1>11. CASE active' = Appended(active, Junk, FALSE)
    <2> DEFINE past == history'
               s == st[w]
               text2 == active'
    <2>1. /\ FilesOf(past, archives, tmps, active) /\ FilesOf(past, archives, tmps, text2)
          /\ Chained(archives, tmps, active) /\ Current(s, active)
      BY <1>4, <1>5, <1>8, <1>9
    <2>2. PICK newline \in BOOLEAN : ~newline /\ text2 = Appended(active, Junk, newline)
      BY <1>11
    <2> HIDE DEF past, s, text2
    <2>3. Whole(archives, tmps, text2) = Whole(archives, tmps, active) /\ Chained(archives, tmps, text2)
      BY <2>2, <2>1, Begun
    <2>4. Whole(archives', tmps', active') = Now /\ Chained(archives', tmps', active')
      BY <1>2, <2>3 DEF Now, text2
    <2> QED BY <1>2, <1>3, <1>4, <2>4, SameLogGoesOn
  <1>12. ASSUME NEW newline \in BOOLEAN, active' = Appended(active, entry, newline)
         PROVE  Honest' /\ Grows(Now, Whole(archives', tmps', active'))
    <2> DEFINE text2 == active'
               log == Whole(archives, tmps, text2)
    <2>1. history' = Remembered(entry)
      <3>1. ~(LinesOf(active) # <<>> /\ ~active.newline) /\ LinesOf(active) \in Seq(LinesFrom(history))
        BY <1>4, <1>5, CurrentIs
      <3>2. active'.lines = Append(LinesOf(active), entry)
        BY <1>12, <3>1 DEF Appended
      <3>3. Last(<<Junk>> \o Append(LinesOf(active), entry)) = entry
        <4> DEFINE M == LinesFrom(Remembered(entry))
                   lines == LinesOf(active)
        <4>1. lines \in Seq(M) /\ entry \in M /\ Junk \in M
          <5>1. Seq(LinesFrom(history)) \subseteq Seq(M)
            BY <1>7, SeqGrows
          <5> QED BY <1>7, <3>1, <5>1 DEF LinesFrom
        <4> HIDE DEF M, lines
        <4>2. <<Junk>> \o Append(lines, entry) \in Seq(M) /\ Len(lines) \in Nat
          BY <4>1
        <4>3. Last(<<Junk>> \o Append(lines, entry)) = entry
          BY <4>1, <4>2 DEF Last
        <4> QED BY <4>3 DEF lines
      <3> QED BY <1>2, <3>2, <3>3
    <2>2. text2 = Appended(active, entry, newline) /\ FilesOf(Remembered(entry), archives, tmps, text2)
      BY <1>9, <1>12, <2>1
    <2> HIDE DEF text2
    <2>3. /\ log = Append(Now, entry) /\ Len(log) = Len(Now) + 1
          /\ Chained(archives, tmps, text2) /\ Filed(archives, log)
          /\ HashesOf(Now) \subseteq HashesOf(log)
      BY <1>1, <2>2, EntryWritten
    <2>4. log = Whole(archives', tmps', active')
      BY <1>2 DEF text2
    <2> HIDE DEF log
    <2>5. Chained(archives', tmps', active') /\ Filed(archives', log) /\ Named(archives', tmps', stamped')
      BY <1>2, <1>3, <1>4, <2>3 DEF text2
    <2>6. Len(log) \in Nat /\ Len(Now) <= Len(log) /\ Len(Now) < Len(log)
      BY <2>3, NowTyped, Orders
    <2>7. recorded' \subseteq HashesOf(log)
      BY <1>3, <1>4, <2>3
    <2>8. Honest'
      BY <1>3, <2>4, <2>5, <2>6, <2>7, OneGoesOn DEF Alone, OthersStay
    <2> QED BY <2>3, <2>4, <2>8 DEF Grows
  <1> QED BY <1>2, <1>10, <1>11, <1>12

\* Part of a temporary file is there, or all of it.
LEMMA TornTmpGoesOn ==
  ASSUME JournalIInv, JournalIInv', Honest, NEW w \in Writers, Forget(w),
         \/ pc[w] = "write archive" /\ TornTmp(job[w].stamp, job[w].older)
         \/ pc[w] = "write active" /\ TornTmp(Active, job[w].newer)
  PROVE  Honest' /\ Grows(Now, Whole(archives', tmps', active'))
  <1> DEFINE older == job[w].older
             newer == job[w].newer
  <1>1. /\ pc'[w] = "idle" /\ OthersStay(w) /\ UNCHANGED <<stamped, recorded>> /\ Alone(w)
        /\ \A t, n : AtRest(st'[w], t, n)
    BY ForgetIs DEF Alone
  <1>2. /\ job[w].stamp = stamped /\ stamped # Active
        /\ \A k \in 0..Len(older) : CopyOf(SubSeq(older, 1, k), Body(active))
        /\ CopyOf(older, Body(active))
        /\ DOMAIN tmps \subseteq {stamped} /\ \A n \in DOMAIN tmps : tmps[n] = older
    BY HalvesAreCopies
  <1>3. UNCHANGED <<active, archives, history>>
    BY DEF TornTmp
  <1> HIDE DEF older, newer
  <1>4. \A n \in DOMAIN tmps' \ {Active} : n = stamped /\ CopyOf(tmps'[n], Body(active))
    <2>1. CASE pc[w] = "write archive" /\ TornTmp(stamped, older)
      <3>1. PICK k \in 0..Len(older) : tmps' = With(tmps, stamped, SubSeq(older, 1, k))
        BY <2>1 DEF TornTmp
      <3> QED BY <1>2, <3>1 DEF With
    <2>2. CASE pc[w] = "write active" /\ TornTmp(Active, newer)
      <3>1. PICK k \in 0..Len(newer) : tmps' = With(tmps, Active, SubSeq(newer, 1, k))
        BY <2>2 DEF TornTmp
      <3> QED BY <1>2, <3>1 DEF With
    <2> QED BY <1>2, <2>1, <2>2 DEF older, newer
  <1>5. /\ Whole(archives', tmps', active') = Now /\ Chained(archives', tmps', active')
        /\ Filed(archives', Now) /\ Named(archives', tmps', stamped')
    BY <1>1, <1>3, <1>4, TmpsChange
  <1>6. DOMAIN tmps # {} \/ Behind(w, st, Len(Now))
    <2>1. CASE pc[w] = "write archive"
      BY <2>1 DEF Honest
    <2>2. CASE pc[w] = "write active"
      BY <2>2 DEF Honest, AtWork
    <2> QED BY <2>1, <2>2
  <1> QED BY <1>1, <1>5, <1>6, SameLogGoesOn

\* A window stops between two file-system calls or inside one.
LEMMA BrokenOffGoesOn ==
  ASSUME JournalIInv, JournalIInv', Honest, NEW w \in Writers, Forget(w), BrokenOff(w)
  PROVE  Honest' /\ Grows(Now, Whole(archives', tmps', active'))
  <1>1. /\ pc'[w] = "idle" /\ OthersStay(w) /\ UNCHANGED <<stamped, recorded>>
        /\ \A t, n : AtRest(st'[w], t, n)
    BY ForgetIs
  <1>2. CASE UNCHANGED <<active, archives, tmps>> /\ pc[w] # "idle"
    <2>1. Alone(w) /\ UNCHANGED <<active, archives, tmps, recorded>> /\ Named(archives, tmps, stamped')
      BY <1>1, <1>2 DEF Alone, Honest
    <2> QED BY <1>1, <2>1, OnlyGoesOn
  <1>3. CASE UNCHANGED <<active, archives, tmps>> /\ pc[w] = "idle"
    BY <1>3, ClosingGoesOn
  <1>4. CASE pc[w] \in {"write", "repair", "note"} /\ TornEntry(w)
    BY <1>4, TornEntryGoesOn
  <1>5. CASE \/ pc[w] = "write archive" /\ TornTmp(job[w].stamp, job[w].older)
             \/ pc[w] = "write active" /\ TornTmp(Active, job[w].newer)
    BY <1>5, TornTmpGoesOn
  <1>6. \/ UNCHANGED <<active, archives, tmps>>
        \/ pc[w] \in {"write", "repair", "note"} /\ TornEntry(w)
        \/ pc[w] = "write archive" /\ TornTmp(job[w].stamp, job[w].older)
        \/ pc[w] = "write active" /\ TornTmp(Active, job[w].newer)
    BY DEF BrokenOff, files
  <1> QED BY <1>2, <1>3, <1>4, <1>5, <1>6

-----------------------------------------------------------------------------
(* The invariant holds while nobody disturbs the journal.                  *)

Counts == [appends : Nat, stops : Nat, faults : Nat, edits : Nat, overlaps : Nat]
Counted == spent \in Counts

\* One more is counted.
LEMMA CountsGrow ==
  ASSUME Counted
  PROVE  /\ [spent EXCEPT !.appends = @ + 1] \in Counts
         /\ [spent EXCEPT !.appends = @ + 1, !.overlaps = @ + 1] \in Counts
         /\ [spent EXCEPT !.appends = @ + 1, !.overlaps = @ + 1].overlaps # 0
         /\ [spent EXCEPT !.stops = @ + 1] \in Counts
         /\ [spent EXCEPT !.faults = @ + 1] \in Counts
         /\ [spent EXCEPT !.edits = @ + 1] \in Counts
         /\ [spent EXCEPT !.edits = @ + 1].edits # 0
  <1>1. /\ spent.appends + 1 \in Nat /\ spent.stops + 1 \in Nat /\ spent.faults + 1 \in Nat
        /\ spent.edits + 1 \in Nat /\ spent.overlaps + 1 \in Nat
        /\ spent.edits + 1 # 0 /\ spent.overlaps + 1 # 0
    BY DEF Counted, Counts
  <1>2. /\ [spent EXCEPT !.appends = @ + 1] \in Counts
        /\ [spent EXCEPT !.stops = @ + 1] \in Counts
        /\ [spent EXCEPT !.faults = @ + 1] \in Counts
        /\ [spent EXCEPT !.edits = @ + 1] \in Counts
    BY <1>1 DEF Counted, Counts
  <1>3. [spent EXCEPT !.appends = @ + 1, !.overlaps = @ + 1] \in Counts
    BY <1>1 DEF Counted, Counts
  <1>4. /\ [spent EXCEPT !.appends = @ + 1, !.overlaps = @ + 1].overlaps = spent.overlaps + 1
        /\ [spent EXCEPT !.edits = @ + 1].edits = spent.edits + 1
    BY DEF Counted, Counts
  <1> QED BY <1>1, <1>2, <1>3, <1>4

\* How a step counts.
Troubles == spent.stops + spent.faults + spent.edits + spent.overlaps
Counting ==
  \/ spent' = spent
  \/ spent.appends < MaxAppends /\ spent' = [spent EXCEPT !.appends = @ + 1]
  \/ /\ spent.appends < MaxAppends /\ Troubles < MaxMishaps
     /\ spent' = [spent EXCEPT !.appends = @ + 1, !.overlaps = @ + 1]
  \/ Troubles < MaxMishaps /\ spent' = [spent EXCEPT !.stops = @ + 1]
  \/ Troubles < MaxMishaps /\ spent' = [spent EXCEPT !.faults = @ + 1]
  \/ Troubles < MaxMishaps /\ spent' = [spent EXCEPT !.edits = @ + 1]

\* Every step counts so.
LEMMA StepCounts ==
  ASSUME [JournalNext]_journalVars
  PROVE  Counting /\ (unfinished' = unfinished \/ unfinished' = TRUE)
  <1>1. CASE UNCHANGED journalVars
    BY <1>1 DEF journalVars, Counting
  <1>2. CASE HandEdit
    <2>1. PICK kind : Edited(kind)
      BY <1>2 DEF HandEdit, EditJournal, EditArchive, SetAside, DeleteJournal, LoseArchive
    <2> QED BY <2>1 DEF Edited, ghosts, Counting, Troubled, Troubles
  <1>3. ASSUME NEW w \in Writers,
               \/ Start(w) \/ EnsureLoaded(w) \/ Recover(w) \/ WriteChange(w) \/ Rotation(w)
               \/ Stop(w) \/ CallFails(w) \/ FileGone(w)
        PROVE  Counting /\ (unfinished' = unfinished \/ unfinished' = TRUE)
    <2>1. CASE Start(w)
      BY <2>1 DEF Start, ghosts, Counting, Troubled, Troubles
    <2>2. CASE EnsureLoaded(w)
      BY <2>2 DEF EnsureLoaded, StatMissing, StatKnown, StatAndRead, TrimTail, Repair, FinishLine,
                  WriteEntry, ghosts, Counting
    <2>3. CASE Recover(w)
      BY <2>3 DEF Recover, Readdir, CompleteRotation, Discard, RecoveryFails, ghosts, Counting,
                  Troubled, Troubles, Recovered
    <2>4. CASE WriteChange(w)
      BY <2>4 DEF WriteChange, WriteEntry, Counting
    <2>5. CASE Rotation(w)
      BY <2>5 DEF Rotation, Rotate, WriteArchive, WriteActive, WriteTmp, Swap, Commit, NoteRotation,
                  WriteEntry, ghosts, Counting
    <2>6. CASE Stop(w) \/ CallFails(w)
      BY <2>6 DEF Stop, CallFails, Forget, Counting, Troubled, Troubles
    <2>7. CASE FileGone(w)
      BY <2>7 DEF FileGone, Forget, Counting
    <2> QED BY <1>3, <2>1, <2>2, <2>3, <2>4, <2>5, <2>6, <2>7
  <1> QED BY <1>1, <1>2, <1>3 DEF JournalNext

\* A journal that was disturbed once stays so.
LEMMA TroublesStay ==
  ASSUME Counted, [JournalNext]_journalVars
  PROVE  Counted' /\ (Undisturbed' => Undisturbed)
  <1>1. Counting /\ (unfinished' = unfinished \/ unfinished' = TRUE)
    BY StepCounts
  <1>2. Counted'
    BY <1>1, CountsGrow DEF Counting, Counted
  <1>3. /\ spent.edits \in Nat /\ spent.overlaps \in Nat
        /\ spent'.edits = spent.edits \/ spent'.edits = spent.edits + 1
        /\ spent'.overlaps = spent.overlaps \/ spent'.overlaps = spent.overlaps + 1
    BY <1>1 DEF Counting, Counted, Counts
  <1>4. (spent'.edits = 0 => spent.edits = 0) /\ (spent'.overlaps = 0 => spent.overlaps = 0)
    BY <1>3
  <1> QED BY <1>1, <1>2, <1>4 DEF Undisturbed

\* Nothing is where a window has not left it.
LEMMA NothingIsGone ==
  ASSUME Honest, NEW w \in Writers
  PROVE  ~FileGone(w)
  <1>1. pc[w] \in {"trim", "rotate", "swap", "commit"} =>
          AtWork(pc[w], st[w], job[w], archives, tmps, active, stamped)
    BY DEF Honest
  <1>2. pc[w] \in {"trim", "rotate"} => active # NoFile
    BY <1>1 DEF AtWork, LinesOf
  <1>3. pc[w] = "swap" => Active \in DOMAIN tmps
    BY <1>1 DEF AtWork
  <1>4. pc[w] = "commit" => job[w].stamp \in DOMAIN tmps
    BY <1>1 DEF AtWork
  <1> QED BY <1>2, <1>3, <1>4 DEF FileGone

\* A step that does not disturb the journal leaves its log alone or adds one entry.
LEMMA GoesOnUndisturbed ==
  ASSUME JournalIInv, Counted, HonestInv, [JournalNext]_journalVars, Undisturbed'
  PROVE  Honest /\ Honest' /\ Grows(Now, Whole(archives', tmps', active'))
  <1>1. Honest /\ JournalIInv'
    BY TroublesStay, JournalSteps DEF HonestInv
  <1>2. CASE UNCHANGED journalVars
    <2>1. UNCHANGED <<active, archives, tmps, st, pc, job, stamped, recorded>>
      BY <1>2 DEF journalVars
    <2>2. Now' = Now
      BY <2>1 DEF Now
    <2>3. Honest'
      BY <1>1, <2>1, <2>2 DEF Honest, Behind
    <2>4. Grows(Now, Whole(archives', tmps', active'))
      BY <2>1 DEF Grows, Now
    <2> QED BY <1>1, <2>3, <2>4
  <1>3. CASE HandEdit
    <2>1. PICK kind : Edited(kind)
      BY <1>3 DEF HandEdit, EditJournal, EditArchive, SetAside, DeleteJournal, LoseArchive
    <2>2. spent'.edits # 0
      BY <2>1, CountsGrow DEF Edited
    <2> QED BY <2>2 DEF Undisturbed
  <1>4. ASSUME NEW w \in Writers,
               \/ Start(w) \/ EnsureLoaded(w) \/ Recover(w) \/ WriteChange(w) \/ Rotation(w)
               \/ Stop(w) \/ CallFails(w) \/ FileGone(w)
        PROVE  Honest' /\ Grows(Now, Whole(archives', tmps', active'))
    <2>1. CASE Start(w)
      <3>1. \A v \in Writers : pc[v] = "idle"
        <4>1. SUFFICES ASSUME ~(\A v \in Writers : pc[v] = "idle") PROVE FALSE
          OBVIOUS
        <4>2. spent' = [spent EXCEPT !.appends = @ + 1, !.overlaps = @ + 1]
          BY <2>1, <4>1 DEF Start
        <4> QED BY <4>2, CountsGrow DEF Undisturbed
      <3> QED BY <1>1, <2>1, <3>1, StartGoesOn
    <2>2. CASE EnsureLoaded(w)
      BY <1>1, <2>2, StatMissingGoesOn, StatKnownGoesOn, StatAndReadGoesOn, TrimTailGoesOn,
         WritingGoesOn, FinishLineGoesOn DEF EnsureLoaded
    <2>3. CASE Recover(w)
      <3>1. \A n : ~RecoveryFails(w, n)
        BY DEF RecoveryFails, Undisturbed
      <3> QED BY <1>1, <2>3, <3>1, ReaddirGoesOn, CompleteGoesOn, DiscardGoesOn DEF Recover
    <2>4. CASE WriteChange(w)
      BY <1>1, <2>4, WritingGoesOn
    <2>5. CASE Rotation(w)
      BY <1>1, <2>5, RotateGoesOn, WriteTmpsGoesOn, SwapGoesOn, CommitGoesOn, WritingGoesOn DEF Rotation
    <2>6. CASE Stop(w) \/ CallFails(w)
      <3>1. Forget(w) /\ BrokenOff(w)
        BY <2>6 DEF Stop, CallFails
      <3> QED BY <1>1, <3>1, BrokenOffGoesOn
    <2>7. CASE FileGone(w)
      BY <1>1, <2>7, NothingIsGone
    <2> QED BY <1>4, <2>1, <2>2, <2>3, <2>4, <2>5, <2>6, <2>7
  <1> QED BY <1>1, <1>2, <1>3, <1>4 DEF JournalNext

\* So it is at first.
LEMMA HonestStarts ==
  ASSUME JournalInit
  PROVE  Counted /\ HonestInv /\ Now = <<>>
  <1> USE DEF JournalInit
  <1>1. FilesOf(history, archives, tmps, active)
    BY JournalStarts, FilesNow
  <1>2. Counted
    BY DEF Counted, Counts
  <1>3. ArchivedIn(archives) = <<>>
    <2>1. DOMAIN archives = {} /\ Cardinality({}) = 0
      BY FS_EmptySet
    <2>2. OrderIn(archives) = <<>>
      BY <2>1 DEF OrderIn
    <2>3. [i \in DOMAIN OrderIn(archives) |-> archives[OrderIn(archives)[i]]] = <<>>
      BY <2>2
    <2>4. FlattenSeq(<<>>) = <<>>
      BY DEF FlattenSeq
    <2> QED BY <2>3, <2>4 DEF ArchivedIn
  <1>4. PendingIn(tmps, HeadIn(active)) = <<>>
    BY DEF PendingIn, LinkingIn
  <1>5. LinesOf(active) = <<>> /\ Body(active) = <<>>
    BY DEF LinesOf, Body
  <1>6. Now = <<>>
    BY <1>3, <1>4, <1>5 DEF Now, Whole, Ahead
  <1>7. Chained(archives, tmps, active)
    BY <1>5, <1>6 DEF Chained, Sound, CutAtEnd, Now
  <1>8. Filed(archives, Now) /\ Named(archives, tmps, stamped)
    BY <1>6 DEF Filed, Named
  <1>9. Honest
    BY <1>7, <1>8 DEF Honest, AtRest
  <1> QED BY <1>2, <1>6, <1>9 DEF HonestInv

\* So it is at all times.
LEMMA HonestHolds == JournalSpec => [](JournalIInv /\ Counted /\ HonestInv)
  <1>1. JournalInit => JournalIInv /\ Counted /\ HonestInv
    BY JournalStarts, HonestStarts
  <1>2. JournalIInv /\ Counted /\ HonestInv /\ [JournalNext]_journalVars
        => JournalIInv' /\ Counted' /\ HonestInv'
    BY JournalSteps, TroublesStay, GoesOnUndisturbed DEF HonestInv
  <1> QED BY <1>1, <1>2, PTL DEF JournalSpec

-----------------------------------------------------------------------------
(* The log that the properties speak of.                                   *)

\* The entries of lines of which at most the last is none.
LEMMA EntriesAre ==
  ASSUME NEW T, NEW log \in Seq(T), \A i \in 1..Len(log) : log[i] # Junk,
         NEW lines, lines = log \/ lines = Append(log, Junk)
  PROVE  EntriesOf(lines) = log
  <1> DEFINE m == Len(log)
             n == Len(lines)
             Is(g) == g = [i \in 0..n |-> IF i = 0 THEN <<>>
                                          ELSE IF lines[i] = Junk THEN g[i - 1]
                                          ELSE Append(g[i - 1], lines[i])]
             up == [i \in 0..n |-> SubSeq(log, 1, IF i <= m THEN i ELSE m)]
  <1>1. /\ m \in Nat /\ n \in {m, m + 1} /\ DOMAIN log = 1..m
        /\ \A i \in 1..m : lines[i] = log[i]
        /\ n = m + 1 => lines[n] = Junk
    <2>1. /\ m \in Nat /\ DOMAIN log = 1..m
          /\ Len(Append(log, Junk)) = m + 1 /\ \A i \in 1..m : Append(log, Junk)[i] = log[i]
          /\ Append(log, Junk)[m + 1] = Junk
      OBVIOUS
    <2>2. \A k \in Nat : k # k + 1
      OBVIOUS
    <2> HIDE DEF m
    <2>3. CASE lines = log
      BY <2>1, <2>2, <2>3 DEF m
    <2>4. CASE lines = Append(log, Junk)
      BY <2>1, <2>4
    <2> QED BY <2>3, <2>4
  <1> HIDE DEF m, n
  <1>2. \A i \in 0..m : /\ SubSeq(log, 1, i) \in Seq(T) /\ Len(SubSeq(log, 1, i)) = i
                        /\ \A k \in 1..i : SubSeq(log, 1, i)[k] = log[k]
    BY <1>1, SubSeqProperties DEF m
  <1>3. SubSeq(log, 1, 0) = <<>>
    <2>1. 0 \in 0..m
      BY <1>1
    <2> QED BY <1>2, <2>1
  <1>4. SubSeq(log, 1, m) = log
    BY SubSeqFull DEF m
  <1>5. ASSUME NEW i \in 1..m PROVE SubSeq(log, 1, i) = Append(SubSeq(log, 1, i - 1), log[i])
    <2> DEFINE a == SubSeq(log, 1, i)
               b == SubSeq(log, 1, i - 1)
    <2>1. i - 1 \in 0..m /\ i \in 0..m /\ log[i] \in T
      BY <1>1
    <2>2. /\ a \in Seq(T) /\ Len(a) = i /\ \A k \in 1..i : a[k] = log[k]
          /\ b \in Seq(T) /\ Len(b) = i - 1 /\ \A k \in 1..i - 1 : b[k] = log[k]
      BY <1>2, <2>1
    <2> HIDE DEF a, b
    <2>3. /\ Append(b, log[i]) \in Seq(T) /\ Len(Append(b, log[i])) = i
          /\ \A k \in 1..i - 1 : Append(b, log[i])[k] = log[k]
          /\ Append(b, log[i])[i] = log[i]
      BY <1>1, <2>1, <2>2
    <2>4. \A k \in 1..i : k \in 1..i - 1 \/ k = i
      BY <1>1
    <2>5. \A k \in 1..i : a[k] = Append(b, log[i])[k]
      BY <2>2, <2>3, <2>4
    <2>6. a = Append(b, log[i])
      BY <2>2, <2>3, <2>5, SeqEqual
    <2> QED BY <2>6 DEF a, b
  <1>6. Is(up)
    <2>1. ASSUME NEW i \in 0..n
          PROVE  up[i] = IF i = 0 THEN <<>> ELSE IF lines[i] = Junk THEN up[i - 1]
                         ELSE Append(up[i - 1], lines[i])
      <3>1. CASE i = 0
        <4>1. up[0] = SubSeq(log, 1, 0)
          BY <1>1, <3>1
        <4> QED BY <1>3, <3>1, <4>1
      <3>2. CASE i \in 1..m
        <4>1. up[i] = SubSeq(log, 1, i) /\ up[i - 1] = SubSeq(log, 1, i - 1) /\ i # 0
          BY <1>1, <3>2
        <4> HIDE DEF up
        <4> QED BY <1>1, <1>5, <3>2, <4>1 DEF m
      <3>3. CASE i = m + 1
        <4>1. up[i] = SubSeq(log, 1, m) /\ up[i - 1] = SubSeq(log, 1, m) /\ i # 0 /\ i = n
          BY <1>1, <3>3
        <4> HIDE DEF up
        <4> QED BY <1>1, <3>3, <4>1
      <3>4. i = 0 \/ i \in 1..m \/ i = m + 1
        BY <1>1
      <3> HIDE DEF up
      <3> QED BY <3>1, <3>2, <3>3, <3>4
    <2>2. up = [i \in 0..n |-> up[i]]
      OBVIOUS
    <2> HIDE DEF up
    <2> QED BY <2>1, <2>2
  <1> DEFINE found == CHOOSE g : Is(g)
  <1>7. Is(found)
    BY <1>6
  <1>8. EntriesOf(lines) = found[n]
    BY DEF EntriesOf, n
  <1> HIDE DEF found, up
  <1>9. /\ \A i \in 0..n : up[i] = IF i = 0 THEN <<>> ELSE IF lines[i] = Junk THEN up[i - 1]
                                   ELSE Append(up[i - 1], lines[i])
        /\ \A i \in 0..n : found[i] = IF i = 0 THEN <<>> ELSE IF lines[i] = Junk THEN found[i - 1]
                                      ELSE Append(found[i - 1], lines[i])
    BY <1>6, <1>7
  <1> HIDE DEF Is
  <1> DEFINE Apart == {i \in 0..n : found[i] # up[i]}
  <1>10. Apart = {}
    <2>1. SUFFICES ASSUME Apart # {} PROVE FALSE
      OBVIOUS
    <2>2. PICK k \in Apart : \A i \in Apart : k <= i
      <3>1. Apart \subseteq Nat
        BY <1>1
      <3> HIDE DEF Apart
      <3> QED BY <2>1, <3>1, LeastNumber
    <2>3. k \in 0..n /\ found[k] # up[k]
      OBVIOUS
    <2>4. k # 0 => k - 1 \in 0..n /\ k - 1 \notin Apart
      BY <1>1, <2>2, <2>3
    <2>5. k # 0 => found[k - 1] = up[k - 1]
      BY <2>4
    <2> QED BY <1>9, <2>3, <2>5
  <1>11. found[n] = up[n]
    <2>1. n \in 0..n
      BY <1>1
    <2> QED BY <1>10, <2>1
  <1>12. up[n] = log
    <2>1. up[n] = SubSeq(log, 1, m)
      BY <1>1 DEF up
    <2> QED BY <1>4, <2>1
  <1> QED BY <1>8, <1>11, <1>12

\* The lines of the log: all that was written, and perhaps a line that was cut off.
LEMMA LogLinesAre ==
  ASSUME JournalIInv, Honest
  PROVE  /\ LogLines = Now \/ LogLines = Append(Now, Junk)
         /\ \A i \in 1..Len(Now) : Now[i] # Junk
         /\ LinesOf(active) = Body(active) => LogLines = Now
  <1> DEFINE L == LinesFrom(history)
             lines == LinesOf(active)
             body == Body(active)
             ahead == Ahead(archives, tmps, active)
  <1>1. /\ FilesOf(history, archives, tmps, active) /\ Chained(archives, tmps, active)
        /\ lines \in Seq(L) /\ body \in Seq(L) /\ ahead \in Seq(L) /\ Now \in Seq(L)
    BY FilesNow, WholeTyped DEF Honest, Now
  <1>2. Archived = ArchivedIn(archives)
    BY ArchivesInOrder
  <1>3. Pending = PendingIn(tmps, HeadIn(active))
    BY DEF Pending, PendingIn, HeadIn, Linking, LinkingIn
  <1>4. LogLines = ahead \o lines
    BY <1>2, <1>3 DEF LogLines, Ahead
  <1>5. Now = ahead \o body
    BY DEF Now, Whole
  <1>6. \A i \in 1..Len(Now) : Now[i] # Junk
    BY <1>1 DEF Chained, Sound, Now
  <1>7. lines = body \/ lines = Append(body, Junk)
    <2>1. CutAtEnd(active)
      BY <1>1 DEF Chained
    <2>2. /\ Len(body) \in Nat /\ \A i \in 1..Len(body) : body[i] = lines[i]
          /\ IF lines # <<>> /\ lines[Len(lines)] = Junk
             THEN Len(body) = Len(lines) - 1 ELSE body = lines
      BY <1>1, <2>1, BodyIs DEF CutAtEnd
    <2>3. CASE lines # <<>> /\ lines[Len(lines)] = Junk
      <3> DEFINE m == Len(body)
      <3>1. Junk \in L
        BY DEF LinesFrom
      <3>2. Len(lines) \in Nat
        BY <1>1, LenProperties
      <3> HIDE DEF body, lines, L
      <3>3. /\ Append(body, Junk) \in Seq(L) /\ Len(Append(body, Junk)) = m + 1
            /\ \A i \in 1..m : Append(body, Junk)[i] = body[i] /\ Append(body, Junk)[m + 1] = Junk
        BY <1>1, <2>2, <3>1
      <3>4. Len(lines) = m + 1 /\ \A i \in 1..m + 1 : i \in 1..m \/ i = m + 1
        BY <2>2, <2>3, <3>2
      <3>5. Append(body, Junk)[m + 1] = Junk
        BY <1>1, <3>1
      <3>6. \A i \in 1..m + 1 : lines[i] = Append(body, Junk)[i]
        BY <2>2, <2>3, <3>3, <3>4, <3>5
      <3> QED BY <1>1, <3>3, <3>4, <3>6, SeqEqual
    <2>4. CASE ~(lines # <<>> /\ lines[Len(lines)] = Junk)
      BY <2>2, <2>4
    <2> QED BY <2>3, <2>4
  <1>8. lines = Append(body, Junk) => LogLines = Append(Now, Junk)
    <2>1. Junk \in L
      BY DEF LinesFrom
    <2> HIDE DEF lines, body, ahead, L
    <2>2. ahead \o Append(body, Junk) = Append(ahead \o body, Junk)
      BY <1>1, <2>1
    <2> QED BY <1>4, <1>5, <2>2
  <1> HIDE DEF lines, body, ahead
  <1>9. lines = body => LogLines = Now
    BY <1>4, <1>5
  <1> QED BY <1>6, <1>7, <1>8, <1>9 DEF lines, body

\* The log of the properties is the one that the files hold.
LEMMA LogIs ==
  ASSUME JournalIInv, Honest
  PROVE  Log = Now
  <1>1. /\ LogLines = Now \/ LogLines = Append(Now, Junk)
        /\ \A i \in 1..Len(Now) : Now[i] # Junk
        /\ Now \in Seq(LinesFrom(history))
    BY LogLinesAre, NowTyped
  <1>2. EntriesOf(LogLines) = Now
    BY <1>1, EntriesAre
  <1> QED BY <1>2 DEF Log

\* What was written and synced is still there.
LEMMA RecordedKept ==
  ASSUME JournalIInv, HonestInv PROVE RecordedIsKept
  <1> SUFFICES ASSUME Undisturbed PROVE recorded \subseteq Hashed(LogLines)
    BY DEF RecordedIsKept
  <1>1. Honest
    BY DEF HonestInv
  <1>2. /\ LogLines = Now \/ LogLines = Append(Now, Junk)
        /\ \A i \in 1..Len(Now) : Now[i] # Junk
        /\ Now \in Seq(LinesFrom(history))
    BY <1>1, LogLinesAre, NowTyped
  <1>3. /\ DOMAIN Now = 1..Len(Now) /\ DOMAIN Append(Now, Junk) = 1..Len(Now) + 1 /\ Len(Now) \in Nat
        /\ \A i \in 1..Len(Now) : Append(Now, Junk)[i] = Now[i]
    BY <1>2
  <1>4. \A i \in 1..Len(Now) : i \in EntryPlaces(LogLines) /\ LogLines[i] = Now[i]
    BY <1>2, <1>3 DEF EntryPlaces
  <1>5. HashesOf(Now) \subseteq Hashed(LogLines)
    BY <1>3, <1>4 DEF HashesOf, Hashed
  <1> QED BY <1>1, <1>5 DEF Honest

-----------------------------------------------------------------------------
(* The log only grows at its end.                                          *)

\* What one entry more means.
LEMMA OneEntryMore ==
  ASSUME NEW T, NEW log \in Seq(T), Sound(log), NEW entry, Sound(Append(log, entry))
  PROVE  AsAppendOnlyLog!Extends(log, Append(log, entry))
  <1> DEFINE more == Append(log, entry)
             n == Len(log)
             M == T \cup {entry}
  <1>1. /\ n \in Nat /\ DOMAIN log = 1..n /\ (log = <<>> <=> n = 0)
        /\ Len(more) = n + 1 /\ DOMAIN more = 1..n + 1 /\ more[n + 1] = entry
        /\ \A i \in 1..n : more[i] = log[i]
    OBVIOUS
  <1>2. log \in Seq(M) /\ more \in Seq(M)
    <2>1. log \in Seq(M) /\ entry \in M
      BY SeqGrows
    <2> HIDE DEF M
    <2> QED BY <2>1
  <1> HIDE DEF more, n, M
  <1>3. SubSeq(more, 1, n) = log
    <2>1. \A i \in 1..n : i \in 1..n + 1
      BY <1>1
    <2>2. \A i \in 1..n : more[i] \in M
      BY <1>1, <1>2, <2>1
    <2>3. /\ SubSeq(more, 1, n) \in Seq(M) /\ Len(SubSeq(more, 1, n)) = n
          /\ \A i \in 1..n : SubSeq(more, 1, n)[i] = more[i]
      BY <1>1, <2>2, SubSeqProperties
    <2> QED BY <1>1, <1>2, <2>3, SeqEqual DEF n
  <1>4. n + 1 \in 1..n + 1 /\ (n + 1 = 1 <=> n = 0) /\ (n + 1) - 1 = n /\ (n # 0 => n \in 1..n)
    BY <1>1
  <1>5. entry.seq = n + 1 /\ entry.prev = IF n = 0 THEN GENESIS_HASH ELSE log[n].hash
    <2>1. Sound(more)
      BY DEF more
    <2>2. /\ more[n + 1].seq = n + 1
          /\ more[n + 1].prev = IF n + 1 = 1 THEN GENESIS_HASH ELSE more[(n + 1) - 1].hash
      BY <1>1, <1>4, <2>1 DEF Sound
    <2>3. n # 0 => more[n] = log[n]
      BY <1>1, <1>4
    <2> QED BY <1>1, <1>4, <2>2, <2>3
  <1>6. n # 0 => log[n].seq = n
    BY <1>1, <1>4 DEF Sound
  <1>7. AsAppendOnlyLog!Follows(entry, log)
    <2>1. CASE n = 0
      BY <1>1, <1>5, <2>1 DEF AsAppendOnlyLog!Follows
    <2>2. CASE n # 0
      BY <1>1, <1>5, <1>6, <2>2 DEF AsAppendOnlyLog!Follows, n
    <2> QED BY <2>1, <2>2
  <1> QED BY <1>1, <1>3, <1>7 DEF AsAppendOnlyLog!Extends, more, n

LogIsNow == Undisturbed => Log = Now

\* A step adds one entry to the log, or none.
LEMMA LogGrows ==
  ASSUME JournalIInv, Counted, HonestInv, LogIsNow, LogIsNow', [JournalNext]_journalVars
  PROVE  [AsAppendOnlyLog!Next]_<<Log, ~Undisturbed>>
  <1>1. CASE ~Undisturbed'
    BY <1>1 DEF AsAppendOnlyLog!Next, AsAppendOnlyLog!Excused
  <1>2. CASE Undisturbed'
    <2>1. /\ Undisturbed /\ Honest /\ Honest' /\ Grows(Now, Whole(archives', tmps', active'))
      BY <1>2, TroublesStay, GoesOnUndisturbed
    <2>2. Log = Now /\ Log' = Now' /\ Now' = Whole(archives', tmps', active')
      BY <1>2, <2>1 DEF LogIsNow, Now
    <2>3. CASE Log' = Log
      BY <1>2, <2>1, <2>3
    <2>4. ASSUME NEW entry, Log' = Append(Log, entry)
          PROVE  AsAppendOnlyLog!Next
      <3> DEFINE log == Log
      <3>1. log \in Seq(LinesFrom(history))
        BY <2>2, NowTyped
      <3>2. Sound(log)
        BY <2>1, <2>2 DEF Honest, Chained, Now
      <3>3. Sound(Log')
        BY <2>1, <2>2 DEF Honest, Chained
      <3>4. Sound(Append(log, entry))
        BY <2>4, <3>3
      <3> HIDE DEF log
      <3>5. AsAppendOnlyLog!Extends(log, Append(log, entry))
        BY <3>1, <3>2, <3>4, OneEntryMore
      <3>6. AsAppendOnlyLog!Extends(Log, Log')
        BY <2>4, <3>5 DEF log
      <3> QED BY <1>2, <2>1, <3>6 DEF AsAppendOnlyLog!Next, AsAppendOnlyLog!Extend
    <2> QED BY <2>1, <2>2, <2>3, <2>4 DEF Grows
  <1> QED BY <1>1, <1>2

(* Append-only and hash-chained (journal.ts:2, README.md:154): for any windows, any  *)
(* length at which the file rotates and any bounds, while nobody edits the files and  *)
(* the windows take turns, rotations, crashes and failed calls leave the entries that *)
(* the files hold as they are, and a step adds one at their end, chained to the last. *)
THEOREM TheLogOnlyGrows == JournalSpec => AppendOnly
  <1>1. JournalInit => AsAppendOnlyLog!Init
    <2> SUFFICES ASSUME JournalInit PROVE AsAppendOnlyLog!Init
      OBVIOUS
    <2>1. JournalIInv /\ HonestInv /\ Now = <<>>
      BY JournalStarts, HonestStarts
    <2>2. Undisturbed
      BY DEF JournalInit, Undisturbed
    <2>3. Log = <<>>
      BY <2>1, <2>2, LogIs DEF HonestInv
    <2> QED BY <2>2, <2>3 DEF AsAppendOnlyLog!Init
  <1>2. JournalIInv /\ HonestInv => LogIsNow
    BY LogIs DEF HonestInv, LogIsNow
  <1>3. JournalIInv /\ Counted /\ HonestInv /\ LogIsNow /\ LogIsNow' /\ [JournalNext]_journalVars
        => [AsAppendOnlyLog!Next]_<<Log, ~Undisturbed>>
    BY LogGrows
  <1> QED BY <1>1, <1>2, <1>3, HonestHolds, PTL DEF JournalSpec, AppendOnly, AsAppendOnlyLog!Spec

-----------------------------------------------------------------------------
(* Verification finds nothing.                                             *)

\* A function on the first numbers is a sequence.
LEMMA ListIs ==
  ASSUME NEW S, NEW n \in Nat, NEW g \in [1..n -> S]
  PROVE  g \in Seq(S) /\ Len(g) = n
  OBVIOUS

\* What ends with something ends as that does.
LEMMA SameEnd ==
  ASSUME NEW T, NEW a \in Seq(T), NEW b \in Seq(T), b # <<>>
  PROVE  a \o b # <<>> /\ (a \o b)[Len(a \o b)] = b[Len(b)]
  <1>1. Len(b) \in 1..Len(b) /\ Len(a) \in Nat /\ Len(a) + Len(b) # 0
    OBVIOUS
  <1>2. Len(a \o b) = Len(a) + Len(b) /\ \A i \in 1..Len(b) : (a \o b)[Len(a) + i] = b[i]
    BY TwoParts
  <1> QED BY <1>1, <1>2

\* The archives up to the one at a place.
UpTo(f, k) == FlattenSeq([i \in 1..k |-> f[OrderIn(f)[i]]])

\* After the archives up to one of them the chain ends as that archive does.
LEMMA ArchiveEnds ==
  ASSUME NEW past, Remembers(past), NEW f, f \in [DOMAIN f -> Seq(LinesFrom(past))],
         IsFiniteSet(DOMAIN f), DOMAIN f \subseteq Nat,
         NEW k \in 1..Cardinality(DOMAIN f), NEW lines, lines = f[OrderIn(f)[k]],
         lines # <<>>, \A i \in DOMAIN lines : lines[i] # Junk
  PROVE  UpTo(f, k) # <<>> /\ UpTo(f, k)[Len(UpTo(f, k))].hash = LastHash(lines)
  <1> DEFINE L == LinesFrom(past)
             m == Cardinality(DOMAIN f)
             order == OrderIn(f)
             S == Seq(L)
             before == UpTo(f, k)
             front == [i \in 1..k - 1 |-> f[order[i]]]
             upto == [i \in 1..k |-> f[order[i]]]
  <1>1. m \in Nat /\ \A i \in 1..m : order[i] \in DOMAIN f
    BY OrderIs
  <1>2. \A i \in 1..m : f[order[i]] \in S
    BY <1>1
  <1>3. lines \in S
    BY <1>2
  <1> HIDE DEF order, S, m
  <1>4. k \in Nat /\ k - 1 \in Nat /\ (k - 1) + 1 = k /\ k \in 1..k
        /\ \A i \in 1..k : i \in 1..m /\ (i \in 1..k - 1 \/ i = k)
    BY <1>1 DEF m
  <1>5. front \in Seq(S) /\ upto \in Seq(S) /\ Len(front) = k - 1 /\ Len(upto) = k
    <2>1. \A i \in 1..k - 1 : i \in 1..k
      BY <1>4
    <2>2. front \in [1..k - 1 -> S] /\ upto \in [1..k -> S]
      BY <1>2, <1>4, <2>1
    <2> HIDE DEF front, upto
    <2> QED BY <1>4, <2>2, ListIs
  <1>6. \A i \in 1..k : upto[i] = IF i = k THEN lines ELSE front[i]
    BY <1>4 DEF order
  <1>7. \A i \in 1..k - 1 : front[i] = upto[i]
    BY <1>4
  <1>8. before = FlattenSeq(upto)
    BY DEF order, UpTo
  <1> HIDE DEF front, upto, before
  <1>9. upto = Append(front, lines)
    <2>1. Append(front, lines) \in Seq(S) /\ Len(Append(front, lines)) = k
      BY <1>3, <1>4, <1>5, AppendProperties
    <2>2. \A i \in 1..k : upto[i] = Append(front, lines)[i]
      BY <1>3, <1>4, <1>5, <1>6
    <2> QED BY <1>5, <2>1, <2>2, SeqEqual
  <1>10. before = FlattenSeq(front) \o lines
    BY <1>3, <1>5, <1>8, <1>9, FlattenMore DEF S
  <1>11. FlattenSeq(front) \in S
    BY <1>5, FlattenTyped DEF S
  <1>12. LastHash(lines) = lines[Len(lines)].hash
    BY <1>3, AllEntries DEF S
  <1>13. before # <<>> /\ before[Len(before)] = lines[Len(lines)]
    BY <1>3, <1>10, <1>11, SameEnd DEF S
  <1> QED BY <1>12, <1>13 DEF before

\* What is known when an append has gone through.
LEMMA AtTheEnd ==
  ASSUME JournalIInv, Honest, Settled
  PROVE  Chain = Now
  <1>1. PICK w \in Writers : /\ active # NoFile /\ st[w] # NoState /\ st[w].seen = active
                             /\ \A v \in Writers : pc[v] = "idle"
    BY DEF Settled, UpToDate
  <1>2. AtRest(st[w], tmps, Len(Now)) /\ Chained(archives, tmps, active)
    BY <1>1 DEF Honest
  <1>3. Current(st[w], active)
    BY <1>1, <1>2 DEF AtRest, Current
  <1>4. st[w].seq = Len(Now) /\ LinesOf(active) = Body(active)
    BY <1>2, <1>3, FilesNow, CurrentIs DEF Now
  <1>5. st[w].seq \in Nat
    BY <1>1, WindowTyped
  <1>6. DOMAIN tmps = {}
    <2>1. DOMAIN tmps # {} => st[w].seq < Len(Now)
      BY <1>1, <1>2 DEF AtRest
    <2> QED BY <1>4, <1>5, <2>1, Orders
  <1>7. PendingIn(tmps, HeadIn(active)) = <<>>
    BY <1>6 DEF PendingIn, LinkingIn
  <1>8. ArchivedIn(archives) \in Seq(LinesFrom(history))
    BY FilesNow, WholeTyped
  <1>9. Ahead(archives, tmps, active) = ArchivedIn(archives)
    BY <1>7, <1>8, TwoParts DEF Ahead
  <1> QED BY <1>4, <1>9, ArchivesInOrder DEF Chain, Now, Whole

\* Verification finds nothing to report.
LEMMA NothingToReport ==
  ASSUME JournalIInv, HonestInv PROVE NoFalseAlarm
  <1> SUFFICES ASSUME Undisturbed, Settled PROVE VerifyChain = "verified"
    BY DEF NoFalseAlarm
  <1> DEFINE chain == Chain
             m == Cardinality(DOMAIN archives)
             order == OrderIn(archives)
             L == LinesFrom(history)
  <1>1. Honest /\ chain = Now
    BY AtTheEnd DEF HonestInv
  <1>2. /\ chain \in Seq(L) /\ Sound(chain) /\ Filed(archives, chain)
    BY <1>1, NowTyped DEF Honest, Chained, Now
  <1>3. /\ Remembers(history) /\ archives \in [DOMAIN archives -> Seq(L)]
        /\ IsFiniteSet(DOMAIN archives) /\ DOMAIN archives \subseteq Nat
    BY DEF JournalIInv, Holds
  <1> HIDE DEF chain
  <1>4. FirstBroken(chain) = 0
    <2>1. DOMAIN chain = 1..Len(chain) /\ Len(chain) \in Nat
      BY <1>2
    <2>2. ASSUME NEW i \in 1..Len(chain) PROVE Links(chain, i)
      <3>1. /\ chain[i] # Junk /\ chain[i].intact = TRUE /\ chain[i].seq = i
            /\ chain[i].prev = IF i = 1 THEN GENESIS_HASH ELSE chain[i - 1].hash
        BY <1>2, <2>1 DEF Sound
      <3>2. i # 1 => chain[i - 1].seq = i - 1 /\ (i - 1) + 1 = i
        <4>1. i # 1 => i - 1 \in 1..Len(chain) /\ (i - 1) + 1 = i
          BY <2>1
        <4> QED BY <1>2, <2>1, <4>1 DEF Sound
      <3> QED BY <3>1, <3>2 DEF Links
    <2> QED BY <2>1, <2>2 DEF FirstBroken
  <1>5. NotesHold
    <2>1. SUFFICES ASSUME NEW i \in DOMAIN chain, chain[i].kind = "rotation"
          PROVE  \E a \in DOMAIN ArchiveOrder : /\ ArchiveOrder[a] = chain[i].path
                                                /\ TailOf(a) = chain[i].after
      BY DEF NotesHold, chain
    <2> DEFINE path == chain[i].path
    <2>2. path \in DOMAIN archives /\ chain[i].after = LastHash(archives[path])
      BY <1>2, <2>1 DEF Filed
    <2>3. archives[path] # <<>> /\ \A k \in DOMAIN archives[path] : archives[path][k] # Junk
      BY <1>2, <2>2 DEF Filed
    <2> HIDE DEF path
    <2>4. /\ m \in Nat /\ order \in Seq(DOMAIN archives) /\ Len(order) = m
          /\ \A k \in 1..m : order[k] \in DOMAIN archives /\ RankIn(archives, order[k]) = k - 1
          /\ RankIn(archives, path) \in 0..m - 1
          /\ \A a, b \in DOMAIN archives : RankIn(archives, a) = RankIn(archives, b) => a = b
      BY <1>3, <2>2, OrderIs
    <2> DEFINE a == RankIn(archives, path) + 1
    <2>5. a \in 1..m /\ a - 1 = RankIn(archives, path)
      BY <2>4
    <2> HIDE DEF a
    <2>6. order[a] = path
      <3> HIDE DEF order, m
      <3> QED BY <2>2, <2>4, <2>5
    <2>7. ArchiveOrder = order /\ DOMAIN order = 1..m
      BY <2>4, ArchivesInOrder
    <2>8. UpTo(archives, a) # <<>> /\ UpTo(archives, a)[Len(UpTo(archives, a))].hash = LastHash(archives[path])
      <3> DEFINE archive == archives[path]
      <3>1. a \in 1..Cardinality(DOMAIN archives) /\ archive = archives[OrderIn(archives)[a]]
        BY <2>5, <2>6
      <3>2. archive # <<>> /\ \A k \in DOMAIN archive : archive[k] # Junk
        BY <2>3
      <3> HIDE DEF archive
      <3>3. UpTo(archives, a) # <<>> /\ UpTo(archives, a)[Len(UpTo(archives, a))].hash = LastHash(archive)
        BY <1>3, <3>1, <3>2, ArchiveEnds
      <3> QED BY <3>3 DEF archive
    <2>9. TailOf(a) = IF UpTo(archives, a) = <<>> THEN GENESIS_HASH ELSE Last(UpTo(archives, a)).hash
      BY <2>7 DEF TailOf, UpTo
    <2>10. TailOf(a) = LastHash(archives[path])
      BY <2>8, <2>9 DEF Last
    <2> QED BY <2>2, <2>5, <2>6, <2>7, <2>10 DEF path
  <1> QED BY <1>4, <1>5 DEF VerifyChain, chain

-----------------------------------------------------------------------------
(* Types and bounds.                                                       *)

\* Before an append has come to its rotation, and while that writes its files.
Early == {"stat", "read", "trim", "repair", "finish line", "readdir", "recover", "write", "rotate"}
Filing == {"write archive", "write active", "swap", "commit"}
Waiting == {w \in Writers : pc[w] \in Early}

\* An archive has a time stamp of an append that is over with its rotation, and what is
\* recorded was written.
Bounded ==
  /\ IsFiniteSet(Waiting) /\ stamped + Cardinality(Waiting) <= spent.appends
  /\ spent.appends <= MaxAppends /\ Troubles <= MaxMishaps
  /\ recorded \subseteq 1..Len(history)
  /\ Active \notin DOMAIN archives
  /\ \A w \in Writers : pc[w] \in Filing => job[w].stamp # Active

\* How a window moves on in its append.
Moving(w) ==
  /\ \A v \in Writers \ {w} : pc'[v] = pc[v] /\ job'[v] = job[v]
  /\ pc'[w] \in Early => pc[w] \in Early
  /\ stamped' = stamped \/ (stamped' = stamped + 1 /\ pc[w] \in Early /\ pc'[w] \notin Early)
  /\ pc'[w] \in Filing => \/ pc[w] \in Filing /\ job'[w] = job[w]
                          \/ job'[w].stamp = stamped + 1

\* So a window moves on with every step but the first.
LEMMA WindowsMove ==
  ASSUME JournalIInv, NEW w \in Writers,
         \/ EnsureLoaded(w) \/ Recover(w) \/ WriteChange(w) \/ Rotation(w)
         \/ Stop(w) \/ CallFails(w) \/ FileGone(w)
  PROVE  Moving(w)
  <1>1. \A step : Goto(w, step) => pc'[w] = step /\ \A v \in Writers \ {w} : pc'[v] = pc[v]
    BY Steps1
  <1>2. ASSUME Return(w), stamped' = stamped PROVE Moving(w)
    <2>1. Goto(w, "idle") /\ \A v \in Writers \ {w} : job'[v] = job[v]
      BY <1>2 DEF Return, JournalIInv, Holds
    <2>2. pc'[w] = "idle" /\ \A v \in Writers \ {w} : pc'[v] = pc[v]
      BY <1>1, <2>1
    <2>3. pc'[w] \notin Early /\ pc'[w] \notin Filing
      BY <2>2 DEF Early, Filing
    <2> QED BY <1>2, <2>1, <2>2, <2>3 DEF Moving
  <1>3. job \in [Writers -> JobsOf(LinesFrom(history))] /\ job[w] \in JobsOf(LinesFrom(history))
    BY DEF JournalIInv, Holds
  <1> USE DEF Early, Filing
  <1>4. CASE EnsureLoaded(w)
    <2>1. /\ \A v \in Writers \ {w} : job'[v] = job[v]
          /\ pc[w] \in Early /\ stamped' = stamped
          /\ \E step \in Early : Goto(w, step)
      BY <1>3, <1>4 DEF EnsureLoaded, StatMissing, StatKnown, StatAndRead, TrimTail, Repair,
                        FinishLine, WriteEntry, files, ghosts
    <2> QED BY <1>1, <2>1 DEF Moving
  <1>5. CASE Recover(w)
    <2>1. /\ \A v \in Writers \ {w} : job'[v] = job[v]
          /\ pc[w] \in Early /\ stamped' = stamped
          /\ \E step \in Early : Goto(w, step)
      BY <1>3, <1>5 DEF Recover, Readdir, CompleteRotation, Discard, RecoveryFails, Recovered,
                        files, ghosts
    <2> QED BY <1>1, <2>1 DEF Moving
  <1>6. CASE WriteChange(w)
    <2>1. /\ pc[w] \in Early /\ stamped' = stamped
          /\ (Goto(w, "rotate") /\ job' = job) \/ Return(w)
      BY <1>6 DEF WriteChange, WriteEntry
    <2>2. CASE Goto(w, "rotate") /\ job' = job
      <3>1. pc'[w] = "rotate" /\ \A v \in Writers \ {w} : pc'[v] = pc[v]
        BY <1>1, <2>2
      <3>2. pc'[w] \notin Filing
        BY <3>1
      <3> QED BY <2>1, <2>2, <3>1, <3>2 DEF Moving
    <2> QED BY <1>2, <2>1, <2>2
  <1>7. CASE Rotation(w)
    <2>1. CASE Rotate(w)
      <3>1. /\ pc[w] \in Early
            /\ \/ Return(w) /\ stamped' = stamped
               \/ /\ Goto(w, "write archive") /\ stamped' = stamped + 1
                  /\ job' = [job EXCEPT ![w].older = SubSeq(active.lines, 1, Len(active.lines) \div 2),
                                        ![w].newer = SubSeq(active.lines, Len(active.lines) \div 2 + 1,
                                                            Len(active.lines)),
                                        ![w].stamp = stamped + 1]
        BY <2>1 DEF Rotate
      <3>2. CASE Return(w) /\ stamped' = stamped
        BY <1>2, <3>2
      <3>3. ASSUME NEW older, NEW newer, Goto(w, "write archive"), stamped' = stamped + 1,
                   job' = [job EXCEPT ![w].older = older, ![w].newer = newer, ![w].stamp = stamped + 1]
            PROVE  Moving(w)
        <4>1. \A v \in Writers \ {w} : job'[v] = job[v]
          BY <1>3, <3>3
        <4>2. job'[w] = [job[w] EXCEPT !.older = older, !.newer = newer, !.stamp = stamped + 1]
          BY <1>3, <3>3
        <4>3. job'[w].stamp = stamped + 1
          BY <1>3, <4>2 DEF JobsOf
        <4>4. pc'[w] = "write archive" /\ \A v \in Writers \ {w} : pc'[v] = pc[v]
          BY <1>1, <3>3
        <4>5. pc'[w] \notin Early
          BY <4>4
        <4> QED BY <3>1, <3>3, <4>1, <4>3, <4>4, <4>5 DEF Moving
      <3> QED BY <3>1, <3>2, <3>3
    <2>2. CASE WriteArchive(w) \/ WriteActive(w) \/ Swap(w) \/ Commit(w)
      <3>1. /\ pc[w] \in Filing /\ stamped' = stamped /\ job' = job
            /\ \E step \in Filing \cup {"note"} : Goto(w, step)
        BY <2>2 DEF WriteArchive, WriteActive, WriteTmp, Swap, Commit, ghosts
      <3> QED BY <1>1, <3>1 DEF Moving
    <2>3. CASE NoteRotation(w)
      BY <1>2, <2>3 DEF NoteRotation, WriteEntry
    <2> QED BY <1>7, <2>1, <2>2, <2>3 DEF Rotation
  <1>8. CASE Stop(w) \/ CallFails(w) \/ FileGone(w)
    <2>1. Return(w) /\ stamped' = stamped
      BY <1>8 DEF Stop, CallFails, FileGone, Forget
    <2> QED BY <1>2, <2>1
  <1> QED BY <1>4, <1>5, <1>6, <1>7, <1>8

\* What a step does to the names of the archives and to what is recorded.
Keeping ==
  /\ Active \notin DOMAIN archives'
  /\ \/ recorded' = recorded /\ (history' = history \/ \E entry : history' = Remembered(entry))
     \/ \E entry : /\ entry.hash = Len(history) + 1
                   /\ recorded' = recorded \cup {entry.hash} /\ history' = Remembered(entry)

\* So do all steps.
LEMMA FilesKept ==
  ASSUME JournalIInv, Bounded, [JournalNext]_journalVars
  PROVE  Keeping
  <1>1. Active \notin DOMAIN archives
    BY DEF Bounded
  <1>2. \A n, lines : n # Active => Active \notin DOMAIN With(archives, n, lines)
    BY <1>1 DEF With
  <1>3. CASE UNCHANGED journalVars
    BY <1>1, <1>3 DEF journalVars, Keeping
  <1>4. CASE HandEdit
    <2>1. /\ recorded' = recorded /\ history' = history
          /\ \/ archives' = archives
             \/ \E n, lines : archives' = [archives EXCEPT ![n] = lines]
             \/ \E n : archives' = Removed(archives, n)
      BY <1>4 DEF HandEdit, EditJournal, EditArchive, SetAside, DeleteJournal, LoseArchive, Edited, ghosts
    <2>2. DOMAIN archives' \subseteq DOMAIN archives
      BY <2>1 DEF Removed
    <2> QED BY <1>1, <2>1, <2>2 DEF Keeping
  <1>5. ASSUME NEW w \in Writers,
               \/ Start(w) \/ EnsureLoaded(w) \/ Recover(w) \/ WriteChange(w) \/ Rotation(w)
               \/ Stop(w) \/ CallFails(w) \/ FileGone(w)
        PROVE  Keeping
    <2>1. ASSUME WriteEntry(w), pc[w] \in {"write", "repair", "note"} PROVE Keeping
      <3>1. EntryToWrite(w).hash = Len(history) + 1
        BY <2>1, EntryIs
      <3> DEFINE entry == EntryToWrite(w)
      <3>2. /\ archives' = archives /\ recorded' = recorded \cup {entry.hash}
            /\ history' = Remembered(entry)
        BY <2>1 DEF WriteEntry
      <3> HIDE DEF entry
      <3> QED BY <1>1, <3>1, <3>2 DEF Keeping, entry
    <2>2. CASE Start(w)
      BY <1>1, <2>2 DEF Start, files, ghosts, Keeping
    <2>3. CASE EnsureLoaded(w)
      <3>1. CASE Repair(w)
        BY <2>1, <3>1 DEF Repair
      <3>2. CASE StatMissing(w) \/ StatKnown(w) \/ StatAndRead(w) \/ TrimTail(w) \/ FinishLine(w)
        <4>1. archives' = archives /\ recorded' = recorded /\ history' = history
          BY <3>2 DEF StatMissing, StatKnown, StatAndRead, TrimTail, FinishLine, files, ghosts
        <4> QED BY <1>1, <4>1 DEF Keeping
      <3> QED BY <2>3, <3>1, <3>2 DEF EnsureLoaded
    <2>4. CASE Recover(w)
      <3>1. /\ recorded' = recorded /\ history' = history
            /\ archives' = archives \/ \E n, lines : n # Active /\ archives' = With(archives, n, lines)
        BY <2>4 DEF Recover, Readdir, CompleteRotation, Discard, RecoveryFails, Recovered, Linking,
                    files, ghosts
      <3> QED BY <1>1, <1>2, <3>1 DEF Keeping
    <2>5. CASE WriteChange(w)
      BY <2>1, <2>5 DEF WriteChange
    <2>6. CASE Rotation(w)
      <3>1. CASE NoteRotation(w)
        BY <2>1, <3>1 DEF NoteRotation
      <3>2. CASE Commit(w)
        <4>1. job[w].stamp # Active
          BY <3>2 DEF Commit, Bounded, Filing
        <4> QED BY <1>2, <3>2, <4>1 DEF Commit, ghosts, Keeping
      <3>3. CASE Rotate(w) \/ WriteArchive(w) \/ WriteActive(w) \/ Swap(w)
        <4>1. archives' = archives /\ recorded' = recorded /\ history' = history
          BY <3>3 DEF Rotate, WriteArchive, WriteActive, WriteTmp, Swap, files, ghosts
        <4> QED BY <1>1, <4>1 DEF Keeping
      <3> QED BY <2>6, <3>1, <3>2, <3>3 DEF Rotation
    <2>7. CASE Stop(w) \/ CallFails(w)
      <3>1. BrokenOff(w) /\ recorded' = recorded
        BY <2>7 DEF Stop, CallFails, Forget
      <3>2. archives' = archives /\ (history' = history \/ \E entry : history' = Remembered(entry))
        BY <3>1 DEF BrokenOff, TornEntry, TornTmp, files
      <3> QED BY <1>1, <3>1, <3>2 DEF Keeping
    <2>8. CASE FileGone(w)
      BY <1>1, <2>8 DEF FileGone, Forget, files, Keeping
    <2> QED BY <1>5, <2>2, <2>3, <2>4, <2>5, <2>6, <2>7, <2>8
  <1> QED BY <1>3, <1>4, <1>5 DEF JournalNext

\* The archives are no more than the appends that are over.
LEMMA StampsLeft ==
  ASSUME JournalIInv, Counted, Bounded, [JournalNext]_journalVars
  PROVE  IsFiniteSet(Waiting)' /\ stamped' + Cardinality(Waiting') <= spent'.appends
  <1>1. /\ IsFiniteSet(Waiting) /\ Cardinality(Waiting) \in Nat
        /\ stamped \in Nat /\ spent.appends \in Nat
        /\ stamped + Cardinality(Waiting) <= spent.appends
    BY FS_CardinalityType DEF Bounded, JournalIInv, Holds, Counted, Counts
  <1>2. spent'.appends = spent.appends \/ spent'.appends = spent.appends + 1
    <2>1. Counting
      BY StepCounts
    <2> QED BY <2>1 DEF Counting, Counted, Counts
  <1>3. pc \in [Writers -> Calls]
    BY DEF JournalIInv, Holds
  <1>4. CASE HandEdit \/ UNCHANGED journalVars
    <2>1. pc' = pc /\ stamped' = stamped
      BY <1>4 DEF journalVars, HandEdit, EditJournal, EditArchive, SetAside, DeleteJournal,
                  LoseArchive, Edited, ghosts
    <2>2. Waiting' = Waiting
      BY <2>1 DEF Waiting
    <2> HIDE DEF Waiting
    <2> QED BY <1>1, <1>2, <2>1, <2>2
  <1>5. ASSUME NEW w \in Writers, Start(w)
        PROVE  IsFiniteSet(Waiting)' /\ stamped' + Cardinality(Waiting') <= spent'.appends
    <2>1. /\ pc[w] = "idle" /\ pc'[w] = "stat" /\ stamped' = stamped
          /\ \A v \in Writers \ {w} : pc'[v] = pc[v]
      BY <1>5, Steps1 DEF Start, ghosts
    <2>2. spent'.appends = spent.appends + 1
      <3>1. \/ spent' = [spent EXCEPT !.appends = @ + 1]
            \/ spent' = [spent EXCEPT !.appends = @ + 1, !.overlaps = @ + 1]
        BY <1>5 DEF Start
      <3> QED BY <3>1 DEF Counted, Counts
    <2>3. w \notin Waiting /\ Waiting' = Waiting \cup {w}
      BY <2>1 DEF Waiting, Early
    <2>4. IsFiniteSet(Waiting') /\ Cardinality(Waiting') = Cardinality(Waiting) + 1
      BY <1>1, <2>3, FS_AddElement
    <2> QED BY <1>1, <2>1, <2>2, <2>4
  <1>6. ASSUME NEW w \in Writers, Moving(w)
        PROVE  IsFiniteSet(Waiting)' /\ stamped' + Cardinality(Waiting') <= spent'.appends
    <2> DEFINE before == Waiting
               after == Waiting'
    <2>1. after \subseteq before
      BY <1>6 DEF Moving, Waiting
    <2>2. stamped' = stamped \/ (stamped' = stamped + 1 /\ w \in before /\ after \subseteq before \ {w})
      BY <1>6, <2>1 DEF Moving, Waiting
    <2> HIDE DEF before, after
    <2>3. /\ IsFiniteSet(before) /\ Cardinality(before) \in Nat
          /\ stamped + Cardinality(before) <= spent.appends
      BY <1>1 DEF before
    <2>4. IsFiniteSet(after) /\ Cardinality(after) <= Cardinality(before) /\ Cardinality(after) \in Nat
      BY <2>1, <2>3, FS_Subset, FS_CardinalityType
    <2>5. CASE stamped' = stamped
      <3>1. stamped' + Cardinality(after) <= spent'.appends
        BY <1>1, <1>2, <2>3, <2>4, <2>5
      <3> QED BY <2>4, <3>1 DEF after
    <2>6. CASE stamped' = stamped + 1 /\ w \in before /\ after \subseteq before \ {w}
      <3>1. IsFiniteSet(before \ {w}) /\ Cardinality(before \ {w}) = Cardinality(before) - 1
        BY <2>3, <2>6, FS_RemoveElement
      <3>2. Cardinality(after) <= Cardinality(before) - 1
        BY <2>6, <3>1, FS_Subset
      <3>3. stamped' + Cardinality(after) <= spent'.appends
        BY <1>1, <1>2, <2>3, <2>4, <2>6, <3>2
      <3> QED BY <2>4, <3>3 DEF after
    <2> QED BY <2>2, <2>5, <2>6
  <1> QED BY <1>4, <1>5, <1>6, WindowsMove DEF JournalNext

\* The bounds hold after every step.
LEMMA BoundsStay ==
  ASSUME JournalIInv, Counted, Bounded, [JournalNext]_journalVars
  PROVE  Bounded'
  <1>1. IsFiniteSet(Waiting)' /\ stamped' + Cardinality(Waiting') <= spent'.appends
    BY StampsLeft
  <1>2. spent'.appends <= MaxAppends /\ Troubles' <= MaxMishaps
    <2>1. Counting /\ spent.appends <= MaxAppends /\ Troubles <= MaxMishaps
      BY StepCounts DEF Bounded
    <2>2. MaxAppends \in Nat /\ MaxMishaps \in Nat
      BY JournalConstants
    <2>3. /\ spent.appends \in Nat /\ spent.stops \in Nat /\ spent.faults \in Nat
          /\ spent.edits \in Nat /\ spent.overlaps \in Nat
      BY DEF Counted, Counts
    <2>4. \/ spent' = spent
          \/ /\ spent'.appends = spent.appends + 1 /\ spent.appends < MaxAppends
             /\ \/ Troubles' = Troubles
                \/ Troubles' = Troubles + 1 /\ Troubles < MaxMishaps
          \/ spent'.appends = spent.appends /\ Troubles' = Troubles + 1 /\ Troubles < MaxMishaps
      <3>1. CASE /\ spent.appends < MaxAppends
                 /\ spent' = [spent EXCEPT !.appends = @ + 1]
        <4>1. /\ spent'.appends = spent.appends + 1 /\ spent'.stops = spent.stops
              /\ spent'.faults = spent.faults /\ spent'.edits = spent.edits
              /\ spent'.overlaps = spent.overlaps
          BY <3>1 DEF Counted, Counts
        <4>2. Troubles' = Troubles
          BY <2>3, <4>1 DEF Troubles
        <4> QED BY <3>1, <4>1, <4>2
      <3>2. CASE /\ spent.appends < MaxAppends /\ Troubles < MaxMishaps
                 /\ spent' = [spent EXCEPT !.appends = @ + 1, !.overlaps = @ + 1]
        <4>1. /\ spent'.appends = spent.appends + 1 /\ spent'.stops = spent.stops
              /\ spent'.faults = spent.faults /\ spent'.edits = spent.edits
              /\ spent'.overlaps = spent.overlaps + 1
          BY <3>2 DEF Counted, Counts
        <4>2. Troubles' = Troubles + 1
          <5>1. \A a, b, c, d \in Nat : a + b + c + (d + 1) = (a + b + c + d) + 1
            OBVIOUS
          <5>2. Troubles' = spent.stops + spent.faults + spent.edits + (spent.overlaps + 1)
            BY <4>1 DEF Troubles
          <5> QED BY <2>3, <5>1, <5>2 DEF Troubles
        <4> QED BY <3>2, <4>1, <4>2
      <3>3. CASE /\ Troubles < MaxMishaps
                 /\ spent' = [spent EXCEPT !.stops = @ + 1]
        <4>1. /\ spent'.appends = spent.appends /\ spent'.stops = spent.stops + 1
              /\ spent'.faults = spent.faults /\ spent'.edits = spent.edits
              /\ spent'.overlaps = spent.overlaps
          BY <3>3 DEF Counted, Counts
        <4>2. Troubles' = Troubles + 1
          BY <2>3, <4>1 DEF Troubles
        <4> QED BY <3>3, <4>1, <4>2
      <3>4. CASE /\ Troubles < MaxMishaps
                 /\ spent' = [spent EXCEPT !.faults = @ + 1]
        <4>1. /\ spent'.appends = spent.appends /\ spent'.stops = spent.stops
              /\ spent'.faults = spent.faults + 1 /\ spent'.edits = spent.edits
              /\ spent'.overlaps = spent.overlaps
          BY <3>4 DEF Counted, Counts
        <4>2. Troubles' = Troubles + 1
          BY <2>3, <4>1 DEF Troubles
        <4> QED BY <3>4, <4>1, <4>2
      <3>5. CASE /\ Troubles < MaxMishaps
                 /\ spent' = [spent EXCEPT !.edits = @ + 1]
        <4>1. /\ spent'.appends = spent.appends /\ spent'.stops = spent.stops
              /\ spent'.faults = spent.faults /\ spent'.edits = spent.edits + 1
              /\ spent'.overlaps = spent.overlaps
          BY <3>5 DEF Counted, Counts
        <4>2. Troubles' = Troubles + 1
          BY <2>3, <4>1 DEF Troubles
        <4> QED BY <3>5, <4>1, <4>2
      <3> QED BY <2>1, <3>1, <3>2, <3>3, <3>4, <3>5 DEF Counting
    <2>5. Troubles \in Nat
      BY <2>3 DEF Troubles
    <2>6. spent' = spent => Troubles' = Troubles
      BY DEF Troubles
    <2> HIDE DEF Troubles
    <2> QED BY <2>1, <2>2, <2>3, <2>4, <2>5, <2>6
  <1>3. Keeping /\ recorded \subseteq 1..Len(history)
    BY FilesKept DEF Bounded
  <1>4. recorded' \subseteq 1..Len(history')
    <2>1. Len(history) \in Nat /\ history \in Seq({history[h] : h \in DOMAIN history})
      BY PastIs DEF JournalIInv
    <2>2. \A entry : Len(Remembered(entry)) = Len(history) + 1
      BY <2>1 DEF Remembered
    <2>3. 1..Len(history) \subseteq 1..Len(history) + 1 /\ Len(history) + 1 \in 1..Len(history) + 1
      BY <2>1
    <2> HIDE DEF Remembered
    <2>4. CASE history' = history /\ recorded' = recorded
      BY <1>3, <2>4
    <2>5. ASSUME NEW entry, history' = Remembered(entry),
                 recorded' = recorded \/ (entry.hash = Len(history) + 1 /\ recorded' = recorded \cup {entry.hash})
          PROVE  recorded' \subseteq 1..Len(history')
      <3>1. Len(history') = Len(history) + 1
        BY <2>2, <2>5
      <3>2. recorded' \subseteq recorded \cup {Len(history) + 1}
        BY <2>5
      <3> QED BY <1>3, <2>3, <3>1, <3>2
    <2> QED BY <1>3, <2>4, <2>5 DEF Keeping
  <1>5. ASSUME NEW w \in Writers, pc'[w] \in Filing PROVE job'[w].stamp # Active
    <2>1. pc[w] \in Filing => job[w].stamp # Active
      BY DEF Bounded
    <2>2. CASE HandEdit \/ UNCHANGED journalVars
      <3>1. pc' = pc /\ job' = job
        BY <2>2 DEF journalVars, HandEdit, EditJournal, EditArchive, SetAside, DeleteJournal,
                    LoseArchive, Edited, ghosts
      <3> QED BY <1>5, <2>1, <3>1
    <2>3. ASSUME NEW v \in Writers, Start(v) PROVE job'[w].stamp # Active
      <3>1. job' = job /\ pc'[v] = "stat" /\ \A u \in Writers \ {v} : pc'[u] = pc[u]
        BY <2>3, Steps1 DEF Start
      <3> QED BY <1>5, <2>1, <3>1 DEF Filing
    <2>4. ASSUME NEW v \in Writers, Moving(v) PROVE job'[w].stamp # Active
      <3>1. CASE v # w
        BY <1>5, <2>1, <2>4, <3>1 DEF Moving
      <3>2. CASE v = w
        <4>1. stamped \in Nat
          BY DEF JournalIInv, Holds
        <4>2. stamped + 1 # Active
          BY <4>1 DEF Active
        <4> QED BY <1>5, <2>1, <2>4, <3>2, <4>2 DEF Moving
      <3> QED BY <3>1, <3>2
    <2> QED BY <2>2, <2>3, <2>4, WindowsMove DEF JournalNext
  <1> QED BY <1>1, <1>2, <1>3, <1>4, <1>5 DEF Bounded, Keeping

\* So they do at first.
LEMMA BoundsAtFirst ==
  ASSUME JournalInit
  PROVE  Bounded
  <1>1. Waiting = {}
    BY DEF JournalInit, Waiting, Early
  <1>2. IsFiniteSet(Waiting) /\ Cardinality(Waiting) = 0
    BY <1>1, FS_EmptySet
  <1>3. MaxAppends \in Nat /\ MaxMishaps \in Nat
    BY JournalConstants
  <1>4. stamped = 0 /\ spent.appends = 0 /\ Troubles = 0
    BY DEF JournalInit, Troubles
  <1>5. recorded = {} /\ Active \notin DOMAIN archives /\ \A w \in Writers : pc[w] \notin Filing
    BY DEF JournalInit, Filing
  <1> QED BY <1>2, <1>3, <1>4, <1>5 DEF Bounded

\* What this says of the types.
LEMMA TypesAre ==
  ASSUME JournalIInv, Counted, Bounded
  PROVE  JournalTypeOK
  <1> DEFINE L == LinesFrom(history)
             E == Entry \cup {Junk}
  <1>1. Holds(L) /\ L \subseteq E
    BY LineIs DEF JournalIInv
  <1>2. Seq(L) \subseteq Seq(E)
    <2> HIDE DEF L, E
    <2>1. ASSUME NEW s \in Seq(L) PROVE s \in Seq(E)
      BY <1>1
    <2> QED BY <2>1
  <1> HIDE DEF L, E
  <1>3. TextsOf(L) \subseteq Text
    BY <1>2 DEF TextsOf, Text, E
  <1>4. StatesOf(L) \subseteq TailState
    <2>1. Hashes \cup {GENESIS_HASH} = Nat
      BY DEF Hashes, GENESIS_HASH
    <2> QED BY <1>3, <2>1 DEF StatesOf, TailState
  <1>5. st \in [Writers -> {NoState} \cup TailState]
    <2>1. st \in [Writers -> {NoState} \cup StatesOf(L)]
      BY <1>1 DEF Holds
    <2> QED BY <1>4, <2>1
  <1>6. active \in {NoFile} \cup Text /\ pc \in [Writers -> Calls]
    BY <1>1, <1>3 DEF Holds
  <1>7. /\ \A n \in DOMAIN archives : archives[n] \in Seq(E)
        /\ \A n \in DOMAIN tmps : tmps[n] \in Seq(E)
    <2>1. archives \in [DOMAIN archives -> Seq(L)] /\ tmps \in [DOMAIN tmps -> Seq(L)]
      BY <1>1 DEF Holds
    <2> QED BY <1>2, <2>1
  <1>8. DOMAIN archives \subseteq Stamps /\ DOMAIN tmps \subseteq Stamps \cup {Active}
    BY <1>1 DEF Holds, Bounded, Stamps, Active
  <1>9. stamped \in 0..MaxAppends
    <2>1. /\ stamped \in Nat /\ Cardinality(Waiting) \in Nat /\ spent.appends \in Nat
          /\ stamped + Cardinality(Waiting) <= spent.appends /\ spent.appends <= MaxAppends
      BY <1>1, FS_CardinalityType DEF Holds, Bounded, Counted, Counts
    <2>2. MaxAppends \in Nat
      BY JournalConstants
    <2> QED BY <2>1, <2>2
  <1> QED BY <1>5, <1>6, <1>7, <1>8, <1>9 DEF JournalTypeOK, Bounded, Troubles, E

(* A crash loses at most the line being written (journal.ts:9-10), and verifyChain    *)
(* (journal.ts:499-544) accuses no honest journal: while nobody edits the files and    *)
(* the windows take turns, every entry that was written and synced is still there,     *)
(* and once an append has gone through verification finds one chain from the genesis   *)
(* hash, every archive where its note says and ending as the note says.                *)
THEOREM HonestJournalVerifies == JournalSpec => []JournalInvariant
  <1>1. JournalInit => Bounded
    BY BoundsAtFirst
  <1>2. JournalIInv /\ Counted /\ Bounded /\ [JournalNext]_journalVars => Bounded'
    BY BoundsStay
  <1>3. JournalIInv /\ Counted /\ HonestInv /\ Bounded => JournalInvariant
    BY TypesAre, RecordedKept, NothingToReport DEF JournalInvariant
  <1> QED BY <1>1, <1>2, <1>3, HonestHolds, PTL DEF JournalSpec

-----------------------------------------------------------------------------
(* Types.                                                                  *)

AllStages == {"readForSave", "writeSnap", "writeIndex", "find", "look", "write", "witness",
              "check", "remove", "plan", "trim", "unlink", "sweep"}
Bytes == Contents \cup {Torn}
Point == [id: Nat, path: Paths, ts: Nat, content: Bytes]
Jobs == [todo: Seq(AllStages), path: Paths, content: Bytes \cup {None}, want: Bytes \cup {None},
         id: Nat, idx: SUBSET Point, point: Point \cup {None}, safety: Nat, made: SUBSET Nat]

TypeOK ==
  /\ index \in (SUBSET Point) \cup {Damaged}
  /\ snap \in [DOMAIN snap -> Bytes]
  /\ file \in [Files -> Bytes \cup {None}]
  /\ saved \in Seq(Point) /\ clock \in Nat
  /\ op \in [Windows -> Jobs] /\ toast \in [Windows -> Nat]
  /\ disturbed \in BOOLEAN

-----------------------------------------------------------------------------
(* What a job has left to do is the rest of a save, a restore or a test.   *)

SaveJob == SaveStages \o RotateStages
RestoreJob == RestoreStages \o <<"witness">> \o RotateStages
TestJob == SaveStages \o RestoreStages \o <<"check">> \o CleanUp
JobOf(o) == IF o.path = Scratch THEN TestJob ELSE IF o.id = 0 THEN SaveJob ELSE RestoreJob

IsRest(todo, task, k) ==
  /\ Len(todo) = Len(task) + 1 - k
  /\ \A i \in 1..Len(todo) : todo[i] = task[i + k - 1]
OnItsWay(o) == \E k \in 1..Len(JobOf(o)) + 1 : IsRest(o.todo, JobOf(o), k)

Stage(o) == IF o.todo = <<>> THEN "done" ELSE Head(o.todo)

\* The stages that can come after another, in any of the jobs.
After(stage) ==
  CASE stage = "readForSave" -> {"writeSnap"}
    [] stage = "writeSnap" -> {"writeIndex"}
    [] stage = "writeIndex" -> {"find", "write", "plan"}
    [] stage = "find" -> {"look"}
    [] stage = "look" -> {"readForSave"}
    [] stage = "write" -> {"witness", "check"}
    [] stage = "witness" -> {"plan"}
    [] stage = "check" -> {"remove"}
    [] stage \in {"plan", "remove"} -> {"trim"}
    [] stage = "trim" -> {"unlink"}
    [] stage = "unlink" -> {"sweep", "done"}
    [] OTHER -> {"done"}

\* One sequence is another, followed by a third.
Joined(c, s, t) ==
  /\ c \in Seq(AllStages) /\ Len(c) = Len(s) + Len(t)
  /\ \A i \in 1..Len(s) : c[i] = s[i]
  /\ \A i \in 1..Len(t) : c[Len(s) + i] = t[i]

LEMMA Joins ==
  ASSUME NEW s \in Seq(AllStages), NEW t \in Seq(AllStages)
  PROVE  Joined(s \o t, s, t)
BY ConcatProperties DEF Joined

LEMMA Parts ==
  /\ SaveStages \in Seq(AllStages) /\ Len(SaveStages) = 3
  /\ RotateStages \in Seq(AllStages) /\ Len(RotateStages) = 4
  /\ CleanUp \in Seq(AllStages) /\ Len(CleanUp) = 3
  /\ <<"find", "look">> \in Seq(AllStages) /\ <<"write">> \in Seq(AllStages)
  /\ <<"witness">> \in Seq(AllStages) /\ <<"check">> \in Seq(AllStages)
<1>1. SaveStages \in Seq(AllStages) /\ Len(SaveStages) = 3
  BY DEF AllStages, SaveStages
<1>2. RotateStages \in Seq(AllStages) /\ Len(RotateStages) = 4
  BY DEF AllStages, RotateStages
<1>3. CleanUp \in Seq(AllStages) /\ Len(CleanUp) = 3
  BY DEF AllStages, CleanUp
<1>4. /\ <<"find", "look">> \in Seq(AllStages) /\ <<"write">> \in Seq(AllStages)
      /\ <<"witness">> \in Seq(AllStages) /\ <<"check">> \in Seq(AllStages)
  BY DEF AllStages
<1> QED BY <1>1, <1>2, <1>3, <1>4

LEMMA RestoreStagesAre ==
  /\ RestoreStages \in Seq(AllStages) /\ Len(RestoreStages) = 6
  /\ RestoreStages[1] = "find" /\ RestoreStages[2] = "look" /\ RestoreStages[3] = "readForSave"
  /\ RestoreStages[4] = "writeSnap" /\ RestoreStages[5] = "writeIndex" /\ RestoreStages[6] = "write"
<1> DEFINE most == <<"find", "look">> \o SaveStages
<1>1. Joined(most, <<"find", "look">>, SaveStages)
  BY Parts, Joins
<1> HIDE DEF most
<1>2. most \in Seq(AllStages)
  BY <1>1 DEF Joined
<1>3. Joined(RestoreStages, most, <<"write">>)
  BY <1>2, Parts, Joins DEF RestoreStages, most
<1> QED BY <1>1, <1>3 DEF Joined, SaveStages

LEMMA SaveJobIs ==
  /\ SaveJob \in Seq(AllStages) /\ Len(SaveJob) = 7
  /\ SaveJob[1] = "readForSave" /\ SaveJob[2] = "writeSnap" /\ SaveJob[3] = "writeIndex"
  /\ SaveJob[4] = "plan" /\ SaveJob[5] = "trim" /\ SaveJob[6] = "unlink"
  /\ SaveJob[7] = "sweep"
<1>1. Joined(SaveJob, SaveStages, RotateStages)
  BY Parts, Joins DEF SaveJob
<1> QED BY <1>1 DEF Joined, SaveStages, RotateStages

LEMMA RestoreJobIs ==
  /\ RestoreJob \in Seq(AllStages) /\ Len(RestoreJob) = 11
  /\ RestoreJob[1] = "find" /\ RestoreJob[2] = "look" /\ RestoreJob[3] = "readForSave"
  /\ RestoreJob[4] = "writeSnap" /\ RestoreJob[5] = "writeIndex" /\ RestoreJob[6] = "write"
  /\ RestoreJob[7] = "witness" /\ RestoreJob[8] = "plan" /\ RestoreJob[9] = "trim"
  /\ RestoreJob[10] = "unlink" /\ RestoreJob[11] = "sweep"
<1> DEFINE most == RestoreStages \o <<"witness">>
<1>1. Joined(most, RestoreStages, <<"witness">>)
  BY Parts, RestoreStagesAre, Joins
<1> HIDE DEF most
<1>2. most \in Seq(AllStages)
  BY <1>1 DEF Joined
<1>3. Joined(RestoreJob, most, RotateStages)
  BY <1>2, Parts, Joins DEF RestoreJob, most
<1> QED BY <1>1, <1>3, RestoreStagesAre DEF Joined, RotateStages

LEMMA TestJobIs ==
  /\ TestJob \in Seq(AllStages) /\ Len(TestJob) = 13
  /\ TestJob[1] = "readForSave" /\ TestJob[2] = "writeSnap" /\ TestJob[3] = "writeIndex"
  /\ TestJob[4] = "find" /\ TestJob[5] = "look" /\ TestJob[6] = "readForSave"
  /\ TestJob[7] = "writeSnap" /\ TestJob[8] = "writeIndex" /\ TestJob[9] = "write"
  /\ TestJob[10] = "check" /\ TestJob[11] = "remove" /\ TestJob[12] = "trim"
  /\ TestJob[13] = "unlink"
<1> DEFINE first == SaveStages \o RestoreStages
           most == first \o <<"check">>
<1>1. Joined(first, SaveStages, RestoreStages)
  BY Parts, RestoreStagesAre, Joins
<1> HIDE DEF first
<1>2. first \in Seq(AllStages)
  BY <1>1 DEF Joined
<1>3. Joined(most, first, <<"check">>)
  BY <1>2, Parts, Joins
<1> HIDE DEF most
<1>4. most \in Seq(AllStages)
  BY <1>3 DEF Joined
<1>5. Joined(TestJob, most, CleanUp)
  BY <1>4, Parts, Joins DEF TestJob, first, most
<1> QED BY <1>1, <1>3, <1>5, RestoreStagesAre DEF Joined, SaveStages, CleanUp

LEMMA Successors ==
  ASSUME NEW task \in {SaveJob, RestoreJob, TestJob}
  PROVE  /\ task \in Seq(AllStages) /\ Len(task) > 0 /\ \A k \in 1..Len(task) : task[k] # "done"
         /\ \A k \in 1..Len(task) - 1 : task[k + 1] \in After(task[k])
         /\ task[Len(task)] \in {"unlink", "sweep"}
<1>1. CASE task = SaveJob
  BY <1>1, SaveJobIs DEF After
<1>2. CASE task = RestoreJob
  BY <1>2, RestoreJobIs DEF After
<1>3. CASE task = TestJob
  BY <1>3, TestJobIs DEF After
<1> QED BY <1>1, <1>2, <1>3

LEMMA Neighbours ==
  /\ \A i \in 1..Len(RestoreJob) :
        RestoreJob[i] = "writeIndex" => i < Len(RestoreJob) /\ RestoreJob[i + 1] = "write"
  /\ \A task \in {SaveJob, RestoreJob} : \A i \in 1..Len(task) :
        task[i] = "unlink" => i < Len(task) /\ task[i + 1] = "sweep"
  /\ \A task \in {RestoreJob, TestJob} : \A i \in 1..Len(task) :
        task[i] = "look" => i + 4 <= Len(task) /\ task[i + 4] = "write"
  /\ \A i \in 1..Len(SaveJob) : SaveJob[i] # "look"
<1>1. /\ 1..Len(SaveJob) = 1..7 /\ 1..Len(RestoreJob) = 1..11 /\ 1..Len(TestJob) = 1..13
  BY SaveJobIs, RestoreJobIs, TestJobIs
<1>2. \A i \in 1..11 : RestoreJob[i] = "writeIndex" => i = 5
  BY RestoreJobIs
<1>3. \A i \in 1..11 : RestoreJob[i] = "unlink" => i = 10
  BY RestoreJobIs
<1>4. \A i \in 1..11 : RestoreJob[i] = "look" => i = 2
  BY RestoreJobIs
<1>5. \A i \in 1..7 : SaveJob[i] # "look" /\ (SaveJob[i] = "unlink" => i = 6)
  BY SaveJobIs
<1>6. \A i \in 1..13 : TestJob[i] = "look" => i = 5
  BY TestJobIs
<1>7. \A i \in 1..Len(RestoreJob) :
        RestoreJob[i] = "writeIndex" => i < Len(RestoreJob) /\ RestoreJob[i + 1] = "write"
  BY <1>1, <1>2, RestoreJobIs
<1>8. \A i \in 1..Len(RestoreJob) :
        RestoreJob[i] = "unlink" => i < Len(RestoreJob) /\ RestoreJob[i + 1] = "sweep"
  BY <1>1, <1>3, RestoreJobIs
<1>9. \A i \in 1..Len(SaveJob) :
        SaveJob[i] = "unlink" => i < Len(SaveJob) /\ SaveJob[i + 1] = "sweep"
  BY <1>1, <1>5, SaveJobIs
<1>10. \A i \in 1..Len(RestoreJob) :
        RestoreJob[i] = "look" => i + 4 <= Len(RestoreJob) /\ RestoreJob[i + 4] = "write"
  BY <1>1, <1>4, RestoreJobIs
<1>11. \A i \in 1..Len(TestJob) :
        TestJob[i] = "look" => i + 4 <= Len(TestJob) /\ TestJob[i + 4] = "write"
  BY <1>1, <1>6, TestJobIs
<1> QED BY <1>1, <1>5, <1>7, <1>8, <1>9, <1>10, <1>11

LEMMA JobOfIs == ASSUME NEW o PROVE JobOf(o) \in {SaveJob, RestoreJob, TestJob}
  BY DEF JobOf

LEMMA StageIs ==
  ASSUME NEW o \in Jobs
  PROVE  /\ Len(o.todo) \in Nat
         /\ Len(o.todo) = 0 => Stage(o) = "done"
         /\ Len(o.todo) > 0 => Stage(o) = o.todo[1] /\ o.todo # <<>>
<1>1. o.todo \in Seq(AllStages)
  BY DEF Jobs
<1>2. Len(o.todo) \in Nat /\ (Len(o.todo) = 0 <=> o.todo = <<>>)
  BY <1>1, EmptySeq, LenProperties
<1>3. Len(o.todo) > 0 => Head(o.todo) = o.todo[1]
  BY <1>1, <1>2, HeadTailProperties
<1> QED BY <1>2, <1>3 DEF Stage

\* The next stage.
LEMMA Advances ==
  ASSUME NEW o \in Jobs, NEW q \in Jobs, JobOf(q) = JobOf(o), OnItsWay(o), o.todo # <<>>,
         q.todo = Tail(o.todo)
  PROVE  /\ OnItsWay(q) /\ Stage(q) \in After(Stage(o)) /\ Stage(o) # "done"
         /\ JobOf(o) = RestoreJob /\ Stage(o) = "writeIndex" => Stage(q) = "write"
         /\ JobOf(o) # TestJob /\ Stage(o) = "unlink" => Stage(q) = "sweep"
<1> DEFINE task == JobOf(o)
<1>1. PICK k \in 1..Len(task) + 1 : IsRest(o.todo, task, k)
  BY DEF OnItsWay
<1>2. /\ task \in Seq(AllStages) /\ Len(task) > 0 /\ \A i \in 1..Len(task) : task[i] # "done"
      /\ \A i \in 1..Len(task) - 1 : task[i + 1] \in After(task[i])
      /\ task[Len(task)] \in {"unlink", "sweep"}
      /\ task = RestoreJob => \A i \in 1..Len(task) : task[i] = "writeIndex" => i < Len(task) /\ task[i + 1] = "write"
      /\ task # TestJob => \A i \in 1..Len(task) : task[i] = "unlink" => i < Len(task) /\ task[i + 1] = "sweep"
  BY Successors, Neighbours, JobOfIs
<1>3. /\ o.todo \in Seq(AllStages) /\ q.todo \in Seq(AllStages)
      /\ Len(q.todo) = Len(o.todo) - 1 /\ Len(o.todo) \in Nat \ {0}
      /\ \A i \in 1..Len(q.todo) : q.todo[i] = o.todo[i + 1]
  BY HeadTailProperties, EmptySeq DEF Jobs
<1> HIDE DEF task
<1>4. k \in 1..Len(task) /\ IsRest(q.todo, task, k + 1)
  <2>1. Len(task) \in Nat /\ k \in Nat /\ Len(o.todo) = Len(task) + 1 - k
    BY <1>1, <1>2 DEF IsRest
  <2>2. k \in 1..Len(task)
    BY <1>1, <1>3, <2>1
  <2>3. ASSUME NEW i \in 1..Len(q.todo) PROVE q.todo[i] = task[i + (k + 1) - 1]
    <3>1. i + 1 \in 1..Len(o.todo)
      BY <1>3, <2>1
    <3>2. o.todo[i + 1] = task[i + 1 + k - 1]
      BY <1>1, <3>1 DEF IsRest
    <3>3. i + 1 + k - 1 = i + (k + 1) - 1
      BY <1>3, <2>1
    <3> QED BY <1>3, <3>2, <3>3
  <2>4. Len(q.todo) = Len(task) + 1 - (k + 1)
    BY <1>3, <2>1
  <2> QED BY <2>2, <2>3, <2>4 DEF IsRest
<1>5. OnItsWay(q)
  BY <1>2, <1>4 DEF OnItsWay, task
<1>6. Stage(o) = task[k]
  <2>1. 1 \in 1..Len(o.todo) /\ 1 + k - 1 = k
    BY <1>3
  <2>2. o.todo[1] = task[1 + k - 1]
    BY <1>1, <2>1 DEF IsRest
  <2> QED BY <1>3, <2>1, <2>2 DEF Stage
<1>7. k < Len(task) => Stage(q) = task[k + 1]
  <2>1. SUFFICES ASSUME k < Len(task) PROVE Stage(q) = task[k + 1]
    OBVIOUS
  <2>2. Len(task) \in Nat /\ Len(q.todo) = Len(task) - k
    BY <1>2, <1>4 DEF IsRest
  <2>3. Len(q.todo) > 0 /\ 1 \in 1..Len(q.todo)
    BY <1>4, <2>1, <2>2
  <2>4. q.todo[1] = task[1 + (k + 1) - 1] /\ 1 + (k + 1) - 1 = k + 1
    BY <1>4, <2>3 DEF IsRest
  <2> QED BY <2>3, <2>4, StageIs
<1>8. k = Len(task) => Stage(q) = "done"
  <2>1. Len(task) \in Nat /\ Len(q.todo) = Len(task) - k
    BY <1>2, <1>4 DEF IsRest
  <2> QED BY <1>3, <1>4, <2>1, EmptySeq DEF Stage
<1>9. CASE k < Len(task)
  BY <1>2, <1>4, <1>5, <1>6, <1>7, <1>9 DEF task
<1>10. CASE k = Len(task)
  <2>1. Stage(o) \in {"unlink", "sweep"} /\ "done" \in After(Stage(o))
    BY <1>2, <1>6, <1>10 DEF After
  <2>2. (task # TestJob => Stage(o) # "unlink") /\ Stage(o) # "writeIndex"
    BY <1>2, <1>4, <1>6, <1>10, <2>1
  <2> QED BY <1>2, <1>5, <1>6, <1>8, <1>10, <2>1, <2>2 DEF task
<1> QED BY <1>4, <1>9, <1>10

\* A file that is not there needs no safety point.
LEMMA Jumps ==
  ASSUME NEW o \in Jobs, NEW q \in Jobs, JobOf(q) = JobOf(o), OnItsWay(o), o.todo # <<>>,
         Stage(o) = "look", q.todo = SubSeq(o.todo, 5, Len(o.todo))
  PROVE  OnItsWay(q) /\ Stage(q) = "write"
<1> DEFINE task == JobOf(o)
<1>1. PICK k \in 1..Len(task) + 1 : IsRest(o.todo, task, k)
  BY DEF OnItsWay
<1>2. /\ task \in Seq(AllStages) /\ Len(task) \in Nat
      /\ \A i \in 1..Len(task) : task[i] = "look" => i + 4 <= Len(task) /\ task[i + 4] = "write"
  <2>1. task \in {SaveJob, RestoreJob, TestJob}
    BY JobOfIs
  <2> HIDE DEF task
  <2>2. CASE task = SaveJob
    BY <2>2, Neighbours, SaveJobIs
  <2>3. CASE task = RestoreJob
    BY <2>3, Neighbours, RestoreJobIs
  <2>4. CASE task = TestJob
    BY <2>4, Neighbours, TestJobIs
  <2> QED BY <2>1, <2>2, <2>3, <2>4
<1>3. o.todo \in Seq(AllStages) /\ Len(o.todo) \in Nat \ {0}
  BY EmptySeq DEF Jobs
<1> HIDE DEF task
<1>4. Stage(o) = task[k] /\ k \in 1..Len(task) /\ Len(o.todo) >= 5
  BY <1>1, <1>2, <1>3 DEF IsRest, Stage
<1>5. /\ Len(q.todo) = Len(o.todo) - 4
      /\ \A i \in 1..Len(q.todo) : q.todo[i] = o.todo[i + 4]
  <2> DEFINE n == Len(o.todo)
  <2>1. \A i \in 5..n : o.todo[i] \in AllStages
    BY <1>3, ElementOfSeq
  <2>2. /\ Len(SubSeq(o.todo, 5, n)) = IF 5 <= n THEN n - 5 + 1 ELSE 0
        /\ \A i \in 1..n - 5 + 1 : SubSeq(o.todo, 5, n)[i] = o.todo[5 + i - 1]
    BY <1>3, <2>1, SubSeqProperties
  <2> HIDE DEF n
  <2> QED BY <1>3, <1>4, <2>2 DEF n
<1>6. IsRest(q.todo, task, k + 4)
  <2>1. /\ Len(o.todo) = Len(task) + 1 - k /\ k \in Nat
        /\ \A i \in 1..Len(o.todo) : o.todo[i] = task[i + k - 1]
    BY <1>1, <1>2 DEF IsRest
  <2>2. Len(q.todo) = Len(task) + 1 - (k + 4)
    BY <1>2, <1>3, <1>5, <2>1
  <2>3. ASSUME NEW i \in 1..Len(q.todo) PROVE q.todo[i] = task[i + (k + 4) - 1]
    <3>1. i + 4 \in 1..Len(o.todo) /\ (i + 4) + k - 1 = i + (k + 4) - 1
      BY <1>3, <1>5, <2>1
    <3>2. q.todo[i] = o.todo[i + 4] /\ o.todo[i + 4] = task[(i + 4) + k - 1]
      BY <1>5, <2>1, <3>1
    <3> QED BY <3>1, <3>2
  <2> QED BY <2>2, <2>3 DEF IsRest
<1>7. k + 4 \in 1..Len(task) /\ task[k + 4] = "write"
  BY <1>2, <1>4
<1>8. OnItsWay(q)
  BY <1>2, <1>6, <1>7 DEF OnItsWay, task
<1>9. Stage(q) = "write"
  <2>1. Len(task) \in Nat /\ Len(q.todo) = Len(task) + 1 - (k + 4) /\ k \in Nat
    BY <1>2, <1>4, <1>6 DEF IsRest
  <2>2. Len(q.todo) > 0 /\ 1 \in 1..Len(q.todo)
    BY <1>7, <2>1
  <2>3. q.todo[1] = task[1 + (k + 4) - 1]
    BY <1>6, <2>2 DEF IsRest
  <2>4. 1 + (k + 4) - 1 = k + 4
    BY <2>1
  <2>5. Stage(q) = q.todo[1]
    BY <2>2, StageIs
  <2> QED BY <1>7, <2>3, <2>4, <2>5
<1> QED BY <1>8, <1>9

\* The ways a job is cut short: only the sweep is left, or nothing, or the cleaning up.
LEMMA CutShort ==
  ASSUME NEW q
  PROVE  /\ JobOf(q) # TestJob /\ q.todo = <<"sweep">> => OnItsWay(q) /\ Stage(q) = "sweep"
         /\ q.todo = <<>> => OnItsWay(q) /\ Stage(q) = "done"
         /\ JobOf(q) = TestJob /\ q.todo = CleanUp => OnItsWay(q) /\ Stage(q) = "remove"
<1> DEFINE task == JobOf(q)
<1>1. JobOf(q) # TestJob /\ q.todo = <<"sweep">> => IsRest(q.todo, task, Len(task)) /\ Len(task) \in 1..Len(task) + 1
  <2>1. SUFFICES ASSUME task # TestJob, q.todo = <<"sweep">>
                 PROVE  IsRest(q.todo, task, Len(task)) /\ Len(task) \in 1..Len(task) + 1
    OBVIOUS
  <2>2. task = SaveJob \/ task = RestoreJob
    BY <2>1, JobOfIs
  <2> HIDE DEF task
  <2>3. Len(task) \in {7, 11} /\ task[Len(task)] = "sweep"
    BY <2>2, SaveJobIs, RestoreJobIs
  <2>4. Len(q.todo) = 1 /\ q.todo[1] = "sweep"
    BY <2>1
  <2>5. ASSUME NEW i \in 1..Len(q.todo) PROVE q.todo[i] = task[i + Len(task) - 1]
    <3>1. i = 1 /\ i + Len(task) - 1 = Len(task)
      BY <2>3, <2>4
    <3> QED BY <2>3, <2>4, <3>1
  <2>6. ASSUME NEW n \in {7, 11} PROVE 1 = n + 1 - n /\ n \in 1..n + 1
    OBVIOUS
  <2>7. Len(q.todo) = Len(task) + 1 - Len(task) /\ Len(task) \in 1..Len(task) + 1
    BY <2>3, <2>4, <2>6
  <2> QED BY <2>5, <2>7 DEF IsRest
<1>2. q.todo = <<>> => IsRest(q.todo, task, Len(task) + 1) /\ Len(task) + 1 \in 1..Len(task) + 1
  <2>1. Len(task) \in Nat
    BY Successors, JobOfIs
  <2> HIDE DEF task
  <2> QED BY <2>1 DEF IsRest
<1>3. JobOf(q) = TestJob /\ q.todo = CleanUp => IsRest(q.todo, task, 11) /\ 11 \in 1..Len(task) + 1
  <2>1. SUFFICES ASSUME task = TestJob, q.todo = CleanUp
                 PROVE  IsRest(q.todo, task, 11) /\ 11 \in 1..Len(task) + 1
    OBVIOUS
  <2>2. /\ Len(task) = 13 /\ task[11] = "remove" /\ task[12] = "trim" /\ task[13] = "unlink"
    BY <2>1, TestJobIs
  <2>3. /\ Len(q.todo) = 3 /\ q.todo[1] = "remove" /\ q.todo[2] = "trim" /\ q.todo[3] = "unlink"
    BY <2>1 DEF CleanUp
  <2> HIDE DEF task
  <2> QED BY <2>2, <2>3 DEF IsRest
<1>4. /\ q.todo = <<"sweep">> => Stage(q) = "sweep"
      /\ q.todo = <<>> => Stage(q) = "done"
      /\ q.todo = CleanUp => Stage(q) = "remove"
  BY DEF Stage, CleanUp
<1> QED BY <1>1, <1>2, <1>3, <1>4 DEF OnItsWay

\* A job at its start.
LEMMA Begins ==
  ASSUME NEW q, q.todo = JobOf(q)
  PROVE  /\ OnItsWay(q)
         /\ Stage(q) \in {"readForSave", "find"}
         /\ JobOf(q) = RestoreJob => Stage(q) = "find"
<1> DEFINE task == JobOf(q)
<1>1. /\ task \in Seq(AllStages) /\ Len(task) \in Nat \ {0} /\ task # <<>>
      /\ task[1] \in {"readForSave", "find"} /\ (task = RestoreJob => task[1] = "find")
  BY SaveJobIs, RestoreJobIs, TestJobIs, JobOfIs
<1> HIDE DEF task
<1>2. IsRest(q.todo, task, 1)
  BY <1>1 DEF IsRest, task
<1> QED BY <1>1, <1>2 DEF OnItsWay, Stage, task

\* The last four stages of a restore.
LEMMA Rotating ==
  ASSUME NEW o \in Jobs, JobOf(o) = RestoreJob, OnItsWay(o), o.todo # <<>>, Len(o.todo) <= 4
  PROVE  Stage(o) \in {"plan", "trim", "unlink", "sweep"}
<1>1. PICK k \in 1..12 : IsRest(o.todo, RestoreJob, k)
  BY RestoreJobIs DEF OnItsWay
<1>2. o.todo \in Seq(AllStages) /\ Len(o.todo) \in Nat \ {0}
  BY EmptySeq DEF Jobs
<1>3. k \in 8..11 /\ Stage(o) = RestoreJob[k]
  BY <1>1, <1>2, RestoreJobIs DEF IsRest, Stage
<1> QED BY <1>3, RestoreJobIs

-----------------------------------------------------------------------------
(* The inductive invariant.  Its parts are about a set of listed points, a *)
(* list of the points taken and the snapshots, so that they can be stated  *)
(* of the state a step leads to.                                           *)

Taking(o) == Stage(o) \in {"writeSnap", "writeIndex"}
Restoring(o) == o.path # Scratch /\ o.id # 0

\* The stages of a restore from the write of its file on.
Late == {"write", "witness", "plan", "trim", "unlink", "sweep"}
Rotates == {"plan", "trim", "unlink", "sweep"}

\* A point that was taken as it stands, and whose snapshot, if any, is its own.
Known(p, taken, snaps) ==
  /\ p.id \in DOMAIN taken /\ taken[p.id] = p
  /\ p.id \in DOMAIN snaps => snaps[p.id] = p.content

JobOK(o) ==
  /\ OnItsWay(o)
  /\ Stage(o) \in {"readForSave", "writeSnap", "writeIndex"} => o.content # None

TakesOK(o, taken, snaps) ==
  Taking(o) =>
    /\ o.point.id \in DOMAIN taken /\ taken[o.point.id] = o.point
    /\ o.point.content = o.content
    /\ Stage(o) = "writeIndex" => Known(o.point, taken, snaps)

RestoreOK(o, taken, entries) ==
  Restoring(o) /\ Stage(o) # "done" =>
    /\ o.id \in DOMAIN taken /\ o.path = taken[o.id].path
    /\ Stage(o) # "find" => o.want = taken[o.id].content
    /\ Stage(o) \notin Late => o.safety = 0
    /\ Stage(o) \in Late =>
         \/ o.content = None /\ o.safety = 0
         \/ o.safety \in DOMAIN taken /\ taken[o.safety].content = o.content
    /\ Stage(o) \in Rotates =>
         [id |-> o.id, before |-> o.content, safety |-> o.safety] \in entries

\* The number a window is about to write a snapshot under is nobody else's.
Fresh(w) ==
  Stage(op[w]) = "writeSnap" =>
    /\ \A p \in IndexRead : p.id # op[w].point.id
    /\ \A v \in Windows : \A p \in op[v].idx : p.id # op[w].point.id
    /\ \A v \in Windows \ {w} : Taking(op[v]) => op[v].point.id # op[w].point.id

Recorded ==
  /\ TypeOK
  /\ \A i \in DOMAIN saved : saved[i].id = i
  /\ \A p \in IndexRead : Known(p, saved, snap)
  /\ \A w \in Windows :
       /\ \A p \in op[w].idx : Known(p, saved, snap)
       /\ JobOK(op[w]) /\ TakesOK(op[w], saved, snap) /\ RestoreOK(op[w], saved, witnessed)
       /\ Fresh(w)

\* While the windows take turns and the clock goes forward: what the job that
\* is running relies on.
TurnOK(o, points, taken, snaps) ==
  /\ Taking(o) => o.point.id = Len(taken)
  /\ Stage(o) \in {"writeSnap", "writeIndex", "trim"} => \A p \in o.idx : p.id \in DOMAIN snaps
  /\ Stage(o) = "writeIndex" => o.point.id \in DOMAIN snaps
  /\ Stage(o) \in {"trim", "unlink"} => \A p \in o.idx : p.id \notin o.made
  /\ Stage(o) \in {"unlink", "sweep"} => points \subseteq o.idx
  /\ Restoring(o) /\ Stage(o) \in Late /\ o.content # None =>
       /\ o.safety = Len(taken)
       /\ taken[o.safety] \in points \/ points = {}
       /\ Stage(o) = "trim" => taken[o.safety] \in o.idx \/ o.idx = {}

InTurn ==
  /\ \A v, w \in Windows : Busy(v) /\ Busy(w) => v = w
  /\ \A p \in IndexRead : p.id \in DOMAIN snap
  /\ \A i, j \in DOMAIN saved : i <= j => saved[i].ts <= saved[j].ts
  /\ \A i \in DOMAIN saved : saved[i].ts <= clock \div 2
  /\ \A w \in Windows : TurnOK(op[w], IndexRead, saved, snap)

RestoreIInv == Recorded /\ (~disturbed => InTurn)

-----------------------------------------------------------------------------
(* Which job it is, and how far it is.                                     *)

LEMMA Kinds ==
  ASSUME NEW o
  PROVE  /\ JobOf(o) = RestoreJob <=> Restoring(o)
         /\ JobOf(o) = TestJob <=> o.path = Scratch
         /\ JobOf(o) = SaveJob <=> o.path # Scratch /\ o.id = 0
<1>1. SaveJob # RestoreJob /\ SaveJob # TestJob /\ RestoreJob # TestJob
  BY SaveJobIs, RestoreJobIs, TestJobIs
<1> QED BY <1>1 DEF JobOf, Restoring

LEMMA StagesOf ==
  ASSUME NEW o \in Jobs, OnItsWay(o)
  PROVE  /\ Stage(o) = "done" <=> o.todo = <<>>
         /\ o.path # Scratch /\ o.id = 0 =>
              Stage(o) \in {"readForSave", "writeSnap", "writeIndex", "plan", "trim", "unlink", "sweep", "done"}
         /\ Restoring(o) => Stage(o) \notin {"check", "remove"}
         /\ o.path = Scratch => Stage(o) \notin {"witness", "plan", "sweep"}
<1> DEFINE task == JobOf(o)
<1>1. PICK k \in 1..Len(task) + 1 : IsRest(o.todo, task, k)
  BY DEF OnItsWay
<1>2. o.todo \in Seq(AllStages) /\ "done" \notin AllStages
  BY DEF Jobs, AllStages
<1>3. Stage(o) = "done" <=> o.todo = <<>>
  <2>1. ASSUME o.todo # <<>> PROVE Stage(o) # "done"
    <3>1. Head(o.todo) \in AllStages
      BY <1>2, <2>1, HeadTailProperties
    <3> QED BY <1>2, <2>1, <3>1 DEF Stage
  <2> QED BY <2>1 DEF Stage
<1>4. Len(task) \in Nat
  BY Successors, JobOfIs
<1>5. Stage(o) = "done" \/ (k \in 1..Len(task) /\ Stage(o) = task[k])
  <2>1. SUFFICES ASSUME Stage(o) # "done" PROVE k \in 1..Len(task) /\ Stage(o) = task[k]
    OBVIOUS
  <2>2. Len(o.todo) \in Nat /\ Len(o.todo) # 0
    BY <2>1, StageIs
  <2> HIDE DEF task
  <2>3. Len(o.todo) = Len(task) + 1 - k
    BY <1>1 DEF IsRest
  <2>4. Len(o.todo) > 0 /\ 1 \in 1..Len(o.todo) /\ k \in 1..Len(task) /\ 1 + k - 1 = k
    BY <1>1, <1>4, <2>2, <2>3
  <2>5. o.todo[1] = task[1 + k - 1]
    BY <1>1, <2>4 DEF IsRest
  <2> QED BY <2>4, <2>5, StageIs
<1>6. \A i \in 1..7 : SaveJob[i] \in {"readForSave", "writeSnap", "writeIndex", "plan", "trim", "unlink", "sweep"}
  BY SaveJobIs
<1>7. \A i \in 1..11 : RestoreJob[i] \notin {"check", "remove"}
  BY RestoreJobIs
<1>8. \A i \in 1..13 : TestJob[i] \notin {"witness", "plan", "sweep"}
  BY TestJobIs
<1>9. o.path # Scratch /\ o.id = 0 => task = SaveJob
  BY Kinds
<1>10. Restoring(o) => task = RestoreJob
  BY Kinds
<1>11. o.path = Scratch => task = TestJob
  BY Kinds
<1> HIDE DEF task
<1>12. o.path # Scratch /\ o.id = 0 =>
         Stage(o) \in {"readForSave", "writeSnap", "writeIndex", "plan", "trim", "unlink", "sweep", "done"}
  BY <1>5, <1>6, <1>9, SaveJobIs
<1>13. Restoring(o) => Stage(o) \notin {"check", "remove"}
  BY <1>5, <1>7, <1>10, RestoreJobIs
<1>14. o.path = Scratch => Stage(o) \notin {"witness", "plan", "sweep"}
  BY <1>5, <1>8, <1>11, TestJobIs
<1> QED BY <1>3, <1>12, <1>13, <1>14

-----------------------------------------------------------------------------
(* What is recorded stays true.                                            *)

\* A step of one window: what it does to the points, the snapshots and its job.
Moves(w, q) ==
  /\ op' = [op EXCEPT ![w] = q]
  /\ index' \in (SUBSET Point) \cup {Damaged} /\ snap' \in [DOMAIN snap' -> Bytes]
  /\ file' \in [Files -> Bytes \cup {None}] /\ toast' \in [Windows -> Nat]
  /\ UNCHANGED <<saved, clock>>
  /\ IndexRead' \subseteq IndexRead \cup op[w].idx \cup
       (IF Stage(op[w]) = "writeIndex" THEN {op[w].point} ELSE {})
  /\ \A i \in DOMAIN snap' : \/ i \in DOMAIN snap /\ snap'[i] = snap[i]
                             \/ Stage(op[w]) = "writeSnap" /\ i = op[w].point.id
  /\ q.idx \subseteq IndexRead \cup op[w].idx
  /\ witnessed \subseteq witnessed'

Steps(w, q) == Moves(w, q) /\ UNCHANGED disturbed

\* The points in the hands of the others are not the one whose snapshot is written.
LEMMA StepKnown ==
  ASSUME Recorded, NEW w \in Windows, NEW q, Moves(w, q), UNCHANGED saved, TypeOK'
  PROVE  /\ \A p \in IndexRead' : Known(p, saved', snap')
         /\ \A p \in q.idx : Known(p, saved', snap')
         /\ \A v \in Windows \ {w} : /\ \A p \in op[v].idx : Known(p, saved', snap')
                                     /\ TakesOK(op[v], saved', snap')
<1>1. \A p : /\ Known(p, saved, snap)
             /\ Stage(op[w]) = "writeSnap" => p.id # op[w].point.id
             => Known(p, saved', snap')
  BY DEF Known, Moves
<1>2. \A p \in IndexRead \cup op[w].idx : Known(p, saved', snap')
  BY <1>1 DEF Recorded, Fresh
<1>3. Stage(op[w]) = "writeIndex" => Known(op[w].point, saved', snap')
  BY <1>1 DEF Recorded, TakesOK, Taking
<1>4. \A p \in IndexRead' : Known(p, saved', snap')
  BY <1>2, <1>3 DEF Moves
<1>5. ASSUME NEW v \in Windows \ {w}
      PROVE  /\ \A p \in op[v].idx : Known(p, saved', snap')
             /\ TakesOK(op[v], saved', snap')
  <2>1. \A p \in op[v].idx : Known(p, saved', snap')
    BY <1>1 DEF Recorded, Fresh
  <2>2. Stage(op[v]) = "writeIndex" => Known(op[v].point, saved', snap')
    BY <1>1 DEF Recorded, Fresh, TakesOK, Taking
  <2>3. TakesOK(op[v], saved, snap)
    BY DEF Recorded
  <2> QED BY <2>1, <2>2, <2>3 DEF TakesOK
<1> QED BY <1>2, <1>4, <1>5 DEF Moves

LEMMA StepFresh ==
  ASSUME Recorded, NEW w \in Windows, NEW q \in Jobs, Moves(w, q), TypeOK',
         Taking(q) => Stage(op[w]) = "writeSnap" /\ Stage(q) = "writeIndex" /\ q.point = op[w].point
  PROVE  \A v \in Windows : Fresh(v)'
<1>0. op'[w] = q /\ \A v \in Windows \ {w} : op'[v] = op[v]
  BY DEF Moves, Recorded, TypeOK
<1>1. Stage(op'[w]) # "writeSnap"
  BY <1>0 DEF Taking
<1>2. ASSUME NEW v \in Windows \ {w}, Stage(op[v]) = "writeSnap"
      PROVE  /\ \A p \in IndexRead' : p.id # op[v].point.id
             /\ \A u \in Windows : \A p \in op'[u].idx : p.id # op[v].point.id
             /\ \A u \in Windows \ {v} : Taking(op'[u]) => op'[u].point.id # op[v].point.id
  <2>1. /\ \A p \in IndexRead : p.id # op[v].point.id
        /\ \A u \in Windows : \A p \in op[u].idx : p.id # op[v].point.id
        /\ \A u \in Windows \ {v} : Taking(op[u]) => op[u].point.id # op[v].point.id
    BY <1>2 DEF Recorded, Fresh
  <2>2. Stage(op[w]) = "writeIndex" => op[w].point.id # op[v].point.id
    BY <2>1 DEF Taking
  <2>3. \A p \in IndexRead' : p.id # op[v].point.id
    BY <2>1, <2>2 DEF Moves
  <2>4. \A p \in q.idx : p.id # op[v].point.id
    BY <2>1 DEF Moves
  <2>5. Taking(q) => q.point.id # op[v].point.id
    BY <2>1 DEF Taking
  <2> QED BY <1>0, <2>1, <2>3, <2>4, <2>5
<1> QED BY <1>0, <1>1, <1>2 DEF Fresh

LEMMA StepKeeps ==
  ASSUME Recorded, NEW w \in Windows, NEW q \in Jobs, Moves(w, q), TypeOK', UNCHANGED saved,
         Taking(q) => /\ Stage(op[w]) = "writeSnap" /\ Stage(q) = "writeIndex" /\ q.point = op[w].point
                      /\ TakesOK(q, saved, snap'),
         JobOK(q), RestoreOK(q, saved, witnessed')
  PROVE  Recorded'
<1>0. op'[w] = q /\ \A v \in Windows \ {w} : op'[v] = op[v]
  BY DEF Moves, Recorded, TypeOK
<1>1. /\ \A p \in IndexRead' : Known(p, saved', snap')
      /\ \A p \in q.idx : Known(p, saved', snap')
      /\ \A v \in Windows \ {w} : /\ \A p \in op[v].idx : Known(p, saved', snap')
                                  /\ TakesOK(op[v], saved', snap')
  BY StepKnown
<1>2. \A v \in Windows : Fresh(v)'
  BY StepFresh
<1>3. TakesOK(q, saved', snap')
  BY DEF TakesOK
<1>4. ASSUME NEW v \in Windows \ {w} PROVE JobOK(op[v]) /\ RestoreOK(op[v], saved', witnessed')
  BY DEF Recorded, RestoreOK, Moves
<1>5. ASSUME NEW v \in Windows
      PROVE  /\ \A p \in op'[v].idx : Known(p, saved', snap')
             /\ JobOK(op'[v]) /\ TakesOK(op'[v], saved', snap') /\ RestoreOK(op'[v], saved', witnessed')
  BY <1>0, <1>1, <1>3, <1>4
<1>6. \A i \in DOMAIN saved' : saved'[i].id = i
  BY DEF Recorded
<1> QED BY <1>1, <1>2, <1>5, <1>6 DEF Recorded

\* Nobody else is at work while the windows take turns.
LEMMA TurnKeeps ==
  ASSUME Recorded, TypeOK', InTurn, NEW w \in Windows, Busy(w), NEW q \in Jobs, Moves(w, q),
         \A p \in IndexRead' : p.id \in DOMAIN snap',
         TurnOK(q, IndexRead', saved, snap')
  PROVE  InTurn'
<1>0. /\ op'[w] = q /\ \A v \in Windows \ {w} : op'[v] = op[v]
      /\ UNCHANGED <<saved, clock>>
  BY DEF Moves, Recorded, TypeOK
<1>1. \A v \in Windows \ {w} : op[v].todo = <<>>
  BY DEF InTurn, Busy
<1>2. \A v, u \in Windows : op'[v].todo # <<>> /\ op'[u].todo # <<>> => v = u
  BY <1>0, <1>1
<1>3. ASSUME NEW v \in Windows PROVE TurnOK(op'[v], IndexRead', saved', snap')
  <2>1. CASE v = w
    BY <1>0, <2>1
  <2>2. CASE v # w
    <3>1. Stage(op'[v]) = "done"
      BY <1>0, <1>1, <2>2 DEF Stage
    <3> QED BY <3>1 DEF TurnOK, Taking, Late
  <2> QED BY <2>1, <2>2
<1>4. /\ \A i, j \in DOMAIN saved' : i <= j => saved'[i].ts <= saved'[j].ts
      /\ \A i \in DOMAIN saved' : saved'[i].ts <= clock' \div 2
  BY <1>0 DEF InTurn
<1> QED BY <1>2, <1>3, <1>4 DEF InTurn, Busy

LEMMA Step ==
  ASSUME RestoreIInv, NEW w \in Windows, Busy(w), NEW q \in Jobs, Steps(w, q),
         Taking(q) => /\ Stage(op[w]) = "writeSnap" /\ Stage(q) = "writeIndex" /\ q.point = op[w].point
                      /\ TakesOK(q, saved, snap'),
         JobOK(q), RestoreOK(q, saved, witnessed'),
         InTurn => (\A p \in IndexRead' : p.id \in DOMAIN snap') /\ TurnOK(q, IndexRead', saved, snap')
  PROVE  RestoreIInv'
<1>1. Recorded /\ UNCHANGED <<saved, clock, disturbed>>
  BY DEF RestoreIInv, Steps, Moves
<1>2. TypeOK'
  <2>1. op' \in [Windows -> Jobs]
    BY <1>1 DEF Steps, Moves, Recorded, TypeOK
  <2> QED BY <1>1, <2>1 DEF Steps, Moves, Recorded, TypeOK
<1>3. Recorded'
  BY <1>1, <1>2, StepKeeps DEF Steps
<1>4. ~disturbed' => InTurn'
  BY <1>1, <1>2, TurnKeeps DEF Steps, RestoreIInv
<1> QED BY <1>3, <1>4 DEF RestoreIInv

\* The job goes on.
LEMMA Forward ==
  ASSUME Recorded, NEW w \in Windows, NEW stage, At(w, stage),
         NEW q \in Jobs, q.todo = Tail(op[w].todo), q.path = op[w].path,
         q.id = op[w].id \/ q.path = Scratch
  PROVE  /\ OnItsWay(q) /\ Stage(q) \in After(stage)
         /\ Restoring(q) => Restoring(op[w]) /\ q.id = op[w].id
         /\ Restoring(q) /\ stage = "writeIndex" => Stage(q) = "write"
         /\ q.path # Scratch /\ stage = "unlink" => Stage(q) = "sweep"
<1>1. op[w] \in Jobs /\ OnItsWay(op[w]) /\ op[w].todo # <<>> /\ Stage(op[w]) = stage
  BY DEF Recorded, TypeOK, JobOK, At, Busy, Stage
<1>2. JobOf(q) = JobOf(op[w])
  BY DEF JobOf
<1>3. /\ OnItsWay(q) /\ Stage(q) \in After(Stage(op[w]))
      /\ JobOf(op[w]) = RestoreJob /\ Stage(op[w]) = "writeIndex" => Stage(q) = "write"
      /\ JobOf(op[w]) # TestJob /\ Stage(op[w]) = "unlink" => Stage(q) = "sweep"
  BY <1>1, <1>2, Advances
<1>4. Restoring(q) => Restoring(op[w]) /\ q.id = op[w].id
  BY DEF Restoring
<1>5. (Restoring(op[w]) => JobOf(op[w]) = RestoreJob) /\ (op[w].path # Scratch => JobOf(op[w]) # TestJob)
  BY Kinds
<1> QED BY <1>1, <1>3, <1>4, <1>5

LEMMA TheJob ==
  ASSUME Recorded, NEW w \in Windows, NEW stage, At(w, stage)
  PROVE  /\ op[w] \in Jobs /\ Busy(w) /\ Stage(op[w]) = stage
         /\ op[w].todo \in Seq(AllStages) /\ Tail(op[w].todo) \in Seq(AllStages)
         /\ JobOK(op[w]) /\ TakesOK(op[w], saved, snap) /\ RestoreOK(op[w], saved, witnessed)
<1>1. op[w] \in Jobs /\ Busy(w) /\ Stage(op[w]) = stage
  BY DEF Recorded, TypeOK, At, Busy, Stage
<1>2. op[w].todo \in Seq(AllStages) /\ op[w].todo # <<>>
  BY <1>1 DEF Jobs, Busy
<1>3. Tail(op[w].todo) \in Seq(AllStages)
  BY <1>2, HeadTailProperties
<1> QED BY <1>1, <1>2, <1>3 DEF Recorded

-----------------------------------------------------------------------------
(* One lemma per action.                                                   *)

LEMMA WriteSnapKeeps ==
  ASSUME RestoreIInv, NEW w \in Windows, WriteSnap(w)
  PROVE  RestoreIInv'
<1> DEFINE o == op[w]
           q == [o EXCEPT !.todo = Tail(@)]
<1>0. Recorded /\ At(w, "writeSnap")
  BY DEF RestoreIInv, WriteSnap
<1>1. /\ o \in Jobs /\ Busy(w) /\ Stage(o) = "writeSnap" /\ Tail(o.todo) \in Seq(AllStages)
      /\ JobOK(o) /\ TakesOK(o, saved, snap) /\ RestoreOK(o, saved, witnessed)
  BY <1>0, TheJob
<1>2. /\ op' = [op EXCEPT ![w] = q] /\ snap' = Holding(o.point.id, o.point.content)
      /\ UNCHANGED <<index, file, saved, clock, toast, witnessed, disturbed>>
  BY DEF WriteSnap, Advance, Goes
<1>3. /\ q \in Jobs /\ q.todo = Tail(o.todo) /\ q.path = o.path /\ q.id = o.id /\ q.point = o.point
      /\ q.content = o.content /\ q.idx = o.idx /\ q.want = o.want /\ q.safety = o.safety /\ q.made = o.made
  BY <1>1 DEF Jobs
<1> HIDE DEF o, q
<1>4. OnItsWay(q) /\ Stage(q) = "writeIndex" /\ (Restoring(q) => Restoring(o))
  <2>1. OnItsWay(q) /\ Stage(q) \in After("writeSnap") /\ (Restoring(q) => Restoring(o))
    BY <1>0, <1>3, Forward DEF o
  <2> QED BY <2>1 DEF After
<1>5. /\ o.point.id \in DOMAIN saved /\ saved[o.point.id] = o.point
      /\ o.point.content = o.content /\ o.point \in Point
  BY <1>0, <1>1 DEF TakesOK, Taking, Recorded, TypeOK
<1>6. /\ snap' \in [DOMAIN snap' -> Bytes] /\ DOMAIN snap' = DOMAIN snap \cup {o.point.id}
      /\ snap'[o.point.id] = o.point.content
      /\ \A i \in DOMAIN snap \ {o.point.id} : snap'[i] = snap[i]
  <2>1. o.point.content \in Bytes /\ snap \in [DOMAIN snap -> Bytes]
    BY <1>0, <1>5 DEF Point, Recorded, TypeOK
  <2> QED BY <1>2, <2>1 DEF Holding
<1>7. Steps(w, q)
  BY <1>0, <1>1, <1>2, <1>3, <1>6 DEF Steps, Moves, Recorded, TypeOK, IndexRead, o
<1>8. TakesOK(q, saved, snap')
  BY <1>3, <1>5, <1>6 DEF TakesOK, Known
<1>9. JobOK(q)
  BY <1>1, <1>3, <1>4 DEF JobOK
<1>10. RestoreOK(q, saved, witnessed')
  BY <1>1, <1>2, <1>3, <1>4 DEF RestoreOK, Late, Rotates
<1>11. ASSUME InTurn
       PROVE  (\A p \in IndexRead' : p.id \in DOMAIN snap') /\ TurnOK(q, IndexRead', saved, snap')
  <2>1. TurnOK(o, IndexRead, saved, snap) /\ \A p \in IndexRead : p.id \in DOMAIN snap
    BY <1>11 DEF InTurn, o
  <2>2. IndexRead' = IndexRead
    BY <1>2 DEF IndexRead
  <2> QED BY <1>1, <1>3, <1>4, <1>6, <2>1, <2>2 DEF TurnOK, Taking, Late
<1> QED BY <1>1, <1>3, <1>4, <1>7, <1>8, <1>9, <1>10, <1>11, Step DEF o

LEMMA WriteIndexKeeps ==
  ASSUME RestoreIInv, NEW w \in Windows, WriteIndex(w)
  PROVE  RestoreIInv'
<1> DEFINE o == op[w]
           id == o.point.id
           q == [o EXCEPT !.idx = {}, !.point = None, !.made = @ \cup {id},
                          !.id = IF IsTest(w) /\ @ = 0 THEN id ELSE @,
                          !.safety = IF o.id = 0 THEN 0 ELSE id,
                          !.todo = Tail(@)]
<1>0. Recorded /\ At(w, "writeIndex")
  BY DEF RestoreIInv, WriteIndex
<1>1. /\ o \in Jobs /\ Busy(w) /\ Stage(o) = "writeIndex" /\ Tail(o.todo) \in Seq(AllStages)
      /\ JobOK(o) /\ TakesOK(o, saved, snap) /\ RestoreOK(o, saved, witnessed)
  BY <1>0, TheJob
<1>2. /\ op' = [op EXCEPT ![w] = q] /\ index' = o.idx \cup {o.point}
      /\ UNCHANGED <<snap, file, saved, clock, toast, witnessed, disturbed>>
  BY <1>1 DEF WriteIndex, Advance, Goes, Jobs
<1>3. /\ id \in DOMAIN saved /\ saved[id] = o.point /\ o.point.content = o.content
      /\ o.point \in Point /\ id \in Nat
  <2>1. id \in DOMAIN saved /\ saved[id] = o.point /\ o.point.content = o.content
    BY <1>1 DEF TakesOK, Taking
  <2>2. o.point \in Point
    BY <1>0, <2>1 DEF Recorded, TypeOK
  <2> QED BY <2>1, <2>2 DEF Point
<1>4. /\ q \in Jobs /\ q.todo = Tail(o.todo) /\ q.path = o.path /\ (q.id = o.id \/ q.path = Scratch)
      /\ q.content = o.content /\ q.idx = {} /\ q.want = o.want
      /\ q.safety = IF o.id = 0 THEN 0 ELSE id
  BY <1>1, <1>3 DEF Jobs, IsTest
<1> HIDE DEF o, q
<1>5. /\ OnItsWay(q) /\ Stage(q) \in {"find", "write", "plan"}
      /\ Restoring(q) => Restoring(o) /\ q.id = o.id /\ Stage(q) = "write"
  <2>1. /\ OnItsWay(q) /\ Stage(q) \in After("writeIndex")
        /\ Restoring(q) => Restoring(o) /\ q.id = o.id
        /\ Restoring(q) => Stage(q) = "write"
    BY <1>0, <1>4, Forward DEF o
  <2> QED BY <2>1 DEF After
<1>6. Steps(w, q)
  <2>1. op' = [op EXCEPT ![w] = q] /\ q.idx \subseteq IndexRead \cup op[w].idx
    BY <1>2, <1>4
  <2>2. index' \in SUBSET Point /\ IndexRead' \subseteq o.idx \cup {o.point}
    BY <1>1, <1>2, <1>3 DEF Jobs, IndexRead
  <2> QED BY <1>0, <1>1, <1>2, <2>1, <2>2 DEF Steps, Moves, Recorded, TypeOK, o
<1>7. JobOK(q)
  BY <1>5 DEF JobOK
<1>8. RestoreOK(q, saved, witnessed')
  <2>1. SUFFICES ASSUME Restoring(q) PROVE RestoreOK(q, saved, witnessed')
    BY DEF RestoreOK
  <2>2. q.safety = id /\ Stage(q) = "write" /\ q.id = o.id
    BY <1>4, <1>5, <2>1 DEF Restoring
  <2> QED BY <1>1, <1>3, <1>4, <1>5, <2>1, <2>2 DEF RestoreOK, Late, Rotates
<1>9. ASSUME InTurn
      PROVE  (\A p \in IndexRead' : p.id \in DOMAIN snap') /\ TurnOK(q, IndexRead', saved, snap')
  <2>1. TurnOK(o, IndexRead, saved, snap)
    BY <1>9 DEF InTurn, o
  <2>2. id = Len(saved) /\ id \in DOMAIN snap /\ \A p \in o.idx : p.id \in DOMAIN snap
    BY <1>1, <2>1 DEF TurnOK, Taking
  <2>3. IndexRead' = {} \/ IndexRead' = o.idx \cup {o.point}
    BY <1>2 DEF IndexRead
  <2>4. \A p \in IndexRead' : p.id \in DOMAIN snap'
    BY <1>2, <2>2, <2>3
  <2>5. Restoring(q) => q.safety = id
    BY <1>4, <1>5 DEF Restoring
  <2> QED BY <1>3, <1>5, <2>2, <2>3, <2>4, <2>5 DEF TurnOK, Taking, Late
<1>10. ~Taking(q)
  BY <1>5 DEF Taking
<1> QED BY <1>1, <1>4, <1>6, <1>7, <1>8, <1>9, <1>10, Step DEF o

\* A job that is over, or has only its cleaning up left, relies on nothing.
LEMMA Over ==
  ASSUME NEW q \in Jobs, q.todo = <<>> \/ (q.path = Scratch /\ q.todo = CleanUp)
  PROVE  /\ JobOK(q) /\ ~Taking(q)
         /\ \A taken, entries : RestoreOK(q, taken, entries)
         /\ \A points, taken, snaps : TurnOK(q, points, taken, snaps)
<1>1. OnItsWay(q) /\ Stage(q) \in {"done", "remove"} /\ (q.path # Scratch => Stage(q) = "done")
  <2>1. q.path = Scratch => JobOf(q) = TestJob
    BY Kinds
  <2> QED BY <2>1, CutShort
<1>2. JobOK(q) /\ ~Taking(q)
  BY <1>1 DEF JobOK, Taking
<1>3. \A taken, entries : RestoreOK(q, taken, entries)
  BY <1>1 DEF RestoreOK, Restoring
<1>4. \A points, taken, snaps : TurnOK(q, points, taken, snaps)
  BY <1>1 DEF TurnOK, Taking, Late
<1> QED BY <1>2, <1>3, <1>4

LEMMA IdleIs ==
  ASSUME RestoreAssumption
  PROVE  Idle \in Jobs /\ Idle.todo = <<>> /\ Idle.idx = {}
<1>1. <<>> \in Seq(AllStages)
  OBVIOUS
<1> QED BY <1>1 DEF Idle, Job, Jobs, Paths

\* What a throwing job does to its window.
LEMMA ThrowsKeeps ==
  ASSUME RestoreAssumption, RestoreIInv, NEW w \in Windows, Busy(w), Throws(w),
         index' \in (SUBSET Point) \cup {Damaged}, IndexRead' \subseteq IndexRead,
         snap' \in [DOMAIN snap' -> Bytes], file' \in [Files -> Bytes \cup {None}],
         \A i \in DOMAIN snap' : \/ i \in DOMAIN snap /\ snap'[i] = snap[i]
                                 \/ Stage(op[w]) = "writeSnap" /\ i = op[w].point.id,
         DOMAIN snap \subseteq DOMAIN snap',
         UNCHANGED <<saved, clock, witnessed, disturbed>>
  PROVE  RestoreIInv'
<1> DEFINE o == op[w]
           q == IF IsTest(w) /\ Len(o.todo) > Len(CleanUp) THEN [o EXCEPT !.todo = CleanUp] ELSE Idle
<1>1. o \in Jobs /\ toast \in [Windows -> Nat]
  BY DEF RestoreIInv, Recorded, TypeOK
<1>2. op' = [op EXCEPT ![w] = q] /\ toast' \in [Windows -> Nat]
  BY <1>1 DEF Throws, Goes, Jobs
<1>3. q \in Jobs /\ (q.todo = <<>> \/ (q.path = Scratch /\ q.todo = CleanUp)) /\ q.idx \subseteq o.idx
  BY <1>1, Parts, IdleIs DEF Jobs, IsTest
<1> HIDE DEF o, q
<1>4. Steps(w, q)
  BY <1>2, <1>3 DEF Steps, Moves, o
<1>5. JobOK(q) /\ ~Taking(q) /\ RestoreOK(q, saved, witnessed') /\ TurnOK(q, IndexRead', saved, snap')
  BY <1>3, Over
<1>6. InTurn => \A p \in IndexRead' : p.id \in DOMAIN snap'
  BY DEF InTurn
<1> QED BY <1>3, <1>4, <1>5, <1>6, Step DEF o

\* readIndex leaves the points as they are.
LEMMA Reading ==
  ASSUME Recorded, ReadingIndex
  PROVE  IndexRead' = IndexRead /\ index' \in (SUBSET Point) \cup {Damaged} /\ IndexRead \subseteq Point
BY DEF Recorded, TypeOK, ReadingIndex, IndexRead

LEMMA FindKeeps ==
  ASSUME RestoreAssumption, RestoreIInv, NEW w \in Windows, Find(w)
  PROVE  RestoreIInv'
<1> DEFINE o == op[w]
           q == [o EXCEPT !.want = snap[o.id], !.todo = Tail(@)]
<1>0. Recorded /\ At(w, "find") /\ ReadingIndex
  BY DEF RestoreIInv, Find
<1>1. /\ o \in Jobs /\ Busy(w) /\ Stage(o) = "find" /\ Tail(o.todo) \in Seq(AllStages)
      /\ JobOK(o) /\ RestoreOK(o, saved, witnessed)
  BY <1>0, TheJob
<1>2. IndexRead' = IndexRead /\ index' \in (SUBSET Point) \cup {Damaged}
  BY <1>0, Reading
<1>3. UNCHANGED <<snap, file, saved, clock, witnessed, disturbed>>
  BY DEF Find
<1>4. CASE Readable(o.id)
  <2>1. op' = [op EXCEPT ![w] = q] /\ UNCHANGED toast
    BY <1>1, <1>4 DEF Find, Advance, Goes, Jobs
  <2>2. o.id \in DOMAIN snap /\ snap[o.id] \in Bytes
    BY <1>0, <1>4 DEF Readable, Recorded, TypeOK
  <2>3. /\ q \in Jobs /\ q.todo = Tail(o.todo) /\ q.path = o.path /\ q.id = o.id
        /\ q.idx = o.idx /\ q.want = snap[o.id] /\ q.safety = o.safety
    BY <1>1, <2>2 DEF Jobs
  <2> HIDE DEF o, q
  <2>4. OnItsWay(q) /\ Stage(q) = "look" /\ (Restoring(q) => Restoring(o))
    <3>1. OnItsWay(q) /\ Stage(q) \in After("find") /\ (Restoring(q) => Restoring(o))
      BY <1>0, <2>3, Forward DEF o
    <3> QED BY <3>1 DEF After
  <2>5. Steps(w, q)
    BY <1>0, <1>2, <1>3, <2>1, <2>3 DEF Steps, Moves, Recorded, TypeOK, o
  <2>6. JobOK(q) /\ ~Taking(q)
    BY <2>4 DEF JobOK, Taking
  <2>7. snap[o.id] = saved[o.id].content
    BY <1>0, <1>4 DEF Readable, Recorded, Known
  <2>8. RestoreOK(q, saved, witnessed')
    BY <1>1, <2>3, <2>4, <2>7 DEF RestoreOK, Late, Rotates
  <2>9. ASSUME InTurn
        PROVE  (\A p \in IndexRead' : p.id \in DOMAIN snap') /\ TurnOK(q, IndexRead', saved, snap')
    BY <1>2, <1>3, <2>4, <2>9 DEF InTurn, TurnOK, Taking, Late
  <2> QED BY <1>1, <2>3, <2>5, <2>6, <2>8, <2>9, Step DEF o
<1>5. CASE ~Readable(o.id)
  <2>1. Throws(w)
    BY <1>5 DEF Find
  <2>2. snap' \in [DOMAIN snap' -> Bytes] /\ file' \in [Files -> Bytes \cup {None}]
    BY <1>0, <1>3 DEF Recorded, TypeOK
  <2> QED BY <1>1, <1>2, <1>3, <2>1, <2>2, ThrowsKeeps
<1> QED BY <1>4, <1>5

LEMMA CheckKeeps ==
  ASSUME RestoreAssumption, RestoreIInv, NEW w \in Windows, Check(w)
  PROVE  RestoreIInv'
<1> DEFINE o == op[w]
           q == [o EXCEPT !.todo = Tail(@)]
<1>0. Recorded /\ At(w, "check") /\ ReadingIndex
  BY DEF RestoreIInv, Check
<1>1. /\ o \in Jobs /\ Busy(w) /\ Stage(o) = "check" /\ Tail(o.todo) \in Seq(AllStages) /\ JobOK(o)
  BY <1>0, TheJob
<1>2. IndexRead' = IndexRead /\ index' \in (SUBSET Point) \cup {Damaged}
  BY <1>0, Reading
<1>3. /\ UNCHANGED <<snap, file, saved, clock, witnessed, disturbed>>
      /\ snap' \in [DOMAIN snap' -> Bytes] /\ file' \in [Files -> Bytes \cup {None}]
  BY <1>0 DEF Check, Recorded, TypeOK
<1>4. CASE op' = [op EXCEPT ![w] = q] /\ UNCHANGED toast
  <2>1. /\ q \in Jobs /\ q.todo = Tail(o.todo) /\ q.path = o.path /\ q.id = o.id /\ q.idx = o.idx
    BY <1>1 DEF Jobs
  <2> HIDE DEF o, q
  <2>2. OnItsWay(q) /\ Stage(q) = "remove"
    <3>1. OnItsWay(q) /\ Stage(q) \in After("check")
      BY <1>0, <2>1, Forward DEF o
    <3> QED BY <3>1 DEF After
  <2>3. ~Restoring(o)
    BY <1>1, StagesOf DEF JobOK
  <2>4. Steps(w, q)
    BY <1>0, <1>2, <1>3, <1>4, <2>1 DEF Steps, Moves, Recorded, TypeOK, o
  <2>5. JobOK(q) /\ ~Taking(q) /\ RestoreOK(q, saved, witnessed')
    BY <2>1, <2>2, <2>3 DEF JobOK, Taking, RestoreOK, Restoring
  <2>6. ASSUME InTurn
        PROVE  (\A p \in IndexRead' : p.id \in DOMAIN snap') /\ TurnOK(q, IndexRead', saved, snap')
    BY <1>2, <1>3, <2>2, <2>6 DEF InTurn, TurnOK, Taking, Late
  <2> QED BY <1>1, <2>1, <2>4, <2>5, <2>6, Step DEF o
<1>5. CASE Throws(w)
  BY <1>1, <1>2, <1>3, <1>5, ThrowsKeeps
<1>6. Throws(w) \/ (op' = [op EXCEPT ![w] = q] /\ UNCHANGED toast)
  BY DEF Check, Advance, Goes
<1> QED BY <1>4, <1>5, <1>6

LEMMA LookKeeps ==
  ASSUME RestoreAssumption, RestoreIInv, NEW w \in Windows, Look(w)
  PROVE  RestoreIInv'
<1> DEFINE o == op[w]
           jump == [o EXCEPT !.content = None, !.todo = SubSeq(@, 5, Len(@))]
           next(now) == [o EXCEPT !.content = now, !.todo = Tail(@)]
<1>0. Recorded /\ At(w, "look")
  BY DEF RestoreIInv, Look
<1>1. /\ o \in Jobs /\ Busy(w) /\ Stage(o) = "look" /\ o.todo \in Seq(AllStages) /\ o.todo # <<>>
      /\ Tail(o.todo) \in Seq(AllStages) /\ JobOK(o) /\ RestoreOK(o, saved, witnessed)
  BY <1>0, TheJob DEF Busy
<1>2. PICK now \in IF IsTest(w) THEN Contents \ {o.want} ELSE {file[o.path]} :
        IF now = None THEN Goes(w, jump) ELSE Advance(w, [o EXCEPT !.content = now])
  BY Zenon DEF Look
<1>3. now \in Bytes \cup {None}
  <2>1. o.path \in Paths /\ file \in [Files -> Bytes \cup {None}]
    BY <1>0, <1>1 DEF Recorded, TypeOK, Jobs
  <2> QED BY <1>2, <2>1 DEF IsTest, Paths, Bytes
<1>4. UNCHANGED <<index, snap, file, saved, clock, toast, witnessed, disturbed>> /\ IndexRead' = IndexRead
  BY DEF Look, IndexRead
<1>5. ASSUME NEW q \in Jobs, op' = [op EXCEPT ![w] = q], q.idx = o.idx, q.path = o.path, q.id = o.id,
             q.want = o.want, q.safety = o.safety, OnItsWay(q),
             \/ Stage(q) = "write" /\ q.content = None
             \/ Stage(q) = "readForSave" /\ q.content # None
      PROVE  RestoreIInv'
  <2>1. Steps(w, q)
    BY <1>0, <1>4, <1>5 DEF Steps, Moves, Recorded, TypeOK
  <2>2. JobOK(q) /\ ~Taking(q)
    BY <1>5 DEF JobOK, Taking
  <2>3. Restoring(q) => Restoring(o)
    BY <1>5 DEF Restoring
  <2>4. RestoreOK(q, saved, witnessed')
    BY <1>1, <1>5, <2>3 DEF RestoreOK, Late, Rotates
  <2>5. ASSUME InTurn
        PROVE  (\A p \in IndexRead' : p.id \in DOMAIN snap') /\ TurnOK(q, IndexRead', saved, snap')
    BY <1>4, <1>5, <2>5 DEF InTurn, TurnOK, Taking, Late
  <2> QED BY <1>1, <1>5, <2>1, <2>2, <2>4, <2>5, Step
<1>6. CASE now = None
  <2>1. op' = [op EXCEPT ![w] = jump]
    BY <1>2, <1>6 DEF Goes
  <2>2. SubSeq(o.todo, 5, Len(o.todo)) \in Seq(AllStages)
    <3>1. \A i \in 5..Len(o.todo) : o.todo[i] \in AllStages
      BY <1>1, ElementOfSeq
    <3> QED BY <1>1, <3>1, SubSeqProperties
  <2>3. /\ jump \in Jobs /\ jump.todo = SubSeq(o.todo, 5, Len(o.todo)) /\ jump.path = o.path /\ jump.id = o.id
        /\ jump.idx = o.idx /\ jump.want = o.want /\ jump.safety = o.safety /\ jump.content = None
    BY <1>1, <2>2 DEF Jobs
  <2> HIDE DEF o, jump
  <2>4. OnItsWay(jump) /\ Stage(jump) = "write"
    <3>1. JobOf(jump) = JobOf(o)
      BY <2>3 DEF JobOf
    <3> QED BY <1>1, <2>3, <3>1, Jumps DEF JobOK
  <2> QED BY <1>5, <2>1, <2>3, <2>4
<1>7. CASE now # None
  <2> DEFINE q == next(now)
  <2>1. op' = [op EXCEPT ![w] = q]
    BY <1>1, <1>2, <1>7 DEF Advance, Goes, Jobs
  <2>2. /\ q \in Jobs /\ q.todo = Tail(o.todo) /\ q.path = o.path /\ q.id = o.id
        /\ q.idx = o.idx /\ q.want = o.want /\ q.safety = o.safety /\ q.content = now
    BY <1>1, <1>3 DEF Jobs
  <2> HIDE DEF o, q, next
  <2>3. OnItsWay(q) /\ Stage(q) = "readForSave"
    <3>1. OnItsWay(q) /\ Stage(q) \in After("look")
      BY <1>0, <2>2, Forward DEF o
    <3> QED BY <3>1 DEF After
  <2> QED BY <1>5, <1>7, <2>1, <2>2, <2>3
<1> QED BY <1>6, <1>7

\* The stages of a restore that only move on.
LEMMA MovesOn ==
  ASSUME RestoreIInv, NEW w \in Windows, NEW stage \in {"write", "witness"}, At(w, stage),
         op' = [op EXCEPT ![w] = [op[w] EXCEPT !.todo = Tail(@)]],
         file' \in [Files -> Bytes \cup {None}], witnessed \subseteq witnessed',
         stage = "witness" => [id |-> op[w].id, before |-> op[w].content,
                               safety |-> op[w].safety] \in witnessed',
         UNCHANGED <<index, snap, saved, clock, toast, disturbed>>
  PROVE  RestoreIInv'
<1> DEFINE o == op[w]
           q == [o EXCEPT !.todo = Tail(@)]
<1>0. Recorded
  BY DEF RestoreIInv
<1>1. /\ o \in Jobs /\ Busy(w) /\ Stage(o) = stage /\ Tail(o.todo) \in Seq(AllStages)
      /\ JobOK(o) /\ RestoreOK(o, saved, witnessed)
  BY <1>0, TheJob
<1>2. /\ q \in Jobs /\ q.todo = Tail(o.todo) /\ q.path = o.path /\ q.id = o.id /\ q.idx = o.idx
      /\ q.content = o.content /\ q.want = o.want /\ q.safety = o.safety
  BY <1>1 DEF Jobs
<1>3. op' = [op EXCEPT ![w] = q] /\ IndexRead' = IndexRead
  BY DEF IndexRead
<1> HIDE DEF o, q
<1>4. /\ OnItsWay(q) /\ Stage(q) \in {"witness", "check", "plan"} /\ (Restoring(q) => Restoring(o))
      /\ stage = "write" => Stage(q) # "plan"
  <2>1. OnItsWay(q) /\ Stage(q) \in After(stage) /\ (Restoring(q) => Restoring(o))
    BY <1>0, <1>2, Forward DEF o
  <2> QED BY <2>1 DEF After
<1>5. Restoring(q) => Stage(q) \in Late
  BY <1>2, <1>4, StagesOf DEF Late
<1>6. Steps(w, q)
  BY <1>0, <1>2, <1>3 DEF Steps, Moves, Recorded, TypeOK, o
<1>7. JobOK(q) /\ ~Taking(q)
  BY <1>4 DEF JobOK, Taking
<1>8. RestoreOK(q, saved, witnessed')
  BY <1>1, <1>2, <1>4, <1>5 DEF RestoreOK, Late, Rotates, o
<1>9. ASSUME InTurn
      PROVE  (\A p \in IndexRead' : p.id \in DOMAIN snap') /\ TurnOK(q, IndexRead', saved, snap')
  <2>1. TurnOK(o, IndexRead, saved, snap) /\ \A p \in IndexRead : p.id \in DOMAIN snap
    BY <1>9 DEF InTurn, o
  <2>2. Stage(o) \in Late
    BY <1>1 DEF Late
  <2> QED BY <1>2, <1>3, <1>4, <2>1, <2>2 DEF TurnOK, Taking
<1> QED BY <1>1, <1>2, <1>6, <1>7, <1>8, <1>9, Step DEF o

LEMMA WriteKeeps ==
  ASSUME RestoreAssumption, RestoreIInv, NEW w \in Windows, Write(w)
  PROVE  RestoreIInv'
<1>1. op[w] \in Jobs /\ file \in [Files -> Bytes \cup {None}]
  BY DEF RestoreIInv, Recorded, TypeOK
<1>2. file' \in [Files -> Bytes \cup {None}]
  BY <1>1 DEF Write, Jobs
<1> QED BY <1>2, MovesOn DEF Write, Advance, Goes

LEMMA WitnessKeeps ==
  ASSUME RestoreIInv, NEW w \in Windows, Witness(w)
  PROVE  RestoreIInv'
<1>1. file' \in [Files -> Bytes \cup {None}]
  BY DEF RestoreIInv, Recorded, TypeOK, Witness
<1> QED BY <1>1, MovesOn DEF Witness, Advance, Goes

\* Two restore points of the same tick: the clock, halved.
LEMMA Ticks ==
  ASSUME NEW c \in Nat
  PROVE  c \div 2 \in Nat /\ c \div 2 <= (c + 1) \div 2
OBVIOUS

\* A point is given its number.
LEMMA ReadForSaveKeeps ==
  ASSUME RestoreAssumption, RestoreIInv, NEW w \in Windows, ReadForSave(w)
  PROVE  RestoreIInv'
<1> DEFINE o == op[w]
           n == Len(saved) + 1
           p == [id |-> n, path |-> o.path, ts |-> clock \div 2, content |-> o.content]
           q == [o EXCEPT !.idx = IndexRead, !.point = p, !.todo = Tail(@)]
<1>0. Recorded /\ At(w, "readForSave") /\ ReadingIndex
  BY DEF RestoreIInv, ReadForSave
<1>1. /\ o \in Jobs /\ Busy(w) /\ Stage(o) = "readForSave" /\ Tail(o.todo) \in Seq(AllStages)
      /\ JobOK(o) /\ RestoreOK(o, saved, witnessed)
  BY <1>0, TheJob
<1>2. /\ op' = [op EXCEPT ![w] = q] /\ saved' = Append(saved, p) /\ clock' = clock + 1
      /\ UNCHANGED <<snap, file, toast, witnessed, disturbed>>
  BY <1>1 DEF ReadForSave, Advance, Goes, Jobs
<1>3. IndexRead' = IndexRead /\ index' \in (SUBSET Point) \cup {Damaged} /\ IndexRead \subseteq Point
  BY <1>0, Reading
<1>4. clock \in Nat /\ clock \div 2 \in Nat /\ clock \div 2 <= clock' \div 2 /\ clock' \in Nat
  BY <1>0, <1>2, Ticks DEF Recorded, TypeOK
<1>5. saved \in Seq(Point) /\ Len(saved) \in Nat /\ n \in Nat
  BY <1>0, LenProperties DEF Recorded, TypeOK
<1>6. /\ p \in Point /\ p.id = n /\ p.content = o.content /\ p.ts = clock \div 2
  BY <1>1, <1>4, <1>5 DEF Jobs, Point, JobOK
<1>7. /\ q \in Jobs /\ q.todo = Tail(o.todo) /\ q.path = o.path /\ q.id = o.id /\ q.idx = IndexRead
      /\ q.point = p /\ q.content = o.content /\ q.want = o.want /\ q.safety = o.safety
  BY <1>1, <1>3, <1>6 DEF Jobs
<1> HIDE DEF p
<1>8. /\ saved' \in Seq(Point) /\ Len(saved') = n
      /\ \A i \in 1..Len(saved) : saved'[i] = saved[i]
      /\ saved'[n] = p
  BY <1>2, <1>5, <1>6, AppendProperties
<1> HIDE DEF o, q
<1>9. /\ DOMAIN saved = 1..Len(saved) /\ DOMAIN saved' = DOMAIN saved \cup {n} /\ n \notin DOMAIN saved
      /\ \A i \in DOMAIN saved : saved'[i] = saved[i]
  <2>1. DOMAIN saved = 1..Len(saved) /\ DOMAIN saved' = 1..Len(saved')
    BY <1>5, <1>8, LenProperties
  <2> QED BY <1>5, <1>8, <2>1
<1> HIDE DEF n
<1>10. \A x : Known(x, saved, snap) => Known(x, saved', snap')
  BY <1>2, <1>9 DEF Known
<1>11. op'[w] = q /\ \A v \in Windows \ {w} : op'[v] = op[v]
  BY <1>0, <1>2 DEF Recorded, TypeOK
<1>12. OnItsWay(q) /\ Stage(q) = "writeSnap" /\ (Restoring(q) => Restoring(o))
  <2>1. OnItsWay(q) /\ Stage(q) \in After("readForSave") /\ (Restoring(q) => Restoring(o))
    BY <1>0, <1>7, Forward DEF o
  <2> QED BY <2>1 DEF After
<1>13. TypeOK'
  <2>1. op' \in [Windows -> Jobs]
    BY <1>0, <1>2, <1>7 DEF Recorded, TypeOK
  <2> QED BY <1>0, <1>2, <1>3, <1>4, <1>8, <2>1 DEF Recorded, TypeOK
<1>14. /\ \A i \in DOMAIN saved' : saved'[i].id = i
       /\ \A x \in IndexRead' : Known(x, saved', snap')
  BY <1>0, <1>3, <1>6, <1>8, <1>9, <1>10 DEF Recorded
<1>15. ASSUME NEW v \in Windows
       PROVE  /\ \A x \in op'[v].idx : Known(x, saved', snap')
              /\ JobOK(op'[v]) /\ TakesOK(op'[v], saved', snap') /\ RestoreOK(op'[v], saved', witnessed')
  <2>1. CASE v = w
    <3>1. \A x \in q.idx : Known(x, saved', snap')
      BY <1>0, <1>7, <1>10 DEF Recorded
    <3>2. JobOK(q)
      BY <1>1, <1>7, <1>12 DEF JobOK
    <3>3. TakesOK(q, saved', snap')
      BY <1>6, <1>7, <1>8, <1>9, <1>12 DEF TakesOK
    <3>4. RestoreOK(q, saved', witnessed')
      BY <1>1, <1>2, <1>7, <1>9, <1>12 DEF RestoreOK, Late, Rotates
    <3> QED BY <1>11, <2>1, <3>1, <3>2, <3>3, <3>4
  <2>2. CASE v # w
    <3>1. /\ \A x \in op[v].idx : Known(x, saved, snap)
          /\ JobOK(op[v]) /\ TakesOK(op[v], saved, snap) /\ RestoreOK(op[v], saved, witnessed)
      BY <1>0 DEF Recorded
    <3>2. TakesOK(op[v], saved', snap')
      BY <1>9, <1>10, <3>1 DEF TakesOK
    <3>3. RestoreOK(op[v], saved', witnessed')
      BY <1>2, <1>9, <3>1 DEF RestoreOK
    <3> QED BY <1>10, <1>11, <2>2, <3>1, <3>2, <3>3
  <2> QED BY <2>1, <2>2
<1>16. ASSUME NEW v \in Windows, Stage(op'[v]) = "writeSnap"
       PROVE  /\ \A x \in IndexRead' : x.id # op'[v].point.id
              /\ \A u \in Windows : \A x \in op'[u].idx : x.id # op'[v].point.id
              /\ \A u \in Windows \ {v} : Taking(op'[u]) => op'[u].point.id # op'[v].point.id
  <2>1. /\ \A x \in IndexRead : x.id \in DOMAIN saved
        /\ \A u \in Windows : \A x \in op[u].idx : x.id \in DOMAIN saved
        /\ \A u \in Windows : Taking(op[u]) => op[u].point.id \in DOMAIN saved
    BY <1>0 DEF Recorded, Known, TakesOK
  <2>2. CASE v = w
    <3>1. op'[v].point.id = n
      BY <1>6, <1>7, <1>11, <2>2
    <3> QED BY <1>3, <1>7, <1>9, <1>11, <2>1, <2>2, <3>1
  <2>3. CASE v # w
    <3>1. op'[v] = op[v] /\ Taking(op[v]) /\ op[v].point.id # n
      BY <1>9, <1>11, <1>16, <2>1, <2>3 DEF Taking
    <3>2. /\ \A x \in IndexRead : x.id # op[v].point.id
          /\ \A u \in Windows : \A x \in op[u].idx : x.id # op[v].point.id
          /\ \A u \in Windows \ {v} : Taking(op[u]) => op[u].point.id # op[v].point.id
      BY <1>0, <1>16, <3>1 DEF Recorded, Fresh
    <3> QED BY <1>3, <1>6, <1>7, <1>11, <3>1, <3>2
  <2> QED BY <2>2, <2>3
<1>17. Recorded'
  BY <1>13, <1>14, <1>15, <1>16 DEF Recorded, Fresh
<1>18. ASSUME InTurn PROVE InTurn'
  <2>1. \A v \in Windows \ {w} : op[v].todo = <<>>
    BY <1>1, <1>18 DEF InTurn, Busy
  <2>2. \A v, u \in Windows : op'[v].todo # <<>> /\ op'[u].todo # <<>> => v = u
    BY <1>11, <2>1
  <2>3. ASSUME NEW v \in Windows PROVE TurnOK(op'[v], IndexRead', saved', snap')
    <3>1. CASE v = w
      BY <1>2, <1>3, <1>6, <1>7, <1>8, <1>11, <1>12, <1>18, <3>1 DEF TurnOK, InTurn, Taking, Late
    <3>2. CASE v # w
      <4>1. Stage(op'[v]) = "done"
        BY <1>11, <2>1, <3>2 DEF Stage
      <4> QED BY <4>1 DEF TurnOK, Taking, Late
    <3> QED BY <3>1, <3>2
  <2>4. \A i \in DOMAIN saved : saved[i].ts <= clock \div 2 /\ saved[i].ts \in Nat
    <3>1. \A i \in DOMAIN saved : saved[i] \in Point
      BY <1>5, <1>9
    <3> QED BY <1>18, <3>1 DEF InTurn, Point
  <2>5. \A i \in DOMAIN saved' : saved'[i].ts <= clock' \div 2
    <3>1. clock' \div 2 \in Nat
      BY <1>4, Ticks
    <3>2. \A i \in DOMAIN saved : saved[i].ts <= clock' \div 2
      <4>1. \A a, b, c \in Nat : a <= b /\ b <= c => a <= c
        OBVIOUS
      <4> QED BY <1>4, <2>4, <3>1, <4>1
    <3>3. p.ts <= clock' \div 2
      BY <1>4, <1>6
    <3> QED BY <1>8, <1>9, <3>2, <3>3
  <2>6. \A i, j \in DOMAIN saved' : i <= j => saved'[i].ts <= saved'[j].ts
    <3>1. SUFFICES ASSUME NEW i \in DOMAIN saved', NEW j \in DOMAIN saved', i <= j
                   PROVE  saved'[i].ts <= saved'[j].ts
      OBVIOUS
    <3>2. CASE j \in DOMAIN saved
      <4>1. i \in DOMAIN saved
        BY <1>5, <1>9, <3>1, <3>2 DEF n
      <4> QED BY <1>9, <1>18, <3>1, <3>2, <4>1 DEF InTurn
    <3>3. CASE j = n
      <4>1. saved'[j].ts = clock \div 2
        BY <1>6, <1>8, <3>3
      <4>2. CASE i \in DOMAIN saved
        BY <1>9, <2>4, <4>1, <4>2
      <4>3. CASE i = n
        BY <1>4, <3>3, <4>1, <4>3
      <4> QED BY <1>9, <4>2, <4>3
    <3> QED BY <1>9, <3>2, <3>3
  <2>7. \A x \in IndexRead' : x.id \in DOMAIN snap'
    BY <1>2, <1>3, <1>18 DEF InTurn
  <2> QED BY <2>2, <2>3, <2>5, <2>6, <2>7 DEF InTurn, Busy
<1> QED BY <1>2, <1>17, <1>18 DEF RestoreIInv

\* The rotation keeps the newest point, however large it is (planRotation).
LEMMA NewestStays ==
  ASSUME RestoreAssumption, NEW points, NEW p \in points, \A q \in points : ~Newer(q, p)
  PROVE  p \in Kept(points)
<1>1. {q \in points : q.path = p.path /\ Newer(q, p)} = {}
  OBVIOUS
<1>2. Cardinality({}) = 0
  BY FS_EmptySet
<1>3. p \in WithinFileCap(points)
  BY <1>1, <1>2 DEF WithinFileCap, RestoreAssumption
<1>4. \A q \in WithinFileCap(points) : ~Newer(q, p)
  BY DEF WithinFileCap
<1> QED BY <1>3, <1>4 DEF Kept

LEMMA KeptOnly == ASSUME NEW points PROVE Kept(points) \subseteq points
  BY DEF Kept, WithinFileCap

\* The point that was taken last is the newest.
LEMMA LastIsNewest ==
  ASSUME Recorded, InTurn, NEW p \in IndexRead, p.id = Len(saved)
  PROVE  \A q \in IndexRead : ~Newer(q, p)
<1> SUFFICES ASSUME NEW q \in IndexRead PROVE ~Newer(q, p)
  OBVIOUS
<1>1. saved \in Seq(Point) /\ Len(saved) \in Nat /\ DOMAIN saved = 1..Len(saved)
  BY LenProperties DEF Recorded, TypeOK
<1>2. q.id \in DOMAIN saved /\ saved[q.id] = q /\ p.id \in DOMAIN saved /\ saved[p.id] = p
  BY DEF Recorded, Known
<1>3. q.id \in Nat /\ p.id \in Nat /\ q.id <= p.id
  BY <1>1, <1>2
<1>4. q.ts <= p.ts
  BY <1>2, <1>3 DEF InTurn
<1>5. q \in Point /\ p \in Point
  BY <1>1, <1>2
<1>6. q.ts \in Nat /\ p.ts \in Nat
  BY <1>5 DEF Point
<1> QED BY <1>3, <1>4, <1>6 DEF Newer

LEMMA PlanKeeps ==
  ASSUME RestoreAssumption, RestoreIInv, NEW w \in Windows, Plan(w)
  PROVE  RestoreIInv'
<1> DEFINE o == op[w]
           plans == At(w, "plan")
           keep == IF plans THEN Kept(IndexRead) ELSE {p \in IndexRead : p.id \notin o.made}
           gone == {p \in IndexRead : p \notin keep}
           made == IF plans THEN {p.id : p \in gone} ELSE o.made
           todo == IF made # {} THEN Tail(o.todo) ELSE IF IsTest(w) THEN <<>> ELSE <<"sweep">>
           q == [o EXCEPT !.idx = keep, !.made = made, !.todo = todo]
<1> DEFINE stage == IF plans THEN "plan" ELSE "remove"
<1>0. Recorded /\ At(w, stage) /\ ReadingIndex
  BY DEF RestoreIInv, Plan
<1>1. /\ o \in Jobs /\ Busy(w) /\ Stage(o) = stage /\ Tail(o.todo) \in Seq(AllStages)
      /\ JobOK(o) /\ RestoreOK(o, saved, witnessed)
  BY <1>0, TheJob
<1>2. /\ IndexRead' = IndexRead /\ index' \in (SUBSET Point) \cup {Damaged} /\ IndexRead \subseteq Point
      /\ UNCHANGED <<snap, file, saved, clock, toast, witnessed, disturbed>>
  BY <1>0, Reading DEF Plan
<1>3. op' = [op EXCEPT ![w] = q]
  BY Zenon DEF Plan, Goes
<1>4. keep \subseteq IndexRead /\ gone = IndexRead \ keep /\ made \in SUBSET Nat
  BY <1>1, <1>2, KeptOnly DEF Jobs, Point
<1>5. todo \in Seq(AllStages)
  <2>1. <<"sweep">> \in Seq(AllStages) /\ <<>> \in Seq(AllStages)
    BY DEF AllStages
  <2> HIDE DEF made
  <2> QED BY <1>1, <2>1
<1>6. /\ q \in Jobs /\ q.todo = todo /\ q.path = o.path /\ q.id = o.id /\ q.idx = keep /\ q.made = made
      /\ q.content = o.content /\ q.want = o.want /\ q.safety = o.safety
  <2> HIDE DEF keep, made, todo
  <2> QED BY <1>1, <1>2, <1>4, <1>5 DEF Jobs
<1>7. (plans <=> ~IsTest(w)) /\ (IsTest(w) <=> o.path = Scratch) /\ (~IsTest(w) => JobOf(q) # TestJob)
  <2>1. o.path = Scratch => Stage(o) # "plan"
    BY <1>1, StagesOf DEF JobOK
  <2>2. o.path # Scratch => Stage(o) # "remove"
    BY <1>1, StagesOf DEF JobOK, Restoring, Jobs
  <2> HIDE DEF q
  <2> QED BY <1>1, <1>6, <2>1, <2>2, Kinds DEF IsTest
<1>8. /\ OnItsWay(q)
      /\ made # {} => Stage(q) = "trim"
      /\ made = {} => Stage(q) = IF IsTest(w) THEN "done" ELSE "sweep"
  <2> HIDE DEF o, q, keep, made
  <2>1. CASE made # {}
    <3>1. OnItsWay(q) /\ Stage(q) \in After(stage)
      BY <1>0, <1>6, <2>1, Forward DEF o
    <3> QED BY <2>1, <3>1 DEF After
  <2>2. CASE made = {}
    BY <1>6, <1>7, <2>2, CutShort
  <2> QED BY <2>1, <2>2
<1>9. \A p \in keep : p.id \notin made
  <2>1. CASE plans
    <3>1. SUFFICES ASSUME NEW p \in keep, NEW g \in gone, g.id = p.id PROVE FALSE
      BY <2>1
    <3>2. p = g
      BY <1>0, <1>4, <3>1 DEF Recorded, Known
    <3> QED BY <1>4, <3>1, <3>2
  <2>2. CASE ~plans
    BY <2>2
  <2> QED BY <2>1, <2>2
<1>10. plans /\ made = {} => IndexRead \subseteq keep
  <2> HIDE DEF keep
  <2> QED OBVIOUS
<1>11. ASSUME InTurn, plans, NEW p \in IndexRead, p.id = Len(saved) PROVE p \in keep
  BY <1>0, <1>11, LastIsNewest, NewestStays
<1> HIDE DEF o, q, keep, gone, made, todo, stage
<1>12. Steps(w, q)
  BY <1>0, <1>2, <1>3, <1>4, <1>6 DEF Steps, Moves, Recorded, TypeOK
<1>13. JobOK(q) /\ ~Taking(q)
  BY <1>8 DEF JobOK, Taking
<1>14. RestoreOK(q, saved, witnessed')
  <2>1. SUFFICES ASSUME Restoring(q) PROVE RestoreOK(q, saved, witnessed')
    BY DEF RestoreOK
  <2>2. Restoring(o) /\ Stage(o) = "plan"
    BY <1>1, <1>6, <1>7, <2>1 DEF Restoring, stage
  <2>3. Stage(q) \in {"trim", "sweep"}
    BY <1>6, <1>7, <1>8, <2>1 DEF Restoring
  <2> QED BY <1>1, <1>2, <1>6, <2>2, <2>3 DEF RestoreOK, Late, Rotates
<1>15. ASSUME InTurn
       PROVE  (\A p \in IndexRead' : p.id \in DOMAIN snap') /\ TurnOK(q, IndexRead', saved, snap')
  <2>1. TurnOK(o, IndexRead, saved, snap) /\ \A p \in IndexRead : p.id \in DOMAIN snap
    BY <1>15 DEF InTurn, o
  <2>2. Stage(q) \in {"sweep", "unlink"} => plans /\ made = {}
    BY <1>7, <1>8
  <2>3. ASSUME Restoring(q), q.content # None, Stage(q) \in Late
        PROVE  /\ q.safety = Len(saved)
               /\ saved[q.safety] \in IndexRead \/ IndexRead = {}
               /\ saved[q.safety] \in keep \/ keep = {}
    <3>1. Restoring(o) /\ Stage(o) = "plan" /\ plans
      BY <1>1, <1>6, <1>7, <2>3 DEF Restoring, stage
    <3>2. q.safety = Len(saved) /\ (saved[q.safety] \in IndexRead \/ IndexRead = {})
      BY <1>6, <2>1, <2>3, <3>1 DEF TurnOK, Late
    <3>3. saved[q.safety] \in IndexRead => saved[q.safety].id = Len(saved)
      <4>1. saved[q.safety] \in IndexRead /\ q.safety \in DOMAIN saved => saved[q.safety].id = q.safety
        BY <1>0 DEF Recorded
      <4>2. q.safety \in DOMAIN saved
        BY <1>1, <1>6, <2>3, <3>1 DEF RestoreOK, Late
      <4> QED BY <3>2, <4>1, <4>2
    <3> QED BY <1>4, <1>11, <1>15, <3>1, <3>2, <3>3
  <2> QED BY <1>2, <1>4, <1>6, <1>8, <1>9, <1>10, <2>1, <2>2, <2>3 DEF TurnOK, Taking
<1> QED BY <1>1, <1>6, <1>12, <1>13, <1>14, <1>15, Step

LEMMA TrimKeeps ==
  ASSUME RestoreIInv, NEW w \in Windows, Trim(w)
  PROVE  RestoreIInv'
<1> DEFINE o == op[w]
           q == [o EXCEPT !.todo = Tail(@)]
<1>0. Recorded /\ At(w, "trim")
  BY DEF RestoreIInv, Trim
<1>1. /\ o \in Jobs /\ Busy(w) /\ Stage(o) = "trim" /\ Tail(o.todo) \in Seq(AllStages)
      /\ JobOK(o) /\ RestoreOK(o, saved, witnessed)
  BY <1>0, TheJob
<1>2. /\ op' = [op EXCEPT ![w] = q] /\ index' = o.idx
      /\ UNCHANGED <<snap, file, saved, clock, toast, witnessed, disturbed>>
  BY DEF Trim, Advance, Goes
<1>3. /\ q \in Jobs /\ q.todo = Tail(o.todo) /\ q.path = o.path /\ q.id = o.id /\ q.idx = o.idx
      /\ q.content = o.content /\ q.want = o.want /\ q.safety = o.safety /\ q.made = o.made
  BY <1>1 DEF Jobs
<1> HIDE DEF o, q
<1>4. OnItsWay(q) /\ Stage(q) = "unlink" /\ (Restoring(q) => Restoring(o))
  <2>1. OnItsWay(q) /\ Stage(q) \in After("trim") /\ (Restoring(q) => Restoring(o))
    BY <1>0, <1>3, Forward DEF o
  <2> QED BY <2>1 DEF After
<1>5. index' \in SUBSET Point /\ (IndexRead' = o.idx \/ IndexRead' = {})
  BY <1>1, <1>2 DEF Jobs, IndexRead
<1>6. Steps(w, q)
  BY <1>0, <1>2, <1>3, <1>5 DEF Steps, Moves, Recorded, TypeOK, o
<1>7. JobOK(q) /\ ~Taking(q)
  BY <1>4 DEF JobOK, Taking
<1>8. RestoreOK(q, saved, witnessed')
  BY <1>1, <1>2, <1>3, <1>4 DEF RestoreOK, Late, Rotates
<1>9. ASSUME InTurn
      PROVE  (\A p \in IndexRead' : p.id \in DOMAIN snap') /\ TurnOK(q, IndexRead', saved, snap')
  <2>1. TurnOK(o, IndexRead, saved, snap)
    BY <1>9 DEF InTurn, o
  <2>2. \A p \in o.idx : p.id \in DOMAIN snap /\ p.id \notin o.made
    BY <1>1, <2>1 DEF TurnOK
  <2>3. Restoring(q) /\ q.content # None =>
          q.safety = Len(saved) /\ (saved[q.safety] \in o.idx \/ o.idx = {})
    BY <1>1, <1>3, <1>4, <2>1 DEF TurnOK, Late
  <2> QED BY <1>2, <1>3, <1>4, <1>5, <2>2, <2>3 DEF TurnOK, Taking
<1> QED BY <1>1, <1>3, <1>6, <1>7, <1>8, <1>9, Step DEF o

LEMMA UnlinkKeeps ==
  ASSUME RestoreAssumption, RestoreIInv, NEW w \in Windows, Unlink(w)
  PROVE  RestoreIInv'
<1> DEFINE o == op[w]
           q == IF IsTest(w) THEN Idle ELSE [o EXCEPT !.todo = Tail(@)]
<1>0. Recorded /\ At(w, "unlink")
  BY DEF RestoreIInv, Unlink
<1>1. /\ o \in Jobs /\ Busy(w) /\ Stage(o) = "unlink" /\ Tail(o.todo) \in Seq(AllStages)
      /\ JobOK(o) /\ RestoreOK(o, saved, witnessed)
  BY <1>0, TheJob
<1>2. /\ op' = [op EXCEPT ![w] = q]
      /\ UNCHANGED <<index, file, saved, clock, toast, witnessed, disturbed>> /\ IndexRead' = IndexRead
  BY DEF Unlink, Goes, IndexRead
<1>3. PICK left : snap' = Without(o.made \ left)
  BY DEF Unlink
<1>4. /\ snap' \in [DOMAIN snap' -> Bytes] /\ DOMAIN snap' = DOMAIN snap \ (o.made \ left)
      /\ \A i \in DOMAIN snap' : snap'[i] = snap[i]
  <2>1. snap \in [DOMAIN snap -> Bytes]
    BY <1>0 DEF Recorded, TypeOK
  <2> QED BY <1>3, <2>1 DEF Without
<1>5. InTurn => TurnOK(o, IndexRead, saved, snap) /\ \A p \in IndexRead' : p.id \in DOMAIN snap'
  <2>1. SUFFICES ASSUME InTurn PROVE TurnOK(o, IndexRead, saved, snap) /\ \A p \in IndexRead' : p.id \in DOMAIN snap'
    OBVIOUS
  <2>2. TurnOK(o, IndexRead, saved, snap) /\ \A p \in IndexRead : p.id \in DOMAIN snap
    BY <2>1 DEF InTurn
  <2>3. \A p \in IndexRead : p.id \notin o.made
    BY <1>1, <2>2 DEF TurnOK
  <2> QED BY <1>2, <1>4, <2>2, <2>3
<1>6. CASE IsTest(w)
  <2>1. q = Idle
    BY <1>6
  <2> HIDE DEF q
  <2>2. q \in Jobs /\ q.todo = <<>> /\ q.idx = {}
    BY <2>1, IdleIs
  <2>3. Steps(w, q)
    BY <1>0, <1>2, <1>4, <2>2 DEF Steps, Moves, Recorded, TypeOK
  <2>4. JobOK(q) /\ ~Taking(q) /\ RestoreOK(q, saved, witnessed') /\ TurnOK(q, IndexRead', saved, snap')
    BY <2>2, Over
  <2> QED BY <1>1, <1>5, <2>2, <2>3, <2>4, Step
<1>7. CASE ~IsTest(w)
  <2>1. q = [o EXCEPT !.todo = Tail(@)]
    BY <1>7
  <2>2. /\ q \in Jobs /\ q.todo = Tail(o.todo) /\ q.path = o.path /\ q.id = o.id /\ q.idx = o.idx
        /\ q.content = o.content /\ q.want = o.want /\ q.safety = o.safety
    BY <1>1, <1>7 DEF Jobs
  <2> HIDE DEF o, q
  <2>3. OnItsWay(q) /\ Stage(q) = "sweep" /\ (Restoring(q) => Restoring(o))
    BY <1>0, <1>7, <2>2, Forward DEF o, IsTest
  <2>4. Steps(w, q)
    BY <1>0, <1>2, <1>4, <2>2 DEF Steps, Moves, Recorded, TypeOK, o
  <2>5. JobOK(q) /\ ~Taking(q)
    BY <2>3 DEF JobOK, Taking
  <2>6. RestoreOK(q, saved, witnessed')
    BY <1>1, <1>2, <2>2, <2>3 DEF RestoreOK, Late, Rotates
  <2>7. InTurn => TurnOK(q, IndexRead', saved, snap')
    <3>1. SUFFICES ASSUME InTurn PROVE TurnOK(q, IndexRead', saved, snap')
      OBVIOUS
    <3>2. TurnOK(o, IndexRead, saved, snap)
      BY <1>5, <3>1
    <3> QED BY <1>1, <1>2, <2>2, <2>3, <3>2 DEF TurnOK, Taking, Late
  <2> QED BY <1>1, <1>5, <2>2, <2>4, <2>5, <2>6, <2>7, Step DEF o
<1> QED BY <1>6, <1>7

LEMMA SweepKeeps ==
  ASSUME RestoreAssumption, RestoreIInv, NEW w \in Windows, Sweep(w)
  PROVE  RestoreIInv'
<1> DEFINE o == op[w]
<1>0. Recorded /\ At(w, "sweep")
  BY DEF RestoreIInv, Sweep
<1>1. o \in Jobs /\ Busy(w) /\ Stage(o) = "sweep"
  BY <1>0, TheJob
<1>2. /\ op' = [op EXCEPT ![w] = Idle] /\ toast' \in {toast, [toast EXCEPT ![w] = o.safety]}
      /\ UNCHANGED <<index, file, saved, clock, witnessed, disturbed>> /\ IndexRead' = IndexRead
  BY DEF Sweep, Goes, IndexRead
<1>3. PICK young \in 1..Len(saved) + 1 : snap' = Without({i \in 1..young - 1 : \A p \in o.idx : p.id # i})
  BY DEF Sweep
<1>4. /\ snap' \in [DOMAIN snap' -> Bytes]
      /\ \A i \in DOMAIN snap' : i \in DOMAIN snap /\ snap'[i] = snap[i]
      /\ \A p \in o.idx : p.id \in DOMAIN snap => p.id \in DOMAIN snap'
  <2>1. snap \in [DOMAIN snap -> Bytes]
    BY <1>0 DEF Recorded, TypeOK
  <2> QED BY <1>3, <2>1 DEF Without
<1>5. toast' \in [Windows -> Nat]
  BY <1>0, <1>1, <1>2 DEF Recorded, TypeOK, Jobs
<1>6. Idle \in Jobs /\ Idle.todo = <<>> /\ Idle.idx = {}
  BY IdleIs
<1>7. Steps(w, Idle)
  BY <1>0, <1>2, <1>4, <1>5, <1>6 DEF Steps, Moves, Recorded, TypeOK
<1>8. JobOK(Idle) /\ ~Taking(Idle) /\ RestoreOK(Idle, saved, witnessed') /\ TurnOK(Idle, IndexRead', saved, snap')
  BY <1>6, Over
<1>9. ASSUME InTurn PROVE \A p \in IndexRead' : p.id \in DOMAIN snap'
  <2>1. TurnOK(o, IndexRead, saved, snap) /\ \A p \in IndexRead : p.id \in DOMAIN snap
    BY <1>9 DEF InTurn
  <2>2. IndexRead \subseteq o.idx
    BY <1>1, <2>1 DEF TurnOK
  <2> QED BY <1>2, <1>4, <2>1, <2>2
<1> QED BY <1>1, <1>6, <1>7, <1>8, <1>9, Step

\* A write that did not finish tears no snapshot that anybody lists.
LEMMA HalfDoneIs ==
  ASSUME RestoreIInv, NEW w \in Windows, Busy(w), HalfDone(w)
  PROVE  /\ snap' \in [DOMAIN snap' -> Bytes] /\ file' \in [Files -> Bytes \cup {None}]
         /\ \A i \in DOMAIN snap' : \/ i \in DOMAIN snap /\ snap'[i] = snap[i]
                                    \/ Stage(op[w]) = "writeSnap" /\ i = op[w].point.id
         /\ DOMAIN snap \subseteq DOMAIN snap'
<1>0. /\ snap \in [DOMAIN snap -> Bytes] /\ file \in [Files -> Bytes \cup {None}]
      /\ Torn \in Bytes
  BY DEF RestoreIInv, Recorded, TypeOK, Bytes
<1>1. CASE UNCHANGED <<snap, file>>
  BY <1>0, <1>1
<1>2. CASE At(w, "writeSnap") /\ snap' = Holding(op[w].point.id, Torn) /\ UNCHANGED file
  <2>1. Stage(op[w]) = "writeSnap"
    BY <1>2, TheJob DEF RestoreIInv
  <2>2. snap' \in [DOMAIN snap' -> Bytes] /\ DOMAIN snap \subseteq DOMAIN snap'
    BY <1>0, <1>2 DEF Holding
  <2>3. \A i \in DOMAIN snap' : (i \in DOMAIN snap /\ snap'[i] = snap[i]) \/ i = op[w].point.id
    BY <1>0, <1>2 DEF Holding
  <2> QED BY <1>0, <1>2, <2>1, <2>2, <2>3
<1>3. CASE file' = [file EXCEPT ![op[w].path] = Torn] /\ UNCHANGED snap
  BY <1>0, <1>3
<1> QED BY <1>1, <1>2, <1>3 DEF HalfDone

LEMMA FailKeeps ==
  ASSUME RestoreAssumption, RestoreIInv, NEW w \in Windows, Fail(w)
  PROVE  RestoreIInv'
<1>1. /\ Busy(w) /\ HalfDone(w) /\ Throws(w) /\ UNCHANGED <<index, saved, clock, witnessed, disturbed>>
  BY DEF Fail
<1>2. index' \in (SUBSET Point) \cup {Damaged} /\ IndexRead' \subseteq IndexRead
  BY <1>1 DEF RestoreIInv, Recorded, TypeOK, IndexRead
<1> QED BY <1>1, <1>2, HalfDoneIs, ThrowsKeeps

LEMMA CrashKeeps ==
  ASSUME RestoreAssumption, RestoreIInv, NEW w \in Windows, Crash(w)
  PROVE  RestoreIInv'
<1>1. /\ Busy(w) /\ HalfDone(w) /\ op' = [op EXCEPT ![w] = Idle]
      /\ UNCHANGED <<index, saved, clock, toast, witnessed, disturbed>>
  BY DEF Crash, Goes
<1>2. /\ index' \in (SUBSET Point) \cup {Damaged} /\ IndexRead' = IndexRead
      /\ toast' \in [Windows -> Nat]
  BY <1>1 DEF RestoreIInv, Recorded, TypeOK, IndexRead
<1>3. Idle \in Jobs /\ Idle.todo = <<>> /\ Idle.idx = {}
  BY IdleIs
<1>4. Steps(w, Idle) /\ DOMAIN snap \subseteq DOMAIN snap'
  BY <1>1, <1>2, <1>3, HalfDoneIs DEF Steps, Moves
<1>5. JobOK(Idle) /\ ~Taking(Idle) /\ RestoreOK(Idle, saved, witnessed') /\ TurnOK(Idle, IndexRead', saved, snap')
  BY <1>3, Over
<1>6. InTurn => \A p \in IndexRead' : p.id \in DOMAIN snap'
  BY <1>2, <1>4 DEF InTurn
<1> QED BY <1>1, <1>3, <1>4, <1>5, <1>6, Step

\* A job that begins, next to another or not.
LEMMA StartsKeeps ==
  ASSUME RestoreIInv, NEW w \in Windows, NEW q \in Jobs, NEW ids, Starts(w, q, ids),
         q.todo = JobOf(q), q.idx = {}, q.content # None \/ Restoring(q),
         RestoreOK(q, saved, witnessed)
  PROVE  RestoreIInv'
<1>0. Recorded /\ TypeOK
  BY DEF RestoreIInv, Recorded
<1>1. /\ op' = [op EXCEPT ![w] = q] /\ toast' = [toast EXCEPT ![w] = 0] /\ ~Busy(w)
      /\ UNCHANGED <<index, snap, file, saved, clock, witnessed>> /\ IndexRead' = IndexRead
      /\ disturbed' \/ (UNCHANGED disturbed /\ \A v \in Windows : ~Busy(v))
      /\ disturbed' \in BOOLEAN
  BY <1>0 DEF Starts, Goes, IndexRead, TypeOK
<1>2. OnItsWay(q) /\ Stage(q) \in {"readForSave", "find"} /\ (Restoring(q) => Stage(q) = "find")
  BY Begins, Kinds
<1>3. Moves(w, q) /\ TypeOK'
  BY <1>0, <1>1 DEF Moves, TypeOK
<1>4. JobOK(q) /\ ~Taking(q)
  BY <1>2 DEF JobOK, Taking
<1>5. Recorded'
  BY <1>0, <1>1, <1>3, <1>4, StepKeeps
<1>6. ASSUME ~disturbed' PROVE InTurn'
  <2>1. InTurn /\ \A v \in Windows : op[v].todo = <<>>
    BY <1>1, <1>6 DEF RestoreIInv, Busy
  <2>2. op'[w] = q /\ \A v \in Windows \ {w} : op'[v] = op[v]
    BY <1>0, <1>1 DEF TypeOK
  <2>3. \A v, u \in Windows : op'[v].todo # <<>> /\ op'[u].todo # <<>> => v = u
    BY <2>1, <2>2
  <2>4. ASSUME NEW v \in Windows PROVE TurnOK(op'[v], IndexRead', saved', snap')
    <3>1. Stage(op'[v]) \in {"done", "readForSave", "find"}
      BY <1>2, <2>1, <2>2 DEF Stage
    <3> QED BY <3>1 DEF TurnOK, Taking, Late
  <2> QED BY <1>1, <2>1, <2>3, <2>4 DEF InTurn, Busy
<1> QED BY <1>5, <1>6 DEF RestoreIInv

LEMMA SaveKeeps ==
  ASSUME RestoreAssumption, RestoreIInv, NEW w \in Windows, Save(w)
  PROVE  RestoreIInv'
<1>1. PICK f \in Files : file[f] # None /\ Starts(w, Job(SaveStages \o RotateStages, f, file[f], 0), 1)
  BY DEF Save
<1> DEFINE q == Job(SaveJob, f, file[f], 0)
<1>2. file[f] \in Bytes \cup {None} /\ f # Scratch
  BY DEF RestoreIInv, Recorded, TypeOK, RestoreAssumption
<1>3. q \in Jobs /\ q.todo = SaveJob /\ q.path = f /\ q.id = 0 /\ q.idx = {} /\ q.content # None
  BY <1>1, <1>2, SaveJobIs DEF Job, Jobs, Paths
<1>4. Starts(w, q, 1)
  BY <1>1 DEF SaveJob
<1> HIDE DEF q
<1>5. q.todo = JobOf(q) /\ RestoreOK(q, saved, witnessed)
  BY <1>2, <1>3 DEF JobOf, RestoreOK, Restoring
<1> QED BY <1>3, <1>4, <1>5, StartsKeeps

LEMMA SelfTestKeeps ==
  ASSUME RestoreAssumption, RestoreIInv, NEW w \in Windows, SelfTest(w)
  PROVE  RestoreIInv'
<1>1. PICK c \in Contents :
        Starts(w, Job(SaveStages \o RestoreStages \o <<"check">> \o CleanUp, Scratch, c, 0), 2)
  BY DEF SelfTest
<1> DEFINE q == Job(TestJob, Scratch, c, 0)
<1>2. q \in Jobs /\ q.todo = TestJob /\ q.path = Scratch /\ q.id = 0 /\ q.idx = {} /\ q.content # None
  BY TestJobIs DEF Job, Jobs, Paths, Bytes, RestoreAssumption
<1>3. Starts(w, q, 2)
  BY <1>1 DEF TestJob
<1> HIDE DEF q
<1>4. q.todo = JobOf(q) /\ RestoreOK(q, saved, witnessed)
  BY <1>2 DEF JobOf, RestoreOK, Restoring
<1> QED BY <1>2, <1>3, <1>4, StartsKeeps

LEMMA RestoreKeeps ==
  ASSUME RestoreAssumption, RestoreIInv, NEW w \in Windows, NEW id, Restore(w, id)
  PROVE  RestoreIInv'
<1> DEFINE q == Job(RestoreJob, saved[id].path, None, id)
<1>1. saved \in Seq(Point) /\ id \in 1..Len(saved) /\ Len(saved) \in Nat
  BY LenProperties DEF RestoreIInv, Recorded, TypeOK, Restore
<1>2. id \in Nat \ {0} /\ id \in DOMAIN saved /\ saved[id] \in Point /\ saved[id].path # Scratch
  BY <1>1, LenProperties DEF Restore
<1>3. /\ q \in Jobs /\ q.todo = RestoreJob /\ q.path = saved[id].path /\ q.id = id /\ q.idx = {}
      /\ q.safety = 0
  BY <1>2, RestoreJobIs DEF Job, Jobs, Point
<1>4. Starts(w, q, 1)
  BY DEF Restore, RestoreJob
<1> HIDE DEF q
<1>5. Restoring(q) /\ q.todo = JobOf(q)
  BY <1>2, <1>3 DEF JobOf, Restoring
<1>6. Stage(q) = "find"
  BY <1>5, Begins, Kinds
<1>7. RestoreOK(q, saved, witnessed)
  BY <1>2, <1>3, <1>6 DEF RestoreOK, Late, Rotates
<1> QED BY <1>3, <1>4, <1>5, <1>7, StartsKeeps

\* A step that no job takes.
LEMMA QuietKeeps ==
  ASSUME RestoreIInv, UNCHANGED <<snap, saved, op, witnessed>>,
         index' \in (SUBSET Point) \cup {Damaged}, IndexRead' \in {IndexRead, {}},
         file' \in [Files -> Bytes \cup {None}], toast' \in [Windows -> Nat],
         UNCHANGED <<clock, disturbed>> \/ (clock' \in Nat /\ disturbed' = TRUE)
  PROVE  RestoreIInv'
<1>1. TypeOK'
  BY DEF RestoreIInv, Recorded, TypeOK
<1>2. \A w \in Windows : Fresh(w)'
  BY DEF RestoreIInv, Recorded, Fresh
<1>3. Recorded'
  BY <1>1, <1>2 DEF RestoreIInv, Recorded
<1>4. ASSUME ~disturbed' PROVE InTurn'
  <2>1. InTurn /\ UNCHANGED <<clock, disturbed>>
    BY <1>4 DEF RestoreIInv
  <2>2. \A w \in Windows : TurnOK(op[w], IndexRead', saved, snap)
    BY <2>1 DEF InTurn, TurnOK
  <2> QED BY <2>1, <2>2 DEF InTurn, Busy
<1> QED BY <1>3, <1>4 DEF RestoreIInv

LEMMA OutsideKeeps ==
  ASSUME RestoreAssumption, RestoreIInv, Damage \/ SetClockBack \/ \E f \in Files : Edit(f)
  PROVE  RestoreIInv'
<1>0. Recorded /\ TypeOK
  BY DEF RestoreIInv, Recorded
<1>1. CASE Damage
  <2>1. IndexRead' = {}
    BY <1>1 DEF Damage, IndexRead
  <2> QED BY <1>0, <1>1, <2>1, QuietKeeps DEF Damage, TypeOK
<1>2. CASE SetClockBack
  BY <1>0, <1>2, QuietKeeps DEF SetClockBack, TypeOK, IndexRead
<1>3. CASE \E f \in Files : Edit(f)
  <2>1. PICK f \in Files : Edit(f)
    BY <1>3
  <2>2. PICK c \in Contents \cup {None} : file' = [file EXCEPT ![f] = c]
    BY <2>1 DEF Edit
  <2>3. file' \in [Files -> Bytes \cup {None}]
    BY <1>0, <2>2 DEF TypeOK, Bytes
  <2> QED BY <1>0, <2>1, <2>3, QuietKeeps DEF Edit, TypeOK, IndexRead
<1> QED BY <1>1, <1>2, <1>3

LEMMA UndoKeeps ==
  ASSUME RestoreAssumption, RestoreIInv, NEW w \in Windows, Undo(w)
  PROVE  RestoreIInv'
<1>1. CASE Readable(toast[w])
  <2>1. Restore(w, toast[w])
    BY <1>1 DEF Undo, PerformRestore
  <2> QED BY <2>1, RestoreKeeps
<1>2. CASE ~Readable(toast[w])
  <2>1. /\ toast' = [toast EXCEPT ![w] = 0]
        /\ UNCHANGED <<index, snap, file, saved, clock, op, witnessed, disturbed>>
    BY <1>2 DEF Undo
  <2>2. Recorded /\ TypeOK /\ IndexRead' = IndexRead
    BY <2>1 DEF RestoreIInv, Recorded, IndexRead
  <2> QED BY <2>1, <2>2, QuietKeeps DEF TypeOK
<1> QED BY <1>1, <1>2

\* The view: it looks, and it restores.
LEMMA ViewKeeps ==
  ASSUME RestoreAssumption, ViewersAssumption, RestoreIInv, NEW w \in Viewers,
         \/ Show(w) \/ Hide(w) \/ Poll(w) \/ Load(w) \/ LoadFails(w)
         \/ RestoreShown(w) \/ RestoreCheckpoint(w) \/ RestoreFile(w)
  PROVE  RestoreIInv'
<1>0. w \in Windows /\ Recorded /\ TypeOK
  BY DEF ViewersAssumption, RestoreIInv, Recorded
<1>1. CASE Show(w) \/ Hide(w) \/ Poll(w) \/ LoadFails(w)
  <2>1. UNCHANGED <<index, snap, file, saved, clock, op, toast, witnessed, disturbed>>
    BY <1>1 DEF Show, Hide, Poll, Polls, LoadFails, storeVars
  <2>2. IndexRead' = IndexRead
    BY <2>1 DEF IndexRead
  <2> QED BY <1>0, <2>1, <2>2, QuietKeeps DEF TypeOK
<1>2. CASE Load(w)
  <2>1. ReadingIndex /\ UNCHANGED <<snap, file, saved, clock, op, toast, witnessed, disturbed>>
    BY <1>2 DEF Load
  <2>2. IndexRead' = IndexRead /\ index' \in (SUBSET Point) \cup {Damaged}
    BY <1>0, <2>1, Reading
  <2> QED BY <1>0, <2>1, <2>2, QuietKeeps DEF TypeOK
<1>3. CASE RestoreShown(w) \/ RestoreCheckpoint(w) \/ RestoreFile(w)
  <2>1. \E id : Restore(w, id)
    BY <1>3 DEF RestoreShown, RestoreCheckpoint, RestoreFile, PerformRestore, DoRestore
  <2> QED BY <1>0, <2>1, RestoreKeeps
<1> QED BY <1>1, <1>2, <1>3

LEMMA InitHolds == ASSUME RestoreAssumption, Init PROVE RestoreIInv
<1>1. Idle \in Jobs /\ Idle.todo = <<>> /\ Idle.idx = {}
  BY IdleIs
<1>2. IndexRead = {}
  BY DEF Init, StoreInit, IndexRead
<1>3. \A w \in Windows : op[w] = Idle /\ Stage(op[w]) = "done"
  BY <1>1 DEF Init, StoreInit, Stage
<1>4. TypeOK
  <2>1. <<>> \in Seq(Bytes) /\ <<>> \in Seq(Point) /\ Len(<<>>) = 0
    OBVIOUS
  <2>2. snap \in [DOMAIN snap -> Bytes]
    <3>1. \A s \in Seq(Bytes) : s \in [DOMAIN s -> Bytes]
      OBVIOUS
    <3> QED BY <2>1, <3>1 DEF Init, StoreInit
  <2>3. index \in SUBSET Point /\ saved \in Seq(Point) /\ clock \in Nat /\ disturbed \in BOOLEAN
    BY <2>1 DEF Init, StoreInit
  <2>4. file \in [Files -> Bytes \cup {None}]
    BY DEF Init, StoreInit, RestoreAssumption, Bytes
  <2>5. op \in [Windows -> Jobs] /\ toast \in [Windows -> Nat]
    BY <1>1 DEF Init, StoreInit
  <2> QED BY <2>2, <2>3, <2>4, <2>5 DEF TypeOK
<1>5. \A w \in Windows : /\ JobOK(op[w]) /\ TakesOK(op[w], saved, snap)
                         /\ RestoreOK(op[w], saved, witnessed) /\ Fresh(w)
  <2>1. JobOK(Idle) /\ ~Taking(Idle) /\ RestoreOK(Idle, saved, witnessed)
    BY <1>1, Over
  <2> QED BY <1>3, <2>1 DEF TakesOK, Fresh
<1>6. DOMAIN saved = {}
  BY DEF Init, StoreInit
<1>7. Recorded
  BY <1>1, <1>2, <1>3, <1>4, <1>5, <1>6 DEF Recorded
<1>8. InTurn
  <2>1. \A w \in Windows : TurnOK(op[w], IndexRead, saved, snap)
    BY <1>1, <1>3, Over
  <2>2. \A w \in Windows : ~Busy(w)
    BY <1>1, <1>3 DEF Busy
  <2> QED BY <1>2, <1>6, <2>1, <2>2 DEF InTurn
<1> QED BY <1>7, <1>8 DEF RestoreIInv

LEMMA NextKeeps ==
  ASSUME RestoreAssumption, ViewersAssumption, RestoreIInv, [Next]_vars
  PROVE  RestoreIInv'
<1>1. CASE UNCHANGED vars
  <2>1. UNCHANGED <<index, snap, file, saved, clock, op, toast, witnessed, disturbed>> /\ IndexRead' = IndexRead
    BY <1>1 DEF vars, storeVars, IndexRead
  <2>2. TypeOK
    BY DEF RestoreIInv, Recorded
  <2> QED BY <2>1, <2>2, QuietKeeps DEF TypeOK
<1>2. ASSUME NEW w \in Windows, Work(w) PROVE RestoreIInv'
  BY <1>2, ReadForSaveKeeps, WriteSnapKeeps, WriteIndexKeeps, FindKeeps, LookKeeps, WriteKeeps,
     WitnessKeeps, CheckKeeps, PlanKeeps, TrimKeeps, UnlinkKeeps, SweepKeeps DEF Work, Stages
<1>3. ASSUME NEW w \in Windows, Fail(w) \/ Crash(w) \/ Save(w) \/ SelfTest(w) \/ Undo(w) PROVE RestoreIInv'
  BY <1>3, FailKeeps, CrashKeeps, SaveKeeps, SelfTestKeeps, UndoKeeps
<1>4. CASE Next
  BY <1>2, <1>3, <1>4, ViewKeeps, OutsideKeeps DEF Next
<1> QED BY <1>1, <1>4

\* What the index lists can be restored, whatever windows share the folder and
\* wherever a save, a rotation or a test is cut short (saveLocked, removeLocked,
\* rotateLocked): the snapshot is there while the windows take turns, and is the
\* point's own even when they do not.
THEOREM ListedCanBeRestored == Spec => []IndexedIsRestorable
<1>1. Init => RestoreIInv
  BY RestoreAssumption, InitHolds
<1>2. RestoreIInv /\ [Next]_vars => RestoreIInv'
  BY RestoreAssumption, ViewersAssumption, NextKeeps
<1>3. RestoreIInv => IndexedIsRestorable
  BY DEF RestoreIInv, Recorded, Known, InTurn, IndexedIsRestorable
<1> QED BY <1>1, <1>2, <1>3, PTL DEF Spec

-----------------------------------------------------------------------------
(* What a restore replaces.                                                *)

\* The safety point of a restore that has begun to write.
LEMMA SafetyIsThere ==
  ASSUME RestoreIInv, NEW w \in Windows, Restoring(op[w]), Stage(op[w]) \in Late, op[w].content # None
  PROVE  /\ op[w].safety \in DOMAIN saved
         /\ \/ disturbed \/ index \in {{}, Damaged}
            \/ /\ saved[op[w].safety] \in IndexRead /\ saved[op[w].safety].id = op[w].safety
               /\ op[w].safety \in DOMAIN snap /\ snap[op[w].safety] = op[w].content
<1> DEFINE o == op[w]
<1>0. Recorded
  BY DEF RestoreIInv
<1>1. o.safety \in DOMAIN saved /\ saved[o.safety].content = o.content /\ saved[o.safety].id = o.safety
  <2>1. RestoreOK(o, saved, witnessed) /\ \A i \in DOMAIN saved : saved[i].id = i
    BY <1>0 DEF Recorded
  <2> QED BY <2>1 DEF RestoreOK, Late
<1>2. ASSUME ~disturbed, index \notin {{}, Damaged}
      PROVE  saved[o.safety] \in IndexRead /\ o.safety \in DOMAIN snap /\ snap[o.safety] = o.content
  <2>1. InTurn /\ IndexRead # {}
    BY <1>2 DEF RestoreIInv, IndexRead
  <2>2. TurnOK(o, IndexRead, saved, snap)
    BY <2>1 DEF InTurn
  <2>3. saved[o.safety] \in IndexRead
    BY <2>1, <2>2 DEF TurnOK
  <2>4. o.safety \in DOMAIN snap
    BY <1>1, <2>1, <2>3 DEF InTurn
  <2>5. Known(saved[o.safety], saved, snap)
    BY <1>0, <2>3 DEF Recorded
  <2> QED BY <1>1, <2>3, <2>4, <2>5 DEF Known
<1> QED BY <1>1, <1>2

LEMMA WriteLosesNothing == ASSUME RestoreIInv, NEW w \in Windows PROVE LosesNothing(w)
<1> DEFINE o == op[w]
           gone == /\ file'[o.path] = saved[o.id].content
                   /\ \/ disturbed \/ index \in {{}, Damaged}
                      \/ file[o.path] # o.content \/ o.content = None
                      \/ Readable(o.safety) /\ snap[o.safety] = o.content
<1>1. SUFFICES ASSUME Write(w), file' # file PROVE gone
  BY DEF LosesNothing
<1>2. /\ Recorded /\ At(w, "write") /\ ~IsTest(w) /\ file' = [file EXCEPT ![o.path] = o.want]
  BY <1>1 DEF RestoreIInv, Write
<1>3. o \in Jobs /\ Stage(o) = "write" /\ JobOK(o) /\ RestoreOK(o, saved, witnessed)
  BY <1>2, TheJob
<1>4. Restoring(o)
  BY <1>2, <1>3, StagesOf DEF IsTest, Restoring, JobOK
<1>5. o.want = saved[o.id].content
  BY <1>3, <1>4 DEF RestoreOK
<1>6. o.path \in Files /\ file \in [Files -> Bytes \cup {None}]
  BY <1>2, <1>3 DEF Recorded, TypeOK, Jobs, Paths, IsTest
<1>7. file'[o.path] = saved[o.id].content
  BY <1>2, <1>5, <1>6
<1>8. ASSUME ~disturbed, index \notin {{}, Damaged}, o.content # None
      PROVE  Readable(o.safety) /\ snap[o.safety] = o.content
  BY <1>3, <1>4, <1>8, SafetyIsThere DEF Readable, Late
<1> QED BY <1>7, <1>8

\* The Undo button of a restore that ends: its point outlives the rotation.
LEMMA EndOffersUndo ==
  ASSUME RestoreAssumption, RestoreIInv, NEW w \in Windows, Restoring(op[w]), Stage(op[w]) \in Rotates,
         toast'[w] = op[w].safety, toast'[w] # 0, UNCHANGED <<index, disturbed>>,
         InTurn => \A p \in IndexRead : p.id \in DOMAIN snap'
  PROVE  OffersUndo(w)
<1>1. RestoreOK(op[w], saved, witnessed) /\ Stage(op[w]) \in Late /\ Stage(op[w]) # "done"
  BY DEF RestoreIInv, Recorded, Late, Rotates
<1>2. [id |-> op[w].id, before |-> op[w].content, safety |-> op[w].safety] \in witnessed
  BY <1>1 DEF RestoreOK
<1>3. op[w].content # None /\ op[w].safety \in DOMAIN saved
  <2>1. op[w].safety \in DOMAIN saved /\ saved[op[w].safety].content = op[w].content
    BY <1>1 DEF RestoreOK
  <2>2. saved[op[w].safety] \in Point
    BY <2>1 DEF RestoreIInv, Recorded, TypeOK
  <2> QED BY <2>1, <2>2 DEF Point, Bytes, RestoreAssumption
<1>4. ASSUME ~disturbed', index' \notin {{}, Damaged}
      PROVE  \E id \in DOMAIN saved : id = toast'[w] /\ Readable(id)'
  <2>1. InTurn /\ IndexRead' = IndexRead
    BY <1>4 DEF RestoreIInv, IndexRead
  <2>2. saved[op[w].safety] \in IndexRead /\ saved[op[w].safety].id = op[w].safety
    BY <1>1, <1>3, <1>4, SafetyIsThere
  <2>3. ASSUME NEW id \in DOMAIN saved, id = op[w].safety PROVE Readable(id)'
    BY <2>1, <2>2, <2>3 DEF Readable
  <2> QED BY <1>3, <2>3
<1> QED BY <1>2, <1>4 DEF OffersUndo

LEMMA ThrowOffersUndo ==
  ASSUME RestoreAssumption, RestoreIInv, NEW w \in Windows, Busy(w), Throws(w), UNCHANGED <<index, disturbed>>,
         DOMAIN snap \subseteq DOMAIN snap', NEW v \in Windows
  PROVE  OffersUndo(v)
<1>0. toast \in [Windows -> Nat] /\ op[w] \in Jobs /\ op[w].todo # <<>> /\ OnItsWay(op[w])
  BY DEF RestoreIInv, Recorded, TypeOK, Busy, JobOK
<1>1. SUFFICES ASSUME toast'[v] # toast[v], toast'[v] # 0 PROVE OffersUndo(v)
  BY DEF OffersUndo
<1>2. v = w /\ IsRestore(w) /\ Len(op[w].todo) <= Len(RotateStages) /\ toast'[w] = op[w].safety
  BY <1>0, <1>1 DEF Throws
<1>3. Restoring(op[w]) /\ Stage(op[w]) \in Rotates
  <2>1. Restoring(op[w])
    BY <1>2 DEF IsRestore, IsTest, Restoring
  <2>2. JobOf(op[w]) = RestoreJob /\ Len(op[w].todo) <= 4
    BY <1>2, <2>1, Kinds, Parts
  <2> QED BY <1>0, <2>1, <2>2, Rotating DEF Rotates
<1>4. InTurn => \A p \in IndexRead : p.id \in DOMAIN snap'
  BY DEF InTurn
<1> QED BY <1>1, <1>2, <1>3, <1>4, EndOffersUndo

\* A step that shows no Undo button.
LEMMA NoButton ==
  ASSUME \A v \in Windows : toast'[v] = toast[v] \/ toast'[v] = 0
  PROVE  \A v \in Windows : OffersUndo(v)
BY DEF OffersUndo

LEMMA SweepOffersUndo ==
  ASSUME RestoreAssumption, RestoreIInv, NEW w \in Windows, Sweep(w), NEW v \in Windows
  PROVE  OffersUndo(v)
<1>0. Recorded /\ At(w, "sweep") /\ toast \in [Windows -> Nat]
  BY DEF Sweep, RestoreIInv, Recorded, TypeOK
<1>1. op[w] \in Jobs /\ Stage(op[w]) = "sweep"
  BY <1>0, TheJob
<1>2. SUFFICES ASSUME toast'[v] # toast[v], toast'[v] # 0 PROVE OffersUndo(v)
  BY DEF OffersUndo
<1>3. v = w /\ IsRestore(w) /\ toast'[w] = op[w].safety /\ UNCHANGED <<index, disturbed>>
  BY <1>0, <1>2 DEF Sweep
<1>4. Restoring(op[w]) /\ Stage(op[w]) \in Rotates
  BY <1>1, <1>3 DEF IsRestore, IsTest, Restoring, Rotates
<1>5. PICK young : snap' = Without({i \in 1..young - 1 : \A p \in op[w].idx : p.id # i})
  BY DEF Sweep
<1>6. ASSUME InTurn, NEW p \in IndexRead PROVE p.id \in DOMAIN snap'
  <2>1. p \in op[w].idx /\ p.id \in DOMAIN snap
    BY <1>1, <1>6 DEF InTurn, TurnOK
  <2> QED BY <1>5, <2>1 DEF Without
<1> QED BY <1>2, <1>3, <1>4, <1>6, EndOffersUndo

LEMMA StepOffersUndo ==
  ASSUME RestoreAssumption, ViewersAssumption, RestoreIInv, [Next]_vars, NEW v \in Windows
  PROVE  OffersUndo(v)
<1>0. toast \in [Windows -> Nat]
  BY DEF RestoreIInv, Recorded, TypeOK
<1>1. CASE UNCHANGED toast
  BY <1>1, NoButton
<1>2. CASE \E w \in Windows : \E q, ids : Starts(w, q, ids)
  BY <1>0, <1>2, NoButton DEF Starts
<1>3. ASSUME NEW w \in Windows, Work(w) PROVE OffersUndo(v)
  <2>1. CASE Sweep(w)
    BY <2>1, SweepOffersUndo
  <2>2. CASE Find(w) \/ Check(w)
    <3>1. UNCHANGED toast \/ Throws(w)
      BY <2>2 DEF Find, Check
    <3>2. CASE Throws(w)
      <4>1. Busy(w) /\ Stage(op[w]) \in {"find", "check"}
        BY <2>2, TheJob DEF Find, Check, RestoreIInv
      <4>2. toast'[v] = toast[v]
        <5>1. SUFFICES ASSUME IsRestore(w), Len(op[w].todo) <= Len(RotateStages) PROVE FALSE
          BY <1>0, <3>2 DEF Throws
        <5>2. Restoring(op[w]) /\ Len(op[w].todo) <= 4
          BY <5>1, Parts DEF IsRestore, IsTest, Restoring
        <5>3. op[w] \in Jobs /\ OnItsWay(op[w]) /\ op[w].todo # <<>>
          BY <4>1 DEF RestoreIInv, Recorded, TypeOK, JobOK, Busy
        <5> QED BY <4>1, <5>2, <5>3, Kinds, Rotating
      <4> QED BY <4>2 DEF OffersUndo
    <3> QED BY <1>1, <3>1, <3>2
  <2>3. CASE \/ ReadForSave(w) \/ WriteSnap(w) \/ WriteIndex(w) \/ Look(w) \/ Write(w)
             \/ Witness(w) \/ Plan(w) \/ Trim(w) \/ Unlink(w)
    BY <1>1, <2>3 DEF ReadForSave, WriteSnap, WriteIndex, Look, Write, Witness, Plan, Trim, Unlink
  <2> QED BY <1>3, <2>1, <2>2, <2>3 DEF Work, Stages
<1>4. ASSUME NEW w \in Windows, Fail(w) PROVE OffersUndo(v)
  BY <1>4, HalfDoneIs, ThrowOffersUndo DEF Fail
<1>5. ASSUME NEW w \in Windows, Crash(w) PROVE OffersUndo(v)
  BY <1>1, <1>5 DEF Crash
<1>6. ASSUME NEW w, NEW id, w \in Windows, Restore(w, id) PROVE OffersUndo(v)
  BY <1>2, <1>6 DEF Restore
<1>7. ASSUME NEW w \in Windows, Save(w) \/ SelfTest(w) PROVE OffersUndo(v)
  BY <1>2, <1>7 DEF Save, SelfTest
<1>8. ASSUME NEW w \in Windows, Undo(w) PROVE OffersUndo(v)
  <2>1. CASE Readable(toast[w])
    BY <1>6, <1>8, <2>1 DEF Undo, PerformRestore
  <2>2. CASE ~Readable(toast[w])
    BY <1>0, <1>8, <2>2, NoButton DEF Undo
  <2> QED BY <2>1, <2>2
<1>9. ASSUME NEW w \in Viewers, Show(w) \/ Hide(w) \/ Poll(w) \/ Load(w) \/ LoadFails(w)
      PROVE  OffersUndo(v)
  BY <1>1, <1>9 DEF Show, Hide, Poll, Polls, Load, LoadFails, storeVars
<1>10. ASSUME NEW w \in Viewers, RestoreShown(w) \/ RestoreCheckpoint(w) \/ RestoreFile(w) PROVE OffersUndo(v)
  BY <1>6, <1>10 DEF RestoreShown, RestoreCheckpoint, RestoreFile, PerformRestore, DoRestore, ViewersAssumption
<1>11. CASE Damage \/ SetClockBack \/ \E f \in Files : Edit(f)
  BY <1>1, <1>11 DEF Damage, SetClockBack, Edit
<1>12. CASE UNCHANGED vars
  BY <1>1, <1>12 DEF vars, storeVars
<1> QED BY <1>3, <1>4, <1>5, <1>7, <1>8, <1>9, <1>10, <1>11, <1>12 DEF Next

\* A restore writes what was saved under the number the person chose, and what
\* it replaces can itself be restored, unless the file was edited since the
\* restore looked at it or the index was damaged; its Undo button names a point
\* that the rotation after it has left (restoreLocked, rotateLocked).
THEOREM RestoreLosesNothing == Spec => RestoresAreSafe
<1>1. Init => RestoreIInv
  BY RestoreAssumption, InitHolds
<1>2. RestoreIInv /\ [Next]_vars => RestoreIInv'
  BY RestoreAssumption, ViewersAssumption, NextKeeps
<1>3. RestoreIInv /\ [Next]_vars => [\A w \in Windows : LosesNothing(w) /\ OffersUndo(w)]_vars
  BY RestoreAssumption, ViewersAssumption, WriteLosesNothing, StepOffersUndo
<1> QED BY <1>1, <1>2, <1>3, PTL DEF Spec, RestoresAreSafe
=============================================================================
