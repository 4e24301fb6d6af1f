---------------------------- MODULE ArmingProofs ----------------------------
(***************************************************************************)
(* Proofs about Arming, for every number of windows, versions, runtimes,   *)
(* hooks files, sessions and events: the person's own hooks are kept, an   *)
(* update does not cost Codex's trust, and an undisturbed session leaves   *)
(* the hook in place.                                                      *)
(***************************************************************************)
EXTENDS Arming, FiniteSetTheorems, FunctionTheorems, SequenceTheorems, TLAPS

-----------------------------------------------------------------------------
(* Finite sets in order: the k-th element is the one with k - 1 below it.  *)

StrictlyOrders(R, P) ==
  /\ \A p \in P : <<p, p>> \notin R
  /\ \A p, q \in P : p = q \/ <<p, q>> \in R \/ <<q, p>> \in R
  /\ \A p, q, r \in P : <<p, q>> \in R /\ <<q, r>> \in R => <<p, r>> \in R
Below(P, R, p) == {q \in P : <<q, p>> \in R}

\* Below what comes later there is more.
LEMMA RanksGrow ==
  ASSUME NEW P, IsFiniteSet(P), NEW R, StrictlyOrders(R, P)
  PROVE  /\ \A p \in P : Cardinality(Below(P, R, p)) \in Nat
                         /\ Cardinality(Below(P, R, p)) < Cardinality(P)
         /\ \A p, q \in P : <<p, q>> \in R
              => Cardinality(Below(P, R, p)) < Cardinality(Below(P, R, q))
  <1>1. ASSUME NEW p \in P
        PROVE  /\ IsFiniteSet(Below(P, R, p)) /\ Cardinality(Below(P, R, p)) \in Nat
               /\ Cardinality(Below(P, R, p)) < Cardinality(P)
    <2>1. Below(P, R, p) \in SUBSET P /\ p \notin Below(P, R, p)
      BY DEF Below, StrictlyOrders
    <2>2. Below(P, R, p) # P
      BY <2>1
    <2>3. /\ IsFiniteSet(Below(P, R, p)) /\ Cardinality(Below(P, R, p)) <= Cardinality(P)
          /\ Cardinality(Below(P, R, p)) # Cardinality(P)
      BY <2>1, <2>2, FS_Subset
    <2>4. Cardinality(Below(P, R, p)) \in Nat /\ Cardinality(P) \in Nat
      BY <2>3, FS_CardinalityType
    <2> QED BY <2>3, <2>4
  <1>2. ASSUME NEW p \in P, NEW q \in P, <<p, q>> \in R
        PROVE  Cardinality(Below(P, R, p)) < Cardinality(Below(P, R, q))
    <2>1. Below(P, R, p) \in SUBSET Below(P, R, q)
      BY <1>2 DEF Below, StrictlyOrders
    <2>2. p \in Below(P, R, q) /\ p \notin Below(P, R, p)
      BY <1>2 DEF Below, StrictlyOrders
    <2>3. Below(P, R, p) # Below(P, R, q)
      BY <2>2
    <2>4. /\ Cardinality(Below(P, R, p)) <= Cardinality(Below(P, R, q))
          /\ Cardinality(Below(P, R, p)) # Cardinality(Below(P, R, q))
      BY <1>1, <2>1, <2>3, FS_Subset
    <2> QED BY <1>1, <2>4
  <1> QED BY <1>1, <1>2

\* Every rank is taken, by one element.
LEMMA RanksTaken ==
  ASSUME NEW P, IsFiniteSet(P), NEW R, StrictlyOrders(R, P)
  PROVE  /\ \A p, q \in P : Cardinality(Below(P, R, p)) = Cardinality(Below(P, R, q)) => p = q
         /\ \A p, q \in P : Cardinality(Below(P, R, p)) < Cardinality(Below(P, R, q))
              => <<p, q>> \in R
         /\ \A k \in 1..Cardinality(P) : \E p \in P : Cardinality(Below(P, R, p)) = k - 1
  <1> DEFINE n == Cardinality(P)
             rank == [p \in P |-> Cardinality(Below(P, R, p)) + 1]
  <1>1. n \in Nat
    BY FS_CardinalityType
  <1>2. \A p \in P : Cardinality(Below(P, R, p)) \in Nat /\ Cardinality(Below(P, R, p)) < n
    BY RanksGrow
  <1>3. \A p, q \in P : <<p, q>> \in R
              => Cardinality(Below(P, R, p)) < Cardinality(Below(P, R, q))
    BY RanksGrow
  <1>4. \A p, q \in P : p = q \/ <<p, q>> \in R \/ <<q, p>> \in R
    BY DEF StrictlyOrders
  <1>5. ASSUME NEW p \in P, NEW q \in P, Cardinality(Below(P, R, p)) = Cardinality(Below(P, R, q))
        PROVE  p = q
    <2>1. /\ Cardinality(Below(P, R, p)) \in Nat
          /\ ~(Cardinality(Below(P, R, p)) < Cardinality(Below(P, R, q)))
          /\ ~(Cardinality(Below(P, R, q)) < Cardinality(Below(P, R, p)))
      BY <1>2, <1>5
    <2> QED BY <1>3, <1>4, <2>1
  <1>6. ASSUME NEW p \in P, NEW q \in P, Cardinality(Below(P, R, p)) < Cardinality(Below(P, R, q))
        PROVE  <<p, q>> \in R
    <2>1. ~(Cardinality(Below(P, R, q)) < Cardinality(Below(P, R, p)))
      BY <1>2, <1>6
    <2>2. p # q
      BY <1>2, <1>6
    <2> QED BY <1>3, <1>4, <2>1, <2>2
  <1>7. rank \in [P -> 1..n]
    BY <1>1, <1>2
  <1>8. \A p, q \in P : rank[p] = rank[q] => p = q
    BY <1>2, <1>5
  <1>9. \A p \in P : rank[p] = Cardinality(Below(P, R, p)) + 1
    OBVIOUS
  <1>10. IsFiniteSet(1..n) /\ Cardinality(1..n) = n
    BY <1>1, FS_Interval
  <1> HIDE DEF rank
  <1>11. rank \in Injection(P, 1..n)
    BY <1>7, <1>8 DEF Injection, IsInjective
  <1>12. rank \in Surjection(P, 1..n)
    BY <1>10, <1>11, FS_Injection
  <1>13. \A k \in 1..n : \E p \in P : rank[p] = k
    BY <1>12 DEF Surjection
  <1>14. \A k \in 1..n : \E p \in P : Cardinality(Below(P, R, p)) = k - 1
    <2> TAKE k \in 1..n
    <2>1. PICK p \in P : rank[p] = k
      BY <1>13
    <2> QED BY <1>1, <1>2, <1>9, <2>1
  <1> QED BY <1>5, <1>6, <1>14

\* The elements of a finite set of integers, by their number.
LEMMA NthIs ==
  ASSUME NEW S \in SUBSET Int, IsFiniteSet(S)
  PROVE  /\ \A k \in 1..Cardinality(S) :
              Nth(S, k) \in S /\ Cardinality({j \in S : j < Nth(S, k)}) = k - 1
         /\ \A k, l \in 1..Cardinality(S) : k < l <=> Nth(S, k) < Nth(S, l)
         /\ \A i \in S : \E k \in 1..Cardinality(S) : Nth(S, k) = i
         /\ \A k \in 1..Cardinality(S), i \in S :
              Cardinality({j \in S : j < i}) = k - 1 => Nth(S, k) = i
  <1> DEFINE R == {e \in S \X S : e[1] < e[2]}
             n == Cardinality(S)
  <1>1. n \in Nat
    BY FS_CardinalityType
  <1>2. \A i, j \in S : <<i, j>> \in R <=> i < j
    OBVIOUS
  <1> HIDE DEF R
  <1>3. StrictlyOrders(R, S)
    BY <1>2 DEF StrictlyOrders
  <1>4. \A i \in S : Below(S, R, i) = {j \in S : j < i}
    BY <1>2 DEF Below
  <1>5. ASSUME NEW k \in 1..n
        PROVE  Nth(S, k) \in S /\ Cardinality({j \in S : j < Nth(S, k)}) = k - 1
    <2>1. PICK p \in S : Cardinality(Below(S, R, p)) = k - 1
      BY <1>3, RanksTaken
    <2>2. Cardinality({j \in S : j < p}) = k - 1
      BY <1>4, <2>1
    <2> QED BY <2>2 DEF Nth
  <1>6. \A k \in 1..n : Cardinality(Below(S, R, Nth(S, k))) = k - 1
    BY <1>4, <1>5
  <1>7. ASSUME NEW k \in 1..n, NEW i \in S, Cardinality(Below(S, R, i)) = k - 1
        PROVE  Nth(S, k) = i
    <2>1. Nth(S, k) \in S /\ Cardinality(Below(S, R, Nth(S, k))) = Cardinality(Below(S, R, i))
      BY <1>5, <1>6, <1>7
    <2> QED BY <1>3, <2>1, RanksTaken
  <1>8. \A k, l \in 1..n : k < l <=> Nth(S, k) < Nth(S, l)
    <2> TAKE k, l \in 1..n
    <2>1. Nth(S, k) \in S /\ Nth(S, l) \in S
      BY <1>5
    <2>2. \A i, j \in S : Cardinality(Below(S, R, i)) < Cardinality(Below(S, R, j)) <=> <<i, j>> \in R
      BY <1>3, RanksTaken, RanksGrow
    <2>3. Cardinality(Below(S, R, Nth(S, k))) = k - 1 /\ Cardinality(Below(S, R, Nth(S, l))) = l - 1
      BY <1>6
    <2>4. k - 1 < l - 1 <=> <<Nth(S, k), Nth(S, l)>> \in R
      BY <2>1, <2>2, <2>3
    <2>5. <<Nth(S, k), Nth(S, l)>> \in R <=> Nth(S, k) < Nth(S, l)
      BY <1>2, <2>1
    <2> QED BY <1>1, <2>4, <2>5
  <1>9. ASSUME NEW i \in S PROVE \E k \in 1..n : Nth(S, k) = i
    <2>1. Cardinality(Below(S, R, i)) \in Nat /\ Cardinality(Below(S, R, i)) < n
      BY <1>3, RanksGrow
    <2> DEFINE k == Cardinality(Below(S, R, i)) + 1
    <2>2. k \in 1..n /\ Cardinality(Below(S, R, i)) = k - 1
      BY <1>1, <2>1
    <2> HIDE DEF k
    <2> QED BY <1>7, <2>2
  <1> QED BY <1>4, <1>5, <1>7, <1>8, <1>9

\* The k-th of the first n numbers.
LEMMA NthOfInterval ==
  ASSUME NEW n \in Nat, NEW k \in 1..n
  PROVE  Nth(1..n, k) = k
  <1>1. IsFiniteSet(1..n) /\ Cardinality(1..n) = n /\ (1..n) \in SUBSET Int
    BY FS_Interval
  <1>2. {j \in 1..n : j < k} = 1..(k - 1)
    OBVIOUS
  <1>3. Cardinality(1..(k - 1)) = k - 1
    BY FS_Interval
  <1>4. Cardinality({j \in 1..n : j < k}) = k - 1
    BY <1>2, <1>3
  <1>5. \A S \in SUBSET Int : IsFiniteSet(S) =>
          \A m \in 1..Cardinality(S), i \in S : Cardinality({j \in S : j < i}) = m - 1 => Nth(S, m) = i
    BY NthIs
  <1>6. k \in 1..Cardinality(1..n)
    BY <1>1
  <1>7. \A i \in 1..n : Cardinality({j \in 1..n : j < i}) = k - 1 => Nth(1..n, k) = i
    BY <1>1, <1>5, <1>6
  <1> QED BY <1>4, <1>7

\* The places of a file, by their number.
LEMMA NthPlaceIs ==
  ASSUME NEW P \in SUBSET (Int \X Int), IsFiniteSet(P)
  PROVE  /\ \A k \in 1..Cardinality(P) :
              /\ NthPlace(P, k) \in P
              /\ Cardinality({q \in P : Before(q, NthPlace(P, k))}) = k - 1
         /\ \A k \in 1..Cardinality(P), p \in P :
              Cardinality({q \in P : Before(q, p)}) = k - 1 => NthPlace(P, k) = p
  <1> DEFINE R == {e \in P \X P : Before(e[1], e[2])}
             n == Cardinality(P)
  <1>1. \A p, q \in P : <<p, q>> \in R <=> Before(p, q)
    OBVIOUS
  <1>2. /\ \A p \in P : ~Before(p, p)
        /\ \A p, q \in P : p = q \/ Before(p, q) \/ Before(q, p)
        /\ \A p, q, r \in P : Before(p, q) /\ Before(q, r) => Before(p, r)
    <2>1. \A p \in P : p = <<p[1], p[2]>> /\ p[1] \in Int /\ p[2] \in Int
      OBVIOUS
    <2>2. \A p, q \in P : p = q \/ Before(p, q) \/ Before(q, p)
      BY <2>1 DEF Before
    <2> QED BY <2>1, <2>2 DEF Before
  <1> HIDE DEF R
  <1>3. StrictlyOrders(R, P)
    BY <1>1, <1>2 DEF StrictlyOrders
  <1>4. \A p \in P : Below(P, R, p) = {q \in P : Before(q, p)}
    BY <1>1 DEF Below
  <1>5. ASSUME NEW k \in 1..n
        PROVE  /\ NthPlace(P, k) \in P
               /\ Cardinality({q \in P : Before(q, NthPlace(P, k))}) = k - 1
    <2>1. PICK p \in P : Cardinality(Below(P, R, p)) = k - 1
      BY <1>3, RanksTaken
    <2>2. Cardinality({q \in P : Before(q, p)}) = k - 1
      BY <1>4, <2>1
    <2> QED BY <2>2 DEF NthPlace
  <1>6. ASSUME NEW k \in 1..n, NEW p \in P, Cardinality({q \in P : Before(q, p)}) = k - 1
        PROVE  NthPlace(P, k) = p
    <2>1. /\ NthPlace(P, k) \in P
          /\ Cardinality(Below(P, R, NthPlace(P, k))) = Cardinality(Below(P, R, p))
      BY <1>4, <1>5, <1>6
    <2> QED BY <1>3, <2>1, RanksTaken
  <1> QED BY <1>5, <1>6

\* A map that keeps the order of places keeps their numbers.
LEMMA SameOrder ==
  ASSUME NEW P \in SUBSET (Int \X Int), IsFiniteSet(P),
         NEW Q \in SUBSET (Int \X Int), NEW h \in [Q -> P],
         \A p \in P : \E q \in Q : h[q] = p,
         \A p, q \in Q : Before(p, q) => Before(h[p], h[q])
  PROVE  /\ IsFiniteSet(Q) /\ Cardinality(Q) = Cardinality(P)
         /\ \A k \in 1..Cardinality(P) : NthPlace(P, k) = h[NthPlace(Q, k)]
  <1>1. /\ \A p \in P : ~Before(p, p)
        /\ \A p, q \in P : ~(Before(p, q) /\ Before(q, p))
        /\ \A p, q \in Q : p = q \/ Before(p, q) \/ Before(q, p)
    <2>1. \A p \in P \cup Q : p = <<p[1], p[2]>> /\ p[1] \in Int /\ p[2] \in Int
      OBVIOUS
    <2>2. \A p, q \in Q : p = q \/ Before(p, q) \/ Before(q, p)
      BY <2>1 DEF Before
    <2> QED BY <2>1, <2>2 DEF Before
  <1>2. \A p, q \in Q : h[p] = h[q] => p = q
    BY <1>1
  <1>3. \A p, q \in Q : Before(h[p], h[q]) => Before(p, q)
    BY <1>1
  <1>4. h \in Bijection(Q, P)
    BY <1>2 DEF Bijection, Injection, Surjection, IsInjective
  <1>5. ExistsBijection(P, Q)
    <2>1. ExistsBijection(Q, P)
      BY <1>4 DEF ExistsBijection
    <2> QED BY <2>1, Fun_ExistsBijSymmetric
  <1>6. IsFiniteSet(Q) /\ Cardinality(Q) = Cardinality(P)
    BY <1>5, FS_Bijection
  <1>7. ASSUME NEW k \in 1..Cardinality(P)
        PROVE  NthPlace(P, k) = h[NthPlace(Q, k)]
    <2> DEFINE q == NthPlace(Q, k)
               Earlier == {r \in Q : Before(r, q)}
               Images == {p \in P : Before(p, h[q])}
               f == [r \in Earlier |-> h[r]]
    <2>1. q \in Q /\ Cardinality(Earlier) = k - 1
      BY <1>6, NthPlaceIs
    <2> HIDE DEF q
    <2>2. f \in [Earlier -> Images]
      BY <2>1
    <2>3. \A r, s \in Earlier : f[r] = f[s] => r = s
      BY <1>2
    <2>4. \A p \in Images : \E r \in Earlier : f[r] = p
      <3> TAKE p \in Images
      <3>1. PICK r \in Q : h[r] = p
        OBVIOUS
      <3>2. r \in Earlier
        BY <1>3, <2>1, <3>1
      <3> QED BY <3>1, <3>2
    <2>5. IsFiniteSet(Earlier)
      BY <1>6, FS_Subset
    <2> HIDE DEF f, Earlier, Images
    <2>6. f \in Bijection(Earlier, Images)
      BY <2>2, <2>3, <2>4 DEF Bijection, Injection, Surjection, IsInjective
    <2>7. Cardinality(Images) = k - 1
      BY <2>1, <2>5, <2>6, FS_Bijection DEF ExistsBijection
    <2>8. h[q] \in P /\ Cardinality({p \in P : Before(p, h[q])}) = k - 1
      BY <2>1, <2>7 DEF Images
    <2>9. NthPlace(P, k) = h[q]
      BY <2>8, NthPlaceIs
    <2> QED BY <2>9 DEF q
  <1> QED BY <1>6, <1>7

-----------------------------------------------------------------------------
(* The hooks file.                                                         *)

Handlers == [ours: BOOLEAN, command: Watchdogs \cup Persons]
GroupLists == Seq(Seq(Handlers))

\* A selection of a sequence's elements.
LEMMA OnlyIs ==
  ASSUME NEW T, NEW s \in Seq(T), NEW S \in SUBSET (1..Len(s))
  PROVE  /\ IsFiniteSet(S) /\ Cardinality(S) \in Nat
         /\ Only(s, S) \in Seq(T) /\ Len(Only(s, S)) = Cardinality(S)
         /\ \A k \in 1..Cardinality(S) : Nth(S, k) \in S /\ Only(s, S)[k] = s[Nth(S, k)]
  <1>1. Len(s) \in Nat /\ IsFiniteSet(1..Len(s)) /\ S \in SUBSET Int
    BY FS_Interval
  <1>2. IsFiniteSet(S) /\ Cardinality(S) \in Nat
    BY <1>1, FS_Subset, FS_CardinalityType
  <1>3. \A k \in 1..Cardinality(S) : Nth(S, k) \in S
    BY <1>1, <1>2, NthIs
  <1>4. \A k \in 1..Cardinality(S) : s[Nth(S, k)] \in T
    <2>1. \A i \in S : s[i] \in T
      OBVIOUS
    <2> QED BY <1>3, <2>1
  <1>5. Only(s, S) = [k \in 1..Cardinality(S) |-> s[Nth(S, k)]]
    BY DEF Only
  <1> QED BY <1>2, <1>3, <1>4, <1>5

\* A selection of everything.
LEMMA OnlyAll ==
  ASSUME NEW T, NEW s \in Seq(T)
  PROVE  Only(s, 1..Len(s)) = s
  <1>1. Len(s) \in Nat /\ Cardinality(1..Len(s)) = Len(s)
    <2>1. Len(s) \in Nat
      OBVIOUS
    <2> QED BY <2>1, FS_Interval
  <1>2. \A k \in 1..Len(s) : Nth(1..Len(s), k) = k
    BY <1>1, NthOfInterval
  <1>3. Only(s, 1..Len(s)) = [k \in 1..Len(s) |-> s[Nth(1..Len(s), k)]]
    BY <1>1 DEF Only
  <1>4. Only(s, 1..Len(s)) = [k \in 1..Len(s) |-> s[k]]
    BY <1>2, <1>3
  <1> QED BY <1>4

\* Where the handlers of a file are.
LEMMA PlacesAre ==
  ASSUME NEW groups \in GroupLists
  PROVE  /\ Places(groups) \in SUBSET (Int \X Int) /\ IsFiniteSet(Places(groups))
         /\ \A i, j : <<i, j>> \in Places(groups)
              <=> i \in 1..Len(groups) /\ j \in 1..Len(groups[i])
         /\ \A p \in Places(groups) : p = <<p[1], p[2]>> /\ At(groups, p) \in Handlers
  <1>1. /\ Len(groups) \in Nat /\ DOMAIN groups = 1..Len(groups)
        /\ \A i \in 1..Len(groups) : /\ groups[i] \in Seq(Handlers) /\ Len(groups[i]) \in Nat
                                     /\ DOMAIN groups[i] = 1..Len(groups[i])
    BY DEF GroupLists
  <1>2. \A p : p \in Places(groups) <=> \E i \in 1..Len(groups) : p \in {i} \X (1..Len(groups[i]))
    BY <1>1 DEF Places
  <1>3. \A i, j : <<i, j>> \in Places(groups) <=> i \in 1..Len(groups) /\ j \in 1..Len(groups[i])
    BY <1>2
  <1>4. ASSUME NEW p \in Places(groups)
        PROVE  /\ p \in Int \X Int /\ p = <<p[1], p[2]>> /\ At(groups, p) \in Handlers
               /\ p[1] \in 1..Len(groups) /\ p[2] \in 1..Len(groups[p[1]])
    <2>1. PICK i \in 1..Len(groups) : p \in {i} \X (1..Len(groups[i]))
      BY <1>2
    <2>2. p = <<p[1], p[2]>> /\ p[1] = i /\ p[2] \in 1..Len(groups[i])
      BY <2>1
    <2> QED BY <1>1, <2>2 DEF At
  <1>5. IsFiniteSet(Places(groups))
    <2> DEFINE U == {{i} \X DOMAIN groups[i] : i \in 1..Len(groups)}
               f == [i \in 1..Len(groups) |-> {i} \X DOMAIN groups[i]]
    <2>1. IsFiniteSet(1..Len(groups))
      BY <1>1, FS_Interval
    <2>2. f \in Surjection(1..Len(groups), U)
      <3>1. f \in [1..Len(groups) -> U] /\ \A u \in U : \E i \in 1..Len(groups) : f[i] = u
        OBVIOUS
      <3> HIDE DEF f, U
      <3> QED BY <3>1 DEF Surjection
    <2>3. IsFiniteSet(U)
      <3> HIDE DEF f, U
      <3> QED BY <2>1, <2>2, FS_Surjection
    <2>4. \A u \in U : IsFiniteSet(u)
      <3> TAKE u \in U
      <3>1. PICK i \in 1..Len(groups) : u = {i} \X DOMAIN groups[i]
        OBVIOUS
      <3>2. IsFiniteSet({i})
        BY FS_Singleton
      <3>3. IsFiniteSet(1..Len(groups[i])) /\ DOMAIN groups[i] = 1..Len(groups[i])
        BY <1>1, FS_Interval
      <3> QED BY <3>1, <3>2, <3>3, FS_Product
    <2>5. Places(groups) = UNION U
      BY <1>1 DEF Places
    <2> HIDE DEF f, U
    <2> QED BY <2>3, <2>4, <2>5, FS_UNION
  <1> QED BY <1>3, <1>4, <1>5

\* removeOurEntries: the groups that stay, and what they keep.
Kept(groups) == {i \in DOMAIN groups : groups[i] = <<>> \/ Others(groups[i]) # {}}
Freed(groups) == [i \in DOMAIN groups |-> Only(groups[i], Others(groups[i]))]

LEMMA OthersAre ==
  ASSUME NEW groups \in GroupLists, NEW i \in 1..Len(groups)
  PROVE  /\ Others(groups[i]) \in SUBSET (1..Len(groups[i]))
         /\ IsFiniteSet(Others(groups[i])) /\ Cardinality(Others(groups[i])) \in Nat
         /\ Freed(groups)[i] \in Seq(Handlers)
         /\ Len(Freed(groups)[i]) = Cardinality(Others(groups[i]))
         /\ \A m \in 1..Cardinality(Others(groups[i])) :
              /\ Nth(Others(groups[i]), m) \in Others(groups[i])
              /\ Freed(groups)[i][m] = groups[i][Nth(Others(groups[i]), m)]
  <1>1. groups[i] \in Seq(Handlers) /\ i \in DOMAIN groups
    BY DEF GroupLists
  <1>2. Others(groups[i]) \in SUBSET (1..Len(groups[i]))
    BY <1>1 DEF Others
  <1>3. Freed(groups)[i] = Only(groups[i], Others(groups[i]))
    BY <1>1 DEF Freed
  <1> QED BY <1>1, <1>2, <1>3, OnlyIs

LEMMA WithoutOursIs ==
  ASSUME NEW groups \in GroupLists
  PROVE  /\ Kept(groups) \in SUBSET (1..Len(groups))
         /\ IsFiniteSet(Kept(groups)) /\ Cardinality(Kept(groups)) \in Nat
         /\ WithoutOurs(groups) \in GroupLists
         /\ Len(WithoutOurs(groups)) = Cardinality(Kept(groups))
         /\ \A k \in 1..Cardinality(Kept(groups)) :
              /\ Nth(Kept(groups), k) \in Kept(groups)
              /\ WithoutOurs(groups)[k] = Freed(groups)[Nth(Kept(groups), k)]
  <1>1. Kept(groups) \in SUBSET (1..Len(groups))
    BY DEF Kept, GroupLists
  <1>2. DOMAIN Freed(groups) = 1..Len(groups)
    BY DEF Freed, GroupLists
  <1>3. \A i \in 1..Len(groups) : Freed(groups)[i] \in Seq(Handlers)
    BY OthersAre
  <1>4. Len(groups) \in Nat
    BY DEF GroupLists
  <1>5. Freed(groups) = [i \in 1..Len(groups) |-> Freed(groups)[i]]
    BY <1>4 DEF Freed, GroupLists
  <1>6. Freed(groups) \in GroupLists /\ Len(Freed(groups)) = Len(groups)
    BY <1>3, <1>4, <1>5 DEF GroupLists
  <1>7. WithoutOurs(groups) = Only(Freed(groups), Kept(groups))
    BY DEF WithoutOurs, Freed, Kept
  <1> QED BY <1>1, <1>6, <1>7, OnlyIs DEF GroupLists

\* None of ours is left, and every place that is left is one of theirs.
LEMMA NoneOfOursLeft ==
  ASSUME NEW groups \in GroupLists
  PROVE  /\ OurPlaces(WithoutOurs(groups)) = {}
         /\ \A k, m, i, j :
              (<<k, m>> \in Places(WithoutOurs(groups)) /\ i = Nth(Kept(groups), k)
               /\ j = Nth(Others(groups[i]), m))
              => /\ k \in 1..Cardinality(Kept(groups)) /\ i \in Kept(groups)
                 /\ m \in 1..Cardinality(Others(groups[i])) /\ j \in Others(groups[i])
                 /\ <<i, j>> \in TheirPlaces(groups)
                 /\ At(WithoutOurs(groups), <<k, m>>) = At(groups, <<i, j>>)
  <1>1. ASSUME NEW k, NEW m, NEW i, NEW j, <<k, m>> \in Places(WithoutOurs(groups)),
               i = Nth(Kept(groups), k), j = Nth(Others(groups[i]), m)
        PROVE  /\ k \in 1..Cardinality(Kept(groups)) /\ i \in Kept(groups)
               /\ m \in 1..Cardinality(Others(groups[i])) /\ j \in Others(groups[i])
               /\ <<i, j>> \in TheirPlaces(groups)
               /\ At(WithoutOurs(groups), <<k, m>>) = At(groups, <<i, j>>)
               /\ ~At(WithoutOurs(groups), <<k, m>>).ours
    <2>1. /\ k \in 1..Len(WithoutOurs(groups))
          /\ m \in 1..Len(WithoutOurs(groups)[k])
      BY <1>1, PlacesAre, WithoutOursIs
    <2>2. k \in 1..Cardinality(Kept(groups)) /\ i \in Kept(groups) /\ i \in 1..Len(groups)
      BY <1>1, <2>1, WithoutOursIs
    <2>3. WithoutOurs(groups)[k] = Freed(groups)[i]
      BY <1>1, <2>2, WithoutOursIs
    <2>4. m \in 1..Cardinality(Others(groups[i])) /\ j \in Others(groups[i])
      BY <1>1, <2>1, <2>2, <2>3, OthersAre
    <2>5. j \in 1..Len(groups[i]) /\ WithoutOurs(groups)[k][m] = groups[i][j]
      BY <1>1, <2>2, <2>3, <2>4, OthersAre
    <2>6. <<i, j>> \in Places(groups)
      BY <2>2, <2>5, PlacesAre
    <2>7. ~groups[i][j].ours
      BY <2>4 DEF Others
    <2>8. <<i, j>> \in TheirPlaces(groups)
      BY <2>6, <2>7 DEF TheirPlaces, OurPlaces, At
    <2>9. At(WithoutOurs(groups), <<k, m>>) = At(groups, <<i, j>>)
      BY <2>5 DEF At
    <2>10. ~At(WithoutOurs(groups), <<k, m>>).ours
      BY <2>5, <2>7 DEF At
    <2> QED BY <2>2, <2>4, <2>8, <2>9, <2>10
  <1>2. OurPlaces(WithoutOurs(groups)) = {}
    <2> SUFFICES ASSUME NEW p \in Places(WithoutOurs(groups))
                 PROVE  ~At(WithoutOurs(groups), p).ours
      BY DEF OurPlaces
    <2>1. p = <<p[1], p[2]>>
      BY PlacesAre, WithoutOursIs
    <2>2. \E i, j : i = Nth(Kept(groups), p[1]) /\ j = Nth(Others(groups[i]), p[2])
      OBVIOUS
    <2> QED BY <1>1, <2>1, <2>2
  <1>3. \A k, m, i, j :
              (<<k, m>> \in Places(WithoutOurs(groups)) /\ i = Nth(Kept(groups), k)
               /\ j = Nth(Others(groups[i]), m))
              => /\ k \in 1..Cardinality(Kept(groups)) /\ i \in Kept(groups)
                 /\ m \in 1..Cardinality(Others(groups[i])) /\ j \in Others(groups[i])
                 /\ <<i, j>> \in TheirPlaces(groups)
                 /\ At(WithoutOurs(groups), <<k, m>>) = At(groups, <<i, j>>)
    <2> TAKE k, m, i, j
    <2> HAVE <<k, m>> \in Places(WithoutOurs(groups)) /\ i = Nth(Kept(groups), k)
               /\ j = Nth(Others(groups[i]), m)
    <2> QED BY <1>1
  <1> QED BY <1>2, <1>3, Zenon

\* The person's handlers stay, in their order.
LEMMA TheirsStay ==
  ASSUME NEW groups \in GroupLists
  PROVE  Theirs(WithoutOurs(groups)) = Theirs(groups)
  <1> DEFINE left == WithoutOurs(groups)
             K == Kept(groups)
             O(i) == Others(groups[i])
             P == TheirPlaces(groups)
             Q == TheirPlaces(left)
             h == [p \in Q |-> <<Nth(K, p[1]), Nth(O(Nth(K, p[1])), p[2])>>]
  <1>1. left \in GroupLists /\ Len(left) = Cardinality(K)
    BY WithoutOursIs
  <1>2. K \in SUBSET (1..Len(groups)) /\ IsFiniteSet(K) /\ Len(groups) \in Nat /\ K \in SUBSET Int
    BY WithoutOursIs DEF GroupLists
  <1>3. Q = Places(left)
    BY NoneOfOursLeft DEF TheirPlaces
  <1>4. /\ Q \in SUBSET (Int \X Int) /\ P \in SUBSET (Int \X Int) /\ IsFiniteSet(P)
        /\ \A p \in Q : p = <<p[1], p[2]>>
    BY <1>1, <1>3, PlacesAre, FS_Subset DEF TheirPlaces
  <1>5. ASSUME NEW p \in Q
        PROVE  /\ p[1] \in 1..Cardinality(K) /\ Nth(K, p[1]) \in K
               /\ p[2] \in 1..Cardinality(O(Nth(K, p[1])))
               /\ h[p] \in P /\ At(left, p) = At(groups, h[p])
    <2>1. p = <<p[1], p[2]>> /\ <<p[1], p[2]>> \in Places(left)
      BY <1>3, <1>4
    <2> QED BY <2>1, NoneOfOursLeft
  <1>6. h \in [Q -> P]
    BY <1>5
  <1>7. ASSUME NEW i \in 1..Len(groups)
        PROVE  /\ O(i) \in SUBSET (1..Len(groups[i])) /\ O(i) \in SUBSET Int /\ IsFiniteSet(O(i))
    BY OthersAre
  <1>8. ASSUME NEW p \in P PROVE \E q \in Q : h[q] = p
    <2>1. /\ p = <<p[1], p[2]>> /\ p[1] \in 1..Len(groups) /\ p[2] \in 1..Len(groups[p[1]])
          /\ p \in Places(groups)
      BY PlacesAre DEF TheirPlaces
    <2>2. ~groups[p[1]][p[2]].ours
      BY <2>1 DEF TheirPlaces, OurPlaces, At
    <2>3. p[2] \in O(p[1])
      BY <2>1, <2>2 DEF Others, GroupLists
    <2>4. p[1] \in K
      BY <2>1, <2>3 DEF Kept, GroupLists
    <2>5. PICK k \in 1..Cardinality(K) : Nth(K, k) = p[1]
      BY <1>2, <2>4, NthIs
    <2>6. PICK m \in 1..Cardinality(O(p[1])) : Nth(O(p[1]), m) = p[2]
      BY <1>7, <2>1, <2>3, NthIs
    <2>7. left[k] = Freed(groups)[p[1]] /\ Len(left[k]) = Cardinality(O(p[1]))
      BY <2>1, <2>5, WithoutOursIs, OthersAre
    <2>8. <<k, m>> \in Q
      BY <1>1, <1>3, <2>5, <2>6, <2>7, PlacesAre
    <2>9. h[<<k, m>>] = <<p[1], p[2]>>
      BY <2>5, <2>6, <2>8
    <2> QED BY <2>1, <2>8, <2>9
  <1>9. ASSUME NEW p \in Q, NEW q \in Q, Before(p, q) PROVE Before(h[p], h[q])
    <2>1. /\ p[1] \in 1..Cardinality(K) /\ q[1] \in 1..Cardinality(K)
          /\ h[p] = <<Nth(K, p[1]), Nth(O(Nth(K, p[1])), p[2])>>
          /\ h[q] = <<Nth(K, q[1]), Nth(O(Nth(K, q[1])), q[2])>>
      BY <1>5
    <2>2. CASE p[1] < q[1]
      <3>1. Nth(K, p[1]) < Nth(K, q[1])
        BY <1>2, <2>1, <2>2, NthIs
      <3> QED BY <2>1, <3>1 DEF Before
    <2>3. CASE p[1] = q[1] /\ p[2] < q[2]
      <3> DEFINE i == Nth(K, p[1])
      <3>1. i \in 1..Len(groups) /\ p[2] \in 1..Cardinality(O(i)) /\ q[2] \in 1..Cardinality(O(i))
        BY <1>2, <1>5, <2>3
      <3>2. Nth(O(i), p[2]) < Nth(O(i), q[2])
        <4> HIDE DEF i
        <4> QED BY <1>7, <2>3, <3>1, NthIs
      <3> QED BY <2>1, <2>3, <3>2 DEF Before
    <2> QED BY <1>9, <2>2, <2>3 DEF Before
  <1> HIDE DEF h, P, Q, K, O
  <1>10. /\ IsFiniteSet(Q) /\ Cardinality(Q) = Cardinality(P)
         /\ \A k \in 1..Cardinality(P) : NthPlace(P, k) = h[NthPlace(Q, k)]
    BY <1>4, <1>6, <1>8, <1>9, SameOrder
  <1>11. \A k \in 1..Cardinality(P) : At(left, NthPlace(Q, k)) = At(groups, NthPlace(P, k))
    <2> TAKE k \in 1..Cardinality(P)
    <2>1. NthPlace(Q, k) \in Q
      BY <1>4, <1>10, NthPlaceIs
    <2> QED BY <1>5, <1>10, <2>1
  <1>12. Theirs(groups) = [k \in 1..Cardinality(P) |-> At(groups, NthPlace(P, k))]
    BY DEF Theirs, P
  <1>13. Theirs(left) = [k \in 1..Cardinality(Q) |-> At(left, NthPlace(Q, k))]
    BY DEF Theirs, Q
  <1>14. [k \in 1..Cardinality(P) |-> At(left, NthPlace(Q, k))]
           = [k \in 1..Cardinality(P) |-> At(groups, NthPlace(P, k))]
    BY <1>11
  <1> QED BY <1>10, <1>12, <1>13, <1>14

\* upsertOurEntries: ours is there once, at the end, and theirs are as they were.
LEMMA UpsertedIs ==
  ASSUME NEW groups \in GroupLists, NEW command \in Watchdogs
  PROVE  /\ Upserted(groups, command) \in GroupLists
         /\ OurPlaces(Upserted(groups, command)) = {<<Len(Upserted(groups, command)), 1>>}
         /\ EntriesMatch(Upserted(groups, command), command)
         /\ Theirs(Upserted(groups, command)) = Theirs(groups)
  <1> DEFINE left == WithoutOurs(groups)
             n == Len(left)
             new == Upserted(groups, command)
  <1>1. left \in GroupLists /\ n \in Nat /\ OurPlaces(left) = {}
    BY WithoutOursIs, NoneOfOursLeft DEF GroupLists
  <1>2. /\ Our(command) \in Handlers /\ Our(command).ours
        /\ <<Our(command)>> \in Seq(Handlers) /\ Len(<<Our(command)>>) = 1
        /\ <<Our(command)>>[1] = Our(command)
    BY DEF Our, Handler, Handlers
  <1> HIDE DEF left
  <1>3. /\ new \in GroupLists /\ Len(new) = n + 1 /\ new[n + 1] = <<Our(command)>>
        /\ \A i \in 1..n : new[i] = left[i]
    BY <1>1, <1>2 DEF Upserted, GroupLists, left
  <1> HIDE DEF new, n
  <1>4. Places(new) = Places(left) \cup {<<n + 1, 1>>}
    <2>1. ASSUME NEW p \in Places(new) PROVE p \in Places(left) \cup {<<n + 1, 1>>}
      <3>1. /\ p = <<p[1], p[2]>> /\ p[1] \in 1..(n + 1) /\ p[2] \in 1..Len(new[p[1]])
        BY <1>3, PlacesAre
      <3>2. CASE p[1] \in 1..n
        BY <1>1, <1>3, <3>1, <3>2, PlacesAre DEF n
      <3>3. CASE p[1] = n + 1
        <4>1. new[p[1]] = <<Our(command)>> /\ Len(new[p[1]]) = 1
          BY <1>2, <1>3, <3>3
        <4>2. p[2] \in 1..1
          BY <3>1, <4>1
        <4>3. p[2] = 1
          BY <4>2
        <4> QED BY <3>1, <3>3, <4>3
      <3> QED BY <1>1, <3>1, <3>2, <3>3
    <2>2. ASSUME NEW p \in Places(left) PROVE p \in Places(new)
      <3>1. p = <<p[1], p[2]>> /\ p[1] \in 1..n /\ p[2] \in 1..Len(left[p[1]])
        BY <1>1, PlacesAre DEF n
      <3>2. p[1] \in 1..(n + 1) /\ p[2] \in 1..Len(new[p[1]])
        BY <1>1, <1>3, <3>1
      <3> QED BY <1>3, <3>1, <3>2, PlacesAre
    <2>3. <<n + 1, 1>> \in Places(new)
      <3>1. n + 1 \in 1..Len(new) /\ 1 \in 1..Len(new[n + 1])
        BY <1>1, <1>2, <1>3
      <3> QED BY <1>3, <3>1, PlacesAre
    <2> QED BY <2>1, <2>2, <2>3
  <1>5. At(new, <<n + 1, 1>>) = Our(command)
    BY <1>2, <1>3 DEF At
  <1>6. \A p \in Places(left) : At(new, p) = At(left, p) /\ ~At(new, p).ours
    <2> TAKE p \in Places(left)
    <2>1. p = <<p[1], p[2]>> /\ p[1] \in 1..n
      BY <1>1, PlacesAre DEF n
    <2>2. At(new, p) = At(left, p)
      BY <1>3, <2>1 DEF At
    <2>3. ~At(left, p).ours
      BY <1>1 DEF OurPlaces
    <2> QED BY <2>2, <2>3
  <1>7. OurPlaces(new) = {<<n + 1, 1>>}
    BY <1>2, <1>4, <1>5, <1>6 DEF OurPlaces
  <1>8. EntriesMatch(new, command)
    BY <1>4, <1>5, <1>7 DEF EntriesMatch
  <1>9. TheirPlaces(new) = TheirPlaces(left) /\ TheirPlaces(left) = Places(left)
    <2>1. <<n + 1, 1>> \notin Places(left)
      <3>1. ~(n + 1 \in 1..n)
        BY <1>1
      <3> QED BY <1>1, <3>1, PlacesAre DEF n
    <2> QED BY <1>1, <1>4, <1>7, <2>1 DEF TheirPlaces
  <1>10. Theirs(new) = Theirs(left)
    <2> DEFINE P == TheirPlaces(left)
    <2>1. P \in SUBSET (Int \X Int) /\ IsFiniteSet(P) /\ P = Places(left)
      BY <1>1, <1>9, PlacesAre
    <2> HIDE DEF P
    <2>2. \A k \in 1..Cardinality(P) : At(new, NthPlace(P, k)) = At(left, NthPlace(P, k))
      BY <1>6, <2>1, NthPlaceIs
    <2>3. [k \in 1..Cardinality(P) |-> At(new, NthPlace(P, k))]
            = [k \in 1..Cardinality(P) |-> At(left, NthPlace(P, k))]
      BY <2>2
    <2> QED BY <1>9, <2>3 DEF Theirs, P
  <1>11. Theirs(left) = Theirs(groups)
    BY TheirsStay DEF left
  <1> QED BY <1>3, <1>7, <1>8, <1>10, <1>11 DEF new

\* What is at the end of the file already stays there.
LEMMA UpsertedStays ==
  ASSUME NEW groups \in GroupLists, NEW command, groups # <<>>,
         groups[Len(groups)] = <<Our(command)>>,
         OurPlaces(groups) = {<<Len(groups), 1>>}
  PROVE  Upserted(groups, command) = groups
  <1> DEFINE n == Len(groups) - 1
  <1>1. n \in Nat /\ Len(groups) = n + 1 /\ DOMAIN groups = 1..(n + 1)
    BY DEF GroupLists
  <1> HIDE DEF n
  <1>2. ASSUME NEW i \in 1..n
        PROVE  Others(groups[i]) = 1..Len(groups[i]) /\ Freed(groups)[i] = groups[i]
    <2>1. i \in 1..Len(groups) /\ groups[i] \in Seq(Handlers) /\ i # Len(groups)
      BY <1>1 DEF GroupLists
    <2>2. \A j \in 1..Len(groups[i]) : ~groups[i][j].ours
      <3> TAKE j \in 1..Len(groups[i])
      <3>1. <<i, j>> \in Places(groups) /\ <<i, j>> \notin OurPlaces(groups)
        BY <2>1, PlacesAre
      <3> QED BY <3>1 DEF OurPlaces, At
    <2>3. Others(groups[i]) = 1..Len(groups[i])
      BY <2>1, <2>2 DEF Others
    <2>4. Only(groups[i], 1..Len(groups[i])) = groups[i]
      BY <2>1, OnlyAll
    <2> QED BY <1>1, <2>1, <2>3, <2>4 DEF Freed
  <1>3. Kept(groups) = 1..n
    <2>1. Others(groups[n + 1]) = {} /\ groups[n + 1] # <<>>
      <3>1. groups[n + 1] = <<Our(command)>>
        BY <1>1
      <3>2. DOMAIN groups[n + 1] = {1} /\ groups[n + 1][1].ours
        BY <3>1 DEF Our, Handler
      <3> QED BY <3>1, <3>2 DEF Others
    <2>2. \A i \in 1..n : groups[i] = <<>> \/ Others(groups[i]) # {}
      <3> TAKE i \in 1..n
      <3>1. groups[i] \in Seq(Handlers)
        BY <1>1 DEF GroupLists
      <3>2. groups[i] # <<>> => 1 \in 1..Len(groups[i])
        BY <3>1
      <3> QED BY <1>2, <3>2
    <2>3. 1..(n + 1) = (1..n) \cup {n + 1} /\ n + 1 \notin 1..n
      BY <1>1
    <2> QED BY <1>1, <2>1, <2>2, <2>3 DEF Kept
  <1>4. Cardinality(1..n) = n /\ \A k \in 1..n : Nth(1..n, k) = k
    BY <1>1, FS_Interval, NthOfInterval
  <1>5. /\ WithoutOurs(groups) \in GroupLists /\ Len(WithoutOurs(groups)) = n
        /\ \A k \in 1..n : WithoutOurs(groups)[k] = groups[k]
    BY <1>2, <1>3, <1>4, WithoutOursIs
  <1>6. <<Our(command)>> = groups[n + 1] /\ groups[n + 1] \in Seq(Handlers)
    BY <1>1 DEF GroupLists
  <1> HIDE DEF GroupLists
  <1>7. Upserted(groups, command) = Append(WithoutOurs(groups), groups[n + 1])
    BY <1>6 DEF Upserted
  <1>8. /\ Upserted(groups, command) \in GroupLists
        /\ Len(Upserted(groups, command)) = n + 1
        /\ Upserted(groups, command)[n + 1] = groups[n + 1]
        /\ \A k \in 1..n : Upserted(groups, command)[k] = groups[k]
    BY <1>1, <1>5, <1>6, <1>7 DEF GroupLists
  <1> QED BY <1>1, <1>8 DEF GroupLists

-----------------------------------------------------------------------------
(* What holds of the files and of each window.                             *)

Files == {None} \cup HookFiles

Typed ==
  /\ watchdog \in Watchdogs
  /\ hooks \in [Agents -> Files]
  /\ theirs = [a \in Agents |-> theirs[a]]
  /\ win = [w \in Windows |-> win[w]]
  /\ vouched \in BOOLEAN

\* A window: only an installation writes the script and the wrapper, what is
\* about to be written holds the person's handlers, and what Codex has been
\* told to trust is not about to be written at all; both but for a file that
\* could not be read.
Installs(task) == task.do \in {"rearm", "arm", "connect"}
Fine(x, trusted) ==
  /\ x = [todo |-> x.todo, at |-> x.at, held |-> x.held]
  /\ x.at \in {"script", "wrapper"} => Installs(Head(x.todo))
  /\ x.at = "write" /\ Head(x.todo).agent \in Agents =>
       /\ x.held.was \in Files /\ x.held.becomes \in GroupLists
       /\ Theirs(x.held.becomes) = Theirs(Groups(x.held.was)) \/ x.held.blind
  /\ trusted /\ x.at \in {"read", "write"} /\ Head(x.todo).agent = Codex =>
       (x.at = "read" /\ Installs(Head(x.todo))) \/ (x.at = "write" /\ x.held.blind)
WindowsFine == \A w \in Windows : win[w] # None => Fine(win[w], vouched)

\* The trusted handler is the only one of ours and the last of the file.
LastIsOurs(groups, command) ==
  /\ groups # <<>> /\ groups[Len(groups)] = <<Our(command)>>
  /\ OurPlaces(groups) = {<<Len(groups), 1>>}
TrustPlaced ==
  LET groups == Groups(hooks[Codex]) IN
  vouched => /\ LastIsOurs(groups, watchdog)
             /\ <<Len(groups), 1>> \in DOMAIN trust
             /\ trust[<<Len(groups), 1>>] = Our(watchdog)

ArmingInv == Typed /\ WindowsFine /\ PersonsHooksKept /\ TrustPlaced

\* What a file holds, whether it is there or not.
LEMMA GroupsTyped ==
  ASSUME NEW file \in Files
  PROVE  /\ Groups(file) \in GroupLists
         /\ file # None => file \in HookFiles /\ Groups(file) = file.groups
  <1>1. CASE file = None
    BY <1>1 DEF Groups, GroupLists
  <1>2. CASE file # None
    BY <1>2 DEF Files, HookFiles, Groups, GroupLists, Handlers
  <1> QED BY <1>1, <1>2

LEMMA FileOf ==
  ASSUME NEW groups \in GroupLists, NEW ok \in BOOLEAN
  PROVE  /\ [ok |-> ok, groups |-> groups] \in Files
         /\ Groups([ok |-> ok, groups |-> groups]) = groups
  <1>1. [ok |-> ok, groups |-> groups] \in HookFiles
    BY DEF HookFiles, GroupLists, Handlers
  <1> QED BY <1>1, HooksAssumption DEF Files, Groups

\* A window at rest, and one that goes on with its task.
LEMMA IdleIsFine == \A todo, trusted : Fine(Window(todo), trusted)
  BY DEF Fine, Window

LEMMA EntersIs ==
  ASSUME Typed, WindowsFine, NEW w \in Windows, Up(w), NEW at, NEW held, Enter(w, at, held)
  PROVE  win' = [win EXCEPT ![w] = [todo |-> win[w].todo, at |-> at, held |-> held]]
  <1>1. win[w] = [todo |-> win[w].todo, at |-> win[w].at, held |-> win[w].held]
    BY Zenon DEF WindowsFine, Fine, Up
  <1>2. [win[w] EXCEPT !.at = at, !.held = held] = [todo |-> win[w].todo, at |-> at, held |-> held]
    <2>1. [win[w] EXCEPT !.at = at, !.held = held]
            = [f \in DOMAIN win[w] |-> IF f = "held" THEN held ELSE IF f = "at" THEN at ELSE win[w][f]]
      OBVIOUS
    <2>2. PICK t, a, h : win[w] = [todo |-> t, at |-> a, held |-> h] /\ t = win[w].todo
      BY <1>1, Zenon
    <2> QED BY <2>1, <2>2
  <1>3. w \in DOMAIN win
    BY DEF Typed
  <1> QED BY <1>2, <1>3 DEF Enter

\* One window changes, and nobody is told to trust more.
LEMMA WindowsStayFine ==
  ASSUME Typed, WindowsFine, NEW w \in Windows, NEW x, win' = [win EXCEPT ![w] = x],
         x = None \/ Fine(x, vouched'), vouched' \in BOOLEAN, vouched' => vouched
  PROVE  WindowsFine' /\ win' = [v \in Windows |-> win'[v]]
  <1>1. win' = [v \in Windows |-> win'[v]] /\ win'[w] = x
        /\ \A v \in Windows \ {w} : win'[v] = win[v]
    BY DEF Typed
  <1>2. ASSUME NEW v \in Windows, win'[v] # None PROVE Fine(win'[v], vouched')
    <2>1. CASE v = w
      BY <1>1, <1>2, <2>1
    <2>2. CASE v # w
      <3>1. win'[v] = win[v] /\ Fine(win[v], vouched)
        BY <1>1, <1>2, <2>2 DEF WindowsFine
      <3>2. Fine(win[v], vouched')
        BY <3>1 DEF Fine
      <3> QED BY <3>1, <3>2
    <2> QED BY <2>1, <2>2
  <1> QED BY <1>1, <1>2 DEF WindowsFine

\* A step that leaves the hooks files and what is said of them alone.
Unhurt == /\ UNCHANGED <<hooks, theirs, watchdog, raced, lost, trust>>
          /\ vouched' \in BOOLEAN /\ (vouched' => vouched)

LEMMA UnhurtKeeps ==
  ASSUME ArmingInv, Unhurt, NEW w \in Windows, NEW x, win' = [win EXCEPT ![w] = x],
         x = None \/ Fine(x, vouched')
  PROVE  ArmingInv'
  <1>1. WindowsFine' /\ win' = [v \in Windows |-> win'[v]]
    BY WindowsStayFine DEF ArmingInv, Unhurt
  <1>2. Typed'
    BY <1>1 DEF ArmingInv, Typed, Unhurt
  <1>3. PersonsHooksKept'
    BY DEF ArmingInv, PersonsHooksKept, Unhurt
  <1>4. TrustPlaced'
    BY DEF ArmingInv, TrustPlaced, Unhurt
  <1> QED BY <1>1, <1>2, <1>3, <1>4 DEF ArmingInv

\* The steps that end a task or begin another.
LEMMA IdleStepsKeep ==
  ASSUME ArmingInv, NEW w \in Windows,
         \/ Start(w) \/ Check(w) \/ EnsureArmed(w) \/ DetectFails(w) \/ Greet(w)
         \/ Connect(w) \/ Disconnect(w) \/ DoctorRearms(w) \/ FillState(w) \/ Fail(w) \/ Crash(w)
  PROVE  ArmingInv'
  <1>1. Unhurt
    <2>1. vouched \in BOOLEAN
      BY DEF ArmingInv, Typed
    <2>2. UNCHANGED <<hooks, theirs, watchdog, raced, lost, trust, vouched>>
      <3>1. CASE Start(w)
        BY <3>1 DEF Start, person, files, mishaps
      <3>2. CASE Check(w) \/ EnsureArmed(w) \/ Greet(w)
        BY <3>2 DEF Check, EnsureArmed, Greet, Thinks, StepOf, person, files, mishaps
      <3>3. CASE DetectFails(w) \/ Fail(w) \/ Crash(w)
        BY <3>3 DEF DetectFails, Fail, Crash, person, files, mishaps
      <3>4. CASE Connect(w) \/ Disconnect(w) \/ DoctorRearms(w)
        BY <3>4 DEF Connect, Disconnect, DoctorRearms, Command, person, files, mishaps
      <3>5. CASE FillState(w)
        BY <3>5 DEF FillState, StepOf, person, mishaps
      <3> QED BY <3>1, <3>2, <3>3, <3>4, <3>5
    <2> QED BY <2>1, <2>2 DEF Unhurt
  <1>2. CASE Crash(w)
    BY <1>1, <1>2, UnhurtKeeps DEF Crash
  <1>3. CASE ~Crash(w)
    <2>1. \E todo : Becomes(w, todo)
      BY <1>3, Zenon DEF Start, Check, EnsureArmed, DetectFails, Greet, Connect, Disconnect,
         DoctorRearms, FillState, Fail, Command, Done
    <2>2. PICK todo : win' = [win EXCEPT ![w] = Window(todo)]
      BY <2>1 DEF Becomes
    <2> QED BY <1>1, <2>2, IdleIsFine, UnhurtKeeps
  <1> QED BY <1>2, <1>3

\* The steps of a task that leave the hooks files alone.
LEMMA TaskStepsKeep ==
  ASSUME ArmingInv, NEW w \in Windows,
         \/ Rearm(w) \/ Arm(w) \/ StartInstall(w) \/ InstallScript(w) \/ InstallWrapper(w)
         \/ StartUninstall(w) \/ StartUpdate(w) \/ OpenState(w)
  PROVE  ArmingInv'
  <1> DEFINE X(at, held) == [todo |-> win[w].todo, at |-> at, held |-> held]
  <1>1. Typed /\ WindowsFine /\ vouched \in BOOLEAN
    BY DEF ArmingInv, Typed
  <1>2. ASSUME Up(w), NEW at, NEW held, Enter(w, at, held) PROVE win' = [win EXCEPT ![w] = X(at, held)]
    BY <1>1, <1>2, EntersIs
  <1>3. Up(w)
    BY Zenon DEF Rearm, Arm, StartInstall, InstallScript, InstallWrapper, StartUninstall, StartUpdate,
       OpenState, Turn, AtRest, Stage
  <1>4. Fine(win[w], vouched)
    BY <1>1, <1>3 DEF WindowsFine, Up
  <1>5. CASE Rearm(w) \/ Arm(w)
    <2>1. Unhurt
      BY <1>1, <1>5 DEF Rearm, Arm, Thinks, StepOf, person, files, mishaps, Unhurt
    <2>2. Done(w) \/ Enter(w, "script", None)
      BY <1>5, Zenon DEF Rearm, Arm
    <2>3. Installs(Head(win[w].todo))
      BY <1>5 DEF Rearm, Arm, Turn, Now, Installs
    <2>4. CASE Done(w)
      <3>1. win' = [win EXCEPT ![w] = Window(Tail(win[w].todo))]
        BY <2>4 DEF Done, Becomes
      <3> QED BY <2>1, <3>1, IdleIsFine, UnhurtKeeps
    <2>5. CASE Enter(w, "script", None)
      <3>1. win' = [win EXCEPT ![w] = X("script", None)]
        BY <1>2, <1>3, <2>5
      <3>2. Fine(X("script", None), vouched')
        BY <2>3 DEF Fine
      <3> QED BY <2>1, <3>1, <3>2, UnhurtKeeps
    <2> QED BY <2>2, <2>4, <2>5
  <1>6. CASE StartInstall(w)
    <2>1. Unhurt
      BY <1>1, <1>6 DEF StartInstall, Thinks, StepOf, person, files, mishaps, Unhurt
    <2>2. win' = [win EXCEPT ![w] = X("script", None)]
      BY <1>2, <1>3, <1>6 DEF StartInstall
    <2>3. Fine(X("script", None), vouched')
      BY <1>6 DEF StartInstall, Turn, Now, Installs, Fine
    <2> QED BY <2>1, <2>2, <2>3, UnhurtKeeps
  <1>7. CASE InstallScript(w)
    <2>1. Unhurt
      BY <1>1, <1>7 DEF InstallScript, StepOf, person, mishaps, Unhurt
    <2>2. win' = [win EXCEPT ![w] = X("wrapper", None)]
      BY <1>2, <1>3, <1>7 DEF InstallScript
    <2>3. Fine(X("wrapper", None), vouched')
      BY <1>3, <1>4, <1>7 DEF InstallScript, Stage, Fine
    <2> QED BY <2>1, <2>2, <2>3, UnhurtKeeps
  <1>8. CASE InstallWrapper(w)
    <2>1. Unhurt
      BY <1>1, <1>8 DEF InstallWrapper, StepOf, person, mishaps, Unhurt
    <2>2. win' = [win EXCEPT ![w] = X("read", None)]
      BY <1>2, <1>3, <1>8 DEF InstallWrapper
    <2>3. Fine(X("read", None), vouched')
      BY <1>3, <1>4, <1>8 DEF InstallWrapper, Stage, Fine
    <2> QED BY <2>1, <2>2, <2>3, UnhurtKeeps
  <1>9. CASE StartUninstall(w)
    <2>1. Unhurt
      BY <1>1, <1>9 DEF StartUninstall, files, mishaps, Unhurt
    <2>2. win' = [win EXCEPT ![w] = X("read", None)]
      BY <1>2, <1>3, <1>9 DEF StartUninstall
    <2>3. Fine(X("read", None), vouched')
      BY <1>9 DEF StartUninstall, Now, Fine
    <2> QED BY <2>1, <2>2, <2>3, UnhurtKeeps
  <1>10. CASE StartUpdate(w)
    <2>1. Unhurt
      BY <1>1, <1>10 DEF StartUpdate, Thinks, StepOf, person, files, mishaps, Unhurt
    <2>2. win' = [win EXCEPT ![w] = X("open", None)]
      BY <1>2, <1>3, <1>10 DEF StartUpdate
    <2>3. Fine(X("open", None), vouched')
      BY DEF Fine
    <2> QED BY <2>1, <2>2, <2>3, UnhurtKeeps
  <1>11. CASE OpenState(w)
    <2>1. Unhurt
      BY <1>1, <1>11 DEF OpenState, StepOf, person, mishaps, Unhurt
    <2>2. win' = [win EXCEPT ![w] = X("fill", Read)]
      BY <1>2, <1>3, <1>11 DEF OpenState
    <2>3. Fine(X("fill", Read), vouched')
      BY DEF Fine
    <2> QED BY <2>1, <2>2, <2>3, UnhurtKeeps
  <1> QED BY <1>5, <1>6, <1>7, <1>8, <1>9, <1>10, <1>11

\* Reading a hooks file: what is to be written holds the person's handlers,
\* and where Codex trusts our entry nothing is to be written.
LEMMA ReadHooksKeeps ==
  ASSUME ArmingInv, NEW w \in Windows, ReadHooks(w)
  PROVE  ArmingInv'
  <1> DEFINE a == Now(w).agent
             file == hooks[a]
             was == Groups(Seen(a))
             onto == [was |-> file, becomes |-> Edited(w, was), blind |-> a \in unreadable]
             X(at, held) == [todo |-> win[w].todo, at |-> at, held |-> held]
  <1>1. Typed /\ WindowsFine /\ Up(w) /\ win[w].at = "read"
    BY Zenon DEF ArmingInv, ReadHooks, Stage
  <1>2. Unhurt
    BY <1>1 DEF ReadHooks, Thinks, StepOf, person, files, mishaps, Unhurt, Typed
  <1>3. Fine(win[w], vouched) /\ a = Head(win[w].todo).agent
    BY <1>1 DEF WindowsFine, Up, Now
  <1>4. \/ Done(w)
        \/ Enter(w, "open", None)
        \/ Edited(w, was) # was /\ Enter(w, "write", onto)
    BY Zenon DEF ReadHooks
  <1>5. CASE Done(w)
    <2>1. win' = [win EXCEPT ![w] = Window(Tail(win[w].todo))]
      BY <1>5 DEF Done, Becomes
    <2> QED BY <1>2, <2>1, IdleIsFine, UnhurtKeeps
  <1>6. CASE Enter(w, "open", None)
    <2>1. win' = [win EXCEPT ![w] = X("open", None)]
      BY <1>1, <1>6, EntersIs
    <2>2. Fine(X("open", None), vouched')
      BY DEF Fine
    <2> QED BY <1>2, <2>1, <2>2, UnhurtKeeps
  <1>7. CASE Edited(w, was) # was /\ Enter(w, "write", onto)
    <2>1. win' = [win EXCEPT ![w] = X("write", onto)]
      BY <1>1, <1>7, EntersIs
    <2>2. ASSUME vouched, a = Codex PROVE a \in unreadable
      <3> SUFFICES ASSUME a \notin unreadable PROVE FALSE
        OBVIOUS
      <3>1. Installing(w)
        BY <1>1, <1>3, <2>2 DEF Fine, Installing, Installs, Now
      <3>2. LastIsOurs(was, watchdog) /\ was \in GroupLists
        <4>1. was = Groups(hooks[Codex])
          BY <2>2 DEF Seen
        <4>2. LastIsOurs(Groups(hooks[Codex]), watchdog) /\ Groups(hooks[Codex]) \in GroupLists
          BY <1>1, <2>2, GroupsTyped DEF ArmingInv, TrustPlaced, Typed, Agents
        <4> QED BY <4>1, <4>2
      <3>3. Edited(w, was) = Upserted(was, watchdog)
        BY <3>1 DEF Edited
      <3>4. Upserted(was, watchdog) = was
        BY <3>2, UpsertedStays DEF LastIsOurs
      <3> QED BY <1>7, <3>3, <3>4
    <2>3. a \in Agents => /\ file \in Files /\ Edited(w, was) \in GroupLists
                          /\ Theirs(Edited(w, was)) = Theirs(Groups(file)) \/ a \in unreadable
      <3> SUFFICES ASSUME a \in Agents
                   PROVE  /\ file \in Files /\ Edited(w, was) \in GroupLists
                          /\ Theirs(Edited(w, was)) = Theirs(Groups(file)) \/ a \in unreadable
        OBVIOUS
      <3>1. file \in Files /\ was \in GroupLists
        BY <1>1, GroupsTyped DEF Typed, Seen, Files
      <3>2. watchdog \in Watchdogs
        BY <1>1 DEF Typed
      <3>3. Edited(w, was) \in {Upserted(was, watchdog), WithoutOurs(was)}
        BY Zenon DEF Edited
      <3>4. was = Groups(file) \/ a \in unreadable
        BY DEF Seen
      <3> HIDE DEF was, file
      <3>5. Edited(w, was) \in GroupLists /\ Theirs(Edited(w, was)) = Theirs(was)
        BY <3>1, <3>2, <3>3, UpsertedIs, WithoutOursIs, TheirsStay
      <3> QED BY <3>1, <3>4, <3>5
    <2>4. Fine(X("write", onto), vouched')
      <3> DEFINE blind == a \in unreadable
      <3>1. onto.was = file /\ onto.becomes = Edited(w, was) /\ onto.blind = blind
        OBVIOUS
      <3> HIDE DEF onto
      <3> QED BY <1>2, <1>3, <2>2, <2>3, <3>1 DEF Fine, Unhurt
    <2> HIDE DEF onto
    <2> QED BY <1>2, <2>1, <2>4, UnhurtKeeps
  <1> QED BY <1>4, <1>5, <1>6, <1>7

\* Writing it: the file holds what the person put there, unless somebody
\* wrote it in the meantime; what Codex trusts is not touched.
LEMMA WriteHooksKeeps ==
  ASSUME ArmingInv, NEW w \in Windows, WriteHooks(w)
  PROVE  ArmingInv'
  <1> DEFINE a == Now(w).agent
             held == win[w].held
             x == [todo |-> win[w].todo, at |-> "open", held |-> None]
  <1>1. Typed /\ WindowsFine /\ Up(w) /\ win[w].at = "write"
    BY Zenon DEF ArmingInv, WriteHooks, Stage
  <1>2. Fine(win[w], vouched) /\ a = Head(win[w].todo).agent
    BY <1>1 DEF WindowsFine, Up, Now
  <1>3. /\ hooks' = [hooks EXCEPT ![a] = [ok |-> TRUE, groups |-> held.becomes]]
        /\ raced' = (raced \/ held.was # hooks[a])
        /\ lost' = IF held.blind THEN lost \cup {a} ELSE lost
        /\ vouched' = (vouched /\ ~(held.blind /\ a = Codex))
        /\ UNCHANGED <<theirs, watchdog, trust>>
    BY DEF WriteHooks
  <1>0. vouched' \in BOOLEAN /\ (vouched' => vouched)
    BY <1>3
  <1>4. WindowsFine' /\ win' = [v \in Windows |-> win'[v]]
    <2>1. win' = [win EXCEPT ![w] = x]
      BY <1>1, EntersIs DEF WriteHooks
    <2>2. Fine(x, vouched')
      BY DEF Fine
    <2> QED BY <1>0, <1>1, <2>1, <2>2, WindowsStayFine
  <1>5. a \in Agents => /\ held.becomes \in GroupLists /\ held.was \in Files
                        /\ Theirs(held.becomes) = Theirs(Groups(held.was)) \/ held.blind
                        /\ [ok |-> TRUE, groups |-> held.becomes] \in Files
                        /\ Groups([ok |-> TRUE, groups |-> held.becomes]) = held.becomes
    BY <1>1, <1>2, FileOf DEF Fine
  <1> HIDE DEF held, a
  <1>6. hooks' \in [Agents -> Files] /\ \A b \in Agents \ {a} : hooks'[b] = hooks[b]
    BY <1>1, <1>3, <1>5 DEF Typed
  <1>7. a \in Agents => hooks'[a] = [ok |-> TRUE, groups |-> held.becomes]
    BY <1>1, <1>3 DEF Typed
  <1>8. Typed'
    BY <1>0, <1>1, <1>3, <1>4, <1>6 DEF Typed
  <1>9. PersonsHooksKept'
    <2> SUFFICES ASSUME ~raced', NEW b \in Agents, b \notin lost'
                 PROVE  Theirs(Groups(hooks'[b])) = theirs'[b]
      BY DEF PersonsHooksKept
    <2>1. Theirs(Groups(hooks[b])) = theirs[b] /\ held.was = hooks[a] /\ (b = a => ~held.blind)
      BY <1>3 DEF ArmingInv, PersonsHooksKept
    <2>2. CASE b = a
      BY <1>3, <1>5, <1>7, <2>1, <2>2
    <2>3. CASE b # a
      BY <1>3, <1>6, <2>1, <2>3
    <2> QED BY <2>2, <2>3
  <1>10. TrustPlaced'
    <2> SUFFICES ASSUME vouched' PROVE TrustPlaced'
      BY DEF TrustPlaced
    <2>1. vouched /\ ~(held.blind /\ a = Codex)
      BY <1>3
    <2>2. a # Codex
      BY <1>1, <1>2, <2>1 DEF Fine, held
    <2>3. hooks'[Codex] = hooks[Codex]
      BY <1>6, <2>2 DEF Agents
    <2> QED BY <1>3, <2>1, <2>3 DEF ArmingInv, TrustPlaced
  <1> QED BY <1>4, <1>8, <1>9, <1>10 DEF ArmingInv

\* A step of somebody who is not a window.
LEMMA WindowsUntouched ==
  ASSUME Typed, WindowsFine, UNCHANGED win, vouched' \in BOOLEAN, vouched' => vouched
  PROVE  WindowsFine' /\ win' = [w \in Windows |-> win'[w]]
  BY DEF Typed, WindowsFine, Fine

\* An edit of a hooks file.
LEMMA PutsKeeps ==
  ASSUME ArmingInv, NEW a \in Agents, NEW groups \in GroupLists, Puts(a, groups)
  PROVE  ArmingInv'
  <1>1. Typed /\ WindowsFine /\ PersonsHooksKept /\ TrustPlaced
    BY DEF ArmingInv
  <1>2. /\ hooks' = [hooks EXCEPT ![a] = [ok |-> TRUE, groups |-> groups]]
        /\ theirs' = [theirs EXCEPT ![a] = Theirs(groups)]
        /\ vouched' = (vouched /\ a # Codex)
        /\ lost' = lost \ {a}
        /\ UNCHANGED <<trust, watchdog, win, raced>>
    BY DEF Puts
  <1>3. vouched' \in BOOLEAN /\ (vouched' => vouched)
    BY <1>1, <1>2 DEF Typed
  <1>4. WindowsFine' /\ win' = [w \in Windows |-> win'[w]]
    BY <1>1, <1>2, <1>3, WindowsUntouched
  <1>5. /\ [ok |-> TRUE, groups |-> groups] \in Files
        /\ Groups([ok |-> TRUE, groups |-> groups]) = groups
    BY FileOf
  <1>6. /\ hooks' \in [Agents -> Files] /\ hooks'[a] = [ok |-> TRUE, groups |-> groups]
        /\ \A b \in Agents \ {a} : hooks'[b] = hooks[b]
    BY <1>1, <1>2, <1>5 DEF Typed
  <1>7. /\ theirs' = [b \in Agents |-> theirs'[b]] /\ theirs'[a] = Theirs(groups)
        /\ \A b \in Agents \ {a} : theirs'[b] = theirs[b]
    BY <1>1, <1>2 DEF Typed
  <1>8. Typed'
    BY <1>1, <1>2, <1>3, <1>4, <1>6, <1>7 DEF Typed
  <1>9. PersonsHooksKept'
    <2> SUFFICES ASSUME ~raced', NEW b \in Agents, b \notin lost'
                 PROVE  Theirs(Groups(hooks'[b])) = theirs'[b]
      BY DEF PersonsHooksKept
    <2>1. CASE b = a
      BY <1>5, <1>6, <1>7, <2>1
    <2>2. CASE b # a
      BY <1>1, <1>2, <1>6, <1>7, <2>2 DEF PersonsHooksKept
    <2> QED BY <2>1, <2>2
  <1>10. TrustPlaced'
    <2>1. a # Codex => hooks'[Codex] = hooks[Codex]
      BY <1>6 DEF Agents
    <2> QED BY <1>1, <1>2, <2>1 DEF TrustPlaced
  <1> QED BY <1>4, <1>8, <1>9, <1>10 DEF ArmingInv

\* The person's edits write what a hooks file can hold.
LEMMA EditsKeep ==
  ASSUME ArmingInv, NEW a \in Agents, AddHook(a) \/ TakeOut(a)
  PROVE  ArmingInv'
  <1> DEFINE groups == Groups(hooks[a])
  <1>1. groups \in GroupLists
    BY GroupsTyped DEF ArmingInv, Typed
  <1>2. CASE TakeOut(a)
    BY <1>1, <1>2, WithoutOursIs, PutsKeeps DEF TakeOut
  <1>3. CASE AddHook(a)
    <2>1. PICK p \in Persons :
            \/ Puts(a, Append(groups, <<Handler(FALSE, p)>>))
            \/ Puts(a, <<<<Handler(FALSE, p)>>>> \o groups)
            \/ \E i \in DOMAIN groups : Puts(a, [groups EXCEPT ![i] = Append(@, Handler(FALSE, p))])
      BY <1>3, Zenon DEF AddHook
    <2> DEFINE h == Handler(FALSE, p)
    <2>2. h \in Handlers
      BY DEF Handler, Handlers
    <2> HIDE DEF groups, h
    <2>3. <<h>> \in Seq(Handlers) /\ <<<<h>>>> \in GroupLists
      BY <2>2 DEF GroupLists
    <2>4. Append(groups, <<h>>) \in GroupLists /\ <<<<h>>>> \o groups \in GroupLists
      BY <1>1, <2>3 DEF GroupLists
    <2>5. ASSUME NEW i \in DOMAIN groups
          PROVE  [groups EXCEPT ![i] = Append(@, h)] \in GroupLists
      <3>1. Append(groups[i], h) \in Seq(Handlers)
        BY <1>1, <2>2 DEF GroupLists
      <3> QED BY <1>1, <3>1 DEF GroupLists
    <2> QED BY <2>1, <2>4, <2>5, PutsKeeps DEF h, groups
  <1> QED BY <1>2, <1>3

\* A slip of the keyboard leaves the groups as they are.
LEMMA BreakKeeps ==
  ASSUME ArmingInv, NEW a \in Agents, Break(a)
  PROVE  ArmingInv'
  <1>1. Typed /\ WindowsFine /\ PersonsHooksKept /\ TrustPlaced
    BY DEF ArmingInv
  <1>2. /\ hooks[a] # None /\ hooks' = [hooks EXCEPT ![a].ok = ~@]
        /\ UNCHANGED <<trust, watchdog, theirs, vouched, win, raced, lost>>
    BY DEF Break, person, mishaps
  <1>3. WindowsFine' /\ win' = [w \in Windows |-> win'[w]]
    BY <1>1, <1>2, WindowsUntouched DEF Typed
  <1>4. hooks[a] \in HookFiles
    BY <1>1, <1>2, GroupsTyped DEF Typed
  <1>5. [hooks[a] EXCEPT !.ok = ~@] \in HookFiles /\ [hooks[a] EXCEPT !.ok = ~@].groups = hooks[a].groups
    BY <1>4 DEF HookFiles
  <1>6. hooks'[a] = [hooks[a] EXCEPT !.ok = ~@] /\ \A b \in Agents \ {a} : hooks'[b] = hooks[b]
    BY <1>1, <1>2 DEF Typed
  <1>7. hooks' \in [Agents -> Files]
    BY <1>1, <1>2, <1>5 DEF Typed, Files
  <1>8. \A b \in Agents : Groups(hooks'[b]) = Groups(hooks[b])
    BY <1>2, <1>5, <1>6, HooksAssumption DEF Groups
  <1>9. Typed'
    BY <1>1, <1>2, <1>3, <1>7 DEF Typed
  <1>10. PersonsHooksKept'
    BY <1>1, <1>2, <1>8 DEF PersonsHooksKept
  <1>11. TrustPlaced'
    BY <1>1, <1>2, <1>8 DEF TrustPlaced, Agents
  <1> QED BY <1>3, <1>9, <1>10, <1>11 DEF ArmingInv

\* Tampering, reads that begin to fail, the setting, and the person's trust in
\* what codex shows.
LEMMA OtherStepsKeep ==
  ASSUME ArmingInv, Tamper \/ SetWatchdog \/ Trust \/ \E a \in Agents : CannotRead(a)
  PROVE  ArmingInv'
  <1>1. Typed /\ WindowsFine /\ PersonsHooksKept /\ TrustPlaced
    BY DEF ArmingInv
  <1>2. CASE Tamper \/ \E a \in Agents : CannotRead(a)
    <2>1. UNCHANGED <<hooks, trust, watchdog, theirs, vouched, win, raced, lost>>
      BY <1>2 DEF Tamper, CannotRead, person, mishaps
    <2>2. WindowsFine'
      BY <1>1, <2>1, WindowsUntouched DEF Typed
    <2> QED BY <1>1, <2>1, <2>2 DEF ArmingInv, Typed, PersonsHooksKept, TrustPlaced
  <1>3. CASE SetWatchdog
    <2>1. /\ watchdog' \in Watchdogs /\ vouched' = FALSE
          /\ UNCHANGED <<hooks, trust, theirs, win, raced, lost>>
      BY <1>3 DEF SetWatchdog, files, mishaps
    <2>2. WindowsFine'
      BY <1>1, <2>1, WindowsUntouched
    <2> QED BY <1>1, <2>1, <2>2 DEF ArmingInv, Typed, PersonsHooksKept, TrustPlaced
  <1>4. CASE Trust
    <2> DEFINE groups == Groups(hooks[Codex])
    <2>1. /\ trust' = [place \in Places(groups) |-> At(groups, place)]
          /\ vouched' = (/\ EntriesMatch(groups, watchdog)
                         /\ \A v \in Windows : ~InHand(v)
                         /\ Last(groups) = <<Our(watchdog)>>)
          /\ UNCHANGED <<hooks, watchdog, theirs, win, raced, lost>>
      BY <1>4 DEF Trust, files, mishaps
    <2>2. WindowsFine'
      <3> SUFFICES ASSUME NEW v \in Windows, win[v] # None PROVE Fine(win[v], vouched')
        BY <2>1 DEF WindowsFine
      <3>1. Fine(win[v], vouched)
        BY <1>1 DEF WindowsFine
      <3>2. vouched' /\ win[v].at \in {"read", "write"} /\ Head(win[v].todo).agent = Codex =>
              win[v].at = "read" /\ Installs(Head(win[v].todo))
        BY <2>1 DEF InHand, Stage, Up, Now, Installing, Installs
      <3> QED BY <3>1, <3>2 DEF Fine
    <2>3. TrustPlaced'
      <3> SUFFICES ASSUME vouched'
                   PROVE  /\ LastIsOurs(groups, watchdog)
                          /\ <<Len(groups), 1>> \in DOMAIN trust'
                          /\ trust'[<<Len(groups), 1>>] = Our(watchdog)
        BY <2>1 DEF TrustPlaced
      <3>1. groups \in GroupLists
        BY <1>1, GroupsTyped DEF Typed, Agents
      <3>2. PICK place \in Places(groups) :
              OurPlaces(groups) = {place} /\ At(groups, place) = Our(watchdog)
        BY <2>1 DEF EntriesMatch
      <3> HIDE DEF groups
      <3>3. /\ place = <<place[1], place[2]>> /\ place[1] \in 1..Len(groups)
        BY <3>1, <3>2, PlacesAre
      <3>4. groups # <<>> /\ Len(groups) \in 1..Len(groups) /\ groups[Len(groups)] = <<Our(watchdog)>>
        <4>1. Last(groups) = <<Our(watchdog)>>
          BY <2>1
        <4>2. Len(groups) \in Nat /\ place[1] \in 1..Len(groups)
          BY <3>1, <3>3 DEF GroupLists
        <4>3. Len(groups) \in 1..Len(groups) /\ groups # <<>>
          BY <4>2
        <4> QED BY <4>1, <4>3 DEF Last
      <3>5. <<Len(groups), 1>> \in Places(groups)
        <4>1. Len(groups[Len(groups)]) = 1
          BY <3>4
        <4>2. 1 \in 1..Len(groups[Len(groups)])
          BY <4>1
        <4>3. \A i, j : i \in 1..Len(groups) /\ j \in 1..Len(groups[i]) => <<i, j>> \in Places(groups)
          BY <3>1, PlacesAre
        <4> QED BY <3>4, <4>2, <4>3
      <3>6. At(groups, <<Len(groups), 1>>) = Our(watchdog)
        BY <3>4 DEF At
      <3>7. <<Len(groups), 1>> \in OurPlaces(groups)
        BY <3>5, <3>6 DEF OurPlaces, Our, Handler
      <3>8. OurPlaces(groups) = {<<Len(groups), 1>>}
        BY <3>2, <3>7
      <3> QED BY <2>1, <3>4, <3>5, <3>6, <3>8 DEF LastIsOurs
    <2>4. Typed' /\ PersonsHooksKept'
      BY <1>1, <2>1 DEF Typed, PersonsHooksKept
    <2> QED BY <2>2, <2>3, <2>4 DEF ArmingInv
  <1> QED BY <1>2, <1>3, <1>4

-----------------------------------------------------------------------------

LEMMA ArmingInit == Init => ArmingInv
  <1> SUFFICES ASSUME Init PROVE ArmingInv
    OBVIOUS
  <1>1. /\ hooks = FirstHooks /\ watchdog = FirstWatchdog /\ win = [w \in Windows |-> None]
        /\ theirs = [a \in Agents |-> Theirs(Groups(FirstHooks[a]))] /\ vouched = FALSE
    BY DEF Init
  <1>2. Typed
    BY <1>1, HooksAssumption DEF Typed, Files
  <1>3. WindowsFine /\ PersonsHooksKept /\ TrustPlaced
    BY <1>1 DEF WindowsFine, PersonsHooksKept, TrustPlaced
  <1> QED BY <1>2, <1>3 DEF ArmingInv

LEMMA ArmingNext == ArmingInv /\ [Next]_vars => ArmingInv'
  <1> SUFFICES ASSUME ArmingInv, [Next]_vars PROVE ArmingInv'
    OBVIOUS
  <1>1. CASE UNCHANGED vars
    BY <1>1 DEF vars, files, person, mishaps, bounds, ArmingInv, Typed, WindowsFine, PersonsHooksKept, TrustPlaced
  <1>2. ASSUME NEW w \in Windows, Works(w) PROVE ArmingInv'
    BY <1>2, IdleStepsKeep, TaskStepsKeep, ReadHooksKeeps, WriteHooksKeeps DEF Works
  <1>3. ASSUME NEW w \in Windows,
               \/ Start(w) \/ DetectFails(w) \/ Fail(w) \/ Crash(w)
               \/ Connect(w) \/ Disconnect(w) \/ DoctorRearms(w)
        PROVE  ArmingInv'
    BY <1>3, IdleStepsKeep
  <1>4. ASSUME NEW a \in Agents, AddHook(a) \/ TakeOut(a) \/ Break(a) PROVE ArmingInv'
    BY <1>4, EditsKeep, BreakKeeps
  <1>5. CASE Tamper \/ SetWatchdog \/ Trust \/ \E a \in Agents : CannotRead(a)
    BY <1>5, OtherStepsKeep
  <1> QED BY <1>1, <1>2, <1>3, <1>4, <1>5 DEF Next

\* The inductive invariant of the hooks files: as long as they can be read,
\* installer.ts and hookConfig.ts neither lose what the person wrote nor move
\* what Codex trusts.
THEOREM ArmingInvariant == Spec => []ArmingInv
  BY ArmingInit, ArmingNext, PTL DEF Spec

\* installer.ts:186-207: whatever windows, crashes, failed calls and people
\* do, the person's own handlers stay in the hooks files, in their order.  Two
\* things break it: an edit between the reading and the writing of a file
\* (raced), and a failed read, after which the file is written over as if it
\* were not there (installer.ts:168-178; lost).
THEOREM HooksAreKept == Spec => []PersonsHooksKept
  <1>1. ArmingInv => PersonsHooksKept
    BY DEF ArmingInv
  <1> QED BY <1>1, ArmingInvariant, PTL

\* hookConfig.ts:111-122 and codexTrust.ts:195-228: once Codex trusts our
\* entry at the end of its file, no update, repair or session moves it, until
\* somebody edits the file, changes the setting, disconnects Codex or writes
\* over a file that could not be read; nor does it count if the trust was
\* given while a window was about to write that file.
THEOREM TrustStays == Spec => []TrustOutlivesUpdates
  <1>1. ArmingInv => TrustOutlivesUpdates
    <2> SUFFICES ASSUME ArmingInv, vouched PROVE TrustsOurs(Groups(hooks[Codex]))
      BY DEF TrustOutlivesUpdates
    <2> DEFINE groups == Groups(hooks[Codex])
    <2>1. /\ LastIsOurs(groups, watchdog)
          /\ <<Len(groups), 1>> \in DOMAIN trust
          /\ trust[<<Len(groups), 1>>] = Our(watchdog)
      BY DEF ArmingInv, TrustPlaced
    <2> HIDE DEF groups
    <2>2. OurPlaces(groups) = {<<Len(groups), 1>>} /\ At(groups, <<Len(groups), 1>>) = Our(watchdog)
      BY <2>1 DEF LastIsOurs, At
    <2>3. TrustsOurs(groups)
      BY <2>1, <2>2 DEF TrustsOurs
    <2> QED BY <2>3 DEF groups
  <1> QED BY <1>1, ArmingInvariant, PTL

-----------------------------------------------------------------------------
(* What holds of an undisturbed session.                                   *)

Records == [script: Range(Version), wrapper: Range(Runtime)]
States == [consent: BOOLEAN, onboarded: BOOLEAN, record: [Agents -> {None} \cup Records]]

StateTyped ==
  /\ quiet \in SUBSET Windows
  /\ state \in States \cup {Torn}
  /\ \A w \in Windows : win[w] # None /\ win[w].at = "fill" => win[w].held \in States

\* The tasks such a session can still have to do.
Ensure == Task("ensure", None)
Greeting == Task("greet", None)
Onboarded == Task("onboarded", None)
Arms(a) == Task("arm", a)
Mends(a) == Task("rearm", a)
Sessions ==
  {<<Task("check", None), Ensure, Greeting>>,
   <<Mends(Claude), Mends(Codex), Ensure, Greeting>>,
   <<Mends(Codex), Ensure, Greeting>>,
   <<Ensure, Greeting>>, <<Arms(Claude), Arms(Codex), Greeting>>,
   <<Arms(Codex), Greeting>>, <<Greeting>>,
   <<Task("consent", None), Ensure, Onboarded>>,
   <<Ensure, Onboarded>>, <<Arms(Claude), Arms(Codex), Onboarded>>,
   <<Arms(Codex), Onboarded>>, <<Onboarded>>, <<>>}

\* An assistant it has not come to yet.
Owes(todo, a) == \E i \in DOMAIN todo : todo[i] \in {Ensure, Arms(a)}

\* state.json as it is, or as it is about to be again.
Settled(w) == IF win[w].at = "fill" THEN win[w].held ELSE Read

InPlace(a) == Parses(hooks[a]) => EntriesMatch(Groups(hooks[a]), watchdog)
Mended(w, a) ==
  /\ script = Version[w] /\ wrapper \in Range(Runtime) /\ InPlace(a)
  /\ Parses(hooks[a]) => /\ Settled(w).record[a] # None
                         /\ Settled(w).record[a].script = Version[w]

\* How far an installation has come.
OnTheWay(w) ==
  LET at == win[w].at IN
  /\ at \in {"wrapper", "read", "write", "open", "fill"} => script = Version[w]
  /\ at \in {"read", "write", "open", "fill"} => wrapper = Runtime[w]
  /\ at = "write" => EntriesMatch(win[w].held.becomes, watchdog)
  /\ at \in {"open", "fill"} => InPlace(Now(w).agent)

QuietFine(w) == Up(w) =>
  /\ win[w].todo \in Sessions
  /\ win[w].at # "idle" => win[w].todo # <<>>
  /\ win[w].at # "idle" =>
       \/ Now(w).do \in {"arm", "rearm"} /\ OnTheWay(w)
       \/ Now(w).do \in {"consent", "onboarded"} /\ win[w].at \in {"open", "fill"}
  /\ \A a \in Agents : Settled(w).consent => Owes(win[w].todo, a) \/ Mended(w, a)

QuietInv == StateTyped /\ \A w \in quiet : QuietFine(w)

\* Two lists, one after the other.
LEMMA Joined ==
  ASSUME NEW S, NEW a \in Seq(S), NEW b \in Seq(S), NEW c \in Seq(S), Len(c) = Len(a) + Len(b),
         \A i \in 1..Len(c) : c[i] = IF i <= Len(a) THEN a[i] ELSE b[i - Len(a)]
  PROVE  a \o b = c
  <1>1. /\ a \o b \in Seq(S) /\ Len(a \o b) = Len(a) + Len(b)
        /\ \A i \in 1..Len(a) + Len(b) : (a \o b)[i] = IF i <= Len(a) THEN a[i] ELSE b[i - Len(a)]
    BY ConcatProperties
  <1> DEFINE r == a \o b
  <1>2. r \in Seq(S) /\ Len(r) = Len(c) /\ \A i \in 1..Len(c) : r[i] = c[i]
    BY <1>1
  <1> HIDE DEF r
  <1>3. r = c
    BY <1>2
  <1> QED BY <1>3 DEF r

\* The lists of tasks, one by one.
LEMMA Lists ==
  /\ \A x : Head(<<x>>) = x /\ Tail(<<x>>) = <<>>
  /\ \A x, y : Head(<<x, y>>) = x /\ Tail(<<x, y>>) = <<y>>
  /\ \A x, y, z : Head(<<x, y, z>>) = x /\ Tail(<<x, y, z>>) = <<y, z>>
  /\ \A x, y, z, u : Head(<<x, y, z, u>>) = x /\ Tail(<<x, y, z, u>>) = <<y, z, u>>
  /\ \A x, y, z : <<x, y>> \o <<z>> = <<x, y, z>>
  /\ \A x, y, z : <<x>> \o <<y, z>> = <<x, y, z>>
  /\ \A x, y, z, u : <<x, y>> \o <<z, u>> = <<x, y, z, u>>
  /\ \A x, y : <<>> \o <<x>> = <<x>> /\ <<>> \o <<x, y>> = <<x, y>>
  <1>1. \A x : Head(<<x>>) = x /\ Tail(<<x>>) = <<>>
    OBVIOUS
  <1>2. \A x, y : Head(<<x, y>>) = x /\ Tail(<<x, y>>) = <<y>>
    OBVIOUS
  <1>3. \A x, y, z : Head(<<x, y, z>>) = x /\ Tail(<<x, y, z>>) = <<y, z>>
    OBVIOUS
  <1>4. \A x, y, z, u : Head(<<x, y, z, u>>) = x /\ Tail(<<x, y, z, u>>) = <<y, z, u>>
    OBVIOUS
  <1>5. ASSUME NEW x, NEW y, NEW z PROVE <<x, y>> \o <<z>> = <<x, y, z>>
    <2> DEFINE S == {x, y, z}
               a == <<x, y>>
               b == <<z>>
               c == <<x, y, z>>
    <2>1. a \in Seq(S) /\ b \in Seq(S) /\ c \in Seq(S)
      OBVIOUS
    <2>2. Len(a) = 2 /\ Len(b) = 1 /\ Len(c) = 3 /\ c[1] = a[1] /\ c[2] = a[2] /\ c[3] = b[1]
      OBVIOUS
    <2> HIDE DEF a, b, c, S
    <2>3. \A i \in 1..Len(c) : c[i] = IF i <= Len(a) THEN a[i] ELSE b[i - Len(a)]
      <3>1. 1..Len(c) = {1, 2, 3}
        BY <2>2
      <3> QED BY <2>2, <3>1
    <2>4. Len(c) = Len(a) + Len(b)
      BY <2>2
    <2>5. a \o b = c
      BY <2>1, <2>3, <2>4, Joined
    <2> QED BY <2>5 DEF a, b, c
  <1>6. ASSUME NEW x, NEW y, NEW z PROVE <<x>> \o <<y, z>> = <<x, y, z>>
    <2> DEFINE S == {x, y, z}
               a == <<x>>
               b == <<y, z>>
               c == <<x, y, z>>
    <2>1. a \in Seq(S) /\ b \in Seq(S) /\ c \in Seq(S)
      OBVIOUS
    <2>2. Len(a) = 1 /\ Len(b) = 2 /\ Len(c) = 3 /\ c[1] = a[1] /\ c[2] = b[1] /\ c[3] = b[2]
      OBVIOUS
    <2> HIDE DEF a, b, c, S
    <2>3. \A i \in 1..Len(c) : c[i] = IF i <= Len(a) THEN a[i] ELSE b[i - Len(a)]
      <3>1. 1..Len(c) = {1, 2, 3}
        BY <2>2
      <3> QED BY <2>2, <3>1
    <2>4. Len(c) = Len(a) + Len(b)
      BY <2>2
    <2>5. a \o b = c
      BY <2>1, <2>3, <2>4, Joined
    <2> QED BY <2>5 DEF a, b, c
  <1>7. ASSUME NEW x, NEW y, NEW z, NEW u PROVE <<x, y>> \o <<z, u>> = <<x, y, z, u>>
    <2> DEFINE S == {x, y, z, u}
               a == <<x, y>>
               b == <<z, u>>
               c == <<x, y, z, u>>
    <2>1. a \in Seq(S) /\ b \in Seq(S) /\ c \in Seq(S)
      OBVIOUS
    <2>2. Len(a) = 2 /\ Len(b) = 2 /\ Len(c) = 4 /\ c[1] = a[1] /\ c[2] = a[2] /\ c[3] = b[1] /\ c[4] = b[2]
      OBVIOUS
    <2> HIDE DEF a, b, c, S
    <2>3. \A i \in 1..Len(c) : c[i] = IF i <= Len(a) THEN a[i] ELSE b[i - Len(a)]
      <3>1. 1..Len(c) = {1, 2, 3, 4}
        BY <2>2
      <3> QED BY <2>2, <3>1
    <2>4. Len(c) = Len(a) + Len(b)
      BY <2>2
    <2>5. a \o b = c
      BY <2>1, <2>3, <2>4, Joined
    <2> QED BY <2>5 DEF a, b, c
  <1>8. \A x, y : <<>> \o <<x>> = <<x>> /\ <<>> \o <<x, y>> = <<x, y>>
    OBVIOUS
  <1> QED BY <1>1, <1>2, <1>3, <1>4, <1>5, <1>6, <1>7, <1>8

LEMMA OwesIs ==
  /\ \A a : ~Owes(<<>>, a)
  /\ \A x, a : Owes(<<x>>, a) <=> x \in {Ensure, Arms(a)}
  /\ \A x, y, a : Owes(<<x, y>>, a) <=> x \in {Ensure, Arms(a)} \/ y \in {Ensure, Arms(a)}
  /\ \A x, y, z, a : Owes(<<x, y, z>>, a)
       <=> x \in {Ensure, Arms(a)} \/ y \in {Ensure, Arms(a)} \/ z \in {Ensure, Arms(a)}
  /\ \A x, y, z, u, a : Owes(<<x, y, z, u>>, a)
       <=> \/ x \in {Ensure, Arms(a)} \/ y \in {Ensure, Arms(a)}
           \/ z \in {Ensure, Arms(a)} \/ u \in {Ensure, Arms(a)}
  <1>2. \A a : ~Owes(<<>>, a)
    BY DEF Owes
  <1>3. ASSUME NEW x, NEW a
        PROVE  Owes(<<x>>, a) <=> x \in {Ensure, Arms(a)}
    <2>1. DOMAIN <<x>> = {1}
      OBVIOUS
    <2>2. Owes(<<x>>, a) <=> \E i \in {1} : <<x>>[i] \in {Ensure, Arms(a)}
      BY <2>1 DEF Owes
    <2> QED BY <2>2
  <1>4. ASSUME NEW x, NEW y, NEW a
        PROVE  Owes(<<x, y>>, a) <=> x \in {Ensure, Arms(a)} \/ y \in {Ensure, Arms(a)}
    <2>1. DOMAIN <<x, y>> = {1, 2}
      OBVIOUS
    <2>2. Owes(<<x, y>>, a) <=> \E i \in {1, 2} : <<x, y>>[i] \in {Ensure, Arms(a)}
      BY <2>1 DEF Owes
    <2> QED BY <2>2
  <1>5. ASSUME NEW x, NEW y, NEW z, NEW a
        PROVE  Owes(<<x, y, z>>, a)
                 <=> x \in {Ensure, Arms(a)} \/ y \in {Ensure, Arms(a)} \/ z \in {Ensure, Arms(a)}
    <2>1. DOMAIN <<x, y, z>> = {1, 2, 3}
      OBVIOUS
    <2>2. Owes(<<x, y, z>>, a) <=> \E i \in {1, 2, 3} : <<x, y, z>>[i] \in {Ensure, Arms(a)}
      BY <2>1 DEF Owes
    <2> QED BY <2>2
  <1>6. ASSUME NEW x, NEW y, NEW z, NEW u, NEW a
        PROVE  Owes(<<x, y, z, u>>, a)
                 <=> \/ x \in {Ensure, Arms(a)} \/ y \in {Ensure, Arms(a)}
                     \/ z \in {Ensure, Arms(a)} \/ u \in {Ensure, Arms(a)}
    <2>1. DOMAIN <<x, y, z, u>> = {1, 2, 3, 4}
      OBVIOUS
    <2>2. Owes(<<x, y, z, u>>, a) <=> \E i \in {1, 2, 3, 4} : <<x, y, z, u>>[i] \in {Ensure, Arms(a)}
      BY <2>1 DEF Owes
    <2> QED BY <2>2
  <1> QED BY <1>2, <1>3, <1>4, <1>5, <1>6

LEMMA TasksDiffer ==
  ASSUME NEW a, NEW b
  PROVE  /\ Ensure.do = "ensure" /\ Greeting.do = "greet" /\ Onboarded.do = "onboarded"
         /\ Task("check", None).do = "check" /\ Task("consent", None).do = "consent"
         /\ Arms(a).do = "arm" /\ Arms(a).agent = a
         /\ Mends(a).do = "rearm" /\ Mends(a).agent = a
         /\ Arms(a) = Arms(b) => a = b
         /\ Greeting \notin {Ensure, Arms(a)} /\ Onboarded \notin {Ensure, Arms(a)}
  BY DEF Ensure, Greeting, Onboarded, Arms, Mends, Task

\* How an undisturbed session goes on.
LEMMA SessionsGoOn ==
  ASSUME NEW todo \in Sessions, todo # <<>>
  PROVE  /\ Tail(todo) \in Sessions
         /\ Head(todo).do \in {"check", "ensure"} => <<>> \o Tail(todo) = Tail(todo)
         /\ Head(todo).do = "check" => /\ \A a \in Agents : Owes(Tail(todo), a)
                                       /\ Each("rearm") \o Tail(todo) \in Sessions
                                       /\ \A a \in Agents : Owes(Each("rearm") \o Tail(todo), a)
         /\ Head(todo).do = "rearm" => /\ Head(todo).agent \in Agents
                                       /\ \A a \in Agents : Owes(todo, a) /\ Owes(Tail(todo), a)
         /\ Head(todo).do = "ensure" => /\ Each("arm") \o Tail(todo) \in Sessions
                                        /\ \A a \in Agents : Owes(Each("arm") \o Tail(todo), a)
         /\ Head(todo).do = "arm" => /\ Head(todo).agent \in Agents
                                     /\ Owes(todo, Head(todo).agent)
                                     /\ \A a \in Agents : a # Head(todo).agent
                                          => (Owes(todo, a) <=> Owes(Tail(todo), a))
         /\ Head(todo).do = "greet" => \A a \in Agents : ~Owes(todo, a) /\ ~Owes(Tail(todo), a)
         /\ Head(todo).do = "consent" => \A a \in Agents : Owes(todo, a) /\ Owes(Tail(todo), a)
         /\ Head(todo).do = "onboarded" => \A a \in Agents : ~Owes(todo, a) /\ ~Owes(Tail(todo), a)
         /\ Head(todo).do \in {"check", "rearm", "ensure", "arm", "greet", "consent", "onboarded"}
  <1> DEFINE Ck == Task("check", None)
             Co == Task("consent", None)
             En == Ensure
             Gr == Greeting
             On == Onboarded
             Ac == Arms(Claude)
             Ax == Arms(Codex)
             Mc == Mends(Claude)
             Mx == Mends(Codex)
  <1>1. Each("rearm") = <<Mc, Mx>> /\ Each("arm") = <<Ac, Ax>>
    BY DEF Each, Mends, Arms
  <1>2. Claude # Codex /\ Agents = {Claude, Codex}
    BY ArmingAssumption DEF Agents
  <1>3. /\ Ck.do = "check" /\ Co.do = "consent" /\ En.do = "ensure" /\ Gr.do = "greet" /\ On.do = "onboarded"
        /\ Ac.do = "arm" /\ Ac.agent = Claude /\ Ax.do = "arm" /\ Ax.agent = Codex
        /\ Mc.do = "rearm" /\ Mc.agent = Claude /\ Mx.do = "rearm" /\ Mx.agent = Codex
    BY TasksDiffer
  <1>4. Sessions = {<<Ck, En, Gr>>,
                    <<Mc, Mx, En, Gr>>,
                    <<Mx, En, Gr>>,
                    <<En, Gr>>,
                    <<Ac, Ax, Gr>>,
                    <<Ax, Gr>>,
                    <<Gr>>,
                    <<Co, En, On>>,
                    <<En, On>>,
                    <<Ac, Ax, On>>,
                    <<Ax, On>>,
                    <<On>>,
                    <<>>}
    BY DEF Sessions
  <1>5. /\ \A a : ~Owes(<<>>, a)
        /\ \A x, a : Owes(<<x>>, a) <=> x \in {En, Arms(a)}
        /\ \A x, y, a : Owes(<<x, y>>, a) <=> x \in {En, Arms(a)} \/ y \in {En, Arms(a)}
        /\ \A x, y, z, a : Owes(<<x, y, z>>, a)
             <=> x \in {En, Arms(a)} \/ y \in {En, Arms(a)} \/ z \in {En, Arms(a)}
        /\ \A x, y, z, u, a : Owes(<<x, y, z, u>>, a)
             <=> \/ x \in {En, Arms(a)} \/ y \in {En, Arms(a)}
                 \/ z \in {En, Arms(a)} \/ u \in {En, Arms(a)}
    BY OwesIs
  <1>6. /\ \A x, y, z : <<x, y>> \o <<z>> = <<x, y, z>>
        /\ \A x, y : <<>> \o <<x>> = <<x>> /\ <<>> \o <<x, y>> = <<x, y>>
        /\ \A x, y, z, u : <<x, y>> \o <<z, u>> = <<x, y, z, u>>
    BY Lists
  <1>7. \A a \in Agents : (a = Claude => Arms(a) = Ac) /\ (a = Codex => Arms(a) = Ax)
    OBVIOUS
  <1> HIDE DEF Ck, Co, En, Gr, On, Ac, Ax, Mc, Mx
  <1>8. CASE todo = <<Ck, En, Gr>>
    <2>1. Head(todo) = Ck /\ Tail(todo) = <<En, Gr>>
      BY <1>8, Lists
    <2>2. Tail(todo) \in Sessions
      BY <1>4, <2>1
    <2>3. Owes(todo, Claude) /\ Owes(todo, Codex)
      BY <1>2, <1>3, <1>5, <1>7, <1>8
    <2>4. Owes(<<En, Gr>>, Claude) /\ Owes(<<En, Gr>>, Codex)
      BY <1>2, <1>3, <1>5, <1>7
    <2>5. Owes(Tail(todo), Claude) /\ Owes(Tail(todo), Codex)
      BY <2>1, <2>4
    <2>6. Each("rearm") \o Tail(todo) = <<Mc, Mx>> \o <<En, Gr>>
      BY <1>1, <2>1
    <2>7. <<Mc, Mx>> \o <<En, Gr>> = <<Mc, Mx, En, Gr>>
      BY <1>6
    <2>8. <<Mc, Mx, En, Gr>> \in Sessions
      BY <1>4
    <2>9. Owes(<<Mc, Mx, En, Gr>>, Claude) /\ Owes(<<Mc, Mx, En, Gr>>, Codex)
      BY <1>2, <1>3, <1>5, <1>7
    <2>10. <<>> \o Tail(todo) = Tail(todo)
      BY <1>6, <2>1
    <2>11. /\ Each("rearm") \o Tail(todo) \in Sessions
           /\ Owes(Each("rearm") \o Tail(todo), Claude) /\ Owes(Each("rearm") \o Tail(todo), Codex)
      BY <2>6, <2>7, <2>8, <2>9
    <2> QED BY <1>2, <1>3, <2>1, <2>2, <2>3, <2>5, <2>11, <2>10
  <1>9. CASE todo = <<Mc, Mx, En, Gr>>
    <2>1. Head(todo) = Mc /\ Tail(todo) = <<Mx, En, Gr>>
      BY <1>9, Lists
    <2>2. Tail(todo) \in Sessions
      BY <1>4, <2>1
    <2>3. Owes(todo, Claude) /\ Owes(todo, Codex)
      BY <1>2, <1>3, <1>5, <1>7, <1>9
    <2>4. Owes(<<Mx, En, Gr>>, Claude) /\ Owes(<<Mx, En, Gr>>, Codex)
      BY <1>2, <1>3, <1>5, <1>7
    <2>5. Owes(Tail(todo), Claude) /\ Owes(Tail(todo), Codex)
      BY <2>1, <2>4
    <2> QED BY <1>2, <1>3, <2>1, <2>2, <2>3, <2>5
  <1>10. CASE todo = <<Mx, En, Gr>>
    <2>1. Head(todo) = Mx /\ Tail(todo) = <<En, Gr>>
      BY <1>10, Lists
    <2>2. Tail(todo) \in Sessions
      BY <1>4, <2>1
    <2>3. Owes(todo, Claude) /\ Owes(todo, Codex)
      BY <1>2, <1>3, <1>5, <1>7, <1>10
    <2>4. Owes(<<En, Gr>>, Claude) /\ Owes(<<En, Gr>>, Codex)
      BY <1>2, <1>3, <1>5, <1>7
    <2>5. Owes(Tail(todo), Claude) /\ Owes(Tail(todo), Codex)
      BY <2>1, <2>4
    <2> QED BY <1>2, <1>3, <2>1, <2>2, <2>3, <2>5
  <1>11. CASE todo = <<En, Gr>>
    <2>1. Head(todo) = En /\ Tail(todo) = <<Gr>>
      BY <1>11, Lists
    <2>2. Tail(todo) \in Sessions
      BY <1>4, <2>1
    <2>3. Owes(todo, Claude) /\ Owes(todo, Codex)
      BY <1>2, <1>3, <1>5, <1>7, <1>11
    <2>4. ~Owes(<<Gr>>, Claude) /\ ~Owes(<<Gr>>, Codex)
      BY <1>2, <1>3, <1>5, <1>7
    <2>5. ~Owes(Tail(todo), Claude) /\ ~Owes(Tail(todo), Codex)
      BY <2>1, <2>4
    <2>6. Each("arm") \o Tail(todo) = <<Ac, Ax>> \o <<Gr>>
      BY <1>1, <2>1
    <2>7. <<Ac, Ax>> \o <<Gr>> = <<Ac, Ax, Gr>>
      BY <1>6
    <2>8. <<Ac, Ax, Gr>> \in Sessions
      BY <1>4
    <2>9. Owes(<<Ac, Ax, Gr>>, Claude) /\ Owes(<<Ac, Ax, Gr>>, Codex)
      BY <1>2, <1>3, <1>5, <1>7
    <2>10. <<>> \o Tail(todo) = Tail(todo)
      BY <1>6, <2>1
    <2>11. /\ Each("arm") \o Tail(todo) \in Sessions
           /\ Owes(Each("arm") \o Tail(todo), Claude) /\ Owes(Each("arm") \o Tail(todo), Codex)
      BY <2>6, <2>7, <2>8, <2>9
    <2> QED BY <1>2, <1>3, <2>1, <2>2, <2>3, <2>5, <2>11, <2>10
  <1>12. CASE todo = <<Ac, Ax, Gr>>
    <2>1. Head(todo) = Ac /\ Tail(todo) = <<Ax, Gr>>
      BY <1>12, Lists
    <2>2. Tail(todo) \in Sessions
      BY <1>4, <2>1
    <2>3. Owes(todo, Claude) /\ Owes(todo, Codex)
      BY <1>2, <1>3, <1>5, <1>7, <1>12
    <2>4. ~Owes(<<Ax, Gr>>, Claude) /\ Owes(<<Ax, Gr>>, Codex)
      BY <1>2, <1>3, <1>5, <1>7
    <2>5. ~Owes(Tail(todo), Claude) /\ Owes(Tail(todo), Codex)
      BY <2>1, <2>4
    <2> QED BY <1>2, <1>3, <2>1, <2>2, <2>3, <2>5
  <1>13. CASE todo = <<Ax, Gr>>
    <2>1. Head(todo) = Ax /\ Tail(todo) = <<Gr>>
      BY <1>13, Lists
    <2>2. Tail(todo) \in Sessions
      BY <1>4, <2>1
    <2>3. ~Owes(todo, Claude) /\ Owes(todo, Codex)
      BY <1>2, <1>3, <1>5, <1>7, <1>13
    <2>4. ~Owes(<<Gr>>, Claude) /\ ~Owes(<<Gr>>, Codex)
      BY <1>2, <1>3, <1>5, <1>7
    <2>5. ~Owes(Tail(todo), Claude) /\ ~Owes(Tail(todo), Codex)
      BY <2>1, <2>4
    <2> QED BY <1>2, <1>3, <2>1, <2>2, <2>3, <2>5
  <1>14. CASE todo = <<Gr>>
    <2>1. Head(todo) = Gr /\ Tail(todo) = <<>>
      BY <1>14, Lists
    <2>2. Tail(todo) \in Sessions
      BY <1>4, <2>1
    <2>3. ~Owes(todo, Claude) /\ ~Owes(todo, Codex)
      BY <1>2, <1>3, <1>5, <1>7, <1>14
    <2>4. ~Owes(<<>>, Claude) /\ ~Owes(<<>>, Codex)
      BY <1>2, <1>3, <1>5, <1>7
    <2>5. ~Owes(Tail(todo), Claude) /\ ~Owes(Tail(todo), Codex)
      BY <2>1, <2>4
    <2> QED BY <1>2, <1>3, <2>1, <2>2, <2>3, <2>5
  <1>15. CASE todo = <<Co, En, On>>
    <2>1. Head(todo) = Co /\ Tail(todo) = <<En, On>>
      BY <1>15, Lists
    <2>2. Tail(todo) \in Sessions
      BY <1>4, <2>1
    <2>3. Owes(todo, Claude) /\ Owes(todo, Codex)
      BY <1>2, <1>3, <1>5, <1>7, <1>15
    <2>4. Owes(<<En, On>>, Claude) /\ Owes(<<En, On>>, Codex)
      BY <1>2, <1>3, <1>5, <1>7
    <2>5. Owes(Tail(todo), Claude) /\ Owes(Tail(todo), Codex)
      BY <2>1, <2>4
    <2> QED BY <1>2, <1>3, <2>1, <2>2, <2>3, <2>5
  <1>16. CASE todo = <<En, On>>
    <2>1. Head(todo) = En /\ Tail(todo) = <<On>>
      BY <1>16, Lists
    <2>2. Tail(todo) \in Sessions
      BY <1>4, <2>1
    <2>3. Owes(todo, Claude) /\ Owes(todo, Codex)
      BY <1>2, <1>3, <1>5, <1>7, <1>16
    <2>4. ~Owes(<<On>>, Claude) /\ ~Owes(<<On>>, Codex)
      BY <1>2, <1>3, <1>5, <1>7
    <2>5. ~Owes(Tail(todo), Claude) /\ ~Owes(Tail(todo), Codex)
      BY <2>1, <2>4
    <2>6. Each("arm") \o Tail(todo) = <<Ac, Ax>> \o <<On>>
      BY <1>1, <2>1
    <2>7. <<Ac, Ax>> \o <<On>> = <<Ac, Ax, On>>
      BY <1>6
    <2>8. <<Ac, Ax, On>> \in Sessions
      BY <1>4
    <2>9. Owes(<<Ac, Ax, On>>, Claude) /\ Owes(<<Ac, Ax, On>>, Codex)
      BY <1>2, <1>3, <1>5, <1>7
    <2>10. <<>> \o Tail(todo) = Tail(todo)
      BY <1>6, <2>1
    <2>11. /\ Each("arm") \o Tail(todo) \in Sessions
           /\ Owes(Each("arm") \o Tail(todo), Claude) /\ Owes(Each("arm") \o Tail(todo), Codex)
      BY <2>6, <2>7, <2>8, <2>9
    <2> QED BY <1>2, <1>3, <2>1, <2>2, <2>3, <2>5, <2>11, <2>10
  <1>17. CASE todo = <<Ac, Ax, On>>
    <2>1. Head(todo) = Ac /\ Tail(todo) = <<Ax, On>>
      BY <1>17, Lists
    <2>2. Tail(todo) \in Sessions
      BY <1>4, <2>1
    <2>3. Owes(todo, Claude) /\ Owes(todo, Codex)
      BY <1>2, <1>3, <1>5, <1>7, <1>17
    <2>4. ~Owes(<<Ax, On>>, Claude) /\ Owes(<<Ax, On>>, Codex)
      BY <1>2, <1>3, <1>5, <1>7
    <2>5. ~Owes(Tail(todo), Claude) /\ Owes(Tail(todo), Codex)
      BY <2>1, <2>4
    <2> QED BY <1>2, <1>3, <2>1, <2>2, <2>3, <2>5
  <1>18. CASE todo = <<Ax, On>>
    <2>1. Head(todo) = Ax /\ Tail(todo) = <<On>>
      BY <1>18, Lists
    <2>2. Tail(todo) \in Sessions
      BY <1>4, <2>1
    <2>3. ~Owes(todo, Claude) /\ Owes(todo, Codex)
      BY <1>2, <1>3, <1>5, <1>7, <1>18
    <2>4. ~Owes(<<On>>, Claude) /\ ~Owes(<<On>>, Codex)
      BY <1>2, <1>3, <1>5, <1>7
    <2>5. ~Owes(Tail(todo), Claude) /\ ~Owes(Tail(todo), Codex)
      BY <2>1, <2>4
    <2> QED BY <1>2, <1>3, <2>1, <2>2, <2>3, <2>5
  <1>19. CASE todo = <<On>>
    <2>1. Head(todo) = On /\ Tail(todo) = <<>>
      BY <1>19, Lists
    <2>2. Tail(todo) \in Sessions
      BY <1>4, <2>1
    <2>3. ~Owes(todo, Claude) /\ ~Owes(todo, Codex)
      BY <1>2, <1>3, <1>5, <1>7, <1>19
    <2>4. ~Owes(<<>>, Claude) /\ ~Owes(<<>>, Codex)
      BY <1>2, <1>3, <1>5, <1>7
    <2>5. ~Owes(Tail(todo), Claude) /\ ~Owes(Tail(todo), Codex)
      BY <2>1, <2>4
    <2> QED BY <1>2, <1>3, <2>1, <2>2, <2>3, <2>5
  <1> QED BY <1>4, <1>8, <1>9, <1>10, <1>11, <1>12, <1>13, <1>14, <1>15, <1>16, <1>17, <1>18, <1>19

\* state.json, as it is read.
LEMMA ReadTyped ==
  ASSUME StateTyped
  PROVE  Read \in States /\ Fresh \in States /\ Fresh.consent = FALSE
  <1>1. Fresh \in States /\ Fresh.consent = FALSE
    BY DEF Fresh, States
  <1> QED BY <1>1 DEF StateTyped, Read

\* A step of one window, as far as its disturbance goes.
LEMMA StateStaysTyped ==
  ASSUME Typed, StateTyped, NEW w \in Windows, NEW x, win' = [win EXCEPT ![w] = x],
         x = None \/ x.at # "fill" \/ x.held \in States,
         state' \in States \cup {Torn}, quiet' \in SUBSET Windows
  PROVE  StateTyped'
  <1>1. win'[w] = x /\ \A v \in Windows \ {w} : win'[v] = win[v]
    BY DEF Typed
  <1>2. ASSUME NEW v \in Windows, win'[v] # None, win'[v].at = "fill" PROVE win'[v].held \in States
    BY <1>1, <1>2 DEF StateTyped
  <1> QED BY <1>2 DEF StateTyped

\* A step that leaves nobody undisturbed.
LEMMA NobodyQuiet ==
  ASSUME StateTyped', quiet' = {}
  PROVE  QuietInv'
  BY DEF QuietInv

\* A window that goes to its next task, the files being as they were.
LEMMA QuietIdles ==
  ASSUME ArmingInv, QuietInv, NEW w \in Windows, Thinks(w), Up(w), win[w].at # "fill",
         NEW todo, win' = [win EXCEPT ![w] = Window(todo)],
         w \in quiet => /\ todo \in Sessions
                        /\ \A a \in Agents : Read.consent => Owes(todo, a) \/ Mended(w, a)
  PROVE  QuietInv'
  <1>1. /\ quiet' = quiet \cap {w} /\ UNCHANGED <<script, wrapper, hooks, state, watchdog>>
        /\ Typed /\ StateTyped
    BY DEF Thinks, StepOf, files, person, ArmingInv, QuietInv
  <1>2. win'[w] = Window(todo)
    BY <1>1 DEF Typed
  <1>3. win'[w].at = "idle" /\ win'[w].todo = todo
    BY <1>2 DEF Window
  <1>4. StateTyped'
    <2>1. Window(todo).at # "fill"
      BY DEF Window
    <2> QED BY <1>1, <2>1, StateStaysTyped DEF StateTyped
  <1>5. Settled(w) = Read /\ Settled(w)' = Read /\ Read' = Read
    BY <1>1, <1>3 DEF Settled, Read
  <1>6. \A a \in Agents : Mended(w, a)' <=> Mended(w, a)
    BY <1>1, <1>5 DEF Mended, InPlace
  <1>7. w \in quiet => QuietFine(w)'
    BY <1>3, <1>5, <1>6 DEF QuietFine
  <1> QED BY <1>1, <1>4, <1>7 DEF QuietInv

\* One that goes on with its task, the files being as they were.
LEMMA QuietEnters ==
  ASSUME ArmingInv, QuietInv, NEW w \in Windows, Thinks(w), Up(w), win[w].at # "fill",
         NEW at, NEW held, at # "fill", Enter(w, at, held),
         w \in quiet => win[w].todo # <<>>,
         w \in quiet =>
           \/ /\ Now(w).do \in {"arm", "rearm"} /\ at \in {"script", "open", "write"}
              /\ at # "script" => script = Version[w] /\ wrapper = Runtime[w]
              /\ at = "write" => EntriesMatch(held.becomes, watchdog)
              /\ at = "open" => InPlace(Now(w).agent)
           \/ Now(w).do \in {"consent", "onboarded"} /\ at = "open"
  PROVE  QuietInv'
  <1>1. /\ quiet' = quiet \cap {w} /\ UNCHANGED <<script, wrapper, hooks, state, watchdog>>
        /\ Typed /\ WindowsFine /\ StateTyped
    BY DEF Thinks, StepOf, files, person, ArmingInv, QuietInv
  <1> DEFINE x == [todo |-> win[w].todo, at |-> at, held |-> held]
  <1>2. win' = [win EXCEPT ![w] = x] /\ win'[w] = x
    BY <1>1, EntersIs DEF Typed
  <1>3. win'[w].at = at /\ win'[w].todo = win[w].todo /\ win'[w].held = held
    BY <1>2
  <1>4. StateTyped'
    BY <1>1, <1>2, StateStaysTyped DEF StateTyped
  <1>5. Settled(w)' = Settled(w) /\ Now(w)' = Now(w)
    BY <1>1, <1>3 DEF Settled, Read, Now
  <1>6. \A a \in Agents : Mended(w, a)' <=> Mended(w, a)
    BY <1>1, <1>5 DEF Mended, InPlace
  <1>7. ASSUME w \in quiet PROVE QuietFine(w)'
    <2>1. /\ win[w].todo \in Sessions
          /\ \A a \in Agents : Settled(w).consent => Owes(win[w].todo, a) \/ Mended(w, a)
      BY <1>7 DEF QuietInv, QuietFine
    <2>2. \/ Now(w)'.do \in {"arm", "rearm"} /\ OnTheWay(w)'
          \/ Now(w)'.do \in {"consent", "onboarded"} /\ at \in {"open", "fill"}
      BY <1>1, <1>3, <1>5, <1>7 DEF OnTheWay, InPlace
    <2> QED BY <1>3, <1>5, <1>6, <1>7, <2>1, <2>2 DEF QuietFine
  <1> QED BY <1>1, <1>4, <1>7 DEF QuietInv

\* A window begins.
LEMMA QuietStart ==
  ASSUME ArmingInv, QuietInv, NEW w \in Windows, Start(w)
  PROVE  QuietInv'
  <1>1. /\ quiet' \in {{w}, {}} /\ UNCHANGED state /\ Typed /\ StateTyped
        /\ win' = [win EXCEPT ![w] = Window(Startup)]
    BY DEF Start, Becomes, files, ArmingInv, QuietInv
  <1>2. win'[w].at = "idle" /\ win'[w].todo = Startup
    BY <1>1 DEF Typed, Window
  <1>3. StateTyped'
    <2>1. Window(Startup).at # "fill"
      BY DEF Window
    <2> QED BY <1>1, <2>1, StateStaysTyped DEF StateTyped
  <1>4. Startup \in Sessions
    BY DEF Startup, Sessions, Ensure, Greeting
  <1>5. \A a \in Agents : Owes(Startup, a)
    BY OwesIs DEF Startup, Ensure, Greeting
  <1>6. QuietFine(w)'
    BY <1>2, <1>4, <1>5 DEF QuietFine
  <1> QED BY <1>1, <1>3, <1>6 DEF QuietInv

\* verifyAndRearmAtStartup, rearm and ensureArmed: whatever they decide, an
\* assistant is still to come, or in place, or nobody gave the permission.
LEMMA QuietDecides ==
  ASSUME ArmingInv, QuietInv, NEW w \in Windows,
         Check(w) \/ EnsureArmed(w) \/ Rearm(w) \/ StartInstall(w) \/ StartUpdate(w)
  PROVE  QuietInv'
  <1> DEFINE T == win[w].todo
  <1>1. Up(w) /\ win[w].at = "idle" /\ T # <<>> /\ Thinks(w)
    BY Zenon DEF Check, EnsureArmed, Rearm, StartInstall, StartUpdate, Turn, AtRest
  <1>2. w \in quiet => T \in Sessions
    BY <1>1 DEF QuietInv, QuietFine
  <1>3. Now(w) = Head(T)
    BY DEF Now
  <1>4. CASE Check(w)
    <2>1. Head(T).do = "check"
      BY <1>3, <1>4 DEF Check, Turn
    <2>2. PICK todo \in {<<>> \o Tail(T), Each("rearm") \o Tail(T)} : Becomes(w, todo)
      BY <1>4, Zenon DEF Check
    <2>3. w \in quiet => todo \in Sessions /\ \A a \in Agents : Owes(todo, a)
      <3> HIDE DEF T
      <3> SUFFICES ASSUME w \in quiet PROVE todo \in Sessions /\ \A a \in Agents : Owes(todo, a)
        OBVIOUS
      <3>1. /\ <<>> \o Tail(T) = Tail(T) /\ Tail(T) \in Sessions
            /\ \A a \in Agents : Owes(Tail(T), a)
            /\ Each("rearm") \o Tail(T) \in Sessions
            /\ \A a \in Agents : Owes(Each("rearm") \o Tail(T), a)
        BY <1>1, <1>2, <2>1, SessionsGoOn
      <3> QED BY <2>2, <3>1
    <2> QED BY <1>1, <2>2, <2>3, QuietIdles DEF Becomes
  <1>5. CASE EnsureArmed(w)
    <2>1. Head(T).do = "ensure"
      BY <1>3, <1>5 DEF EnsureArmed, Turn
    <2>2. PICK todo : /\ todo = (IF Read.consent THEN Each("arm") ELSE <<>>) \o Tail(T)
                      /\ Becomes(w, todo)
      BY <1>5, Zenon DEF EnsureArmed
    <2>3. w \in quiet => todo \in Sessions /\ (Read.consent => \A a \in Agents : Owes(todo, a))
      <3> HIDE DEF T
      <3>1. CASE Read.consent
        BY <1>1, <1>2, <2>1, <2>2, <3>1, SessionsGoOn
      <3>2. CASE ~Read.consent
        BY <1>1, <1>2, <2>1, <2>2, <3>2, SessionsGoOn
      <3> QED BY <3>1, <3>2
    <2> QED BY <1>1, <2>2, <2>3, QuietIdles DEF Becomes
  <1>6. CASE Rearm(w)
    <2>1. Head(T).do = "rearm"
      BY <1>3, <1>6 DEF Rearm, Turn
    <2>2. CASE Done(w)
      <3>1. w \in quiet => Tail(T) \in Sessions /\ \A a \in Agents : Owes(Tail(T), a)
        <4> HIDE DEF T
        <4> QED BY <1>1, <1>2, <2>1, SessionsGoOn
      <3> QED BY <1>1, <2>2, <3>1, QuietIdles DEF Done, Becomes
    <2>3. CASE Enter(w, "script", None)
      BY <1>1, <1>3, <2>1, <2>3, QuietEnters
    <2> QED BY <1>6, <2>2, <2>3, Zenon DEF Rearm
  <1>7. CASE StartInstall(w)
    <2>1. Head(T).do = "connect"
      BY <1>3, <1>7 DEF StartInstall, Turn
    <2>2. w \notin quiet
      <3> HIDE DEF T
      <3> QED BY <1>1, <1>2, <2>1, SessionsGoOn
    <2> QED BY <1>1, <1>7, <2>2, QuietEnters DEF StartInstall
  <1>8. CASE StartUpdate(w)
    <2>1. Now(w).do \in {"consent", "onboarded"}
      BY <1>8 DEF StartUpdate, Turn
    <2> QED BY <1>1, <1>8, <2>1, QuietEnters DEF StartUpdate
  <1> QED BY <1>4, <1>5, <1>6, <1>7, <1>8

\* ensureArmed for one assistant: one that counts as armed is in place.
LEMMA QuietArm ==
  ASSUME ArmingInv, QuietInv, NEW w \in Windows, Arm(w)
  PROVE  QuietInv'
  <1> DEFINE T == win[w].todo
             a == Now(w).agent
  <1>1. Up(w) /\ win[w].at = "idle" /\ T # <<>> /\ Thinks(w) /\ Head(T).do = "arm"
    BY Zenon DEF Arm, Turn, AtRest, Now
  <1>2. w \in quiet => T \in Sessions
    BY <1>1 DEF QuietInv, QuietFine
  <1>3. a = Head(T).agent /\ Now(w) = Head(T)
    BY DEF Now
  <1>4. CASE Enter(w, "script", None)
    BY <1>1, <1>3, <1>4, QuietEnters
  <1>5. CASE IsArmed(w, a) /\ Done(w)
    <2> DEFINE r == Read.record[a]
    <2>1. Read \in States
      BY ReadTyped DEF QuietInv
    <2>2. ASSUME a \in Agents PROVE Mended(w, a)
      <3>1. r # None
        BY <1>5 DEF IsArmed, IsInstalled, InstalledIn, FixableFails
      <3>2. /\ ~FileFails(w, r) /\ Seen(a) # None
            /\ Parses(Seen(a)) => EntriesMatch(Groups(Seen(a)), watchdog)
        BY <1>5, <3>1 DEF IsArmed, FixableFails
      <3>0. Seen(a) = hooks[a]
        BY <3>2 DEF Seen
      <3>3. script = r.script /\ script = Version[w] /\ wrapper = r.wrapper
        BY <3>2 DEF FileFails
      <3>4. r \in Records
        BY <2>1, <2>2, <3>1 DEF States
      <3>5. wrapper \in Range(Runtime)
        BY <3>3, <3>4 DEF Records
      <3>6. Settled(w) = Read
        BY <1>1 DEF Settled
      <3> QED BY <3>0, <3>1, <3>2, <3>3, <3>5, <3>6 DEF Mended, InPlace
    <2>3. ASSUME w \in quiet
          PROVE  /\ Tail(T) \in Sessions
                 /\ \A b \in Agents : Read.consent => Owes(Tail(T), b) \/ Mended(w, b)
      <3>1. \A b \in Agents : Read.consent => Owes(T, b) \/ Mended(w, b)
        BY <1>1, <2>3 DEF QuietInv, QuietFine, Settled
      <3> HIDE DEF T, a
      <3>2. /\ Tail(T) \in Sessions /\ a \in Agents
            /\ \A b \in Agents : b # a => (Owes(T, b) <=> Owes(Tail(T), b))
        BY <1>1, <1>2, <1>3, <2>3, SessionsGoOn
      <3> QED BY <2>2, <3>1, <3>2
    <2> QED BY <1>1, <1>5, <2>3, QuietIdles DEF Done, Becomes
  <1> QED BY <1>4, <1>5, Zenon DEF Arm

\* runOnboarding.
LEMMA QuietGreet ==
  ASSUME ArmingInv, QuietInv, NEW w \in Windows, Greet(w)
  PROVE  QuietInv'
  <1> DEFINE T == win[w].todo
             rest == <<Ensure, Onboarded>>
  <1>1. Up(w) /\ win[w].at = "idle" /\ T # <<>> /\ Thinks(w) /\ Head(T).do = "greet"
    BY Zenon DEF Greet, Turn, AtRest, Now
  <1>2. w \in quiet => T \in Sessions
    BY <1>1 DEF QuietInv, QuietFine
  <1>3. PICK asked \in {<<>>, <<Task("consent", None)>>} :
          Becomes(w, IF Read.onboarded THEN Tail(T) ELSE asked \o rest)
    BY Zenon DEF Greet, Ensure, Onboarded
  <1>4. CASE Read.onboarded
    <2>1. Becomes(w, Tail(T))
      BY <1>3, <1>4
    <2>2. ASSUME w \in quiet
          PROVE  /\ Tail(T) \in Sessions
                 /\ \A b \in Agents : Read.consent => Owes(Tail(T), b) \/ Mended(w, b)
      <3>1. \A b \in Agents : Read.consent => Owes(T, b) \/ Mended(w, b)
        BY <1>1, <2>2 DEF QuietInv, QuietFine, Settled
      <3> HIDE DEF T
      <3> QED BY <1>1, <1>2, <2>2, <3>1, SessionsGoOn
    <2> QED BY <1>1, <2>1, <2>2, QuietIdles DEF Becomes
  <1>5. CASE ~Read.onboarded
    <2>1. Becomes(w, asked \o rest)
      BY <1>3, <1>5
    <2>2. asked \o rest \in {rest, <<Task("consent", None), Ensure, Onboarded>>}
      <3>1. <<>> \o rest = rest
        BY Lists
      <3>2. <<Task("consent", None)>> \o rest = <<Task("consent", None), Ensure, Onboarded>>
        BY Lists
      <3> QED BY <3>1, <3>2
    <2>3. asked \o rest \in Sessions
      BY <2>2 DEF Sessions
    <2>4. \A a \in Agents : Owes(asked \o rest, a)
      <3>1. \A a : Owes(rest, a) /\ Owes(<<Task("consent", None), Ensure, Onboarded>>, a)
        BY OwesIs
      <3> HIDE DEF rest
      <3> QED BY <2>2, <3>1
    <2> QED BY <1>1, <2>1, <2>3, <2>4, QuietIdles DEF Becomes
  <1> QED BY <1>4, <1>5

\* The hooks file is read: what is to be written has our entry, and what is
\* left as it is has it too.
LEMMA QuietReadHooks ==
  ASSUME ArmingInv, QuietInv, NEW w \in Windows, ReadHooks(w)
  PROVE  QuietInv'
  <1> DEFINE T == win[w].todo
             a == Now(w).agent
             file == Seen(a)
             was == Groups(file)
             held == [was |-> hooks[a], becomes |-> Edited(w, was), blind |-> a \in unreadable]
  <1>1. Up(w) /\ win[w].at = "read" /\ Thinks(w)
    BY Zenon DEF ReadHooks, Stage
  <1>2. \/ file # None /\ ~Parses(file) /\ Done(w)
        \/ Edited(w, was) = was /\ Enter(w, "open", None)
        \/ Enter(w, "write", held)
    BY Zenon DEF ReadHooks
  <1>3. Typed
    BY DEF ArmingInv
  <1>4. ASSUME w \in quiet
        PROVE  /\ T \in Sessions /\ T # <<>> /\ Head(T).do \in {"arm", "rearm"} /\ a \in Agents
               /\ Now(w) = Head(T) /\ a = Head(T).agent
               /\ script = Version[w] /\ wrapper = Runtime[w]
               /\ \A b \in Agents : Read.consent => Owes(T, b) \/ Mended(w, b)
    <2>1. QuietFine(w)
      BY <1>4 DEF QuietInv
    <2>2. /\ T \in Sessions /\ Now(w).do \in {"arm", "rearm"} /\ OnTheWay(w)
          /\ \A b \in Agents : Read.consent => Owes(T, b) \/ Mended(w, b)
      BY <1>1, <2>1 DEF QuietFine, Settled
    <2>3. Now(w) = Head(T) /\ a = Head(T).agent
      BY DEF Now
    <2>4. T # <<>>
      BY <1>1, <2>1 DEF QuietFine
    <2>5. a \in Agents
      <3> HIDE DEF T, a
      <3> QED BY <2>2, <2>3, <2>4, SessionsGoOn
    <2> QED BY <1>1, <2>2, <2>3, <2>4, <2>5 DEF OnTheWay
  <1>5. ASSUME w \in quiet PROVE Edited(w, was) = Upserted(was, watchdog)
    BY <1>4, <1>5 DEF Edited, Installing
  <1>6. ASSUME w \in quiet PROVE EntriesMatch(Upserted(was, watchdog), watchdog)
    <2>1. was \in GroupLists /\ watchdog \in Watchdogs
      BY <1>3, <1>4, <1>6, GroupsTyped DEF Typed, Seen, Files
    <2> QED BY <2>1, UpsertedIs
  <1>7. CASE file # None /\ ~Parses(file) /\ Done(w)
    <2>1. ASSUME w \in quiet
          PROVE  /\ Tail(T) \in Sessions
                 /\ \A b \in Agents : Read.consent => Owes(Tail(T), b) \/ Mended(w, b)
      <3>1. Runtime[w] \in Range(Runtime)
        BY ArmingAssumption DEF Range
      <3>0. ~Parses(hooks[a])
        BY <1>7 DEF Seen
      <3>2. Mended(w, a)
        BY <1>4, <2>1, <3>0, <3>1 DEF Mended, InPlace
      <3>3. \A b \in Agents : Read.consent => Owes(T, b) \/ Mended(w, b)
        BY <1>4, <2>1
      <3>4. T \in Sessions /\ T # <<>> /\ Head(T).do \in {"arm", "rearm"} /\ a = Head(T).agent
        BY <1>4, <2>1
      <3> HIDE DEF T, a
      <3>5. CASE Head(T).do = "rearm"
        BY <3>4, <3>5, SessionsGoOn
      <3>6. CASE Head(T).do = "arm"
        BY <3>2, <3>3, <3>4, <3>6, SessionsGoOn
      <3> QED BY <3>4, <3>5, <3>6
    <2> QED BY <1>1, <1>7, <2>1, QuietIdles DEF Done, Becomes
  <1>8. CASE Edited(w, was) = was /\ Enter(w, "open", None)
    <2>1. ASSUME w \in quiet PROVE InPlace(a)
      <3>1. EntriesMatch(was, watchdog)
        BY <1>5, <1>6, <1>8, <2>1
      <3>2. ~EntriesMatch(<<>>, watchdog)
        BY DEF EntriesMatch, Places
      <3>3. a \notin unreadable
        BY <3>1, <3>2 DEF Seen, Groups
      <3> QED BY <3>1, <3>3 DEF InPlace, Seen
    <2> QED BY <1>1, <1>4, <1>8, <2>1, QuietEnters
  <1>9. CASE Enter(w, "write", held)
    <2>1. w \in quiet => EntriesMatch(held.becomes, watchdog)
      BY <1>5, <1>6
    <2> HIDE DEF held
    <2> QED BY <1>1, <1>4, <1>9, <2>1, QuietEnters
  <1> QED BY <1>2, <1>7, <1>8, <1>9

\* An installation writes the script and the wrapper of its own window: what
\* was in place for the other assistant stays so.
LEMMA QuietInstalls ==
  ASSUME ArmingInv, QuietInv, NEW w \in Windows, InstallScript(w) \/ InstallWrapper(w)
  PROVE  QuietInv'
  <1> DEFINE T == win[w].todo
             at == IF InstallScript(w) THEN "wrapper" ELSE "read"
  <1>1. /\ Up(w) /\ win[w].at \in {"script", "wrapper"} /\ Enter(w, at, None)
        /\ at \in {"wrapper", "read"}
    BY Zenon DEF InstallScript, InstallWrapper, Stage
  <1>2. Typed /\ WindowsFine /\ StateTyped
    BY DEF ArmingInv, QuietInv
  <1>3. /\ UNCHANGED <<hooks, state, watchdog>> /\ quiet' = quiet \cap {w}
        /\ IF InstallScript(w) THEN win[w].at = "script" /\ script' = Version[w] /\ wrapper' = wrapper
           ELSE win[w].at = "wrapper" /\ wrapper' = Runtime[w] /\ script' = script
    BY DEF InstallScript, InstallWrapper, StepOf, person, Stage
  <1>4. /\ win' = [win EXCEPT ![w] = [todo |-> T, at |-> at, held |-> None]]
        /\ win'[w].at = at /\ win'[w].todo = T
    <2> HIDE DEF at
    <2> QED BY <1>1, <1>2, EntersIs DEF Typed
  <1>5. StateTyped'
    <2>1. [todo |-> T, at |-> at, held |-> None].at # "fill"
      BY <1>1
    <2> QED BY <1>2, <1>3, <1>4, <2>1, StateStaysTyped DEF StateTyped
  <1>6. ASSUME w \in quiet PROVE QuietFine(w)'
    <2>1. /\ T \in Sessions /\ T # <<>> /\ Now(w).do \in {"arm", "rearm"} /\ OnTheWay(w)
          /\ \A a \in Agents : Settled(w).consent => Owes(T, a) \/ Mended(w, a)
      BY <1>1, <1>6 DEF QuietInv, QuietFine
    <2>2. Settled(w)' = Settled(w) /\ Now(w)' = Now(w)
      BY <1>1, <1>3, <1>4 DEF Settled, Read, Now
    <2>3. OnTheWay(w)'
      BY <1>1, <1>3, <1>4, <2>1 DEF OnTheWay
    <2>4. Runtime[w] \in Range(Runtime)
      BY ArmingAssumption DEF Range
    <2>5. \A a \in Agents : Mended(w, a) => Mended(w, a)'
      BY <1>3, <2>2, <2>4 DEF Mended, InPlace
    <2> HIDE DEF at
    <2> QED BY <1>1, <1>4, <2>1, <2>2, <2>3, <2>5 DEF QuietFine
  <1> QED BY <1>3, <1>5, <1>6 DEF QuietInv

\* The hooks file is written: our entry is in place for its assistant.
LEMMA QuietWriteHooks ==
  ASSUME ArmingInv, QuietInv, NEW w \in Windows, WriteHooks(w)
  PROVE  QuietInv'
  <1> DEFINE T == win[w].todo
             a == Now(w).agent
             file == [ok |-> TRUE, groups |-> win[w].held.becomes]
  <1>1. Up(w) /\ win[w].at = "write" /\ Enter(w, "open", None)
    BY Zenon DEF WriteHooks, Stage
  <1>2. Typed /\ WindowsFine /\ StateTyped
    BY DEF ArmingInv, QuietInv
  <1>3. /\ UNCHANGED <<script, wrapper, state, watchdog>> /\ quiet' = quiet \cap {w}
        /\ hooks' = [hooks EXCEPT ![a] = file]
    BY DEF WriteHooks
  <1>4. /\ win' = [win EXCEPT ![w] = [todo |-> T, at |-> "open", held |-> None]]
        /\ win'[w].at = "open" /\ win'[w].todo = T
    BY <1>1, <1>2, EntersIs DEF Typed
  <1>5. StateTyped'
    <2>1. [todo |-> T, at |-> "open", held |-> None].at # "fill"
      OBVIOUS
    <2> QED BY <1>2, <1>3, <1>4, <2>1, StateStaysTyped DEF StateTyped
  <1>6. ASSUME w \in quiet PROVE QuietFine(w)'
    <2>1. /\ T \in Sessions /\ T # <<>> /\ Now(w).do \in {"arm", "rearm"} /\ OnTheWay(w)
          /\ \A b \in Agents : Settled(w).consent => Owes(T, b) \/ Mended(w, b)
      BY <1>1, <1>6 DEF QuietInv, QuietFine
    <2>2. Settled(w)' = Settled(w) /\ Now(w)' = Now(w)
      BY <1>1, <1>3, <1>4 DEF Settled, Read, Now
    <2>3. Now(w) = Head(T) /\ a = Head(T).agent
      BY DEF Now
    <2>4. /\ a \in Agents /\ (Now(w).do = "arm" => Owes(T, a))
          /\ Now(w).do = "rearm" => \A b \in Agents : Owes(T, b)
      <3> HIDE DEF T, a
      <3> QED BY <2>1, <2>3, SessionsGoOn
    <2>5. /\ hooks'[a] = file /\ \A b \in Agents \ {a} : hooks'[b] = hooks[b]
      BY <1>2, <1>3, <2>4 DEF Typed
    <2>6. EntriesMatch(Groups(hooks'[a]), watchdog')
      <3>1. file # None
        <4>1. Fine(win[w], vouched) /\ a = Head(win[w].todo).agent
          BY <1>1, <1>2 DEF WindowsFine, Up, Now
        <4>2. file \in Files /\ win[w].held.becomes \in GroupLists
          BY <1>1, <2>4, <4>1, FileOf DEF Fine
        <4>3. file \in HookFiles
          BY <4>2 DEF HookFiles, GroupLists, Handlers
        <4> HIDE DEF file
        <4> QED BY <4>3, HooksAssumption
      <3>2. Groups(file) = win[w].held.becomes
        BY <3>1 DEF Groups
      <3>3. EntriesMatch(win[w].held.becomes, watchdog)
        BY <1>1, <2>1 DEF OnTheWay
      <3> HIDE DEF file
      <3> QED BY <1>3, <2>5, <3>2, <3>3
    <2>7. OnTheWay(w)'
      <3>1. script' = Version[w] /\ wrapper' = Runtime[w] /\ Now(w)'.agent = a
        BY <1>1, <1>3, <2>1, <2>2 DEF OnTheWay
      <3> HIDE DEF a, file
      <3> QED BY <1>4, <2>6, <3>1 DEF OnTheWay, InPlace
    <2>8. \A b \in Agents : b # a /\ Mended(w, b) => Mended(w, b)'
      BY <1>3, <2>2, <2>5 DEF Mended, InPlace
    <2>9. \A b \in Agents : Settled(w).consent => Owes(T, b) \/ Mended(w, b)'
      BY <2>1, <2>4, <2>8
    <2> QED BY <1>1, <1>4, <2>1, <2>2, <2>7, <2>9 DEF QuietFine
  <1> QED BY <1>3, <1>5, <1>6 DEF QuietInv

\* state.json is emptied, and what it held is kept in hand.
LEMMA QuietOpenState ==
  ASSUME ArmingInv, QuietInv, NEW w \in Windows, OpenState(w)
  PROVE  QuietInv'
  <1> DEFINE T == win[w].todo
  <1>1. Up(w) /\ win[w].at = "open" /\ Enter(w, "fill", Read)
    BY Zenon DEF OpenState, Stage
  <1>2. Typed /\ WindowsFine /\ StateTyped /\ Read \in States
    BY ReadTyped DEF ArmingInv, QuietInv
  <1>3. /\ UNCHANGED <<script, wrapper, hooks, watchdog>> /\ quiet' = quiet \cap {w} /\ state' = Torn
    BY DEF OpenState, StepOf, person
  <1>4. /\ win' = [win EXCEPT ![w] = [todo |-> T, at |-> "fill", held |-> Read]]
        /\ win'[w].at = "fill" /\ win'[w].todo = T /\ win'[w].held = Read
    BY <1>1, <1>2, EntersIs DEF Typed
  <1>5. StateTyped'
    <2>1. [todo |-> T, at |-> "fill", held |-> Read].held = Read
      OBVIOUS
    <2> QED BY <1>2, <1>3, <1>4, <2>1, StateStaysTyped DEF StateTyped
  <1>6. ASSUME w \in quiet PROVE QuietFine(w)'
    <2>1. /\ T \in Sessions /\ T # <<>>
          /\ \/ Now(w).do \in {"arm", "rearm"} /\ OnTheWay(w)
             \/ Now(w).do \in {"consent", "onboarded"}
          /\ \A a \in Agents : Settled(w).consent => Owes(T, a) \/ Mended(w, a)
      BY <1>1, <1>6 DEF QuietInv, QuietFine
    <2>2. Settled(w)' = Settled(w) /\ Now(w)' = Now(w)
      BY <1>1, <1>4 DEF Settled, Now
    <2>3. \A a \in Agents : Mended(w, a)' <=> Mended(w, a)
      BY <1>3, <2>2 DEF Mended, InPlace
    <2>4. OnTheWay(w) => OnTheWay(w)'
      BY <1>1, <1>3, <1>4, <2>2 DEF OnTheWay, InPlace
    <2> QED BY <1>1, <1>4, <2>1, <2>2, <2>3, <2>4 DEF QuietFine
  <1> QED BY <1>3, <1>5, <1>6 DEF QuietInv

\* What state.json becomes.
LEMMA MutatedIs ==
  ASSUME NEW w \in Windows, NEW s \in States, Now(w).do \notin {"consent", "onboarded", "disconnect"},
         Now(w).agent \in Agents
  PROVE  /\ Mutated(w, s).consent = s.consent
         /\ Mutated(w, s).record[Now(w).agent] = Record(w)
         /\ \A b \in Agents \ {Now(w).agent} : Mutated(w, s).record[b] = s.record[b]
  <1>1. Mutated(w, s) = [s EXCEPT !.record[Now(w).agent] = Record(w)]
    BY DEF Mutated
  <1> QED BY <1>1 DEF States

LEMMA MutatedTyped ==
  ASSUME NEW w \in Windows, NEW s \in States
  PROVE  Mutated(w, s) \in States
  <1>1. Record(w) \in Records
    BY ArmingAssumption DEF Record, Records, Range
  <1> DEFINE do == Now(w).do
             a == Now(w).agent
  <1>2. CASE do = "consent"
    BY <1>2 DEF Mutated, States
  <1>3. CASE do = "onboarded"
    BY <1>3 DEF Mutated, States
  <1>4. CASE do = "disconnect"
    <2>1. Mutated(w, s) = [s EXCEPT !.record[a] = None]
      BY <1>4 DEF Mutated
    <2> HIDE DEF a
    <2> QED BY <2>1 DEF States
  <1>5. CASE do \notin {"consent", "onboarded", "disconnect"}
    <2>1. Mutated(w, s) = [s EXCEPT !.record[a] = Record(w)]
      BY <1>5 DEF Mutated
    <2> DEFINE r == Record(w)
    <2> HIDE DEF a, r
    <2> QED BY <1>1, <2>1 DEF States
  <1> QED BY <1>2, <1>3, <1>4, <1>5

\* state.json is written back: what was done for an assistant is recorded.
LEMMA QuietFillState ==
  ASSUME ArmingInv, QuietInv, NEW w \in Windows, FillState(w)
  PROVE  QuietInv'
  <1> DEFINE T == win[w].todo
             held == win[w].held
             a == Now(w).agent
             new == Mutated(w, held)
  <1>1. Up(w) /\ win[w].at = "fill" /\ win' = [win EXCEPT ![w] = Window(Tail(T))]
    BY Zenon DEF FillState, Stage, Done, Becomes
  <1>2. Typed /\ StateTyped /\ held \in States
    BY <1>1 DEF ArmingInv, QuietInv, StateTyped, Up
  <1>3. /\ UNCHANGED <<script, wrapper, hooks, watchdog>> /\ quiet' = quiet \cap {w}
        /\ state' = new
    BY DEF FillState, StepOf, person
  <1>4. new \in States
    BY <1>2, MutatedTyped
  <1>5. win'[w].at = "idle" /\ win'[w].todo = Tail(T)
    BY <1>1, <1>2 DEF Typed, Window
  <1>6. StateTyped'
    <2>1. Window(Tail(T)).at # "fill"
      BY DEF Window
    <2>2. state' \in States \cup {Torn} /\ quiet' \in SUBSET Windows
      BY <1>2, <1>3, <1>4 DEF StateTyped
    <2> QED BY <1>1, <1>2, <2>1, <2>2, StateStaysTyped
  <1>7. ASSUME w \in quiet PROVE QuietFine(w)'
    <2>1. /\ T \in Sessions /\ T # <<>>
          /\ \/ Now(w).do \in {"arm", "rearm"} /\ OnTheWay(w)
             \/ Now(w).do \in {"consent", "onboarded"}
          /\ \A b \in Agents : Settled(w).consent => Owes(T, b) \/ Mended(w, b)
      BY <1>1, <1>7 DEF QuietInv, QuietFine
    <2>2. Now(w) = Head(T) /\ a = Head(T).agent /\ Settled(w) = held
      BY <1>1 DEF Now, Settled
    <2>3. Settled(w)' = Read' /\ (Read' = new \/ Read'.consent = FALSE)
      <3>1. Read' = new \/ Read' = Fresh
        BY <1>3 DEF Read
      <3>2. Fresh.consent = FALSE
        BY DEF Fresh
      <3> QED BY <1>5, <3>1, <3>2 DEF Settled
    <2>4. Tail(T) \in Sessions
      <3> HIDE DEF T
      <3> QED BY <2>1, SessionsGoOn
    <2>5. ASSUME NEW b \in Agents, Read'.consent, ~Owes(Tail(T), b) PROVE Mended(w, b)'
      <3>1. Settled(w)' = new
        BY <2>3, <2>5
      <3> HIDE DEF T, new
      <3>2. Now(w).do \in {"arm", "onboarded"}
        BY <2>1, <2>2, <2>5, SessionsGoOn
      <3>3. CASE Now(w).do = "onboarded"
        <4>1. new.consent = held.consent /\ new.record = held.record
          BY <1>2, <3>3 DEF Mutated, States, new
        <4>2. ~Owes(T, b)
          BY <2>1, <2>2, <3>3, SessionsGoOn
        <4>3. Mended(w, b)
          BY <2>1, <2>2, <2>3, <2>5, <3>1, <4>1, <4>2
        <4> QED BY <1>3, <2>2, <3>1, <4>1, <4>3 DEF Mended, InPlace
      <3>4. CASE Now(w).do = "arm"
        <4>1. a \in Agents /\ (b # a => (Owes(T, b) <=> Owes(Tail(T), b)))
          <5> HIDE DEF a
          <5> QED BY <2>1, <2>2, <3>4, SessionsGoOn
        <4>2. /\ new.consent = held.consent /\ new.record[a] = Record(w)
              /\ \A c \in Agents \ {a} : new.record[c] = held.record[c]
          BY <1>2, <3>4, <4>1, MutatedIs DEF new
        <4>3. CASE b = a
          <5>1. /\ script = Version[w] /\ wrapper = Runtime[w] /\ InPlace(a)
            BY <1>1, <2>1, <3>4 DEF OnTheWay
          <5>2. Runtime[w] \in Range(Runtime)
            BY ArmingAssumption DEF Range
          <5>3. Record(w) # None /\ Record(w).script = Version[w]
            BY HooksAssumption DEF Record
          <5>4. InPlace(b)'
            BY <1>3, <4>3, <5>1 DEF InPlace
          <5>5. Settled(w)'.record[b] = Record(w)
            BY <3>1, <4>2, <4>3
          <5> QED BY <1>3, <5>1, <5>2, <5>3, <5>4, <5>5 DEF Mended
        <4>4. CASE b # a
          <5>1. Mended(w, b)
            BY <2>1, <2>2, <2>3, <2>5, <3>1, <4>1, <4>2, <4>4
          <5>2. Settled(w)'.record[b] = Settled(w).record[b]
            BY <2>2, <3>1, <4>2, <4>4
          <5> QED BY <1>3, <5>1, <5>2 DEF Mended, InPlace
        <4> QED BY <4>3, <4>4
      <3> QED BY <3>2, <3>3, <3>4
    <2>6. \A b \in Agents : Settled(w)'.consent => Owes(Tail(T), b) \/ Mended(w, b)'
      BY <2>3, <2>5
    <2> QED BY <1>5, <2>4, <2>6 DEF QuietFine
  <1> QED BY <1>3, <1>6, <1>7 DEF QuietInv

\* No undisturbed session takes our entries out.
LEMMA QuietStartUninstall ==
  ASSUME ArmingInv, QuietInv, NEW w \in Windows, StartUninstall(w)
  PROVE  QuietInv'
  <1> DEFINE T == win[w].todo
             x == [todo |-> T, at |-> "read", held |-> None]
  <1>1. Up(w) /\ win[w].at = "idle" /\ T # <<>> /\ Enter(w, "read", None)
    BY Zenon DEF StartUninstall, Turn, AtRest
  <1>2. Typed /\ WindowsFine /\ StateTyped
    BY DEF ArmingInv, QuietInv
  <1>3. state' = state /\ quiet' = quiet \cap {w} /\ Head(T).do = "disconnect"
    BY DEF StartUninstall, files, Turn, Now
  <1>4. w \notin quiet
    <2> SUFFICES ASSUME w \in quiet PROVE FALSE
      OBVIOUS
    <2>1. T \in Sessions
      BY <1>1 DEF QuietInv, QuietFine
    <2> HIDE DEF T
    <2> QED BY <1>1, <1>3, <2>1, SessionsGoOn
  <1>5. quiet' = {}
    BY <1>3, <1>4
  <1>6. win' = [win EXCEPT ![w] = x]
    BY <1>1, <1>2, EntersIs
  <1>7. x.at # "fill"
    OBVIOUS
  <1>8. state' \in States \cup {Torn} /\ quiet' \in SUBSET Windows
    BY <1>2, <1>3, <1>5 DEF StateTyped
  <1> HIDE DEF x
  <1>9. StateTyped'
    BY <1>2, <1>6, <1>7, <1>8, StateStaysTyped
  <1> QED BY <1>5, <1>9, NobodyQuiet

\* What disturbs everybody: an answer in time that does not come, a failed
\* call, a crash, a command.
LEMMA QuietDisturbed ==
  ASSUME ArmingInv, QuietInv, NEW w \in Windows,
         \/ DetectFails(w) \/ Fail(w) \/ Crash(w)
         \/ Connect(w) \/ Disconnect(w) \/ DoctorRearms(w)
  PROVE  QuietInv'
  <1>1. Typed /\ StateTyped
    BY DEF ArmingInv, QuietInv
  <1>2. quiet' = {} /\ state' = state
    <2>1. CASE DetectFails(w)
      BY <2>1 DEF DetectFails, Event, files
    <2>2. CASE Fail(w)
      BY <2>2 DEF Fail, Event, files
    <2>3. CASE Crash(w)
      BY <2>3 DEF Crash, Event, files
    <2>4. CASE Connect(w) \/ Disconnect(w) \/ DoctorRearms(w)
      BY <2>4 DEF Connect, Disconnect, DoctorRearms, Command, Event, files
    <2> QED BY <2>1, <2>2, <2>3, <2>4
  <1>3. PICK x : win' = [win EXCEPT ![w] = x] /\ (x = None \/ \E todo : x = Window(todo))
    <2>1. CASE Crash(w)
      BY <2>1 DEF Crash
    <2>2. CASE ~Crash(w)
      <3>1. \E todo : Becomes(w, todo)
        BY <2>2, Zenon DEF DetectFails, Fail, Connect, Disconnect, DoctorRearms, Command, Done
      <3> QED BY <3>1 DEF Becomes
    <2> QED BY <2>1, <2>2
  <1>4. x = None \/ x.at # "fill"
    BY <1>3 DEF Window
  <1>5. state' \in States \cup {Torn} /\ quiet' \in SUBSET Windows
    BY <1>1, <1>2 DEF StateTyped
  <1>6. StateTyped'
    BY <1>1, <1>3, <1>4, <1>5, StateStaysTyped
  <1> QED BY <1>2, <1>6, NobodyQuiet

\* The same for what others do to the files.
LEMMA QuietHandled ==
  ASSUME QuietInv,
         \/ \E a \in Agents : AddHook(a) \/ TakeOut(a) \/ Break(a) \/ CannotRead(a)
         \/ Tamper \/ SetWatchdog \/ Trust
  PROVE  QuietInv'
  <1>1. quiet' = {} /\ UNCHANGED <<state, win>>
    <2>1. ASSUME NEW a \in Agents, NEW groups, Puts(a, groups) PROVE quiet' = {} /\ UNCHANGED <<state, win>>
      BY <2>1 DEF Puts, Event
    <2>2. ASSUME NEW a \in Agents, AddHook(a) \/ TakeOut(a) PROVE \E groups : Puts(a, groups)
      BY <2>2, Zenon DEF AddHook, TakeOut
    <2>3. ASSUME NEW a \in Agents, Break(a) \/ CannotRead(a)
          PROVE  quiet' = {} /\ UNCHANGED <<state, win>>
      BY <2>3 DEF Break, CannotRead, Event
    <2>4. CASE Tamper
      BY <2>4 DEF Tamper, Event
    <2>5. CASE SetWatchdog \/ Trust
      BY <2>5 DEF SetWatchdog, Trust, Event, files
    <2> QED BY <2>1, <2>2, <2>3, <2>4, <2>5
  <1>2. StateTyped'
    BY <1>1 DEF QuietInv, StateTyped
  <1> QED BY <1>1, <1>2, NobodyQuiet

-----------------------------------------------------------------------------

LEMMA QuietInit == Init => QuietInv
  <1> SUFFICES ASSUME Init PROVE QuietInv
    OBVIOUS
  <1>1. quiet = {} /\ state = Fresh /\ win = [w \in Windows |-> None]
    BY DEF Init
  <1>2. Fresh \in States
    BY DEF Fresh, States
  <1> QED BY <1>1, <1>2 DEF QuietInv, StateTyped

LEMMA QuietNext == ArmingInv /\ QuietInv /\ [Next]_vars => QuietInv'
  <1> SUFFICES ASSUME ArmingInv, QuietInv, [Next]_vars PROVE QuietInv'
    OBVIOUS
  <1>1. CASE UNCHANGED vars
    <2>1. UNCHANGED <<script, wrapper, hooks, state, watchdog, win, quiet>>
      BY <1>1 DEF vars, files, person
    <2> QED BY <2>1 DEF QuietInv, StateTyped, QuietFine, Up, Settled, Read, Mended, InPlace, OnTheWay, Now
  <1>2. ASSUME NEW w \in Windows, Works(w) PROVE QuietInv'
    BY <1>2, QuietDecides, QuietArm, QuietGreet, QuietInstalls, QuietReadHooks, QuietWriteHooks,
       QuietOpenState, QuietFillState, QuietStartUninstall DEF Works
  <1>3. ASSUME NEW w \in Windows,
               \/ Start(w) \/ DetectFails(w) \/ Fail(w) \/ Crash(w)
               \/ Connect(w) \/ Disconnect(w) \/ DoctorRearms(w)
        PROVE  QuietInv'
    BY <1>3, QuietStart, QuietDisturbed
  <1>4. CASE \/ \E a \in Agents : AddHook(a) \/ TakeOut(a) \/ Break(a) \/ CannotRead(a)
             \/ Tamper \/ SetWatchdog \/ Trust
    BY <1>4, QuietHandled
  <1> QED BY <1>1, <1>2, <1>3, <1>4 DEF Next

\* The inductive invariant of the sessions: verifyAndRearmAtStartup, ensureArmed
\* and runOnboarding (extension.ts, onboarding.ts) owe an assistant its hook or have put it in
\* place, and an installation on its way has written what its stage says.
THEOREM QuietInvariant == Spec => []QuietInv
  BY ArmingInvariant, QuietInit, QuietNext, PTL DEF Spec

\* README.md:38 and 151: whatever earlier sessions, crashes, failed calls and
\* people left behind, a session that nothing has disturbed ends with the hook
\* in place for every assistant whose hooks file is not broken JSON; one it
\* cannot read included.
THEOREM SessionsArm == Spec => []QuietStartupArms
  <1>1. QuietInv => QuietStartupArms
    <2> SUFFICES ASSUME QuietInv, NEW w \in quiet, AllSet(w), Read.consent
                 PROVE  \A a \in Agents : Mended(w, a) /\ Settled(w) = Read
      BY DEF QuietStartupArms, Mended, InPlace, Agents
    <2>1. Up(w) /\ win[w].at = "idle" /\ win[w].todo = <<>>
      BY Zenon DEF AllSet, AtRest
    <2>2. Settled(w) = Read
      BY <2>1 DEF Settled
    <2>3. \A a \in Agents : ~Owes(win[w].todo, a)
      BY <2>1, OwesIs
    <2>4. \A a \in Agents : Mended(w, a)
      BY <2>1, <2>2, <2>3 DEF QuietInv, QuietFine
    <2> QED BY <2>2, <2>4
  <1> QED BY <1>1, QuietInvariant, PTL
=============================================================================
