-------------------------- MODULE GenerationProofs --------------------------
(***************************************************************************)
(* Proofs about the generation router and its channels: what an answer of  *)
(* the availability cache is worth, that a caller never waits for a check  *)
(* that is over, that no process outlives its request with the prompt in   *)
(* hand, what a request can cost at most, and that the words an assistant  *)
(* sends are kept for the function they are about.  The last part has its  *)
(* own lemmas: folds, sets of numbers in order, and the three passes that  *)
(* pair the items of a reply with the functions of a prompt.               *)
(***************************************************************************)
EXTENDS Generation, FiniteSetTheorems, WellFoundedInduction, TLAPS

-----------------------------------------------------------------------------
(* The inductive invariant.                                                *)

IsCheck(p) ==
  /\ p = [id |-> p.id, ch |-> p.ch, consent |-> p.consent, could |-> p.could, version |-> p.version]
  /\ p.id \in Nat \ {0} /\ p.ch \in Channels /\ p.consent \in BOOLEAN /\ p.could \in BOOLEAN
  /\ p.could /\ p.ch \notin Clis => p.consent

IsAnswer(e) ==
  /\ e = [consent |-> e.consent, version |-> e.version, probe |-> e.probe, up |-> e.up, old |-> e.old]
  /\ e.probe \in Nat /\ e.consent \in BOOLEAN /\ e.up \in BOOLEAN

\* What the cache says of a channel is the answer of a check under these
\* settings, or one such check is under way and no other one has its number.
Current(ch, e, ps, v) ==
  /\ IsAnswer(e)
  /\ e.probe = 0 => e.version = v /\ (e.up /\ ch \notin Clis => e.consent)
  /\ e.probe # 0 => /\ \E p \in ps : p.ch = ch /\ p.id = e.probe
                    /\ \A p \in ps : p.ch = ch /\ p.id = e.probe => p.version = v

IsWait(w) == w = [probe |-> w.probe, up |-> w.up] /\ w.probe \in Nat

\* A caller waits for checks that are under way.
Awaits(a, ps) ==
  /\ a = [ch \in Channels |-> a[ch]]
  /\ \A ch \in Channels :
       /\ IsWait(a[ch])
       /\ a[ch].probe # 0 => \E p \in ps : p.ch = ch /\ p.id = a[ch].probe

Checks ==
  /\ consent \in BOOLEAN
  /\ IsFiniteSet(probes) /\ \A p \in probes : IsCheck(p)
  /\ entry = [ch \in Channels |-> entry[ch]]
  /\ \A ch \in Channels : entry[ch] # None => Current(ch, entry[ch], probes, version)
  /\ asks = [c \in Callers |-> asks[c]]
  /\ \A c \in Callers : asks[c] # None => Awaits(asks[c], probes)

IsChild(k) ==
  /\ {"ch", "try", "step"} \subseteq DOMAIN k /\ k = [f \in DOMAIN k |-> k[f]]
  /\ k.try \in {1, 2} /\ k.step \in {"start", "refused", "running", "pause"}

\* The prompts an attempt may still send without a new turn.
Owed(k) ==
  CASE k = None -> 0
    [] k # None /\ k.step = "start" -> IF k.try = 1 THEN 2 ELSE 1
    [] k # None /\ k.step = "running" -> IF k.try = 1 THEN 1 ELSE 0
    [] k # None /\ k.step = "pause" -> 1
    [] OTHER -> 0

RunFields == {"pc", "chunks", "order", "left", "reask", "good", "again", "prompts", "turns"}

IsRun(q) ==
  /\ RunFields \subseteq DOMAIN q /\ q = [f \in DOMAIN q |-> q[f]]
  /\ q.reask \in {0, 1} /\ q.prompts \in Nat /\ q.turns \in Nat

\* A request at work counts its prompts, those still owed included; a child
\* whose request does not wait is left from before the request was cancelled
\* and is not a process that has the prompt.
Fits(r, q, k, gone) ==
  /\ k # None => IsChild(k)
  /\ q.pc \in {"turn", "asking"} =>
       IsRun(q) /\ q.prompts + Owed(k) <= 2 * q.turns + 2 * (1 - q.reask)
  /\ k # None /\ q.pc # "asking" =>
       q.pc = "failed" /\ r \in gone /\ ~(k.ch \in Clis /\ k.step = "running")

AtWork ==
  /\ req = [r \in Requests |-> req[r]] /\ child = [r \in Requests |-> child[r]]
  /\ \A r \in Requests : Fits(r, req[r], child[r], cancelled)

GenerationIInv == Checks /\ AtWork

\* Whoever waits for a check waits for one that is under way, although checks
\* are shared, outlive changes of the settings and are waited for no longer
\* than a bounded time (src/src/generation/router.ts, probe and raceProbe).
EveryWaitHasItsCheck ==
  \A c \in Callers : asks[c] # None =>
    \A ch \in Channels : asks[c][ch].probe # 0 =>
      \E p \in probes : p.ch = ch /\ p.id = asks[c][ch].probe

-----------------------------------------------------------------------------
(* The availability checks.                                                *)

\* There are finitely many channels.
LEMMA ChannelsFinite == IsFiniteSet(Channels)
<1>1. ChannelOrder \in Seq(Channels)
  BY GenerationAssumption DEF GenerationAssumption
<1>2. DOMAIN ChannelOrder = 1 .. Len(ChannelOrder) /\ Len(ChannelOrder) \in Nat
  BY <1>1
<1>3. IsFiniteSet(DOMAIN ChannelOrder)
  BY <1>2, FS_Interval
<1>4. ChannelOrder \in Surjection(DOMAIN ChannelOrder, Channels)
  BY <1>1 DEF Surjection, Channels, Range
<1> QED BY <1>3, <1>4, FS_Surjection

\* There is always a number left: with one number more than checks, some
\* number is no check's.
LEMMA FreeIdIsFree ==
  ASSUME NEW ch, IsFiniteSet(probes)
  PROVE  FreeId(ch) \in Nat \ {0} /\ \A p \in probes : p.ch = ch => p.id # FreeId(ch)
<1> DEFINE N == Cardinality(probes) + 1
           f == [p \in probes |-> IF p.id \in 1 .. N THEN p.id ELSE 1]
<1>1. N \in Nat \ {0} /\ Cardinality(probes) < N
  BY FS_CardinalityType
<1>2. \E i \in 1 .. N : \A p \in probes : p.id # i
  <2> SUFFICES ASSUME \A i \in 1 .. N : \E p \in probes : p.id = i
               PROVE  FALSE
    OBVIOUS
  <2>1. f \in [probes -> 1 .. N] /\ \A i \in 1 .. N : \E p \in probes : f[p] = i
    BY <1>1
  <2>2. f \in Surjection(probes, 1 .. N)
    BY <2>1 DEF Surjection
  <2>3. Cardinality(1 .. N) <= Cardinality(probes)
    BY <2>2, FS_Surjection
  <2>4. Cardinality(1 .. N) = N
    BY <1>1, FS_Interval
  <2> QED BY <1>1, <2>3, <2>4, FS_CardinalityType
<1>3. \E i \in 1 .. N : \A p \in probes : p.ch = ch => p.id # i
  BY <1>2
<1>4. FreeId(ch) \in 1 .. N /\ \A p \in probes : p.ch = ch => p.id # FreeId(ch)
  BY <1>3 DEF FreeId
<1> QED BY <1>1, <1>4

\* Asking for every channel starts checks under the present settings; who
\* asks waits for these or for earlier ones, which are under way.
LEMMA ProbeAllKeeps ==
  ASSUME Checks, NEW c \in Callers, ProbeAll(c), UNCHANGED <<consent, version>>
  PROVE  Checks'
<1> DEFINE fresh == {ch \in Channels : ~Serves(ch)}
           new(ch) == [id |-> FreeId(ch), ch |-> ch, consent |-> consent,
                       could |-> CouldAnswer(ch), version |-> version]
           started == {new(ch) : ch \in fresh}
<1>1. probes' = probes \cup started
  BY DEF ProbeAll
<1>2. entry' = [ch \in Channels |-> IF ch \in fresh THEN Answer(consent, version, FreeId(ch), FALSE)
                                    ELSE entry[ch]]
  BY DEF ProbeAll
<1>3. asks' = [asks EXCEPT ![c] = [ch \in Channels |->
              IF ch \in fresh THEN Waits(FreeId(ch))
              ELSE IF entry[ch].probe # 0 THEN Waits(entry[ch].probe) ELSE Has(entry[ch].up)]]
  BY DEF ProbeAll
<1>4. \A ch : FreeId(ch) \in Nat \ {0} /\ \A p \in probes : p.ch = ch => p.id # FreeId(ch)
  BY FreeIdIsFree DEF Checks
<1>5. \A ch \in Channels : CouldAnswer(ch) \in BOOLEAN /\ (ch \notin Clis => CouldAnswer(ch) = consent)
  BY DEF CouldAnswer, ToolIsThere, Checks
<1>6. IsFiniteSet(probes')
  <2>1. IsFiniteSet(fresh)
    BY ChannelsFinite, FS_Subset
  <2>2. [ch \in fresh |-> new(ch)] \in Surjection(fresh, started)
    BY DEF Surjection
  <2>3. IsFiniteSet(started)
    BY <2>1, <2>2, FS_Surjection
  <2> QED BY <1>1, <2>3, FS_Union DEF Checks
<1>7. \A ch \in fresh : IsCheck(new(ch))
  BY <1>4, <1>5 DEF IsCheck, Checks
<1>8. \A p \in probes' : IsCheck(p)
  BY <1>1, <1>7 DEF Checks
<1>9. \A ch \in Channels : entry'[ch] # None => Current(ch, entry'[ch], probes', version)
  <2> SUFFICES ASSUME NEW ch \in Channels, entry'[ch] # None
               PROVE  Current(ch, entry'[ch], probes', version)
    OBVIOUS
  <2>1. CASE ch \in fresh
    <3>1. entry'[ch] = Answer(consent, version, FreeId(ch), FALSE)
      BY <1>2, <2>1
    <3>2. new(ch) \in probes' /\ new(ch).ch = ch /\ new(ch).id = FreeId(ch)
      BY <1>1, <2>1
    <3>3. \A p \in probes' : p.ch = ch /\ p.id = FreeId(ch) => p.version = version
      BY <1>1, <1>4
    <3> QED BY <1>4, <3>1, <3>2, <3>3 DEF Current, IsAnswer, Answer, Checks
  <2>2. CASE ch \notin fresh
    <3>1. entry'[ch] = entry[ch] /\ Current(ch, entry[ch], probes, version)
      BY <1>2, <2>2 DEF Checks
    <3>2. \A p \in probes' : p.ch = ch => p \in probes
      BY <1>1, <2>2
    <3> QED BY <1>1, <3>1, <3>2 DEF Current
  <2> QED BY <2>1, <2>2
<1>10. \A d \in Callers : asks'[d] # None => Awaits(asks'[d], probes')
  <2>1. ASSUME NEW d \in Callers, d # c, asks'[d] # None
        PROVE  Awaits(asks'[d], probes')
    <3>1. asks'[d] = asks[d] /\ Awaits(asks[d], probes)
      BY <1>3, <2>1 DEF Checks
    <3> QED BY <1>1, <3>1 DEF Awaits
  <2>2. Awaits(asks'[c], probes')
    <3> DEFINE wait(ch) == IF ch \in fresh THEN Waits(FreeId(ch))
                           ELSE IF entry[ch].probe # 0 THEN Waits(entry[ch].probe) ELSE Has(entry[ch].up)
    <3>1. asks'[c] = [ch \in Channels |-> wait(ch)]
      BY <1>3 DEF Checks
    <3>2. ASSUME NEW ch \in Channels
          PROVE  IsWait(wait(ch)) /\ (wait(ch).probe # 0 => \E p \in probes' : p.ch = ch /\ p.id = wait(ch).probe)
      <4>1. CASE ch \in fresh
        <5>1. new(ch) \in probes' /\ new(ch).ch = ch /\ new(ch).id = FreeId(ch)
          BY <1>1, <4>1
        <5> QED BY <1>4, <4>1, <5>1 DEF IsWait, Waits
      <4>2. CASE ch \notin fresh
        <5>1. entry[ch] # None
          BY <4>2 DEF Serves
        <5>2. Current(ch, entry[ch], probes, version)
          BY <5>1 DEF Checks
        <5> QED BY <1>1, <4>2, <5>2 DEF Current, IsAnswer, IsWait, Waits, Has
      <4> QED BY <4>1, <4>2
    <3> HIDE DEF wait
    <3> QED BY <3>1, <3>2 DEF Awaits
  <2> QED BY <2>1, <2>2
<1>11. asks' = [d \in Callers |-> asks'[d]] /\ entry' = [ch \in Channels |-> entry'[ch]]
  BY <1>2, <1>3 DEF Checks
<1> QED BY <1>6, <1>8, <1>9, <1>10, <1>11 DEF Checks

\* A check that ends leaves its answer where it is still waited for.  What
\* does not wait for it waits for a check with another name.
LEMMA ProbeEndsKeeps ==
  ASSUME Checks, ProbeEnds
  PROVE  Checks'
<1> PICK p \in probes, up \in BOOLEAN :
      /\ up => p.could
      /\ probes' = probes \ {p}
      /\ Publish(p, up)
      /\ asks' = [c \in Callers |-> IF asks[c] = None THEN None
           ELSE [ch \in Channels |-> IF ch = p.ch /\ asks[c][ch].probe = p.id THEN Has(up) ELSE asks[c][ch]]]
  BY DEF ProbeEnds
<1>1. UNCHANGED <<consent, version>>
  BY DEF ProbeEnds, settings
<1>2. IsCheck(p)
  BY DEF Checks
<1>3. IsFiniteSet(probes') /\ \A q \in probes' : IsCheck(q)
  BY FS_RemoveElement DEF Checks
<1>4. \A ch \in Channels : entry'[ch] # None => Current(ch, entry'[ch], probes', version)
  <2> SUFFICES ASSUME NEW ch \in Channels, entry'[ch] # None
               PROVE  Current(ch, entry'[ch], probes', version)
    OBVIOUS
  <2>1. CASE ch = p.ch /\ entry[ch] # None /\ entry[ch].probe = p.id
    <3>1. entry'[ch] = Answer(p.consent, p.version, 0, up)
      BY <2>1 DEF Publish, Checks
    <3>2. Current(ch, entry[ch], probes, version)
      BY <2>1 DEF Checks
    <3>3. p.version = version
      BY <1>2, <2>1, <3>2 DEF Current, IsCheck
    <3>4. up /\ ch \notin Clis => p.consent
      BY <1>2, <2>1 DEF IsCheck
    <3>5. p.consent \in BOOLEAN
      BY <1>2 DEF IsCheck
    <3> QED BY <3>1, <3>3, <3>4, <3>5 DEF Current, IsAnswer, Answer
  <2>2. CASE ~(ch = p.ch /\ entry[ch] # None /\ entry[ch].probe = p.id)
    <3>1. entry'[ch] = entry[ch]
      BY <2>2 DEF Publish, Checks
    <3>2. Current(ch, entry[ch], probes, version)
      BY <3>1 DEF Checks
    <3>3. ~(p.ch = ch /\ p.id = entry[ch].probe)
      BY <2>2, <3>1
    <3> QED BY <3>1, <3>2, <3>3 DEF Current
  <2> QED BY <2>1, <2>2
<1>5. entry' = [ch \in Channels |-> entry'[ch]]
  BY DEF Publish, Checks
<1>6. \A c \in Callers : asks'[c] # None => Awaits(asks'[c], probes')
  <2> SUFFICES ASSUME NEW c \in Callers, asks'[c] # None
               PROVE  Awaits(asks'[c], probes')
    OBVIOUS
  <2>1. Awaits(asks[c], probes)
    BY DEF Checks
  <2>2. asks'[c] = [ch \in Channels |-> IF ch = p.ch /\ asks[c][ch].probe = p.id THEN Has(up) ELSE asks[c][ch]]
    OBVIOUS
  <2>3. ASSUME NEW ch \in Channels
        PROVE  /\ IsWait(asks'[c][ch])
               /\ asks'[c][ch].probe # 0 => \E q \in probes' : q.ch = ch /\ q.id = asks'[c][ch].probe
    <3>1. CASE ch = p.ch /\ asks[c][ch].probe = p.id
      <4>1. asks'[c][ch] = Has(up)
        BY <2>2, <3>1
      <4> QED BY <4>1 DEF Has, IsWait
    <3>2. CASE ~(ch = p.ch /\ asks[c][ch].probe = p.id)
      <4>1. asks'[c][ch] = asks[c][ch]
        BY <2>2, <3>2
      <4> QED BY <2>1, <3>2, <4>1 DEF Awaits
    <3> QED BY <3>1, <3>2
  <2> QED BY <2>2, <2>3 DEF Awaits
<1>7. asks' = [c \in Callers |-> asks'[c]]
  OBVIOUS
<1> QED BY <1>1, <1>3, <1>4, <1>5, <1>6, <1>7 DEF Checks

\* A kept answer that gets old is still the answer it was.
LEMMA AgesKeeps ==
  ASSUME Checks, Ages
  PROVE  Checks'
<1> PICK ch \in Channels : /\ entry[ch] # None /\ entry[ch].probe = 0
                           /\ entry' = [entry EXCEPT ![ch].old = TRUE]
  BY DEF Ages
<1>1. UNCHANGED <<consent, version, probes, asks>>
  BY DEF Ages, settings
<1>2. Current(ch, entry[ch], probes, version)
  BY DEF Checks
<1>3. entry'[ch] = [entry[ch] EXCEPT !.old = TRUE] /\ entry' = [d \in Channels |-> entry'[d]]
  BY DEF Checks
<1>4. Current(ch, entry'[ch], probes, version)
  BY <1>2, <1>3 DEF Current, IsAnswer
<1>5. \A d \in Channels : d # ch => entry'[d] = entry[d]
  BY DEF Checks
<1> QED BY <1>1, <1>3, <1>4, <1>5 DEF Checks

\* Who waits no longer waits for no check.
LEMMA WaitOverKeeps ==
  ASSUME Checks, NEW c \in Callers, WaitOver(c)
  PROVE  Checks'
<1>1. /\ UNCHANGED <<consent, version, probes, entry>>
      /\ asks[c] # None
      /\ asks' = [asks EXCEPT ![c] = [ch \in Channels |-> IF asks[c][ch].probe # 0 THEN Has(FALSE) ELSE asks[c][ch]]]
  BY DEF WaitOver, settings, Checks
<1>2. Awaits(asks[c], probes)
  BY <1>1 DEF Checks
<1>3. asks'[c] = [ch \in Channels |-> IF asks[c][ch].probe # 0 THEN Has(FALSE) ELSE asks[c][ch]]
  BY <1>1 DEF Checks
<1>4. Awaits(asks'[c], probes)
  <2>1. ASSUME NEW ch \in Channels
        PROVE  IsWait(asks'[c][ch]) /\ asks'[c][ch].probe = 0
    <3>1. CASE asks[c][ch].probe # 0
      BY <1>3, <3>1 DEF IsWait, Has
    <3>2. CASE asks[c][ch].probe = 0
      <4>1. asks'[c][ch] = asks[c][ch]
        BY <1>3, <3>2
      <4> QED BY <1>2, <3>2, <4>1 DEF Awaits
    <3> QED BY <3>1, <3>2
  <2> QED BY <1>3, <2>1 DEF Awaits
<1>5. asks' = [d \in Callers |-> asks'[d]] /\ \A d \in Callers : d # c => asks'[d] = asks[d]
  BY <1>1 DEF Checks
<1> QED BY <1>1, <1>4, <1>5 DEF Checks

\* A caller that has its answers asks for nothing more.
LEMMA AskingEnds ==
  ASSUME Checks, NEW c \in Callers, asks' = [asks EXCEPT ![c] = None],
         UNCHANGED <<consent, version, probes, entry>>
  PROVE  Checks'
<1>1. asks' = [d \in Callers |-> asks'[d]] /\ \A d \in Callers : asks'[d] = asks[d] \/ asks'[d] = None
  BY DEF Checks
<1> QED BY <1>1 DEF Checks

\* Consent that is given or withdrawn leaves every answer with the consent it was found under.
LEMMA SetConsentKeeps ==
  ASSUME Checks, SetConsent
  PROVE  Checks'
BY DEF Checks, SetConsent, availability

\* Other settings: the cache is empty; who waits still waits for its check.
LEMMA ChangeSettingsKeeps ==
  ASSUME Checks, ChangeSettings
  PROVE  Checks'
<1>1. UNCHANGED <<consent, probes, asks>> /\ entry' = [ch \in Channels |-> None]
  BY DEF ChangeSettings
<1> QED BY <1>1 DEF Checks

\* Whatever else happens is not about checks.
ChecksUntouched == UNCHANGED <<consent, version, probes, entry, asks>>

LEMMA ChecksStep ==
  ASSUME Checks, [Next]_vars
  PROVE  Checks'
<1>1. CASE ProbeEnds
  BY <1>1, ProbeEndsKeeps
<1>2. CASE Ages
  BY <1>2, AgesKeeps
<1>3. CASE Check
  BY <1>3, ProbeAllKeeps DEF Check, settings, Callers
<1>4. CASE CheckEnds
  BY <1>4, AskingEnds DEF CheckEnds, settings, Callers
<1>5. CASE SetConsent
  BY <1>5, SetConsentKeeps
<1>6. CASE ChangeSettings
  BY <1>6, ChangeSettingsKeeps
<1>7. ASSUME NEW c \in Callers, WaitOver(c) PROVE Checks'
  BY <1>7, WaitOverKeeps
<1>8. ASSUME NEW r \in Requests, Start(r) PROVE Checks'
  <2>1. UNCHANGED <<consent, version>>
    BY <1>8 DEF Start, settings
  <2>2. UNCHANGED <<entry, probes, asks>> \/ ProbeAll(r)
    BY <1>8 DEF Start
  <2>3. r \in Callers
    BY DEF Callers
  <2> QED BY <2>1, <2>2, <2>3, ProbeAllKeeps DEF Checks
<1>9. ASSUME NEW r \in Requests, Probed(r) PROVE Checks'
  BY <1>9, AskingEnds DEF Probed, settings, Callers
<1>10. ASSUME NEW r \in Requests, Turn(r) \/ Spawn(r) \/ SelectsModel(r) \/ NoModel(r) \/ Refuses(r)
                \/ TimesOut(r) \/ Again(r) \/ Replies(r) \/ Cancel(r)
       PROVE  Checks'
  <2>1. ChecksUntouched
    BY <1>10 DEF ChecksUntouched, Turn, Spawn, SelectsModel, NoModel, Refuses, TimesOut, Again, Replies,
                 Cancel, settings, availability
  <2> QED BY <2>1 DEF ChecksUntouched, Checks
<1>11. ASSUME BeginSave \/ Renamed \/ SaveFails \/ OtherWindowSaves
       PROVE  Checks'
  <2>1. ChecksUntouched
    BY <1>11 DEF ChecksUntouched, BeginSave, Renamed, SaveFails, OtherWindowSaves, settings, availability
  <2> QED BY <2>1 DEF ChecksUntouched, Checks
<1>12. CASE UNCHANGED vars
  <2>1. ChecksUntouched
    BY <1>12 DEF ChecksUntouched, vars, settings, availability
  <2> QED BY <2>1 DEF ChecksUntouched, Checks
<1> QED BY <1>1, <1>2, <1>3, <1>4, <1>5, <1>6, <1>7, <1>8, <1>9, <1>10, <1>11, <1>12 DEF Next

-----------------------------------------------------------------------------
(* The requests.                                                           *)

\* A step of one request: the others stay as they were, one token more fired or not.
LEMMA OneRequest ==
  ASSUME AtWork, NEW r \in Requests, NEW q, NEW k,
         req' = [req EXCEPT ![r] = q], child' = [child EXCEPT ![r] = k],
         cancelled \subseteq cancelled', Fits(r, q, k, cancelled')
  PROVE  AtWork'
<1>1. req' = [s \in Requests |-> req'[s]] /\ child' = [s \in Requests |-> child'[s]]
  BY DEF AtWork
<1>2. req'[r] = q /\ child'[r] = k
  BY DEF AtWork
<1>3. ASSUME NEW s \in Requests, s # r
      PROVE  Fits(s, req'[s], child'[s], cancelled')
  <2>1. req'[s] = req[s] /\ child'[s] = child[s] /\ Fits(s, req[s], child[s], cancelled)
    BY <1>3 DEF AtWork
  <2> QED BY <2>1 DEF Fits
<1> QED BY <1>1, <1>2, <1>3 DEF AtWork

\* The same for a step that names what it leaves alone.
LEMMA OneOnly ==
  ASSUME AtWork, NEW r \in Requests
  PROVE  /\ UNCHANGED req => req' = [req EXCEPT ![r] = req[r]]
         /\ UNCHANGED child => child' = [child EXCEPT ![r] = child[r]]
         /\ Fits(r, req[r], child[r], cancelled)
BY DEF AtWork

\* What a child owes is a number, and nothing without one.
LEMMA OwedIsNat ==
  ASSUME NEW k, k # None => IsChild(k)
  PROVE  Owed(k) \in 0 .. 2
BY DEF Owed, IsChild

\* A request that is not at work has no child, unless it was cancelled and failed.
LEMMA Idle ==
  ASSUME AtWork, NEW r \in Requests, req[r].pc # "asking", req[r].pc # "failed"
  PROVE  child[r] = None
BY OneOnly DEF Fits

\* A request without a child may end or be sent back to look at its cache.
LEMMA NotAtWork ==
  ASSUME AtWork, NEW r \in Requests, NEW q, child[r] = None,
         q.pc \notin {"turn", "asking"}, req' = [req EXCEPT ![r] = q], UNCHANGED <<child, cancelled>>
  PROVE  AtWork'
<1>1. Fits(r, q, child[r], cancelled')
  BY DEF Fits
<1>2. child' = [child EXCEPT ![r] = child[r]]
  BY OneOnly
<1> QED BY <1>1, <1>2, OneRequest

LEMMA StartWorks ==
  ASSUME AtWork, NEW r \in Requests, Start(r)
  PROVE  AtWork'
<1>1. child[r] = None
  BY Idle DEF Start, Is
<1>2. UNCHANGED <<child, cancelled>>
  BY DEF Start
<1>3. \E q : q.pc \notin {"turn", "asking"} /\ req' = [req EXCEPT ![r] = q]
  <2>1. \/ End(r, "done")
        \/ End(r, "failed")
        \/ \E cs : req' = [req EXCEPT ![r] = [pc |-> "probing", chunks |-> cs]]
    BY DEF Start
  <2> QED BY <2>1 DEF End
<1> QED BY <1>1, <1>2, <1>3, NotAtWork

LEMMA ProbedWorks ==
  ASSUME AtWork, NEW r \in Requests, Probed(r)
  PROVE  AtWork'
<1> DEFINE order == OrderedChannels(r)
           q == [pc |-> "turn", chunks |-> req[r].chunks, order |-> order,
                 left |-> order, reask |-> 1, good |-> {}, again |-> {}, prompts |-> 0, turns |-> 0]
<1>1. child[r] = None
  BY Idle DEF Probed, Is
<1>2. UNCHANGED <<child, cancelled>>
  BY DEF Probed
<1>3. CASE End(r, "failed")
  BY <1>1, <1>2, <1>3, NotAtWork DEF End
<1>4. CASE req' = [req EXCEPT ![r] = q]
  <2>1. Fits(r, q, child[r], cancelled')
    BY <1>1 DEF Fits, IsRun, RunFields, Owed
  <2>2. child' = [child EXCEPT ![r] = child[r]]
    BY <1>2, OneOnly
  <2> HIDE DEF q
  <2> QED BY <1>2, <1>4, <2>1, <2>2, OneRequest
<1> QED BY <1>3, <1>4 DEF Probed

\* An attempt that begins owes at most two prompts.
LEMMA AskedOwes ==
  ASSUME NEW ch
  PROVE  IsChild(Asked(ch)) /\ Owed(Asked(ch)) \in 0 .. 2
<1>1. IsChild(Asked(ch))
  BY DEF IsChild, Asked
<1> QED BY <1>1, OwedIsNat

\* What a turn changes of a request.
Turned(o, left) == [o EXCEPT !.pc = "asking", !.left = left, !.turns = @ + 1]

LEMMA TurnCounts ==
  ASSUME NEW o, IsRun(o), NEW left
  PROVE  LET q == Turned(o, left) IN
         IsRun(q) /\ q.pc = "asking" /\ q.prompts = o.prompts /\ q.turns = o.turns + 1 /\ q.reask = o.reask
<1> DEFINE q == [o EXCEPT !.pc = "asking", !.left = left, !.turns = o.turns + 1]
<1>1. RunFields \subseteq DOMAIN q /\ q = [f \in DOMAIN q |-> q[f]]
  BY DEF IsRun
<1>2. q.pc = "asking" /\ q.prompts = o.prompts /\ q.turns = o.turns + 1 /\ q.reask = o.reask
  BY DEF IsRun, RunFields
<1>3. Turned(o, left) = q
  BY DEF Turned
<1> HIDE DEF q
<1> QED BY <1>1, <1>2, <1>3 DEF IsRun

LEMMA TurnWorks ==
  ASSUME AtWork, NEW r \in Requests, Turn(r)
  PROVE  AtWork'
<1>1. child[r] = None /\ req[r].pc = "turn" /\ UNCHANGED cancelled
  BY DEF Turn, Is
<1>2. CASE End(r, "failed") /\ UNCHANGED child
  BY <1>1, <1>2, NotAtWork DEF End
<1>3. CASE /\ req' = [req EXCEPT ![r].pc = "asking", ![r].left = Tail(@), ![r].turns = @ + 1]
           /\ child' = [child EXCEPT ![r] = Asked(Head(req[r].left))]
           /\ req[r].left # <<>>
  <2> DEFINE ch == Head(req[r].left)
             q == Turned(req[r], Tail(req[r].left))
             k == Asked(ch)
  <2>1. IsRun(req[r]) /\ req[r].prompts + 0 <= 2 * req[r].turns + 2 * (1 - req[r].reask)
    BY <1>1, OneOnly DEF Fits, Owed
  <2>2. req' = [req EXCEPT ![r] = q]
    BY <1>3 DEF AtWork, Turned
  <2>3. IsRun(q) /\ q.pc = "asking" /\ q.prompts = req[r].prompts /\ q.turns = req[r].turns + 1 /\ q.reask = req[r].reask
    BY <2>1, TurnCounts
  <2>4. IsChild(k) /\ Owed(k) \in 0 .. 2
    BY AskedOwes
  <2> HIDE DEF q, k
  <2>5. q.prompts + Owed(k) <= 2 * q.turns + 2 * (1 - q.reask)
    BY <2>1, <2>3, <2>4 DEF IsRun
  <2>7. Fits(r, q, k, cancelled')
    BY <2>3, <2>4, <2>5 DEF Fits
  <2>8. child' = [child EXCEPT ![r] = k]
    BY <1>3 DEF k
  <2> QED BY <1>1, <2>2, <2>7, <2>8, OneRequest
<1> QED BY <1>2, <1>3 DEF Turn

\* A channel that gives up hands the turn back to a request that waits for it.
LEMMA GivesUp ==
  ASSUME AtWork, NEW r \in Requests, child' = [child EXCEPT ![r] = None], NextTurn(r), UNCHANGED cancelled
  PROVE  AtWork'
<1>1. CASE req[r].pc = "asking"
  <2> DEFINE q == [req[r] EXCEPT !.pc = "turn", !.again = {}]
  <2>1. req' = [req EXCEPT ![r] = q]
    BY <1>1 DEF NextTurn, Waiting, Is, AtWork
  <2>2. IsRun(req[r]) /\ req[r].prompts + Owed(child[r]) <= 2 * req[r].turns + 2 * (1 - req[r].reask)
    BY <1>1, OneOnly DEF Fits
  <2>3. IsRun(q) /\ q.pc = "turn" /\ q.prompts = req[r].prompts /\ q.turns = req[r].turns /\ q.reask = req[r].reask
    BY <2>2 DEF IsRun, RunFields
  <2>4. Owed(child[r]) \in 0 .. 2 /\ Owed(None) = 0
    BY OneOnly, OwedIsNat DEF Fits, Owed
  <2> HIDE DEF q
  <2>5. q.prompts + Owed(None) <= 2 * q.turns + 2 * (1 - q.reask)
    BY <2>2, <2>3, <2>4 DEF IsRun
  <2>6. Fits(r, q, None, cancelled')
    BY <2>3, <2>5 DEF Fits
  <2> QED BY <2>1, <2>6, OneRequest
<1>2. CASE req[r].pc # "asking"
  <2>1. req' = [req EXCEPT ![r] = req[r]]
    BY <1>2, OneOnly DEF NextTurn, Waiting, Is
  <2>2. Fits(r, req[r], None, cancelled')
    <3>1. req[r].pc \in {"turn", "asking"} => child[r] = None
      BY <1>2, OneOnly DEF Fits
    <3> QED BY <1>2, <3>1, OneOnly DEF Fits
  <2> QED BY <2>1, <2>2, OneRequest
<1> QED BY <1>1, <1>2

\* The prompt is sent: it is counted, and the attempt owes one less.
LEMMA RunningWorks ==
  ASSUME AtWork, NEW r \in Requests, child[r] # None, child[r].step = "start", Running(r), UNCHANGED cancelled,
         child[r].ch \in Clis => r \notin cancelled
  PROVE  AtWork'
<1> DEFINE k == [child[r] EXCEPT !.step = "running"]
<1>1. child' = [child EXCEPT ![r] = k]
  BY DEF Running, AtWork
<1>2. IsChild(child[r])
  BY OneOnly DEF Fits
<1>3. IsChild(k) /\ k.step = "running" /\ k.ch = child[r].ch /\ k.try = child[r].try
  BY <1>2 DEF IsChild
<1> HIDE DEF k
<1>4. CASE req[r].pc = "asking"
  <2> DEFINE q == [req[r] EXCEPT !.prompts = @ + 1]
  <2>1. req' = [req EXCEPT ![r] = q]
    BY <1>4 DEF Running, Waiting, Is, AtWork
  <2>2. IsRun(req[r]) /\ req[r].prompts + Owed(child[r]) <= 2 * req[r].turns + 2 * (1 - req[r].reask)
    BY <1>4, OneOnly DEF Fits
  <2>3. IsRun(q) /\ q.pc = "asking" /\ q.prompts = req[r].prompts + 1 /\ q.turns = req[r].turns /\ q.reask = req[r].reask
    BY <1>4, <2>2 DEF IsRun, RunFields
  <2>4. Owed(child[r]) \in 0 .. 2 /\ Owed(k) <= Owed(child[r]) - 1 /\ Owed(k) \in 0 .. 2
    <3>1. Owed(child[r]) = IF child[r].try = 1 THEN 2 ELSE 1
      BY DEF Owed
    <3>2. Owed(k) = 0 \/ Owed(k) = IF child[r].try = 1 THEN 1 ELSE 0
      BY <1>3 DEF Owed
    <3> QED BY <3>1, <3>2
  <2> HIDE DEF q
  <2>5. q.prompts + Owed(k) <= 2 * q.turns + 2 * (1 - q.reask)
    BY <2>2, <2>3, <2>4 DEF IsRun
  <2>6. Fits(r, q, k, cancelled')
    BY <1>3, <2>3, <2>5 DEF Fits
  <2> QED BY <1>1, <2>1, <2>6, OneRequest
<1>5. CASE req[r].pc # "asking"
  <2>1. req' = [req EXCEPT ![r] = req[r]]
    BY <1>5, OneOnly DEF Running, Waiting, Is
  <2>2. req[r].pc = "failed" /\ r \in cancelled
    BY <1>5, OneOnly DEF Fits
  <2>3. k.ch \notin Clis
    BY <1>3, <2>2
  <2>4. Fits(r, req[r], k, cancelled')
    BY <1>3, <2>2, <2>3 DEF Fits
  <2> QED BY <1>1, <2>1, <2>4, OneRequest
<1> QED BY <1>4, <1>5

LEMMA SpawnWorks ==
  ASSUME AtWork, NEW r \in Requests, Spawn(r)
  PROVE  AtWork'
<1>1. child[r] # None /\ child[r].step = "start" /\ UNCHANGED cancelled
  BY DEF Spawn
<1>2. CASE ~ToolIsThere(child[r].ch) \/ InVain(r)
  <2>1. child' = [child EXCEPT ![r] = None] /\ NextTurn(r)
    BY <1>2 DEF Spawn
  <2> QED BY <1>1, <2>1, GivesUp
<1>3. CASE ~(~ToolIsThere(child[r].ch) \/ InVain(r))
  <2>1. Running(r) /\ r \notin cancelled
    BY <1>3 DEF Spawn, InVain
  <2> QED BY <1>1, <2>1, RunningWorks
<1> QED BY <1>2, <1>3

LEMMA SelectsModelWorks ==
  ASSUME AtWork, NEW r \in Requests, SelectsModel(r)
  PROVE  AtWork'
BY RunningWorks DEF SelectsModel

LEMMA NoModelWorks ==
  ASSUME AtWork, NEW r \in Requests, NoModel(r)
  PROVE  AtWork'
BY GivesUp DEF NoModel

LEMMA RefusesWorks ==
  ASSUME AtWork, NEW r \in Requests, Refuses(r)
  PROVE  AtWork'
BY GivesUp DEF Refuses

\* The one retry of a timeout is owed until it is made.
LEMMA StepWorks ==
  ASSUME AtWork, NEW r \in Requests, NEW k, child[r] # None,
         IsChild(k), Owed(k) <= Owed(child[r]),
         k.ch \in Clis /\ k.step = "running" => child[r].step = "running",
         k.ch = child[r].ch,
         child' = [child EXCEPT ![r] = k], UNCHANGED <<req, cancelled>>
  PROVE  AtWork'
<1>1. req' = [req EXCEPT ![r] = req[r]]
  BY OneOnly
<1>2. Fits(r, req[r], child[r], cancelled)
  BY OneOnly
<1>3. Owed(k) \in 0 .. 2 /\ Owed(child[r]) \in 0 .. 2
  BY <1>2, OwedIsNat DEF Fits
<1>4. Fits(r, req[r], k, cancelled')
  <2>1. req[r].pc \in {"turn", "asking"} =>
          IsRun(req[r]) /\ req[r].prompts + Owed(k) <= 2 * req[r].turns + 2 * (1 - req[r].reask)
    BY <1>2, <1>3 DEF Fits, IsRun
  <2> QED BY <1>2, <2>1 DEF Fits
<1> QED BY <1>1, <1>4, OneRequest

LEMMA TimesOutWorks ==
  ASSUME AtWork, NEW r \in Requests, TimesOut(r)
  PROVE  AtWork'
<1>1. CASE Retryable(r)
  <2> DEFINE k == [child[r] EXCEPT !.step = "pause"]
  <2>1. child' = [child EXCEPT ![r] = k] /\ UNCHANGED <<req, cancelled>>
    BY <1>1 DEF TimesOut, AtWork
  <2>2. child[r] # None /\ IsChild(child[r]) /\ child[r].step = "running" /\ child[r].try = 1
    BY <1>1, OneOnly DEF TimesOut, Fits, Retryable
  <2>3. IsChild(k) /\ k.step = "pause" /\ k.ch = child[r].ch
    BY <2>2 DEF IsChild
  <2> HIDE DEF k
  <2>4. Owed(child[r]) = 1 /\ Owed(k) \in 0 .. 1
    BY <2>2, <2>3 DEF Owed
  <2>5. Owed(k) <= Owed(child[r])
    BY <2>4
  <2> QED BY <2>1, <2>2, <2>3, <2>5, StepWorks
<1>2. CASE ~Retryable(r)
  BY <1>2, GivesUp DEF TimesOut
<1> QED BY <1>1, <1>2

LEMMA AgainWorks ==
  ASSUME AtWork, NEW r \in Requests, Again(r)
  PROVE  AtWork'
<1> DEFINE k == [child[r] EXCEPT !.step = "start", !.try = 2]
<1>1. child' = [child EXCEPT ![r] = k] /\ UNCHANGED <<req, cancelled>>
  BY DEF Again, AtWork
<1>2. child[r] # None /\ IsChild(child[r]) /\ child[r].step = "pause"
  BY OneOnly DEF Again, Fits
<1>3. IsChild(k) /\ k.step = "start" /\ k.try = 2 /\ k.ch = child[r].ch
  BY <1>2 DEF IsChild
<1> HIDE DEF k
<1>4. Owed(child[r]) = 1 /\ Owed(k) \in 0 .. 1
  BY <1>2, <1>3 DEF Owed
<1>5. Owed(k) <= Owed(child[r])
  BY <1>4
<1> QED BY <1>1, <1>2, <1>3, <1>5, StepWorks

\* Asking again for what is unusable uses up the one time it may be done.
Reasked(o, good, again) == [o EXCEPT !.reask = 0, !.good = good, !.again = again]

LEMMA ReaskCounts ==
  ASSUME NEW o, IsRun(o), NEW good, NEW again
  PROVE  LET q == Reasked(o, good, again) IN
         IsRun(q) /\ q.pc = o.pc /\ q.prompts = o.prompts /\ q.turns = o.turns /\ q.reask = 0
BY DEF IsRun, RunFields, Reasked

\* The next chunk starts with what the last one left of the counts.
NextChunk(o) == [o EXCEPT !.pc = "turn", !.chunks = Tail(@), !.left = o.order, !.good = {}, !.again = {}]

LEMMA NextChunkCounts ==
  ASSUME NEW o, IsRun(o)
  PROVE  LET q == NextChunk(o) IN
         IsRun(q) /\ q.pc = "turn" /\ q.prompts = o.prompts /\ q.turns = o.turns /\ q.reask = o.reask
BY DEF IsRun, RunFields, NextChunk

LEMMA RepliesWorks ==
  ASSUME AtWork, NEW r \in Requests, Replies(r)
  PROVE  AtWork'
<1>1. child[r] # None /\ child[r].step = "running" /\ UNCHANGED cancelled
  BY DEF Replies
<1>2. CASE ~Waiting(r)
  <2>1. child' = [child EXCEPT ![r] = None] /\ NextTurn(r)
    BY <1>2 DEF Replies, NextTurn
  <2> QED BY <1>1, <2>1, GivesUp
<1>3. CASE Waiting(r)
  <2> DEFINE o == req[r]
  <2>1. o.pc = "asking" /\ IsRun(o) /\ o.prompts + Owed(child[r]) <= 2 * o.turns + 2 * (1 - o.reask)
    BY <1>3, OneOnly DEF Fits, Waiting, Is
  <2>2. \/ /\ o.reask = 1
           /\ \E good, again : req' = [req EXCEPT ![r].reask = 0, ![r].good = good, ![r].again = again]
           /\ child' = [child EXCEPT ![r] = Asked(@.ch)]
        \/ child' = [child EXCEPT ![r] = None] /\ End(r, "done")
        \/ /\ child' = [child EXCEPT ![r] = None]
           /\ req' = [req EXCEPT ![r].pc = "turn", ![r].chunks = Tail(@), ![r].left = o.order,
                                 ![r].good = {}, ![r].again = {}]
    <3> DEFINE chunk == Head(o.chunks)
               sent == IF o.again # {} THEN InOrder(chunk, o.again) ELSE chunk
               good(usable) == usable \cup IF o.again # {} THEN o.good ELSE {}
               bad(usable) == {h \in Range(sent) : \A w \in usable : w.hash # h}
    <3>1. \E answer \in Answers : answer.to = sent /\ \E usable \in answer.usable :
            IF bad(usable) # {} /\ o.reask = 1
            THEN /\ req' = [req EXCEPT ![r].reask = 0, ![r].good = good(usable), ![r].again = bad(usable)]
                 /\ child' = [child EXCEPT ![r] = Asked(@.ch)]
                 /\ UNCHANGED <<mem, timer, dirty>>
            ELSE /\ KeepValid(chunk, good(usable))
                 /\ child' = [child EXCEPT ![r] = None]
                 /\ IF Tail(o.chunks) = <<>> THEN End(r, "done")
                    ELSE req' = [req EXCEPT ![r].pc = "turn", ![r].chunks = Tail(@), ![r].left = o.order,
                                   ![r].good = {}, ![r].again = {}]
      BY <1>3, Zenon DEF Replies
    <3> HIDE DEF bad, good
    <3> QED BY <3>1
  <2>3. Owed(child[r]) \in 0 .. 2 /\ Owed(None) = 0
    BY OneOnly, OwedIsNat DEF Fits, Owed
  <2>4. ASSUME NEW good, NEW again, o.reask = 1,
               req' = [req EXCEPT ![r].reask = 0, ![r].good = good, ![r].again = again],
               child' = [child EXCEPT ![r] = Asked(@.ch)]
        PROVE  AtWork'
    <3> DEFINE q == Reasked(o, good, again)
               k == Asked(child[r].ch)
    <3>1. req' = [req EXCEPT ![r] = q] /\ child' = [child EXCEPT ![r] = k]
      BY <2>4 DEF AtWork, Reasked
    <3>2. IsRun(q) /\ q.pc = "asking" /\ q.prompts = o.prompts /\ q.turns = o.turns /\ q.reask = 0
      BY <2>1, ReaskCounts
    <3>3. IsChild(k) /\ Owed(k) \in 0 .. 2
      BY AskedOwes
    <3> HIDE DEF q, k
    <3>4. q.prompts + Owed(k) <= 2 * q.turns + 2 * (1 - q.reask)
      BY <2>1, <2>3, <2>4, <3>2, <3>3 DEF IsRun
    <3>5. Fits(r, q, k, cancelled')
      BY <3>2, <3>3, <3>4 DEF Fits
    <3> QED BY <1>1, <3>1, <3>5, OneRequest
  <2>5. CASE child' = [child EXCEPT ![r] = None] /\ End(r, "done")
    <3> DEFINE q == [pc |-> "done"]
    <3>1. Fits(r, q, None, cancelled')
      BY DEF Fits
    <3> HIDE DEF q
    <3>2. req' = [req EXCEPT ![r] = q]
      BY <2>5 DEF End, q
    <3> QED BY <1>1, <2>5, <3>1, <3>2, OneRequest
  <2>6. CASE /\ child' = [child EXCEPT ![r] = None]
             /\ req' = [req EXCEPT ![r].pc = "turn", ![r].chunks = Tail(@), ![r].left = o.order,
                                   ![r].good = {}, ![r].again = {}]
    <3> DEFINE q == NextChunk(o)
    <3>1. req' = [req EXCEPT ![r] = q]
      BY <2>6 DEF AtWork, NextChunk
    <3>2. IsRun(q) /\ q.pc = "turn" /\ q.prompts = o.prompts /\ q.turns = o.turns /\ q.reask = o.reask
      BY <2>1, NextChunkCounts
    <3> HIDE DEF q
    <3>3. q.prompts + Owed(None) <= 2 * q.turns + 2 * (1 - q.reask)
      BY <2>1, <2>3, <3>2 DEF IsRun
    <3>4. Fits(r, q, None, cancelled')
      BY <3>2, <3>3 DEF Fits
    <3> QED BY <1>1, <2>6, <3>1, <3>4, OneRequest
  <2> QED BY <2>2, <2>4, <2>5, <2>6
<1> QED BY <1>2, <1>3

LEMMA CancelWorks ==
  ASSUME AtWork, NEW r \in Requests, Cancel(r)
  PROVE  AtWork'
<1>1. cancelled' = cancelled \cup {r} /\ r \notin cancelled
  BY DEF Cancel
<1> DEFINE q == IF Waiting(r) THEN [pc |-> "failed"] ELSE req[r]
           k == IF child[r] # None /\ child[r].ch \in Clis /\ child[r].step = "running" THEN None ELSE child[r]
<1>2. req' = [req EXCEPT ![r] = q]
  BY OneOnly DEF Cancel, End
<1>3. child' = [child EXCEPT ![r] = k]
  BY OneOnly DEF Cancel
<1>4. Fits(r, q, k, cancelled')
  <2>1. CASE Waiting(r)
    <3>1. q.pc = "failed" /\ r \in cancelled'
      BY <1>1, <2>1
    <3>2. k # None => IsChild(k) /\ ~(k.ch \in Clis /\ k.step = "running")
      BY OneOnly DEF Fits
    <3> HIDE DEF q, k
    <3> QED BY <3>1, <3>2 DEF Fits
  <2>2. CASE ~Waiting(r)
    <3>1. child[r] = None
      BY <1>1, <2>2, OneOnly DEF Fits, Waiting, Is
    <3>2. q = req[r] /\ k = child[r]
      BY <2>2, <3>1
    <3> HIDE DEF q, k
    <3> QED BY <2>2, <3>1, <3>2, OneOnly DEF Fits, Waiting, Is
  <2> QED BY <2>1, <2>2
<1> HIDE DEF q, k
<1> QED BY <1>1, <1>2, <1>3, <1>4, OneRequest

LEMMA WorkStep ==
  ASSUME AtWork, [Next]_vars
  PROVE  AtWork'
<1>1. ASSUME NEW r \in Requests, Start(r) \/ Probed(r) \/ Turn(r) \/ Spawn(r) \/ SelectsModel(r) PROVE AtWork'
  BY <1>1, StartWorks, ProbedWorks, TurnWorks, SpawnWorks, SelectsModelWorks
<1>2. ASSUME NEW r \in Requests, NoModel(r) \/ Refuses(r) \/ TimesOut(r) \/ Again(r) \/ Replies(r) \/ Cancel(r)
      PROVE  AtWork'
  BY <1>2, NoModelWorks, RefusesWorks, TimesOutWorks, AgainWorks, RepliesWorks, CancelWorks
<1>3. ASSUME ProbeEnds \/ Ages \/ Check \/ CheckEnds \/ SetConsent \/ ChangeSettings \/ \E c \in Callers : WaitOver(c)
      PROVE  UNCHANGED work
  BY <1>3 DEF ProbeEnds, Ages, Check, CheckEnds, SetConsent, ChangeSettings, WaitOver
<1>4. ASSUME BeginSave \/ Renamed \/ SaveFails \/ OtherWindowSaves
      PROVE  UNCHANGED work
  BY <1>4 DEF BeginSave, Renamed, SaveFails, OtherWindowSaves
<1>5. CASE UNCHANGED work
  BY <1>5 DEF work, AtWork
<1>6. UNCHANGED vars => UNCHANGED work
  BY DEF vars
<1> QED BY <1>1, <1>2, <1>3, <1>4, <1>5, <1>6 DEF Next

-----------------------------------------------------------------------------
(* The theorems.                                                           *)

LEMMA InitSound == Init => GenerationIInv
<1> SUFFICES ASSUME Init PROVE GenerationIInv
  OBVIOUS
<1>1. Checks
  BY FS_EmptySet DEF Init, Checks
<1>2. AtWork
  <2>1. \A r \in Requests : Fits(r, [pc |-> "new"], None, cancelled)
    BY DEF Fits
  <2> QED BY <2>1 DEF Init, AtWork
<1> QED BY <1>1, <1>2 DEF GenerationIInv

LEMMA StepSound == GenerationIInv /\ [Next]_vars => GenerationIInv'
BY ChecksStep, WorkStep DEF GenerationIInv

LEMMA InvariantSound == Spec => []GenerationIInv
BY InitSound, StepSound, PTL DEF Spec

\* An answer that is kept was found under the settings and the consent it is
\* served for, for any assistants, settings and number of checks at once.
THEOREM AnswersKeptAreCurrent == Spec => []AnswersAreCurrent
<1>1. GenerationIInv => AnswersAreCurrent
  BY DEF GenerationIInv, Checks, Current, AnswersAreCurrent
<1> QED BY <1>1, InvariantSound, PTL

\* Nobody waits for a check that is over: what a caller waits for is under way
\* and, as every check ends, will be answered.
THEOREM NobodyWaitsForNothing == Spec => []EveryWaitHasItsCheck
<1>1. GenerationIInv => EveryWaitHasItsCheck
  BY DEF GenerationIInv, Checks, Awaits, EveryWaitHasItsCheck
<1> QED BY <1>1, InvariantSound, PTL

\* A request that is over has no process of an assistant with its prompt,
\* whenever it was cancelled.
THEOREM NoProcessOutlives == Spec => []NoChildLeft
<1>1. GenerationIInv => NoChildLeft
  BY DEF GenerationIInv, AtWork, Fits, NoChildLeft, Waiting, Is
<1> QED BY <1>1, InvariantSound, PTL

\* A request sends at most two prompts per turn of an assistant, and two more,
\* for any number of chunks and assistants and whatever fails.
THEOREM PromptsAreBounded == Spec => []SpendIsBounded
<1>1. GenerationIInv => SpendIsBounded
  <2> SUFFICES ASSUME GenerationIInv, NEW r \in Requests, Waiting(r)
               PROVE  req[r].prompts <= 2 * req[r].turns + 2 * (1 - req[r].reask)
    BY DEF SpendIsBounded
  <2>1. Fits(r, req[r], child[r], cancelled)
    BY DEF GenerationIInv, AtWork
  <2>2. IsRun(req[r]) /\ req[r].prompts + Owed(child[r]) <= 2 * req[r].turns + 2 * (1 - req[r].reask)
    BY <2>1 DEF Fits, Waiting, Is
  <2>3. Owed(child[r]) \in 0 .. 2
    BY <2>1, OwedIsNat DEF Fits
  <2> QED BY <2>2, <2>3 DEF IsRun
<1> QED BY <1>1, InvariantSound, PTL

-----------------------------------------------------------------------------
(* Induction over numbers and folds: a fold has its steps, because no      *)
(* number can be the first without them.                                   *)

LEMMA LeastNumber ==
  ASSUME NEW I, I \subseteq Nat, I # {}
  PROVE  \E m \in I : \A i \in I : m <= i
<1>1. PICK m \in I : \A i \in I : ~(<<i, m>> \in OpToRel(<, Nat))
  BY NatLessThanWellFounded, WFMin
<1>2. ASSUME NEW i \in I PROVE m <= i
  <2>1. i \in Nat /\ m \in Nat
    OBVIOUS
  <2>2. <<i, m>> \notin {ss \in Nat \X Nat : ss[1] < ss[2]}
    BY <1>1 DEF OpToRel
  <2>3. ~(i < m)
    BY <2>1, <2>2
  <2> QED BY <2>1, <2>3
<1> QED BY <1>2

LEMMA LeastIsMin ==
  ASSUME NEW I, I \subseteq Nat, I # {}
  PROVE  Min(I) \in I
<1>1. \E m \in I : \A i \in I : m <= i
  BY LeastNumber
<1>2. Min(I) = CHOOSE x \in I : \A y \in I : x <= y
  BY DEF Min
<1> QED BY <1>1, <1>2

LEMMA LastIsMax ==
  ASSUME NEW m \in Nat, NEW s, m \in s, s \subseteq 1 .. m
  PROVE  Max(s) = m
<1>1. \A y \in s : y \in 1 .. m /\ m >= y
  OBVIOUS
<1>2. \A x \in s : (\A y \in s : x >= y) => x = m
  BY <1>1
<1>3. Max(s) = CHOOSE x \in s : \A y \in s : x >= y
  BY DEF Max
<1> QED BY <1>1, <1>2, <1>3

\* What a fold over the first numbers works out, for every set of them.
Folds(it, base, F, m) ==
  \A s \in SUBSET (1 .. m) : it[s] = IF s = {} THEN base ELSE F[<<it[s \ {Max(s)}], Max(s)>>]

LEMMA FoldExists ==
  ASSUME NEW n \in Nat, NEW X, NEW base \in X, NEW F \in [X \X (1 .. n) -> X]
  PROVE  \E it \in [SUBSET (1 .. n) -> X] : Folds(it, base, F, n)
<1> DEFINE Found(m) == \E it \in [SUBSET (1 .. m) -> X] : Folds(it, base, F, m)
           bad == {m \in 0 .. n : ~Found(m)}
<1> HIDE DEF Found
<1> SUFFICES ASSUME bad # {} PROVE FALSE
  <2>1. SUFFICES Found(n)
    BY DEF Found
  <2> QED OBVIOUS
<1>1. PICK m \in bad : \A i \in bad : m <= i
  <2>1. bad \subseteq Nat
    OBVIOUS
  <2> HIDE DEF bad
  <2> QED BY <2>1, LeastNumber
<1>2. m \in 0 .. n
  OBVIOUS
<1>3. CASE m = 0
  <2> DEFINE it == [s \in SUBSET (1 .. 0) |-> base]
  <2>1. it \in [SUBSET (1 .. m) -> X] /\ Folds(it, base, F, m)
    BY <1>3 DEF Folds
  <2> HIDE DEF it
  <2> QED BY <1>1, <2>1 DEF Found
<1>4. CASE m # 0
  <2>1. m - 1 \in 0 .. n /\ m - 1 \notin bad
    <3>1. ~(m <= m - 1) /\ m - 1 \in 0 .. n
      BY <1>2, <1>4
    <3> HIDE DEF bad
    <3> QED BY <1>1, <3>1
  <2>2. PICK it \in [SUBSET (1 .. m - 1) -> X] : Folds(it, base, F, m - 1)
    BY <2>1 DEF Found
  <2> HIDE DEF bad
  <2> DEFINE h == [s \in SUBSET (1 .. m) |-> IF m \in s THEN F[<<it[s \ {m}], m>>] ELSE it[s]]
  <2>3. ASSUME NEW s \in SUBSET (1 .. m), m \in s
        PROVE  /\ s \ {m} \in SUBSET (1 .. m - 1) /\ Max(s) = m
               /\ h[s] = F[<<h[s \ {m}], m>>] /\ h[s] \in X
    <3>1. s \ {m} \in SUBSET (1 .. m - 1) /\ s \ {m} \in SUBSET (1 .. m)
      BY <1>2, <1>4
    <3>2. Max(s) = m
      <4>1. m \in Nat /\ s \subseteq 1 .. m
        BY <1>2
      <4> QED BY <2>3, <4>1, LastIsMax
    <3>3. h[s \ {m}] = it[s \ {m}]
      BY <3>1
    <3>4. it[s \ {m}] \in X /\ m \in 1 .. n
      BY <1>2, <1>4, <3>1
    <3> QED BY <2>3, <3>1, <3>2, <3>3, <3>4
  <2>4. ASSUME NEW s \in SUBSET (1 .. m), m \notin s
        PROVE  /\ s \in SUBSET (1 .. m - 1) /\ h[s] = it[s] /\ h[s] \in X
               /\ \A x : h[s \ {x}] = it[s \ {x}]
    <3>1. s \in SUBSET (1 .. m - 1)
      BY <1>2, <1>4, <2>4
    <3> QED BY <2>4, <3>1
  <2>5. h \in [SUBSET (1 .. m) -> X]
    BY <2>3, <2>4
  <2>6. Folds(h, base, F, m)
    <3> SUFFICES ASSUME NEW s \in SUBSET (1 .. m)
                 PROVE  h[s] = IF s = {} THEN base ELSE F[<<h[s \ {Max(s)}], Max(s)>>]
      BY DEF Folds
    <3> HIDE DEF h
    <3>1. CASE m \in s
      BY <2>3, <3>1
    <3>2. CASE m \notin s
      BY <2>2, <2>4, <3>2 DEF Folds
    <3> QED BY <3>1, <3>2
  <2> HIDE DEF h
  <2> QED BY <1>1, <2>5, <2>6 DEF bad, Found
<1> QED BY <1>3, <1>4

\* What holds at first, and of a number when it holds of the one before.
LEMMA Climb ==
  ASSUME NEW n \in Nat, NEW I, 0 \in I, \A k \in 1 .. n : k - 1 \in I => k \in I
  PROVE  n \in I
<1> DEFINE bad == (0 .. n) \ I
<1> SUFFICES ASSUME bad # {} PROVE FALSE
  OBVIOUS
<1>1. PICK m \in bad : \A i \in bad : m <= i
  <2>1. bad \subseteq Nat
    OBVIOUS
  <2> HIDE DEF bad
  <2> QED BY <2>1, LeastNumber
<1>2. m \in 1 .. n /\ m - 1 \in 0 .. n /\ ~(m <= m - 1)
  OBVIOUS
<1>3. m - 1 \in I
  BY <1>1, <1>2
<1> QED BY <1>2, <1>3

LEMMA MaxIsIn ==
  ASSUME NEW n \in Nat, NEW s, s \subseteq 1 .. n, s # {}
  PROVE  Max(s) \in s
<1> DEFINE I == {n - x : x \in s}
<1>1. I \subseteq Nat /\ I # {}
  OBVIOUS
<1>2. PICK d \in I : \A i \in I : d <= i
  BY <1>1, LeastNumber
<1>3. PICK x \in s : d = n - x
  OBVIOUS
<1>4. \A y \in s : n - y \in I
  OBVIOUS
<1> HIDE DEF I
<1>5. ASSUME NEW y \in s PROVE x >= y
  <2>1. d <= n - y
    BY <1>2, <1>4
  <2> QED BY <1>3, <2>1
<1>6. Max(s) = CHOOSE z \in s : \A y \in s : z >= y
  BY DEF Max
<1> QED BY <1>5, <1>6

LEMMA FirstNumbers ==
  ASSUME NEW n \in Nat, NEW k \in 1 .. n
  PROVE  /\ 1 .. k \in SUBSET (1 .. n) /\ 1 .. k # {}
         /\ (1 .. k) \ {k} = 1 .. (k - 1) /\ Max(1 .. k) = k
<1>1. k \in Nat /\ k \in 1 .. k /\ 1 .. k \subseteq 1 .. k
  OBVIOUS
<1>2. Max(1 .. k) = k
  BY <1>1, LastIsMax
<1>3. 1 .. k \in SUBSET (1 .. n) /\ 1 .. k # {} /\ (1 .. k) \ {k} = 1 .. (k - 1)
  OBVIOUS
<1> QED BY <1>2, <1>3

\* A fold stays where its steps do.
LEMMA FoldStays ==
  ASSUME NEW n \in Nat, NEW X, NEW it, it[{}] \in X,
         \A s \in SUBSET (1 .. n) : s # {} /\ it[s \ {Max(s)}] \in X => it[s] \in X
  PROVE  it[1 .. n] \in X
<1> DEFINE I == {k \in 0 .. n : it[1 .. k] \in X}
<1>1. 0 \in I
  <2>1. 1 .. 0 = {}
    OBVIOUS
  <2> QED BY <2>1
<1>2. ASSUME NEW k \in 1 .. n, k - 1 \in I PROVE k \in I
  <2>1. /\ 1 .. k \in SUBSET (1 .. n) /\ 1 .. k # {}
        /\ (1 .. k) \ {k} = 1 .. (k - 1) /\ Max(1 .. k) = k
    BY FirstNumbers
  <2>2. it[(1 .. k) \ {Max(1 .. k)}] \in X
    BY <1>2, <2>1
  <2>3. it[1 .. k] \in X
    BY <2>1, <2>2
  <2> QED BY <2>3
<1> HIDE DEF I
<1>3. n \in I
  BY <1>1, <1>2, Climb
<1> QED BY <1>3 DEF I

-----------------------------------------------------------------------------
(* Sets of numbers in order.                                               *)

Below(S, i) == {j \in S : j < i}

\* Below what comes later there is more.
LEMMA RanksGrow ==
  ASSUME NEW S \in SUBSET Int, IsFiniteSet(S)
  PROVE  /\ \A i \in S : /\ IsFiniteSet(Below(S, i)) /\ Cardinality(Below(S, i)) \in Nat
                         /\ Cardinality(Below(S, i)) < Cardinality(S)
         /\ \A i, j \in S : i < j => Cardinality(Below(S, i)) < Cardinality(Below(S, j))
<1>1. ASSUME NEW i \in S
      PROVE  /\ IsFiniteSet(Below(S, i)) /\ Cardinality(Below(S, i)) \in Nat
             /\ Cardinality(Below(S, i)) < Cardinality(S)
  <2>1. Below(S, i) \in SUBSET S /\ Below(S, i) # S
    BY DEF Below
  <2>2. /\ IsFiniteSet(Below(S, i)) /\ Cardinality(Below(S, i)) <= Cardinality(S)
        /\ Cardinality(Below(S, i)) # Cardinality(S)
    BY <2>1, FS_Subset
  <2>3. Cardinality(Below(S, i)) \in Nat /\ Cardinality(S) \in Nat
    BY <2>2, FS_CardinalityType
  <2> QED BY <2>2, <2>3
<1>2. ASSUME NEW i \in S, NEW j \in S, i < j
      PROVE  Cardinality(Below(S, i)) < Cardinality(Below(S, j))
  <2>1. Below(S, i) \in SUBSET Below(S, j) /\ Below(S, i) # Below(S, j)
    <3>1. i \in Below(S, j) /\ i \notin Below(S, i)
      BY <1>2 DEF Below
    <3>2. ASSUME NEW x \in Below(S, i) PROVE x \in Below(S, j)
      <4>1. x \in S /\ x < i /\ x \in Int /\ i \in Int /\ j \in Int
        BY DEF Below
      <4> QED BY <1>2, <4>1 DEF Below
    <3> QED BY <3>1, <3>2
  <2>2. /\ Cardinality(Below(S, i)) <= Cardinality(Below(S, j))
        /\ Cardinality(Below(S, i)) # Cardinality(Below(S, j))
    BY <1>1, <2>1, FS_Subset
  <2> QED BY <1>1, <2>2
<1> QED BY <1>1, <1>2

\* Every rank is taken, by one number.
LEMMA RanksTaken ==
  ASSUME NEW S \in SUBSET Int, IsFiniteSet(S)
  PROVE  /\ \A i, j \in S : Cardinality(Below(S, i)) = Cardinality(Below(S, j)) => i = j
         /\ \A k \in 1 .. Cardinality(S) : \E i \in S : Cardinality(Below(S, i)) = k - 1
<1> DEFINE n == Cardinality(S)
           rank == [i \in S |-> Cardinality(Below(S, i)) + 1]
<1>1. n \in Nat
  BY FS_CardinalityType
<1>2. \A i \in S : Cardinality(Below(S, i)) \in Nat /\ Cardinality(Below(S, i)) < n
  BY RanksGrow
<1>3. ASSUME NEW i \in S, NEW j \in S, Cardinality(Below(S, i)) = Cardinality(Below(S, j))
      PROVE  i = j
  <2>1. ~(i < j) /\ ~(j < i)
    BY <1>2, <1>3, RanksGrow
  <2> QED BY <2>1
<1>4. rank \in [S -> 1 .. n] /\ \A i \in S : rank[i] = Cardinality(Below(S, i)) + 1
  BY <1>1, <1>2
<1>5. \A i, j \in S : rank[i] = rank[j] => i = j
  BY <1>2, <1>3
<1>6. IsFiniteSet(1 .. n) /\ Cardinality(1 .. n) = n
  BY <1>1, FS_Interval
<1> HIDE DEF rank
<1>7. rank \in Injection(S, 1 .. n)
  BY <1>4, <1>5 DEF Injection, IsInjective
<1>8. rank \in Surjection(S, 1 .. n)
  BY <1>6, <1>7, FS_Injection
<1>9. ASSUME NEW k \in 1 .. n PROVE \E i \in S : Cardinality(Below(S, i)) = k - 1
  <2>1. PICK i \in S : rank[i] = k
    BY <1>8 DEF Surjection
  <2> QED BY <1>1, <1>2, <1>4, <2>1
<1> QED BY <1>3, <1>9

LEMMA NthIs ==
  ASSUME NEW S \in SUBSET Int, IsFiniteSet(S), NEW k \in 1 .. Cardinality(S)
  PROVE  Nth(S, k) \in S /\ Cardinality(Below(S, Nth(S, k))) = k - 1
<1>1. PICK i \in S : Cardinality(Below(S, i)) = k - 1
  BY RanksTaken
<1> QED BY <1>1 DEF Nth, Below

\* A selection of a sequence's elements.
LEMMA OnlyIs ==
  ASSUME NEW T, NEW s \in Seq(T), NEW S \in SUBSET DOMAIN s
  PROVE  /\ Only(s, S) \in Seq(T) /\ DOMAIN Only(s, S) = 1 .. Len(Only(s, S)) /\ Len(Only(s, S)) \in Nat
         /\ \A k \in DOMAIN Only(s, S) : \E i \in S : Only(s, S)[k] = s[i]
<1>1. DOMAIN s = 1 .. Len(s) /\ Len(s) \in Nat
  OBVIOUS
<1>2. IsFiniteSet(DOMAIN s) /\ S \in SUBSET Int
  BY <1>1, FS_Interval
<1>3. IsFiniteSet(S) /\ Cardinality(S) \in Nat
  BY <1>2, FS_Subset, FS_CardinalityType
<1>4. \A k \in 1 .. Cardinality(S) : Nth(S, k) \in S
  BY <1>2, <1>3, NthIs
<1>5. \A k \in 1 .. Cardinality(S) : s[Nth(S, k)] \in T
  <2>1. \A i \in S : s[i] \in T
    BY <1>1
  <2> QED BY <1>4, <2>1
<1>6. Only(s, S) = [k \in 1 .. Cardinality(S) |-> s[Nth(S, k)]]
  BY DEF Only
<1> QED BY <1>3, <1>4, <1>5, <1>6

-----------------------------------------------------------------------------
(* The items of a reply.                                                   *)

Order(items) == [j \in DOMAIN items |-> j]
IsBare(item) == item.key = None /\ item.name = <<>>

\* The functions of a prompt: their names and hashes tell them apart, and no
\* hash is a label.
Distinct(fns, m) ==
  /\ m \in Nat /\ DOMAIN fns = 1 .. m /\ None \notin Nat
  /\ \A i, j \in 1 .. m : NameOf[fns[i]] = NameOf[fns[j]] => i = j
  /\ \A i \in 1 .. m : fns[i] \notin Nat /\ fns[i] # None

\* The items of an assistant's reply: the j-th is about the p[j]-th function.
About(items, fns, m, n, p) ==
  /\ Distinct(fns, m)
  /\ n \in Nat /\ DOMAIN items = 1 .. n
  /\ p \in [1 .. n -> 1 .. m] /\ \A j, k \in 1 .. n : p[j] = p[k] => j = k
  /\ \A j \in 1 .. n : /\ items[j].about = fns[p[j]]
                       /\ items[j].key \in {p[j], None}
                       /\ items[j].name \in {NameOf[fns[p[j]]], <<>>}
  /\ \A j, k \in 1 .. n : IsBare(items[j]) /\ IsBare(items[k]) /\ j < k => p[j] < p[k]

\* Every item that went to a function is about that function.
Matchings(m, n, p) == {f \in [1 .. m -> 0 .. n] : \A i \in 1 .. m : f[i] # 0 => p[f[i]] = i}

LEMMA GivenFits ==
  ASSUME NEW m \in Nat, NEW n \in Nat, NEW p \in [1 .. n -> 1 .. m], NEW f \in Matchings(m, n, p),
         NEW j \in 1 .. n, NEW wanted, wanted \subseteq {p[j]}
  PROVE  Given(f, j, wanted) \in Matchings(m, n, p)
<1> DEFINE free == {i \in wanted : f[i] = 0}
<1>1. CASE free = {}
  BY <1>1 DEF Given
<1>2. CASE free # {}
  <2>1. free = {p[j]} /\ p[j] \in 1 .. m
    BY <1>2
  <2>2. Min(free) \in free
    <3>1. free \subseteq Nat
      BY <2>1
    <3> HIDE DEF free
    <3> QED BY <1>2, <3>1, LeastIsMin
  <2>3. Given(f, j, wanted) = [f EXCEPT ![p[j]] = j]
    BY <1>2, <2>1, <2>2 DEF Given
  <2> DEFINE g == [f EXCEPT ![p[j]] = j]
  <2>4. f \in [1 .. m -> 0 .. n] /\ \A i \in 1 .. m : f[i] # 0 => p[f[i]] = i
    BY DEF Matchings
  <2>5. g \in [1 .. m -> 0 .. n] /\ g[p[j]] = j /\ \A i \in 1 .. m : i # p[j] => g[i] = f[i]
    BY <2>1, <2>4
  <2> HIDE DEF free, g
  <2>6. g \in Matchings(m, n, p)
    BY <2>4, <2>5 DEF Matchings
  <2> QED BY <2>3, <2>6 DEF g
<1> QED BY <1>1, <1>2

\* The pass by label: a label is the place of the function it was given to.
LEMMA ByKeyFits ==
  ASSUME NEW items, NEW fns, NEW m, NEW n, NEW p, About(items, fns, m, n, p),
         NEW found \in Matchings(m, n, p)
  PROVE  ByKey(found, items, fns) \in Matchings(m, n, p)
<1> DEFINE X == Matchings(m, n, p)
           give(f, j) == Given(f, j, {i \in DOMAIN fns : items[j].key \in {i, fns[i]}})
           F == [q \in X \X (1 .. n) |-> give(q[1], q[2])]
           Solves(it) == it = [s \in SUBSET (1 .. n) |->
                                 IF s = {} THEN found ELSE give(it[s \ {Max(s)}], Order(items)[Max(s)])]
<1>1. ASSUME NEW f \in X, NEW j \in 1 .. n PROVE give(f, j) \in X
  <2>1. {i \in DOMAIN fns : items[j].key \in {i, fns[i]}} \subseteq {p[j]}
    <3> SUFFICES ASSUME NEW i \in DOMAIN fns, items[j].key \in {i, fns[i]} PROVE i = p[j]
      OBVIOUS
    <3>1. i \in 1 .. m /\ fns[i] \notin Nat /\ fns[i] # None /\ i # None /\ p[j] \in Nat
      BY DEF About, Distinct
    <3>2. items[j].key \in {p[j], None}
      BY DEF About
    <3> QED BY <3>1, <3>2
  <2>2. m \in Nat /\ n \in Nat /\ p \in [1 .. n -> 1 .. m]
    BY DEF About, Distinct
  <2> QED BY <2>1, <2>2, GivenFits
<1>2. n \in Nat /\ DOMAIN items = 1 .. n
  BY DEF About
<1> HIDE DEF X
<1>3. F \in [X \X (1 .. n) -> X]
  <2> HIDE DEF give
  <2> QED BY <1>1
<1>4. found \in X
  BY DEF X
<1>5. PICK it \in [SUBSET (1 .. n) -> X] : Folds(it, found, F, n)
  <2> HIDE DEF F
  <2> QED BY <1>2, <1>3, <1>4, FoldExists
<1>6. Solves(it)
  <2> SUFFICES ASSUME NEW s \in SUBSET (1 .. n)
               PROVE  it[s] = IF s = {} THEN found ELSE give(it[s \ {Max(s)}], Order(items)[Max(s)])
    OBVIOUS
  <2>1. CASE s = {}
    BY <1>5, <2>1 DEF Folds
  <2>2. CASE s # {}
    <3> DEFINE k == Max(s)
    <3>1. k \in 1 .. n
      BY <1>2, <2>2, MaxIsIn
    <3>2. it[s \ {k}] \in X /\ Order(items)[k] = k
      BY <1>2, <3>1 DEF Order
    <3>3. it[s] = F[<<it[s \ {k}], k>>]
      BY <1>5, <2>2 DEF Folds
    <3> HIDE DEF k, give
    <3>4. it[s] = give(it[s \ {k}], k)
      BY <3>1, <3>2, <3>3
    <3> QED BY <2>2, <3>2, <3>4 DEF k
  <2> QED BY <2>1, <2>2
<1> DEFINE iter == CHOOSE x : Solves(x)
<1>7. Solves(iter)
  BY <1>6
<1>8. ByKey(found, items, fns) = iter[1 .. n]
  BY <1>2 DEF ByKey, FoldLeft, MapThenFoldSet, Order
<1> HIDE DEF iter
<1>9. iter[{}] \in X
  BY <1>4, <1>7
<1>10. ASSUME NEW s \in SUBSET (1 .. n), s # {}, iter[s \ {Max(s)}] \in X PROVE iter[s] \in X
  <2> HIDE DEF give
  <2>1. Max(s) \in 1 .. n
    BY <1>2, <1>10, MaxIsIn
  <2>2. iter[s] = give(iter[s \ {Max(s)}], Max(s))
    BY <1>2, <1>7, <1>10, <2>1 DEF Order
  <2> QED BY <1>1, <1>10, <2>1, <2>2
<1>11. iter[1 .. n] \in X
  <2> HIDE DEF Solves
  <2> QED BY <1>2, <1>9, <1>10, FoldStays
<1> QED BY <1>8, <1>11 DEF X

\* The pass by name: while an item has not gone anywhere, the function it is
\* about is free, and the whole name finds it.
LEMMA ByNameFits ==
  ASSUME NEW items, NEW fns, NEW m, NEW n, NEW p, About(items, fns, m, n, p),
         NEW found \in Matchings(m, n, p)
  PROVE  ByName(found, items, fns) \in Matchings(m, n, p)
<1> DEFINE X == Matchings(m, n, p)
           named(f, j) == {i \in DOMAIN fns : f[i] = 0 /\ NameOf[fns[i]] = items[j].name}
           alike(f, j) == {i \in DOMAIN fns : Last(NameOf[fns[i]]) = Last(items[j].name)}
           give(f, j) == IF j \in Range(f) \/ items[j].name = <<>> THEN f
                         ELSE Given(f, j, IF named(f, j) # {} THEN named(f, j) ELSE alike(f, j))
           F == [q \in X \X (1 .. n) |-> give(q[1], q[2])]
           Solves(it) == it = [s \in SUBSET (1 .. n) |->
                                 IF s = {} THEN found ELSE give(it[s \ {Max(s)}], Order(items)[Max(s)])]
<1>1. ASSUME NEW f \in X, NEW j \in 1 .. n PROVE give(f, j) \in X
  <2>1. m \in Nat /\ n \in Nat /\ p \in [1 .. n -> 1 .. m] /\ p[j] \in 1 .. m /\ DOMAIN fns = 1 .. m
    BY DEF About, Distinct
  <2>2. CASE j \in Range(f) \/ items[j].name = <<>>
    BY <2>2
  <2>3. CASE ~(j \in Range(f) \/ items[j].name = <<>>)
    <3>1. items[j].name = NameOf[fns[p[j]]]
      BY <2>3 DEF About
    <3>2. named(f, j) \subseteq {p[j]}
      BY <2>1, <3>1 DEF About, Distinct
    <3>3. f[p[j]] = 0
      <4>1. f \in [1 .. m -> 0 .. n] /\ (f[p[j]] # 0 => p[f[p[j]]] = p[j])
        BY <2>1 DEF Matchings
      <4>2. f[p[j]] # j
        BY <2>1, <2>3, <4>1 DEF Range
      <4>3. ASSUME f[p[j]] # 0 PROVE FALSE
        <5>1. f[p[j]] \in 1 .. n
          BY <2>1, <4>1, <4>3
        <5> QED BY <4>1, <4>2, <4>3, <5>1 DEF About
      <4> QED BY <4>3
    <3>4. p[j] \in named(f, j)
      BY <2>1, <3>1, <3>3
    <3>5. give(f, j) = Given(f, j, named(f, j))
      BY <2>3, <3>4
    <3> HIDE DEF give, named
    <3> QED BY <2>1, <3>2, <3>5, GivenFits
  <2> QED BY <2>2, <2>3
<1>2. n \in Nat /\ DOMAIN items = 1 .. n
  BY DEF About
<1> HIDE DEF X
<1>3. F \in [X \X (1 .. n) -> X]
  <2> HIDE DEF give
  <2> QED BY <1>1
<1>4. found \in X
  BY DEF X
<1>5. PICK it \in [SUBSET (1 .. n) -> X] : Folds(it, found, F, n)
  <2> HIDE DEF F
  <2> QED BY <1>2, <1>3, <1>4, FoldExists
<1>6. Solves(it)
  <2> SUFFICES ASSUME NEW s \in SUBSET (1 .. n)
               PROVE  it[s] = IF s = {} THEN found ELSE give(it[s \ {Max(s)}], Order(items)[Max(s)])
    OBVIOUS
  <2> HIDE DEF give
  <2>1. CASE s = {}
    BY <1>5, <2>1 DEF Folds
  <2>2. CASE s # {}
    <3> DEFINE k == Max(s)
    <3>1. k \in 1 .. n
      BY <1>2, <2>2, MaxIsIn
    <3>2. it[s \ {k}] \in X /\ Order(items)[k] = k
      BY <1>2, <3>1 DEF Order
    <3>3. it[s] = F[<<it[s \ {k}], k>>]
      BY <1>5, <2>2 DEF Folds
    <3> HIDE DEF k
    <3>4. it[s] = give(it[s \ {k}], k)
      BY <3>1, <3>2, <3>3
    <3> QED BY <2>2, <3>2, <3>4 DEF k
  <2> QED BY <2>1, <2>2
<1> DEFINE iter == CHOOSE x : Solves(x)
<1>7. Solves(iter)
  BY <1>6
<1>8. ByName(found, items, fns) = iter[1 .. n]
  BY <1>2 DEF ByName, FoldLeft, MapThenFoldSet, Order
<1> HIDE DEF iter
<1>9. iter[{}] \in X
  BY <1>4, <1>7
<1>10. ASSUME NEW s \in SUBSET (1 .. n), s # {}, iter[s \ {Max(s)}] \in X PROVE iter[s] \in X
  <2> HIDE DEF give
  <2>1. Max(s) \in 1 .. n
    BY <1>2, <1>10, MaxIsIn
  <2>2. iter[s] = give(iter[s \ {Max(s)}], Max(s))
    BY <1>2, <1>7, <1>10, <2>1 DEF Order
  <2> QED BY <1>1, <1>10, <2>1, <2>2
<1>11. iter[1 .. n] \in X
  <2> HIDE DEF Solves
  <2> QED BY <1>2, <1>9, <1>10, FoldStays
<1> QED BY <1>8, <1>11 DEF X

\* The pass by place: what is left has neither label nor name and is in the order
\* of the prompt, and so, one by one, is about the functions that are left.
LEMMA ByPlaceFits ==
  ASSUME NEW items, NEW fns, NEW m, NEW n, NEW p, About(items, fns, m, n, p),
         NEW found \in Matchings(m, n, p)
  PROVE  ByPlace(found, items) \in Matchings(m, n, p)
<1> DEFINE rest == Unlabelled(found, items)
           open == Open(found)
<1>1. /\ m \in Nat /\ n \in Nat /\ DOMAIN items = 1 .. n
      /\ p \in [1 .. n -> 1 .. m] /\ \A j, k \in 1 .. n : p[j] = p[k] => j = k
      /\ found \in [1 .. m -> 0 .. n] /\ \A i \in 1 .. m : found[i] # 0 => p[found[i]] = i
  BY DEF About, Distinct, Matchings
<1>2. rest \in SUBSET (1 .. n) /\ open \in SUBSET (1 .. m)
  BY <1>1 DEF Unlabelled, Open
<1>3. \A j \in rest : IsBare(items[j]) /\ j \notin Range(found)
  BY DEF Unlabelled, IsBare
<1>4. \A i \in 1 .. m : i \in open <=> found[i] = 0
  BY <1>1 DEF Open
<1>5. ByPlace(found, items) =
        IF Cardinality(rest) # Cardinality(open) THEN found
        ELSE [i \in 1 .. m |-> IF i \in open THEN Nth(rest, PlaceAmong(open, i)) ELSE found[i]]
  BY <1>1 DEF ByPlace
<1> HIDE DEF rest, open
<1>6. CASE Cardinality(rest) # Cardinality(open)
  BY <1>5, <1>6
<1>7. CASE Cardinality(rest) = Cardinality(open)
  <2>1. /\ rest \in SUBSET Int /\ IsFiniteSet(rest) /\ Cardinality(rest) \in Nat
        /\ open \in SUBSET Int /\ IsFiniteSet(open) /\ Cardinality(open) \in Nat
    <3>1. IsFiniteSet(1 .. n) /\ IsFiniteSet(1 .. m)
      BY <1>1, FS_Interval
    <3>2. IsFiniteSet(rest) /\ IsFiniteSet(open)
      BY <1>2, <3>1, FS_Subset
    <3> QED BY <1>2, <3>2, FS_CardinalityType
  <2>2. ASSUME NEW j \in rest PROVE p[j] \in open
    <3>1. j \in 1 .. n /\ p[j] \in 1 .. m
      BY <1>1, <1>2
    <3>2. ASSUME found[p[j]] # 0 PROVE FALSE
      <4>1. found[p[j]] \in 1 .. n /\ p[found[p[j]]] = p[j]
        BY <1>1, <3>1, <3>2
      <4>2. found[p[j]] = j
        BY <1>1, <3>1, <4>1
      <4>3. j \in Range(found)
        BY <1>1, <3>1, <4>2 DEF Range
      <4> QED BY <1>3, <4>3
    <3> QED BY <1>4, <3>1, <3>2
  <2>3. \A j, k \in rest : j < k => p[j] < p[k]
    BY <1>2, <1>3 DEF About
  <2> DEFINE h == [j \in rest |-> p[j]]
  <2>4. h \in Injection(rest, open)
    <3>1. h \in [rest -> open] /\ \A j, k \in rest : h[j] = h[k] => j = k
      BY <1>1, <1>2, <2>2
    <3> QED BY <3>1 DEF Injection, IsInjective
  <2>5. h \in Surjection(rest, open)
    <3> HIDE DEF h
    <3> QED BY <1>7, <2>1, <2>4, FS_Injection
  <2>6. ASSUME NEW i \in open
        PROVE  Nth(rest, PlaceAmong(open, i)) \in 1 .. n /\ p[Nth(rest, PlaceAmong(open, i))] = i
    <3>1. PICK l \in rest : p[l] = i
      BY <2>5 DEF Surjection
    <3> DEFINE b == [j \in Below(rest, l) |-> p[j]]
    <3>2. /\ b \in [Below(rest, l) -> Below(open, i)]
          /\ \A j, k \in Below(rest, l) : b[j] = b[k] => j = k
      BY <1>1, <1>2, <2>2, <2>3, <3>1 DEF Below
    <3>3. ASSUME NEW y \in Below(open, i) PROVE \E j \in Below(rest, l) : b[j] = y
      <4>1. y \in open /\ y < i /\ y \in Int /\ i \in Int
        BY <2>1 DEF Below
      <4>2. PICK j \in rest : p[j] = y
        BY <2>5, <4>1 DEF Surjection
      <4>3. j \in Int /\ l \in Int /\ j # l /\ ~(l < j)
        <5>1. j \in Int /\ l \in Int /\ j # l
          BY <2>1, <3>1, <4>1, <4>2
        <5>2. l < j => i < y
          BY <2>3, <3>1, <4>2
        <5> QED BY <4>1, <5>1, <5>2
      <4>4. j \in Below(rest, l)
        BY <4>3 DEF Below
      <4> QED BY <4>2, <4>4
    <3>4. b \in Bijection(Below(rest, l), Below(open, i))
      <4> HIDE DEF b
      <4> QED BY <3>2, <3>3 DEF Bijection, Injection, Surjection, IsInjective
    <3>5. /\ IsFiniteSet(Below(rest, l)) /\ Cardinality(Below(rest, l)) \in Nat
          /\ Cardinality(Below(rest, l)) < Cardinality(rest)
      BY <2>1, RanksGrow
    <3>6. IsFiniteSet(Below(open, i)) /\ Cardinality(Below(open, i)) = Cardinality(Below(rest, l))
      <4>1. ExistsBijection(Below(rest, l), Below(open, i))
        BY <3>4 DEF ExistsBijection
      <4> QED BY <3>5, <4>1, FS_Bijection
    <3>7. PlaceAmong(open, i) = Cardinality(Below(rest, l)) + 1
      <4>1. {k \in open : k <= i} = Below(open, i) \cup {i} /\ i \notin Below(open, i)
        <5>1. \A k \in open : k \in Int
          BY <2>1
        <5>2. \A k \in open : k <= i <=> (k < i \/ k = i)
          BY <5>1
        <5>3. ~(i < i)
          BY <5>1
        <5> QED BY <5>2, <5>3 DEF Below
      <4>2. Cardinality(Below(open, i) \cup {i}) = Cardinality(Below(open, i)) + 1
        BY <3>6, <4>1, FS_AddElement
      <4> QED BY <3>6, <4>1, <4>2 DEF PlaceAmong
    <3>8. PlaceAmong(open, i) \in 1 .. Cardinality(rest)
      BY <2>1, <3>5, <3>7
    <3> DEFINE x == Nth(rest, PlaceAmong(open, i))
    <3>9. x \in rest /\ Cardinality(Below(rest, x)) = PlaceAmong(open, i) - 1
      BY <2>1, <3>8, NthIs
    <3> HIDE DEF x
    <3>10. x = l
      <4>1. Cardinality(Below(rest, x)) = Cardinality(Below(rest, l))
        BY <3>5, <3>7, <3>9
      <4> QED BY <2>1, <3>9, <4>1, RanksTaken
    <3> QED BY <1>2, <3>1, <3>10 DEF x
  <2> DEFINE g == [i \in 1 .. m |-> IF i \in open THEN Nth(rest, PlaceAmong(open, i)) ELSE found[i]]
  <2>7. ASSUME NEW i \in 1 .. m PROVE g[i] \in 0 .. n /\ (g[i] # 0 => p[g[i]] = i)
    <3>1. CASE i \in open
      BY <2>6, <3>1
    <3>2. CASE i \notin open
      BY <1>1, <3>2
    <3> QED BY <3>1, <3>2
  <2>8. g \in Matchings(m, n, p)
    <3>1. g = [i \in 1 .. m |-> g[i]]
      OBVIOUS
    <3> HIDE DEF g
    <3> QED BY <2>7, <3>1 DEF Matchings
  <2> QED BY <1>5, <1>7, <2>8
<1> QED BY <1>6, <1>7

LEMMA MatchFits ==
  ASSUME NEW items, NEW fns, NEW m, NEW n, NEW p, About(items, fns, m, n, p)
  PROVE  MatchItems(items, fns) \in Matchings(m, n, p)
<1> DEFINE nobody == [i \in DOMAIN fns |-> 0]
<1>1. nobody \in Matchings(m, n, p)
  BY DEF About, Distinct, Matchings
<1> HIDE DEF nobody
<1>2. ByKey(nobody, items, fns) \in Matchings(m, n, p)
  BY <1>1, ByKeyFits
<1>3. ByName(ByKey(nobody, items, fns), items, fns) \in Matchings(m, n, p)
  BY <1>2, ByNameFits
<1>4. ByPlace(ByName(ByKey(nobody, items, fns), items, fns), items) \in Matchings(m, n, p)
  BY <1>3, ByPlaceFits
<1> QED BY <1>4 DEF MatchItems, nobody

-----------------------------------------------------------------------------
(* Words about the function they are kept for.                             *)

Functions == UNION {Range(FunctionsOf[r]) : r \in Requests}
TrueWords == {Words(h, h) : h \in Functions}

LEMMA PromptIs ==
  ASSUME NEW fns \in Prompts
  PROVE  /\ Distinct(fns, Len(fns)) /\ fns \in Seq(Functions)
         /\ \A i, j \in 1 .. Len(fns) : fns[i] = fns[j] => i = j
<1>1. PICK r \in Requests : fns \in PromptsOf(r)
  BY DEF Prompts
<1>2. PICK m \in 0 .. ChunkSize : fns \in [1 .. m -> Range(FunctionsOf[r])]
  BY <1>1 DEF PromptsOf
<1>3. m \in Nat /\ DOMAIN fns = 1 .. m /\ Len(fns) = m
  BY <1>2
<1>4. \A i, j \in 1 .. m : fns[i] = fns[j] => i = j
  BY <1>1, <1>2 DEF PromptsOf, IsInjective
<1>5. /\ None \notin Nat
      /\ \A f, g \in Range(FunctionsOf[r]) : NameOf[f] = NameOf[g] => f = g
      /\ \A f \in Range(FunctionsOf[r]) : f \notin Nat /\ f # None
  BY GenerationAssumption DEF GenerationAssumption
<1>6. \A i \in 1 .. m : fns[i] \in Range(FunctionsOf[r])
  BY <1>2
<1>7. Distinct(fns, m)
  BY <1>3, <1>4, <1>5, <1>6 DEF Distinct
<1>8. fns \in Seq(Functions)
  <2>1. \A i \in 1 .. m : fns[i] \in Functions
    BY <1>6 DEF Functions
  <2>2. fns = [i \in 1 .. m |-> fns[i]]
    BY <1>2
  <2> QED BY <1>3, <2>1, <2>2
<1> QED BY <1>3, <1>4, <1>7, <1>8

\* What an assistant sends is about the functions of the prompt.
LEMMA RepliesAreAbout ==
  ASSUME NEW fns \in Prompts, NEW reply \in AssistantReplies(fns)
  PROVE  \E n, p : About(ParseReply(reply), fns, Len(fns), n, p)
<1> DEFINE m == Len(fns)
           itemsOf(i) == [about : {fns[i]}, key : {i, None}, name : {NameOf[fns[i]], <<>>}, clear : BOOLEAN]
           bare(x) == {k \in DOMAIN x : x[k].key = None /\ x[k].name = <<>>}
           json(p) == {x \in [DOMAIN p -> UNION {itemsOf(i) : i \in DOMAIN fns}] :
                         /\ \A k \in DOMAIN p : x[k] \in itemsOf(p[k])
                         /\ \A k, l \in bare(x) : k < l => p[k] < p[l]}
           places == UNION {{p \in [1 .. n -> DOMAIN fns] : IsInjective(p)} : n \in 0 .. m}
           replies == UNION {json(p) : p \in places}
           items == ParseReply(reply)
<1>1. Distinct(fns, m) /\ m \in Nat /\ DOMAIN fns = 1 .. m
  BY PromptIs DEF Distinct
<1>2. /\ reply.items \in replies
      /\ items = reply.items \/ items = PlainTextItems(reply.items)
      /\ reply.form = "text" => \A k \in DOMAIN reply.items : reply.items[k].name # <<>>
      /\ reply.form # "text" => items = reply.items
      /\ reply.form = "text" => items = PlainTextItems(reply.items)
  <2>1. reply \in [form : {"json"}, items : replies]
          \cup [form : {"text"}, items : {x \in replies : \A k \in DOMAIN x : x[k].name # <<>>}]
    BY DEF AssistantReplies
  <2> HIDE DEF replies
  <2> QED BY <2>1 DEF ParseReply
<1>3. PICK p \in places : reply.items \in json(p)
  BY <1>2
<1>4. PICK n \in 0 .. m : p \in [1 .. n -> DOMAIN fns] /\ IsInjective(p)
  BY <1>3
<1> DEFINE x == reply.items
<1>5. /\ n \in Nat /\ p \in [1 .. n -> 1 .. m] /\ \A j, k \in 1 .. n : p[j] = p[k] => j = k
      /\ DOMAIN x = 1 .. n
  BY <1>1, <1>3, <1>4 DEF IsInjective
<1>6. ASSUME NEW j \in 1 .. n
      PROVE  /\ x[j] \in itemsOf(p[j]) /\ x[j].about = fns[p[j]]
             /\ x[j].key \in {p[j], None} /\ x[j].name \in {NameOf[fns[p[j]]], <<>>}
  <2>1. x[j] \in itemsOf(p[j])
    BY <1>3, <1>5
  <2> QED BY <2>1
<1>7. \A j, k \in 1 .. n : IsBare(x[j]) /\ IsBare(x[k]) /\ j < k => p[j] < p[k]
  BY <1>3, <1>5 DEF IsBare
<1> HIDE DEF x, json, places, replies
<1>8. CASE items = x
  BY <1>1, <1>5, <1>6, <1>7, <1>8 DEF About, x
<1>9. CASE reply.form = "text"
  <2>1. /\ DOMAIN items = 1 .. n
        /\ \A j \in 1 .. n : items[j] = [x[j] EXCEPT !.key = None]
    BY <1>2, <1>5, <1>9 DEF PlainTextItems, x
  <2>2. ASSUME NEW j \in 1 .. n
        PROVE  /\ items[j].about = fns[p[j]] /\ items[j].key \in {p[j], None}
               /\ items[j].name \in {NameOf[fns[p[j]]], <<>>} /\ ~IsBare(items[j])
    <3>1. x[j] \in itemsOf(p[j]) /\ x[j].name # <<>>
      BY <1>2, <1>5, <1>6, <1>9 DEF x
    <3>2. /\ items[j].about = x[j].about /\ items[j].key = None /\ items[j].name = x[j].name
      BY <2>1, <3>1
    <3> QED BY <1>6, <3>1, <3>2 DEF IsBare
  <2> HIDE DEF items, m
  <2>3. About(items, fns, m, n, p)
    BY <1>1, <1>5, <2>1, <2>2 DEF About
  <2> QED BY <2>3 DEF items, m
<1>10. reply.form = "text" \/ items = x
  BY <1>2 DEF x
<1> QED BY <1>8, <1>9, <1>10

LEMMA UsableIsTrue ==
  ASSUME NEW fns \in Prompts, NEW reply \in AssistantReplies(fns)
  PROVE  Usable(reply, fns) \subseteq TrueWords
<1> DEFINE items == ParseReply(reply)
           found == MatchItems(items, fns)
<1>1. PICK n, p : About(items, fns, Len(fns), n, p)
  BY RepliesAreAbout
<1>2. found \in Matchings(Len(fns), n, p)
  BY <1>1, MatchFits
<1>3. fns \in Seq(Functions) /\ DOMAIN fns = 1 .. Len(fns) /\ Len(fns) \in Nat
  BY PromptIs
<1>4. Usable(reply, fns) =
        {Words(fns[i], items[found[i]].about) : i \in {k \in DOMAIN fns : found[k] # 0 /\ items[found[k]].clear}}
  BY DEF Usable
<1> HIDE DEF items, found
<1>5. ASSUME NEW i \in DOMAIN fns, found[i] # 0 PROVE items[found[i]].about = fns[i] /\ fns[i] \in Functions
  <2>1. found[i] \in 0 .. n /\ p[found[i]] = i /\ n \in Nat
    BY <1>1, <1>2, <1>3, <1>5 DEF Matchings, About
  <2>2. found[i] \in 1 .. n
    BY <1>5, <2>1
  <2> QED BY <1>1, <1>3, <2>1, <2>2 DEF About
<1> QED BY <1>4, <1>5 DEF TrueWords

-----------------------------------------------------------------------------
(* The cache.                                                              *)

LEMMA InOrderIs ==
  ASSUME NEW T, NEW fns \in Seq(T), NEW hs
  PROVE  /\ InOrder(fns, hs) \in Seq(T) /\ Len(InOrder(fns, hs)) \in Nat
         /\ DOMAIN InOrder(fns, hs) = 1 .. Len(InOrder(fns, hs))
         /\ \A k \in DOMAIN InOrder(fns, hs) : InOrder(fns, hs)[k] \in hs
<1> DEFINE S == {i \in DOMAIN fns : fns[i] \in hs}
<1>1. S \in SUBSET DOMAIN fns /\ \A i \in S : fns[i] \in hs
  OBVIOUS
<1>2. InOrder(fns, hs) = Only(fns, S)
  BY DEF InOrder
<1> HIDE DEF S
<1> QED BY <1>1, <1>2, OnlyIs

LEMMA TouchStays ==
  ASSUME NEW T, NEW s \in Seq(T), NEW h
  PROVE  Without(s, h) \in Seq(T) /\ Touch(s, h) \in Seq(T)
<1> DEFINE others == {i \in DOMAIN s : s[i].hash # h}
           own == {i \in DOMAIN s : s[i].hash = h}
<1>1. others \in SUBSET DOMAIN s /\ own \in SUBSET DOMAIN s
  OBVIOUS
<1>2. Without(s, h) = Only(s, others) /\ Touch(s, h) = Only(s, others) \o Only(s, own)
  BY DEF Without, Touch
<1> HIDE DEF others, own
<1>3. Only(s, others) \in Seq(T) /\ Only(s, own) \in Seq(T)
  BY <1>1, OnlyIs
<1> QED BY <1>2, <1>3

LEMMA PutStays ==
  ASSUME NEW T, NEW s \in Seq(T), NEW w \in T
  PROVE  Put(s, w) \in Seq(T)
<1> DEFINE longer == Append(Without(s, w.hash), w)
<1>1. longer \in Seq(T)
  BY TouchStays
<1> HIDE DEF longer
<1>2. MaxEntries \in Nat \ {0} /\ Len(longer) \in Nat
  BY <1>1, GenerationAssumption DEF GenerationAssumption
<1>3. Trim(longer) \in Seq(T)
  <2>1. CASE Len(longer) > MaxEntries
    <3> DEFINE first == Len(longer) - MaxEntries + 1
    <3>1. first \in 1 .. Len(longer) + 1 /\ first \in Nat
      BY <1>2, <2>1
    <3>2. \A i \in first .. Len(longer) : longer[i] \in T
      BY <1>1, <1>2, <3>1
    <3>3. SubSeq(longer, first, Len(longer)) \in Seq(T)
      BY <1>1, <1>2, <3>1, <3>2
    <3> QED BY <2>1, <3>3 DEF Trim
  <2>2. CASE ~(Len(longer) > MaxEntries)
    BY <1>1, <2>2 DEF Trim
  <2> QED BY <2>1, <2>2
<1> QED BY <1>3 DEF Put, longer

\* A lookup moves what it finds to the end.
LEMMA TouchedStays ==
  ASSUME NEW T, NEW s \in Seq(T), NEW hits, DOMAIN hits = 1 .. Len(hits), Len(hits) \in Nat
  PROVE  FoldLeft(Touch, s, hits) \in Seq(T)
<1> DEFINE X == Seq(T)
           n == Len(hits)
           F == [q \in X \X (1 .. n) |-> Touch(q[1], hits[q[2]])]
           Solves(it) == it = [set \in SUBSET (1 .. n) |->
                                 IF set = {} THEN s ELSE Touch(it[set \ {Max(set)}], hits[Max(set)])]
<1>1. ASSUME NEW f \in X, NEW j \in 1 .. n PROVE Touch(f, hits[j]) \in X
  BY TouchStays
<1>2. n \in Nat /\ DOMAIN hits = 1 .. n /\ s \in X
  OBVIOUS
<1> HIDE DEF X, n
<1>3. F \in [X \X (1 .. n) -> X]
  BY <1>1
<1>4. PICK it \in [SUBSET (1 .. n) -> X] : Folds(it, s, F, n)
  <2> HIDE DEF F
  <2> QED BY <1>2, <1>3, FoldExists
<1>5. Solves(it)
  <2> SUFFICES ASSUME NEW set \in SUBSET (1 .. n)
               PROVE  it[set] = IF set = {} THEN s ELSE Touch(it[set \ {Max(set)}], hits[Max(set)])
    OBVIOUS
  <2>1. CASE set = {}
    BY <1>4, <2>1 DEF Folds
  <2>2. CASE set # {}
    <3> DEFINE k == Max(set)
    <3>1. k \in 1 .. n
      BY <1>2, <2>2, MaxIsIn
    <3>2. it[set \ {k}] \in X /\ it[set] = F[<<it[set \ {k}], k>>]
      BY <1>4, <2>2 DEF Folds
    <3> HIDE DEF k
    <3>3. it[set] = Touch(it[set \ {k}], hits[k])
      BY <3>1, <3>2
    <3> QED BY <2>2, <3>3 DEF k
  <2> QED BY <2>1, <2>2
<1> DEFINE iter == CHOOSE x : Solves(x)
<1>6. Solves(iter)
  BY <1>5
<1>7. FoldLeft(Touch, s, hits) = iter[1 .. n]
  BY <1>2 DEF FoldLeft, MapThenFoldSet
<1> HIDE DEF iter
<1>8. iter[{}] \in X
  BY <1>2, <1>6
<1>9. ASSUME NEW set \in SUBSET (1 .. n), set # {}, iter[set \ {Max(set)}] \in X PROVE iter[set] \in X
  <2>1. Max(set) \in 1 .. n
    BY <1>2, <1>9, MaxIsIn
  <2>2. iter[set] = Touch(iter[set \ {Max(set)}], hits[Max(set)])
    BY <1>6, <1>9
  <2> QED BY <1>1, <1>9, <2>1, <2>2
<1>10. iter[1 .. n] \in X
  <2> HIDE DEF Solves
  <2> QED BY <1>2, <1>8, <1>9, FoldStays
<1> QED BY <1>7, <1>10 DEF X

\* What is kept of a reply is words of the reply.
LEMMA KeptStays ==
  ASSUME NEW T, mem \in Seq(T), NEW valid, valid \subseteq T, NEW fns \in Seq(Functions),
         KeepValid(fns, valid)
  PROVE  mem' \in Seq(T)
<1> DEFINE X == Seq(T)
           of(h) == CHOOSE w \in valid : w.hash = h
           keep == InOrder(fns, {w.hash : w \in valid})
           n == Len(keep)
           F == [q \in X \X (1 .. n) |-> Put(q[1], of(keep[q[2]]))]
           Solves(it) == it = [set \in SUBSET (1 .. n) |->
                                 IF set = {} THEN mem ELSE Put(it[set \ {Max(set)}], of(keep[Max(set)]))]
<1>0. mem' = FoldLeft(LAMBDA m, h : Put(m, of(h)), mem, keep)
  BY DEF KeepValid
<1>1. ASSUME NEW f \in X, NEW j \in 1 .. n PROVE Put(f, of(keep[j])) \in X
  <2>1. keep[j] \in {w.hash : w \in valid}
    BY InOrderIs
  <2>2. of(keep[j]) \in T
    BY <2>1
  <2> HIDE DEF of, keep
  <2> QED BY <2>2, PutStays
<1>2. n \in Nat /\ DOMAIN keep = 1 .. n /\ mem \in X
  BY InOrderIs
<1> HIDE DEF X, n, keep
<1>3. F \in [X \X (1 .. n) -> X]
  <2> HIDE DEF of
  <2> QED BY <1>1
<1>4. PICK it \in [SUBSET (1 .. n) -> X] : Folds(it, mem, F, n)
  <2> HIDE DEF F
  <2> QED BY <1>2, <1>3, FoldExists
<1>5. Solves(it)
  <2> SUFFICES ASSUME NEW set \in SUBSET (1 .. n)
               PROVE  it[set] = IF set = {} THEN mem ELSE Put(it[set \ {Max(set)}], of(keep[Max(set)]))
    OBVIOUS
  <2> HIDE DEF of
  <2>1. CASE set = {}
    BY <1>4, <2>1 DEF Folds
  <2>2. CASE set # {}
    <3> DEFINE k == Max(set)
    <3>1. k \in 1 .. n
      BY <1>2, <2>2, MaxIsIn
    <3>2. it[set \ {k}] \in X /\ it[set] = F[<<it[set \ {k}], k>>]
      BY <1>4, <2>2 DEF Folds
    <3> HIDE DEF k
    <3>3. it[set] = Put(it[set \ {k}], of(keep[k]))
      BY <3>1, <3>2
    <3> QED BY <2>2, <3>3 DEF k
  <2> QED BY <2>1, <2>2
<1> DEFINE iter == CHOOSE x : Solves(x)
<1>6. Solves(iter)
  BY <1>5
<1>7. mem' = iter[1 .. n]
  BY <1>0, <1>2 DEF FoldLeft, MapThenFoldSet
<1> HIDE DEF iter
<1>8. iter[{}] \in X
  BY <1>2, <1>6
<1>9. ASSUME NEW set \in SUBSET (1 .. n), set # {}, iter[set \ {Max(set)}] \in X PROVE iter[set] \in X
  <2> HIDE DEF of
  <2>1. Max(set) \in 1 .. n
    BY <1>2, <1>9, MaxIsIn
  <2>2. iter[set] = Put(iter[set \ {Max(set)}], of(keep[Max(set)]))
    BY <1>6, <1>9
  <2> QED BY <1>1, <1>9, <2>1, <2>2
<1>10. iter[1 .. n] \in X
  <2> HIDE DEF Solves
  <2> QED BY <1>2, <1>8, <1>9, FoldStays
<1> QED BY <1>7, <1>10 DEF X

-----------------------------------------------------------------------------
(* Words about the function they are kept for, in every step.              *)

\* What a request keeps until it is asked again is true, and the chunk it is
\* about is one that was sent: only a whole chunk is asked for again.
Honest(q) ==
  q.pc \in {"turn", "asking"} =>
    /\ q.good \subseteq TrueWords
    /\ q.again # {} => q.reask = 0 /\ Head(q.chunks) \in Prompts

TrueCache ==
  /\ mem \in Seq(TrueWords) /\ file \in Seq(TrueWords)
  /\ saving # None => saving.entries \in Seq(TrueWords)

WordsIInv == TrueCache /\ \A r \in Requests : Honest(req[r])

LEMMA OneIsHonest ==
  ASSUME AtWork, WordsIInv, NEW r \in Requests, NEW q, req' = [req EXCEPT ![r] = q], Honest(q)
  PROVE  \A s \in Requests : Honest(req'[s])
<1> SUFFICES ASSUME NEW s \in Requests PROVE Honest(req'[s])
  OBVIOUS
<1>1. CASE s = r
  BY <1>1 DEF AtWork
<1>2. CASE s # r
  <2>1. req'[s] = req[s]
    BY <1>2 DEF AtWork
  <2> QED BY <2>1 DEF WordsIInv
<1> QED BY <1>1, <1>2

LEMMA CacheAlone ==
  ASSUME WordsIInv, UNCHANGED cache
  PROVE  TrueCache'
BY DEF WordsIInv, TrueCache, cache

\* A request that ends, or only begins, promises nothing.
LEMMA OthersHonest ==
  ASSUME AtWork, WordsIInv, NEW r \in Requests, NEW q, q.pc \notin {"turn", "asking"},
         req' = [req EXCEPT ![r] = q]
  PROVE  \A s \in Requests : Honest(req'[s])
BY OneIsHonest DEF Honest

LEMMA NextTurnHonest ==
  ASSUME AtWork, WordsIInv, NEW r \in Requests, NextTurn(r)
  PROVE  \A s \in Requests : Honest(req'[s])
<1>1. CASE Waiting(r)
  <2> DEFINE q == [req[r] EXCEPT !.pc = "turn", !.again = {}]
  <2>1. req' = [req EXCEPT ![r] = q]
    BY <1>1 DEF NextTurn, AtWork
  <2>2. IsRun(req[r]) /\ Honest(req[r])
    BY <1>1, OneOnly DEF Fits, Waiting, Is, WordsIInv
  <2>3. q.good = req[r].good /\ q.again = {}
    BY <2>2 DEF IsRun, RunFields
  <2> HIDE DEF q
  <2>4. Honest(q)
    BY <1>1, <2>2, <2>3 DEF Honest, Waiting, Is
  <2> QED BY <2>1, <2>4, OneIsHonest
<1>2. CASE ~Waiting(r)
  BY <1>2 DEF NextTurn, WordsIInv
<1> QED BY <1>1, <1>2

LEMMA RunningHonest ==
  ASSUME AtWork, WordsIInv, NEW r \in Requests, Running(r)
  PROVE  \A s \in Requests : Honest(req'[s])
<1>1. CASE Waiting(r)
  <2> DEFINE q == [req[r] EXCEPT !.prompts = @ + 1]
  <2>1. req' = [req EXCEPT ![r] = q]
    BY <1>1 DEF Running, AtWork
  <2>2. IsRun(req[r]) /\ Honest(req[r])
    BY <1>1, OneOnly DEF Fits, Waiting, Is, WordsIInv
  <2>3. /\ q.pc = req[r].pc /\ q.good = req[r].good /\ q.again = req[r].again
        /\ q.reask = req[r].reask /\ q.chunks = req[r].chunks
    BY <2>2 DEF IsRun, RunFields
  <2> HIDE DEF q
  <2>4. Honest(q)
    BY <2>2, <2>3 DEF Honest
  <2> QED BY <2>1, <2>4, OneIsHonest
<1>2. CASE ~Waiting(r)
  BY <1>2 DEF Running, WordsIInv
<1> QED BY <1>1, <1>2

LEMMA StartTrue ==
  ASSUME AtWork, WordsIInv, NEW r \in Requests, Start(r)
  PROVE  WordsIInv'
<1>1. PICK hits : mem' = FoldLeft(Touch, mem, InOrder(FunctionsOf[r], hits))
  BY DEF Start
<1>2. \/ End(r, "done") \/ End(r, "failed")
      \/ \E chunks : req' = [req EXCEPT ![r] = [pc |-> "probing", chunks |-> chunks]]
  BY DEF Start
<1>3. UNCHANGED <<saving, file>>
  BY DEF Start
<1>4. FunctionsOf[r] \in Seq(Range(FunctionsOf[r]))
  BY GenerationAssumption DEF GenerationAssumption
<1>5. mem' \in Seq(TrueWords)
  BY <1>1, <1>4, InOrderIs, TouchedStays DEF WordsIInv, TrueCache
<1>6. \A s \in Requests : Honest(req'[s])
  <2>1. CASE End(r, "done")
    BY <2>1, OthersHonest DEF End
  <2>2. CASE End(r, "failed")
    BY <2>2, OthersHonest DEF End
  <2>3. ASSUME NEW chunks, req' = [req EXCEPT ![r] = [pc |-> "probing", chunks |-> chunks]]
        PROVE  \A s \in Requests : Honest(req'[s])
    BY <2>3, OthersHonest
  <2> QED BY <1>2, <2>1, <2>2, <2>3
<1> QED BY <1>3, <1>5, <1>6 DEF WordsIInv, TrueCache

LEMMA ProbedTrue ==
  ASSUME AtWork, WordsIInv, NEW r \in Requests, Probed(r)
  PROVE  WordsIInv'
<1>1. TrueCache'
  BY CacheAlone DEF Probed
<1>2. CASE End(r, "failed")
  BY <1>1, <1>2, OthersHonest DEF End, WordsIInv
<1>3. CASE \E order : req' = [req EXCEPT ![r] = [pc |-> "turn", chunks |-> req[r].chunks, order |-> order,
                                     left |-> order, reask |-> 1, good |-> {}, again |-> {},
                                     prompts |-> 0, turns |-> 0]]
  <2>1. PICK order : req' = [req EXCEPT ![r] = [pc |-> "turn", chunks |-> req[r].chunks, order |-> order,
                                     left |-> order, reask |-> 1, good |-> {}, again |-> {},
                                     prompts |-> 0, turns |-> 0]]
    BY <1>3
  <2> DEFINE q == [pc |-> "turn", chunks |-> req[r].chunks, order |-> order,
                   left |-> order, reask |-> 1, good |-> {}, again |-> {}, prompts |-> 0, turns |-> 0]
  <2>2. q.good = {} /\ q.again = {} /\ req' = [req EXCEPT ![r] = q]
    BY <2>1
  <2> HIDE DEF q
  <2>3. Honest(q)
    BY <2>2 DEF Honest
  <2> QED BY <1>1, <2>2, <2>3, OneIsHonest DEF WordsIInv
<1> QED BY <1>2, <1>3 DEF Probed

LEMMA TurnTrue ==
  ASSUME AtWork, WordsIInv, NEW r \in Requests, Turn(r)
  PROVE  WordsIInv'
<1>1. TrueCache'
  BY CacheAlone DEF Turn
<1>2. CASE End(r, "failed")
  BY <1>1, <1>2, OthersHonest DEF End, WordsIInv
<1>3. CASE req' = [req EXCEPT ![r].pc = "asking", ![r].left = Tail(@), ![r].turns = @ + 1]
  <2> DEFINE q == Turned(req[r], Tail(req[r].left))
  <2>1. req' = [req EXCEPT ![r] = q]
    BY <1>3 DEF AtWork, Turned
  <2>2. IsRun(req[r]) /\ Honest(req[r]) /\ req[r].pc = "turn"
    BY OneOnly DEF Fits, Turn, Is, WordsIInv
  <2>3. /\ q.good = req[r].good /\ q.again = req[r].again
        /\ q.reask = req[r].reask /\ q.chunks = req[r].chunks
    BY <2>2 DEF IsRun, RunFields, Turned
  <2> HIDE DEF q
  <2>4. Honest(q)
    BY <2>2, <2>3 DEF Honest
  <2> QED BY <1>1, <2>1, <2>4, OneIsHonest DEF WordsIInv
<1> QED BY <1>2, <1>3 DEF Turn

\* A reply brings only true words: it is to a prompt the request sent, and a
\* part of a chunk is asked for again only after the whole chunk was a prompt.
LEMMA RepliesTrue ==
  ASSUME AtWork, WordsIInv, NEW r \in Requests, Replies(r)
  PROVE  WordsIInv'
<1>1. UNCHANGED <<saving, file>>
  BY DEF Replies
<1>2. CASE ~Waiting(r)
  BY <1>1, <1>2 DEF Replies, WordsIInv, TrueCache
<1>3. CASE Waiting(r)
  <2> DEFINE o == req[r]
             chunk == Head(o.chunks)
             sent == IF o.again # {} THEN InOrder(chunk, o.again) ELSE chunk
             good(usable) == usable \cup IF o.again # {} THEN o.good ELSE {}
             bad(usable) == {h \in Range(sent) : \A w \in usable : w.hash # h}
  <2>1. IsRun(o) /\ Honest(o) /\ o.pc = "asking"
    BY <1>3, OneOnly DEF Fits, Waiting, Is, WordsIInv
  <2>2. \E answer \in Answers : answer.to = sent /\ \E usable \in answer.usable :
          IF bad(usable) # {} /\ o.reask = 1
          THEN /\ req' = [req EXCEPT ![r].reask = 0, ![r].good = good(usable), ![r].again = bad(usable)]
               /\ child' = [child EXCEPT ![r] = Asked(@.ch)]
               /\ UNCHANGED <<mem, timer, dirty>>
          ELSE /\ KeepValid(chunk, good(usable))
               /\ child' = [child EXCEPT ![r] = None]
               /\ IF Tail(o.chunks) = <<>> THEN End(r, "done")
                  ELSE req' = [req EXCEPT ![r].pc = "turn", ![r].chunks = Tail(@), ![r].left = o.order,
                                 ![r].good = {}, ![r].again = {}]
    BY <1>3, Zenon DEF Replies
  <2> HIDE DEF bad, good
  <2>3. PICK answer \in Answers : answer.to = sent /\ \E usable \in answer.usable :
          IF bad(usable) # {} /\ o.reask = 1
          THEN /\ req' = [req EXCEPT ![r].reask = 0, ![r].good = good(usable), ![r].again = bad(usable)]
               /\ UNCHANGED mem
          ELSE /\ KeepValid(chunk, good(usable))
               /\ \/ End(r, "done")
                  \/ req' = [req EXCEPT ![r].pc = "turn", ![r].chunks = Tail(@), ![r].left = o.order,
                                 ![r].good = {}, ![r].again = {}]
    BY <2>2
  <2>4. PICK usable \in answer.usable :
          IF bad(usable) # {} /\ o.reask = 1
          THEN /\ req' = [req EXCEPT ![r].reask = 0, ![r].good = good(usable), ![r].again = bad(usable)]
               /\ UNCHANGED mem
          ELSE /\ KeepValid(chunk, good(usable))
               /\ \/ End(r, "done")
                  \/ req' = [req EXCEPT ![r].pc = "turn", ![r].chunks = Tail(@), ![r].left = o.order,
                                 ![r].good = {}, ![r].again = {}]
    BY <2>3
  <2>5. sent \in Prompts /\ usable \subseteq TrueWords
    <3>1. PICK fns \in Prompts :
            answer = [to |-> fns, usable |-> {Usable(reply, fns) : reply \in AssistantReplies(fns)}]
      BY DEF Answers
    <3>2. PICK reply \in AssistantReplies(fns) : usable = Usable(reply, fns)
      BY <3>1
    <3>3. answer.to = fns
      BY <3>1
    <3> QED BY <2>3, <3>2, <3>3, UsableIsTrue
  <2>6. good(usable) \subseteq TrueWords
    BY <2>1, <2>5 DEF good, Honest
  <2>7. chunk \in Prompts
    <3>1. CASE o.again = {}
      BY <2>5, <3>1
    <3>2. CASE o.again # {}
      BY <2>1, <3>2 DEF Honest
    <3> QED BY <3>1, <3>2
  <2>8. CASE bad(usable) # {} /\ o.reask = 1
    <3> DEFINE q == Reasked(o, good(usable), bad(usable))
    <3>1. req' = [req EXCEPT ![r] = q] /\ UNCHANGED mem
      BY <2>4, <2>8 DEF AtWork, Reasked
    <3>2. q.good = good(usable) /\ q.reask = 0 /\ q.chunks = o.chunks
      BY <2>1 DEF IsRun, RunFields, Reasked
    <3> HIDE DEF q
    <3>3. Honest(q)
      BY <2>6, <2>7, <3>2 DEF Honest
    <3>4. \A s \in Requests : Honest(req'[s])
      BY <3>1, <3>3, OneIsHonest
    <3> QED BY <1>1, <3>1, <3>4 DEF WordsIInv, TrueCache
  <2>9. CASE ~(bad(usable) # {} /\ o.reask = 1)
    <3>1. KeepValid(chunk, good(usable))
      BY <2>4, <2>9
    <3>2. chunk \in Seq(Functions)
      BY <2>7, PromptIs
    <3>3. mem \in Seq(TrueWords)
      BY DEF WordsIInv, TrueCache
    <3> HIDE DEF chunk
    <3>4. mem' \in Seq(TrueWords)
      BY <2>6, <3>1, <3>2, <3>3, KeptStays
    <3>5. \A s \in Requests : Honest(req'[s])
      <4>1. CASE End(r, "done")
        BY <4>1, OthersHonest DEF End
      <4>2. CASE req' = [req EXCEPT ![r].pc = "turn", ![r].chunks = Tail(@), ![r].left = o.order,
                                    ![r].good = {}, ![r].again = {}]
        <5> DEFINE q == NextChunk(o)
        <5>1. req' = [req EXCEPT ![r] = q]
          BY <4>2 DEF AtWork, NextChunk
        <5>2. q.good = {} /\ q.again = {}
          BY <2>1 DEF IsRun, RunFields, NextChunk
        <5> HIDE DEF q
        <5>3. Honest(q)
          BY <5>2 DEF Honest
        <5> QED BY <5>1, <5>3, OneIsHonest
      <4> QED BY <2>4, <2>9, <4>1, <4>2
    <3> QED BY <1>1, <3>4, <3>5 DEF WordsIInv, TrueCache
  <2> QED BY <2>8, <2>9
<1> QED BY <1>2, <1>3

LEMMA ChannelTrue ==
  ASSUME AtWork, WordsIInv, NEW r \in Requests,
         Spawn(r) \/ SelectsModel(r) \/ NoModel(r) \/ Refuses(r) \/ TimesOut(r) \/ Again(r) \/ Cancel(r)
  PROVE  WordsIInv'
<1>1. UNCHANGED cache
  BY DEF Spawn, SelectsModel, NoModel, Refuses, TimesOut, Again, Cancel
<1>2. NextTurn(r) \/ Running(r) \/ UNCHANGED req \/ End(r, "failed")
  BY DEF Spawn, SelectsModel, NoModel, Refuses, TimesOut, Again, Cancel
<1>3. \A s \in Requests : Honest(req'[s])
  <2>1. CASE End(r, "failed")
    BY <2>1, OthersHonest DEF End
  <2>2. CASE UNCHANGED req
    BY <2>2 DEF WordsIInv
  <2> QED BY <1>2, <2>1, <2>2, NextTurnHonest, RunningHonest
<1> QED BY <1>1, <1>3, CacheAlone DEF WordsIInv

\* The saves write what memory held; another window's file knows nothing.
LEMMA SavesTrue ==
  ASSUME WordsIInv, BeginSave \/ Renamed \/ SaveFails \/ OtherWindowSaves
  PROVE  WordsIInv'
<1>1. UNCHANGED req
  BY DEF BeginSave, Renamed, SaveFails, OtherWindowSaves, work
<1>2. CASE BeginSave
  <2>1. UNCHANGED <<mem, file>> /\ saving'.entries = mem
    BY <1>2 DEF BeginSave
  <2> QED BY <1>1, <2>1 DEF WordsIInv, TrueCache
<1>3. CASE Renamed
  <2>1. UNCHANGED mem /\ file' = saving.entries /\ saving # None /\ saving' = None
    BY <1>3 DEF Renamed
  <2> QED BY <1>1, <2>1 DEF WordsIInv, TrueCache
<1>4. CASE SaveFails
  <2>1. UNCHANGED <<mem, file>> /\ saving' = None
    BY <1>4 DEF SaveFails
  <2> QED BY <1>1, <2>1 DEF WordsIInv, TrueCache
<1>5. CASE OtherWindowSaves
  <2>1. UNCHANGED <<mem, saving>> /\ file' = <<>>
    BY <1>5 DEF OtherWindowSaves
  <2>2. file' \in Seq(TrueWords)
    BY <2>1
  <2> QED BY <1>1, <2>1, <2>2 DEF WordsIInv, TrueCache
<1> QED BY <1>2, <1>3, <1>4, <1>5

LEMMA WordsStep ==
  ASSUME AtWork, WordsIInv, [Next]_vars
  PROVE  WordsIInv'
<1>1. ASSUME NEW r \in Requests, Start(r) \/ Probed(r) \/ Turn(r) \/ Replies(r) PROVE WordsIInv'
  BY <1>1, StartTrue, ProbedTrue, TurnTrue, RepliesTrue
<1>2. ASSUME NEW r \in Requests,
             Spawn(r) \/ SelectsModel(r) \/ NoModel(r) \/ Refuses(r) \/ TimesOut(r) \/ Again(r) \/ Cancel(r)
      PROVE  WordsIInv'
  BY <1>2, ChannelTrue
<1>3. ASSUME ProbeEnds \/ Ages \/ Check \/ CheckEnds \/ SetConsent \/ ChangeSettings \/ \E c \in Callers : WaitOver(c)
      PROVE  UNCHANGED <<req, cache>>
  BY <1>3 DEF ProbeEnds, Ages, Check, CheckEnds, SetConsent, ChangeSettings, WaitOver, work
<1>4. CASE UNCHANGED <<req, cache>>
  BY <1>4, CacheAlone DEF WordsIInv
<1>5. UNCHANGED vars => UNCHANGED <<req, cache>>
  BY DEF vars, work
<1> QED BY <1>1, <1>2, <1>3, <1>4, <1>5, SavesTrue DEF Next

LEMMA InitTrue ==
  ASSUME Init
  PROVE  WordsIInv
<1>1. PICK r \in Requests : file \in {<<>>, <<Words(FunctionsOf[r][1], FunctionsOf[r][1])>>}
  BY DEF Init
<1>2. FunctionsOf[r] \in Seq(Range(FunctionsOf[r])) /\ FunctionsOf[r] # <<>>
  BY GenerationAssumption DEF GenerationAssumption
<1>3. FunctionsOf[r][1] \in Functions
  BY <1>2 DEF Functions
<1>4. Words(FunctionsOf[r][1], FunctionsOf[r][1]) \in TrueWords
  BY <1>3 DEF TrueWords
<1>5. file \in Seq(TrueWords)
  <2>1. CASE file = <<>>
    BY <2>1
  <2>2. CASE file = <<Words(FunctionsOf[r][1], FunctionsOf[r][1])>>
    <3> DEFINE w == Words(FunctionsOf[r][1], FunctionsOf[r][1])
    <3>1. w \in TrueWords /\ file = <<w>>
      BY <1>4, <2>2
    <3> HIDE DEF w
    <3> QED BY <3>1
  <2> QED BY <1>1, <2>1, <2>2
<1>6. \A s \in Requests : req[s].pc = "new"
  BY DEF Init
<1> QED BY <1>5, <1>6 DEF Init, WordsIInv, TrueCache, Honest

\* Words in the cache and in its file are about the function they are kept
\* for, for any functions, chunks and cache size, whatever part of a chunk an
\* assistant answers, in whatever order and with whatever labels it leaves out.
THEOREM WordsReachTheirFunction == Spec => []WordsFindTheirFunction
<1>1. Init => WordsIInv
  BY InitTrue
<1>2. GenerationIInv /\ WordsIInv /\ [Next]_vars => WordsIInv'
  BY WordsStep DEF GenerationIInv
<1>3. WordsIInv => WordsFindTheirFunction
  <2> SUFFICES ASSUME WordsIInv, NEW w \in Range(mem) \cup Range(file) PROVE w.about = w.hash
    BY DEF WordsFindTheirFunction
  <2>1. mem \in Seq(TrueWords) /\ file \in Seq(TrueWords)
    BY DEF WordsIInv, TrueCache
  <2>2. w \in TrueWords
    BY <2>1 DEF Range
  <2> QED BY <2>2 DEF TrueWords, Words
<1> QED BY <1>1, <1>2, <1>3, InvariantSound, PTL DEF Spec
=============================================================================
