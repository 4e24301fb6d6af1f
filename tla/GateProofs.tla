------------------------------ MODULE GateProofs ------------------------------
(***************************************************************************)
(* Proofs about the checkpoint of Gate.tla, for every set of requests,     *)
(* files, texts and tool calls: what it decides, and what it leaves behind *)
(* (the restore points, the journal and the files it writes itself).       *)
(***************************************************************************)
EXTENDS GateProperties, FiniteSetTheorems, WellFoundedInduction, TLAPS

-------------------------------------------------------------------------------
(* Contents and hunks. *)

\* What lands on a content is a content (Landed, NewHunks).
LEMMA LandedContent ==
    ASSUME NEW c \in Content, NEW hs \in SUBSET Hunk
    PROVE  Landed(c, hs) \in Content
  <1>1. CASE c = Absent
    BY <1>1 DEF Landed, Content
  <1>2. CASE c # Absent
    <2>1. c \subseteq Hunk
      BY <1>2 DEF Content
    <2> QED BY <2>1, <1>2 DEF Landed, Content
  <1> QED BY <1>1, <1>2

\* The hunks of an edit are hunks of its file.
LEMMA EditHunks ==
    ASSUME NEW w \in Write
    PROVE  /\ HunkSet(w.edit) \in SUBSET Hunk
           /\ w.path \in Paths
           /\ \A i \in DOMAIN w.edit : w.edit[i] \in Hunk /\ w.edit[i].path = w.path
           /\ DOMAIN w.edit = 1..Len(w.edit) /\ Len(w.edit) \in Nat
  <1>1. w.edit \in Seq(Hunk) /\ w.path \in Paths
    BY DEF Write
  <1>2. \A i \in DOMAIN w.edit : w.edit[i] \in Hunk
    BY <1>1
  <1> QED BY <1>1, <1>2 DEF Write, HunkSet

\* A nonempty set of positions of a sequence has a last one.
LEMMA LastPosition ==
    ASSUME NEW n \in Nat, NEW S \in SUBSET (1..n), S # {}
    PROVE  \E i \in S : \A j \in S : j <= i
  <1> DEFINE T == {n - i : i \in S}
  <1>0. \A i \in S : i \in Nat /\ n - i \in Nat
    OBVIOUS
  <1>1. T \subseteq Nat /\ T # {}
    BY <1>0
  <1>2. PICK x \in T : \A y \in T : ~ (<<y, x>> \in OpToRel(<, Nat))
    BY <1>1, NatLessThanWellFounded, WFMin
  <1>3. \A y \in T : ~ (y < x)
    BY <1>1, <1>2 DEF OpToRel
  <1>4. PICK i \in S : x = n - i
    OBVIOUS
  <1>5. \A j \in S : j <= i
    <2> TAKE j \in S
    <2>1. ~ (n - j < n - i)
      BY <1>3, <1>4
    <2> QED BY <2>1, <1>0
  <1> QED BY <1>5

\* The section of a call that hunksByPath keeps for a file it names.
LEMMA LastWriteToPath ==
    ASSUME NEW c \in Call, NEW p \in PathsOf(c)
    PROVE  LastWriteTo(c, p) \in Write /\ LastWriteTo(c, p).path = p /\ p \in Paths
  <1> DEFINE n == Len(c.writes)
             S == {i \in DOMAIN c.writes : c.writes[i].path = p}
  <1>1. c.writes \in Seq(Write) /\ n \in Nat /\ DOMAIN c.writes = 1..n
    BY DEF Call
  <1>2. S \in SUBSET (1..n) /\ S # {}
    BY <1>1 DEF PathsOf
  <1>3. \E i \in S : \A j \in S : j <= i
    BY <1>1, <1>2, LastPosition
  <1>4. \E i \in DOMAIN c.writes : /\ c.writes[i].path = p
                                   /\ \A j \in DOMAIN c.writes : c.writes[j].path = p => j <= i
    BY <1>3
  <1>5. PICK i \in DOMAIN c.writes : LastWriteTo(c, p) = c.writes[i] /\ c.writes[i].path = p
    BY <1>4 DEF LastWriteTo
  <1>6. c.writes[i] \in Write
    BY <1>1, <1>5
  <1> QED BY <1>5, <1>6 DEF Write

\* The ordinal makes the hunk ids of one file distinct (computeHunks).
LEMMA HunkIdsDistinct ==
    ASSUME NEW hs, IsFiniteSet(DOMAIN hs), DOMAIN hs \subseteq Nat,
           NEW i \in DOMAIN hs, NEW k \in DOMAIN hs,
           HunkId(hs, i) = HunkId(hs, k)
    PROVE  i = k
  <1>1. Cardinality(SameBaseUpTo(hs, i)) = Cardinality(SameBaseUpTo(hs, k))
    BY DEF HunkId
  <1>2. HunkBase(hs[i]) = HunkBase(hs[k])
    BY DEF HunkId, HunkBase
  <1>3. ASSUME NEW a \in DOMAIN hs, NEW b \in DOMAIN hs, a < b,
               HunkBase(hs[a]) = HunkBase(hs[b]),
               Cardinality(SameBaseUpTo(hs, a)) = Cardinality(SameBaseUpTo(hs, b))
        PROVE  FALSE
    <2>1. SameBaseUpTo(hs, a) \in SUBSET SameBaseUpTo(hs, b)
      BY <1>3 DEF SameBaseUpTo
    <2>2. IsFiniteSet(SameBaseUpTo(hs, b))
      BY FS_Subset DEF SameBaseUpTo
    <2>3. SameBaseUpTo(hs, b) = SameBaseUpTo(hs, a)
      BY <1>3, <2>1, <2>2, FS_Subset
    <2>4. b \in SameBaseUpTo(hs, b) /\ b \notin SameBaseUpTo(hs, a)
      BY <1>3 DEF SameBaseUpTo
    <2> QED BY <2>3, <2>4
  <1> QED BY <1>1, <1>2, <1>3

-------------------------------------------------------------------------------
(* What a request consists of, once its call is known. *)

\* The call of a handler at work and the write it is at.
LEMMA CallInCall ==
    ASSUME HandlerOK, NEW r \in Requests
    PROVE  call[r] \in Call /\ Bucket(r) \in Session
  <1>1. NoCall \in Call
    BY DEF NoCall, Call, Kind, Session
  <1>2. call[r] \in Call
    BY <1>1, CallsAssumption DEF HandlerOK
  <1> QED BY <1>2 DEF Bucket, Call

LEMMA CurrentWrite ==
    ASSUME HandlerOK, NEW r \in Requests, idx[r] \in DOMAIN Writes(r)
    PROVE  /\ TheWrite(r) \in Write
           /\ TheWrite(r).path \in Paths
           /\ TheWrite(r).path \in PathsOf(call[r])
  <1>1. Writes(r) \in Seq(Write)
    BY CallInCall DEF Call, Writes
  <1>2. TheWrite(r) \in Write
    BY <1>1 DEF TheWrite
  <1> QED BY <1>2, EditHunks DEF TheWrite, Writes, PathsOf

\* The call as the tool runs it is a call, and begins with the reviewed writes.
LEMMA TouchedWrites ==
    ASSUME HandlerOK, NEW r \in Requests
    PROVE  /\ WholeCall(r) \in Call
           /\ Touched(r) \in Seq(Write) /\ Len(Touched(r)) \in Nat
           /\ DOMAIN Touched(r) = 1..Len(Touched(r))
           /\ \A i \in DOMAIN Touched(r) : /\ Touched(r)[i] \in Write
                                           /\ Touched(r)[i].path \in Paths
           /\ \A i \in DOMAIN Touched(r) :
                 \/ i \in DOMAIN Writes(r) /\ Touched(r)[i] = Writes(r)[i]
                 \/ \E k \in DOMAIN call[r].besides : Touched(r)[i] = call[r].besides[k]
  <1> DEFINE ws == call[r].writes
             bs == call[r].besides
  <1>1. call[r] \in Call /\ ws \in Seq(Write) /\ bs \in Seq(Write)
    BY CallInCall DEF Call
  <1>2. ws \o bs \in Seq(Write) /\ Touched(r) = ws \o bs /\ WholeCall(r) \in Call
    <2>1. ws \o bs \in Seq(Write)
      <3> HIDE DEF ws, bs
      <3> QED BY <1>1
    <2>2. WholeCall(r) = [call[r] EXCEPT !.writes = ws \o bs]
      BY <1>1 DEF WholeCall, Call
    <2>3. WholeCall(r) \in Call /\ WholeCall(r).writes = ws \o bs
      <3> HIDE DEF ws, bs
      <3> QED BY <1>1, <2>1, <2>2 DEF Call
    <2> QED BY <2>1, <2>3 DEF Touched
  <1>3. \A i \in DOMAIN (ws \o bs) : \/ i \in DOMAIN ws /\ (ws \o bs)[i] = ws[i]
                                    \/ /\ i - Len(ws) \in DOMAIN bs
                                       /\ (ws \o bs)[i] = bs[i - Len(ws)]
    <2> HIDE DEF ws, bs
    <2> QED BY <1>1
  <1>4. \A i \in DOMAIN Touched(r) : Touched(r)[i] \in Write /\ Touched(r)[i].path \in Paths
    <2>1. \A w \in Write : w.path \in Paths
      BY DEF Write
    <2>2. \A s \in Seq(Write) : \A i \in DOMAIN s : s[i] \in Write
      OBVIOUS
    <2>3. Touched(r) \in Seq(Write)
      BY <1>2
    <2> QED BY <2>1, <2>2, <2>3
  <1>5. Len(Touched(r)) \in Nat /\ DOMAIN Touched(r) = 1..Len(Touched(r))
    <2>1. \A s \in Seq(Write) : Len(s) \in Nat /\ DOMAIN s = 1..Len(s)
      OBVIOUS
    <2>2. Touched(r) \in Seq(Write)
      BY <1>2
    <2> QED BY <2>1, <2>2
  <1> HIDE DEF bs
  <1>6. \A i \in DOMAIN Touched(r) : \/ i \in DOMAIN ws /\ Touched(r)[i] = ws[i]
                                    \/ \E k \in DOMAIN bs : Touched(r)[i] = bs[k]
    BY <1>2, <1>3
  <1> QED BY <1>2, <1>4, <1>5, <1>6 DEF Writes, bs

LEMMA PathsOfCall ==
    ASSUME NEW c \in Call
    PROVE  PathsOf(c) \in SUBSET Paths /\ (PathsOf(c) # {} => 1 \in DOMAIN c.writes)
  <1>1. c.writes \in Seq(Write)
    BY DEF Call
  <1>2. \A i \in DOMAIN c.writes : c.writes[i].path \in Paths
    BY <1>1 DEF Write
  <1> QED BY <1>1, <1>2 DEF PathsOf

\* The hunks the review shows for a file: hunks of that file, at positions of
\* its edit, with ids of their kind.
LEMMA HunksAtPath ==
    ASSUME HandlerOK, ContentsOK, NEW r \in Requests, NEW p \in PathsOf(call[r])
    PROVE  /\ IsFiniteSet(DOMAIN HunksAt(r, p)) /\ DOMAIN HunksAt(r, p) \subseteq Nat
           /\ \A i \in DOMAIN HunksAt(r, p) :
                 /\ HunksAt(r, p)[i] \in Hunk /\ HunksAt(r, p)[i].path = p
                 /\ HunkId(HunksAt(r, p), i) \in HunkIds
                 /\ HunkHash(HunksAt(r, p)[i]) \in Texts \X Texts
  <1> DEFINE w == LastWriteTo(call[r], p)
             hs == HunksAt(r, p)
  <1>1. w \in Write /\ w.path = p
    BY CallInCall, LastWriteToPath
  <1>2. DOMAIN hs \in SUBSET (1..Len(w.edit)) /\ Len(w.edit) \in Nat
    BY <1>1, EditHunks DEF HunksAt, NewHunks
  <1>3. \A i \in DOMAIN hs : hs[i] = w.edit[i] /\ hs[i] \in Hunk /\ hs[i].path = p
    BY <1>1, EditHunks DEF HunksAt, NewHunks
  <1>4. IsFiniteSet(DOMAIN hs) /\ DOMAIN hs \subseteq Nat
    <2> HIDE DEF hs, w
    <2>1. IsFiniteSet(1..Len(w.edit))
      BY <1>2, FS_Interval
    <2>2. IsFiniteSet(DOMAIN hs)
      BY <1>2, <2>1, FS_Subset
    <2> QED BY <1>2, <2>2
  <1>5. ASSUME NEW i \in DOMAIN hs
        PROVE  HunkId(hs, i) \in HunkIds /\ HunkHash(hs[i]) \in Texts \X Texts
    <2>1. Cardinality(SameBaseUpTo(hs, i)) \in Nat
      <3>1. IsFiniteSet(SameBaseUpTo(hs, i))
        BY <1>4, FS_Subset DEF SameBaseUpTo
      <3> QED BY <3>1, FS_CardinalityType
    <2>2. hs[i] \in Hunk
      BY <1>3
    <2> HIDE DEF hs
    <2> QED BY <2>1, <2>2 DEF HunkId, HunkIds, HunkHash, Hunk
  <1> QED BY <1>3, <1>4, <1>5

\* What each verdict leaves in the file is a content.
LEMMA WriteContents ==
    ASSUME HandlerOK, ContentsOK, NEW r \in Requests, idx[r] \in DOMAIN Writes(r)
    PROVE  /\ After(r, TheWrite(r)) \in Content
           /\ Reconstruct(r, TheWrite(r)) \in Content
           /\ Absent \in Content
  <1> DEFINE w == TheWrite(r)
  <1>1. w \in Write /\ w.path \in Paths
    BY CurrentWrite
  <1>2. before[r][w.path] \in Content
    BY <1>1 DEF ContentsOK
  <1>3. Edited(r, w) \in Content
    BY <1>1, <1>2, EditHunks, LandedContent DEF Edited
  <1>4. Edited(r, w) \ RejectedHunks(r) \in Content
    BY <1>3 DEF Content, Absent
  <1> QED BY <1>3, <1>4 DEF After, Reconstruct, Content

-------------------------------------------------------------------------------
(* What the steps leave alone. *)

USE DEF counters, handler, safety, world, switch, memVars

\* A handler at work changes neither its call nor what it read, nor the switch.
LEMMA HandlerFrame ==
    ASSUME NEW r \in Requests, Handler(r)
    PROVE  /\ UNCHANGED <<call, before, switch, tool, edits>>
           /\ pc[r] \notin {"idle", "done"}
  <1>1. CASE Triage(r)
    BY <1>1 DEF Triage, TriageNothing, TriageCovered, TriageCap, TriageReview, Mapped
  <1>2. CASE Propose(r)
    BY <1>2 DEF Propose
  <1>3. CASE Resolve(r)
    BY <1>3 DEF Resolve, AfterShutdown, PresenterFails, Decide, Resolved
  <1>4. CASE Commit(r)
    <2>1. CASE SaveRestorePoint(r)
      BY <2>1 DEF SaveRestorePoint
    <2>2. CASE RestorePointFails(r)
      BY <2>2 DEF RestorePointFails
    <2>3. CASE CommitWrite(r)
      BY <2>3 DEF CommitWrite
    <2> QED BY <1>4, <2>1, <2>2, <2>3 DEF Commit
  <1>5. CASE CommitPartial(r)
    <2>1. ASSUME NEW where \in {"checking", "landing"}, PartialStep(r, where)
          PROVE  /\ UNCHANGED <<call, before, switch, tool, edits>>
                 /\ pc[r] \notin {"idle", "done"}
      BY <2>1 DEF PartialStep
    <2>2. PartialStep(r, "checking") \/ PartialStep(r, "landing")
      BY <1>5 DEF CommitPartial, PartialSkip, PartialCheck, PartialUnsafe, PartialLand,
                  PartialFinish
    <2> QED BY <2>1, <2>2
  <1> QED BY <1>1, <1>2, <1>3, <1>4, <1>5 DEF Handler

LEMMA SwitchStep ==
    ASSUME SwitchOK, [Next]_vars
    PROVE  SwitchOK'
  <1> USE BoundsAssumption DEF SwitchOK
  <1>1. ASSUME NEW r \in Requests, Route(r) PROVE SwitchOK'
    BY <1>1 DEF Route, RoutePaused, RoutePolicy, RouteTwin, RouteCode, Arrives
  <1>2. ASSUME NEW r \in Requests, Handler(r) PROVE SwitchOK'
    BY <1>2, HandlerFrame
  <1>3. ASSUME NEW r \in Requests, AgentRuns(r) PROVE SwitchOK'
    BY <1>3 DEF AgentRuns
  <1>4. ASSUME NEW r \in Requests, Post(r) PROVE SwitchOK'
    BY <1>4 DEF Post, PostArrives, HandlePost
  <1>5. ASSUME NEW p \in Paths, FallbackTimer(p) \/ RenderTwin(p) PROVE SwitchOK'
    BY <1>5 DEF FallbackTimer, RenderTwin
  <1>6. CASE SetPaused
    BY <1>6 DEF SetPaused
  <1>7. CASE Dispose
    BY <1>7 DEF Dispose
  <1>8. CASE Forget
    BY <1>8 DEF Forget
  <1>9. CASE ForeignEdit
    BY <1>9 DEF ForeignEdit
  <1>10. CASE UNCHANGED vars
    BY <1>10 DEF vars
  <1> QED BY <1>1, <1>2, <1>3, <1>4, <1>5, <1>6, <1>7, <1>8, <1>9, <1>10 DEF Next

\* The decision a review returns.
LEMMA DecisionsAreDecisions ==
    ASSUME HandlerOK, ContentsOK, NEW r \in Requests, NEW d \in Decisions(r)
    PROVE  d \in Decision
  <1>1. PICK ch \in SUBSET AllHunks(r), sc \in Scope : d = DecisionOf(r, ch, sc)
    BY DEF Decisions
  <1>2. AllHunks(r) \subseteq Hunk
    BY HunksAtPath DEF AllHunks, HunkSet
  <1>3. AcceptedIds(r, ch) \subseteq HunkIds
    BY HunksAtPath DEF AcceptedIds
  <1> QED BY <1>1, <1>2, <1>3 DEF DecisionOf, Decision, Verdict

LEMMA HandlerStep ==
    ASSUME SwitchOK, HandlerOK, ContentsOK, IndexOK, [Next]_vars
    PROVE  HandlerOK'
  <1> USE DEF HandlerOK, Goto, Reply, PC, Answer, Tool
  <1>1. ASSUME NEW r \in Requests, Route(r) PROVE HandlerOK'
    BY <1>1 DEF Route, RoutePaused, RoutePolicy, RouteTwin, RouteCode, Arrives
  <1>2. ASSUME NEW r \in Requests, Triage(r) PROVE HandlerOK'
    <2>1. AutoAccept \in Decision
      BY DEF AutoAccept, Decision, Verdict, Scope
    <2> QED BY <1>2, <2>1 DEF SwitchOK, Triage, TriageNothing, TriageCovered, TriageCap, TriageReview, Mapped
  <1>3. ASSUME NEW r \in Requests, Propose(r) PROVE HandlerOK'
    BY <1>3 DEF Propose
  <1>4. ASSUME NEW r \in Requests, Resolve(r) PROVE HandlerOK'
    <2>1. CASE AfterShutdown(r) \/ PresenterFails(r)
      BY <2>1 DEF AfterShutdown, PresenterFails, Resolved
    <2>2. ASSUME NEW d \in Decisions(r), Decide(r, d) PROVE HandlerOK'
      <3>1. d \in Decision
        BY DecisionsAreDecisions
      <3> QED BY <2>2, <3>1 DEF SwitchOK, Decide, Resolved
    <2> QED BY <1>4, <2>1, <2>2 DEF Resolve
  <1>5. ASSUME NEW r \in Requests, Commit(r) PROVE HandlerOK'
    <2>1. CASE SaveRestorePoint(r)
      BY <2>1 DEF SaveRestorePoint
    <2>2. CASE RestorePointFails(r)
      BY <2>2 DEF RestorePointFails
    <2>3. CASE CommitWrite(r)
      BY <2>3 DEF CommitWrite
    <2> QED BY <1>5, <2>1, <2>2, <2>3 DEF Commit
  <1>6. ASSUME NEW r \in Requests, CommitPartial(r) PROVE HandlerOK'
    <2> USE DEF PartialStep, NextPartial
    <2>1. CASE PartialSkip(r)
      BY <2>1 DEF PartialSkip
    <2>2. CASE PartialCheck(r)
      BY <2>2 DEF PartialCheck
    <2>3. CASE PartialUnsafe(r)
      BY <2>3 DEF PartialUnsafe
    <2>4. CASE PartialLand(r)
      BY <2>4 DEF PartialLand
    <2>5. CASE PartialFinish(r)
      BY <2>5 DEF PartialFinish
    <2> QED BY <1>6, <2>1, <2>2, <2>3, <2>4, <2>5 DEF CommitPartial
  <1>7. ASSUME NEW r \in Requests, AgentRuns(r) PROVE HandlerOK'
    BY <1>7 DEF AgentRuns
  <1>8. ASSUME NEW r \in Requests, Post(r) PROVE HandlerOK'
    <2>1. CASE PostArrives(r)
      BY <2>1 DEF PostArrives
    <2>2. CASE HandlePost(r)
      <3>1. idx' = idx \/ idx' = [idx EXCEPT ![r] = @ + 1]
        BY <2>2 DEF HandlePost
      <3>2. tool' = tool \/ tool' = [tool EXCEPT ![r] = "reported"]
        BY <2>2 DEF HandlePost
      <3> QED BY <2>2, <3>1, <3>2 DEF HandlePost
    <2> QED BY <1>8, <2>1, <2>2 DEF Post
  <1>9. ASSUME NEW p \in Paths, FallbackTimer(p) \/ RenderTwin(p) PROVE HandlerOK'
    BY <1>9 DEF FallbackTimer, RenderTwin
  <1>10. CASE SetPaused \/ Dispose \/ Forget \/ ForeignEdit
    BY <1>10 DEF SetPaused, Dispose, Forget, ForeignEdit
  <1>11. CASE UNCHANGED vars
    BY <1>11 DEF vars
  <1> QED BY <1>1, <1>2, <1>3, <1>4, <1>5, <1>6, <1>7, <1>8, <1>9, <1>10, <1>11
          DEF Next, Handler

LEMMA LandingExpected ==
    ASSUME ContentsOK, NEW p \in Paths, NEW c \in Content, NEW r \in Requests, NEW tw \in BOOLEAN
    PROVE  ExpectLanding(expected, p, c, r, tw) \in [Paths -> Expectation \cup {NotExpected}]
  BY DEF ContentsOK, ExpectLanding, Expectation

LEMMA ContentsStep ==
    ASSUME HandlerOK, ContentsOK, IndexOK, [Next]_vars
    PROVE  ContentsOK'
  <1> USE DEF ContentsOK
  <1>0. {} \in Content /\ Absent \in Content
    BY DEF Content
  <1>1. ASSUME NEW r \in Requests, NEW c \in Calls,
               RoutePaused(r, c) \/ RoutePolicy(r, c) \/ RouteCode(r, c)
        PROVE  ContentsOK'
    <2>1. CASE RoutePaused(r, c)
      BY <2>1 DEF RoutePaused, Arrives
    <2>2. CASE RoutePolicy(r, c)
      BY <2>2 DEF RoutePolicy, Arrives
    <2>3. CASE RouteCode(r, c)
      <3>1. [p \in Paths |-> IF p \in PathsOf(c) THEN disk[p] ELSE Absent] \in [Paths -> Content]
        BY <1>0
      <3> QED BY <2>3, <3>1 DEF RouteCode, Arrives
    <2> QED BY <1>1, <2>1, <2>2, <2>3
  <1>2. ASSUME NEW r \in Requests, NEW c \in Calls, RouteTwin(r, c) PROVE ContentsOK'
    <2>1. \A p \in PathsOf(c) : HunkSet(LastWriteTo(c, p).edit) \in Content
      <3> TAKE p \in PathsOf(c)
      <3>1. LastWriteTo(c, p) \in Write
        BY CallsAssumption, LastWriteToPath
      <3> QED BY <3>1, EditHunks DEF Content
    <2>2. expected' \in [Paths -> Expectation \cup {NotExpected}]
      BY <1>2, <2>1 DEF RouteTwin, Expectation
    <2> QED BY <1>2, <2>2 DEF RouteTwin, Arrives
  <1>3. ASSUME NEW r \in Requests, Triage(r) \/ Propose(r) PROVE ContentsOK'
    BY <1>3 DEF Triage, TriageNothing, TriageCovered, TriageCap, TriageReview, Mapped, Propose
  <1>4. ASSUME NEW r \in Requests, Resolve(r) PROVE ContentsOK'
    BY <1>4 DEF Resolve, AfterShutdown, PresenterFails, Decide, Resolved
  <1>5. ASSUME NEW r \in Requests, Commit(r) PROVE ContentsOK'
    <2>1. CASE SaveRestorePoint(r)
      BY <2>1 DEF SaveRestorePoint
    <2>2. CASE RestorePointFails(r)
      BY <2>2 DEF RestorePointFails
    <2>3. CASE CommitWrite(r)
      <3>1. idx[r] \in DOMAIN Writes(r)
        BY <2>3 DEF CommitWrite, IndexOK
      <3>2. expected' \in [Paths -> Expectation \cup {NotExpected}]
        BY <2>3, <3>1, CurrentWrite, WriteContents, LandingExpected DEF CommitWrite
      <3> QED BY <2>3, <3>2 DEF CommitWrite
    <2> QED BY <1>5, <2>1, <2>2, <2>3 DEF Commit
  <1>6. ASSUME NEW r \in Requests, CommitPartial(r) PROVE ContentsOK'
    <2> USE DEF PartialStep
    <2>1. CASE PartialSkip(r) \/ PartialCheck(r) \/ PartialUnsafe(r) \/ PartialFinish(r)
      BY <2>1 DEF PartialSkip, PartialCheck, PartialUnsafe, PartialFinish
    <2>2. CASE PartialLand(r)
      <3>1. idx[r] \in DOMAIN Writes(r)
        BY <2>2 DEF PartialLand, IndexOK
      <3>2. /\ TheWrite(r).path \in Paths
            /\ Absent \in Content /\ Reconstruct(r, TheWrite(r)) \in Content
        BY <3>1, CurrentWrite, WriteContents
      <3>3. disk' \in [Paths -> Content]
        BY <2>2, <3>2 DEF PartialLand
      <3>4. renders' \subseteq TwinPaths
        BY <2>2 DEF PartialLand, UpdateTwin
      <3> QED BY <2>2, <3>3, <3>4 DEF PartialLand
    <2> QED BY <1>6, <2>1, <2>2 DEF CommitPartial
  <1>7. ASSUME NEW r \in Requests, AgentRuns(r) PROVE ContentsOK'
    <2>1. \A i \in DOMAIN Touched(r) : HunkSet(Touched(r)[i].edit) \in SUBSET Hunk
      BY TouchedWrites, EditHunks
    <2>2. \A p \in Paths : EditsTo(r, p) \in SUBSET Hunk
      BY <2>1 DEF EditsTo
    <2>3. \A p \in Paths : Landed(disk[p], EditsTo(r, p)) \in Content
      BY <2>2, LandedContent
    <2>4. disk' \in [Paths -> Content]
      BY <1>0, <1>7, <2>3 DEF AgentRuns
    <2> QED BY <1>7, <2>4 DEF AgentRuns
  <1>8. ASSUME NEW r \in Requests, Post(r) PROVE ContentsOK'
    BY <1>8 DEF Post, PostArrives, HandlePost, OnLanded, UpdateTwin, Settled
  <1>9. ASSUME NEW p \in Paths, FallbackTimer(p) \/ RenderTwin(p) PROVE ContentsOK'
    BY <1>0, <1>9 DEF FallbackTimer, RenderTwin, OnLanded, UpdateTwin, Settled
  <1>10. CASE SetPaused \/ Dispose \/ Forget
    BY <1>10 DEF SetPaused, Dispose, Forget
  <1>11. CASE ForeignEdit
    <2>1. PICK h \in ForeignHunks : disk' = [disk EXCEPT ![h.path] = Landed(@, {h})]
      BY <1>11 DEF ForeignEdit
    <2>2. h \in Hunk /\ h.path \in Paths
      BY FilesAssumption DEF Hunk
    <2>3. Landed(disk[h.path], {h}) \in Content
      BY <2>2, LandedContent
    <2> QED BY <1>11, <2>1, <2>2, <2>3 DEF ForeignEdit
  <1>12. CASE UNCHANGED vars
    BY <1>12 DEF vars
  <1> QED BY <1>1, <1>2, <1>3, <1>4, <1>5, <1>6, <1>7, <1>8, <1>9, <1>10, <1>11, <1>12
          DEF Next, Handler, Route

\* What a decision teaches are keys of the hunks its request shows.
LEMMA RememberMemory ==
    ASSUME HandlerOK, ContentsOK, MemoryOK, NEW r \in Requests, NEW d,
           Remember(d, Bucket(r), HunksByPath(r))
    PROVE  MemoryOK'
  <1> DEFINE s == Bucket(r)
             hs == HunksByPath(r)
             keys == AcceptedKeys(d, s, hs)
  <1> USE DEF MemoryOK
  <1>1. CASE ~Teaches(d, s)
    BY <1>1 DEF Remember
  <1>2. CASE Teaches(d, s)
    <2>1. s \in Sessions
      BY <1>2, CallInCall DEF Teaches, Session
    <2>2. DOMAIN hs = PathsOf(call[r]) /\ DOMAIN hs \subseteq Paths
      BY CallInCall, PathsOfCall DEF HunksByPath
    <2>3. ASSUME NEW p \in DOMAIN hs, NEW i \in DOMAIN hs[p]
          PROVE  <<s, p, HunkHash(hs[p][i])>> \in MemKeys /\ <<s, p, HunkId(hs[p], i)>> \in MemKeys
      <3>1. hs[p] = HunksAt(r, p)
        BY <2>2 DEF HunksByPath
      <3>2. HunkId(hs[p], i) \in HunkIds /\ HunkHash(hs[p][i]) \in Texts \X Texts
        BY <2>2, <2>3, <3>1, HunksAtPath
      <3> QED BY <2>1, <2>2, <3>2 DEF MemKeys
    <2>4. keys \subseteq MemKeys
      <3> HIDE DEF hs, s
      <3> SUFFICES ASSUME NEW key \in keys PROVE key \in MemKeys
        OBVIOUS
      <3>1. PICK p \in DOMAIN hs :
               key \in UNION {{<<s, p, HunkHash(hs[p][i])>>, <<s, p, HunkId(hs[p], i)>>} :
                                i \in {j \in DOMAIN hs[p] :
                                          d.verdict # "partial" \/ HunkId(hs[p], j) \in d.accepted}}
        BY DEF AcceptedKeys
      <3>2. PICK i \in DOMAIN hs[p] :
               key \in {<<s, p, HunkHash(hs[p][i])>>, <<s, p, HunkId(hs[p], i)>>}
        BY <3>1
      <3> QED BY <2>3, <3>2
    <2>5. memHunks' \subseteq memHunks \cup keys
      BY <1>2 DEF Remember, Capped
    <2>6. memFiles' \subseteq Sessions \X Paths /\ memSessions' \subseteq Sessions
      BY <1>2, <2>1, <2>2 DEF Remember
    <2> QED BY <2>4, <2>5, <2>6
  <1> QED BY <1>1, <1>2

\* What a step does to the memory: it forgets, or it teaches what the commit in
\* progress or the decision just made says.
Teaching(r, d) ==
    /\ Remember(d, Bucket(r), HunksByPath(r))
    /\ UNCHANGED call
    /\ \/ pc[r] \in {"committing", "checking"} /\ d = dec[r] /\ UNCHANGED dec
       \/ d \in Decisions(r) /\ Decide(r, d)
LEMMA MemoryFrame ==
    ASSUME [Next]_vars
    PROVE  \/ /\ memSessions' \subseteq memSessions
              /\ memFiles' \subseteq memFiles
              /\ memHunks' \subseteq memHunks
           \/ \E r \in Requests : \E d : Teaching(r, d)
  <1>1. ASSUME NEW r \in Requests, Route(r) PROVE UNCHANGED memVars
    BY <1>1 DEF Route, RoutePaused, RoutePolicy, RouteTwin, RouteCode, Arrives
  <1>2. ASSUME NEW r \in Requests, Triage(r) \/ Propose(r) PROVE UNCHANGED memVars
    BY <1>2 DEF Triage, TriageNothing, TriageCovered, TriageCap, TriageReview, Mapped, Propose
  <1>3. ASSUME NEW r \in Requests, Resolve(r)
        PROVE  UNCHANGED memVars \/ \E d : Teaching(r, d)
    <2>1. CASE AfterShutdown(r) \/ PresenterFails(r)
      BY <2>1 DEF AfterShutdown, PresenterFails
    <2>2. ASSUME NEW d \in Decisions(r), Decide(r, d)
          PROVE  UNCHANGED memVars \/ Teaching(r, d)
      <3>1. CASE NormalizeVerdict(d, r) = "accept" \/ NormalizeVerdict(d, r) = "partial"
        BY <2>2, <3>1 DEF Decide
      <3>2. CASE NormalizeVerdict(d, r) # "accept" /\ NormalizeVerdict(d, r) # "partial"
        BY <2>2, <3>2 DEF Decide, Resolved, Teaching
      <3> QED BY <3>1, <3>2
    <2> QED BY <1>3, <2>1, <2>2 DEF Resolve
  <1>4. ASSUME NEW r \in Requests, Commit(r)
        PROVE  UNCHANGED memVars \/ \E d : Teaching(r, d)
    <2>1. CASE SaveRestorePoint(r) \/ RestorePointFails(r)
      BY <2>1 DEF SaveRestorePoint, RestorePointFails
    <2>2. CASE CommitWrite(r)
      <3>1. CASE LastWrite(r)
        <4>1. Teaching(r, dec[r])
          BY <2>2, <3>1 DEF CommitWrite, Teaching
        <4> QED BY <4>1
      <3>2. CASE ~LastWrite(r)
        BY <2>2, <3>2 DEF CommitWrite
      <3> QED BY <3>1, <3>2
    <2> QED BY <1>4, <2>1, <2>2 DEF Commit
  <1>5. ASSUME NEW r \in Requests, CommitPartial(r)
        PROVE  UNCHANGED memVars \/ \E d : Teaching(r, d)
    <2>1. CASE PartialSkip(r) \/ PartialCheck(r) \/ PartialUnsafe(r) \/ PartialLand(r)
      BY <2>1 DEF PartialSkip, PartialCheck, PartialUnsafe, PartialLand
    <2>2. CASE PartialFinish(r)
      <3>1. Teaching(r, dec[r])
        BY <2>2 DEF PartialFinish, PartialStep, Teaching
      <3> QED BY <3>1
    <2> QED BY <1>5, <2>1, <2>2 DEF CommitPartial
  <1>6. ASSUME NEW r \in Requests, AgentRuns(r) \/ Post(r) PROVE UNCHANGED memVars
    BY <1>6 DEF AgentRuns, Post, PostArrives, HandlePost
  <1>7. ASSUME NEW p \in Paths, FallbackTimer(p) \/ RenderTwin(p) PROVE UNCHANGED memVars
    BY <1>7 DEF FallbackTimer, RenderTwin
  <1>8. ASSUME SetPaused \/ Dispose \/ Forget \/ ForeignEdit \/ UNCHANGED vars
        PROVE  /\ memSessions' \subseteq memSessions
               /\ memFiles' \subseteq memFiles
               /\ memHunks' \subseteq memHunks
    BY <1>8 DEF SetPaused, ClearAll, Dispose, Forget, Expire, ForeignEdit, vars
  <1> QED BY <1>1, <1>2, <1>3, <1>4, <1>5, <1>6, <1>7, <1>8 DEF Next, Handler

LEMMA MemoryStep ==
    ASSUME HandlerOK, ContentsOK, MemoryOK, [Next]_vars
    PROVE  MemoryOK'
  <1>1. CASE \E r \in Requests : \E d : Teaching(r, d)
    BY <1>1, RememberMemory DEF Teaching
  <1>2. CASE /\ memSessions' \subseteq memSessions
             /\ memFiles' \subseteq memFiles
             /\ memHunks' \subseteq memHunks
    BY <1>2 DEF MemoryOK
  <1> QED BY <1>1, <1>2, MemoryFrame

LEMMA IndexStep ==
    ASSUME HandlerOK, ContentsOK, IndexOK, ProgressOK, [Next]_vars
    PROVE  IndexOK'
  <1> USE DEF IndexOK, Goto, Reply, Writes, PC, Tool, Answer
  <1>a. \A q \in Requests : call'[q] = call[q] => Touched(q)' = Touched(q)
    BY DEF Touched, WholeCall
  <1>0. \A q \in Requests : Len(Writes(q)) \in Nat /\ DOMAIN Writes(q) = 1..Len(Writes(q))
    <2> TAKE q \in Requests
    <2>1. call[q].writes \in Seq(Write)
      BY <1>a, CallInCall DEF Call
    <2> QED BY <2>1
  <1>1. ASSUME NEW r \in Requests, Route(r) PROVE IndexOK'
    BY <1>a, <1>1 DEF HandlerOK, Route, RoutePaused, RoutePolicy, RouteTwin, RouteCode, Arrives
  <1>2. ASSUME NEW r \in Requests, Triage(r) PROVE IndexOK'
    <2>1. AllHunks(r) # {} => 1 \in DOMAIN Writes(r)
      BY CallInCall, PathsOfCall DEF AllHunks
    <2> QED BY <1>a, <1>2, <2>1 DEF HandlerOK, Triage, TriageNothing, TriageCovered, TriageCap,
                              TriageReview, Mapped
  <1>3. ASSUME NEW r \in Requests, Propose(r) PROVE IndexOK'
    BY <1>a, <1>3 DEF HandlerOK, Propose
  <1>4. ASSUME NEW r \in Requests, Resolve(r) PROVE IndexOK'
    <2>1. AllHunks(r) # {} => 1 \in DOMAIN Writes(r)
      BY CallInCall, PathsOfCall DEF AllHunks
    <2>2. CASE AfterShutdown(r) \/ PresenterFails(r)
      BY <1>a, <2>2 DEF HandlerOK, AfterShutdown, PresenterFails, Resolved
    <2>3. ASSUME NEW d \in Decisions(r), Decide(r, d) PROVE IndexOK'
      <3>1. AllHunks(r) # {}
        BY <1>a, <2>3 DEF ProgressOK, Progress, Decide, Resolved
      <3> QED BY <1>a, <2>1, <2>3, <3>1 DEF HandlerOK, Decide, Resolved
    <2> QED BY <1>4, <2>2, <2>3 DEF Resolve
  <1>5. ASSUME NEW r \in Requests, Commit(r) PROVE IndexOK'
    <2>1. CASE SaveRestorePoint(r)
      BY <1>a, <2>1 DEF HandlerOK, SaveRestorePoint
    <2>2. CASE RestorePointFails(r)
      BY <1>a, <2>2 DEF HandlerOK, RestorePointFails
    <2>3. CASE CommitWrite(r)
      BY <1>a, <1>0, <2>3 DEF HandlerOK, CommitWrite, LastWrite
    <2> QED BY <1>5, <2>1, <2>2, <2>3 DEF Commit
  <1>6. ASSUME NEW r \in Requests, CommitPartial(r) PROVE IndexOK'
    <2> USE DEF HandlerOK, PartialStep, NextPartial
    <2>1. CASE PartialSkip(r)
      BY <1>a, <2>1 DEF PartialSkip
    <2>2. CASE PartialCheck(r)
      BY <1>a, <1>0, <2>2 DEF PartialCheck
    <2>3. CASE PartialUnsafe(r)
      BY <1>a, <2>3 DEF PartialUnsafe
    <2>4. CASE PartialLand(r)
      BY <1>a, <2>4 DEF PartialLand
    <2>5. CASE PartialFinish(r)
      BY <1>a, <2>5 DEF PartialFinish
    <2> QED BY <1>6, <2>1, <2>2, <2>3, <2>4, <2>5 DEF CommitPartial
  <1>7. ASSUME NEW r \in Requests, AgentRuns(r) PROVE IndexOK'
    <2>1. 1 \in DOMAIN Touched(r)
      <3>1. Touched(r) \in Seq(Write) /\ Touched(r) # <<>>
        BY <1>7, TouchedWrites DEF AgentRuns
      <3> HIDE DEF Writes
      <3> QED BY <3>1
    <2> QED BY <1>a, <1>7, <2>1 DEF HandlerOK, AgentRuns
  <1>8. ASSUME NEW r \in Requests, Post(r) PROVE IndexOK'
    <2>1. CASE PostArrives(r)
      BY <1>a, <1>8, <2>1 DEF HandlerOK, PostArrives
    <2>2. CASE HandlePost(r)
      <3>1. idx[r] \in DOMAIN Touched(r) /\ DOMAIN Touched(r) = 1..Len(Touched(r))
             /\ Len(Touched(r)) \in Nat
        BY <2>2, TouchedWrites DEF HandlePost
      <3>2. \/ idx' = idx /\ tool' = [tool EXCEPT ![r] = "reported"]
            \/ /\ idx[r] # Len(Touched(r)) /\ tool' = tool
               /\ idx' = [idx EXCEPT ![r] = @ + 1]
        BY <2>2 DEF HandlePost
      <3>3. UNCHANGED <<call, pc>> /\ pc[r] = "done"
        BY <2>2 DEF HandlePost
      <3> QED BY <1>a, <3>1, <3>2, <3>3 DEF HandlerOK
    <2> QED BY <1>8, <2>1, <2>2 DEF Post
  <1>9. ASSUME NEW p \in Paths, FallbackTimer(p) \/ RenderTwin(p) PROVE IndexOK'
    BY <1>a, <1>9 DEF FallbackTimer, RenderTwin
  <1>10. CASE SetPaused \/ Dispose \/ Forget \/ ForeignEdit
    BY <1>a, <1>10 DEF SetPaused, Dispose, Forget, ForeignEdit
  <1>11. CASE UNCHANGED vars
    BY <1>a, <1>11 DEF vars
  <1> QED BY <1>1, <1>2, <1>3, <1>4, <1>5, <1>6, <1>7, <1>8, <1>9, <1>10, <1>11
          DEF Next, Handler

-------------------------------------------------------------------------------
(* The reviews that wait and the counters of the cap. *)

WaitingIn(b) == {r \in Requests : Waiting(r) /\ Bucket(r) = b}
AllWaiting == {r \in Requests : Waiting(r)}

SameWaiting ==
    /\ UNCHANGED counters
    /\ \A q \in Requests : /\ Waiting(q)' <=> Waiting(q)
                           /\ Waiting(q) => call'[q] = call[q]
StartsWaiting(r) ==
    /\ pc[r] = "mapping"
    /\ ~AtCap(r)
    /\ TakeSlot(Bucket(r))
    /\ UNCHANGED call
    /\ Goto(r, "proposing")
StopsWaiting(r) ==
    /\ pc[r] = "waiting"
    /\ ReleaseSlot(Bucket(r))
    /\ UNCHANGED call
    /\ \E to \in {"done", "saving", "checking"} : Goto(r, to)

\* Only the two ends of a review move the set of waiting reviews.
LEMMA WaitingFrame ==
    ASSUME HandlerOK, [Next]_vars
    PROVE  \/ SameWaiting
           \/ \E r \in Requests : StartsWaiting(r) \/ StopsWaiting(r)
  <1> USE DEF Goto, Reply, HandlerOK
  <1>1. ASSUME NEW r \in Requests, Route(r) PROVE SameWaiting
    BY <1>1 DEF Route, RoutePaused, RoutePolicy, RouteTwin, RouteCode, Arrives,
                SameWaiting, Waiting
  <1>2. ASSUME NEW r \in Requests, Triage(r) PROVE SameWaiting \/ StartsWaiting(r)
    <2>1. CASE TriageNothing(r) \/ TriageCovered(r) \/ TriageCap(r)
      BY <2>1 DEF TriageNothing, TriageCovered, TriageCap, Mapped, SameWaiting, Waiting
    <2>2. CASE TriageReview(r)
      BY <2>2 DEF TriageReview, Mapped, StartsWaiting
    <2> QED BY <1>2, <2>1, <2>2 DEF Triage
  <1>3. ASSUME NEW r \in Requests, Propose(r) PROVE SameWaiting
    BY <1>3 DEF Propose, SameWaiting, Waiting
  <1>4. ASSUME NEW r \in Requests, Resolve(r) PROVE StopsWaiting(r)
    <2>1. CASE AfterShutdown(r) \/ PresenterFails(r)
      BY <2>1 DEF AfterShutdown, PresenterFails, Resolved, StopsWaiting
    <2>2. ASSUME NEW d \in Decisions(r), Decide(r, d) PROVE StopsWaiting(r)
      BY <2>2 DEF Decide, Resolved, StopsWaiting
    <2> QED BY <1>4, <2>1, <2>2 DEF Resolve
  <1>5. ASSUME NEW r \in Requests, Commit(r) PROVE SameWaiting
    <2>1. CASE SaveRestorePoint(r)
      BY <2>1 DEF SaveRestorePoint, SameWaiting, Waiting
    <2>2. CASE RestorePointFails(r)
      BY <2>2 DEF RestorePointFails, SameWaiting, Waiting
    <2>3. CASE CommitWrite(r)
      BY <2>3 DEF CommitWrite, SameWaiting, Waiting
    <2> QED BY <1>5, <2>1, <2>2, <2>3 DEF Commit
  <1>6. ASSUME NEW r \in Requests, CommitPartial(r) PROVE SameWaiting
    <2> USE DEF PartialStep, NextPartial, SameWaiting, Waiting
    <2>1. CASE PartialSkip(r)
      BY <2>1 DEF PartialSkip
    <2>2. CASE PartialCheck(r)
      BY <2>2 DEF PartialCheck
    <2>3. CASE PartialUnsafe(r)
      BY <2>3 DEF PartialUnsafe
    <2>4. CASE PartialLand(r)
      BY <2>4 DEF PartialLand
    <2>5. CASE PartialFinish(r)
      BY <2>5 DEF PartialFinish
    <2> QED BY <1>6, <2>1, <2>2, <2>3, <2>4, <2>5 DEF CommitPartial
  <1>7. ASSUME NEW r \in Requests, AgentRuns(r) \/ Post(r) PROVE SameWaiting
    BY <1>7 DEF AgentRuns, Post, PostArrives, HandlePost, SameWaiting, Waiting
  <1>8. ASSUME NEW p \in Paths, FallbackTimer(p) \/ RenderTwin(p) PROVE SameWaiting
    BY <1>8 DEF FallbackTimer, RenderTwin, SameWaiting, Waiting
  <1>9. CASE SetPaused \/ Dispose \/ Forget \/ ForeignEdit \/ UNCHANGED vars
    BY <1>9 DEF SetPaused, Dispose, Forget, ForeignEdit, vars, SameWaiting, Waiting
  <1> QED BY <1>1, <1>2, <1>3, <1>4, <1>5, <1>6, <1>7, <1>8, <1>9 DEF Next, Handler

LEMMA WaitingFinite ==
    /\ IsFiniteSet(AllWaiting) /\ Cardinality(AllWaiting) \in Nat
    /\ \A b \in Session : IsFiniteSet(WaitingIn(b)) /\ Cardinality(WaitingIn(b)) \in Nat
  <1>1. AllWaiting \in SUBSET Requests /\ \A b \in Session : WaitingIn(b) \in SUBSET Requests
    BY DEF AllWaiting, WaitingIn
  <1> QED BY <1>1, BoundsAssumption, FS_Subset, FS_CardinalityType

LEMMA PendingStep ==
    ASSUME HandlerOK, CountersOK, PendingMatchesReviews, [Next]_vars
    PROVE  CountersOK' /\ PendingMatchesReviews'
  <1> USE DEF CountersOK, Bucket
  <1>0. /\ pendingHuman = Cardinality(AllWaiting)
        /\ \A b \in Session : /\ pendingBySession[b] = Cardinality(WaitingIn(b))
                              /\ pendingBySession[b] <= MaxPending
    BY DEF PendingMatchesReviews, AllWaiting, WaitingIn
  <1>1. SUFFICES /\ CountersOK'
                 /\ pendingHuman' = Cardinality(AllWaiting')
                 /\ \A b \in Session : /\ pendingBySession'[b] = Cardinality(WaitingIn(b)')
                                       /\ pendingBySession'[b] <= MaxPending
    BY DEF PendingMatchesReviews, AllWaiting, WaitingIn
  <1>2. CASE SameWaiting
    <2>1. AllWaiting' = AllWaiting /\ \A b \in Session : WaitingIn(b)' = WaitingIn(b)
      BY <1>2 DEF SameWaiting, AllWaiting, WaitingIn
    <2> QED BY <1>0, <1>2, <2>1 DEF SameWaiting
  <1>3. ASSUME NEW r \in Requests, StartsWaiting(r)
        PROVE  /\ CountersOK'
               /\ pendingHuman' = Cardinality(AllWaiting')
               /\ \A b \in Session : /\ pendingBySession'[b] = Cardinality(WaitingIn(b)')
                                     /\ pendingBySession'[b] <= MaxPending
    <2>1. Bucket(r) \in Session
      BY CallInCall
    <2>2. /\ r \notin AllWaiting /\ AllWaiting' = AllWaiting \cup {r}
          /\ \A b \in Session : /\ r \notin WaitingIn(b)
                                /\ WaitingIn(b)' = IF b = Bucket(r) THEN WaitingIn(b) \cup {r}
                                                   ELSE WaitingIn(b)
      BY <1>3 DEF StartsWaiting, Goto, HandlerOK, AllWaiting, WaitingIn, Waiting
    <2>3. /\ Cardinality(AllWaiting') = Cardinality(AllWaiting) + 1
          /\ \A b \in Session :
                Cardinality(WaitingIn(b)') =
                    Cardinality(WaitingIn(b)) + IF b = Bucket(r) THEN 1 ELSE 0
      <3>1. Cardinality(AllWaiting') = Cardinality(AllWaiting) + 1
        BY <2>2, WaitingFinite, FS_AddElement
      <3>2. ASSUME NEW b \in Session
            PROVE  Cardinality(WaitingIn(b)') =
                       Cardinality(WaitingIn(b)) + IF b = Bucket(r) THEN 1 ELSE 0
        <4>1. CASE b = Bucket(r)
          <5>1. r \notin WaitingIn(b) /\ WaitingIn(b)' = WaitingIn(b) \cup {r}
            BY <2>2, <4>1
          <5>2. Cardinality(WaitingIn(b) \cup {r}) = Cardinality(WaitingIn(b)) + 1
            BY <5>1, WaitingFinite, FS_AddElement
          <5> QED BY <4>1, <5>1, <5>2
        <4>2. CASE b # Bucket(r)
          BY <2>2, <4>2, WaitingFinite
        <4> QED BY <4>1, <4>2
      <3> QED BY <3>1, <3>2
    <2>4. /\ pendingHuman' = pendingHuman + 1
          /\ pendingBySession' = [pendingBySession EXCEPT ![Bucket(r)] = @ + 1]
          /\ pendingBySession[Bucket(r)] < MaxPending
      BY <1>3, <2>1, BoundsAssumption DEF StartsWaiting, TakeSlot, AtCap
    <2> QED BY <1>0, <2>1, <2>3, <2>4, BoundsAssumption
  <1>4. ASSUME NEW r \in Requests, StopsWaiting(r)
        PROVE  /\ CountersOK'
               /\ pendingHuman' = Cardinality(AllWaiting')
               /\ \A b \in Session : /\ pendingBySession'[b] = Cardinality(WaitingIn(b)')
                                     /\ pendingBySession'[b] <= MaxPending
    <2>1. Bucket(r) \in Session
      BY CallInCall
    <2>2. /\ r \in AllWaiting /\ AllWaiting' = AllWaiting \ {r}
          /\ r \in WaitingIn(Bucket(r))
          /\ \A b \in Session : WaitingIn(b)' = IF b = Bucket(r) THEN WaitingIn(b) \ {r}
                                                ELSE WaitingIn(b)
      BY <1>4 DEF StopsWaiting, Goto, HandlerOK, AllWaiting, WaitingIn, Waiting
    <2>3. /\ Cardinality(AllWaiting') = Cardinality(AllWaiting) - 1
          /\ \A b \in Session :
                Cardinality(WaitingIn(b)') =
                    Cardinality(WaitingIn(b)) - IF b = Bucket(r) THEN 1 ELSE 0
      <3>1. Cardinality(AllWaiting') = Cardinality(AllWaiting) - 1
        BY <2>2, WaitingFinite, FS_RemoveElement
      <3>2. ASSUME NEW b \in Session
            PROVE  Cardinality(WaitingIn(b)') =
                       Cardinality(WaitingIn(b)) - IF b = Bucket(r) THEN 1 ELSE 0
        <4>1. CASE b = Bucket(r)
          <5>1. r \in WaitingIn(b) /\ WaitingIn(b)' = WaitingIn(b) \ {r}
            BY <2>2, <4>1
          <5>2. Cardinality(WaitingIn(b) \ {r}) = Cardinality(WaitingIn(b)) - 1
            BY <5>1, WaitingFinite, FS_RemoveElement
          <5> QED BY <4>1, <5>1, <5>2
        <4>2. CASE b # Bucket(r)
          BY <2>2, <4>2, WaitingFinite
        <4> QED BY <4>1, <4>2
      <3> QED BY <3>1, <3>2
    <2>4. Cardinality(AllWaiting') \in Nat
          /\ \A b \in Session : Cardinality(WaitingIn(b)') \in Nat
      <3>1. IsFiniteSet(AllWaiting') /\ \A b \in Session : IsFiniteSet(WaitingIn(b)')
        BY <2>2, WaitingFinite, FS_RemoveElement
      <3> QED BY <3>1, FS_CardinalityType
    <2>5. /\ pendingHuman' = pendingHuman - 1
          /\ pendingBySession' = [pendingBySession EXCEPT ![Bucket(r)] = @ - 1]
      BY <1>4, <2>1 DEF StopsWaiting, ReleaseSlot
    <2> QED BY <1>0, <2>1, <2>3, <2>4, <2>5, BoundsAssumption
  <1> QED BY <1>2, <1>3, <1>4, WaitingFrame

-------------------------------------------------------------------------------
(* How far a handler got, and what is decided by then. *)

Same(q) ==
    /\ call'[q] = call[q]
    /\ before'[q] = before[q]
    /\ pc'[q] = pc[q]
    /\ dec'[q] = dec[q]
    /\ answer'[q] = answer[q]

LEMMA SameHunks ==
    ASSUME NEW q \in Requests, call'[q] = call[q], before'[q] = before[q]
    PROVE  AllHunks(q)' = AllHunks(q)
  BY DEF AllHunks, HunksAt

LEMMA SameProgress ==
    ASSUME NEW q \in Requests, Same(q), Progress(q)
    PROVE  Progress(q)'
  <1>1. AllHunks(q)' = AllHunks(q)
    BY SameHunks DEF Same
  <1> QED BY <1>1 DEF Same, Progress, Entitled, HumanAccepted

\* A step is at most one request's.
LEMMA OneHandler ==
    ASSUME HandlerOK, ContentsOK, [Next]_vars
    PROVE  \/ \A q \in Requests : Same(q)
           \/ \E r \in Requests : /\ Route(r) \/ Handler(r)
                                  /\ \A q \in Requests \ {r} : Same(q)
  <1> USE DEF Same, HandlerOK, ContentsOK, Goto, Reply
  <1>1. ASSUME NEW r \in Requests, Route(r) PROVE \A q \in Requests \ {r} : Same(q)
    BY <1>1 DEF Route, RoutePaused, RoutePolicy, RouteTwin, RouteCode, Arrives
  <1>2. ASSUME NEW r \in Requests, Triage(r) PROVE \A q \in Requests \ {r} : Same(q)
    BY <1>2 DEF Triage, TriageNothing, TriageCovered, TriageCap, TriageReview, Mapped
  <1>3. ASSUME NEW r \in Requests, Propose(r) PROVE \A q \in Requests \ {r} : Same(q)
    BY <1>3 DEF Propose
  <1>4. ASSUME NEW r \in Requests, Resolve(r) PROVE \A q \in Requests \ {r} : Same(q)
    <2>1. CASE AfterShutdown(r) \/ PresenterFails(r)
      BY <2>1 DEF AfterShutdown, PresenterFails, Resolved
    <2>2. ASSUME NEW d \in Decisions(r), Decide(r, d) PROVE \A q \in Requests \ {r} : Same(q)
      BY <2>2 DEF Decide, Resolved
    <2> QED BY <1>4, <2>1, <2>2 DEF Resolve
  <1>5. ASSUME NEW r \in Requests, Commit(r) PROVE \A q \in Requests \ {r} : Same(q)
    <2>1. CASE SaveRestorePoint(r)
      BY <2>1 DEF SaveRestorePoint
    <2>2. CASE RestorePointFails(r)
      BY <2>2 DEF RestorePointFails
    <2>3. CASE CommitWrite(r)
      BY <2>3 DEF CommitWrite
    <2> QED BY <1>5, <2>1, <2>2, <2>3 DEF Commit
  <1>6. ASSUME NEW r \in Requests, CommitPartial(r) PROVE \A q \in Requests \ {r} : Same(q)
    <2> USE DEF PartialStep, NextPartial
    <2>1. CASE PartialSkip(r)
      BY <2>1 DEF PartialSkip
    <2>2. CASE PartialCheck(r)
      BY <2>2 DEF PartialCheck
    <2>3. CASE PartialUnsafe(r)
      BY <2>3 DEF PartialUnsafe
    <2>4. CASE PartialLand(r)
      BY <2>4 DEF PartialLand
    <2>5. CASE PartialFinish(r)
      BY <2>5 DEF PartialFinish
    <2> QED BY <1>6, <2>1, <2>2, <2>3, <2>4, <2>5 DEF CommitPartial
  <1>7. ASSUME NEW r \in Requests, AgentRuns(r) \/ Post(r) PROVE \A q \in Requests : Same(q)
    BY <1>7 DEF AgentRuns, Post, PostArrives, HandlePost
  <1>8. ASSUME NEW p \in Paths, FallbackTimer(p) \/ RenderTwin(p)
        PROVE  \A q \in Requests : Same(q)
    BY <1>8 DEF FallbackTimer, RenderTwin
  <1>9. CASE SetPaused \/ Dispose \/ Forget \/ ForeignEdit \/ UNCHANGED vars
    BY <1>9 DEF SetPaused, Dispose, Forget, ForeignEdit, vars
  <1> QED BY <1>1, <1>2, <1>3, <1>4, <1>5, <1>6, <1>7, <1>8, <1>9 DEF Next, Handler

\* normalizeVerdict: when every id of the request is accepted, every hunk is.
LEMMA AllIdsAccepted ==
    ASSUME HandlerOK, ContentsOK, NEW r \in Requests, NEW ch,
           AllIds(r) \subseteq AcceptedIds(r, ch)
    PROVE  AllHunks(r) \subseteq ch
  <1> SUFFICES ASSUME NEW h \in AllHunks(r) PROVE h \in ch
    OBVIOUS
  <1>1. PICK p \in PathsOf(call[r]) : \E i \in DOMAIN HunksAt(r, p) : h = HunksAt(r, p)[i]
    BY DEF AllHunks, HunkSet
  <1>2. PICK i \in DOMAIN HunksAt(r, p) : h = HunksAt(r, p)[i]
    BY <1>1
  <1>3. HunkId(HunksAt(r, p), i) \in AcceptedIds(r, ch)
    BY DEF AllIds, Ids
  <1>4. PICK q \in PathsOf(call[r]) :
           \E j \in DOMAIN HunksAt(r, q) : /\ HunksAt(r, q)[j] \in ch
                                           /\ HunkId(HunksAt(r, q), j) = HunkId(HunksAt(r, p), i)
    BY <1>3 DEF AcceptedIds
  <1>5. PICK j \in DOMAIN HunksAt(r, q) : /\ HunksAt(r, q)[j] \in ch
                                          /\ HunkId(HunksAt(r, q), j) = HunkId(HunksAt(r, p), i)
    BY <1>4
  <1>6. HunksAt(r, q)[j].path = q /\ HunksAt(r, p)[i].path = p
    BY HunksAtPath
  <1>7. p = q
    BY <1>5, <1>6 DEF HunkId
  <1>8. i = j
    BY <1>5, <1>7, HunksAtPath, HunkIdsDistinct
  <1> QED BY <1>2, <1>5, <1>7, <1>8

\* What the normalised verdict says of the decision it was made from.
LEMMA NormalizedDecision ==
    ASSUME HandlerOK, ContentsOK, NEW r \in Requests, AllHunks(r) # {}, NEW d \in Decisions(r)
    PROVE  /\ d.verdict \in {"accept", "partial", "reject"}
           /\ NormalizeVerdict(d, r) = "accept" =>
                 d.verdict = "accept" /\ d.chosen = AllHunks(r)
           /\ NormalizeVerdict(d, r) = "partial" => d.verdict \in {"accept", "partial"}
  <1>1. PICK ch \in SUBSET AllHunks(r), sc \in Scope : d = DecisionOf(r, ch, sc)
    BY DEF Decisions
  <1>2. /\ d.accepted = AcceptedIds(r, ch) /\ d.chosen = ch
        /\ d.verdict = IF ch = {} THEN "reject"
                       ELSE IF ch = AllHunks(r) THEN "accept" ELSE "partial"
    BY <1>1 DEF DecisionOf
  <1>3. ASSUME NormalizeVerdict(d, r) = "accept"
        PROVE  d.verdict = "accept" /\ d.chosen = AllHunks(r)
    <2>1. AllIds(r) \subseteq AcceptedIds(r, ch)
      BY <1>2, <1>3 DEF NormalizeVerdict
    <2>2. ch = AllHunks(r)
      BY <1>1, <2>1, AllIdsAccepted
    <2> QED BY <1>2, <2>2
  <1>4. ASSUME NormalizeVerdict(d, r) = "partial", ch = {} PROVE FALSE
    <2>1. AcceptedIds(r, ch) = {}
      BY <1>4 DEF AcceptedIds
    <2> QED BY <1>2, <1>4, <2>1 DEF NormalizeVerdict
  <1> QED BY <1>2, <1>3, <1>4

LEMMA ProgressStep ==
    ASSUME HandlerOK, ContentsOK, IndexOK, ProgressOK, [Next]_vars
    PROVE  ProgressOK'
  <1>1. CASE \A q \in Requests : Same(q)
    BY <1>1, SameProgress DEF ProgressOK
  <1>2. ASSUME NEW r \in Requests, Route(r) \/ Handler(r),
               \A q \in Requests \ {r} : Same(q)
        PROVE  ProgressOK'
    <2>1. SUFFICES Progress(r)'
      BY <1>2, SameProgress DEF ProgressOK
    <2>2. Progress(r)
      BY DEF ProgressOK
    <2> USE DEF HandlerOK, ContentsOK, Goto, Reply
    <2>3. CASE Route(r)
      <3> PICK c \in Calls : \/ RoutePaused(r, c) \/ RoutePolicy(r, c)
                             \/ RouteTwin(r, c) \/ RouteCode(r, c)
        BY <2>3 DEF Route
      <3>1. CASE RoutePaused(r, c)
        BY <2>2, <3>1 DEF RoutePaused, Arrives, Progress
      <3>2. CASE RoutePolicy(r, c)
        BY <2>2, <3>2 DEF RoutePolicy, Arrives, Progress
      <3>3. CASE RouteTwin(r, c)
        BY <2>2, <3>3 DEF RouteTwin, Arrives, Progress
      <3>4. CASE RouteCode(r, c)
        BY <2>2, <3>4 DEF RouteCode, Arrives, Progress
      <3> QED BY <3>1, <3>2, <3>3, <3>4
    <2>4. CASE Handler(r)
      <3>1. AllHunks(r)' = AllHunks(r) /\ call'[r] = call[r]
        BY <2>4, HandlerFrame, SameHunks
      <3>2. CASE Triage(r)
        BY <2>2, <3>1, <3>2 DEF Triage, TriageNothing, TriageCovered, TriageCap, TriageReview,
                                Mapped, Progress, Entitled, AutoAccept
      <3>3. CASE Propose(r)
        BY <2>2, <3>1, <3>3 DEF Propose, Progress
      <3>4. CASE Resolve(r)
        <4>1. CASE AfterShutdown(r) \/ PresenterFails(r)
          BY <2>2, <3>1, <4>1 DEF AfterShutdown, PresenterFails, Resolved, Progress
        <4>2. ASSUME NEW d \in Decisions(r), Decide(r, d) PROVE Progress(r)'
          <5>1. AllHunks(r) # {} /\ answer[r] = "pending"
                /\ call[r] \in Calls /\ call[r].kind = "code"
            BY <2>2, <4>2 DEF Decide, Resolved, Progress
          <5>2. dec'[r] = d
            BY <4>2 DEF Decide
          <5>3. CASE NormalizeVerdict(d, r) = "accept"
            BY <3>1, <4>2, <5>1, <5>2, <5>3, NormalizedDecision
               DEF Decide, Resolved, Progress, Entitled, HumanAccepted
          <5>4. CASE NormalizeVerdict(d, r) = "partial"
            BY <3>1, <4>2, <5>1, <5>2, <5>4, NormalizedDecision
               DEF Decide, Resolved, Progress, Entitled, HumanAccepted
          <5>5. CASE NormalizeVerdict(d, r) # "accept" /\ NormalizeVerdict(d, r) # "partial"
            BY <3>1, <4>2, <5>1, <5>2, <5>5 DEF Decide, Resolved, Progress
          <5> QED BY <5>3, <5>4, <5>5
        <4> QED BY <3>4, <4>1, <4>2 DEF Resolve
      <3>5. CASE Commit(r)
        <4> USE DEF Progress, Entitled, HumanAccepted
        <4>1. CASE SaveRestorePoint(r)
          BY <2>2, <3>1, <4>1 DEF SaveRestorePoint
        <4>2. CASE RestorePointFails(r)
          BY <2>2, <3>1, <4>2 DEF RestorePointFails
        <4>3. CASE CommitWrite(r)
          BY <2>2, <3>1, <4>3 DEF CommitWrite
        <4> QED BY <3>5, <4>1, <4>2, <4>3 DEF Commit
      <3>6. CASE CommitPartial(r)
        <4> USE DEF PartialStep, NextPartial, Progress, Entitled, HumanAccepted
        <4>1. CASE PartialSkip(r)
          BY <2>2, <3>1, <4>1 DEF PartialSkip
        <4>2. CASE PartialCheck(r)
          BY <2>2, <3>1, <4>2 DEF PartialCheck
        <4>3. CASE PartialUnsafe(r)
          BY <2>2, <3>1, <4>3 DEF PartialUnsafe
        <4>4. CASE PartialLand(r)
          BY <2>2, <3>1, <4>4 DEF PartialLand
        <4>5. CASE PartialFinish(r)
          BY <2>2, <3>1, <4>5 DEF PartialFinish
        <4> QED BY <3>6, <4>1, <4>2, <4>3, <4>4, <4>5 DEF CommitPartial
      <3> QED BY <2>4, <3>2, <3>3, <3>4, <3>5, <3>6 DEF Handler
    <2> QED BY <1>2, <2>3, <2>4
  <1> QED BY <1>1, <1>2, OneHandler

\* A decision, once made, stays, and so does the call it was made about.
LEMMA DecisionsStay ==
    ASSUME HandlerOK, ContentsOK, ProgressOK, [Next]_vars,
           NEW q \in Requests, dec[q] # Undecided
    PROVE  dec'[q] = dec[q] /\ call'[q] = call[q]
  <1>1. CASE Same(q)
    BY <1>1 DEF Same
  <1>2. CASE ~Same(q)
    <2>1. Route(q) \/ Handler(q)
      BY <1>2, OneHandler
    <2>2. pc[q] \notin {"idle", "mapping", "proposing", "waiting"}
      BY DEF ProgressOK, Progress
    <2>3. ~Route(q)
      BY <2>2 DEF Route, RoutePaused, RoutePolicy, RouteTwin, RouteCode, Arrives
    <2>4. ~Triage(q) /\ ~Propose(q) /\ ~Resolve(q)
      BY <2>2 DEF Triage, TriageNothing, TriageCovered, TriageCap, TriageReview, Mapped,
                  Propose, Resolve, AfterShutdown, PresenterFails, Resolved
    <2>5. Commit(q) => UNCHANGED dec
      BY DEF Commit, SaveRestorePoint, RestorePointFails, CommitWrite
    <2>6. CommitPartial(q) => UNCHANGED dec
      BY DEF CommitPartial, PartialStep, PartialSkip, PartialCheck, PartialUnsafe,
             PartialLand, PartialFinish
    <2> QED BY <2>1, <2>3, <2>4, <2>5, <2>6, HandlerFrame DEF Handler
  <1> QED BY <1>1, <1>2

LEMMA TrustStays ==
    ASSUME HandlerOK, ContentsOK, ProgressOK, [Next]_vars
    PROVE  TrustedSessions \subseteq TrustedSessions'
  <1> SUFFICES ASSUME NEW q \in Requests, HumanAccepted(q)
               PROVE  call[q].session \in TrustedSessions'
    BY DEF TrustedSessions
  <1>1. dec[q] # Undecided
    BY DEF HumanAccepted, Undecided
  <1>2. HumanAccepted(q)' /\ call'[q] = call[q]
    BY <1>1, DecisionsStay DEF HumanAccepted
  <1> QED BY <1>2 DEF TrustedSessions

\* The session a decision teaches about is one the person trusts by then.
LEMMA TeachingTrusted ==
    ASSUME HandlerOK, ContentsOK, ProgressOK, TrustOK, [Next]_vars,
           NEW r \in Requests, NEW d, Teaching(r, d), Teaches(d, Bucket(r))
    PROVE  Bucket(r) \in TrustedSessions'
  <1>1. CASE d \in Decisions(r) /\ Decide(r, d)
    <2>1. AllHunks(r) # {}
      BY <1>1 DEF Decide, Resolved, ProgressOK, Progress
    <2>2. d.verdict \in {"accept", "partial"}
      BY <1>1, <2>1, NormalizedDecision DEF Teaches
    <2>3. dec'[r] = d /\ call' = call
      BY <1>1 DEF Decide, Resolved, HandlerOK
    <2> QED BY <2>2, <2>3 DEF TrustedSessions, HumanAccepted, Bucket
  <1>2. CASE pc[r] \in {"committing", "checking"} /\ d = dec[r] /\ UNCHANGED dec
    <2>1. Entitled(r) \/ HumanAccepted(r)
      BY <1>2 DEF ProgressOK, Progress
    <2>2. Bucket(r) \in TrustedSessions
      BY <2>1 DEF Entitled, TrustOK, TrustedSessions, Bucket
    <2> QED BY <2>2, TrustStays
  <1> QED BY <1>1, <1>2 DEF Teaching

\* Only a memory hit makes a decision "auto".
LEMMA OnlyMemoryDecidesAuto ==
    ASSUME HandlerOK, ContentsOK, ProgressOK, [Next]_vars,
           NEW r \in Requests, dec[r].verdict # "auto", dec'[r].verdict = "auto"
    PROVE  TriageCovered(r)
  <1>1. ~Same(r)
    BY DEF Same
  <1>2. Route(r) \/ Handler(r)
    BY <1>1, OneHandler
  <1>3. ~Route(r)
    BY DEF Route, RoutePaused, RoutePolicy, RouteTwin, RouteCode, Arrives
  <1>4. ~TriageNothing(r) /\ ~TriageCap(r) /\ ~TriageReview(r) /\ ~Propose(r)
    BY DEF TriageNothing, TriageCap, TriageReview, Propose
  <1>5. ~Resolve(r)
    <2>1. ~AfterShutdown(r) /\ ~PresenterFails(r)
      BY DEF AfterShutdown, PresenterFails
    <2>2. ASSUME NEW d \in Decisions(r), Decide(r, d) PROVE FALSE
      <3>1. AllHunks(r) # {}
        BY <2>2 DEF Decide, Resolved, ProgressOK, Progress
      <3>2. d.verdict # "auto"
        BY <3>1, NormalizedDecision
      <3> QED BY <2>2, <3>2 DEF Decide, HandlerOK
    <2> QED BY <2>1, <2>2 DEF Resolve
  <1>6. Commit(r) => UNCHANGED dec
    BY DEF Commit, SaveRestorePoint, RestorePointFails, CommitWrite
  <1>7. CommitPartial(r) => UNCHANGED dec
    BY DEF CommitPartial, PartialStep, PartialSkip, PartialCheck, PartialUnsafe,
           PartialLand, PartialFinish
  <1> QED BY <1>2, <1>3, <1>4, <1>5, <1>6, <1>7 DEF Handler, Triage

\* What memory covers, memory was taught.
LEMMA CoveredTrusted ==
    ASSUME HandlerOK, ContentsOK, TrustOK, NEW r \in Requests, AllHunks(r) # {}, Covered(r)
    PROVE  Bucket(r) # NoSession /\ Bucket(r) \in TrustedSessions
  <1>1. PICK p \in PathsOf(call[r]) : HunkSet(HunksAt(r, p)) # {}
    BY DEF AllHunks
  <1>2. PICK i \in DOMAIN HunksAt(r, p) : TRUE
    BY <1>1 DEF HunkSet
  <1>3. HunkId(HunksAt(r, p), i) \in Ids(HunksAt(r, p))
    BY DEF Ids
  <1>4. Lookup(Bucket(r), p, HunkId(HunksAt(r, p), i))
    BY <1>3 DEF Covered
  <1> QED BY <1>4 DEF Lookup, TrustOK

LEMMA TrustStep ==
    ASSUME HandlerOK, ContentsOK, MemoryOK, IndexOK, ProgressOK, TrustOK, [Next]_vars
    PROVE  TrustOK'
  <1>1. /\ memSessions' \subseteq TrustedSessions'
        /\ \A f \in memFiles' : f[1] \in TrustedSessions'
        /\ \A k \in memHunks' : k[1] \in TrustedSessions'
    <2>1. CASE /\ memSessions' \subseteq memSessions
               /\ memFiles' \subseteq memFiles
               /\ memHunks' \subseteq memHunks
      BY <2>1, TrustStays DEF TrustOK
    <2>2. ASSUME NEW r \in Requests, NEW d, Teaching(r, d)
          PROVE  /\ memSessions' \subseteq TrustedSessions'
                 /\ \A f \in memFiles' : f[1] \in TrustedSessions'
                 /\ \A k \in memHunks' : k[1] \in TrustedSessions'
      <3>1. CASE ~Teaches(d, Bucket(r))
        BY <2>2, <3>1, TrustStays DEF Teaching, Remember, TrustOK
      <3>2. CASE Teaches(d, Bucket(r))
        <4> DEFINE hs == HunksByPath(r)
                   s == Bucket(r)
        <4>0. Remember(d, s, hs) /\ s \in TrustedSessions'
          BY <2>2, <3>2, TeachingTrusted DEF Teaching
        <4> HIDE DEF hs, s
        <4>1. \A k \in AcceptedKeys(d, s, hs) : k[1] = s
          BY DEF AcceptedKeys
        <4>2. memHunks' \subseteq memHunks \cup AcceptedKeys(d, s, hs)
          BY <4>0 DEF Remember, Capped
        <4>3. \A f \in memFiles' : f \in memFiles \/ f[1] = s
          BY <4>0 DEF Remember
        <4>4. memSessions' \subseteq memSessions \cup {s}
          BY <4>0 DEF Remember
        <4> QED BY <4>0, <4>1, <4>2, <4>3, <4>4, TrustStays DEF TrustOK
      <3> QED BY <3>1, <3>2
    <2> QED BY <2>1, <2>2, MemoryFrame
  <1>2. ASSUME NEW r \in Requests, dec'[r].verdict = "auto"
        PROVE  call'[r].session # NoSession /\ call'[r].session \in TrustedSessions'
    <2>1. CASE dec[r].verdict = "auto"
      <3>1. dec[r] # Undecided
        BY <2>1 DEF Undecided
      <3>2. call'[r] = call[r]
        BY <3>1, DecisionsStay
      <3> QED BY <2>1, <3>2, TrustStays DEF TrustOK
    <2>2. CASE dec[r].verdict # "auto"
      <3>1. TriageCovered(r)
        BY <1>2, <2>2, OnlyMemoryDecidesAuto
      <3>2. Bucket(r) # NoSession /\ Bucket(r) \in TrustedSessions
        BY <3>1, CoveredTrusted DEF TriageCovered
      <3>3. call' = call
        BY <3>1 DEF TriageCovered, Mapped
      <3> QED BY <3>2, <3>3, TrustStays DEF Bucket
    <2> QED BY <2>1, <2>2
  <1> QED BY <1>1, <1>2 DEF TrustOK

-------------------------------------------------------------------------------
(* The invariant, and the theorems. *)

LEMMA InitInvariant ==
    ASSUME Init PROVE GateInvariant
  <1> USE DEF Init
  <1>1. TypeOK
    <2>1. SwitchOK
      <3>1. paused \in BOOLEAN /\ disposed \in BOOLEAN
        BY Zenon
      <3>2. toggles \in 0..MaxToggles /\ edits \in 0..MaxEdits
        BY BoundsAssumption
      <3> QED BY <3>1, <3>2 DEF SwitchOK
    <2>2. CountersOK
      BY DEF CountersOK
    <2>3. HandlerOK
      BY BoundsAssumption DEF HandlerOK, Undecided, Decision, Verdict, Scope, PC, Answer, Tool
    <2>4. ContentsOK
      BY DEF ContentsOK, Content
    <2>5. MemoryOK
      BY DEF MemInit, MemoryOK
    <2> QED BY <2>1, <2>2, <2>3, <2>4, <2>5 DEF TypeOK
  <1>2. IndexOK
    BY DEF IndexOK
  <1>3. PendingMatchesReviews
    <2>1. \A r \in Requests : ~Waiting(r)
      BY DEF Waiting
    <2>2. {r \in Requests : Waiting(r)} = {}
          /\ \A b \in Session : {r \in Requests : Waiting(r) /\ Bucket(r) = b} = {}
      BY <2>1
    <2>3. Cardinality({}) = 0
      BY FS_EmptySet
    <2>4. /\ Cardinality({r \in Requests : Waiting(r)}) = 0
          /\ \A b \in Session : Cardinality({r \in Requests : Waiting(r) /\ Bucket(r) = b}) = 0
      BY <2>2, <2>3
    <2>5. /\ pendingHuman = 0
          /\ \A b \in Session : pendingBySession[b] = 0
      OBVIOUS
    <2>6. 0 <= MaxPending
      BY BoundsAssumption
    <2> QED BY <2>4, <2>5, <2>6 DEF PendingMatchesReviews
  <1>4. ProgressOK
    BY DEF ProgressOK, Progress
  <1>5. TrustOK
    BY DEF TrustOK, MemInit, Undecided
  <1> QED BY <1>1, <1>2, <1>3, <1>4, <1>5 DEF GateInvariant

LEMMA InvariantStep ==
    ASSUME GateInvariant, [Next]_vars PROVE GateInvariant'
  <1> USE DEF GateInvariant
  <1>1. TypeOK'
    BY SwitchStep, HandlerStep, ContentsStep, MemoryStep, PendingStep DEF TypeOK
  <1>2. PendingMatchesReviews'
    BY PendingStep DEF TypeOK
  <1>3. IndexOK' /\ ProgressOK' /\ TrustOK'
    BY IndexStep, ProgressStep, TrustStep DEF TypeOK
  <1> QED BY <1>1, <1>2, <1>3

\* The inductive invariant of the checkpoint holds in every reachable state.
THEOREM Invariance == Spec => []GateInvariant
  <1>1. Init => GateInvariant
    BY InitInvariant
  <1>2. GateInvariant /\ [Next]_vars => GateInvariant'
    BY InvariantStep
  <1> QED BY <1>1, <1>2, PTL DEF Spec

\* Every variable holds values of its kind.
THEOREM TypeCorrect == Spec => []TypeOK
  <1>1. GateInvariant => TypeOK
    BY DEF GateInvariant
  <1> QED BY <1>1, Invariance, PTL

\* The cap counters are exactly the waiting reviews, and the cap holds: however
\* many requests interleave, whatever the cap (review()).
THEOREM CapIsKept == Spec => []PendingMatchesReviews
  <1>1. GateInvariant => PendingMatchesReviews
    BY DEF GateInvariant
  <1> QED BY <1>1, Invariance, PTL

\* A write of an allowed call that is neither a twin's nor outside the workspace
\* is one of those under review (route()).
LEMMA OnlyReviewed ==
    ASSUME HandlerOK, NEW r \in Requests, call[r].kind = "code",
           NEW i \in DOMAIN Touched(r), Touched(r)[i].path \notin Unreviewed
    PROVE  i \in DOMAIN Writes(r) /\ Touched(r)[i] = Writes(r)[i]
  <1>1. call[r] \in Calls
    BY DEF HandlerOK, NoCall
  <1>2. \A k \in DOMAIN call[r].besides : call[r].besides[k].path \in Unreviewed
    BY <1>1, CallsAssumption DEF Splits
  <1> QED BY <1>2, TouchedWrites

\* No reviewed change is allowed without the person: all its hunks were accepted,
\* or the person accepted something in the session it belongs to (review()).
\* What a mixed patch writes besides is the exception, and the only one.
THEOREM NothingWithoutTheHuman == Spec => []AllowNeedsHuman
  <1>1. GateInvariant => AllowNeedsHuman
    <2> SUFFICES ASSUME GateInvariant, NEW r \in Requests, AllowedCode(r),
                        NEW i \in DOMAIN Touched(r), Touched(r)[i].path \notin Unreviewed
                 PROVE  ByThePerson(r, Touched(r)[i])
      BY DEF AllowNeedsHuman
    <2> DEFINE w == Touched(r)[i]
    <2>1. Entitled(r)
      BY DEF AllowedCode, GateInvariant, ProgressOK, Progress
    <2>2. w.path \in PathsOf(call[r])
      <3>1. i \in DOMAIN Writes(r) /\ w = Writes(r)[i]
        BY OnlyReviewed DEF GateInvariant, TypeOK, AllowedCode
      <3> QED BY <3>1 DEF PathsOf, Writes
    <2>3. CASE dec[r].verdict = "auto"
      <3>1. call[r].session # NoSession /\ call[r].session \in TrustedSessions
        BY <2>3 DEF GateInvariant, TrustOK
      <3>2. PICK q \in Requests : HumanAccepted(q) /\ call[q].session = call[r].session
        BY <3>1 DEF TrustedSessions
      <3>3. q # r
        BY <2>3, <3>2 DEF HumanAccepted
      <3> QED BY <2>2, <2>3, <3>1, <3>2, <3>3 DEF SameSession, ByThePerson
    <2>4. CASE HumanAccepted(r) /\ dec[r].chosen = AllHunks(r)
      <3>1. HunkSet(HunksAt(r, w.path)) \subseteq AllHunks(r)
        BY <2>2 DEF AllHunks
      <3> QED BY <2>2, <2>4, <3>1 DEF ByThePerson
    <2> QED BY <2>1, <2>3, <2>4 DEF Entitled
  <1> QED BY <1>1, Invariance, PTL

\* A review that ends after the shutdown answers ask and does nothing else
\* (review(), after the await).
AnswersAsk(r) ==
    /\ pc'[r] = "done" /\ answer'[r] = "ask" /\ dec'[r] = dec[r]
    /\ UNCHANGED <<memVars, safety, world, expected>>
THEOREM ShutdownNeverDecides == Spec => ShutdownAnswersAsk
  <1>1. GateInvariant /\ [Next]_vars =>
           [\A r \in Requests : disposed /\ EndsReview(r) => AnswersAsk(r)]_vars
    <2> SUFFICES ASSUME GateInvariant, [Next]_vars, NEW r \in Requests,
                        disposed, EndsReview(r)
                 PROVE  AnswersAsk(r)
      OBVIOUS
    <2> USE DEF GateInvariant, TypeOK, HandlerOK, Reply, Goto
    <2>1. pc[r] \in {"proposing", "waiting"} /\ pc'[r] \notin {"proposing", "waiting"}
      BY DEF EndsReview, Waiting
    <2>2. ~Same(r)
      BY <2>1 DEF Same
    <2>3. Route(r) \/ Handler(r)
      BY <2>2, OneHandler
    <2>4. ~Route(r) /\ ~Triage(r) /\ ~Commit(r) /\ ~CommitPartial(r)
      BY <2>1 DEF Route, RoutePaused, RoutePolicy, RouteTwin, RouteCode, Arrives, Triage,
                  TriageNothing, TriageCovered, TriageCap, TriageReview, Mapped, Commit,
                  SaveRestorePoint, RestorePointFails, CommitWrite, CommitPartial, PartialStep,
                  PartialSkip, PartialCheck, PartialUnsafe, PartialLand, PartialFinish
    <2>5. ~Propose(r)
      BY <2>1 DEF Propose
    <2>6. Resolve(r)
      BY <2>3, <2>4, <2>5 DEF Handler
    <2>7. ~ \E d \in Decisions(r) : Decide(r, d)
      BY DEF Decide, ShutdownDuringReview
    <2> QED BY <2>6, <2>7 DEF Resolve, AfterShutdown, PresenterFails, Resolved, AnswersAsk
  <1>2. ShutdownAnswersAsk <=>
           [][\A r \in Requests : disposed /\ EndsReview(r) => AnswersAsk(r)]_vars
    BY DEF ShutdownAnswersAsk, AnswersAsk
  <1> QED BY <1>1, <1>2, Invariance, PTL DEF Spec

-------------------------------------------------------------------------------
(* The controller implements HumanCheckpoint. *)

AbsSession == [r \in Requests |-> call[r].session]
AbsAccepted == {r \in Requests : HumanAccepted(r)}
AbsAllowed == {r \in Requests : answer[r] = "allow"}

LEMMA AbstractInit ==
    ASSUME Init PROVE Abstract!Init
  <1>1. AbsSession \in [Requests -> Session]
    BY DEF Init, AbsSession, NoCall, Session
  <1>2. Free = {} /\ AbsAccepted = {} /\ AbsAllowed = {}
    BY DEF Init, Free, AbsAccepted, HumanAccepted, Undecided, AbsAllowed
  <1> QED BY <1>1, <1>2 DEF Abstract!Init, AbsSession, AbsAccepted, AbsAllowed

\* A step that changes none of the four things the promise is about.
AbsSame == UNCHANGED <<AbsSession, Free, AbsAccepted, AbsAllowed>>
\* What a step of r alone does to them.
LEMMA AbstractLocal ==
    ASSUME NEW r \in Requests, \A q \in Requests \ {r} : Same(q)
    PROVE  /\ \A q \in Requests \ {r} :
                 /\ AbsSession'[q] = AbsSession[q]
                 /\ q \in Free' <=> q \in Free
                 /\ q \in AbsAccepted' <=> q \in AbsAccepted
                 /\ q \in AbsAllowed' <=> q \in AbsAllowed
           /\ AbsSession'[r] = call'[r].session
           /\ r \in AbsAccepted' <=> HumanAccepted(r)'
           /\ r \in AbsAllowed' <=> answer'[r] = "allow"
           /\ r \in Free' <=> /\ pc'[r] # "idle"
                              /\ \/ call'[r].kind = "twin"
                                 \/ call'[r].kind = "code" /\ AllHunks(r)' = {}
           /\ AbsAccepted \cup AbsAccepted' \cup AbsAllowed \cup AbsAllowed' \cup Free \cup Free'
                 \subseteq Requests
  <1>1. \A q \in Requests \ {r} : AllHunks(q)' = AllHunks(q)
    BY SameHunks DEF Same
  <1> QED BY <1>1 DEF Same, AbsSession, AbsAccepted, AbsAllowed, Free, HumanAccepted

\* The decision and the answer of a handler's step: what it says of the promise.
LEMMA HandlerAbstract ==
    ASSUME GateInvariant, [Next]_vars, NEW r \in Requests, Handler(r)
    PROVE  \/ HumanAccepted(r)' = HumanAccepted(r) /\ (answer'[r] = "allow") = (answer[r] = "allow")
           \/ /\ ~HumanAccepted(r) /\ HumanAccepted(r)'
              /\ answer[r] # "allow" /\ answer'[r] # "allow"
           \/ /\ HumanAccepted(r)' = HumanAccepted(r)
              /\ answer[r] # "allow" /\ answer'[r] = "allow"
              /\ (call[r].kind = "code" /\ AllHunks(r) = {}) \/ Entitled(r)
  <1> USE DEF GateInvariant, TypeOK, HandlerOK, Reply, HumanAccepted
  <1>0. pc[r] \notin {"idle", "done"} /\ answer[r] = "pending" /\ call[r].kind = "code"
    BY HandlerFrame DEF ProgressOK, Progress
  <1>1. CASE Triage(r)
    <2>1. dec[r] = Undecided
      BY <1>1 DEF ProgressOK, Progress, Triage, TriageNothing, TriageCovered, TriageCap,
                  TriageReview, Mapped
    <2> QED BY <1>0, <1>1, <2>1 DEF Triage, TriageNothing, TriageCovered, TriageCap,
                  TriageReview, Mapped, Undecided, AutoAccept
  <1>2. CASE Propose(r)
    BY <1>0, <1>2 DEF Propose
  <1>3. CASE Resolve(r)
    <2>1. CASE AfterShutdown(r) \/ PresenterFails(r)
      BY <1>0, <2>1 DEF AfterShutdown, PresenterFails
    <2>2. ASSUME NEW d \in Decisions(r), Decide(r, d)
          PROVE  dec[r] = Undecided /\ answer'[r] # "allow"
      <3>1. dec[r] = Undecided
        BY <2>2 DEF ProgressOK, Progress, Decide, Resolved
      <3>2. answer'[r] # "allow"
        <4>1. CASE NormalizeVerdict(d, r) = "accept" \/ NormalizeVerdict(d, r) = "partial"
          BY <1>0, <2>2, <4>1 DEF Decide
        <4>2. CASE NormalizeVerdict(d, r) # "accept" /\ NormalizeVerdict(d, r) # "partial"
          BY <1>0, <2>2, <4>2 DEF Decide
        <4> QED BY <4>1, <4>2
      <3> QED BY <3>1, <3>2
    <2>3. CASE \E d \in Decisions(r) : Decide(r, d)
      <3>1. dec[r] = Undecided /\ answer'[r] # "allow"
        BY <2>2, <2>3
      <3> QED BY <1>0, <3>1 DEF Undecided
    <2> QED BY <1>3, <2>1, <2>3 DEF Resolve
  <1>4. CASE Commit(r)
    <2>1. CASE SaveRestorePoint(r)
      BY <1>0, <2>1 DEF SaveRestorePoint
    <2>2. CASE RestorePointFails(r)
      BY <1>0, <2>2 DEF RestorePointFails
    <2>3. CASE CommitWrite(r)
      <3>1. Entitled(r)
        BY <2>3 DEF CommitWrite, ProgressOK, Progress
      <3> QED BY <1>0, <2>3, <3>1 DEF CommitWrite
    <2> QED BY <1>4, <2>1, <2>2, <2>3 DEF Commit
  <1>5. CASE CommitPartial(r)
    BY <1>0, <1>5 DEF CommitPartial, PartialStep, PartialSkip, PartialCheck, PartialUnsafe,
                      PartialLand, PartialFinish
  <1> QED BY <1>1, <1>2, <1>3, <1>4, <1>5 DEF Handler

LEMMA AbstractStep ==
    ASSUME GateInvariant, [Next]_vars
    PROVE  [Abstract!Next]_(Abstract!vars)
  <1>0. SUFFICES AbsSame \/ \E r \in Requests : Abstract!Submit(r) \/ Abstract!Accept(r)
                                                   \/ Abstract!Allow(r)
    BY DEF Abstract!Next, Abstract!vars, AbsSame, AbsSession, AbsAccepted, AbsAllowed
  <1>1. CASE \A q \in Requests : Same(q)
    <2>1. \A q \in Requests : AllHunks(q)' = AllHunks(q)
      BY <1>1, SameHunks DEF Same
    <2> QED BY <1>1, <2>1 DEF AbsSame, AbsSession, AbsAccepted, AbsAllowed, Free,
                              HumanAccepted, Same
  <1>2. ASSUME NEW r \in Requests, Route(r), \A q \in Requests \ {r} : Same(q)
        PROVE  Abstract!Submit(r)
    <2> PICK c \in Calls : \/ RoutePaused(r, c) \/ RoutePolicy(r, c)
                           \/ RouteTwin(r, c) \/ RouteCode(r, c)
      BY <1>2 DEF Route
    <2> USE DEF GateInvariant, TypeOK, HandlerOK
    <2>1. pc[r] = "idle" /\ call' = [call EXCEPT ![r] = c] /\ UNCHANGED dec
      BY DEF RoutePaused, RoutePolicy, RouteTwin, RouteCode, Arrives
    <2>2. r \notin AbsAccepted /\ r \notin AbsAllowed /\ r \notin Free
      BY <2>1 DEF ProgressOK, Progress, AbsAccepted, AbsAllowed, HumanAccepted, Undecided, Free
    <2>3. c.session \in Session
      BY CallsAssumption DEF Call
    <2>4. AbsSession' = [AbsSession EXCEPT ![r] = c.session]
      BY <2>1 DEF AbsSession
    <2>5. AbsAccepted' = AbsAccepted
      BY <2>1 DEF AbsAccepted, HumanAccepted
    <2>6. answer'[r] = "allow" => r \in Free'
      BY <2>1, <2>2 DEF RoutePaused, RoutePolicy, RouteTwin, RouteCode, Arrives, Reply, Goto,
                        Free, AbsAllowed
    <2>7. Free' \in {Free, Free \cup {r}}
      <3>1. /\ \A q \in Requests \ {r} : q \in Free' <=> q \in Free
            /\ Free \subseteq Requests /\ Free' \subseteq Requests
        BY <1>2, AbstractLocal
      <3>2. CASE r \in Free'
        <4>1. Free' = Free \cup {r}
          BY <3>1, <3>2
        <4> QED BY <4>1
      <3>3. CASE r \notin Free'
        <4>1. Free' = Free
          BY <2>2, <3>1, <3>3
        <4> QED BY <4>1
      <3> QED BY <3>2, <3>3
    <2>8. AbsAllowed' \in {AbsAllowed, IF r \in Free' THEN AbsAllowed \cup {r} ELSE AbsAllowed}
      <3>1. AbsAllowed' = IF answer'[r] = "allow" THEN AbsAllowed \cup {r} ELSE AbsAllowed
        <4>1. /\ \A q \in Requests \ {r} : q \in AbsAllowed' <=> q \in AbsAllowed
              /\ AbsAllowed \subseteq Requests /\ AbsAllowed' \subseteq Requests
              /\ r \in AbsAllowed' <=> answer'[r] = "allow"
          BY <1>2, AbstractLocal
        <4>2. CASE answer'[r] = "allow"
          BY <4>1, <4>2
        <4>3. CASE answer'[r] # "allow"
          <5>1. \A q : q \in AbsAllowed' <=> q \in AbsAllowed
            BY <2>2, <4>1, <4>3
          <5>2. AbsAllowed' = AbsAllowed
            BY <5>1
          <5> QED BY <4>3, <5>2
        <4> QED BY <4>2, <4>3
      <3> QED BY <2>6, <3>1
    <2> QED BY <2>2, <2>3, <2>4, <2>5, <2>7, <2>8
            DEF Abstract!Submit, AbsSession, AbsAccepted, AbsAllowed
  <1>3. ASSUME NEW r \in Requests, Handler(r), \A q \in Requests \ {r} : Same(q)
        PROVE  AbsSame \/ Abstract!Accept(r) \/ Abstract!Allow(r)
    <2>1. AllHunks(r)' = AllHunks(r) /\ call' = call /\ pc[r] # "idle"
      BY <1>3, HandlerFrame, SameHunks
    <2>2. pc'[r] # "idle"
      <3> USE DEF GateInvariant, TypeOK, HandlerOK, Goto, Reply
      <3>1. ~CommitPartial(r) => pc'[r] # "idle"
        BY <1>3, <2>1 DEF Handler, Triage, TriageNothing, TriageCovered, TriageCap,
              TriageReview, Mapped, Propose, Resolve, AfterShutdown, PresenterFails, Decide,
              Resolved, Commit, SaveRestorePoint, RestorePointFails, CommitWrite
      <3>2. CommitPartial(r) => pc'[r] # "idle"
        BY <2>1 DEF CommitPartial, PartialStep, PartialSkip, PartialCheck, PartialUnsafe,
                    PartialLand, PartialFinish, NextPartial
      <3> QED BY <3>1, <3>2
    <2>3. Free' = Free /\ AbsSession' = AbsSession
      BY <1>3, <2>1, <2>2, AbstractLocal DEF Free, AbsSession
    <2>4. CASE HumanAccepted(r)' = HumanAccepted(r)
               /\ (answer'[r] = "allow") = (answer[r] = "allow")
      <3>1. AbsAccepted' = AbsAccepted /\ AbsAllowed' = AbsAllowed
        BY <1>3, <2>4, AbstractLocal DEF AbsAccepted, AbsAllowed
      <3> QED BY <2>3, <3>1 DEF AbsSame
    <2>5. CASE /\ ~HumanAccepted(r) /\ HumanAccepted(r)'
               /\ answer[r] # "allow" /\ answer'[r] # "allow"
      <3>1. /\ r \notin AbsAccepted /\ r \notin AbsAllowed
            /\ AbsAccepted' = AbsAccepted \cup {r} /\ AbsAllowed' = AbsAllowed
        BY <1>3, <2>5, AbstractLocal DEF AbsAccepted, AbsAllowed
      <3> QED BY <2>3, <3>1 DEF Abstract!Accept, AbsSession, AbsAccepted, AbsAllowed
    <2>6. CASE /\ HumanAccepted(r)' = HumanAccepted(r)
               /\ answer[r] # "allow" /\ answer'[r] = "allow"
               /\ (call[r].kind = "code" /\ AllHunks(r) = {}) \/ Entitled(r)
      <3>1. AbsAccepted' = AbsAccepted /\ AbsAllowed' = AbsAllowed \cup {r}
        BY <1>3, <2>6, AbstractLocal DEF AbsAccepted, AbsAllowed
      <3>2. \/ r \in Free
            \/ r \in AbsAccepted
            \/ Abstract!Trusted(AbsSession[r])
        <4>1. CASE call[r].kind = "code" /\ AllHunks(r) = {}
          BY <2>1, <4>1 DEF Free
        <4>2. CASE HumanAccepted(r)
          BY <4>2 DEF AbsAccepted
        <4>3. CASE dec[r].verdict = "auto"
          <5>1. call[r].session # NoSession /\ call[r].session \in TrustedSessions
            BY <4>3 DEF GateInvariant, TrustOK
          <5>2. PICK q \in Requests : HumanAccepted(q) /\ call[q].session = call[r].session
            BY <5>1 DEF TrustedSessions
          <5> QED BY <5>1, <5>2 DEF Abstract!Trusted, AbsSession
        <4> QED BY <2>6, <4>1, <4>2, <4>3 DEF Entitled
      <3> QED BY <2>3, <3>1, <3>2 DEF Abstract!Allow, AbsSession, AbsAccepted, AbsAllowed
    <2> QED BY <1>3, <2>4, <2>5, <2>6, HandlerAbstract
  <1> QED BY <1>1, <1>2, <1>3, OneHandler DEF GateInvariant, TypeOK

\* The controller, with all its awaits, implements the promise of the abstract
\* checkpoint (HumanCheckpoint).
THEOREM Refinement == Spec => ImplementsHumanCheckpoint
  <1>1. Init => Abstract!Init
    BY AbstractInit
  <1>2. GateInvariant /\ [Next]_vars => [Abstract!Next]_(Abstract!vars)
    BY AbstractStep
  <1> QED BY <1>1, <1>2, Invariance, PTL DEF Spec, ImplementsHumanCheckpoint, Abstract!Spec

-------------------------------------------------------------------------------
(* Restore points come first. *)

\* The writes of a request that are saved and in the journal.
Secured(r, i) ==
    /\ Undoable(r, Writes(r)[i])
    /\ Note("decided", r, Writes(r)[i].path, "decided") \in journal

\* How far the writes of one request are secured: those before the current
\* one, the current one too once it is about to be committed, all of them
\* once the change is allowed.
SecuredSoFar(r) ==
    /\ pc[r] \in {"saving", "committing"} =>
          \A i \in DOMAIN Writes(r) : i < idx[r] => Secured(r, i)
    /\ pc[r] = "committing" => Undoable(r, TheWrite(r))
    /\ answer[r] = "allow" /\ call[r].kind = "code" /\ AllHunks(r) # {} =>
          \A i \in DOMAIN Writes(r) : Secured(r, i)
SecuredOK == \A r \in Requests : SecuredSoFar(r)

\* What ExplainIT wrote itself: a request at work, its content saved.
LandedNotes == {e \in journal : e.kind = "applied" /\ e.note = "partial"}
LandedOK ==
    \A e \in LandedNotes :
        /\ e.req \in Requests
        /\ pc[e.req] # "idle"
        /\ before[e.req][e.path] # Absent =>
              [req |-> e.req, path |-> e.path, content |-> before[e.req][e.path]] \in restorePoints

-------------------------------------------------------------------------------
(* What the steps leave alone. *)


\* The journal and the restore points only grow.
LEMMA SafetyGrows ==
    ASSUME [Next]_vars
    PROVE  restorePoints \subseteq restorePoints' /\ journal \subseteq journal'
  <1>1. ASSUME NEW r \in Requests, Route(r) PROVE UNCHANGED safety
    BY <1>1 DEF Route, RoutePaused, RoutePolicy, RouteTwin, RouteCode, Arrives
  <1>2. ASSUME NEW r \in Requests, Triage(r) PROVE UNCHANGED safety
    BY <1>2 DEF Triage, TriageNothing, TriageCovered, TriageCap, TriageReview, Mapped
  <1>3. ASSUME NEW r \in Requests, Propose(r) PROVE restorePoints \subseteq restorePoints' /\ journal \subseteq journal'
    BY <1>3 DEF Propose
  <1>4. ASSUME NEW r \in Requests, Resolve(r) PROVE restorePoints \subseteq restorePoints' /\ journal \subseteq journal'
    BY <1>4 DEF Resolve, AfterShutdown, PresenterFails, Decide, Resolved
  <1>5. ASSUME NEW r \in Requests, Commit(r) PROVE restorePoints \subseteq restorePoints' /\ journal \subseteq journal'
    BY <1>5 DEF Commit, SaveRestorePoint, RestorePointFails, CommitWrite
  <1>6. ASSUME NEW r \in Requests, CommitPartial(r) PROVE restorePoints \subseteq restorePoints' /\ journal \subseteq journal'
    BY <1>6 DEF CommitPartial, PartialSkip, PartialCheck, PartialUnsafe, PartialLand, PartialFinish
  <1>7. ASSUME NEW r \in Requests, AgentRuns(r) \/ Post(r) PROVE restorePoints \subseteq restorePoints' /\ journal \subseteq journal'
    BY <1>7 DEF AgentRuns, Post, PostArrives, HandlePost, OnLanded
  <1>8. ASSUME NEW p \in Paths, FallbackTimer(p) \/ RenderTwin(p) PROVE restorePoints \subseteq restorePoints' /\ journal \subseteq journal'
    BY <1>8 DEF FallbackTimer, RenderTwin, OnLanded
  <1>9. CASE SetPaused \/ Dispose \/ Forget \/ ForeignEdit \/ UNCHANGED vars
    BY <1>9 DEF SetPaused, Dispose, Forget, ForeignEdit, vars
  <1> QED BY <1>1, <1>2, <1>3, <1>4, <1>5, <1>6, <1>7, <1>8, <1>9 DEF Next, Handler

\* A request that has arrived keeps its call and the contents it read.
LEMMA RequestStays ==
    ASSUME HandlerOK, ContentsOK, [Next]_vars, NEW q \in Requests, pc[q] # "idle"
    PROVE  call'[q] = call[q] /\ before'[q] = before[q] /\ pc'[q] # "idle"
  <1>1. CASE Same(q)
    BY <1>1 DEF Same
  <1>2. CASE ~Same(q)
    <2>1. Route(q) \/ Handler(q)
      BY <1>2, OneHandler
    <2>2. ~Route(q)
      BY DEF Route, RoutePaused, RoutePolicy, RouteTwin, RouteCode, Arrives
    <2>3. Handler(q)
      BY <2>1, <2>2
    <2>4. call'[q] = call[q] /\ before'[q] = before[q]
      BY <2>3, HandlerFrame
    <2>5. pc'[q] # "idle"
      <3> USE DEF HandlerOK, Goto, Reply
      <3>1. CASE Triage(q) \/ Propose(q)
        BY <3>1 DEF Triage, TriageNothing, TriageCovered, TriageCap, TriageReview, Propose
      <3>2. CASE Resolve(q)
        BY <3>2 DEF Resolve, AfterShutdown, PresenterFails, Decide
      <3>3. CASE Commit(q)
        BY <3>3 DEF Commit, SaveRestorePoint, RestorePointFails, CommitWrite
      <3>4. CASE CommitPartial(q)
        BY <3>4 DEF CommitPartial, PartialSkip, PartialCheck, PartialUnsafe, PartialLand,
                    PartialFinish, NextPartial
      <3> QED BY <2>3, <3>1, <3>2, <3>3, <3>4 DEF Handler
    <2> QED BY <2>4, <2>5
  <1> QED BY <1>1, <1>2

-------------------------------------------------------------------------------
(* Restore points: the steps. *)

LEMMA SecuredStays ==
    ASSUME HandlerOK, ContentsOK, [Next]_vars, NEW q \in Requests, pc[q] # "idle"
    PROVE  /\ Writes(q)' = Writes(q)
           /\ \A i \in DOMAIN Writes(q) :
                 /\ Undoable(q, Writes(q)[i]) => Undoable(q, Writes(q)[i])'
                 /\ Secured(q, i) => Secured(q, i)'
  <1>1. call'[q] = call[q] /\ before'[q] = before[q]
    BY RequestStays
  <1>2. restorePoints \subseteq restorePoints' /\ journal \subseteq journal'
    BY SafetyGrows
  <1> QED BY <1>1, <1>2 DEF Writes, Undoable, Secured

\* Between two of its own steps a commit stays at its write.
LEMMA CommitAtItsWrite ==
    ASSUME HandlerOK, IndexOK, [Next]_vars, NEW q \in Requests,
           pc[q] \in {"saving", "committing"}
    PROVE  Commit(q) \/ (idx'[q] = idx[q] /\ pc'[q] = pc[q] /\ answer'[q] = answer[q])
  <1> USE DEF HandlerOK, IndexOK, Goto, Reply
  <1>1. ASSUME NEW r \in Requests, Route(r)
        PROVE  idx'[q] = idx[q] /\ pc'[q] = pc[q] /\ answer'[q] = answer[q]
    BY <1>1 DEF Route, RoutePaused, RoutePolicy, RouteTwin, RouteCode, Arrives
  <1>2. ASSUME NEW r \in Requests, Triage(r) \/ Propose(r)
        PROVE  idx'[q] = idx[q] /\ pc'[q] = pc[q] /\ answer'[q] = answer[q]
    BY <1>2 DEF Triage, TriageNothing, TriageCovered, TriageCap, TriageReview, Mapped, Propose
  <1>3. ASSUME NEW r \in Requests, Resolve(r)
        PROVE  idx'[q] = idx[q] /\ pc'[q] = pc[q] /\ answer'[q] = answer[q]
    <2>1. CASE AfterShutdown(r) \/ PresenterFails(r)
      BY <2>1 DEF AfterShutdown, PresenterFails, Resolved
    <2>2. ASSUME NEW d \in Decisions(r), Decide(r, d)
          PROVE  idx'[q] = idx[q] /\ pc'[q] = pc[q] /\ answer'[q] = answer[q]
      BY <2>2 DEF Decide, Resolved
    <2> QED BY <1>3, <2>1, <2>2 DEF Resolve
  <1>4. ASSUME NEW r \in Requests, r # q, Commit(r)
        PROVE  idx'[q] = idx[q] /\ pc'[q] = pc[q] /\ answer'[q] = answer[q]
    BY <1>4 DEF Commit, SaveRestorePoint, RestorePointFails, CommitWrite
  <1>5. ASSUME NEW r \in Requests, CommitPartial(r)
        PROVE  idx'[q] = idx[q] /\ pc'[q] = pc[q] /\ answer'[q] = answer[q]
    <2> USE DEF PartialStep, NextPartial
    <2>1. CASE PartialSkip(r) \/ PartialCheck(r)
      BY <2>1 DEF PartialSkip, PartialCheck
    <2>2. CASE PartialUnsafe(r) \/ PartialLand(r) \/ PartialFinish(r)
      BY <2>2 DEF PartialUnsafe, PartialLand, PartialFinish
    <2> QED BY <1>5, <2>1, <2>2 DEF CommitPartial
  <1>6. ASSUME NEW r \in Requests, AgentRuns(r) \/ Post(r)
        PROVE  idx'[q] = idx[q] /\ pc'[q] = pc[q] /\ answer'[q] = answer[q]
    BY <1>6 DEF AgentRuns, Post, PostArrives, HandlePost
  <1>7. ASSUME NEW p \in Paths, FallbackTimer(p) \/ RenderTwin(p)
        PROVE  idx'[q] = idx[q] /\ pc'[q] = pc[q] /\ answer'[q] = answer[q]
    BY <1>7 DEF FallbackTimer, RenderTwin
  <1>8. CASE SetPaused \/ Dispose \/ Forget \/ ForeignEdit \/ UNCHANGED vars
    BY <1>8 DEF SetPaused, Dispose, Forget, ForeignEdit, vars
  <1> QED BY <1>1, <1>2, <1>3, <1>4, <1>5, <1>6, <1>7, <1>8 DEF Next, Handler

\* A write is secured by its restore point and then its note in the journal.
LEMMA CommitSecures ==
    ASSUME HandlerOK, ContentsOK, IndexOK, ProgressOK, [Next]_vars,
           NEW q \in Requests, SecuredSoFar(q), Commit(q)
    PROVE  SecuredSoFar(q)'
  <1> USE DEF HandlerOK, Goto, Reply
  <1>1. pc[q] \in {"saving", "committing", "landing"} /\ answer[q] = "pending"
    BY DEF Commit, SaveRestorePoint, RestorePointFails, CommitWrite, ProgressOK, Progress
  <1>2. /\ Writes(q)' = Writes(q)
        /\ \A i \in DOMAIN Writes(q) : /\ Undoable(q, Writes(q)[i]) => Undoable(q, Writes(q)[i])'
                                       /\ Secured(q, i) => Secured(q, i)'
    BY <1>1, SecuredStays
  <1>3. idx[q] \in DOMAIN Writes(q) /\ idx[q] \in Nat
    BY <1>1 DEF IndexOK
  <1>4. Writes(q)' = Writes(q) /\ idx'[q] = idx[q] => TheWrite(q)' = TheWrite(q)
    BY DEF TheWrite
  <1>5. CASE SaveRestorePoint(q)
    <2>1. pc[q] = "saving" /\ pc'[q] = "committing" /\ idx'[q] = idx[q]
          /\ answer'[q] = "pending"
      BY <1>1, <1>5 DEF SaveRestorePoint
    <2>2. Undoable(q, TheWrite(q))'
      BY <1>2, <1>4, <1>5, <2>1 DEF SaveRestorePoint, Undoable, RestorePoint
    <2> QED BY <1>2, <2>1, <2>2 DEF SecuredSoFar
  <1>6. CASE RestorePointFails(q)
    BY <1>6 DEF RestorePointFails, SecuredSoFar
  <1>7. CASE CommitWrite(q)
    <2>1. pc[q] = "committing" /\ Undoable(q, TheWrite(q))
      BY <1>7 DEF CommitWrite, SecuredSoFar
    <2>2. Note("decided", q, TheWrite(q).path, "decided") \in journal'
      BY <1>7 DEF CommitWrite
    <2>3. ASSUME NEW i \in DOMAIN Writes(q), i = idx[q] PROVE Secured(q, i)'
      <3>1. Undoable(q, Writes(q)[i])'
        BY <1>2, <2>1, <2>3 DEF TheWrite
      <3>2. Note("decided", q, Writes(q)[i].path, "decided") \in journal'
        BY <2>2, <2>3 DEF TheWrite
      <3> QED BY <1>2, <3>1, <3>2 DEF Secured, Note
    <2>4. \A i \in DOMAIN Writes(q) : i < idx[q] => Secured(q, i)'
      BY <1>2, <2>1 DEF SecuredSoFar
    <2>5. \A i \in DOMAIN Writes(q) : i \in Nat /\ i <= Len(Writes(q))
      BY CallInCall DEF Call, Writes
    <2>6. CASE LastWrite(q)
      <3>1. pc'[q] = "done"
        BY <1>7, <2>6 DEF CommitWrite
      <3>2. \A i \in DOMAIN Writes(q) : i < idx[q] \/ i = idx[q]
        BY <1>3, <2>5, <2>6 DEF LastWrite
      <3> QED BY <1>2, <2>3, <2>4, <3>1, <3>2 DEF SecuredSoFar
    <2>7. CASE ~LastWrite(q)
      <3>1. pc'[q] = "saving" /\ idx'[q] = idx[q] + 1 /\ answer'[q] = "pending"
        BY <1>1, <1>7, <2>7 DEF CommitWrite
      <3>2. \A i \in DOMAIN Writes(q) : i < idx[q] + 1 => i < idx[q] \/ i = idx[q]
        BY <1>3, <2>5
      <3> QED BY <1>2, <2>3, <2>4, <3>1, <3>2 DEF SecuredSoFar
    <2> QED BY <2>6, <2>7
  <1> QED BY <1>5, <1>6, <1>7 DEF Commit

LEMMA SecuredStep ==
    ASSUME HandlerOK, ContentsOK, IndexOK, ProgressOK, [Next]_vars, SecuredOK
    PROVE  SecuredOK'
  <1> SUFFICES ASSUME NEW q \in Requests PROVE SecuredSoFar(q)'
    BY DEF SecuredOK
  <1> USE DEF HandlerOK, Goto, Reply
  <1>1. SecuredSoFar(q) /\ Progress(q)
    BY DEF SecuredOK, ProgressOK
  <1>2. CASE pc[q] = "idle"
    <2>1. answer[q] = "pending"
      BY <1>1, <1>2 DEF Progress
    <2>2. CASE Same(q)
      BY <1>2, <2>1, <2>2 DEF Same, SecuredSoFar
    <2>3. CASE Route(q)
      <3> PICK c \in Calls : \/ RoutePaused(q, c) \/ RoutePolicy(q, c)
                             \/ RouteTwin(q, c) \/ RouteCode(q, c)
        BY <2>3 DEF Route
      <3>1. pc'[q] \in {"mapping", "done"} /\ (answer'[q] = "allow" => call'[q].kind = "twin")
        BY <1>2, <2>1 DEF RoutePaused, RoutePolicy, RouteTwin, RouteCode, Arrives
      <3> QED BY <3>1 DEF SecuredSoFar
    <2> QED BY <1>2, <2>2, <2>3, OneHandler, HandlerFrame
  <1>3. CASE pc[q] # "idle" /\ pc[q] \in {"saving", "committing"} /\ ~Commit(q)
    <2>1. idx'[q] = idx[q] /\ pc'[q] = pc[q] /\ answer'[q] = answer[q]
      BY <1>3, CommitAtItsWrite
    <2>2. Writes(q)' = Writes(q) /\ TheWrite(q)' = TheWrite(q)
      BY <1>3, <2>1, SecuredStays DEF TheWrite
    <2>3. idx[q] \in DOMAIN Writes(q) /\ answer[q] = "pending"
      BY <1>1, <1>3 DEF IndexOK, Progress
    <2>4. Undoable(q, TheWrite(q)) => Undoable(q, TheWrite(q))'
      BY <1>3, <2>1, <2>2, <2>3, SecuredStays DEF TheWrite
    <2> QED BY <1>1, <1>3, <2>1, <2>2, <2>3, <2>4, SecuredStays DEF SecuredSoFar
  <1>4. CASE pc[q] # "idle" /\ pc[q] \notin {"saving", "committing"} /\ ~Commit(q)
    <2>1. Writes(q)' = Writes(q) /\ call'[q] = call[q] /\ AllHunks(q)' = AllHunks(q)
      BY <1>4, SecuredStays, RequestStays, SameHunks
    <2>2. CASE Same(q)
      BY <1>1, <1>4, <2>1, <2>2, SecuredStays DEF Same, SecuredSoFar
    <2>3. CASE Handler(q)
      <3>1. pc[q] # "done" /\ answer[q] = "pending"
        BY <1>1, <2>3, HandlerFrame DEF Progress
      <3>2. /\ pc'[q] # "committing"
            /\ pc'[q] = "saving" => idx'[q] = 1
            /\ answer'[q] = "allow" => AllHunks(q) = {}
        <4>1. CASE Triage(q)
          BY <3>1, <4>1 DEF Triage, TriageNothing, TriageCovered, TriageCap, TriageReview
        <4>2. CASE Propose(q)
          BY <3>1, <4>2 DEF Propose
        <4>3. CASE Resolve(q)
          BY <3>1, <4>3 DEF Resolve, AfterShutdown, PresenterFails, Decide, Resolved
        <4>4. CASE CommitPartial(q)
          BY <3>1, <4>4 DEF CommitPartial, PartialStep, PartialSkip, PartialCheck, PartialUnsafe,
                            PartialLand, PartialFinish, NextPartial
        <4> QED BY <1>4, <2>3, <4>1, <4>2, <4>3, <4>4 DEF Handler
      <3>3. \A i \in DOMAIN Writes(q) : ~(i < 1)
        BY CallInCall DEF Call, Writes
      <3> QED BY <2>1, <3>2, <3>3 DEF SecuredSoFar
    <2>4. ~Route(q)
      BY <1>4 DEF Route, RoutePaused, RoutePolicy, RouteTwin, RouteCode, Arrives
    <2> QED BY <2>2, <2>3, <2>4, OneHandler
  <1> QED BY <1>1, <1>2, <1>3, <1>4, CommitSecures

\* What is on disk by ExplainIT's own hand was saved before.
LEMMA LandedStep ==
    ASSUME HandlerOK, ContentsOK, IndexOK, [Next]_vars, LandedOK
    PROVE  LandedOK'
  <1> USE DEF HandlerOK, Goto, Reply, Note
  <1>1. SUFFICES ASSUME NEW e \in LandedNotes', e \notin LandedNotes
                 PROVE  /\ e.req \in Requests
                        /\ pc'[e.req] # "idle"
                        /\ before'[e.req][e.path] # Absent =>
                              [req |-> e.req, path |-> e.path, content |-> before'[e.req][e.path]]
                                  \in restorePoints'
    BY RequestStays, SafetyGrows DEF LandedOK
  <1>2. e \in journal' /\ e \notin journal /\ e.kind = "applied" /\ e.note = "partial"
    BY <1>1 DEF LandedNotes
  <1>3. ASSUME NEW r \in Requests, CommitPartial(r) PROVE PartialLand(r)
    BY <1>2, <1>3 DEF CommitPartial, PartialSkip, PartialCheck, PartialUnsafe, PartialFinish
  <1>4. ASSUME NEW r \in Requests, PartialLand(r)
        PROVE  e.req = r /\ e.path = TheWrite(r).path
    BY <1>2, <1>4 DEF PartialLand
  <1>5. ASSUME NEW r \in Requests, PartialLand(r)
        PROVE  /\ pc[r] = "landing" /\ pc'[r] = "checking" /\ before' = before
               /\ restorePoints' = restorePoints \cup RestorePoint(r, TheWrite(r))
    BY <1>5 DEF PartialLand, PartialStep, NextPartial
  <1>6. \A r \in Requests : ~Route(r) /\ ~Triage(r) /\ ~Propose(r) /\ ~Resolve(r) /\ ~Commit(r)
    <2>1. ASSUME NEW r \in Requests, Route(r) PROVE FALSE
      BY <1>2, <2>1 DEF Route, RoutePaused, RoutePolicy, RouteTwin, RouteCode, Arrives
    <2>2. ASSUME NEW r \in Requests, Triage(r) \/ Propose(r) PROVE FALSE
      BY <1>2, <2>2 DEF Triage, TriageNothing, TriageCovered, TriageCap, TriageReview, Mapped, Propose
    <2>3. ASSUME NEW r \in Requests, Resolve(r) PROVE FALSE
      BY <1>2, <2>3 DEF Resolve, AfterShutdown, PresenterFails, Decide, Resolved, DecidedNotes
    <2>4. ASSUME NEW r \in Requests, Commit(r) PROVE FALSE
      <3>1. CASE SaveRestorePoint(r) \/ RestorePointFails(r)
        BY <1>2, <3>1 DEF SaveRestorePoint, RestorePointFails
      <3>2. CASE CommitWrite(r)
        <4>1. journal' = journal \cup {Note("decided", r, TheWrite(r).path, "decided")}
          BY <3>2 DEF CommitWrite
        <4> QED BY <1>2, <4>1
      <3> QED BY <2>4, <3>1, <3>2 DEF Commit
    <2> QED BY <2>1, <2>2, <2>3, <2>4
  <1>7. \A r \in Requests : ~AgentRuns(r) /\ ~Post(r)
    <2>1. ASSUME NEW r \in Requests, HandlePost(r) PROVE FALSE
      <3> DEFINE p == Touched(r)[idx[r]].path
      <3>1. \/ journal' \subseteq journal \cup {Note("system", r, p, "ignored")}
            \/ journal' = journal \cup {LandedNote(p, expected[p])}
        BY <2>1 DEF HandlePost, OnLanded
      <3> QED BY <1>2, <3>1 DEF LandedNote
    <2> QED BY <1>2, <2>1 DEF AgentRuns, Post, PostArrives
  <1>8. \A p \in Paths : ~FallbackTimer(p) /\ ~RenderTwin(p)
    BY <1>2 DEF FallbackTimer, RenderTwin, OnLanded, LandedNote
  <1>9. ~(SetPaused \/ Dispose \/ Forget \/ ForeignEdit \/ UNCHANGED vars)
    BY <1>2 DEF SetPaused, Dispose, Forget, ForeignEdit, vars
  <1>10. PICK r \in Requests : PartialLand(r)
    BY <1>3, <1>6, <1>7, <1>8, <1>9 DEF Next, Handler
  <1> QED BY <1>4, <1>5, <1>10 DEF RestorePoint

\* Restore points first: the content a change replaces is saved, and the
\* decision journaled, before ExplainIT allows the change (commitAccepted(),
\* every write of it) or writes it itself (commitPartial()); whatever the other
\* requests, the shutdown and the memory do in between.
THEOREM RestorePointsFirst == Spec => []AllowIsUndoable
  <1>1. Init => SecuredOK /\ LandedOK
    BY DEF Init, SecuredOK, SecuredSoFar, LandedOK, LandedNotes
  <1>2. GateInvariant /\ SecuredOK /\ LandedOK /\ [Next]_vars => (SecuredOK /\ LandedOK)'
    BY SecuredStep, LandedStep DEF GateInvariant, TypeOK
  <1>3. GateInvariant /\ SecuredOK /\ LandedOK => AllowIsUndoable
    <2>1. ASSUME SecuredOK, LandedOK, NEW r \in Requests, NEW i \in DOMAIN Writes(r),
                 Note("applied", r, Writes(r)[i].path, "partial") \in journal
          PROVE  Undoable(r, Writes(r)[i])
      BY <2>1 DEF LandedOK, LandedNotes, Note, Undoable
    <2>2. ASSUME GateInvariant, SecuredOK, NEW r \in Requests, AllowedCode(r),
                 NEW i \in DOMAIN Touched(r), Touched(r)[i].path \notin Unreviewed
          PROVE  /\ Undoable(r, Touched(r)[i])
                 /\ Note("decided", r, Touched(r)[i].path, "decided") \in journal
      <3>1. i \in DOMAIN Writes(r) /\ Touched(r)[i] = Writes(r)[i]
        BY <2>2, OnlyReviewed DEF GateInvariant, TypeOK, AllowedCode
      <3> QED BY <2>2, <3>1 DEF SecuredOK, SecuredSoFar, Secured, AllowedCode
    <2> QED BY <2>1, <2>2 DEF AllowIsUndoable
  <1> QED BY <1>1, <1>2, <1>3, Invariance, PTL DEF Spec

-------------------------------------------------------------------------------
(* "Applied" is only ever said of a change that was decided for. *)

InFavour(r) ==
    /\ dec[r].verdict \in {"accept", "partial", "auto"}
    /\ answer[r] \notin {"none", "deny"}

\* Who the journal, and an expectation of it to come, speak about.
FavouredOK ==
    /\ \A p \in Paths : expected[p] # NotExpected /\ ~expected[p].twin =>
          expected[p].req \in Requests /\ InFavour(expected[p].req)
    /\ \A e \in journal : e.kind = "applied" => e.req \in Requests /\ InFavour(e.req)

\* A request decided for stays so: what is left for it is allow, ask, or a
\* denial that says which parts are on disk.
LEMMA FavourStays ==
    ASSUME HandlerOK, ContentsOK, ProgressOK, [Next]_vars, NEW q \in Requests, InFavour(q)
    PROVE  InFavour(q)'
  <1> USE DEF HandlerOK, Goto, Reply
  <1>1. dec[q] # Undecided
    BY DEF InFavour, Undecided
  <1>2. dec'[q] = dec[q]
    BY <1>1, DecisionsStay
  <1>3. pc[q] \notin {"idle", "mapping", "proposing", "waiting"}
    BY <1>1 DEF ProgressOK, Progress
  <1>4. CASE Same(q)
    BY <1>2, <1>4 DEF Same, InFavour
  <1>5. CASE ~Same(q)
    <2>1. Route(q) \/ Handler(q)
      BY <1>5, OneHandler
    <2>2. ~Route(q) /\ ~Triage(q) /\ ~Propose(q) /\ ~Resolve(q)
      BY <1>3 DEF Route, RoutePaused, RoutePolicy, RouteTwin, RouteCode, Arrives, Triage,
                  TriageNothing, TriageCovered, TriageCap, TriageReview, Mapped,
                  Propose, Resolve, AfterShutdown, PresenterFails, Resolved
    <2>3. CASE Commit(q)
      BY <1>2, <2>3 DEF Commit, SaveRestorePoint, RestorePointFails, CommitWrite, InFavour
    <2>4. CASE CommitPartial(q)
      BY <1>2, <2>4 DEF CommitPartial, PartialStep, PartialSkip, PartialCheck, PartialUnsafe,
                        PartialLand, PartialFinish, NextPartial, InFavour
    <2> QED BY <2>1, <2>2, <2>3, <2>4 DEF Handler
  <1> QED BY <1>4, <1>5

\* What a step adds to the journal and to the expectations: a note of another
\* kind, a landing that was expected, or something about a request at work.
NewNotes(who) ==
    \A e \in journal' : e \in journal \/ e.kind # "applied" \/ e.req \in who
ExpectedFor(who) ==
    \A p \in Paths : \/ expected'[p] \in {expected[p], NotExpected}
                     \/ expected'[p].twin
                     \/ expected'[p].req \in who
AtWork(r) == InFavour(r) /\ pc[r] \in {"committing", "landing"}

LEMMA HandlerNotes ==
    ASSUME HandlerOK, ContentsOK, ProgressOK, [Next]_vars, NEW r \in Requests,
           Route(r) \/ Handler(r)
    PROVE  \/ NewNotes({}) /\ ExpectedFor({})
           \/ AtWork(r) /\ NewNotes({r}) /\ ExpectedFor({r})
  <1> USE DEF NewNotes, ExpectedFor, Note
  <1>1. CASE Route(r)
    <2> PICK c \in Calls : \/ RoutePaused(r, c) \/ RoutePolicy(r, c)
                           \/ RouteTwin(r, c) \/ RouteCode(r, c)
      BY <1>1 DEF Route
    <2> QED BY DEF RoutePaused, RoutePolicy, RouteTwin, RouteCode, Arrives
  <1>2. CASE Triage(r) \/ Propose(r)
    BY <1>2 DEF Triage, TriageNothing, TriageCovered, TriageCap, TriageReview, Mapped, Propose
  <1>3. CASE Resolve(r)
    <2>1. CASE AfterShutdown(r) \/ PresenterFails(r)
      BY <2>1 DEF AfterShutdown, PresenterFails, Resolved
    <2>2. ASSUME NEW d \in Decisions(r), Decide(r, d) PROVE NewNotes({}) /\ ExpectedFor({})
      <3>1. expected' = expected /\ (journal' = journal \/ journal' = journal \cup DecidedNotes(r))
        BY <2>2 DEF Decide, Resolved
      <3> QED BY <3>1 DEF DecidedNotes
    <2> QED BY <1>3, <2>1, <2>2 DEF Resolve
  <1>4. CASE Commit(r)
    <2>1. CASE SaveRestorePoint(r) \/ RestorePointFails(r)
      BY <2>1 DEF SaveRestorePoint, RestorePointFails
    <2>2. CASE CommitWrite(r)
      <3>1. /\ pc[r] = "committing"
            /\ journal' = journal \cup {Note("decided", r, TheWrite(r).path, "decided")}
            /\ expected' = ExpectLanding(expected, TheWrite(r).path, After(r, TheWrite(r)), r, FALSE)
        BY <2>2 DEF CommitWrite
      <3>2. AtWork(r)
        BY <3>1 DEF AtWork, InFavour, ProgressOK, Progress, Entitled, HumanAccepted
      <3> QED BY <3>1, <3>2 DEF ExpectLanding, ContentsOK
    <2> QED BY <1>4, <2>1, <2>2 DEF Commit
  <1>5. CASE CommitPartial(r)
    <2> USE DEF PartialStep
    <2>1. CASE PartialSkip(r) \/ PartialCheck(r) \/ PartialUnsafe(r) \/ PartialFinish(r)
      BY <2>1 DEF PartialSkip, PartialCheck, PartialUnsafe, PartialFinish
    <2>2. CASE PartialLand(r)
      <3>1. /\ pc[r] = "landing" /\ expected' = expected
            /\ \/ journal' = journal
               \/ journal' = journal \cup {Note("decided", r, TheWrite(r).path, "decided"),
                                           Note("applied", r, TheWrite(r).path, "partial")}
        BY <2>2 DEF PartialLand
      <3>2. AtWork(r)
        BY <3>1 DEF AtWork, InFavour, ProgressOK, Progress, HumanAccepted
      <3> QED BY <3>1, <3>2
    <2> QED BY <1>5, <2>1, <2>2 DEF CommitPartial
  <1> QED BY <1>1, <1>2, <1>3, <1>4, <1>5 DEF Handler

LEMMA ReportNotes ==
    ASSUME HandlerOK, ContentsOK, IndexOK, [Next]_vars,
           ~\E r \in Requests : Route(r) \/ Handler(r)
    PROVE  /\ ExpectedFor({})
           /\ NewNotes({expected[p].req : p \in {x \in Paths : /\ expected[x] # NotExpected
                                                               /\ ~expected[x].twin}})
  <1> DEFINE who == {expected[p].req : p \in {x \in Paths : /\ expected[x] # NotExpected
                                                            /\ ~expected[x].twin}}
  <1> SUFFICES ExpectedFor({}) /\ NewNotes(who)
    OBVIOUS
  <1> USE DEF NewNotes, ExpectedFor, Note, ContentsOK
  <1>1. ASSUME NEW p \in Paths, expected[p] # NotExpected, OnLanded(p, expected[p])
        PROVE  NewNotes(who)
    <2>1. expected[p].twin \in BOOLEAN
      BY <1>1 DEF Expectation
    <2>2. CASE expected[p].twin
      BY <1>1, <2>2 DEF OnLanded, LandedNote
    <2>3. CASE ~expected[p].twin
      <3>1. expected[p].req \in who
        BY <1>1, <2>3
      <3> HIDE DEF who
      <3> QED BY <1>1, <2>3, <3>1 DEF OnLanded, LandedNote
    <2> QED BY <2>1, <2>2, <2>3
  <1> HIDE DEF who
  <1>2. ASSUME NEW r \in Requests, HandlePost(r) PROVE ExpectedFor({}) /\ NewNotes(who)
    <2> DEFINE p == Touched(r)[idx[r]].path
    <2>1. p \in Paths
      BY <1>2, TouchedWrites DEF HandlePost, IndexOK
    <2>2. CASE expected[p] = NotExpected
      <3>1. /\ expected' = expected
            /\ journal' \subseteq journal \cup {Note("system", r, p, "ignored")}
        BY <1>2, <2>2 DEF HandlePost
      <3> QED BY <3>1
    <2>3. CASE expected[p] # NotExpected
      <3>1. OnLanded(p, expected[p]) /\ expected' = Settled(p)
        BY <1>2, <2>3 DEF HandlePost
      <3> HIDE DEF p
      <3>2. ExpectedFor({})
        BY <3>1 DEF Settled
      <3> QED BY <1>1, <2>1, <2>3, <3>1, <3>2
    <2> QED BY <2>2, <2>3
  <1>3. ASSUME NEW p \in Paths, FallbackTimer(p) PROVE ExpectedFor({}) /\ NewNotes(who)
    <2>1. ExpectedFor({})
      BY <1>3 DEF FallbackTimer, Settled
    <2>2. journal' = journal \/ OnLanded(p, expected[p])
      BY <1>3 DEF FallbackTimer
    <2> QED BY <1>1, <1>3, <2>1, <2>2 DEF FallbackTimer
  <1>4. ASSUME NEW r \in Requests, AgentRuns(r) \/ PostArrives(r)
        PROVE  ExpectedFor({}) /\ NewNotes(who)
    BY <1>4 DEF AgentRuns, PostArrives
  <1>5. ASSUME NEW p \in Paths, RenderTwin(p) PROVE ExpectedFor({}) /\ NewNotes(who)
    BY <1>5 DEF RenderTwin
  <1>6. CASE SetPaused \/ Dispose \/ Forget \/ ForeignEdit \/ UNCHANGED vars
    BY <1>6 DEF SetPaused, Dispose, Forget, ForeignEdit, vars
  <1> QED BY <1>2, <1>3, <1>4, <1>5, <1>6 DEF Next, Post

LEMMA FavouredStep ==
    ASSUME HandlerOK, ContentsOK, IndexOK, ProgressOK, FavouredOK, [Next]_vars
    PROVE  FavouredOK'
  <1>1. ASSUME NEW who \in SUBSET Requests, \A r \in who : InFavour(r),
               NewNotes(who), ExpectedFor(who)
        PROVE  FavouredOK'
    <2>1. \A r \in Requests : InFavour(r) => InFavour(r)'
      BY FavourStays
    <2>2. ASSUME NEW p \in Paths, expected'[p] # NotExpected, ~expected'[p].twin
          PROVE  \E r \in Requests : r = expected'[p].req /\ InFavour(r)'
      <3>1. PICK r \in Requests : r = expected'[p].req /\ InFavour(r)
        BY <1>1, <2>2 DEF ExpectedFor, FavouredOK
      <3> QED BY <2>1, <3>1
    <2>3. ASSUME NEW e \in journal', e.kind = "applied"
          PROVE  \E r \in Requests : r = e.req /\ InFavour(r)'
      BY <1>1, <2>1, <2>3 DEF NewNotes, FavouredOK
    <2> QED BY <2>2, <2>3 DEF FavouredOK, InFavour
  <1>2. CASE \E r \in Requests : Route(r) \/ Handler(r)
    <2> PICK r \in Requests : Route(r) \/ Handler(r)
      BY <1>2
    <2> QED BY <1>1, HandlerNotes DEF AtWork
  <1>3. CASE ~\E r \in Requests : Route(r) \/ Handler(r)
    <2> DEFINE who == {expected[p].req : p \in {x \in Paths : /\ expected[x] # NotExpected
                                                              /\ ~expected[x].twin}}
    <2>1. who \subseteq Requests /\ \A r \in who : InFavour(r)
      BY DEF FavouredOK
    <2>2. NewNotes(who) /\ ExpectedFor({})
      BY <1>3, ReportNotes
    <2>3. ExpectedFor(who)
      BY <2>2 DEF ExpectedFor
    <2> QED BY <1>1, <2>1, <2>2, <2>3
  <1> QED BY <1>2, <1>3

\* Whatever is expected to land, or has, is journaled as decided.
Recorded(r, p) == Note("decided", r, p, "decided") \in journal
RecordedOK ==
    /\ \A p \in Paths : expected[p] # NotExpected /\ ~expected[p].twin =>
          Recorded(expected[p].req, p)
    /\ \A e \in journal : e.kind = "applied" => Recorded(e.req, e.path)

LEMMA RecordedStep ==
    ASSUME HandlerOK, ContentsOK, IndexOK, RecordedOK, [Next]_vars
    PROVE  RecordedOK'
  <1> USE DEF Note, ContentsOK
  <1>0. journal \subseteq journal'
    BY SafetyGrows
  <1> DEFINE Expects == \A p \in Paths : \/ expected'[p] \in {expected[p], NotExpected}
                                        \/ expected'[p].twin
                                        \/ Note("decided", expected'[p].req, p, "decided") \in journal'
             Applies == \A e \in journal' :
                            \/ e \in journal
                            \/ e.kind # "applied"
                            \/ Note("decided", e.req, e.path, "decided") \in journal'
  <1>1. SUFFICES Expects /\ Applies
    BY <1>0 DEF RecordedOK, Recorded
  <1>2. ASSUME NEW p \in Paths, expected[p] # NotExpected, OnLanded(p, expected[p])
        PROVE  Applies
    <2>1. expected[p].twin \in BOOLEAN
      BY <1>2 DEF Expectation
    <2>2. CASE expected[p].twin
      BY <1>2, <2>2 DEF OnLanded, LandedNote
    <2>3. CASE ~expected[p].twin
      <3>1. Note("decided", expected[p].req, p, "decided") \in journal'
        BY <1>0, <1>2, <2>3 DEF RecordedOK, Recorded
      <3>2. \A e \in journal' : e \in journal \/ (e.req = expected[p].req /\ e.path = p)
        BY <1>2, <2>3 DEF OnLanded, LandedNote
      <3> QED BY <3>1, <3>2
    <2> QED BY <2>1, <2>2, <2>3
  <1>3. ASSUME NEW r \in Requests, Route(r) PROVE Expects /\ Applies
    <2> PICK c \in Calls : \/ RoutePaused(r, c) \/ RoutePolicy(r, c)
                           \/ RouteTwin(r, c) \/ RouteCode(r, c)
      BY <1>3 DEF Route
    <2> QED BY DEF RoutePaused, RoutePolicy, RouteTwin, RouteCode, Arrives
  <1>4. ASSUME NEW r \in Requests, Triage(r) \/ Propose(r) PROVE Expects /\ Applies
    BY <1>4 DEF Triage, TriageNothing, TriageCovered, TriageCap, TriageReview, Mapped, Propose
  <1>5. ASSUME NEW r \in Requests, Resolve(r) PROVE Expects /\ Applies
    <2>1. CASE AfterShutdown(r) \/ PresenterFails(r)
      BY <2>1 DEF AfterShutdown, PresenterFails, Resolved
    <2>2. ASSUME NEW d \in Decisions(r), Decide(r, d) PROVE Expects /\ Applies
      <3>1. expected' = expected /\ (journal' = journal \/ journal' = journal \cup DecidedNotes(r))
        BY <2>2 DEF Decide, Resolved
      <3> QED BY <3>1 DEF DecidedNotes
    <2> QED BY <1>5, <2>1, <2>2 DEF Resolve
  <1>6. ASSUME NEW r \in Requests, Commit(r) PROVE Expects /\ Applies
    <2>1. CASE SaveRestorePoint(r) \/ RestorePointFails(r)
      BY <2>1 DEF SaveRestorePoint, RestorePointFails
    <2>2. CASE CommitWrite(r)
      <3> DEFINE w == TheWrite(r)
      <3>1. /\ journal' = journal \cup {Note("decided", r, w.path, "decided")}
            /\ expected' = ExpectLanding(expected, w.path, After(r, w), r, FALSE)
        BY <2>2 DEF CommitWrite
      <3> HIDE DEF w
      <3>2. Expects
        BY <3>1 DEF ExpectLanding
      <3>3. Applies
        BY <3>1
      <3> QED BY <3>2, <3>3
    <2> QED BY <1>6, <2>1, <2>2 DEF Commit
  <1>7. ASSUME NEW r \in Requests, CommitPartial(r) PROVE Expects /\ Applies
    <2> USE DEF PartialStep
    <2>1. CASE PartialSkip(r) \/ PartialCheck(r) \/ PartialUnsafe(r) \/ PartialFinish(r)
      BY <2>1 DEF PartialSkip, PartialCheck, PartialUnsafe, PartialFinish
    <2>2. CASE PartialLand(r)
      BY <2>2 DEF PartialLand
    <2> QED BY <1>7, <2>1, <2>2 DEF CommitPartial
  <1>8. ASSUME NEW r \in Requests, HandlePost(r) PROVE Expects /\ Applies
    <2> DEFINE p == Touched(r)[idx[r]].path
    <2>1. p \in Paths
      BY <1>8, TouchedWrites DEF HandlePost, IndexOK
    <2>2. CASE expected[p] = NotExpected
      <3>1. /\ expected' = expected
            /\ journal' \subseteq journal \cup {Note("system", r, p, "ignored")}
        BY <1>8, <2>2 DEF HandlePost
      <3> QED BY <3>1
    <2>3. CASE expected[p] # NotExpected
      <3>1. OnLanded(p, expected[p]) /\ expected' = Settled(p)
        BY <1>8, <2>3 DEF HandlePost
      <3> HIDE DEF p
      <3>2. Expects
        BY <3>1 DEF Settled
      <3> QED BY <1>2, <2>1, <2>3, <3>1, <3>2
    <2> QED BY <2>2, <2>3
  <1>9. ASSUME NEW p \in Paths, FallbackTimer(p) PROVE Expects /\ Applies
    <2>1. Expects
      BY <1>9 DEF FallbackTimer, Settled
    <2>2. journal' = journal \/ OnLanded(p, expected[p])
      BY <1>9 DEF FallbackTimer
    <2> QED BY <1>2, <1>9, <2>1, <2>2 DEF FallbackTimer
  <1>10. ASSUME NEW r \in Requests, AgentRuns(r) \/ PostArrives(r) PROVE Expects /\ Applies
    BY <1>10 DEF AgentRuns, PostArrives
  <1>11. ASSUME NEW p \in Paths, RenderTwin(p) PROVE Expects /\ Applies
    BY <1>11 DEF RenderTwin
  <1>12. CASE SetPaused \/ Dispose \/ Forget \/ ForeignEdit \/ UNCHANGED vars
    BY <1>12 DEF SetPaused, Dispose, Forget, ForeignEdit, vars
  <1> QED BY <1>3, <1>4, <1>5, <1>6, <1>7, <1>8, <1>9, <1>10, <1>11, <1>12
          DEF Next, Handler, Post

\* What the journal calls applied it calls decided too, for that very file, and
\* the request's review ended in favour of a part of it at least: a report or a
\* timer never turns a refused, an unasked or an open request into an applied
\* one, whatever expectation it settles (landed()).
THEOREM AppliedOnlyWhenDecided == Spec => []AppliedWasDecided
  <1>1. Init => FavouredOK /\ RecordedOK
    BY DEF Init, FavouredOK, RecordedOK
  <1>2. GateInvariant /\ FavouredOK /\ RecordedOK /\ [Next]_vars => (FavouredOK /\ RecordedOK)'
    BY FavouredStep, RecordedStep DEF GateInvariant, TypeOK
  <1>3. FavouredOK /\ RecordedOK => AppliedWasDecided
    BY DEF FavouredOK, RecordedOK, Recorded, InFavour, AppliedWasDecided
  <1> QED BY <1>1, <1>2, <1>3, Invariance, PTL DEF Spec

-------------------------------------------------------------------------------
(* What ExplainIT lands of a partly accepted change. *)

\* Every file of the call is named by one write.  A patch with two sections for
\* one file breaks this (controller.ts keeps the hunks of the later one only).
OneSection(c) ==
    \A i, j \in DOMAIN c.writes : c.writes[i].path = c.writes[j].path => i = j
OneSectionPerFile == \A c \in Calls : OneSection(c)

\* A request being landed carries the ids of the hunks the person chose.
AcceptedOK ==
    \A r \in Requests : pc[r] \in {"checking", "landing"} =>
        dec[r].accepted = AcceptedIds(r, dec[r].chosen)

LEMMA AcceptedStep ==
    ASSUME HandlerOK, ContentsOK, ProgressOK, AcceptedOK, [Next]_vars
    PROVE  AcceptedOK'
  <1> USE DEF HandlerOK, Goto, Reply
  <1>1. SUFFICES ASSUME NEW q \in Requests, pc'[q] \in {"checking", "landing"}
                 PROVE  (dec[q].accepted = AcceptedIds(q, dec[q].chosen))'
    BY DEF AcceptedOK
  <1>2. ASSUME call'[q] = call[q], before'[q] = before[q], dec'[q] = dec[q],
               pc[q] \in {"checking", "landing"}
        PROVE  (dec[q].accepted = AcceptedIds(q, dec[q].chosen))'
    <2>1. AcceptedIds(q, dec[q].chosen)' = AcceptedIds(q, dec[q].chosen)
      BY <1>2 DEF AcceptedIds, HunksAt
    <2> QED BY <1>2, <2>1 DEF AcceptedOK
  <1>3. CASE Same(q)
    BY <1>1, <1>2, <1>3 DEF Same
  <1>4. CASE Route(q)
    BY <1>1, <1>4 DEF Route, RoutePaused, RoutePolicy, RouteTwin, RouteCode, Arrives
  <1>5. CASE Handler(q)
    <2>1. call'[q] = call[q] /\ before'[q] = before[q]
      BY <1>5, HandlerFrame
    <2>2. ~Triage(q) /\ ~Propose(q) /\ ~Commit(q)
      BY <1>1 DEF Triage, TriageNothing, TriageCovered, TriageCap, TriageReview, Mapped, Propose,
                  Commit, SaveRestorePoint, RestorePointFails, CommitWrite
    <2>3. CASE CommitPartial(q)
      <3>1. dec'[q] = dec[q] /\ pc[q] \in {"checking", "landing"}
        BY <2>3 DEF CommitPartial, PartialStep, PartialSkip, PartialCheck, PartialUnsafe,
                    PartialLand, PartialFinish
      <3> QED BY <1>2, <2>1, <3>1
    <2>4. CASE Resolve(q)
      <3>1. PICK d \in Decisions(q) : Decide(q, d)
        BY <1>1, <2>4 DEF Resolve, AfterShutdown, PresenterFails
      <3>2. dec'[q] = d
        BY <3>1 DEF Decide
      <3>3. PICK ch \in SUBSET AllHunks(q), sc \in Scope : d = DecisionOf(q, ch, sc)
        BY DEF Decisions
      <3>4. d.accepted = AcceptedIds(q, d.chosen)
        BY <3>3 DEF DecisionOf
      <3> QED BY <2>1, <3>2, <3>4 DEF AcceptedIds, HunksAt
    <2> QED BY <1>5, <2>2, <2>3, <2>4 DEF Handler
  <1> QED BY <1>3, <1>4, <1>5, OneHandler

\* The ids accepted for a request name exactly the hunks that were chosen.
LEMMA AcceptedIsChosen ==
    ASSUME HandlerOK, ContentsOK, NEW r \in Requests, NEW ch, NEW p \in PathsOf(call[r]),
           NEW i \in DOMAIN HunksAt(r, p)
    PROVE  /\ HunkId(HunksAt(r, p), i) \in AllIds(r)
           /\ HunkId(HunksAt(r, p), i) \in AcceptedIds(r, ch) <=> HunksAt(r, p)[i] \in ch
  <1>1. HunkId(HunksAt(r, p), i) \in AllIds(r)
    BY DEF AllIds, Ids
  <1>2. ASSUME HunksAt(r, p)[i] \in ch PROVE HunkId(HunksAt(r, p), i) \in AcceptedIds(r, ch)
    BY <1>2 DEF AcceptedIds
  <1>3. ASSUME HunkId(HunksAt(r, p), i) \in AcceptedIds(r, ch) PROVE HunksAt(r, p)[i] \in ch
    <2>1. PICK q \in PathsOf(call[r]) :
             \E j \in DOMAIN HunksAt(r, q) : /\ HunksAt(r, q)[j] \in ch
                                             /\ HunkId(HunksAt(r, q), j) = HunkId(HunksAt(r, p), i)
      BY <1>3 DEF AcceptedIds
    <2>2. PICK j \in DOMAIN HunksAt(r, q) : /\ HunksAt(r, q)[j] \in ch
                                            /\ HunkId(HunksAt(r, q), j) = HunkId(HunksAt(r, p), i)
      BY <2>1
    <2>3. HunksAt(r, q)[j].path = q /\ HunksAt(r, p)[i].path = p
      BY HunksAtPath
    <2>4. p = q
      BY <2>2, <2>3 DEF HunkId
    <2>5. i = j
      BY <2>2, <2>4, HunksAtPath, HunkIdsDistinct
    <2> QED BY <2>2, <2>4, <2>5
  <1> QED BY <1>1, <1>2, <1>3

\* Where a file is named once, the hunks shown for it are those of its write.
LEMMA HunksOfTheWrite ==
    ASSUME HandlerOK, NEW r \in Requests, idx[r] \in DOMAIN Writes(r), OneSection(call[r])
    PROVE  HunksAt(r, TheWrite(r).path) = NewHunks(TheWrite(r).edit, before[r][TheWrite(r).path])
  <1> DEFINE c == call[r]
             p == TheWrite(r).path
             Of(i) == /\ c.writes[i].path = p
                      /\ \A j \in DOMAIN c.writes : c.writes[j].path = p => j <= i
  <1>1. c \in Call
    BY CallInCall
  <1>2. idx[r] \in DOMAIN c.writes /\ TheWrite(r) = c.writes[idx[r]] /\ DOMAIN c.writes \subseteq Nat
    BY <1>1 DEF Writes, TheWrite, Call
  <1>3. \A i \in DOMAIN c.writes : c.writes[i].path = p => i = idx[r]
    BY <1>2 DEF OneSection
  <1>4. Of(idx[r])
    BY <1>2, <1>3
  <1>5. (CHOOSE i \in DOMAIN c.writes : Of(i)) = idx[r]
    BY <1>2, <1>3, <1>4
  <1> QED BY <1>2, <1>5 DEF HunksAt, LastWriteTo

LEMMA LandsTheAccepted ==
    ASSUME GateInvariant, AcceptedOK, NEW r \in Requests, OneSection(call[r]), PartialLand(r),
           disk'[TheWrite(r).path] # Absent
    PROVE  /\ disk'[TheWrite(r).path] \ before[r][TheWrite(r).path] \subseteq dec[r].chosen
           /\ dec[r].chosen \cap HunkSet(HunksAt(r, TheWrite(r).path))
                 \subseteq disk'[TheWrite(r).path]
  <1> DEFINE w == TheWrite(r)
             p == w.path
             hs == HunksAt(r, p)
             ch == dec[r].chosen
  <1> USE DEF GateInvariant, TypeOK
  <1>1. pc[r] = "landing" /\ idx[r] \in DOMAIN Writes(r)
    BY DEF PartialLand, PartialStep, IndexOK
  <1>2. p \in Paths /\ p \in PathsOf(call[r]) /\ disk \in [Paths -> Content]
    BY <1>1, CurrentWrite DEF ContentsOK
  <1>3. disk'[p] = Edited(r, w) \ RejectedHunks(r)
    BY <1>2 DEF PartialLand, Reconstruct
  <1>4. hs = NewHunks(w.edit, before[r][p])
    BY <1>1, HunksOfTheWrite
  <1>5. dec[r].accepted = AcceptedIds(r, ch)
    BY <1>1 DEF AcceptedOK
  <1>6. \A i \in DOMAIN hs : /\ HunkId(hs, i) \in AllIds(r)
                             /\ HunkId(hs, i) \in dec[r].accepted <=> hs[i] \in ch
    BY <1>2, <1>5, AcceptedIsChosen
  <1>7. RejectedHunks(r) = {hs[i] : i \in {j \in DOMAIN hs : hs[j] \notin ch}}
    <2>1. {j \in DOMAIN hs : HunkId(hs, j) \in AllIds(r) \ dec[r].accepted}
             = {j \in DOMAIN hs : hs[j] \notin ch}
      BY <1>6
    <2> QED BY <2>1 DEF RejectedHunks, WithVerdict
  <1>8. /\ Edited(r, w) \ before[r][p] \subseteq HunkSet(w.edit) \ before[r][p]
        /\ HunkSet(w.edit) \subseteq Edited(r, w)
    BY DEF Edited, Landed
  <1>9. HunkSet(w.edit) \ before[r][p] \subseteq HunkSet(hs)
    BY <1>4 DEF NewHunks, HunkSet
  <1>10. HunkSet(hs) \subseteq HunkSet(w.edit)
    BY <1>4 DEF NewHunks, HunkSet
  <1>11. disk'[p] \ before[r][p] \subseteq ch
    BY <1>3, <1>7, <1>8, <1>9 DEF HunkSet
  <1>12. ch \cap HunkSet(hs) \subseteq disk'[p]
    BY <1>3, <1>7, <1>8, <1>10
  <1> QED BY <1>11, <1>12

\* What lands of a partly accepted change is what the person accepted: every
\* hunk that is new on disk was chosen, and every chosen hunk of the file is
\* there (commitPartial(), reconstruct()); for every call that names each of its
\* files once.
THEOREM RejectedNeverLands == OneSectionPerFile => (Spec => RejectedStaysOut)
  <1> SUFFICES ASSUME OneSectionPerFile PROVE Spec => RejectedStaysOut
    OBVIOUS
  <1>1. Init => AcceptedOK
    BY DEF Init, AcceptedOK
  <1>2. GateInvariant /\ AcceptedOK /\ [Next]_vars => AcceptedOK'
    BY AcceptedStep DEF GateInvariant, TypeOK
  <1>3. GateInvariant /\ AcceptedOK /\ [Next]_vars =>
           [\A r \in Requests : Lands(r) /\ disk'[TheWrite(r).path] # Absent =>
               /\ disk'[TheWrite(r).path] \ before[r][TheWrite(r).path] \subseteq dec[r].chosen
               /\ dec[r].chosen \cap HunkSet(HunksAt(r, TheWrite(r).path))
                     \subseteq disk'[TheWrite(r).path]]_vars
    <2> SUFFICES ASSUME GateInvariant, AcceptedOK, [Next]_vars, NEW r \in Requests,
                        Lands(r), disk'[TheWrite(r).path] # Absent
                 PROVE  /\ disk'[TheWrite(r).path] \ before[r][TheWrite(r).path]
                              \subseteq dec[r].chosen
                        /\ dec[r].chosen \cap HunkSet(HunksAt(r, TheWrite(r).path))
                              \subseteq disk'[TheWrite(r).path]
      OBVIOUS
    <2>1. Handler(r)
      BY OneHandler DEF GateInvariant, TypeOK, Lands, Same, Route, RoutePaused, RoutePolicy,
                        RouteTwin, RouteCode, Arrives
    <2>2. PartialLand(r)
      BY <2>1 DEF Lands, Handler, Triage, TriageNothing, TriageCovered, TriageCap, TriageReview,
                  Mapped, Propose, Resolve, AfterShutdown, PresenterFails, Resolved, Commit,
                  SaveRestorePoint, RestorePointFails, CommitWrite, CommitPartial, PartialStep,
                  PartialSkip, PartialCheck, PartialUnsafe, PartialFinish, Goto, Reply,
                  GateInvariant, TypeOK, HandlerOK
    <2>3. OneSection(call[r])
      BY DEF OneSectionPerFile, GateInvariant, TypeOK, HandlerOK, NoCall, OneSection
    <2> QED BY <2>2, <2>3, LandsTheAccepted
  <1> QED BY <1>1, <1>2, <1>3, Invariance, PTL DEF Spec, RejectedStaysOut

=============================================================================
