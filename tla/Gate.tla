--------------------------------- MODULE Gate ---------------------------------
(***************************************************************************)
(* The checkpoint's controller (src/gate/controller.ts): every tool call   *)
(* of an assistant is answered allow, deny, ask or none, after a review by *)
(* the person unless the decision memory covers it.  A handler is an async *)
(* function: one action per stretch between two awaits, pc[r] saying at    *)
(* which await request r is.  All stretches run on one thread, so an       *)
(* action is atomic and any two awaits interleave.                         *)
(***************************************************************************)
EXTENDS DecisionMemory

CONSTANTS
    Requests,     \* identities of the hook calls of one run
    Calls,        \* the tool calls an assistant may make, see Call
    TwinPaths,    \* the twin files among Paths
    TwinOf,       \* the twin file of every path (a twin is its own twin)
    Outside,      \* the files among Paths outside every workspace folder
    NewFiles,     \* the files that do not exist at first
    ForeignHunks, \* changes somebody else may make to a file meanwhile
    MaxPending,   \* MAX_PENDING_PER_SESSION, 20
    MaxToggles,   \* bound: how often the person pauses or resumes
    MaxEdits      \* bound: how many changes somebody else makes

Session == Sessions \cup {NoSession}
Kind == {"code", "twin", "policy"}
Write == {w \in [path : Paths, kind : {"modify", "delete"}, edit : Seq(Hunk)] :
             \A i \in DOMAIN w.edit : w.edit[i].path = w.path}

(***************************************************************************)
(* What a call writes, as route() splits it: of a patch that mixes code    *)
(* inside the workspace with twins or with files outside, only the former  *)
(* (writes) go to review(); the others (besides) are put to nobody.        *)
(***************************************************************************)
Unreviewed == TwinPaths \cup Outside
Call == [kind : Kind, session : Session, writes : Seq(Write), besides : Seq(Write)]
Splits(c) ==
    c.kind = "code" =>
        /\ \A i \in DOMAIN c.writes : c.writes[i].path \notin Unreviewed
        /\ \A i \in DOMAIN c.besides : c.besides[i].path \in Unreviewed
NoCall == [kind |-> "policy", session |-> NoSession, writes |-> <<>>, besides |-> <<>>]

Verdict == {"undecided", "accept", "partial", "reject", "auto"}
Scope == {"one", "file", "session"}
Decision == [verdict : Verdict, scope : Scope, accepted : SUBSET HunkIds, chosen : SUBSET Hunk]
Undecided == [verdict |-> "undecided", scope |-> "one", accepted |-> {}, chosen |-> {}]
AutoAccept == [verdict |-> "auto", scope |-> "session", accepted |-> {}, chosen |-> {}]

PC == {"idle", "mapping", "proposing", "waiting", "saving", "committing",
       "checking", "landing", "done"}
\* "denyPartial": the accepted parts are on disk; "denyUnwritten": "ExplainIT
\* did not write anything".
Answer == {"pending", "none", "allow", "ask", "deny", "denyPartial", "denyUnwritten"}
Tool == {"idle", "ran", "posting", "reported"}

Expectation == [hash : Content, req : Requests, twin : BOOLEAN]
NotExpected == [twin |-> FALSE]

ASSUME CallsAssumption == Calls \subseteq Call /\ \A c \in Calls : Splits(c)
ASSUME TwinOfAssumption == TwinPaths \subseteq Paths /\ TwinOf \in [Paths -> Paths]
ASSUME FilesAssumption ==
    NewFiles \subseteq Paths /\ Outside \subseteq Paths /\ ForeignHunks \subseteq Hunk
ASSUME BoundsAssumption ==
    /\ MaxPending \in Nat \ {0}
    /\ MaxToggles \in Nat
    /\ MaxEdits \in Nat
    /\ IsFiniteSet(Requests)

VARIABLES
    paused, disposed,
    pendingHuman,       \* reviews waiting for the person
    pendingBySession,   \* the same, per session
    expected,           \* path -> the allowed write the gate waits to see land
    call, before, pc, idx, dec, answer,   \* per request: the handler's state
    tool,               \* per request: the assistant's tool and its PostToolUse
    disk,               \* path -> content
    renders,            \* twins ExplainIT is about to re-render
    restorePoints, journal,
    toggles, edits

counters == <<pendingHuman, pendingBySession>>
handler == <<call, before, pc, idx, dec, answer>>
safety == <<restorePoints, journal>>
world == <<disk, edits, renders>>
switch == <<paused, disposed, toggles>>
vars == <<counters, handler, safety, world, switch, expected, tool, memVars>>

-------------------------------------------------------------------------------
(* What a request consists of. *)

Writes(r) == call[r].writes
PathsOf(c) == {c.writes[i].path : i \in DOMAIN c.writes}
TheWrite(r) == Writes(r)[idx[r]]
LastWrite(r) == idx[r] = Len(Writes(r))

\* The call as the assistant's tool runs it, and reports it afterwards.
WholeCall(r) == [call[r] EXCEPT !.writes = @ \o call[r].besides]
Touched(r) == WholeCall(r).writes

(***************************************************************************)
(* A patch may have two sections for one file; hunksByPath keeps the hunks *)
(* of the later one, computed like those of the earlier one against the    *)
(* content read on arrival.                                                *)
(***************************************************************************)
LastWriteTo(c, p) ==
    c.writes[CHOOSE i \in DOMAIN c.writes :
                /\ c.writes[i].path = p
                /\ \A j \in DOMAIN c.writes : c.writes[j].path = p => j <= i]
HunksAt(r, p) == NewHunks(LastWriteTo(call[r], p).edit, before[r][p])
HunksByPath(r) == [p \in PathsOf(call[r]) |-> HunksAt(r, p)]
AllHunks(r) == UNION {HunkSet(HunksAt(r, p)) : p \in PathsOf(call[r])}
Edited(r, w) == Landed(before[r][w.path], HunkSet(w.edit))
After(r, w) == IF w.kind = "delete" THEN Absent ELSE Edited(r, w)
Identical(r) == \A i \in DOMAIN Writes(r) :
                    After(r, Writes(r)[i]) = before[r][Writes(r)[i].path]

Bucket(r) == call[r].session
Ids(hs) == {HunkId(hs, i) : i \in DOMAIN hs}

(***************************************************************************)
(* The Decisions the review can return: chosen is the set of hunks whose   *)
(* card the person accepted.  "Rest of file" is reported only when it was  *)
(* used, hence a card accepted, in every file.  (ReviewPanel has the cards *)
(* and shows that its decisions are among these.)                          *)
(***************************************************************************)
ScopeAllowed(sc, r, chosen) ==
    \/ sc = "one"
    \/ sc = "file" /\ \A p \in PathsOf(call[r]) : HunkSet(HunksAt(r, p)) \cap chosen # {}
    \/ sc = "session" /\ chosen # {}

AcceptedIds(r, chosen) ==
    UNION {LET hs == HunksAt(r, p)
           IN  {HunkId(hs, i) : i \in {j \in DOMAIN hs : hs[j] \in chosen}} :
             p \in PathsOf(call[r])}
DecisionOf(r, ch, sc) ==
    [verdict |-> IF ch = {} THEN "reject" ELSE IF ch = AllHunks(r) THEN "accept" ELSE "partial",
     scope |-> sc, accepted |-> AcceptedIds(r, ch), chosen |-> ch]
Decisions(r) ==
    UNION {{DecisionOf(r, ch, sc) : sc \in {x \in Scope : ScopeAllowed(x, r, ch)}} :
             ch \in SUBSET AllHunks(r)}

\* normalizeVerdict: verdicts that all agree are not partial.
AllIds(r) == UNION {Ids(HunksAt(r, p)) : p \in PathsOf(call[r])}
\* Fault: one accepted hunk makes the whole request accepted.
AnyAcceptedIsAccept(d, r) ==
    IF d.verdict = "auto" \/ AllIds(r) \cap d.accepted # {} THEN "accept" ELSE "reject"
NormalizeVerdict(d, r) ==
    IF d.verdict = "auto" \/ AllIds(r) \subseteq d.accepted THEN "accept"
    ELSE IF AllIds(r) \cap d.accepted = {} THEN "reject"
    ELSE "partial"

-------------------------------------------------------------------------------
(* Effects the handlers share. *)

Goto(r, where) == pc' = [pc EXCEPT ![r] = where]
Reply(r, a) ==
    /\ answer' = [answer EXCEPT ![r] = a]
    /\ Goto(r, "done")

Note(kind, r, p, note) == [kind |-> kind, req |-> r, path |-> p, note |-> note]
DecidedNotes(r) == {Note("decided", r, p, "decided") : p \in PathsOf(call[r])}

\* Fault: an expectation is dropped only once its content is on disk.
SettledWhenMatching(p) ==
    IF disk[p] = expected[p].hash THEN [expected EXCEPT ![p] = NotExpected] ELSE expected
Settled(p) == [expected EXCEPT ![p] = NotExpected]
ExpectLanding(exp, p, hash, r, twin) ==
    [exp EXCEPT ![p] = [hash |-> hash, req |-> r, twin |-> twin]]

TakeSlot(b) ==
    /\ pendingHuman' = pendingHuman + 1
    /\ pendingBySession' = [pendingBySession EXCEPT ![b] = @ + 1]
ReleaseSlot(b) ==
    /\ pendingHuman' = pendingHuman - 1
    /\ pendingBySession' = [pendingBySession EXCEPT ![b] = @ - 1]

\* Fault: a file about to be deleted gets no restore point.
RestorePointOfModified(r, w) ==
    IF before[r][w.path] = Absent \/ w.kind = "delete" THEN {}
    ELSE {[req |-> r, path |-> w.path, content |-> before[r][w.path]]}
RestorePoint(r, w) ==
    IF before[r][w.path] = Absent THEN {}
    ELSE {[req |-> r, path |-> w.path, content |-> before[r][w.path]]}

\* landed(): an expected write is on disk; twins are re-rendered, code is compared.
\* Fault: a twin's landing is journaled like a code write.
LandedAsCode(p, e) ==
    Note("applied", e.req, p, IF disk[p] = e.hash THEN "match" ELSE "mismatch")
LandedNote(p, e) ==
    IF e.twin THEN Note("system", e.req, p, "twin")
    ELSE Note("applied", e.req, p, IF disk[p] = e.hash THEN "match" ELSE "mismatch")
UpdateTwin(p) == renders' = renders \cup ({TwinOf[p]} \cap TwinPaths)
OnLanded(p, e) ==
    /\ journal' = journal \cup {LandedNote(p, e)}
    /\ UpdateTwin(p)

-------------------------------------------------------------------------------
(* route(): paused, decided by policy alone, twin writes only, code. *)

Arrives(r, c) ==
    /\ pc[r] = "idle"
    /\ ~disposed
    /\ call' = [call EXCEPT ![r] = c]
    /\ UNCHANGED <<counters, safety, world, switch, tool, memVars, idx, dec>>

RoutePaused(r, c) ==
    /\ paused
    /\ Arrives(r, c)
    /\ Reply(r, "none")
    /\ UNCHANGED <<expected, before>>

\* Irrelevant tools, shell commands, notebooks, protected paths, calls with no
\* write inside the workspace, twins that do not parse, changes too big to review.
RoutePolicy(r, c) ==
    /\ ~paused
    /\ c.kind = "policy"
    /\ Arrives(r, c)
    /\ \E a \in {"none", "deny", "ask"} : Reply(r, a)
    /\ UNCHANGED <<expected, before>>

RouteTwin(r, c) ==
    /\ ~paused
    /\ c.kind = "twin"
    /\ Arrives(r, c)
    /\ expected' = [p \in Paths |->
           IF p \in PathsOf(c)
           THEN [hash |-> HunkSet(LastWriteTo(c, p).edit), req |-> r, twin |-> TRUE]
           ELSE expected[p]]
    /\ Reply(r, "allow")
    /\ UNCHANGED before

\* What the call writes besides is neither checked nor shown from here on.
\* The files are read now; the function maps of both sides are awaited next.
Buildable(c) == \A i \in DOMAIN c.writes :
                    c.writes[i].kind = "delete" => disk[c.writes[i].path] # Absent
RouteCode(r, c) ==
    /\ ~paused
    /\ c.kind = "code"
    /\ Arrives(r, c)
    /\ IF Buildable(c)
       THEN /\ before' = [before EXCEPT ![r] =
                             [p \in Paths |-> IF p \in PathsOf(c) THEN disk[p] ELSE Absent]]
            /\ Goto(r, "mapping")
            /\ UNCHANGED answer
       ELSE Reply(r, "none") /\ UNCHANGED before
    /\ UNCHANGED expected

-------------------------------------------------------------------------------
(* review(): up to the question to the person. *)

Covered(r) ==
    /\ Bucket(r) # NoSession
    /\ \A p \in PathsOf(call[r]) : \A id \in Ids(HunksAt(r, p)) : Lookup(Bucket(r), p, id)

Mapped(r) ==
    /\ pc[r] = "mapping"
    /\ UNCHANGED <<safety, world, switch, expected, tool, memVars, call, before>>

TriageNothing(r) ==
    /\ Mapped(r)
    /\ AllHunks(r) = {}
    /\ Reply(r, IF Identical(r) THEN "allow" ELSE "none")
    /\ UNCHANGED <<counters, idx, dec>>

TriageCovered(r) ==
    /\ Mapped(r)
    /\ AllHunks(r) # {}
    /\ Covered(r)
    /\ dec' = [dec EXCEPT ![r] = AutoAccept]
    /\ idx' = [idx EXCEPT ![r] = 1]
    /\ Goto(r, "saving")
    /\ UNCHANGED <<counters, answer>>

AtCap(r) == pendingBySession[Bucket(r)] >= MaxPending

TriageCap(r) ==
    /\ Mapped(r)
    /\ AllHunks(r) # {}
    /\ ~Covered(r)
    /\ AtCap(r)
    /\ Reply(r, "ask")
    /\ UNCHANGED <<counters, idx, dec>>

TriageReview(r) ==
    /\ Mapped(r)
    /\ AllHunks(r) # {}
    /\ ~Covered(r)
    /\ ~AtCap(r)
    /\ TakeSlot(Bucket(r))
    /\ Goto(r, "proposing")
    /\ UNCHANGED <<idx, dec, answer>>

Propose(r) ==
    /\ pc[r] = "proposing"
    /\ journal' = journal \cup {Note("proposed", r, p, "proposed") : p \in PathsOf(call[r])}
    /\ Goto(r, "waiting")
    /\ UNCHANGED <<counters, call, before, idx, dec, answer, restorePoints,
                   world, switch, expected, tool, memVars>>

-------------------------------------------------------------------------------
(* The review resolves; what the verdict makes of the request. *)

\* Fault: the shutdown is not looked at after the await.
ShutdownUnnoticed == FALSE
ShutdownDuringReview == disposed

\* Fault: a review that resolves after the shutdown is not taken up.
ResolvedWhileRunning(r) ==
    /\ pc[r] = "waiting"
    /\ ~disposed
    /\ ReleaseSlot(Bucket(r))
    /\ UNCHANGED <<call, before, world, switch, expected, tool, restorePoints>>

\* The slot is released in a finally, before the verdict is looked at.
Resolved(r) ==
    /\ pc[r] = "waiting"
    /\ ReleaseSlot(Bucket(r))
    /\ UNCHANGED <<call, before, world, switch, expected, tool, restorePoints>>

AfterShutdown(r) ==
    /\ Resolved(r)
    /\ ShutdownDuringReview
    /\ Reply(r, "ask")
    /\ UNCHANGED <<idx, dec, journal, memVars>>

PresenterFails(r) ==
    /\ Resolved(r)
    /\ Reply(r, "ask")
    /\ UNCHANGED <<idx, dec, journal, memVars>>

Decide(r, d) ==
    /\ Resolved(r)
    /\ ~ShutdownDuringReview
    /\ dec' = [dec EXCEPT ![r] = d]
    /\ idx' = [idx EXCEPT ![r] = 1]
    /\ CASE NormalizeVerdict(d, r) = "accept" ->
               Goto(r, "saving") /\ UNCHANGED <<answer, journal, memVars>>
         [] NormalizeVerdict(d, r) = "partial" ->
               Goto(r, "checking") /\ UNCHANGED <<answer, journal, memVars>>
         [] OTHER ->
               /\ journal' = journal \cup DecidedNotes(r)
               /\ Remember(d, Bucket(r), HunksByPath(r))
               /\ Reply(r, "deny")

-------------------------------------------------------------------------------
(* commitAccepted(): per write a restore point, the journal, the expectation. *)

SaveRestorePoint(r) ==
    /\ pc[r] = "saving"
    /\ restorePoints' = restorePoints \cup RestorePoint(r, TheWrite(r))
    /\ Goto(r, "committing")
    /\ UNCHANGED <<counters, call, before, idx, dec, answer, journal, world,
                   switch, expected, tool, memVars>>

\* The restore point cannot be saved: handle() answers ask.  What earlier
\* writes of the same request left behind stays.
RestorePointFails(r) ==
    /\ pc[r] \in {"saving", "landing"}
    /\ before[r][TheWrite(r).path] # Absent
    /\ Reply(r, "ask")
    /\ UNCHANGED <<counters, call, before, idx, dec, safety, world, switch,
                   expected, tool, memVars>>

CommitWrite(r) ==
    LET w == TheWrite(r) IN
    /\ pc[r] = "committing"
    /\ journal' = journal \cup {Note("decided", r, w.path, "decided")}
    /\ expected' = ExpectLanding(expected, w.path, After(r, w), r, FALSE)
    /\ IF LastWrite(r)
       THEN /\ Remember(dec[r], Bucket(r), HunksByPath(r))
            /\ Reply(r, "allow")
            /\ UNCHANGED idx
       ELSE /\ idx' = [idx EXCEPT ![r] = @ + 1]
            /\ Goto(r, "saving")
            /\ UNCHANGED <<answer, memVars>>
    /\ UNCHANGED <<counters, call, before, dec, restorePoints, world, switch, tool>>

-------------------------------------------------------------------------------
(* commitPartial(): ExplainIT lands the accepted hunks itself. *)

PartialStep(r, where) ==
    /\ pc[r] = where
    /\ UNCHANGED <<counters, call, before, dec, edits, switch, expected, tool>>

WithVerdict(r, ids) ==
    LET hs == HunksAt(r, TheWrite(r).path)
    IN  {hs[i] : i \in {j \in DOMAIN hs : HunkId(hs, j) \in ids}}
AcceptedHunks(r) == WithVerdict(r, dec[r].accepted)
\* Fault: the reconstruction reverts no hunk.
RevertsNothing(r) == {}
RejectedHunks(r) == WithVerdict(r, AllIds(r) \ dec[r].accepted)

\* reconstruct: the proposed text with every rejected hunk reverted.
Reconstruct(r, w) == Edited(r, w) \ RejectedHunks(r)
NextPartial(r) == Goto(r, "checking") /\ idx' = [idx EXCEPT ![r] = @ + 1]

PartialSkip(r) ==
    /\ PartialStep(r, "checking")
    /\ idx[r] <= Len(Writes(r))
    /\ AcceptedHunks(r) = {}
    /\ NextPartial(r)
    /\ UNCHANGED <<answer, safety, disk, renders, memVars>>

PartialCheck(r) ==
    LET p == TheWrite(r).path IN
    /\ PartialStep(r, "checking")
    /\ idx[r] <= Len(Writes(r))
    /\ AcceptedHunks(r) # {}
    /\ IF disk[p] = before[r][p]
       THEN Goto(r, "landing") /\ UNCHANGED <<answer, journal>>
       ELSE /\ journal' = journal \cup {Note("decided", r, p, "notApplied")}
            /\ Reply(r, "denyUnwritten")
    /\ UNCHANGED <<idx, restorePoints, disk, renders, memVars>>

\* After the restore point the path turns out to be a symbolic link or elsewhere.
PartialUnsafe(r) ==
    LET w == TheWrite(r) IN
    /\ PartialStep(r, "landing")
    /\ restorePoints' = restorePoints \cup RestorePoint(r, w)
    /\ journal' = journal \cup {Note("decided", r, w.path, "notApplied")}
    /\ Reply(r, "denyUnwritten")
    /\ UNCHANGED <<idx, disk, renders, memVars>>

PartialLand(r) ==
    LET w == TheWrite(r) IN
    /\ PartialStep(r, "landing")
    /\ restorePoints' = restorePoints \cup RestorePoint(r, w)
    /\ IF w.kind = "delete" /\ RejectedHunks(r) = {}
       THEN /\ disk' = [disk EXCEPT ![w.path] = Absent]
            /\ UNCHANGED <<journal, renders>>
       ELSE /\ disk' = [disk EXCEPT ![w.path] = Reconstruct(r, w)]
            /\ journal' = journal \cup {Note("decided", r, w.path, "decided"),
                                        Note("applied", r, w.path, "partial")}
            /\ UpdateTwin(w.path)
    /\ NextPartial(r)
    /\ UNCHANGED <<answer, memVars>>

PastAllWrites(r) == idx[r] > Len(Writes(r))

PartialFinish(r) ==
    /\ PartialStep(r, "checking")
    /\ PastAllWrites(r)
    /\ Remember(dec[r], Bucket(r), HunksByPath(r))
    /\ Reply(r, "denyPartial")
    /\ UNCHANGED <<idx, safety, disk, renders>>

-------------------------------------------------------------------------------
(* The assistant's tool runs, and its PostToolUse hook reports it. *)

\* External: the assistant applies its edits to the files as they are now.
EditsTo(r, p) ==
    UNION {HunkSet(Touched(r)[i].edit) : i \in {j \in DOMAIN Touched(r) : Touched(r)[j].path = p}}
AgentRuns(r) ==
    /\ pc[r] = "done"
    /\ tool[r] = "idle"
    /\ answer[r] \in {"allow", "none", "ask"}
    /\ Touched(r) # <<>>
    /\ disk' = [p \in Paths |->
           IF p \notin PathsOf(WholeCall(r)) THEN disk[p]
           ELSE IF LastWriteTo(WholeCall(r), p).kind = "delete" THEN Absent
           ELSE Landed(disk[p], EditsTo(r, p))]
    /\ tool' = [tool EXCEPT ![r] = "ran"]
    /\ idx' = [idx EXCEPT ![r] = 1]
    /\ UNCHANGED <<counters, call, before, pc, dec, answer, safety, edits, renders,
                   switch, expected, memVars>>

PostArrives(r) ==
    /\ tool[r] = "ran"
    /\ ~disposed
    /\ tool' = [tool EXCEPT ![r] = IF paused THEN "reported" ELSE "posting"]
    /\ UNCHANGED <<counters, handler, safety, world, switch, expected, memVars>>

\* One path of the report: honoured only when its landing is expected; noted
\* otherwise, where there is a journal to note it in.
HandlePost(r) ==
    LET p == Touched(r)[idx[r]].path
        e == expected[p]
    IN
    /\ tool[r] = "posting"
    /\ IF e = NotExpected
       THEN /\ journal' = journal \cup
                     (IF p \in Outside THEN {} ELSE {Note("system", r, p, "ignored")})
            /\ UNCHANGED <<expected, renders>>
       ELSE /\ OnLanded(p, e)
            /\ expected' = Settled(p)
    /\ IF idx[r] = Len(Touched(r))
       THEN tool' = [tool EXCEPT ![r] = "reported"] /\ UNCHANGED idx
       ELSE idx' = [idx EXCEPT ![r] = @ + 1] /\ UNCHANGED tool
    /\ UNCHANGED <<counters, call, before, pc, dec, answer, restorePoints, disk,
                   edits, switch, memVars>>

\* Ten seconds after the expectation was set, without a PostToolUse.
FallbackTimer(p) ==
    LET e == expected[p] IN
    /\ e # NotExpected
    /\ expected' = Settled(p)
    /\ IF disk[p] # Absent /\ (e.twin \/ disk[p] = e.hash)
       THEN OnLanded(p, e)
       ELSE UNCHANGED <<journal, renders>>
    /\ UNCHANGED <<counters, handler, restorePoints, disk, edits, switch, tool, memVars>>

-------------------------------------------------------------------------------
(* Around the requests: the kill switch, shutdown, time, other writers. *)

SetPaused ==
    /\ toggles < MaxToggles
    /\ ~disposed
    /\ paused' = ~paused
    /\ toggles' = toggles + 1
    /\ ClearAll
    /\ UNCHANGED <<disposed, counters, handler, safety, world, expected, tool>>

Dispose ==
    /\ ~disposed
    /\ disposed' = TRUE
    /\ expected' = [p \in Paths |-> NotExpected]
    /\ UNCHANGED <<paused, toggles, counters, handler, safety, world, tool, memVars>>

Forget ==
    /\ Expire
    /\ UNCHANGED <<counters, handler, safety, world, switch, expected, tool>>

\* External: another tool, another assistant or the person edits a file.
ForeignEdit ==
    /\ edits < MaxEdits
    /\ edits' = edits + 1
    /\ \E h \in ForeignHunks :
          disk' = [disk EXCEPT ![h.path] = Landed(@, {h})]
    /\ UNCHANGED <<counters, handler, safety, renders, switch, expected, tool, memVars>>

\* External: the twin engine writes its own rendering over the twin file.
RenderTwin(p) ==
    /\ p \in renders
    /\ disk' = [disk EXCEPT ![p] = {}]
    /\ renders' = renders \ {p}
    /\ UNCHANGED <<counters, handler, safety, edits, switch, expected, tool, memVars>>

-------------------------------------------------------------------------------
Init ==
    /\ paused = FALSE
    /\ disposed = FALSE
    /\ pendingHuman = 0
    /\ pendingBySession = [b \in Session |-> 0]
    /\ expected = [p \in Paths |-> NotExpected]
    /\ call = [r \in Requests |-> NoCall]
    /\ before = [r \in Requests |-> [p \in Paths |-> Absent]]
    /\ pc = [r \in Requests |-> "idle"]
    /\ idx = [r \in Requests |-> 1]
    /\ dec = [r \in Requests |-> Undecided]
    /\ answer = [r \in Requests |-> "pending"]
    /\ tool = [r \in Requests |-> "idle"]
    /\ disk = [p \in Paths |-> IF p \in NewFiles THEN Absent ELSE {}]
    /\ renders = {}
    /\ restorePoints = {}
    /\ journal = {}
    /\ toggles = 0
    /\ edits = 0
    /\ MemInit

Route(r) == \E c \in Calls : RoutePaused(r, c) \/ RoutePolicy(r, c)
                               \/ RouteTwin(r, c) \/ RouteCode(r, c)
Triage(r) == TriageNothing(r) \/ TriageCovered(r) \/ TriageCap(r) \/ TriageReview(r)
Resolve(r) == \/ AfterShutdown(r)
              \/ PresenterFails(r)
              \/ pc[r] = "waiting" /\ \E d \in Decisions(r) : Decide(r, d)
Commit(r) == SaveRestorePoint(r) \/ RestorePointFails(r) \/ CommitWrite(r)
CommitPartial(r) == PartialSkip(r) \/ PartialCheck(r) \/ PartialUnsafe(r)
                      \/ PartialLand(r) \/ PartialFinish(r)
Post(r) == PostArrives(r) \/ HandlePost(r)
Handler(r) == Triage(r) \/ Propose(r) \/ Resolve(r) \/ Commit(r) \/ CommitPartial(r)

Next ==
    \/ \E r \in Requests : Route(r) \/ Handler(r) \/ AgentRuns(r) \/ Post(r)
    \/ \E p \in Paths : FallbackTimer(p) \/ RenderTwin(p)
    \/ SetPaused
    \/ Dispose
    \/ Forget
    \/ ForeignEdit

Spec == Init /\ [][Next]_vars

(***************************************************************************)
(* Fairness: a handler's awaits settle (every one has a timeout), timers   *)
(* fire, renderings end, a PostToolUse that was sent is handled, and the   *)
(* person decides or closes an open review.  Nothing makes the assistant   *)
(* call, run its tool, or the person pause.                                *)
(***************************************************************************)
Fairness ==
    /\ \A r \in Requests : WF_vars(Handler(r)) /\ WF_vars(Post(r))
    /\ \A p \in Paths : WF_vars(FallbackTimer(p)) /\ WF_vars(RenderTwin(p))

FairSpec == Spec /\ Fairness
=============================================================================
