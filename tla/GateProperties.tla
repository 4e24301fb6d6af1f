---------------------------- MODULE GateProperties ----------------------------
(***************************************************************************)
(* What the checkpoint of Gate.tla must, and must not, do.                 *)
(***************************************************************************)
EXTENDS Gate

SwitchOK ==
    /\ paused \in BOOLEAN /\ disposed \in BOOLEAN
    /\ toggles \in 0..MaxToggles /\ edits \in 0..MaxEdits
CountersOK ==
    /\ pendingHuman \in Nat
    /\ pendingBySession \in [Session -> Nat]
HandlerOK ==
    /\ call \in [Requests -> Calls \cup {NoCall}]
    /\ pc \in [Requests -> PC]
    /\ idx \in [Requests -> Nat \ {0}]
    /\ dec \in [Requests -> Decision]
    /\ answer \in [Requests -> Answer]
    /\ tool \in [Requests -> Tool]
ContentsOK ==
    /\ before \in [Requests -> [Paths -> Content]]
    /\ disk \in [Paths -> Content]
    /\ expected \in [Paths -> Expectation \cup {NotExpected}]
    /\ renders \subseteq TwinPaths

\* Every variable holds values of its kind; in particular a slot is never
\* released that was not taken, and a remembered hunk is one of a real file.
TypeOK == SwitchOK /\ CountersOK /\ HandlerOK /\ ContentsOK /\ MemoryOK

-------------------------------------------------------------------------------
(* Safety. *)

HumanAccepted(r) == dec[r].verdict \in {"accept", "partial"}
Waiting(r) == pc[r] \in {"proposing", "waiting"}
SameSession(r, q) == call[r].session # NoSession /\ call[r].session = call[q].session

\* The counters the cap reads are exactly the reviews that wait, and the cap
\* holds however the hook calls of a session interleave (review(), the slot is
\* taken and released around two awaits).
PendingMatchesReviews ==
    /\ \A b \in Session :
          /\ pendingBySession[b] = Cardinality({r \in Requests : Waiting(r) /\ Bucket(r) = b})
          /\ pendingBySession[b] <= MaxPending
    /\ pendingHuman = Cardinality({r \in Requests : Waiting(r)})

\* Of a call that is allowed and alters code, every write the tool may then make
\* has all its hunks accepted by the person, or covered by memory after the
\* person accepted something in the very session the call reports (a call without
\* a session is never covered).  The exception is what the code makes it: a
\* twin, or a file outside every workspace folder, that a patch writes besides
\* reviewed code is allowed with it and seen by nobody (route(), lines 232-267).
ByThePerson(r, w) ==
    /\ w.path \in PathsOf(call[r])
    /\ \/ HumanAccepted(r) /\ HunkSet(HunksAt(r, w.path)) \subseteq dec[r].chosen
       \/ /\ dec[r].verdict = "auto"
          /\ \E q \in Requests : q # r /\ SameSession(r, q) /\ HumanAccepted(q)
AllowedCode(r) == answer[r] = "allow" /\ call[r].kind = "code" /\ AllHunks(r) # {}
AllowNeedsHuman ==
    \A r \in Requests : AllowedCode(r) =>
        \A i \in DOMAIN Touched(r) :
            Touched(r)[i].path \in Unreviewed \/ ByThePerson(r, Touched(r)[i])

\* Whatever ExplainIT answered allow for, or wrote itself, can be undone: the
\* content it replaces was saved, and the decision was in the journal, first.
\* Not so for what a mixed patch writes besides: it is allowed with the rest and
\* gets no restore point (commitAccepted() is given the reviewed writes only).
Undoable(r, w) ==
    before[r][w.path] # Absent =>
        [req |-> r, path |-> w.path, content |-> before[r][w.path]] \in restorePoints
AllowIsUndoable ==
    \A r \in Requests :
        /\ AllowedCode(r) =>
              \A i \in DOMAIN Touched(r) :
                  \/ Touched(r)[i].path \in Unreviewed
                  \/ /\ Undoable(r, Touched(r)[i])
                     /\ Note("decided", r, Touched(r)[i].path, "decided") \in journal
        /\ \A i \in DOMAIN Writes(r) :
              Note("applied", r, Writes(r)[i].path, "partial") \in journal =>
                  Undoable(r, Writes(r)[i])

\* Whatever the journal calls applied, by a PostToolUse, a timer or ExplainIT's
\* own hand, it also calls decided, for that file and request; and the request's
\* review ended in favour, by the person or by memory, of all or a part of it.
\* The answer may still be pending, or be ask, when a later file of the request
\* is not committed yet or its restore point failed; it is never a refusal of
\* everything, nor none.
AppliedWasDecided ==
    \A e \in journal : e.kind = "applied" =>
        /\ Note("decided", e.req, e.path, "decided") \in journal
        /\ dec[e.req].verdict \in {"accept", "partial", "auto"}
        /\ answer[e.req] \notin {"none", "deny"}

\* When ExplainIT itself lands a partly accepted change, what changes on disk is
\* made of hunks whose card the person accepted, never of one that was rejected.
Lands(r) == pc[r] = "landing" /\ pc'[r] = "checking"
RejectedStaysOut ==
    [][\A r \in Requests : Lands(r) /\ disk'[TheWrite(r).path] # Absent =>
          /\ disk'[TheWrite(r).path] \ before[r][TheWrite(r).path] \subseteq dec[r].chosen
          /\ dec[r].chosen \cap HunkSet(HunksAt(r, TheWrite(r).path))
                \subseteq disk'[TheWrite(r).path]]_vars

\* A review that ends after the extension has shut down, whatever the person
\* clicked, does nothing but answer ask: it does not go on to restore points or
\* to landing a part, allows and refuses nothing, teaches the memory nothing and
\* writes, records and expects nothing (the check after the await of review()).
EndsReview(r) == Waiting(r) /\ ~Waiting(r)'
ShutdownAnswersAsk ==
    [][\A r \in Requests : disposed /\ EndsReview(r) =>
          /\ pc'[r] = "done" /\ answer'[r] = "ask" /\ dec'[r] = dec[r]
          /\ UNCHANGED <<memVars, safety, world, expected>>]_vars

\* The detailed controller implements the abstract promise.
Free == {r \in Requests : /\ pc[r] # "idle"
                          /\ \/ call[r].kind = "twin"
                             \/ call[r].kind = "code" /\ AllHunks(r) = {}}
Abstract == INSTANCE HumanCheckpoint WITH
    session <- [r \in Requests |-> call[r].session],
    free <- Free,
    accepted <- {r \in Requests : HumanAccepted(r)},
    allowed <- {r \in Requests : answer[r] = "allow"}
ImplementsHumanCheckpoint == Abstract!Spec

-------------------------------------------------------------------------------
(* What makes the above inductive. *)

\* A handler or a PostToolUse at work on a write is at one of its call's writes.
IndexOK ==
    \A r \in Requests :
        /\ pc[r] \in {"saving", "committing", "landing"} => idx[r] \in DOMAIN Writes(r)
        /\ tool[r] \in {"ran", "posting"} => idx[r] \in DOMAIN Touched(r)
        /\ tool[r] # "idle" => pc[r] = "done"

\* How far a handler got says what is decided: nothing before the review ends,
\* an entitlement to all of the change once it commits or answers allow.
Entitled(r) == dec[r].verdict = "auto" \/ (HumanAccepted(r) /\ dec[r].chosen = AllHunks(r))
Progress(r) ==
    /\ pc[r] \in {"idle", "mapping", "proposing", "waiting"} => dec[r] = Undecided
    /\ pc[r] # "done" => answer[r] = "pending"
    /\ pc[r] \notin {"idle", "done"} => call[r] \in Calls /\ call[r].kind = "code"
    /\ pc[r] \notin {"idle", "mapping", "done"} => AllHunks(r) # {}
    /\ pc[r] \in {"saving", "committing"} => Entitled(r)
    /\ pc[r] \in {"checking", "landing"} => HumanAccepted(r)
    /\ answer[r] = "allow" /\ call[r].kind = "code" /\ AllHunks(r) # {} => Entitled(r)
ProgressOK == \A r \in Requests : Progress(r)

\* Every key of the memory belongs to a session in which the person accepted
\* something, and so does every request that memory answered for.
TrustedSessions == {call[q].session : q \in {r \in Requests : HumanAccepted(r)}}
TrustOK ==
    /\ memSessions \subseteq TrustedSessions
    /\ \A f \in memFiles : f[1] \in TrustedSessions
    /\ \A k \in memHunks : k[1] \in TrustedSessions
    /\ \A r \in Requests : dec[r].verdict = "auto" =>
          call[r].session # NoSession /\ call[r].session \in TrustedSessions

GateInvariant == TypeOK /\ IndexOK /\ PendingMatchesReviews /\ ProgressOK /\ TrustOK

-------------------------------------------------------------------------------
(* Liveness, under FairSpec. *)

\* Every hook call the gate took in is answered.
EveryCallAnswered == \A r \in Requests : (pc[r] # "idle") ~> (pc[r] = "done")

\* An expected landing is settled: by a report, by the timer, or by shutdown.
ExpectationsSettle == \A p \in Paths : []<>(expected[p] = NotExpected)

-------------------------------------------------------------------------------
(* Claims of the repository's comments, documents and messages. *)

\* "Hunk-hash memory is narrower (it only matches the exact change the person
\* already accepted)": a covered change consists of changes the person accepted
\* as such, unless the person chose "rest of session" or "rest of file".
Chose(q, sc) == HumanAccepted(q) /\ dec[q].scope = sc
CoveredWasAccepted ==
    \A r \in Requests : dec[r].verdict = "auto" =>
        \A h \in AllHunks(r) :
            \E q \in Requests :
                /\ SameSession(r, q)
                /\ \/ Chose(q, "session")
                   \/ Chose(q, "file") /\ h.path \in PathsOf(call[q])
                   \/ HumanAccepted(q) /\ h \in dec[q].chosen

=============================================================================
