------------------------------- MODULE Twins -------------------------------
(***************************************************************************)
(* The plain-English twin of one source file in one window (src/twin/      *)
(* engine.ts with pure/stale.ts, pure/sidecar.ts, pure/naming.ts and       *)
(* staleWatch.ts).  The twin is a page beside the source; what its         *)
(* sections describe is kept in a sidecar elsewhere, written first.  One   *)
(* run at a time works on the file; the person edits, lands reviewed       *)
(* changes and deletes files meanwhile, and the window can die between any *)
(* two steps.  A function is its name and its body (the content hash); the *)
(* words of a section are the body they describe, 0 for no words.          *)
(***************************************************************************)
EXTENDS Integers, Sequences, FiniteSets, SequencesExt, FiniteSetsExt

CONSTANTS Texts, FirstText,      \* sequences of [fn, body]: versions of the file
          Forms, FirstForm,      \* the two names a twin can have
          None,
          Kinds,                 \* of call, among "auto", "open", "force", "backfill"
          MaxEdits, MaxAsks, MaxTroubles, MaxEvents   \* bounds of the model

Named(text) == {text[k].fn : k \in DOMAIN text}

ASSUME TwinsAssumption ==
  /\ FirstText \in Texts /\ FirstForm \in Forms /\ None \notin Forms
  /\ \A t \in Texts :
       /\ t \in Seq({t[k] : k \in DOMAIN t})
       /\ \A j, k \in DOMAIN t : t[j].body \in Nat \ {0} /\ (t[j].fn = t[k].fn => j = k)
  /\ {MaxEdits, MaxAsks, MaxTroubles, MaxEvents} \subseteq Nat

VARIABLES text,      \* the source, as its document shows it
          form,      \* the name the twin has to have, given the siblings
          sidecar,   \* None or [form, text, sections]
          page,      \* the twin under each name, or None
          queue,     \* the calls waiting behind the running one
          run,       \* the refresh that is running, and one whose assistant
                     \* answers after the engine stopped waiting; or Idle
          watch,     \* the staleness timer is armed
          byHand,    \* the person edited since the last landing or check
          recent,    \* the gate landed a change less than 5 s ago
          torn,      \* a sidecar was left without its page, or two pages
                     \* (see SidecarTellsTruth)
          excused,   \* a crash or a failure lost a check of the marks
          missed,    \* the timer let an edit of the person's go unchecked, or a
                     \* late run wrote over what another had
          edits, asks, troubles

source == <<text, form>>
disk == <<sidecar, page>>
timer == <<watch, byHand, recent>>
losses == <<torn, excused, missed>>
bounds == <<edits, asks, troubles>>
vars == <<source, disk, queue, run, timer, losses, bounds>>

\* Each kind of event has its bound, and all together one.
Room == edits + asks + troubles < MaxEvents
MayEdit == edits < MaxEdits /\ Room
MayAsk == asks < MaxAsks /\ Room
MayFail == troubles < MaxTroubles /\ Room

\* The running refresh, and one the engine gave up but the router did not.
Slots == {"now", "late"}
Idle == <<>>   \* no run, no commit
NoRun == [s \in Slots |-> Idle]
Becomes(s, r) == run' = [run EXCEPT ![s] = r]

-----------------------------------------------------------------------------
(* What a section says, and how a run plans.                               *)

\* The words a page holds for a sidecar section: by number AND name.
ContentFor(pg, s) ==
  IF pg # None /\ s.at \in DOMAIN pg /\ pg[s.at].fn = s.fn THEN pg[s.at].of ELSE 0

Unknown == 0   \* the empty hash

\* The numbers of the sections with words, in the order of the page.
Explained(pg) ==
  FoldLeft(LAMBDA kept, i : IF pg[i].of # 0 THEN Append(kept, i) ELSE kept,
           <<>>, [i \in DOMAIN pg |-> i])

\* Without a sidecar the explained sections are recovered by name.
SectionsFromParsed(pg) ==
  IF pg = None THEN <<>>
  ELSE LET explained == Explained(pg)
       IN  [k \in DOMAIN explained |->
              [at |-> explained[k], fn |-> pg[explained[k]].fn, hash |-> Unknown, stale |-> TRUE]]

Previous(side, pg) == IF side = None THEN SectionsFromParsed(pg) ELSE side.sections

Claim(m, k, wanted) ==
  LET free == wanted \ {m[j] : j \in DOMAIN m}
  IN  IF m[k] # 0 \/ free = {} THEN m ELSE [m EXCEPT ![k] = Min(free)]

\* Every function claims at most one section: by hash, then by name.
MatchPrevious(t, prev) ==
  LET ByHash(m, k) == Claim(m, k, {s \in DOMAIN prev : prev[s].hash = t[k].body})
      ByName(m, k) == Claim(m, k, {s \in DOMAIN prev : prev[s].fn = t[k].fn})
      order == [k \in DOMAIN t |-> k]
  IN  FoldLeft(ByName, FoldLeft(ByHash, [k \in DOMAIN t |-> 0], order), order)

\* The function a regenerated section belongs to, or None.
TargetOf(r, t) ==
  IF r.section.fn \in Named(t) THEN r.section.fn
  ELSE IF r.section.at \in DOMAIN t THEN t[r.section.at].fn ELSE None

Generates(r, t, f, reuse) ==
  CASE r.kind = "force" -> TRUE
    [] r.kind = "mark" -> FALSE
    [] r.kind = "section" -> f = TargetOf(r, t)
    [] OTHER -> ~reuse

Entry(f, body, words, hash, stale, gen) ==
  [fn |-> f, body |-> body, words |-> words, hash |-> hash, stale |-> stale, gen |-> gen]

PlanSections(r, t, prev, pg) ==
  LET m == MatchPrevious(t, prev)
      EntryOf(k) ==
        LET claims == m[k] \in DOMAIN prev
            words == IF claims THEN ContentFor(pg, prev[m[k]]) ELSE 0
            hash == IF claims THEN prev[m[k]].hash ELSE 0
            changed == claims /\ hash # t[k].body
        IN  Entry(t[k].fn, t[k].body, words, hash, words # 0 /\ changed,
                  Generates(r, t, t[k].fn, words # 0 /\ ~changed))
  IN  [k \in DOMAIN t |-> EntryOf(k)]

\* Nothing could outline the file: keep every section, out of date if the
\* text changed.
PlanWithoutOutline(prev, pg, changed) ==
  [k \in DOMAIN prev |->
     LET words == ContentFor(pg, prev[k])
     IN  Entry(prev[k].fn, prev[k].hash, words, prev[k].hash,
               words # 0 /\ (prev[k].stale \/ changed), FALSE)]

\* Fault: a file nobody could outline counts as one without functions.
WipesWithoutOutline(r, t, side, pg, outlined) ==
  IF outlined THEN PlanSections(r, t, Previous(side, pg), pg) ELSE <<>>

PlanFor(r, t, side, pg, outlined) ==
  LET prev == Previous(side, pg)
  IN  IF outlined THEN PlanSections(r, t, prev, pg)
      ELSE IF prev = <<>> THEN <<>>
      ELSE PlanWithoutOutline(prev, pg, side = None \/ side.text # t)

ToGenerate(plan) == {plan[k].fn : k \in {j \in DOMAIN plan : plan[j].gen}}

\* The page: fresh words, a placeholder while pending, else the old words.
ToRender(plan, produced, pending) ==
  [k \in DOMAIN plan |->
     LET e == plan[k] IN
     [fn |-> e.fn,
      of |-> IF e.fn \in produced THEN e.body ELSE IF e.fn \in pending THEN 0 ELSE e.words,
      stale |-> e.fn \notin produced \cup pending /\ e.words # 0 /\ e.stale]]

\* Fault: the sidecar always records the current hash.
RecordsCurrentHash(plan, produced) ==
  [k \in DOMAIN plan |->
     LET e == plan[k] IN
     [at |-> k, fn |-> e.fn, hash |-> e.body,
      stale |-> e.fn \notin produced /\ e.words # 0 /\ e.stale]]

\* The sidecar records the body each section describes.
ToSidecar(plan, produced) ==
  [k \in DOMAIN plan |->
     LET e == plan[k]
         reused == e.fn \notin produced /\ e.words # 0
     IN  [at |-> k, fn |-> e.fn, hash |-> IF reused THEN e.hash ELSE e.body,
          stale |-> reused /\ e.stale]]

Complete(pg) == \A i \in DOMAIN pg : pg[i].of # 0

-----------------------------------------------------------------------------
(* Calls.                                                                  *)

NoSection == [at |-> 0, fn |-> None]
Call(kind, t, section) == [kind |-> kind, text |-> t, section |-> section]

Silent(r) == r.kind \in {"auto", "backfill", "land"}
SkipsFastPath(r) == r.kind \in {"land", "mark", "section"}

\* The window opens on a file without a twin, or with a complete one.
Init ==
  /\ text = FirstText /\ form = FirstForm
  /\ \/ sidecar = None /\ page = [f \in Forms |-> None]
     \/ LET plan == [k \in DOMAIN FirstText |->
                       Entry(FirstText[k].fn, FirstText[k].body, 0, Unknown, FALSE, TRUE)]
        IN  /\ sidecar = [form |-> form, text |-> text, sections |-> ToSidecar(plan, Named(text))]
            /\ page = [f \in Forms |-> IF f = form THEN ToRender(plan, Named(text), {}) ELSE None]
  /\ queue = <<>> /\ run = NoRun /\ watch = FALSE /\ byHand = FALSE /\ recent = FALSE
  /\ torn = FALSE /\ excused = FALSE /\ missed = FALSE
  /\ edits = 0 /\ asks = 0 /\ troubles = 0

Serialize(r) == queue' = Append(queue, r)

\* ensureTwin reads the document when its turn comes; the backfill reads it
\* first and queues then.
EnsureTwin ==
  /\ MayAsk
  /\ \E kind \in Kinds :
       Serialize(Call(kind, IF kind = "backfill" THEN text ELSE None, NoSection))
  /\ asks' = asks + 1
  /\ UNCHANGED <<source, disk, run, timer, losses, edits, troubles>>

RegenerateSection ==
  /\ MayAsk /\ page[form] # None
  /\ \E i \in DOMAIN page[form] :
       Serialize(Call("section", text,
         [at |-> i, fn |-> IF sidecar # None /\ i \in DOMAIN sidecar.sections
                           THEN sidecar.sections[i].fn ELSE page[form][i].fn]))
  /\ asks' = asks + 1
  /\ UNCHANGED <<source, disk, run, timer, losses, edits, troubles>>

\* Typing, or saving: the staleness timer starts over.
Edit ==
  /\ MayEdit
  /\ text' \in Texts \ {text}
  /\ watch' = TRUE /\ byHand' = TRUE /\ edits' = edits + 1
  /\ UNCHANGED <<form, disk, queue, run, recent, losses, asks, troubles>>

\* The gate writes an accepted change and asks for the twin right away.
Land ==
  /\ MayEdit
  /\ text' \in Texts \ {text}
  /\ Serialize(Call("land", text', NoSection))
  /\ watch' = TRUE /\ byHand' = FALSE /\ recent' = TRUE /\ edits' = edits + 1
  /\ UNCHANGED <<form, disk, run, losses, asks, troubles>>

LandingAges ==
  /\ recent /\ recent' = FALSE
  /\ UNCHANGED <<source, disk, queue, run, watch, byHand, losses, bounds>>

\* Something works on a version of the source read earlier.
Behind == run["now"] # Idle \/ \E i \in DOMAIN queue : queue[i].text # None

\* hasTwin: what is remembered of a sidecar outlives one that was lost.
HasTwin == {sidecar # None} \cup (IF excused THEN {TRUE} ELSE {})

\* Fault: the timer is swallowed whenever a run is busy.
SkipsWhileBusy ==
  /\ watch /\ watch' = FALSE /\ byHand' = FALSE
  /\ missed' = (missed \/ (byHand /\ (recent \/ (sidecar = None /\ Behind))))
  /\ IF recent \/ sidecar = None \/ run["now"] # Idle THEN UNCHANGED queue
     ELSE Serialize(Call("mark", None, NoSection))
  /\ UNCHANGED <<source, disk, run, recent, torn, excused, bounds>>

\* The timer: nothing after a landing or for a file without a sidecar, else
\* a marking run.
WatchFires ==
  /\ watch /\ watch' = FALSE /\ byHand' = FALSE
  /\ missed' = (missed \/ (byHand /\ (recent \/ (sidecar = None /\ Behind))))
  /\ \E known \in HasTwin :
     IF recent \/ ~known THEN UNCHANGED queue
     ELSE Serialize(Call("mark", None, NoSection))
  /\ UNCHANGED <<source, disk, run, recent, torn, excused, bounds>>

-----------------------------------------------------------------------------
(* One run.                                                                *)

\* What a commit writes, worked out before its first write; `step' is the
\* write that comes next, `over' the sidecar it replaced.
Commit(plan, t, f, produced, pending, final) ==
  [final |-> final, step |-> "sidecar", over |-> None,
   side |-> [form |-> f, text |-> t, sections |-> ToSidecar(plan, produced)],
   page |-> ToRender(plan, produced, IF final THEN {} ELSE pending)]

\* The functions whose words this run has in hand and nothing else can claim.
InHand(t, side, pg) ==
  LET prev == Previous(side, pg)
  IN  {f \in Named(t) :
         /\ \E s \in DOMAIN prev : prev[s].fn = f /\ ContentFor(pg, prev[s]) # 0
         /\ \A k \in DOMAIN t : \A s \in DOMAIN prev :
              t[k].body = prev[s].hash /\ (t[k].fn = f \/ prev[s].fn = f) => t[k].fn = prev[s].fn}

\* The name the twin had, when the naming rule has switched since.
OldForm ==
  IF sidecar # None /\ sidecar.form # form /\ page[sidecar.form] # None
  THEN sidecar.form ELSE None

Parsed == IF page[form] # None THEN page[form]
          ELSE IF OldForm # None THEN page[OldForm] ELSE None

TextOf(r) == IF r.text = None THEN text ELSE r.text

FastPath(r) ==
  /\ ~SkipsFastPath(r) /\ sidecar # None /\ page[form] # None
  /\ sidecar.text = TextOf(r) /\ sidecar.form = form /\ Complete(page[form])

NoTwinToMark(r) == r.kind = "mark" /\ page[form] = None

\* A run that was given up while the router still asks goes on writing.
Writing(s) == run[s] # Idle /\ run[s].commit # Idle
At(s, step) == Writing(s) /\ run[s].commit.step = step
\* Some of the writes of a commit are done and some are not.
HalfDone(s) == At(s, "page") \/ At(s, "back") \/ At(s, "old")

\* A run that does nothing: a marking run without a twin, the fast path, a
\* silent run without an assistant that would only make an empty twin, or an
\* outline that failed.
BeginNothing ==
  /\ run["now"] = Idle /\ queue # <<>> /\ queue' = Tail(queue)
  /\ LET r == Head(queue) IN
     \/ (NoTwinToMark(r) \/ FastPath(r)) /\ UNCHANGED <<excused, troubles>>
     \/ /\ ~NoTwinToMark(r) /\ ~FastPath(r)
        /\ Silent(r) /\ Parsed = None /\ TextOf(r) # <<>>
        /\ UNCHANGED <<excused, troubles>>
     \/ /\ ~NoTwinToMark(r) /\ ~FastPath(r)
        /\ \/ MayFail /\ troubles' = troubles + 1
           \/ r.kind = "section" /\ TargetOf(r, TextOf(r)) = None /\ UNCHANGED troubles
        /\ excused' = TRUE
  /\ UNCHANGED <<source, disk, run, timer, torn, missed, edits, asks>>

\* One snapshot of the source, and a plan made from it.  The first commit is
\* final when there is nothing to generate, or no assistant for a silent run.
Begin ==
  /\ run["now"] = Idle /\ queue # <<>> /\ queue' = Tail(queue)
  /\ LET r == Head(queue)
         t == TextOf(r)
     IN
     /\ ~NoTwinToMark(r) /\ ~FastPath(r)
     /\ r.kind = "section" => TargetOf(r, t) # None
     /\ \E outlined \in BOOLEAN :
          /\ IF outlined THEN UNCHANGED troubles
             ELSE /\ t # <<>> /\ MayFail /\ r.kind # "section"
                  /\ troubles' = troubles + 1
          /\ LET plan == PlanFor(r, t, sidecar, Parsed, outlined)
                 pending == ToGenerate(plan)
             IN
             \E connected \in IF Silent(r) /\ pending # {} /\ Parsed # None THEN BOOLEAN ELSE {TRUE} :
               Becomes("now", [text |-> t, form |-> form, plan |-> plan, produced |-> {},
                       pending |-> pending, committed |-> sidecar, old |-> OldForm,
                       had |-> InHand(t, sidecar, Parsed), due |-> FALSE, asked |-> FALSE,
                       commit |-> Commit(plan, t, form, {}, pending, pending = {} \/ ~connected)])
  /\ torn' = (torn \/ HalfDone("late")) /\ missed' = (missed \/ Writing("late"))
  /\ UNCHANGED <<source, disk, timer, excused, edits, asks>>

Step(s, step) == Becomes(s, [run[s] EXCEPT !.commit.step = step])

\* The commit is over: the run too, or it goes on asking the assistant.
After(r) == IF r.commit.final THEN Idle ELSE [r EXCEPT !.commit = Idle, !.asked = TRUE]

\* A late rewrite knows nothing of what was written since, nor the other way
\* round: from then on the twin is whatever came last.
Overtaken(s) == \/ s = "late" /\ (run["now"] # Idle \/ sidecar # run[s].committed)
                \/ s = "now" /\ Writing("late")

WriteSidecar(s) ==
  /\ At(s, "sidecar")
  /\ sidecar' = run[s].commit.side
  /\ Becomes(s, [run[s] EXCEPT !.commit.step = "page", !.commit.over = sidecar])
  /\ torn' = (torn \/ \E other \in Slots \ {s} : HalfDone(other))
  /\ missed' = (missed \/ Overtaken(s))
  /\ UNCHANGED <<source, page, queue, timer, excused, bounds>>

\* The page is on disk; the page under the old name goes after the first.  A page
\* that no sidecar told this run about stays beside it, and is the twin again
\* when the naming rule switches back.
WriteTwin(s) ==
  /\ At(s, "page")
  /\ LET r == run[s]
         done == [r EXCEPT !.committed = r.commit.side]
     IN  /\ page' = [page EXCEPT ![r.form] = r.commit.page]
         /\ Becomes(s, IF r.old # None THEN [done EXCEPT !.commit.step = "old"] ELSE After(done))
         /\ torn' = (torn \/ \E f \in Forms \ {r.form, r.old} : page[f] # None)
  /\ UNCHANGED <<source, sidecar, queue, timer, excused, missed, bounds>>

RemoveOld ==
  /\ At("now", "old")
  /\ LET r == run["now"] IN
     /\ IF page[r.old] = None
        THEN UNCHANGED <<page, torn, troubles>>
        ELSE \/ page' = [page EXCEPT ![r.old] = None] /\ UNCHANGED <<torn, troubles>>
             \/ /\ MayFail /\ troubles' = troubles + 1   \* best effort
                /\ torn' = TRUE /\ UNCHANGED page
     /\ Becomes("now", After([r EXCEPT !.old = None]))
  /\ UNCHANGED <<source, sidecar, queue, timer, excused, missed, edits, asks>>

\* A failed rewrite while streaming is logged; any other ends the run.
AfterFailure(r) == IF r.asked /\ ~r.commit.final THEN [r EXCEPT !.commit = Idle] ELSE Idle

WriteFails(s) ==
  /\ At(s, "sidecar") \/ At(s, "page")
  /\ MayFail /\ troubles' = troubles + 1
  /\ excused' = TRUE
  /\ IF At(s, "page") THEN Step(s, "back") ELSE Becomes(s, AfterFailure(run[s]))
  /\ UNCHANGED <<source, disk, queue, timer, torn, missed, edits, asks>>

\* The page could not be written: the sidecar of this run's last commit comes
\* back, or the new one is deleted; it is not the one replaced when another run
\* has written in between.
PutBack(s) ==
  /\ At(s, "back")
  /\ \/ /\ sidecar' = run[s].committed
        /\ torn' = (torn \/ run[s].committed # run[s].commit.over)
        /\ UNCHANGED troubles
     \/ /\ MayFail /\ troubles' = troubles + 1
        /\ torn' = TRUE /\ UNCHANGED sidecar
  /\ Becomes(s, AfterFailure(run[s]))
  /\ UNCHANGED <<source, page, queue, timer, excused, missed, edits, asks>>

Asking(s) == run[s] # Idle /\ run[s].asked /\ (Writing(s) => ~run[s].commit.final)

\* An explanation arrives, perhaps while the page is being written.
Arrive(s) ==
  /\ Asking(s)
  /\ \E f \in run[s].pending :
       Becomes(s, [run[s] EXCEPT !.produced = @ \cup {f}, !.pending = @ \ {f}, !.due = TRUE])
  /\ UNCHANGED <<source, disk, queue, timer, losses, bounds>>

CommitOf(r, final) == Commit(r.plan, r.text, r.form, r.produced, r.pending, final)

Rewrite(s) ==
  /\ Asking(s) /\ run[s].due /\ ~Writing(s)
  /\ Becomes(s, [run[s] EXCEPT !.due = FALSE, !.commit = CommitOf(run[s], FALSE)])
  /\ UNCHANGED <<source, disk, queue, timer, losses, bounds>>

\* The assistant is done, failed, was cancelled or told to stop, and what
\* did not arrive falls back to its old words; or the engine's own net ends
\* the wait, and the router goes on with the next assistant.
Finish ==
  /\ Asking("now") /\ ~Writing("now")
  /\ LET r == [run["now"] EXCEPT !.due = FALSE]
         last == [r EXCEPT !.commit = CommitOf(r, TRUE)]
     IN  \/ Becomes("now", last) /\ UNCHANGED troubles
         \/ /\ run["late"] = Idle /\ r.pending # {}
            /\ MayFail /\ troubles' = troubles + 1
            /\ run' = [now |-> last, late |-> [r EXCEPT !.committed = last.commit.side]]
  /\ UNCHANGED <<source, disk, queue, timer, losses, edits, asks>>

\* The router gives up on a run that was given up: no answer comes any more.
LateIsOver ==
  /\ run["late"] # Idle /\ ~Writing("late") /\ ~run["late"].due
  /\ Becomes("late", Idle)
  /\ UNCHANGED <<source, disk, queue, timer, losses, bounds>>

-----------------------------------------------------------------------------
(* What happens around it.                                                 *)

\* The window dies and is opened again: only what is on disk remains.
Crash ==
  /\ MayFail /\ troubles' = troubles + 1
  /\ run # NoRun \/ queue # <<>> \/ watch
  /\ run' = NoRun /\ queue' = <<>> /\ watch' = FALSE /\ byHand' = FALSE /\ recent' = FALSE
  /\ torn' = (torn \/ \E s \in Slots : HalfDone(s))
  /\ excused' = TRUE
  /\ UNCHANGED <<source, disk, missed, edits, asks>>

\* A file with the same stem appears beside the source, or goes away.
Sibling ==
  /\ MayEdit /\ edits' = edits + 1
  /\ form' \in Forms \ {form}
  /\ UNCHANGED <<text, disk, queue, run, timer, losses, asks, troubles>>

\* The person deletes a twin; the sidecar is lost or unreadable.
Lose ==
  /\ MayFail /\ troubles' = troubles + 1
  /\ \/ \E f \in Forms : page[f] # None /\ page' = [page EXCEPT ![f] = None]
                        /\ UNCHANGED <<sidecar, excused>>
     \/ sidecar # None /\ sidecar' = None /\ excused' = TRUE /\ UNCHANGED page
  /\ UNCHANGED <<source, queue, run, timer, torn, missed, edits, asks>>

\* The call in front takes its turn (Begin or BeginNothing).
TakesTurn == run["now"] = Idle /\ queue # <<>> /\ queue' = Tail(queue)

Writes(s) == WriteSidecar(s) \/ WriteTwin(s) \/ PutBack(s) \/ (s = "now" /\ RemoveOld)

Next ==
  \/ EnsureTwin \/ RegenerateSection \/ Edit \/ Land \/ LandingAges \/ WatchFires
  \/ BeginNothing \/ Begin
  \/ \E s \in Slots : WriteSidecar(s) \/ WriteTwin(s) \/ WriteFails(s) \/ PutBack(s)
                      \/ Arrive(s) \/ Rewrite(s)
  \/ RemoveOld \/ Finish \/ LateIsOver
  \/ Crash \/ Sibling \/ Lose

\* Calls take their turn, the disk answers, the router's timeouts end every
\* wait for the assistant, and timers fire.
Spec ==
  /\ Init /\ [][Next]_vars
  /\ WF_queue(TakesTurn) /\ WF_vars(Writes("now")) /\ WF_vars(Writes("late"))
  /\ WF_vars(Finish) /\ WF_vars(WatchFires)

-----------------------------------------------------------------------------
(* Properties.                                                             *)

\* Between the two writes of a commit the sidecar is ahead of its page.
Ahead == \E s \in Slots : At(s, "page") \/ At(s, "back")

\* The words a sidecar's section has on its page describe the body whose
\* hash the section records, in every order of runs, edits and renames, also
\* when a run that was given up rewrites the twin during or after another: the
\* later decision that a section is current rests on it.  Six things break it
\* (`torn'): a crash between the writes of a commit; two commits of which one
\* starts between the writes of the other, and a run that reads the twin
\* between the writes of a late one; a sidecar that could not be put back, or
\* one put back that is not the one replaced; an old page that could not be
\* removed; and an old page no sidecar told the run about.
SidecarTellsTruth ==
  ~torn /\ ~Ahead /\ sidecar # None =>
    \A k \in DOMAIN sidecar.sections :
      LET s == sidecar.sections[k]
          words == ContentFor(page[sidecar.form], s)
      IN  words # 0 => s.hash \in {words, Unknown}

\* The last commit of a run keeps the words of every function it had them
\* for, whatever the assistant answered, failed to answer or could not
\* outline.
NoWordsLost ==
  \A s \in Slots : Writing(s) /\ run[s].commit.final =>
    \A f \in run[s].had : \E i \in DOMAIN run[s].commit.page :
      run[s].commit.page[i].fn = f /\ run[s].commit.page[i].of # 0

\* Every section of the twin describes the code or says that it is out of
\* date.
Marked ==
  page[form] # None =>
    \A i \in DOMAIN page[form] :
      LET s == page[form][i] IN
      s.of = 0 \/ s.stale \/ \E k \in DOMAIN text : text[k] = [fn |-> s.fn, body |-> s.of]

\* When the editing stops the marks catch up for good, whatever runs were
\* under way or waiting.  The excuses: a crash, a failed write or outline,
\* an edit whose timer fired in the shadow of a landing, or before the
\* first run on the file had written anything, and a run that was given up
\* and wrote over what a later one had written, or while one was at work.
MarksCatchUp == <>[](excused \/ missed \/ Marked)

=============================================================================
