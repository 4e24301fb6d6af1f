---------------------------- MODULE TwinsProofs ----------------------------
(***************************************************************************)
(* Proofs about the twin of a source file: whatever runs, edits, renames,  *)
(* answers that come too late, failures and crashes there are, the sidecar *)
(* never gives the words on the page for those of another body, unless the *)
(* disk was torn in one of the six ways the property names; and the last   *)
(* page of a run has the words of every function that the run had words    *)
(* for.  A run that was given up may write during and after another.       *)
(***************************************************************************)
EXTENDS Twins, SequenceTheorems, WellFoundedInduction, TLAPS

-----------------------------------------------------------------------------
(* The inductive invariant.                                                *)

\* The words the sections have on a page describe the bodies they record.
TellsTruth(sections, pg) ==
  \A k \in DOMAIN sections :
    LET words == ContentFor(pg, sections[k])
    IN  words # 0 => sections[k].hash \in {words, Unknown}

\* A sidecar and the pages on disk: true words, and no page but its own.
True(side, pages) == side # None => side.form \in Forms /\ TellsTruth(side.sections, pages[side.form])
Alone(side, pages) == side # None => \A f \in Forms \ {side.form} : pages[f] = None
Good(side, pages) == True(side, pages) /\ Alone(side, pages)

\* The words an entry of a plan would reuse go with the hash it would keep.
SoundPlan(plan) ==
  \A k \in DOMAIN plan : plan[k].words # 0 => plan[k].hash \in {plan[k].words, Unknown}

CommitFields == {"final", "step", "over", "side", "page"}

IsCommit(c, f) ==
  /\ CommitFields \subseteq DOMAIN c /\ c = [x \in DOMAIN c |-> c[x]]
  /\ c.step \in {"sidecar", "page", "old", "back"}
  /\ c.side.form = f /\ TellsTruth(c.side.sections, c.page)

RunFields == {"text", "form", "plan", "produced", "pending", "committed", "old", "had", "due", "asked", "commit"}

\* A run: a sound plan, and commits made from it.  When it asks, the old page is gone.
IsRun(r) ==
  /\ RunFields \subseteq DOMAIN r /\ r = [x \in DOMAIN r |-> r[x]]
  /\ r.form \in Forms /\ r.asked \in BOOLEAN
  /\ SoundPlan(r.plan)
  /\ r.commit # Idle => IsCommit(r.commit, r.form)
  /\ r.asked => r.old = None

StepIn(r, steps) == r # Idle /\ r.commit # Idle /\ r.commit.step \in steps

\* Between the two writes of a commit, and between the page and the removal of the old one.
Mid(r) == StepIn(r, {"page", "back"})
Removes(r) == StepIn(r, {"old"})

RunsOK(now, late) ==
  /\ now # Idle => IsRun(now)
  /\ late # Idle => IsRun(late) /\ late.asked /\ ~Removes(late)

\* A sidecar of the page that has just been written.
Mine(r, side, pages) == True(side, pages) /\ (side # None => side.form = r.form)

\* What holds of the disk at each step of a commit: between commits the sidecar
\* and its page are of one piece; in the middle of one what the page still goes
\* with is the sidecar that was replaced; and no two commits overlap.
DiskOK(now, late, side, pages) ==
  /\ ~Mid(now) /\ ~Mid(late) /\ ~Removes(now) => Good(side, pages)
  /\ \A r \in {now, late} :
       /\ StepIn(r, {"page"}) => side \in {r.commit.side, None}
       /\ Mid(r) => Good(r.commit.over, pages)
  /\ Removes(now) =>
       /\ Mine(now, side, pages)
       /\ \A f \in Forms \ {now.form, now.old} : pages[f] = None
  /\ Mid(late) => ~Mid(now) /\ ~Removes(now)

Typed ==
  /\ form \in Forms
  /\ page = [f \in Forms |-> page[f]]
  /\ run = [s \in Slots |-> run[s]]
  /\ RunsOK(run["now"], run["late"])

\* The invariant, of a disk that is not torn.
TwinsOK == Typed /\ DiskOK(run["now"], run["late"], sidecar, page)

TwinsIInv == torn \in BOOLEAN /\ (~torn => TwinsOK)

-----------------------------------------------------------------------------
(* Sections, plans and commits.                                            *)

LEMMA NothingTells == ASSUME NEW sections PROVE TellsTruth(sections, None)
  BY DEF TellsTruth, ContentFor

\* Sections recovered from the page claim nothing about the body they describe.
LEMMA RecoveredTell == ASSUME NEW pg PROVE TellsTruth(SectionsFromParsed(pg), pg)
<1>1. CASE pg = None
  BY <1>1, NothingTells
<1>2. CASE pg # None
  <2> DEFINE explained == Explained(pg)
  <2>1. SectionsFromParsed(pg) =
          [k \in DOMAIN explained |->
             [at |-> explained[k], fn |-> pg[explained[k]].fn, hash |-> Unknown, stale |-> TRUE]]
    BY <1>2 DEF SectionsFromParsed
  <2> HIDE DEF explained
  <2> QED BY <2>1 DEF TellsTruth
<1> QED BY <1>1, <1>2

LEMMA PreviousTells ==
  ASSUME NEW side, NEW pg, side # None => TellsTruth(side.sections, pg)
  PROVE  TellsTruth(Previous(side, pg), pg)
BY RecoveredTell DEF Previous

\* An entry takes words and hash from the one section its function claims.
LEMMA OutlinedPlanIsSound ==
  ASSUME NEW r, NEW t, NEW prev, NEW pg, TellsTruth(prev, pg)
  PROVE  SoundPlan(PlanSections(r, t, prev, pg))
<1> DEFINE plan == PlanSections(r, t, prev, pg)
           m == MatchPrevious(t, prev)
<1> SUFFICES ASSUME NEW k \in DOMAIN plan, plan[k].words # 0
             PROVE  plan[k].hash \in {plan[k].words, Unknown}
  BY DEF SoundPlan
<1>1. /\ plan[k].words = IF m[k] \in DOMAIN prev THEN ContentFor(pg, prev[m[k]]) ELSE 0
      /\ plan[k].hash = IF m[k] \in DOMAIN prev THEN prev[m[k]].hash ELSE 0
  BY DEF PlanSections, Entry
<1> HIDE DEF plan, m
<1> QED BY <1>1 DEF TellsTruth

LEMMA UnoutlinedPlanIsSound ==
  ASSUME NEW prev, NEW pg, NEW changed, TellsTruth(prev, pg)
  PROVE  SoundPlan(PlanWithoutOutline(prev, pg, changed))
BY DEF SoundPlan, PlanWithoutOutline, Entry, TellsTruth

LEMMA PlanIsSound ==
  ASSUME NEW r, NEW t, NEW side, NEW pg, NEW outlined \in BOOLEAN,
         side # None => TellsTruth(side.sections, pg)
  PROVE  SoundPlan(PlanFor(r, t, side, pg, outlined))
<1> DEFINE prev == Previous(side, pg)
           changed == side = None \/ side.text # t
<1>1. TellsTruth(prev, pg)
  BY PreviousTells
<1>2. SoundPlan(<<>>)
  BY DEF SoundPlan
<1>3. PlanFor(r, t, side, pg, outlined) \in
        {PlanSections(r, t, prev, pg), <<>>, PlanWithoutOutline(prev, pg, changed)}
  BY DEF PlanFor
<1> HIDE DEF prev, changed
<1>4. /\ SoundPlan(PlanSections(r, t, prev, pg))
      /\ SoundPlan(PlanWithoutOutline(prev, pg, changed))
  BY <1>1, OutlinedPlanIsSound, UnoutlinedPlanIsSound
<1> QED BY <1>2, <1>3, <1>4

\* The page a commit writes and the hashes it records are of one piece.
LEMMA CommitTells ==
  ASSUME NEW plan, NEW t, NEW f, NEW produced, NEW pending, NEW final, SoundPlan(plan)
  PROVE  IsCommit(Commit(plan, t, f, produced, pending, final), f)
<1> DEFINE left == IF final THEN {} ELSE pending
           sections == ToSidecar(plan, produced)
           pg == ToRender(plan, produced, left)
           c == Commit(plan, t, f, produced, pending, final)
<1>1. TellsTruth(sections, pg)
  <2> SUFFICES ASSUME NEW k \in DOMAIN sections, ContentFor(pg, sections[k]) # 0
               PROVE  sections[k].hash \in {ContentFor(pg, sections[k]), Unknown}
    BY DEF TellsTruth
  <2> DEFINE e == plan[k]
  <2>1. /\ k \in DOMAIN plan /\ sections[k].at = k
        /\ sections[k].hash = IF e.fn \notin produced /\ e.words # 0 THEN e.hash ELSE e.body
    BY DEF ToSidecar
  <2>2. pg[k].of = IF e.fn \in produced THEN e.body ELSE IF e.fn \in left THEN 0 ELSE e.words
    BY <2>1 DEF ToRender
  <2>3. ContentFor(pg, sections[k]) = pg[k].of
    BY <2>1 DEF ContentFor
  <2> QED BY <2>1, <2>2, <2>3 DEF SoundPlan
<1>2. c = [final |-> final, step |-> "sidecar", over |-> None,
           side |-> [form |-> f, text |-> t, sections |-> sections], page |-> pg]
  BY DEF Commit
<1> HIDE DEF sections, pg, c, left
<1>3. /\ c.side.form = f /\ c.side.sections = sections /\ c.page = pg /\ c.step = "sidecar"
  BY <1>2
<1>4. CommitFields \subseteq DOMAIN c /\ c = [x \in DOMAIN c |-> c[x]]
  BY <1>2 DEF CommitFields
<1> QED BY <1>1, <1>3, <1>4 DEF IsCommit, c

-----------------------------------------------------------------------------
(* Pages and sidecars that go.                                             *)

\* A page or a sidecar that goes away makes nothing untrue.
LEMMA FewerFiles ==
  ASSUME NEW side, NEW pages, NEW f, pages = [x \in Forms |-> pages[x]],
         NEW side2 \in {side, None}, NEW pages2 \in {pages, [pages EXCEPT ![f] = None]}
  PROVE  /\ True(side, pages) => True(side2, pages2)
         /\ Alone(side, pages) => Alone(side2, pages2)
<1>1. \A x \in Forms : pages2[x] \in {pages[x], None}
  OBVIOUS
<1> QED BY <1>1, NothingTells DEF True, Alone

-----------------------------------------------------------------------------
(* What the steps of a run leave of it.                                    *)

LEMMA RunsAreNotIdle == ASSUME NEW r, IsRun(r) PROVE r # Idle
  BY DEF IsRun, RunFields, Idle

LEMMA CommitsAreNotIdle == ASSUME NEW c, NEW f, IsCommit(c, f) PROVE c # Idle
  BY DEF IsCommit, CommitFields, Idle

\* The part of a run that its commits rest on.
Alike(q, r) ==
  q.form = r.form /\ q.old = r.old /\ q.asked = r.asked /\ q.committed = r.committed

LEMMA NextStep ==
  ASSUME NEW r, IsRun(r), r.commit # Idle, NEW step \in {"page", "old", "back"}
  PROVE  LET q == [r EXCEPT !.commit.step = step] IN
         /\ IsRun(q) /\ Alike(q, r) /\ q.commit # Idle
         /\ q.commit.step = step
         /\ q.commit.side = r.commit.side /\ q.commit.page = r.commit.page
         /\ q.commit.over = r.commit.over
<1> DEFINE c == [r.commit EXCEPT !.step = step]
           q == [r EXCEPT !.commit = c]
<1>1. /\ IsCommit(c, r.form) /\ c.step = step
      /\ c.side = r.commit.side /\ c.page = r.commit.page /\ c.over = r.commit.over
  BY DEF IsRun, IsCommit, CommitFields
<1>2. c # Idle
  BY <1>1, CommitsAreNotIdle
<1> HIDE DEF c
<1>3. q.commit = c /\ Alike(q, r)
  BY DEF IsRun, RunFields, Alike
<1>4. IsRun(q)
  BY <1>1, <1>3 DEF IsRun, RunFields, Alike
<1>5. q = [r EXCEPT !.commit.step = step]
  BY DEF c
<1> HIDE DEF q
<1> QED BY <1>1, <1>2, <1>3, <1>4, <1>5

\* The sidecar is written: the commit keeps the one it replaced.
Replacing(r, over) == [r EXCEPT !.commit.step = "page", !.commit.over = over]

LEMMA SidecarStep ==
  ASSUME NEW r, IsRun(r), r.commit # Idle, NEW over
  PROVE  LET q == Replacing(r, over) IN
         /\ IsRun(q) /\ Alike(q, r) /\ q.commit # Idle
         /\ q.commit.step = "page" /\ q.commit.over = over
         /\ q.commit.side = r.commit.side /\ q.commit.page = r.commit.page
<1> DEFINE c == [r.commit EXCEPT !.step = "page", !.over = over]
           q == Replacing(r, over)
<1>1. /\ IsCommit(c, r.form) /\ c.step = "page" /\ c.over = over
      /\ c.side = r.commit.side /\ c.page = r.commit.page
  BY DEF IsRun, IsCommit, CommitFields
<1>2. c # Idle
  BY <1>1, CommitsAreNotIdle
<1>3. q = [r EXCEPT !.commit = c]
  BY DEF IsRun, RunFields, Replacing
<1> HIDE DEF c, q
<1>4. q.commit = c /\ Alike(q, r)
  BY <1>3 DEF IsRun, RunFields, Alike
<1>5. IsRun(q)
  BY <1>1, <1>3, <1>4 DEF IsRun, RunFields, Alike
<1> QED BY <1>1, <1>2, <1>4, <1>5 DEF q

\* After a commit the run is over, or it asks and writes nothing for now.
LEMMA CommitOver ==
  ASSUME NEW r, IsRun(r), r.old = None, NEW q \in {After(r), AfterFailure(r)}
  PROVE  q # Idle => /\ IsRun(q) /\ q.commit = Idle /\ q.asked
                     /\ q.committed = r.committed /\ q.form = r.form
<1>1. CASE q = After(r)
  BY <1>1 DEF After, IsRun, RunFields
<1>2. CASE q = AfterFailure(r)
  BY <1>2 DEF AfterFailure, IsRun, RunFields
<1> QED BY <1>1, <1>2

\* A commit that failed: only a run that asks goes on.
LEMMA CommitFailed ==
  ASSUME NEW r, IsRun(r)
  PROVE  AfterFailure(r) # Idle =>
           /\ IsRun(AfterFailure(r)) /\ AfterFailure(r).commit = Idle /\ r.asked
           /\ Alike(AfterFailure(r), r)
BY DEF AfterFailure, IsRun, RunFields, Alike

-----------------------------------------------------------------------------
(* Steps that write nothing.                                               *)

LEMMA Becoming ==
  ASSUME Typed, NEW s \in Slots, NEW r, Becomes(s, r)
  PROVE  /\ run' = [x \in Slots |-> run'[x]]
         /\ run'[s] = r /\ \A x \in Slots \ {s} : run'[x] = run[x]
BY DEF Typed, Becomes, Slots

\* Calls, the person's edits, timers and siblings leave the disk and the runs alone.
LEMMA ElsewhereKeeps ==
  ASSUME TwinsAssumption, TwinsOK, UNCHANGED <<disk, run>>, form' \in Forms
  PROVE  TwinsOK'
BY DEF TwinsOK, Typed, disk

\* The page a run starts from is the page its sidecar tells of.
LEMMA ParsedIsTold ==
  ASSUME Typed, Good(sidecar, page)
  PROVE  sidecar # None => TellsTruth(sidecar.sections, Parsed)
<1> SUFFICES ASSUME sidecar # None PROVE TellsTruth(sidecar.sections, Parsed)
  OBVIOUS
<1>1. Parsed \in {page[sidecar.form], None}
  BY DEF Parsed, OldForm, Good, Alone, Typed
<1> QED BY <1>1, NothingTells DEF Good, True

LEMMA BeginKeeps == ASSUME TwinsAssumption, TwinsOK, torn \in BOOLEAN, ~torn', Begin PROVE TwinsOK'
<1> DEFINE r == Head(queue)
           t == TextOf(r)
<1>1. PICK outlined \in BOOLEAN, final \in BOOLEAN :
        LET plan == PlanFor(r, t, sidecar, Parsed, outlined)
            pending == ToGenerate(plan)
        IN  Becomes("now", [text |-> t, form |-> form, plan |-> plan, produced |-> {},
                    pending |-> pending, committed |-> sidecar, old |-> OldForm,
                    had |-> InHand(t, sidecar, Parsed), due |-> FALSE, asked |-> FALSE,
                    commit |-> Commit(plan, t, form, {}, pending, final)])
  BY DEF Begin
<1> DEFINE plan == PlanFor(r, t, sidecar, Parsed, outlined)
           pending == ToGenerate(plan)
           c == Commit(plan, t, form, {}, pending, final)
           had == InHand(t, sidecar, Parsed)
           q == [text |-> t, form |-> form, plan |-> plan, produced |-> {},
                 pending |-> pending, committed |-> sidecar, old |-> OldForm,
                 had |-> had, due |-> FALSE, asked |-> FALSE, commit |-> c]
<1>2. /\ run["now"] = Idle /\ ~HalfDone("late") /\ UNCHANGED <<sidecar, page, form>>
  BY DEF Begin, source, disk
<1>3. ~Mid(run["late"]) /\ ~StepIn(run["late"], {"page"}) /\ Good(sidecar, page)
  BY <1>2 DEF TwinsOK, DiskOK, Mid, Removes, StepIn, HalfDone, At, Writing
<1>4. SoundPlan(plan)
  BY <1>3, ParsedIsTold, PlanIsSound DEF TwinsOK
<1>5. Becomes("now", q)
  BY <1>1
<1> HIDE DEF plan, pending, had
<1>6. IsCommit(c, form) /\ c.step = "sidecar"
  BY <1>4, CommitTells DEF Commit
<1> HIDE DEF c, t
<1>7. /\ q.form = form /\ q.asked = FALSE /\ q.plan = plan /\ q.commit = c
      /\ q.committed = sidecar
  OBVIOUS
<1>8. RunFields \subseteq DOMAIN q /\ q = [x \in DOMAIN q |-> q[x]]
  BY DEF RunFields
<1> HIDE DEF q
<1>9. IsRun(q) /\ ~Mid(q) /\ ~Removes(q) /\ ~StepIn(q, {"page"})
  BY <1>4, <1>6, <1>7, <1>8 DEF IsRun, Mid, Removes, StepIn, TwinsOK, Typed
<1>10. /\ run' = [x \in Slots |-> run'[x]]
       /\ run'["now"] = q /\ run'["late"] = run["late"]
  BY <1>5, Becoming DEF TwinsOK, Slots
<1>11. Typed'
  BY <1>2, <1>9, <1>10 DEF TwinsOK, Typed, RunsOK
<1>12. DiskOK(q, run["late"], sidecar, page)
  BY <1>3, <1>9 DEF DiskOK
<1> QED BY <1>2, <1>10, <1>11, <1>12 DEF TwinsOK

-----------------------------------------------------------------------------
(* The writes of a commit.                                                 *)

LEMMA WriteSidecarKeeps ==
  ASSUME TwinsOK, torn \in BOOLEAN, ~torn', NEW s \in Slots, WriteSidecar(s) PROVE TwinsOK'
<1> DEFINE r == run[s]
           q == Replacing(r, sidecar)
<1>1. /\ r # Idle /\ r.commit # Idle /\ r.commit.step = "sidecar"
      /\ sidecar' = r.commit.side /\ Becomes(s, q) /\ UNCHANGED <<page, form>>
      /\ \A x \in Slots \ {s} : ~HalfDone(x)
  BY DEF WriteSidecar, At, Writing, Replacing, source
<1>2. IsRun(r)
  BY <1>1 DEF TwinsOK, Typed, RunsOK, Slots
<1>3. /\ IsRun(q) /\ Alike(q, r) /\ q.commit # Idle /\ q.commit.step = "page"
      /\ q.commit.side = r.commit.side /\ q.commit.over = sidecar
  BY <1>1, <1>2, SidecarStep
<1>4. /\ run' = [x \in Slots |-> run'[x]]
      /\ run'[s] = q /\ \A x \in Slots \ {s} : run'[x] = run[x]
  BY <1>1, Becoming DEF TwinsOK
<1> HIDE DEF q
<1>5. Mid(q) /\ ~Removes(q) /\ StepIn(q, {"page"})
  BY <1>2, <1>3, RunsAreNotIdle DEF Mid, Removes, StepIn
<1>6. ~Mid(r) /\ ~Removes(r)
  BY <1>1 DEF Mid, Removes, StepIn
<1>7. \A x \in Slots \ {s} : ~Mid(run[x]) /\ ~Removes(run[x]) /\ ~StepIn(run[x], {"page"})
  BY <1>1 DEF HalfDone, At, Writing, Mid, Removes, StepIn
<1>8. CASE s = "now"
  <2>1. Good(sidecar, page)
    BY <1>6, <1>7, <1>8 DEF TwinsOK, DiskOK, Slots
  <2>2. RunsOK(q, run["late"])
    BY <1>3, <1>8 DEF TwinsOK, Typed, RunsOK
  <2>3. DiskOK(q, run["late"], sidecar', page)
    BY <1>1, <1>3, <1>5, <1>7, <1>8, <2>1 DEF DiskOK, Slots
  <2> QED BY <1>1, <1>4, <1>8, <2>2, <2>3 DEF TwinsOK, Typed, Slots
<1>9. CASE s = "late"
  <2>1. Good(sidecar, page)
    BY <1>6, <1>7, <1>9 DEF TwinsOK, DiskOK, Slots
  <2>2. RunsOK(run["now"], q)
    BY <1>1, <1>3, <1>5, <1>9 DEF TwinsOK, Typed, RunsOK, Alike
  <2>3. DiskOK(run["now"], q, sidecar', page)
    BY <1>1, <1>3, <1>5, <1>7, <1>9, <2>1 DEF DiskOK, Slots
  <2> QED BY <1>1, <1>4, <1>9, <2>2, <2>3 DEF TwinsOK, Typed, Slots
<1> QED BY <1>8, <1>9 DEF Slots

LEMMA PageFits ==
  ASSUME NEW c, NEW f \in Forms, IsCommit(c, f),
         NEW pages, pages = [x \in Forms |-> pages[x]]
  PROVE  LET pages2 == [pages EXCEPT ![f] = c.page] IN
         /\ True(c.side, pages2) /\ c.side.form = f
         /\ pages2 = [x \in Forms |-> pages2[x]]
         /\ \A x \in Forms \ {f} : pages2[x] = pages[x]
BY DEF IsCommit, True

LEMMA WriteTwinKeeps ==
  ASSUME TwinsAssumption, TwinsOK, torn \in BOOLEAN, ~torn', NEW s \in Slots, WriteTwin(s)
  PROVE  TwinsOK'
<1> DEFINE r == run[s]
           done == [r EXCEPT !.committed = r.commit.side]
           q == IF r.old # None THEN [done EXCEPT !.commit.step = "old"] ELSE After(done)
           side == r.commit.side
           pages == [page EXCEPT ![r.form] = r.commit.page]
<1>1. /\ r # Idle /\ r.commit # Idle /\ r.commit.step = "page"
      /\ page' = pages /\ Becomes(s, q) /\ UNCHANGED <<sidecar, form>>
      /\ \A f \in Forms \ {r.form, r.old} : page[f] = None
  BY DEF WriteTwin, At, Writing, source
<1>2. IsRun(r) /\ IsCommit(r.commit, r.form) /\ r.form \in Forms
  BY <1>1 DEF TwinsOK, Typed, RunsOK, IsRun, Slots
<1>3. /\ IsRun(done) /\ done.committed = side /\ done.commit = r.commit
      /\ done.form = r.form /\ done.old = r.old /\ done.asked = r.asked
  BY <1>2 DEF IsRun, RunFields
<1>4. /\ True(side, pages) /\ side.form = r.form
      /\ pages = [x \in Forms |-> pages[x]]
      /\ \A x \in Forms \ {r.form} : pages[x] = page[x]
  BY <1>2, PageFits DEF TwinsOK, Typed
<1>5. sidecar \in {side, None}
  BY <1>1 DEF TwinsOK, DiskOK, StepIn, Slots
<1>6. /\ run' = [x \in Slots |-> run'[x]]
      /\ run'[s] = q /\ \A x \in Slots \ {s} : run'[x] = run[x]
  BY <1>1, Becoming DEF TwinsOK
<1>7. /\ r.old # None => /\ IsRun(q) /\ q # Idle /\ q.form = r.form /\ q.old = r.old
                         /\ Removes(q) /\ ~Mid(q) /\ q.asked = r.asked
      /\ r.old = None /\ q # Idle => IsRun(q) /\ q.commit = Idle /\ q.asked
  <2>1. CASE r.old # None
    <3>1. q = [done EXCEPT !.commit.step = "old"]
      BY <2>1
    <3> HIDE DEF done, q
    <3>2. /\ IsRun(q) /\ Alike(q, done) /\ q.commit # Idle /\ q.commit.step = "old"
      BY <1>1, <1>3, <3>1, NextStep
    <3>3. q # Idle
      BY <3>2, RunsAreNotIdle
    <3> QED BY <1>3, <2>1, <3>2, <3>3 DEF Alike, Removes, Mid, StepIn
  <2>2. CASE r.old = None
    <3>1. q = After(done)
      BY <2>2
    <3> HIDE DEF done, q
    <3> QED BY <1>3, <2>2, <3>1, CommitOver
  <2> QED BY <2>1, <2>2
<1>8. r.old = None => Good(sidecar, pages)
  BY <1>1, <1>4, <1>5 DEF Good, Alone, True, TwinsAssumption
<1>9. Mine(r, sidecar, pages)
  BY <1>4, <1>5 DEF Mine, True
<1>10. \A f \in Forms \ {r.form, r.old} : pages[f] = None
  BY <1>1, <1>4
<1> HIDE DEF q, done, side, pages
<1>11. CASE s = "now"
  <2>1. ~Mid(run["late"]) /\ ~StepIn(run["late"], {"page"})
    BY <1>1, <1>11 DEF TwinsOK, DiskOK, Mid, StepIn
  <2>2. RunsOK(q, run["late"])
    BY <1>7 DEF TwinsOK, Typed, RunsOK
  <2>3. DiskOK(q, run["late"], sidecar, pages)
    <3>1. CASE r.old # None
      <4>1. Mine(q, sidecar, pages)
        BY <1>7, <1>9, <3>1 DEF Mine
      <4>2. ~StepIn(q, {"page"})
        BY <1>7, <3>1 DEF Mid, StepIn
      <4> QED BY <1>7, <1>10, <2>1, <3>1, <4>1, <4>2 DEF DiskOK
    <3>2. CASE r.old = None
      <4>1. ~Mid(q) /\ ~Removes(q) /\ ~StepIn(q, {"page"})
        BY <1>7, <3>2 DEF Mid, Removes, StepIn
      <4> QED BY <1>7, <1>8, <2>1, <3>2, <4>1 DEF DiskOK
    <3> QED BY <3>1, <3>2
  <2> QED BY <1>1, <1>4, <1>6, <1>11, <2>2, <2>3 DEF TwinsOK, Typed, Slots
<1>12. CASE s = "late"
  <2>1. r.old = None
    BY <1>1, <1>2, <1>12 DEF TwinsOK, Typed, RunsOK, IsRun
  <2>2. ~Mid(q) /\ ~Removes(q) /\ ~StepIn(q, {"page"})
    BY <1>7, <2>1 DEF Mid, Removes, StepIn
  <2>3. ~Mid(run["now"]) /\ ~Removes(run["now"]) /\ ~StepIn(run["now"], {"page"})
    BY <1>1, <1>12 DEF TwinsOK, DiskOK, Mid, StepIn
  <2>4. RunsOK(run["now"], q)
    BY <1>7, <2>1, <2>2 DEF TwinsOK, Typed, RunsOK
  <2>5. DiskOK(run["now"], q, sidecar, pages)
    BY <1>8, <2>1, <2>2, <2>3 DEF DiskOK
  <2> QED BY <1>1, <1>4, <1>6, <1>12, <2>4, <2>5 DEF TwinsOK, Typed, Slots
<1> QED BY <1>11, <1>12 DEF Slots

LEMMA RemoveOldKeeps ==
  ASSUME TwinsAssumption, TwinsOK, ~torn', RemoveOld PROVE TwinsOK'
<1> DEFINE r == run["now"]
           kept == [r EXCEPT !.old = None]
           q == After(kept)
<1>1. /\ r # Idle /\ r.commit # Idle /\ r.commit.step = "old"
      /\ Becomes("now", q) /\ UNCHANGED <<sidecar, form>>
      /\ \/ page[r.old] = None /\ page' = page
         \/ page' = [page EXCEPT ![r.old] = None]
  BY DEF RemoveOld, At, Writing, source
<1>2. IsRun(r) /\ Removes(r)
  BY <1>1 DEF TwinsOK, Typed, RunsOK, Removes, StepIn
<1>3. IsRun(kept) /\ kept.old = None
  BY <1>2 DEF IsRun, RunFields
<1> HIDE DEF kept
<1>4. q # Idle => IsRun(q) /\ q.commit = Idle
  BY <1>3, CommitOver
<1> HIDE DEF q
<1>5. ~Mid(q) /\ ~Removes(q) /\ ~StepIn(q, {"page"})
  BY <1>4 DEF Mid, Removes, StepIn
<1>6. /\ page' = [f \in Forms |-> page'[f]]
      /\ page' \in {page, [page EXCEPT ![r.old] = None]}
  BY <1>1 DEF TwinsOK, Typed
<1>7. \A f \in Forms \ {r.form} : page'[f] = None
  BY <1>1, <1>2 DEF TwinsOK, Typed, DiskOK
<1>8. /\ ~Mid(run["late"]) /\ ~StepIn(run["late"], {"page"})
  BY <1>2 DEF TwinsOK, DiskOK, Mid, StepIn
<1>9. Good(sidecar, page')
  <2>1. Mine(r, sidecar, page)
    BY <1>2 DEF TwinsOK, DiskOK
  <2>2. True(sidecar, page')
    BY <1>6, <2>1, FewerFiles DEF Mine, TwinsOK, Typed
  <2> QED BY <1>7, <2>1, <2>2 DEF Good, Alone, Mine
<1>10. /\ run' = [x \in Slots |-> run'[x]]
       /\ run'["now"] = q /\ run'["late"] = run["late"]
  BY <1>1, Becoming DEF TwinsOK, Slots
<1>11. RunsOK(q, run["late"])
  BY <1>4 DEF TwinsOK, Typed, RunsOK
<1>12. DiskOK(q, run["late"], sidecar, page')
  BY <1>4, <1>5, <1>8, <1>9 DEF DiskOK
<1> QED BY <1>1, <1>6, <1>10, <1>11, <1>12 DEF TwinsOK, Typed

\* A step of one run alone: the other run, the disk and the name stay.
LEMMA OneRunKeeps ==
  ASSUME TwinsOK, NEW s \in Slots, NEW q, Becomes(s, q), UNCHANGED <<disk, form>>,
         LET now == IF s = "now" THEN q ELSE run["now"]
             late == IF s = "late" THEN q ELSE run["late"]
         IN  RunsOK(now, late) /\ DiskOK(now, late, sidecar, page)
  PROVE  TwinsOK'
<1>1. /\ run' = [x \in Slots |-> run'[x]]
      /\ run'[s] = q /\ \A x \in Slots \ {s} : run'[x] = run[x]
  BY Becoming DEF TwinsOK
<1>2. CASE s = "now"
  BY <1>1, <1>2 DEF TwinsOK, Typed, disk, Slots
<1>3. CASE s = "late"
  BY <1>1, <1>3 DEF TwinsOK, Typed, disk, Slots
<1> QED BY <1>2, <1>3 DEF Slots

\* A run that is between its commits, or over.
Quiet(q) == q # Idle => IsRun(q) /\ q.commit = Idle /\ q.asked

\* A run leaves a commit, in the middle of it with the sidecar it had replaced.
LEMMA LeavesKeeps ==
  ASSUME TwinsOK, NEW s \in Slots, NEW q, Quiet(q), ~Removes(run[s]),
         Becomes(s, q), UNCHANGED <<page, form>>,
         sidecar' = IF Mid(run[s]) THEN run[s].commit.over ELSE sidecar
  PROVE  TwinsOK'
<1> DEFINE r == run[s]
<1>1. ~Mid(q) /\ ~Removes(q) /\ ~StepIn(q, {"page"})
  BY DEF Quiet, Mid, Removes, StepIn
<1>2. /\ run' = [x \in Slots |-> run'[x]]
      /\ run'[s] = q /\ \A x \in Slots \ {s} : run'[x] = run[x]
  BY Becoming DEF TwinsOK
<1>3. \A x : StepIn(x, {"page"}) => Mid(x)
  BY DEF Mid, StepIn
<1>4. CASE s = "now"
  <2>1. RunsOK(q, run["late"])
    BY <1>4 DEF TwinsOK, Typed, RunsOK, Quiet
  <2>2. DiskOK(q, run["late"], sidecar', page)
    BY <1>1, <1>3, <1>4 DEF TwinsOK, DiskOK
  <2> QED BY <1>2, <1>4, <2>1, <2>2 DEF TwinsOK, Typed, Slots
<1>5. CASE s = "late"
  <2>1. RunsOK(run["now"], q)
    BY <1>1, <1>5 DEF TwinsOK, Typed, RunsOK, Quiet
  <2>2. DiskOK(run["now"], q, sidecar', page)
    BY <1>1, <1>3, <1>5 DEF TwinsOK, DiskOK
  <2> QED BY <1>2, <1>5, <2>1, <2>2 DEF TwinsOK, Typed, Slots
<1> QED BY <1>4, <1>5 DEF Slots

LEMMA WriteFailsKeeps ==
  ASSUME TwinsOK, NEW s \in Slots, WriteFails(s) PROVE TwinsOK'
<1> DEFINE r == run[s]
<1>1. /\ r # Idle /\ r.commit # Idle /\ r.commit.step \in {"sidecar", "page"}
      /\ UNCHANGED <<disk, form>>
      /\ Becomes(s, IF r.commit.step = "page" THEN [r EXCEPT !.commit.step = "back"]
                    ELSE AfterFailure(r))
  BY DEF WriteFails, At, Writing, Step, source
<1>2. IsRun(r) /\ ~Removes(r)
  BY <1>1 DEF TwinsOK, Typed, RunsOK, Slots, Removes, StepIn
<1>3. CASE r.commit.step = "page"
  <2> DEFINE q == [r EXCEPT !.commit.step = "back"]
  <2>1. Becomes(s, q)
    BY <1>1, <1>3
  <2>2. /\ IsRun(q) /\ Alike(q, r) /\ q.commit # Idle /\ q.commit.step = "back"
        /\ q.commit.over = r.commit.over
    BY <1>1, <1>2, NextStep
  <2> HIDE DEF q
  <2>3. Mid(q) /\ ~Removes(q) /\ ~StepIn(q, {"page"}) /\ Mid(r)
    BY <1>1, <1>3, <2>2, RunsAreNotIdle DEF Mid, Removes, StepIn
  <2>4. CASE s = "now"
    <3>1. RunsOK(q, run["late"]) /\ DiskOK(q, run["late"], sidecar, page)
      BY <1>1, <2>2, <2>3, <2>4 DEF TwinsOK, Typed, RunsOK, DiskOK, Alike
    <3> QED BY <1>1, <2>1, <2>4, <3>1, OneRunKeeps
  <2>5. CASE s = "late"
    <3>1. RunsOK(run["now"], q) /\ DiskOK(run["now"], q, sidecar, page)
      BY <1>1, <2>2, <2>3, <2>5 DEF TwinsOK, Typed, RunsOK, DiskOK, Alike
    <3> QED BY <1>1, <2>1, <2>5, <3>1, OneRunKeeps
  <2> QED BY <2>4, <2>5 DEF Slots
<1>4. CASE r.commit.step # "page"
  <2> DEFINE q == AfterFailure(r)
  <2>1. Becomes(s, q) /\ ~Mid(r)
    BY <1>1, <1>4 DEF Mid, StepIn
  <2>2. Quiet(q)
    BY <1>2, CommitFailed DEF Quiet, Alike
  <2> HIDE DEF q
  <2> QED BY <1>1, <1>2, <2>1, <2>2, LeavesKeeps DEF disk
<1> QED BY <1>3, <1>4

LEMMA PutBackKeeps ==
  ASSUME TwinsOK, torn \in BOOLEAN, ~torn', NEW s \in Slots, PutBack(s) PROVE TwinsOK'
<1> DEFINE r == run[s]
           q == AfterFailure(r)
<1>1. /\ r # Idle /\ Mid(r) /\ sidecar' = r.commit.over /\ UNCHANGED <<page, form>>
      /\ Becomes(s, q)
  BY DEF PutBack, At, Writing, Mid, StepIn, source
<1>2. IsRun(r) /\ ~Removes(r)
  BY <1>1 DEF TwinsOK, Typed, RunsOK, Slots, Removes, Mid, StepIn
<1>3. Quiet(q)
  BY <1>2, CommitFailed DEF Quiet, Alike
<1> HIDE DEF q
<1> QED BY <1>1, <1>2, <1>3, LeavesKeeps

-----------------------------------------------------------------------------
(* Answers, and what happens around.                                       *)

LEMMA ArriveKeeps == ASSUME TwinsOK, NEW s \in Slots, Arrive(s) PROVE TwinsOK'
<1> DEFINE r == run[s]
<1>1. PICK f \in r.pending :
        Becomes(s, [r EXCEPT !.produced = @ \cup {f}, !.pending = @ \ {f}, !.due = TRUE])
  BY DEF Arrive
<1> DEFINE q == [r EXCEPT !.produced = @ \cup {f}, !.pending = @ \ {f}, !.due = TRUE]
<1>2. r # Idle /\ r.asked /\ IsRun(r) /\ UNCHANGED <<disk, form>>
  BY DEF Arrive, Asking, source, TwinsOK, Typed, RunsOK, Slots
<1>3. IsRun(q) /\ Alike(q, r) /\ q.commit = r.commit
  BY <1>2 DEF IsRun, RunFields, Alike
<1>4. Becomes(s, q)
  BY <1>1
<1> HIDE DEF q
<1>5. /\ q # Idle
      /\ \A steps : StepIn(q, steps) = StepIn(r, steps)
  BY <1>2, <1>3, RunsAreNotIdle DEF StepIn
<1>6. Mid(q) = Mid(r) /\ Removes(q) = Removes(r)
  BY <1>5 DEF Mid, Removes
<1>7. CASE s = "now"
  <2>1. RunsOK(q, run["late"])
    BY <1>3, <1>7 DEF TwinsOK, Typed, RunsOK
  <2>2. DiskOK(q, run["late"], sidecar, page)
    BY <1>2, <1>3, <1>5, <1>6, <1>7 DEF TwinsOK, DiskOK, Alike, Mine
  <2> QED BY <1>2, <1>4, <1>7, <2>1, <2>2, OneRunKeeps
<1>8. CASE s = "late"
  <2>1. RunsOK(run["now"], q)
    BY <1>2, <1>3, <1>6, <1>8 DEF TwinsOK, Typed, RunsOK, Alike
  <2>2. DiskOK(run["now"], q, sidecar, page)
    BY <1>2, <1>3, <1>5, <1>6, <1>8 DEF TwinsOK, DiskOK, Alike
  <2> QED BY <1>2, <1>4, <1>8, <2>1, <2>2, OneRunKeeps
<1> QED BY <1>7, <1>8 DEF Slots

\* A run that starts a commit: nothing is written yet.
LEMMA NewCommit ==
  ASSUME NEW r, IsRun(r), NEW final
  PROVE  LET q == [r EXCEPT !.commit = CommitOf(r, final)]
         IN  IsRun(q) /\ Alike(q, r) /\ ~Mid(q) /\ ~Removes(q) /\ ~StepIn(q, {"page"})
<1> DEFINE c == CommitOf(r, final)
           q == [r EXCEPT !.commit = c]
<1>1. IsCommit(c, r.form) /\ c.step = "sidecar"
  BY CommitTells DEF IsRun, Commit, CommitOf
<1> HIDE DEF c
<1>2. q.commit = c /\ Alike(q, r)
  BY DEF IsRun, RunFields, Alike
<1>3. IsRun(q)
  BY <1>1, <1>2 DEF IsRun, RunFields, Alike
<1> HIDE DEF q
<1>4. ~Mid(q) /\ ~Removes(q) /\ ~StepIn(q, {"page"})
  BY <1>1, <1>2 DEF Mid, Removes, StepIn
<1> QED BY <1>2, <1>3, <1>4 DEF c, q

LEMMA NothingDue ==
  ASSUME NEW r, IsRun(r)
  PROVE  LET q == [r EXCEPT !.due = FALSE] IN
         /\ IsRun(q) /\ Alike(q, r) /\ q.commit = r.commit
         /\ \A final : CommitOf(q, final) = CommitOf(r, final)
BY DEF IsRun, RunFields, Alike, CommitOf

\* A run that writes nothing is free to start a commit.
LEMMA FreshCommitKeeps ==
  ASSUME TwinsOK, NEW s \in Slots, run[s] # Idle, ~Writing(s), NEW q,
         IsRun(q), Alike(q, run[s]), ~Mid(q), ~Removes(q), ~StepIn(q, {"page"})
  PROVE  LET now == IF s = "now" THEN q ELSE run["now"]
             late == IF s = "late" THEN q ELSE run["late"]
         IN  RunsOK(now, late) /\ DiskOK(now, late, sidecar, page)
<1>1. ~Mid(run[s]) /\ ~Removes(run[s])
  BY DEF Writing, Mid, Removes, StepIn
<1>2. CASE s = "now"
  BY <1>1, <1>2 DEF TwinsOK, Typed, RunsOK, DiskOK, Alike
<1>3. CASE s = "late"
  BY <1>1, <1>3 DEF TwinsOK, Typed, RunsOK, DiskOK, Alike
<1> QED BY <1>2, <1>3 DEF Slots

LEMMA RewriteKeeps == ASSUME TwinsOK, NEW s \in Slots, Rewrite(s) PROVE TwinsOK'
<1> DEFINE r == run[s]
           kept == [r EXCEPT !.due = FALSE]
           q == [kept EXCEPT !.commit = CommitOf(kept, FALSE)]
<1>1. /\ r # Idle /\ ~Writing(s) /\ IsRun(r) /\ UNCHANGED <<disk, form>>
      /\ Becomes(s, [kept EXCEPT !.commit = CommitOf(r, FALSE)])
  BY DEF Rewrite, Asking, source, TwinsOK, Typed, RunsOK, Slots
<1>2. IsRun(kept) /\ Alike(kept, r) /\ CommitOf(kept, FALSE) = CommitOf(r, FALSE)
  BY <1>1, NothingDue
<1> HIDE DEF kept
<1>3. Becomes(s, q)
  BY <1>1, <1>2
<1>4. IsRun(q) /\ Alike(q, r) /\ ~Mid(q) /\ ~Removes(q) /\ ~StepIn(q, {"page"})
  BY <1>2, NewCommit DEF Alike
<1> HIDE DEF q
<1> QED BY <1>1, <1>3, <1>4, FreshCommitKeeps, OneRunKeeps

LEMMA FinishKeeps == ASSUME TwinsOK, Finish PROVE TwinsOK'
<1> DEFINE was == run["now"]
           r == [was EXCEPT !.due = FALSE]
           last == [r EXCEPT !.commit = CommitOf(r, TRUE)]
           behind == [r EXCEPT !.committed = last.commit.side]
<1>1. /\ was # Idle /\ was.asked /\ was.commit = Idle /\ ~Writing("now")
      /\ IsRun(was) /\ UNCHANGED <<disk, form>>
  BY DEF Finish, Asking, Writing, source, TwinsOK, Typed, RunsOK
<1>2. \/ Becomes("now", last)
      \/ run["late"] = Idle /\ run' = [now |-> last, late |-> behind]
  BY DEF Finish
<1>3. IsRun(r) /\ Alike(r, was) /\ r.commit = Idle
  BY <1>1, NothingDue
<1> HIDE DEF r
<1>4. IsRun(last) /\ Alike(last, was) /\ ~Mid(last) /\ ~Removes(last) /\ ~StepIn(last, {"page"})
  BY <1>3, NewCommit DEF Alike
<1>5. IsRun(behind) /\ behind.commit = Idle /\ behind.asked
  BY <1>1, <1>3 DEF IsRun, RunFields, Alike
<1> HIDE DEF last, behind
<1>6. CASE Becomes("now", last)
  BY <1>1, <1>4, <1>6, FreshCommitKeeps, OneRunKeeps DEF Slots
<1>7. CASE run["late"] = Idle /\ run' = [now |-> last, late |-> behind]
  <2>1. /\ run' = [x \in Slots |-> run'[x]]
        /\ run'["now"] = last /\ run'["late"] = behind
    BY <1>7 DEF Slots
  <2>2. ~Mid(behind) /\ ~Removes(behind) /\ ~StepIn(behind, {"page"})
    BY <1>5 DEF Mid, Removes, StepIn
  <2>3. Good(sidecar, page)
    BY <1>1, <1>7 DEF TwinsOK, DiskOK, Mid, Removes, StepIn
  <2>4. RunsOK(last, behind) /\ DiskOK(last, behind, sidecar, page)
    BY <1>4, <1>5, <2>2, <2>3 DEF RunsOK, DiskOK, Alike
  <2> QED BY <1>1, <2>1, <2>4 DEF TwinsOK, Typed, disk
<1> QED BY <1>2, <1>6, <1>7

LEMMA LateIsOverKeeps == ASSUME TwinsOK, LateIsOver PROVE TwinsOK'
<1>1. /\ run["late"] # Idle /\ ~Writing("late") /\ Becomes("late", Idle)
      /\ UNCHANGED <<page, form, sidecar>> /\ "late" \in Slots
  BY DEF LateIsOver, source, disk, Slots
<1>2. ~Mid(run["late"]) /\ ~Removes(run["late"]) /\ Quiet(Idle)
  BY <1>1 DEF Writing, Mid, Removes, StepIn, Quiet
<1> QED BY <1>1, <1>2, LeavesKeeps

\* A crash that tears nothing happens between two commits.
LEMMA CrashKeeps == ASSUME TwinsOK, torn \in BOOLEAN, ~torn', Crash PROVE TwinsOK'
<1>1. /\ run' = NoRun /\ UNCHANGED <<disk, form>>
      /\ \A s \in Slots : ~At(s, "page") /\ ~At(s, "back") /\ ~At(s, "old")
  BY DEF Crash, HalfDone, source
<1>2. ~Mid(run["now"]) /\ ~Mid(run["late"]) /\ ~Removes(run["now"])
  BY <1>1 DEF Mid, Removes, StepIn, At, Writing, Slots
<1>3. Good(sidecar, page)
  BY <1>2 DEF TwinsOK, DiskOK
<1>4. ~Mid(Idle) /\ ~Removes(Idle) /\ ~StepIn(Idle, {"page"})
  BY DEF Mid, Removes, StepIn
<1>5. /\ run' = [x \in Slots |-> run'[x]]
      /\ run'["now"] = Idle /\ run'["late"] = Idle
  BY <1>1 DEF NoRun, Slots
<1>6. RunsOK(Idle, Idle) /\ DiskOK(Idle, Idle, sidecar, page)
  BY <1>3, <1>4 DEF RunsOK, DiskOK
<1> QED BY <1>1, <1>5, <1>6 DEF TwinsOK, Typed, disk

LEMMA LoseKeeps == ASSUME TwinsOK, Lose PROVE TwinsOK'
<1>1. PICK f \in Forms :
        /\ page' \in {page, [page EXCEPT ![f] = None]} /\ sidecar' \in {sidecar, None}
        /\ UNCHANGED <<run, form>>
  BY DEF Lose, source, TwinsOK, Typed
<1>2. page' = [x \in Forms |-> page'[x]]
  BY <1>1 DEF TwinsOK, Typed
<1>3. \A side : /\ True(side, page) => True(side, page')
                /\ Good(side, page) => Good(side, page')
  BY <1>1, FewerFiles DEF TwinsOK, Typed, Good
<1>4. /\ True(sidecar, page) => True(sidecar', page')
      /\ Good(sidecar, page) => Good(sidecar', page')
  BY <1>1, FewerFiles DEF TwinsOK, Typed, Good
<1>5. \A x \in Forms : page[x] = None => page'[x] = None
  BY <1>1 DEF TwinsOK, Typed
<1>6. \A r : Mine(r, sidecar, page) => Mine(r, sidecar', page')
  BY <1>1, <1>4 DEF Mine
<1>7. \A r, side : Mine(r, side, page) => Mine(r, side, page')
  BY <1>3 DEF Mine
<1>8. DiskOK(run["now"], run["late"], sidecar', page')
  BY <1>1, <1>3, <1>4, <1>5, <1>6, <1>7 DEF TwinsOK, DiskOK
<1> QED BY <1>1, <1>2, <1>8 DEF TwinsOK, Typed

-----------------------------------------------------------------------------
(* Every step, and the theorem.                                            *)

LEMMA InitIsTrue == ASSUME TwinsAssumption, Init PROVE TwinsOK /\ torn = FALSE
<1>1. /\ run = NoRun /\ form \in Forms /\ torn = FALSE
  BY DEF Init, TwinsAssumption
<1>2. page = [f \in Forms |-> page[f]]
  BY DEF Init
<1>3. Good(sidecar, page)
  <2>1. CASE sidecar = None
    BY <2>1 DEF Good, True, Alone
  <2>2. CASE sidecar # None
    <3> DEFINE plan == [k \in DOMAIN FirstText |->
                         Entry(FirstText[k].fn, FirstText[k].body, 0, Unknown, FALSE, TRUE)]
               names == Named(text)
               c == Commit(plan, text, form, names, {}, TRUE)
    <3>1. /\ sidecar = [form |-> form, text |-> text, sections |-> ToSidecar(plan, names)]
          /\ page = [f \in Forms |-> IF f = form THEN ToRender(plan, names, {}) ELSE None]
      BY <2>2 DEF Init
    <3>2. SoundPlan(plan)
      BY DEF SoundPlan, Entry
    <3> HIDE DEF plan, names
    <3>3. IsCommit(c, form) /\ sidecar = c.side /\ page[form] = c.page
      BY <1>1, <3>1, <3>2, CommitTells DEF Commit
    <3> HIDE DEF c
    <3> QED BY <1>1, <3>1, <3>3 DEF IsCommit, Good, True, Alone
  <2> QED BY <2>1, <2>2
<1>4. ~Mid(Idle) /\ ~Removes(Idle) /\ ~StepIn(Idle, {"page"})
  BY DEF Mid, Removes, StepIn
<1>5. RunsOK(Idle, Idle) /\ DiskOK(Idle, Idle, sidecar, page)
  BY <1>3, <1>4 DEF RunsOK, DiskOK
<1>6. run = [x \in Slots |-> run[x]] /\ run["now"] = Idle /\ run["late"] = Idle
  BY <1>1 DEF NoRun, Slots
<1> QED BY <1>1, <1>2, <1>5, <1>6 DEF TwinsOK, Typed

LEMMA InvariantStep ==
  ASSUME TwinsAssumption, TwinsIInv, [Next]_vars
  PROVE  TwinsIInv'
<1>1. CASE UNCHANGED vars
  BY <1>1 DEF TwinsIInv, TwinsOK, Typed, vars, source, disk, losses
<1>2. CASE Next
  <2>1. torn' \in BOOLEAN /\ (torn => torn')
    BY <1>2 DEF TwinsIInv, Next, EnsureTwin, RegenerateSection, Edit, Land, LandingAges, WatchFires,
       BeginNothing, Begin, WriteSidecar, WriteTwin, RemoveOld, WriteFails, PutBack, Arrive, Rewrite,
       Finish, LateIsOver, Crash, Sibling, Lose, losses
  <2> SUFFICES ASSUME ~torn' PROVE TwinsOK'
    BY <2>1 DEF TwinsIInv
  <2>2. TwinsOK /\ torn \in BOOLEAN
    BY <2>1 DEF TwinsIInv
  <2>3. CASE \/ EnsureTwin \/ RegenerateSection \/ Edit \/ Land \/ LandingAges \/ WatchFires
             \/ BeginNothing \/ Sibling
    <3>1. UNCHANGED <<disk, run>> /\ form' \in Forms
      BY <2>2, <2>3 DEF EnsureTwin, RegenerateSection, Edit, Land, LandingAges, WatchFires,
         BeginNothing, Sibling, source, TwinsOK, Typed
    <3> QED BY <2>2, <3>1, ElsewhereKeeps
  <2>4. CASE Begin
    BY <2>2, <2>4, BeginKeeps
  <2>5. ASSUME NEW s \in Slots, WriteSidecar(s) \/ WriteTwin(s) \/ WriteFails(s) \/ PutBack(s)
        PROVE  TwinsOK'
    BY <2>2, <2>5, WriteSidecarKeeps, WriteTwinKeeps, WriteFailsKeeps, PutBackKeeps
  <2>6. ASSUME NEW s \in Slots, Arrive(s) \/ Rewrite(s) PROVE TwinsOK'
    BY <2>2, <2>6, ArriveKeeps, RewriteKeeps
  <2>7. CASE RemoveOld
    BY <2>2, <2>7, RemoveOldKeeps
  <2>8. CASE Finish \/ LateIsOver
    BY <2>2, <2>8, FinishKeeps, LateIsOverKeeps
  <2>9. CASE Crash \/ Lose
    BY <2>2, <2>9, CrashKeeps, LoseKeeps
  <2> QED BY <1>2, <2>3, <2>4, <2>5, <2>6, <2>7, <2>8, <2>9 DEF Next
<1> QED BY <1>1, <1>2

LEMMA InvariantTells == ASSUME TwinsIInv PROVE SidecarTellsTruth
<1> SUFFICES ASSUME ~torn, ~Ahead, sidecar # None
             PROVE  TellsTruth(sidecar.sections, page[sidecar.form])
  BY DEF SidecarTellsTruth, TellsTruth
<1>1. TwinsOK /\ ~Mid(run["now"]) /\ ~Mid(run["late"])
  BY DEF TwinsIInv, Ahead, At, Writing, Mid, StepIn, Slots
<1>2. CASE Removes(run["now"])
  BY <1>1, <1>2 DEF TwinsOK, DiskOK, Mine, True
<1>3. CASE ~Removes(run["now"])
  BY <1>1, <1>3 DEF TwinsOK, DiskOK, Good, True
<1> QED BY <1>2, <1>3

\* In every order of runs, edits, renames, answers, late answers, failed writes
\* and lost files, the words a twin shows for a section are those of the body
\* whose hash its sidecar records (engine.ts commit, writeTwin, removeOldTwin;
\* stale.ts planSections, toSidecarSections), unless the disk was torn (see the
\* property); also when a run that was given up rewrites the twin later.
THEOREM HashesAreOfTheWords == Spec => []SidecarTellsTruth
<1> USE TwinsAssumption
<1>1. Init => TwinsIInv
  BY InitIsTrue DEF TwinsIInv
<1>2. TwinsIInv /\ [Next]_vars => TwinsIInv'
  BY InvariantStep
<1>3. TwinsIInv => SidecarTellsTruth
  BY InvariantTells
<1> QED BY <1>1, <1>2, <1>3, PTL DEF Spec

-----------------------------------------------------------------------------
(* Induction over numbers and folds: a fold has its steps, because no      *)
(* number can be the first without them.                                   *)

LEMMA LeastNumber ==
  ASSUME NEW I, I \subseteq Nat, I # {}
  PROVE  \E m \in I : \A i \in I : m <= i
<1>1. PICK m \in I : \A i \in I : ~(<<i, m>> \in OpToRel(<, Nat))
  BY NatLessThanWellFounded, WFMin
<1>2. ASSUME NEW i \in I PROVE m <= i
  <2>1. i \in Nat /\ m \in Nat
    OBVIOUS
  <2>2. <<i, m>> \notin {ss \in Nat \X Nat : ss[1] < ss[2]}
    BY <1>1 DEF OpToRel
  <2>3. ~(i < m)
    BY <2>1, <2>2
  <2> QED BY <2>1, <2>3
<1> QED BY <1>2

LEMMA LeastIsMin ==
  ASSUME NEW I, I \subseteq Nat, I # {}
  PROVE  Min(I) \in I
<1>1. \E m \in I : \A i \in I : m <= i
  BY LeastNumber
<1>2. Min(I) = CHOOSE x \in I : \A y \in I : x <= y
  BY DEF Min
<1> QED BY <1>1, <1>2

LEMMA LastIsMax ==
  ASSUME NEW m \in Nat, NEW s, m \in s, s \subseteq 1 .. m
  PROVE  Max(s) = m
<1>1. \A y \in s : y \in 1 .. m /\ m >= y
  OBVIOUS
<1>2. \A x \in s : (\A y \in s : x >= y) => x = m
  BY <1>1
<1>3. Max(s) = CHOOSE x \in s : \A y \in s : x >= y
  BY DEF Max
<1> QED BY <1>1, <1>2, <1>3

\* What a fold over the first numbers works out, for every set of them.
Folds(it, base, F, m) ==
  \A s \in SUBSET (1 .. m) : it[s] = IF s = {} THEN base ELSE F[<<it[s \ {Max(s)}], Max(s)>>]

LEMMA FoldExists ==
  ASSUME NEW n \in Nat, NEW X, NEW base \in X, NEW F \in [X \X (1 .. n) -> X]
  PROVE  \E it \in [SUBSET (1 .. n) -> X] : Folds(it, base, F, n)
<1> DEFINE Found(m) == \E it \in [SUBSET (1 .. m) -> X] : Folds(it, base, F, m)
           bad == {m \in 0 .. n : ~Found(m)}
<1> HIDE DEF Found
<1> SUFFICES ASSUME bad # {} PROVE FALSE
  <2>1. SUFFICES Found(n)
    BY DEF Found
  <2> QED OBVIOUS
<1>1. PICK m \in bad : \A i \in bad : m <= i
  <2>1. bad \subseteq Nat
    OBVIOUS
  <2> HIDE DEF bad
  <2> QED BY <2>1, LeastNumber
<1>2. m \in 0 .. n
  OBVIOUS
<1>3. CASE m = 0
  <2> DEFINE it == [s \in SUBSET (1 .. 0) |-> base]
  <2>1. it \in [SUBSET (1 .. m) -> X] /\ Folds(it, base, F, m)
    BY <1>3 DEF Folds
  <2> HIDE DEF it
  <2> QED BY <1>1, <2>1 DEF Found
<1>4. CASE m # 0
  <2>1. m - 1 \in 0 .. n /\ m - 1 \notin bad
    <3>1. ~(m <= m - 1) /\ m - 1 \in 0 .. n
      BY <1>2, <1>4
    <3> HIDE DEF bad
    <3> QED BY <1>1, <3>1
  <2>2. PICK it \in [SUBSET (1 .. m - 1) -> X] : Folds(it, base, F, m - 1)
    BY <2>1 DEF Found
  <2> HIDE DEF bad
  <2> DEFINE h == [s \in SUBSET (1 .. m) |-> IF m \in s THEN F[<<it[s \ {m}], m>>] ELSE it[s]]
  <2>3. ASSUME NEW s \in SUBSET (1 .. m), m \in s
        PROVE  /\ s \ {m} \in SUBSET (1 .. m - 1) /\ Max(s) = m
               /\ h[s] = F[<<h[s \ {m}], m>>] /\ h[s] \in X
    <3>1. s \ {m} \in SUBSET (1 .. m - 1) /\ s \ {m} \in SUBSET (1 .. m)
      BY <1>2, <1>4
    <3>2. Max(s) = m
      <4>1. m \in Nat /\ s \subseteq 1 .. m
        BY <1>2
      <4> QED BY <2>3, <4>1, LastIsMax
    <3>3. h[s \ {m}] = it[s \ {m}]
      BY <3>1
    <3>4. it[s \ {m}] \in X /\ m \in 1 .. n
      BY <1>2, <1>4, <3>1
    <3> QED BY <2>3, <3>1, <3>2, <3>3, <3>4
  <2>4. ASSUME NEW s \in SUBSET (1 .. m), m \notin s
        PROVE  /\ s \in SUBSET (1 .. m - 1) /\ h[s] = it[s] /\ h[s] \in X
               /\ \A x : h[s \ {x}] = it[s \ {x}]
    <3>1. s \in SUBSET (1 .. m - 1)
      BY <1>2, <1>4, <2>4
    <3> QED BY <2>4, <3>1
  <2>5. h \in [SUBSET (1 .. m) -> X]
    BY <2>3, <2>4
  <2>6. Folds(h, base, F, m)
    <3> SUFFICES ASSUME NEW s \in SUBSET (1 .. m)
                 PROVE  h[s] = IF s = {} THEN base ELSE F[<<h[s \ {Max(s)}], Max(s)>>]
      BY DEF Folds
    <3> HIDE DEF h
    <3>1. CASE m \in s
      BY <2>3, <3>1
    <3>2. CASE m \notin s
      BY <2>2, <2>4, <3>2 DEF Folds
    <3> QED BY <3>1, <3>2
  <2> HIDE DEF h
  <2> QED BY <1>1, <2>5, <2>6 DEF bad, Found
<1> QED BY <1>3, <1>4

\* What holds at first, and of a number when it holds of the one before.
LEMMA Climb ==
  ASSUME NEW n \in Nat, NEW I, 0 \in I, \A k \in 1 .. n : k - 1 \in I => k \in I
  PROVE  n \in I
<1> DEFINE bad == (0 .. n) \ I
<1> SUFFICES ASSUME bad # {} PROVE FALSE
  OBVIOUS
<1>1. PICK m \in bad : \A i \in bad : m <= i
  <2>1. bad \subseteq Nat
    OBVIOUS
  <2> HIDE DEF bad
  <2> QED BY <2>1, LeastNumber
<1>2. m \in 1 .. n /\ m - 1 \in 0 .. n /\ ~(m <= m - 1)
  OBVIOUS
<1>3. m - 1 \in I
  BY <1>1, <1>2
<1> QED BY <1>2, <1>3

LEMMA MaxIsIn ==
  ASSUME NEW n \in Nat, NEW s, s \subseteq 1 .. n, s # {}
  PROVE  Max(s) \in s
<1> DEFINE I == {n - x : x \in s}
<1>1. I \subseteq Nat /\ I # {}
  OBVIOUS
<1>2. PICK d \in I : \A i \in I : d <= i
  BY <1>1, LeastNumber
<1>3. PICK x \in s : d = n - x
  OBVIOUS
<1>4. \A y \in s : n - y \in I
  OBVIOUS
<1> HIDE DEF I
<1>5. ASSUME NEW y \in s PROVE x >= y
  <2>1. d <= n - y
    BY <1>2, <1>4
  <2> QED BY <1>3, <2>1
<1>6. Max(s) = CHOOSE z \in s : \A y \in s : z >= y
  BY DEF Max
<1> QED BY <1>5, <1>6

Order(t) == [k \in DOMAIN t |-> k]

\* Any solution of the equation a fold over 1 .. n is defined by.
LEMMA FirstNumbers ==
  ASSUME NEW n \in Nat, NEW k \in 1 .. n
  PROVE  /\ 1 .. k \in SUBSET (1 .. n) /\ 1 .. k # {}
         /\ (1 .. k) \ {k} = 1 .. (k - 1) /\ Max(1 .. k) = k
<1>1. k \in Nat /\ k \in 1 .. k /\ 1 .. k \subseteq 1 .. k
  OBVIOUS
<1>2. Max(1 .. k) = k
  BY <1>1, LastIsMax
<1>3. 1 .. k \in SUBSET (1 .. n) /\ 1 .. k # {} /\ (1 .. k) \ {k} = 1 .. (k - 1)
  OBVIOUS
<1> QED BY <1>2, <1>3

-----------------------------------------------------------------------------
(* The claims.                                                             *)

SameBody(t, prev, k) == {s \in DOMAIN prev : prev[s].hash = t[k].body}
SameName(t, prev, k) == {s \in DOMAIN prev : prev[s].fn = t[k].fn}

Claims(n) == [1 .. n -> Nat]
Taken(m) == {m[j] : j \in DOMAIN m}

Nobody(n) == [k \in 1 .. n |-> 0]
Bodies(n, t, prev) == [k \in 1 .. n |-> SameBody(t, prev, k)]
Names(n, t, prev) == [k \in 1 .. n |-> SameName(t, prev, k)]

\* A claim takes a wanted section that nobody has, or nothing.
LEMMA ClaimTakes ==
  ASSUME NEW n \in Nat, NEW m \in Claims(n), NEW k \in 1 .. n, NEW wanted, wanted \subseteq Nat
  PROVE  /\ Claim(m, k, wanted) \in Claims(n)
         /\ \A j \in 1 .. n : j # k => Claim(m, k, wanted)[j] = m[j]
         /\ m[k] # 0 \/ wanted \ Taken(m) = {} => Claim(m, k, wanted) = m
         /\ m[k] = 0 /\ wanted \ Taken(m) # {} => Claim(m, k, wanted)[k] \in wanted \ Taken(m)
<1> DEFINE free == wanted \ Taken(m)
<1>1. free # {} => Min(free) \in free /\ Min(free) \in Nat
  BY LeastIsMin
<1>2. Claim(m, k, wanted) = IF m[k] # 0 \/ free = {} THEN m ELSE [m EXCEPT ![k] = Min(free)]
  BY DEF Claim, Taken
<1> HIDE DEF free
<1> QED BY <1>1, <1>2 DEF Claims, free

\* A pass over the functions of a text, one claim after the other.
Passes(g, n, base, W) == g[0] = base /\ \A k \in 1 .. n : g[k] = Claim(g[k - 1], k, W[k])

\* The pass by hash.
ClaimsByHash(t, prev, base) == FoldLeft(LAMBDA m, k : Claim(m, k, {s \in DOMAIN prev : prev[s].hash = t[k].body}), base, Order(t))

LEMMA PassByHash ==
  ASSUME NEW n \in Nat, NEW t, DOMAIN t = 1 .. n, NEW prev, DOMAIN prev \subseteq Nat,
         NEW base \in Claims(n)
  PROVE  \E g : /\ Passes(g, n, base, Bodies(n, t, prev))
                /\ ClaimsByHash(t, prev, base) = g[n]
<1> DEFINE F == [q \in Claims(n) \X (1 .. n) |-> Claim(q[1], q[2], SameBody(t, prev, q[2]))]
           ByHash(m, k) == Claim(m, k, {s \in DOMAIN prev : prev[s].hash = t[k].body})
           Solves(it) == it = [s \in SUBSET (1 .. n) |->
                                 IF s = {} THEN base ELSE ByHash(it[s \ {Max(s)}], Order(t)[Max(s)])]
<1>1. F \in [Claims(n) \X (1 .. n) -> Claims(n)]
  <2> SUFFICES ASSUME NEW m \in Claims(n), NEW k \in 1 .. n
               PROVE  Claim(m, k, SameBody(t, prev, k)) \in Claims(n)
    OBVIOUS
  <2>1. SameBody(t, prev, k) \subseteq Nat
    BY DEF SameBody
  <2> QED BY <2>1, ClaimTakes
<1>2. PICK it \in [SUBSET (1 .. n) -> Claims(n)] : Folds(it, base, F, n)
  BY <1>1, FoldExists
<1>3. Solves(it)
  <2> SUFFICES ASSUME NEW s \in SUBSET (1 .. n)
               PROVE  it[s] = IF s = {} THEN base ELSE ByHash(it[s \ {Max(s)}], Order(t)[Max(s)])
    OBVIOUS
  <2>1. CASE s = {}
    BY <1>2, <2>1 DEF Folds
  <2>2. CASE s # {}
    <3> DEFINE k == Max(s)
    <3>1. k \in 1 .. n
      BY <2>2, MaxIsIn
    <3>2. it[s \ {k}] \in Claims(n) /\ Order(t)[k] = k
      BY <3>1 DEF Order
    <3>3. it[s] = F[<<it[s \ {k}], k>>]
      BY <1>2, <2>2 DEF Folds
    <3> HIDE DEF k
    <3>4. it[s] = Claim(it[s \ {k}], k, SameBody(t, prev, k))
      BY <3>1, <3>2, <3>3
    <3> QED BY <2>2, <3>2, <3>4 DEF SameBody, k
  <2> QED BY <2>1, <2>2
<1> DEFINE iter == CHOOSE x : Solves(x)
<1>4. Solves(iter)
  BY <1>3
<1>5. ClaimsByHash(t, prev, base) = iter[1 .. n]
  BY DEF ClaimsByHash, FoldLeft, MapThenFoldSet, Order
<1> DEFINE g == [k \in 0 .. n |-> iter[1 .. k]]
<1> HIDE DEF iter
<1>6. iter[1 .. 0] = base
  BY <1>4
<1>7. ASSUME NEW k \in 1 .. n PROVE iter[1 .. k] = Claim(iter[1 .. (k - 1)], k, SameBody(t, prev, k))
  <2>1. iter[1 .. k] = ByHash(iter[1 .. (k - 1)], k)
    <3>1. /\ 1 .. k \in SUBSET (1 .. n) /\ 1 .. k # {}
          /\ (1 .. k) \ {k} = 1 .. (k - 1) /\ Max(1 .. k) = k
      BY FirstNumbers
    <3>2. Order(t)[k] = k
      BY DEF Order
    <3>3. iter[1 .. k] = ByHash(iter[(1 .. k) \ {Max(1 .. k)}], Order(t)[Max(1 .. k)])
      BY <1>4, <3>1
    <3> QED BY <3>1, <3>2, <3>3
  <2> QED BY <2>1 DEF SameBody
<1>8. Passes(g, n, base, Bodies(n, t, prev))
  BY <1>6, <1>7 DEF Passes, Bodies
<1>9. g[n] = iter[1 .. n]
  OBVIOUS
<1> HIDE DEF g
<1>10. ClaimsByHash(t, prev, base) = g[n]
  BY <1>5, <1>9
<1> QED BY <1>8, <1>10

\* The pass by name.
ClaimsByName(t, prev, base) == FoldLeft(LAMBDA m, k : Claim(m, k, {s \in DOMAIN prev : prev[s].fn = t[k].fn}), base, Order(t))

LEMMA PassByName ==
  ASSUME NEW n \in Nat, NEW t, DOMAIN t = 1 .. n, NEW prev, DOMAIN prev \subseteq Nat,
         NEW base \in Claims(n)
  PROVE  \E g : /\ Passes(g, n, base, Names(n, t, prev))
                /\ ClaimsByName(t, prev, base) = g[n]
<1> DEFINE F == [q \in Claims(n) \X (1 .. n) |-> Claim(q[1], q[2], SameName(t, prev, q[2]))]
           ByName(m, k) == Claim(m, k, {s \in DOMAIN prev : prev[s].fn = t[k].fn})
           Solves(it) == it = [s \in SUBSET (1 .. n) |->
                                 IF s = {} THEN base ELSE ByName(it[s \ {Max(s)}], Order(t)[Max(s)])]
<1>1. F \in [Claims(n) \X (1 .. n) -> Claims(n)]
  <2> SUFFICES ASSUME NEW m \in Claims(n), NEW k \in 1 .. n
               PROVE  Claim(m, k, SameName(t, prev, k)) \in Claims(n)
    OBVIOUS
  <2>1. SameName(t, prev, k) \subseteq Nat
    BY DEF SameName
  <2> QED BY <2>1, ClaimTakes
<1>2. PICK it \in [SUBSET (1 .. n) -> Claims(n)] : Folds(it, base, F, n)
  BY <1>1, FoldExists
<1>3. Solves(it)
  <2> SUFFICES ASSUME NEW s \in SUBSET (1 .. n)
               PROVE  it[s] = IF s = {} THEN base ELSE ByName(it[s \ {Max(s)}], Order(t)[Max(s)])
    OBVIOUS
  <2>1. CASE s = {}
    BY <1>2, <2>1 DEF Folds
  <2>2. CASE s # {}
    <3> DEFINE k == Max(s)
    <3>1. k \in 1 .. n
      BY <2>2, MaxIsIn
    <3>2. it[s \ {k}] \in Claims(n) /\ Order(t)[k] = k
      BY <3>1 DEF Order
    <3>3. it[s] = F[<<it[s \ {k}], k>>]
      BY <1>2, <2>2 DEF Folds
    <3> HIDE DEF k
    <3>4. it[s] = Claim(it[s \ {k}], k, SameName(t, prev, k))
      BY <3>1, <3>2, <3>3
    <3> QED BY <2>2, <3>2, <3>4 DEF SameName, k
  <2> QED BY <2>1, <2>2
<1> DEFINE iter == CHOOSE x : Solves(x)
<1>4. Solves(iter)
  BY <1>3
<1>5. ClaimsByName(t, prev, base) = iter[1 .. n]
  BY DEF ClaimsByName, FoldLeft, MapThenFoldSet, Order
<1> DEFINE g == [k \in 0 .. n |-> iter[1 .. k]]
<1> HIDE DEF iter
<1>6. iter[1 .. 0] = base
  BY <1>4
<1>7. ASSUME NEW k \in 1 .. n PROVE iter[1 .. k] = Claim(iter[1 .. (k - 1)], k, SameName(t, prev, k))
  <2>1. iter[1 .. k] = ByName(iter[1 .. (k - 1)], k)
    <3>1. /\ 1 .. k \in SUBSET (1 .. n) /\ 1 .. k # {}
          /\ (1 .. k) \ {k} = 1 .. (k - 1) /\ Max(1 .. k) = k
      BY FirstNumbers
    <3>2. Order(t)[k] = k
      BY DEF Order
    <3>3. iter[1 .. k] = ByName(iter[(1 .. k) \ {Max(1 .. k)}], Order(t)[Max(1 .. k)])
      BY <1>4, <3>1
    <3> QED BY <3>1, <3>2, <3>3
  <2> QED BY <2>1 DEF SameName
<1>8. Passes(g, n, base, Names(n, t, prev))
  BY <1>6, <1>7 DEF Passes, Names
<1>9. g[n] = iter[1 .. n]
  OBVIOUS
<1> HIDE DEF g
<1>10. ClaimsByName(t, prev, base) = g[n]
  BY <1>5, <1>9
<1> QED BY <1>8, <1>10

LEMMA PassTyped ==
  ASSUME NEW n \in Nat, NEW g, NEW base \in Claims(n), NEW W, Passes(g, n, base, W),
         \A k \in 1 .. n : W[k] \subseteq Nat
  PROVE  g[n] \in Claims(n)
<1> DEFINE I == {k \in 0 .. n : g[k] \in Claims(n)}
<1>1. 0 \in I
  BY DEF Passes
<1>2. ASSUME NEW k \in 1 .. n, k - 1 \in I PROVE k \in I
  <2>1. g[k - 1] \in Claims(n) /\ g[k] = Claim(g[k - 1], k, W[k])
    BY <1>2 DEF Passes
  <2>2. g[k] \in Claims(n)
    BY <2>1, ClaimTakes
  <2> QED BY <2>2
<1> HIDE DEF I
<1>3. n \in I
  BY <1>1, <1>2, Climb
<1> QED BY <1>3 DEF I

LEMMA MatchPasses ==
  ASSUME NEW n \in Nat, NEW t, DOMAIN t = 1 .. n, NEW prev, DOMAIN prev \subseteq Nat
  PROVE  \E g, h :
           /\ Passes(g, n, Nobody(n), Bodies(n, t, prev))
           /\ g[n] \in Claims(n)
           /\ Passes(h, n, g[n], Names(n, t, prev))
           /\ MatchPrevious(t, prev) = h[n]
<1> DEFINE zero == Nobody(n)
<1>1. zero \in Claims(n)
  BY DEF Claims, Nobody
<1>2. PICK g : /\ Passes(g, n, zero, Bodies(n, t, prev))
               /\ ClaimsByHash(t, prev, zero) = g[n]
  <2> HIDE DEF zero
  <2> QED BY <1>1, PassByHash
<1>3. g[n] \in Claims(n)
  <2>1. \A k \in 1 .. n : Bodies(n, t, prev)[k] \subseteq Nat
    BY DEF Bodies, SameBody
  <2> HIDE DEF zero
  <2> QED BY <1>1, <1>2, <2>1, PassTyped
<1>4. PICK h : /\ Passes(h, n, g[n], Names(n, t, prev))
               /\ ClaimsByName(t, prev, g[n]) = h[n]
  BY <1>3, PassByName
<1>5. MatchPrevious(t, prev) = ClaimsByName(t, prev, ClaimsByHash(t, prev, zero))
  BY DEF Nobody, MatchPrevious, Order, ClaimsByName, ClaimsByHash
<1> HIDE DEF zero
<1>6. MatchPrevious(t, prev) = h[n]
  BY <1>2, <1>4, <1>5
<1> QED BY <1>2, <1>3, <1>4, <1>6 DEF zero

\* The function f and the sections of that name have each other, or nothing.
OwnName(m, n, t, prev, f) ==
  /\ m \in Claims(n)
  /\ \A j \in 1 .. n : m[j] # 0 =>
       m[j] \in DOMAIN prev /\ (t[j].fn = f <=> prev[m[j]].fn = f)

LEMMA ClaimsKeepToTheName ==
  ASSUME NEW n \in Nat, NEW t, NEW prev, NEW f, NEW m, OwnName(m, n, t, prev, f),
         NEW k \in 1 .. n, NEW wanted, wanted \subseteq Nat, wanted \subseteq DOMAIN prev,
         \A s \in wanted : t[k].fn = f <=> prev[s].fn = f
  PROVE  OwnName(Claim(m, k, wanted), n, t, prev, f)
<1> DEFINE q == Claim(m, k, wanted)
<1>1. /\ q \in Claims(n)
      /\ \A j \in 1 .. n : j # k => q[j] = m[j]
      /\ q[k] = m[k] \/ q[k] \in wanted
  <2>1. m \in Claims(n)
    BY DEF OwnName
  <2>2. /\ q \in Claims(n)
        /\ \A j \in 1 .. n : j # k => q[j] = m[j]
        /\ m[k] # 0 \/ wanted \ Taken(m) = {} => q = m
        /\ m[k] = 0 /\ wanted \ Taken(m) # {} => q[k] \in wanted \ Taken(m)
    BY <2>1, ClaimTakes
  <2> HIDE DEF q
  <2> QED BY <2>2
<1> HIDE DEF q
<1>2. OwnName(q, n, t, prev, f)
  BY <1>1 DEF OwnName
<1> QED BY <1>2 DEF q

\* A step of the pass by name, for the k-th function, f, which has the
\* section s0: before its turn nothing is asked of it, on its turn it wants s0,
\* after it the claim is there.
OwnTurn(n, t, prev, f, k, s0, m, i, wanted) ==
  /\ n \in Nat /\ DOMAIN prev \subseteq Nat \ {0}
  /\ OwnName(m, n, t, prev, f)
  /\ k \in 1 .. n /\ \A j \in 1 .. n : t[j].fn = f => j = k
  /\ s0 \in DOMAIN prev /\ prev[s0].fn = f
  /\ i \in 1 .. n /\ wanted \subseteq DOMAIN prev
  /\ i = k => s0 \in wanted
  /\ k # i => m[k] # 0

\* Only the function f can have its section, so on its turn it is free.
LEMMA OwnSectionStep ==
  ASSUME NEW n, NEW t, NEW prev, NEW f, NEW k, NEW s0, NEW m, NEW i, NEW wanted,
         OwnTurn(n, t, prev, f, k, s0, m, i, wanted)
  PROVE  Claim(m, i, wanted)[k] # 0
<1> USE DEF OwnTurn
<1> DEFINE q == Claim(m, i, wanted)
<1> SUFFICES q[k] # 0
  OBVIOUS
<1>1. m \in Claims(n) /\ wanted \subseteq Nat /\ 0 \notin wanted
  BY DEF OwnName
<1>2. /\ q \in Claims(n)
      /\ \A j \in 1 .. n : j # i => q[j] = m[j]
      /\ m[i] # 0 \/ wanted \ Taken(m) = {} => q = m
      /\ m[i] = 0 /\ wanted \ Taken(m) # {} => q[i] \in wanted \ Taken(m)
  BY <1>1, ClaimTakes
<1> HIDE DEF q
<1>3. CASE k # i
  BY <1>2, <1>3
<1>4. CASE k = i /\ m[i] # 0
  BY <1>2, <1>4
<1>5. CASE k = i /\ m[i] = 0
  <2>1. ASSUME NEW j \in 1 .. n PROVE m[j] # s0
    <3>1. s0 # 0 /\ (j # k => t[j].fn # f)
      OBVIOUS
    <3> QED BY <1>5, <3>1 DEF OwnName
  <2>2. DOMAIN m = 1 .. n
    BY <1>1 DEF Claims
  <2>3. s0 \in wanted \ Taken(m)
    BY <1>5, <2>1, <2>2 DEF Taken
  <2>4. q[i] \in wanted
    BY <1>2, <1>5, <2>3
  <2> QED BY <1>1, <1>5, <2>4
<1> QED BY <1>3, <1>4, <1>5

\* A function whose name a section has, and whose body no other name has a
\* claim by, gets a section of its name.
LEMMA OwnSectionIsClaimed ==
  ASSUME NEW n \in Nat, NEW t, DOMAIN t = 1 .. n,
         \A i, j \in 1 .. n : t[i].fn = t[j].fn => i = j,
         NEW prev, DOMAIN prev \subseteq Nat \ {0},
         NEW k \in 1 .. n, NEW s0 \in DOMAIN prev, prev[s0].fn = t[k].fn,
         \A j \in 1 .. n : \A s \in DOMAIN prev :
           t[j].body = prev[s].hash /\ (t[j].fn = t[k].fn \/ prev[s].fn = t[k].fn)
             => t[j].fn = prev[s].fn
  PROVE  LET m == MatchPrevious(t, prev)
         IN  m[k] \in DOMAIN prev /\ prev[m[k]].fn = t[k].fn
<1> DEFINE f == t[k].fn
<1>1. PICK g, h :
        /\ Passes(g, n, Nobody(n), Bodies(n, t, prev)) /\ g[n] \in Claims(n)
        /\ Passes(h, n, g[n], Names(n, t, prev)) /\ MatchPrevious(t, prev) = h[n]
  <2>1. DOMAIN prev \subseteq Nat
    OBVIOUS
  <2> QED BY <2>1, MatchPasses
<1>2. OwnName(g[n], n, t, prev, f)
  <2> DEFINE I == {i \in 0 .. n : OwnName(g[i], n, t, prev, f)}
  <2>1. 0 \in I
    <3>1. g[0] = Nobody(n) /\ Nobody(n) \in Claims(n)
      BY <1>1 DEF Passes, Claims, Nobody
    <3> QED BY <3>1 DEF OwnName, Nobody
  <2>2. ASSUME NEW i \in 1 .. n, i - 1 \in I PROVE i \in I
    <3>1. g[i] = Claim(g[i - 1], i, SameBody(t, prev, i)) /\ OwnName(g[i - 1], n, t, prev, f)
      BY <1>1, <2>2 DEF Passes, Bodies
    <3>2. /\ SameBody(t, prev, i) \subseteq Nat /\ SameBody(t, prev, i) \subseteq DOMAIN prev
          /\ \A s \in SameBody(t, prev, i) : t[i].fn = f <=> prev[s].fn = f
      BY DEF SameBody
    <3> HIDE DEF f
    <3>3. OwnName(g[i], n, t, prev, f)
      BY <3>1, <3>2, ClaimsKeepToTheName
    <3> QED BY <3>3
  <2> HIDE DEF I
  <2>3. n \in I
    BY <2>1, <2>2, Climb
  <2> QED BY <2>3 DEF I
<1>3. OwnName(h[n], n, t, prev, f) /\ h[n][k] # 0
  <2> DEFINE I == {i \in 0 .. n : OwnName(h[i], n, t, prev, f) /\ (k <= i => h[i][k] # 0)}
  <2>1. 0 \in I
    <3>1. h[0] = g[n] /\ ~(k <= 0)
      BY <1>1 DEF Passes
    <3> QED BY <1>2, <3>1
  <2>2. ASSUME NEW i \in 1 .. n, i - 1 \in I PROVE i \in I
    <3> DEFINE m == h[i - 1]
               wanted == SameName(t, prev, i)
    <3>1. /\ h[i] = Claim(m, i, wanted) /\ OwnName(m, n, t, prev, f)
          /\ k <= i - 1 => m[k] # 0
      BY <1>1, <2>2 DEF Passes, Names
    <3>2. /\ wanted \subseteq Nat /\ wanted \subseteq DOMAIN prev
          /\ \A s \in wanted : t[i].fn = f <=> prev[s].fn = f
      BY DEF SameName
    <3>3. i = k => s0 \in wanted
      BY DEF SameName
    <3> HIDE DEF m, wanted
    <3>4. OwnName(h[i], n, t, prev, f)
      <4> HIDE DEF f
      <4>1. OwnName(Claim(m, i, wanted), n, t, prev, f)
        BY <3>1, <3>2, ClaimsKeepToTheName
      <4> QED BY <3>1, <4>1
    <3>5. ASSUME k <= i PROVE h[i][k] # 0
      <4>1. k # i => m[k] # 0
        BY <3>1, <3>5
      <4>2. \A j \in 1 .. n : t[j].fn = f => j = k
        OBVIOUS
      <4>3. prev[s0].fn = f
        OBVIOUS
      <4> HIDE DEF f, I
      <4>4. OwnTurn(n, t, prev, f, k, s0, m, i, wanted)
        BY <3>1, <3>2, <3>3, <4>1, <4>2, <4>3 DEF OwnTurn
      <4>5. Claim(m, i, wanted)[k] # 0
        BY <4>4, OwnSectionStep
      <4> QED BY <3>1, <4>5
    <3> QED BY <3>4, <3>5
  <2> HIDE DEF I
  <2>3. n \in I
    BY <2>1, <2>2, Climb
  <2> QED BY <2>3 DEF I
<1>4. h[n][k] \in DOMAIN prev /\ prev[h[n][k]].fn = f
  BY <1>3 DEF OwnName
<1> QED BY <1>1, <1>4

-----------------------------------------------------------------------------
(* The sections recovered from a page.                                     *)

Keep(pg, kept, k) == IF pg[k].of # 0 THEN Append(kept, k) ELSE kept

LEMMA ExplainedSteps ==
  ASSUME NEW n \in Nat, NEW pg, DOMAIN pg = 1 .. n
  PROVE  \E g : /\ g[0] = <<>>
                /\ \A k \in 1 .. n : g[k] = Keep(pg, g[k - 1], k)
                /\ Explained(pg) = g[n]
<1> DEFINE X == Seq(1 .. n)
           F == [q \in X \X (1 .. n) |-> Keep(pg, q[1], q[2])]
           Solves(it) == it = [s \in SUBSET (1 .. n) |->
                                 IF s = {} THEN <<>>
                                 ELSE LET i == Order(pg)[Max(s)] IN
                                      IF pg[i].of # 0 THEN Append(it[s \ {Max(s)}], i) ELSE it[s \ {Max(s)}]]
<1>1. F \in [X \X (1 .. n) -> X] /\ <<>> \in X
  <2>1. ASSUME NEW q \in X, NEW k \in 1 .. n PROVE Keep(pg, q, k) \in X
    BY AppendProperties DEF Keep
  <2>2. <<>> \in X
    OBVIOUS
  <2> HIDE DEF X
  <2> QED BY <2>1, <2>2
<1>2. PICK it \in [SUBSET (1 .. n) -> X] : Folds(it, <<>>, F, n)
  <2> HIDE DEF X, F
  <2> QED BY <1>1, FoldExists
<1>3. Solves(it)
  <2> SUFFICES ASSUME NEW s \in SUBSET (1 .. n)
               PROVE  it[s] = IF s = {} THEN <<>>
                              ELSE LET i == Order(pg)[Max(s)] IN
                                   IF pg[i].of # 0 THEN Append(it[s \ {Max(s)}], i) ELSE it[s \ {Max(s)}]
    OBVIOUS
  <2>1. CASE s = {}
    BY <1>2, <2>1 DEF Folds
  <2>2. CASE s # {}
    <3> DEFINE k == Max(s)
    <3>1. k \in 1 .. n
      BY <2>2, MaxIsIn
    <3>2. it[s \ {k}] \in X /\ Order(pg)[k] = k
      BY <3>1 DEF Order
    <3>3. it[s] = F[<<it[s \ {k}], k>>]
      BY <1>2, <2>2 DEF Folds
    <3> HIDE DEF k, X
    <3>4. it[s] = Keep(pg, it[s \ {k}], k)
      BY <3>1, <3>2, <3>3
    <3> QED BY <2>2, <3>2, <3>4 DEF Keep, k
  <2> QED BY <2>1, <2>2
<1> DEFINE iter == CHOOSE x : Solves(x)
<1>4. Solves(iter)
  BY <1>3
<1>5. Explained(pg) = iter[1 .. n]
  BY DEF Explained, FoldLeft, MapThenFoldSet, Order
<1> DEFINE g == [k \in 0 .. n |-> iter[1 .. k]]
<1> HIDE DEF iter
<1>6. iter[1 .. 0] = <<>>
  BY <1>4
<1>7. ASSUME NEW k \in 1 .. n PROVE iter[1 .. k] = Keep(pg, iter[1 .. (k - 1)], k)
  <2>1. /\ 1 .. k \in SUBSET (1 .. n) /\ 1 .. k # {}
        /\ (1 .. k) \ {k} = 1 .. (k - 1) /\ Max(1 .. k) = k
    BY FirstNumbers
  <2>2. Order(pg)[k] = k
    BY DEF Order
  <2>3. iter[1 .. k] = LET i == Order(pg)[Max(1 .. k)] IN
                       IF pg[i].of # 0 THEN Append(iter[(1 .. k) \ {Max(1 .. k)}], i)
                       ELSE iter[(1 .. k) \ {Max(1 .. k)}]
    BY <1>4, <2>1
  <2> QED BY <2>1, <2>2, <2>3 DEF Keep
<1>8. /\ g[0] = <<>> /\ g[n] = iter[1 .. n]
      /\ \A k \in 1 .. n : g[k] = Keep(pg, g[k - 1], k)
  BY <1>6, <1>7
<1> HIDE DEF g
<1> QED BY <1>5, <1>8

\* The sections of a page that have words, each once.
Explains(q, k, pg) ==
  /\ q \in Seq(1 .. k)
  /\ \A i \in DOMAIN q : pg[q[i]].of # 0
  /\ \A i, j \in DOMAIN q : q[i] = q[j] => i = j

LEMMA ExplainedAre ==
  ASSUME NEW n \in Nat, NEW pg, DOMAIN pg = 1 .. n
  PROVE  Explains(Explained(pg), n, pg)
<1>1. PICK g : /\ g[0] = <<>>
               /\ \A k \in 1 .. n : g[k] = Keep(pg, g[k - 1], k)
               /\ Explained(pg) = g[n]
  BY ExplainedSteps
<1> DEFINE I == {k \in 0 .. n : Explains(g[k], k, pg)}
<1>2. 0 \in I
  <2>1. <<>> \in Seq(1 .. 0) /\ DOMAIN <<>> = {}
    OBVIOUS
  <2>2. Explains(<<>>, 0, pg)
    BY <2>1, Zenon DEF Explains
  <2> QED BY <1>1, <2>2
<1>3. ASSUME NEW k \in 1 .. n, k - 1 \in I PROVE k \in I
  <2> DEFINE q == g[k - 1]
  <2>1. Explains(q, k - 1, pg) /\ g[k] = Keep(pg, q, k)
    BY <1>1, <1>3
  <2> HIDE DEF q
  <2>2. q \in Seq(1 .. k) /\ \A i \in DOMAIN q : q[i] \in 1 .. k - 1
    <3>1. q \in Seq(1 .. k - 1) /\ 1 .. k - 1 \subseteq 1 .. k
      BY <2>1 DEF Explains
    <3> QED BY <3>1, SeqMonotonic, ElementOfSeq
  <2>3. CASE pg[k].of = 0
    <3>1. g[k] = q
      BY <2>1, <2>3 DEF Keep
    <3>2. Explains(g[k], k, pg)
      BY <2>1, <2>2, <3>1 DEF Explains
    <3> QED BY <3>2
  <2>4. CASE pg[k].of # 0
    <3>1. g[k] = Append(q, k)
      BY <2>1, <2>4 DEF Keep
    <3>2. /\ g[k] \in Seq(1 .. k)
          /\ \A i \in DOMAIN g[k] : IF i \in DOMAIN q THEN g[k][i] = q[i] ELSE i = Len(q) + 1 /\ g[k][i] = k
      BY <2>2, <3>1
    <3>3. ASSUME NEW i \in DOMAIN g[k] PROVE pg[g[k][i]].of # 0
      BY <2>1, <2>4, <3>2 DEF Explains
    <3>4. ASSUME NEW i \in DOMAIN g[k], NEW j \in DOMAIN g[k], g[k][i] = g[k][j] PROVE i = j
      <4>1. \A x \in DOMAIN q : q[x] # k
        BY <2>2
      <4> QED BY <2>1, <3>2, <3>4, <4>1 DEF Explains
    <3>5. Explains(g[k], k, pg)
      BY <3>2, <3>3, <3>4 DEF Explains
    <3> QED BY <3>5
  <2> QED BY <2>3, <2>4
<1> HIDE DEF I
<1>4. n \in I
  BY <1>2, <1>3, Climb
<1> QED BY <1>1, <1>4 DEF I

-----------------------------------------------------------------------------
(* Plans that keep the words.                                              *)

Numbered(q) == \E n \in Nat : DOMAIN q = 1 .. n
NamedOnce(q) == Numbered(q) /\ \A i, j \in DOMAIN q : q[i].fn = q[j].fn => i = j

LEMMA RecoveredOnce ==
  ASSUME NEW pg, pg # None => NamedOnce(pg)
  PROVE  NamedOnce(SectionsFromParsed(pg))
<1>1. CASE pg = None
  <2>1. SectionsFromParsed(pg) = <<>>
    BY <1>1 DEF SectionsFromParsed
  <2>2. DOMAIN <<>> = 1 .. 0 /\ DOMAIN <<>> = {}
    OBVIOUS
  <2> QED BY <2>1, <2>2 DEF NamedOnce, Numbered
<1>2. CASE pg # None
  <2> DEFINE q == Explained(pg)
             prev == [k \in DOMAIN q |-> [at |-> q[k], fn |-> pg[q[k]].fn, hash |-> Unknown, stale |-> TRUE]]
  <2>1. PICK n \in Nat : DOMAIN pg = 1 .. n
    BY <1>2 DEF NamedOnce, Numbered
  <2>2. Explains(q, n, pg)
    BY <2>1, ExplainedAre
  <2>3. SectionsFromParsed(pg) = prev
    BY <1>2 DEF SectionsFromParsed
  <2> HIDE DEF q
  <2>4. q \in Seq(1 .. n) /\ DOMAIN q = 1 .. Len(q) /\ Len(q) \in Nat
    BY <2>2 DEF Explains
  <2>5. \A k \in DOMAIN q : q[k] \in DOMAIN pg
    BY <2>1, <2>4, ElementOfSeq
  <2>6. NamedOnce(prev)
    BY <1>2, <2>2, <2>4, <2>5 DEF NamedOnce, Numbered, Explains
  <2> QED BY <2>3, <2>6
<1> QED BY <1>1, <1>2

LEMMA PreviousOnce ==
  ASSUME NEW side, NEW pg, side # None => NamedOnce(side.sections), pg # None => NamedOnce(pg)
  PROVE  NamedOnce(Previous(side, pg))
BY RecoveredOnce DEF Previous

\* A plan that has the words of every function in hand, and something to show
\* for every function whose words are asked for.
Provides(plan, had, asked) ==
  /\ NamedOnce(plan)
  /\ \A f \in had : \E k \in DOMAIN plan : plan[k].fn = f /\ plan[k].words # 0
  /\ \A k \in DOMAIN plan : plan[k].fn \in asked => plan[k].body # 0

LEMMA TextsAreNumbered ==
  ASSUME TwinsAssumption, NEW t \in Texts
  PROVE  NamedOnce(t) /\ \A k \in DOMAIN t : t[k].body # 0
<1>1. t \in Seq({t[k] : k \in DOMAIN t})
  BY DEF TwinsAssumption
<1>2. DOMAIN t = 1 .. Len(t) /\ Len(t) \in Nat
  BY <1>1
<1> QED BY <1>2 DEF TwinsAssumption, NamedOnce, Numbered

LEMMA OutlinedPlanProvides ==
  ASSUME TwinsAssumption, NEW r, NEW t \in Texts, NEW side, NEW pg,
         NamedOnce(Previous(side, pg)), NEW asked
  PROVE  Provides(PlanSections(r, t, Previous(side, pg), pg), InHand(t, side, pg), asked)
<1> DEFINE prev == Previous(side, pg)
           m == MatchPrevious(t, prev)
           plan == PlanSections(r, t, prev, pg)
<1>1. NamedOnce(t) /\ \A k \in DOMAIN t : t[k].body # 0
  BY TextsAreNumbered
<1>2. /\ DOMAIN plan = DOMAIN t
      /\ \A k \in DOMAIN t :
           /\ plan[k].fn = t[k].fn /\ plan[k].body = t[k].body
           /\ plan[k].words = IF m[k] \in DOMAIN prev THEN ContentFor(pg, prev[m[k]]) ELSE 0
  BY DEF PlanSections, Entry
<1>3. ASSUME NEW f \in InHand(t, side, pg)
      PROVE  \E k \in DOMAIN plan : plan[k].fn = f /\ plan[k].words # 0
  <2>1. PICK k \in DOMAIN t : t[k].fn = f
    BY <1>3 DEF InHand, Named
  <2>2. PICK s \in DOMAIN prev : prev[s].fn = f /\ ContentFor(pg, prev[s]) # 0
    BY <1>3 DEF InHand
  <2>3. \A j \in DOMAIN t : \A x \in DOMAIN prev :
          t[j].body = prev[x].hash /\ (t[j].fn = t[k].fn \/ prev[x].fn = t[k].fn) => t[j].fn = prev[x].fn
    BY <1>3, <2>1 DEF InHand
  <2> HIDE DEF prev, plan
  <2>4. PICK n \in Nat : DOMAIN t = 1 .. n
    BY <1>1 DEF NamedOnce, Numbered
  <2>5. DOMAIN prev \subseteq Nat \ {0} /\ NamedOnce(prev)
    BY DEF NamedOnce, Numbered, prev
  <2>6. \A i, j \in 1 .. n : t[i].fn = t[j].fn => i = j
    BY <1>1, <2>4 DEF NamedOnce
  <2> HIDE DEF m
  <2>7. m[k] \in DOMAIN prev /\ prev[m[k]].fn = f
    <3>1. k \in 1 .. n /\ prev[s].fn = t[k].fn
      BY <2>1, <2>2, <2>4
    <3>2. \A j \in 1 .. n : \A x \in DOMAIN prev :
            t[j].body = prev[x].hash /\ (t[j].fn = t[k].fn \/ prev[x].fn = t[k].fn) => t[j].fn = prev[x].fn
      BY <2>3, <2>4
    <3>3. m[k] \in DOMAIN prev /\ prev[m[k]].fn = t[k].fn
      BY <2>4, <2>5, <2>6, <3>1, <3>2, OwnSectionIsClaimed DEF m
    <3> QED BY <2>1, <3>3
  <2>8. ContentFor(pg, prev[m[k]]) # 0
    BY <2>2, <2>5, <2>7 DEF NamedOnce
  <2> QED BY <1>2, <2>1, <2>7, <2>8
<1> HIDE DEF plan, m
<1>4. NamedOnce(plan)
  BY <1>1, <1>2 DEF NamedOnce, Numbered
<1> QED BY <1>1, <1>2, <1>3, <1>4 DEF Provides, plan

LEMMA PlanProvides ==
  ASSUME TwinsAssumption, NEW r, NEW t \in Texts, NEW side, NEW pg, NEW outlined \in BOOLEAN,
         NamedOnce(Previous(side, pg))
  PROVE  LET plan == PlanFor(r, t, side, pg, outlined)
         IN  Provides(plan, InHand(t, side, pg), ToGenerate(plan))
<1> DEFINE prev == Previous(side, pg)
           changed == side = None \/ side.text # t
           bare == PlanWithoutOutline(prev, pg, changed)
<1>1. CASE outlined
  BY <1>1, OutlinedPlanProvides DEF PlanFor
<1>2. CASE ~outlined /\ prev = <<>>
  <2>1. PlanFor(r, t, side, pg, outlined) = <<>> /\ DOMAIN <<>> = {} /\ DOMAIN <<>> = 1 .. 0
    BY <1>2 DEF PlanFor
  <2>2. InHand(t, side, pg) = {}
    BY <1>2, <2>1 DEF InHand
  <2> QED BY <2>1, <2>2 DEF Provides, NamedOnce, Numbered
<1>3. CASE ~outlined /\ prev # <<>>
  <2>1. PlanFor(r, t, side, pg, outlined) = bare
    BY <1>3 DEF PlanFor
  <2>2. /\ DOMAIN bare = DOMAIN prev
        /\ \A k \in DOMAIN prev :
             bare[k].fn = prev[k].fn /\ bare[k].words = ContentFor(pg, prev[k]) /\ bare[k].gen = FALSE
    BY DEF PlanWithoutOutline, Entry
  <2>3. \A f \in InHand(t, side, pg) : \E s \in DOMAIN prev : prev[s].fn = f /\ ContentFor(pg, prev[s]) # 0
    BY DEF InHand
  <2> HIDE DEF bare, prev
  <2>4. ToGenerate(bare) = {}
    BY <2>2 DEF ToGenerate
  <2>5. NamedOnce(bare)
    BY <2>2 DEF NamedOnce, Numbered, prev
  <2> QED BY <2>1, <2>2, <2>3, <2>4, <2>5 DEF Provides
<1> QED BY <1>1, <1>2, <1>3

-----------------------------------------------------------------------------
(* The inductive invariant of the words.                                   *)

SoundSide(side) == side # None => side.form \in Forms /\ NamedOnce(side.sections)
KeepsWords(pg, had) == \A f \in had : \E i \in DOMAIN pg : pg[i].fn = f /\ pg[i].of # 0

CommitKeeps(c, had) ==
  /\ CommitFields \subseteq DOMAIN c /\ c = [x \in DOMAIN c |-> c[x]]
  /\ SoundSide(c.side) /\ NamedOnce(c.page)
  /\ c.final => KeepsWords(c.page, had)

RunKeeps(r) ==
  /\ RunFields \subseteq DOMAIN r /\ r = [x \in DOMAIN r |-> r[x]]
  /\ r.form \in Forms
  /\ Provides(r.plan, r.had, r.produced \cup r.pending)
  /\ SoundSide(r.committed)
  /\ r.commit # Idle => CommitKeeps(r.commit, r.had)

CallsOK(q) ==
  /\ q \in Seq({q[i] : i \in DOMAIN q})
  /\ \A i \in DOMAIN q : q[i].text \in Texts \cup {None}

PagesOK(pages) ==
  /\ pages = [f \in Forms |-> pages[f]]
  /\ \A f \in Forms : pages[f] # None => NamedOnce(pages[f])

RunsKeep(runs) ==
  /\ runs = [s \in Slots |-> runs[s]]
  /\ \A s \in Slots : runs[s] # Idle => RunKeeps(runs[s])

WordsIInv ==
  /\ text \in Texts /\ form \in Forms
  /\ CallsOK(queue) /\ SoundSide(sidecar) /\ PagesOK(page) /\ RunsKeep(run)

-----------------------------------------------------------------------------
(* What the steps of a run do to it.                                       *)

\* A page has the words the plan provides, and those that arrived; the last
\* one of a run leaves no placeholder.
LEMMA CommitProvides ==
  ASSUME NEW plan, NEW had, NEW produced, Provides(plan, had, produced), NEW f \in Forms,
         NEW t, NEW pending, NEW final
  PROVE  CommitKeeps(Commit(plan, t, f, produced, pending, final), had)
<1> DEFINE left == IF final THEN {} ELSE pending
           sections == ToSidecar(plan, produced)
           pg == ToRender(plan, produced, left)
           side == [form |-> f, text |-> t, sections |-> sections]
           c == Commit(plan, t, f, produced, pending, final)
<1>1. /\ DOMAIN sections = DOMAIN plan /\ DOMAIN pg = DOMAIN plan
      /\ \A k \in DOMAIN plan :
           /\ sections[k].fn = plan[k].fn /\ pg[k].fn = plan[k].fn
           /\ pg[k].of = IF plan[k].fn \in produced THEN plan[k].body
                         ELSE IF plan[k].fn \in left THEN 0 ELSE plan[k].words
  BY DEF ToSidecar, ToRender
<1>2. c = [final |-> final, step |-> "sidecar", over |-> None, side |-> side, page |-> pg]
  BY DEF Commit
<1> HIDE DEF sections, pg, c
<1>3. NamedOnce(sections) /\ NamedOnce(pg)
  BY <1>1 DEF Provides, NamedOnce, Numbered
<1>4. final => KeepsWords(pg, had)
  BY <1>1 DEF Provides, KeepsWords
<1>5. SoundSide(side)
  BY <1>3 DEF SoundSide
<1> HIDE DEF side, left
<1>6. c.final = final /\ c.side = side /\ c.page = pg
  BY <1>2
<1>7. CommitFields \subseteq DOMAIN c /\ c = [x \in DOMAIN c |-> c[x]]
  BY <1>2 DEF CommitFields
<1> QED BY <1>3, <1>4, <1>5, <1>6, <1>7 DEF CommitKeeps, c

LEMMA ProvidesFewer ==
  ASSUME NEW plan, NEW had, NEW asked, Provides(plan, had, asked), NEW fewer, fewer \subseteq asked
  PROVE  Provides(plan, had, fewer)
BY DEF Provides

LEMMA SidecarStepKeeps ==
  ASSUME NEW r, RunKeeps(r), r.commit # Idle, NEW over
  PROVE  RunKeeps([r EXCEPT !.commit.step = "page", !.commit.over = over])
<1> DEFINE c == [r.commit EXCEPT !.step = "page", !.over = over]
           q == [r EXCEPT !.commit = c]
<1>1. CommitKeeps(r.commit, r.had)
  BY DEF RunKeeps
<1>2. /\ CommitFields \subseteq DOMAIN c /\ c = [x \in DOMAIN c |-> c[x]]
      /\ c.side = r.commit.side /\ c.page = r.commit.page /\ c.final = r.commit.final
  BY <1>1 DEF CommitKeeps, CommitFields
<1>3. CommitKeeps(c, r.had)
  BY <1>1, <1>2 DEF CommitKeeps
<1>4. q = [r EXCEPT !.commit.step = "page", !.commit.over = over]
  BY DEF RunKeeps, RunFields
<1> HIDE DEF c
<1>5. RunKeeps(q)
  BY <1>3 DEF RunKeeps, RunFields
<1> QED BY <1>4, <1>5

LEMMA StepKeeps ==
  ASSUME NEW r, RunKeeps(r), r.commit # Idle, NEW step
  PROVE  RunKeeps([r EXCEPT !.commit.step = step])
<1> DEFINE c == [r.commit EXCEPT !.step = step]
           q == [r EXCEPT !.commit = c]
<1>1. CommitKeeps(r.commit, r.had)
  BY DEF RunKeeps
<1>2. /\ CommitFields \subseteq DOMAIN c /\ c = [x \in DOMAIN c |-> c[x]]
      /\ c.side = r.commit.side /\ c.page = r.commit.page /\ c.final = r.commit.final
  BY <1>1 DEF CommitKeeps, CommitFields
<1>3. CommitKeeps(c, r.had)
  BY <1>1, <1>2 DEF CommitKeeps
<1>4. q = [r EXCEPT !.commit.step = step]
  OBVIOUS
<1> HIDE DEF c
<1>5. RunKeeps(q)
  BY <1>3 DEF RunKeeps, RunFields
<1> QED BY <1>4, <1>5

\* The rest of a run, whatever its commit.
LEMMA OtherFieldsKeep ==
  ASSUME NEW r, RunKeeps(r), NEW x, NEW side, SoundSide(side)
  PROVE  /\ RunKeeps([r EXCEPT !.committed = side])
         /\ RunKeeps([r EXCEPT !.due = x]) /\ RunKeeps([r EXCEPT !.old = x])
         /\ RunKeeps([r EXCEPT !.commit = Idle])
         /\ RunKeeps([r EXCEPT !.commit = Idle, !.asked = x])
BY DEF RunKeeps, RunFields

LEMMA CommitOverKeeps ==
  ASSUME NEW r, RunKeeps(r), NEW q \in {After(r), AfterFailure(r)}, q # Idle
  PROVE  RunKeeps(q)
<1>1. SoundSide(None)
  BY DEF SoundSide
<1> QED BY <1>1, OtherFieldsKeep DEF After, AfterFailure

LEMMA NewCommitKeeps ==
  ASSUME NEW r, RunKeeps(r), NEW final
  PROVE  /\ RunKeeps([r EXCEPT !.commit = CommitOf(r, final)])
         /\ SoundSide(CommitOf(r, final).side)
<1> DEFINE c == CommitOf(r, final)
<1>1. Provides(r.plan, r.had, r.produced) /\ r.form \in Forms
  BY ProvidesFewer DEF RunKeeps
<1>2. CommitKeeps(c, r.had)
  BY <1>1, CommitProvides DEF CommitOf
<1> HIDE DEF c
<1>3. RunKeeps([r EXCEPT !.commit = c])
  BY <1>2 DEF RunKeeps, RunFields
<1> QED BY <1>2, <1>3 DEF CommitKeeps, c

LEMMA ArrivalKeeps ==
  ASSUME NEW r, RunKeeps(r), NEW f \in r.pending
  PROVE  RunKeeps([r EXCEPT !.produced = @ \cup {f}, !.pending = @ \ {f}, !.due = TRUE])
<1> DEFINE q == [r EXCEPT !.produced = @ \cup {f}, !.pending = @ \ {f}, !.due = TRUE]
<1>1. /\ RunFields \subseteq DOMAIN q /\ q = [x \in DOMAIN q |-> q[x]]
      /\ q.form = r.form /\ q.plan = r.plan /\ q.had = r.had
      /\ q.committed = r.committed /\ q.commit = r.commit
      /\ q.produced = r.produced \cup {f} /\ q.pending = r.pending \ {f}
  BY DEF RunKeeps, RunFields
<1>2. q.produced \cup q.pending \subseteq r.produced \cup r.pending
  BY <1>1
<1> HIDE DEF q
<1>3. Provides(q.plan, q.had, q.produced \cup q.pending)
  BY <1>1, <1>2, ProvidesFewer DEF RunKeeps
<1>4. RunKeeps(q)
  BY <1>1, <1>3 DEF RunKeeps
<1> QED BY <1>4 DEF q

-----------------------------------------------------------------------------
(* The queue, and the state of the runs.                                   *)

LEMMA CallJoins ==
  ASSUME NEW q, CallsOK(q), NEW c, c.text \in Texts \cup {None}
  PROVE  CallsOK(Append(q, c))
<1> DEFINE S == {q[i] : i \in DOMAIN q} \cup {c}
           p == Append(q, c)
<1>1. q \in Seq(S) /\ c \in S
  <2>1. q \in Seq({q[i] : i \in DOMAIN q}) /\ {q[i] : i \in DOMAIN q} \subseteq S
    BY DEF CallsOK
  <2> QED BY <2>1, SeqMonotonic
<1>2. p \in Seq(S) /\ \A i \in DOMAIN p : p[i] = IF i \in DOMAIN q THEN q[i] ELSE c
  <2> HIDE DEF S
  <2> QED BY <1>1
<1>3. \A i \in DOMAIN p : p[i].text \in Texts \cup {None}
  BY <1>2 DEF CallsOK
<1> HIDE DEF S, p
<1>4. p \in Seq({p[i] : i \in DOMAIN p})
  BY <1>2, SeqOfRange DEF Range
<1> QED BY <1>3, <1>4 DEF CallsOK, p

LEMMA CallLeaves ==
  ASSUME NEW q, CallsOK(q), q # <<>>
  PROVE  CallsOK(Tail(q)) /\ Head(q).text \in Texts \cup {None}
<1> DEFINE S == {q[i] : i \in DOMAIN q}
           p == Tail(q)
<1>1. q \in Seq(S) /\ 1 \in DOMAIN q /\ Head(q) = q[1]
  BY DEF CallsOK
<1>2. p \in Seq(S) /\ \A i \in DOMAIN p : i + 1 \in DOMAIN q /\ p[i] = q[i + 1]
  <2> HIDE DEF S
  <2> QED BY <1>1
<1>3. \A i \in DOMAIN p : p[i].text \in Texts \cup {None}
  BY <1>2 DEF CallsOK
<1> HIDE DEF S, p
<1>4. p \in Seq({p[i] : i \in DOMAIN p})
  BY <1>2, SeqOfRange DEF Range
<1> QED BY <1>1, <1>3, <1>4 DEF CallsOK, p

LEMMA RunBecomes ==
  ASSUME RunsKeep(run), NEW s \in Slots, NEW q, q # Idle => RunKeeps(q), Becomes(s, q)
  PROVE  RunsKeep(run')
<1>1. /\ run' = [x \in Slots |-> run'[x]]
      /\ run'[s] = q /\ \A x \in Slots \ {s} : run'[x] = run[x]
  BY DEF RunsKeep, Becomes, Slots
<1> QED BY <1>1 DEF RunsKeep

LEMMA PagesChange ==
  ASSUME NEW pages, PagesOK(pages), NEW f, NEW pg, pg # None => NamedOnce(pg)
  PROVE  PagesOK([pages EXCEPT ![f] = pg])
BY DEF PagesOK

\* What a run starts from.
LEMMA ParsedOnce ==
  ASSUME WordsIInv
  PROVE  (Parsed # None => NamedOnce(Parsed)) /\ NamedOnce(Previous(sidecar, Parsed))
<1>1. Parsed # None => NamedOnce(Parsed)
  BY DEF WordsIInv, PagesOK, SoundSide, Parsed, OldForm
<1> QED BY <1>1, PreviousOnce DEF WordsIInv, SoundSide

-----------------------------------------------------------------------------
(* Every step.                                                             *)

LEMMA CallsKeep ==
  ASSUME TwinsAssumption, WordsIInv,
         EnsureTwin \/ RegenerateSection \/ Edit \/ Land \/ LandingAges \/ WatchFires \/ BeginNothing \/ Sibling
  PROVE  WordsIInv'
<1>1. UNCHANGED <<sidecar, page, run>> /\ text' \in Texts /\ form' \in Forms
  BY DEF WordsIInv, EnsureTwin, RegenerateSection, Edit, Land, LandingAges, WatchFires, BeginNothing,
         Sibling, source, disk
<1>2. CallsOK(queue')
  <2>1. CASE EnsureTwin
    <3>1. PICK c : queue' = Append(queue, c) /\ c.text \in Texts \cup {None}
      BY <2>1 DEF EnsureTwin, Serialize, Call, WordsIInv
    <3> QED BY <3>1, CallJoins DEF WordsIInv
  <2>2. CASE RegenerateSection
    <3>1. PICK c : queue' = Append(queue, c) /\ c.text \in Texts \cup {None}
      BY <2>2 DEF RegenerateSection, Serialize, Call, WordsIInv
    <3> QED BY <3>1, CallJoins DEF WordsIInv
  <2>3. CASE Land
    <3>1. PICK c : queue' = Append(queue, c) /\ c.text \in Texts \cup {None}
      BY <2>3 DEF Land, Serialize, Call
    <3> QED BY <3>1, CallJoins DEF WordsIInv
  <2>4. CASE WatchFires
    <3>1. CASE UNCHANGED queue
      BY <3>1 DEF WordsIInv
    <3>2. CASE ~UNCHANGED queue
      <4>1. PICK c : queue' = Append(queue, c) /\ c.text \in Texts \cup {None}
        BY <2>4, <3>2 DEF WatchFires, Serialize, Call
      <4> QED BY <4>1, CallJoins DEF WordsIInv
    <3> QED BY <3>1, <3>2
  <2>5. CASE BeginNothing
    BY <2>5, CallLeaves DEF BeginNothing, WordsIInv
  <2>6. CASE Edit \/ LandingAges \/ Sibling
    BY <2>6 DEF Edit, LandingAges, Sibling, WordsIInv
  <2> QED BY <2>1, <2>2, <2>3, <2>4, <2>5, <2>6
<1> QED BY <1>1, <1>2 DEF WordsIInv

LEMMA BeginKeepsWords == ASSUME TwinsAssumption, WordsIInv, Begin PROVE WordsIInv'
<1> DEFINE r == Head(queue)
           t == TextOf(r)
<1>1. PICK outlined \in BOOLEAN, final \in BOOLEAN :
        LET plan == PlanFor(r, t, sidecar, Parsed, outlined)
            pending == ToGenerate(plan)
        IN  Becomes("now", [text |-> t, form |-> form, plan |-> plan, produced |-> {},
                    pending |-> pending, committed |-> sidecar, old |-> OldForm,
                    had |-> InHand(t, sidecar, Parsed), due |-> FALSE, asked |-> FALSE,
                    commit |-> Commit(plan, t, form, {}, pending, final)])
  BY DEF Begin
<1> DEFINE plan == PlanFor(r, t, sidecar, Parsed, outlined)
           pending == ToGenerate(plan)
           c == Commit(plan, t, form, {}, pending, final)
           had == InHand(t, sidecar, Parsed)
           q == [text |-> t, form |-> form, plan |-> plan, produced |-> {},
                 pending |-> pending, committed |-> sidecar, old |-> OldForm,
                 had |-> had, due |-> FALSE, asked |-> FALSE, commit |-> c]
<1>2. queue # <<>> /\ queue' = Tail(queue) /\ UNCHANGED <<sidecar, page, form, text>>
  BY DEF Begin, source, disk
<1>3. CallsOK(queue') /\ t \in Texts
  BY <1>2, CallLeaves DEF WordsIInv, TextOf
<1>4. Provides(plan, had, pending)
  BY <1>3, ParsedOnce, PlanProvides
<1>5. Becomes("now", q)
  BY <1>1
<1> HIDE DEF plan, pending, had
<1>6. CommitKeeps(c, had)
  <2>1. Provides(plan, had, {})
    BY <1>4, ProvidesFewer
  <2> QED BY <2>1, CommitProvides DEF WordsIInv
<1> HIDE DEF c, t
<1>7. /\ RunFields \subseteq DOMAIN q /\ q = [x \in DOMAIN q |-> q[x]]
      /\ q.form = form /\ q.plan = plan /\ q.had = had /\ q.produced = {} /\ q.pending = pending
      /\ q.committed = sidecar /\ q.commit = c
  BY DEF RunFields
<1> HIDE DEF q
<1>8. q.produced \cup q.pending = pending
  BY <1>7
<1>9. RunKeeps(q)
  BY <1>4, <1>6, <1>7, <1>8 DEF RunKeeps, WordsIInv
<1>10. RunsKeep(run')
  BY <1>5, <1>9, RunBecomes DEF WordsIInv, Slots
<1> QED BY <1>2, <1>3, <1>10 DEF WordsIInv

LEMMA WriteSidecarKeepsWords ==
  ASSUME WordsIInv, NEW s \in Slots, WriteSidecar(s) PROVE WordsIInv'
<1> DEFINE q == [run[s] EXCEPT !.commit.step = "page", !.commit.over = sidecar]
<1>1. /\ run[s] # Idle /\ run[s].commit # Idle /\ sidecar' = run[s].commit.side /\ Becomes(s, q)
      /\ UNCHANGED <<text, form, page, queue>>
  BY DEF WriteSidecar, At, Writing, source
<1>2. RunKeeps(run[s]) /\ SoundSide(sidecar')
  BY <1>1 DEF WordsIInv, RunsKeep, RunKeeps, CommitKeeps
<1>3. RunKeeps(q)
  BY <1>1, <1>2, SidecarStepKeeps
<1> HIDE DEF q
<1>4. RunsKeep(run')
  BY <1>1, <1>3, RunBecomes DEF WordsIInv
<1> QED BY <1>1, <1>2, <1>4 DEF WordsIInv

LEMMA WriteTwinKeepsWords ==
  ASSUME WordsIInv, NEW s \in Slots, WriteTwin(s) PROVE WordsIInv'
<1> DEFINE r == run[s]
           done == [r EXCEPT !.committed = r.commit.side]
           q == IF r.old # None THEN [done EXCEPT !.commit.step = "old"] ELSE After(done)
<1>1. /\ r # Idle /\ r.commit # Idle /\ page' = [page EXCEPT ![r.form] = r.commit.page]
      /\ Becomes(s, q) /\ UNCHANGED <<text, form, sidecar, queue>>
  BY DEF WriteTwin, At, Writing, source
<1>2. RunKeeps(r) /\ CommitKeeps(r.commit, r.had)
  BY <1>1 DEF WordsIInv, RunsKeep, RunKeeps
<1>3. PagesOK(page')
  BY <1>1, <1>2, PagesChange DEF WordsIInv, CommitKeeps
<1>4. RunKeeps(done) /\ done.commit = r.commit
  <2>1. RunKeeps(done)
    BY <1>2, OtherFieldsKeep DEF CommitKeeps
  <2>2. done.commit = r.commit
    BY <1>2 DEF RunKeeps, RunFields
  <2> QED BY <2>1, <2>2
<1> HIDE DEF done
<1>5. q # Idle => RunKeeps(q)
  BY <1>1, <1>4, StepKeeps, CommitOverKeeps
<1> HIDE DEF q
<1>6. RunsKeep(run')
  BY <1>1, <1>5, RunBecomes DEF WordsIInv
<1> QED BY <1>1, <1>3, <1>6 DEF WordsIInv

LEMMA RemoveOldKeepsWords == ASSUME WordsIInv, RemoveOld PROVE WordsIInv'
<1> DEFINE r == run["now"]
           kept == [r EXCEPT !.old = None]
           q == After(kept)
<1>1. /\ r # Idle /\ page' \in {page, [page EXCEPT ![r.old] = None]}
      /\ Becomes("now", q) /\ UNCHANGED <<text, form, sidecar, queue>>
  BY DEF RemoveOld, At, Writing, source
<1>2. RunKeeps(r) /\ SoundSide(None)
  BY <1>1 DEF WordsIInv, RunsKeep, Slots, SoundSide
<1>3. PagesOK(page')
  BY <1>1, PagesChange DEF WordsIInv
<1>4. RunKeeps(kept)
  BY <1>2, OtherFieldsKeep
<1> HIDE DEF kept
<1>5. q # Idle => RunKeeps(q)
  BY <1>4, CommitOverKeeps
<1> HIDE DEF q
<1>6. RunsKeep(run')
  BY <1>1, <1>5, RunBecomes DEF WordsIInv, Slots
<1> QED BY <1>1, <1>3, <1>6 DEF WordsIInv

LEMMA FailureKeepsWords ==
  ASSUME WordsIInv, NEW s \in Slots, WriteFails(s) \/ PutBack(s) PROVE WordsIInv'
<1> DEFINE r == run[s]
<1>1. /\ r # Idle /\ r.commit # Idle /\ sidecar' \in {sidecar, r.committed}
      /\ Becomes(s, [r EXCEPT !.commit.step = "back"]) \/ Becomes(s, AfterFailure(r))
      /\ UNCHANGED <<text, form, page, queue>>
  BY DEF WriteFails, PutBack, At, Writing, Step, source, disk
<1>2. RunKeeps(r) /\ SoundSide(sidecar')
  BY <1>1 DEF WordsIInv, RunsKeep, RunKeeps
<1>3. /\ RunKeeps([r EXCEPT !.commit.step = "back"])
      /\ AfterFailure(r) # Idle => RunKeeps(AfterFailure(r))
  BY <1>1, <1>2, StepKeeps, CommitOverKeeps
<1>4. RunsKeep(run')
  BY <1>1, <1>3, RunBecomes DEF WordsIInv
<1> QED BY <1>1, <1>2, <1>4 DEF WordsIInv

LEMMA AnswersKeepWords ==
  ASSUME WordsIInv, NEW s \in Slots, Arrive(s) \/ Rewrite(s) PROVE WordsIInv'
<1> DEFINE r == run[s]
           kept == [r EXCEPT !.due = FALSE]
<1>1. r # Idle /\ UNCHANGED <<text, form, sidecar, page, queue>>
  BY DEF Arrive, Rewrite, Asking, source, disk
<1>2. RunKeeps(r)
  BY <1>1 DEF WordsIInv, RunsKeep
<1>3. CASE Arrive(s)
  <2>1. PICK f \in r.pending :
          Becomes(s, [r EXCEPT !.produced = @ \cup {f}, !.pending = @ \ {f}, !.due = TRUE])
    BY <1>3 DEF Arrive
  <2>2. RunsKeep(run')
    BY <1>2, <2>1, ArrivalKeeps, RunBecomes DEF WordsIInv
  <2> QED BY <1>1, <2>2 DEF WordsIInv
<1>4. CASE Rewrite(s)
  <2>1. Becomes(s, [kept EXCEPT !.commit = CommitOf(r, FALSE)])
    BY <1>4 DEF Rewrite
  <2>2. RunKeeps(kept) /\ CommitOf(kept, FALSE) = CommitOf(r, FALSE)
    <3>1. SoundSide(None)
      BY DEF SoundSide
    <3>2. RunKeeps(kept)
      BY <1>2, <3>1, OtherFieldsKeep
    <3>3. CommitOf(kept, FALSE) = CommitOf(r, FALSE)
      BY <1>2 DEF RunKeeps, RunFields, CommitOf
    <3> QED BY <3>2, <3>3
  <2> HIDE DEF kept
  <2>3. RunKeeps([kept EXCEPT !.commit = CommitOf(r, FALSE)])
    BY <2>2, NewCommitKeeps
  <2>4. RunsKeep(run')
    BY <2>1, <2>3, RunBecomes DEF WordsIInv
  <2> QED BY <1>1, <2>4 DEF WordsIInv
<1> QED BY <1>3, <1>4

LEMMA FinishKeepsWords == ASSUME WordsIInv, Finish PROVE WordsIInv'
<1> DEFINE was == run["now"]
           r == [was EXCEPT !.due = FALSE]
           last == [r EXCEPT !.commit = CommitOf(r, TRUE)]
           behind == [r EXCEPT !.committed = last.commit.side]
<1>1. was # Idle /\ UNCHANGED <<text, form, sidecar, page, queue>>
  BY DEF Finish, Asking, source, disk
<1>2. Becomes("now", last) \/ run' = [now |-> last, late |-> behind]
  BY DEF Finish
<1>3. RunKeeps(r)
  <2>1. RunKeeps(was) /\ SoundSide(None)
    BY <1>1 DEF WordsIInv, RunsKeep, Slots, SoundSide
  <2> QED BY <2>1, OtherFieldsKeep
<1> HIDE DEF r
<1>4. RunKeeps(last) /\ SoundSide(last.commit.side)
  <2>1. RunKeeps(last) /\ SoundSide(CommitOf(r, TRUE).side)
    BY <1>3, NewCommitKeeps
  <2>2. last.commit = CommitOf(r, TRUE)
    BY <1>3 DEF RunKeeps, RunFields
  <2> HIDE DEF last
  <2> QED BY <2>1, <2>2
<1> HIDE DEF last
<1>5. RunKeeps(behind)
  BY <1>3, <1>4, OtherFieldsKeep
<1> HIDE DEF behind
<1>6. CASE Becomes("now", last)
  <2>1. RunsKeep(run')
    BY <1>4, <1>6, RunBecomes DEF WordsIInv, Slots
  <2> QED BY <1>1, <2>1 DEF WordsIInv
<1>7. CASE run' = [now |-> last, late |-> behind]
  <2>1. run' = [s \in Slots |-> run'[s]] /\ run'["now"] = last /\ run'["late"] = behind
    BY <1>7 DEF Slots
  <2>2. RunsKeep(run')
    BY <1>4, <1>5, <2>1 DEF RunsKeep, Slots
  <2> QED BY <1>1, <2>2 DEF WordsIInv
<1> QED BY <1>2, <1>6, <1>7

LEMMA LossesKeepWords ==
  ASSUME WordsIInv, LateIsOver \/ Crash \/ Lose PROVE WordsIInv'
<1>1. CASE LateIsOver
  <2>1. Becomes("late", Idle) /\ UNCHANGED <<text, form, sidecar, page, queue>>
    BY <1>1 DEF LateIsOver, source, disk
  <2>2. RunsKeep(run')
    BY <2>1, RunBecomes DEF WordsIInv, Slots
  <2> QED BY <2>1, <2>2 DEF WordsIInv
<1>2. CASE Crash
  <2>1. run' = NoRun /\ queue' = <<>> /\ UNCHANGED <<text, form, sidecar, page>>
    BY <1>2 DEF Crash, source, disk
  <2>2. RunsKeep(run')
    BY <2>1 DEF RunsKeep, NoRun
  <2>3. CallsOK(<<>>)
    BY DEF CallsOK
  <2> QED BY <2>1, <2>2, <2>3 DEF WordsIInv
<1>3. CASE Lose
  <2>1. PICK f \in Forms : page' \in {page, [page EXCEPT ![f] = None]}
    BY <1>3 DEF Lose, WordsIInv
  <2>2. sidecar' \in {sidecar, None} /\ UNCHANGED <<text, form, run, queue>>
    BY <1>3 DEF Lose, source
  <2>3. PagesOK(page')
    BY <2>1, PagesChange DEF WordsIInv
  <2> QED BY <2>2, <2>3 DEF WordsIInv, SoundSide
<1> QED BY <1>1, <1>2, <1>3

LEMMA WordsInit == ASSUME TwinsAssumption, Init PROVE WordsIInv
<1>1. text \in Texts /\ text = FirstText /\ form \in Forms /\ queue = <<>> /\ run = NoRun
  BY DEF Init, TwinsAssumption
<1>2. CallsOK(queue) /\ RunsKeep(run)
  BY <1>1 DEF CallsOK, RunsKeep, NoRun
<1>3. SoundSide(sidecar) /\ PagesOK(page)
  <2>1. CASE sidecar = None /\ page = [f \in Forms |-> None]
    BY <2>1 DEF SoundSide, PagesOK
  <2>2. CASE ~(sidecar = None /\ page = [f \in Forms |-> None])
    <3> DEFINE plan == [k \in DOMAIN FirstText |->
                         Entry(FirstText[k].fn, FirstText[k].body, 0, Unknown, FALSE, TRUE)]
               names == Named(text)
               c == Commit(plan, text, form, names, {}, TRUE)
    <3>1. /\ sidecar = [form |-> form, text |-> text, sections |-> ToSidecar(plan, names)]
          /\ page = [f \in Forms |-> IF f = form THEN ToRender(plan, names, {}) ELSE None]
      BY <2>2 DEF Init
    <3>2. NamedOnce(FirstText) /\ \A k \in DOMAIN FirstText : FirstText[k].body # 0
      BY <1>1, TextsAreNumbered
    <3>3. Provides(plan, {}, names)
      BY <3>2 DEF Provides, NamedOnce, Numbered, Entry
    <3> HIDE DEF plan, names
    <3>4. CommitKeeps(c, {}) /\ sidecar = c.side /\ page[form] = c.page
      BY <1>1, <3>1, <3>3, CommitProvides DEF Commit
    <3> HIDE DEF c
    <3> QED BY <1>1, <3>1, <3>4 DEF CommitKeeps, PagesOK
  <2> QED BY <2>1, <2>2
<1> QED BY <1>1, <1>2, <1>3 DEF WordsIInv

LEMMA WordsStep == ASSUME TwinsAssumption, WordsIInv, [Next]_vars PROVE WordsIInv'
<1>1. CASE UNCHANGED vars
  BY <1>1 DEF WordsIInv, vars, source, disk
<1>2. CASE Next
  BY <1>2, CallsKeep, BeginKeepsWords, WriteSidecarKeepsWords, WriteTwinKeepsWords, RemoveOldKeepsWords,
     FailureKeepsWords, AnswersKeepWords, FinishKeepsWords, LossesKeepWords DEF Next
<1> QED BY <1>1, <1>2

\* The last page of a run has words for every function the run had words for
\* and no other function or section could claim, whichever explanations
\* arrived, failed or were given up (stale.ts matchPrevious, planSections,
\* toRender; engine.ts refresh), for files of any length.
THEOREM WordsAreKept == Spec => []NoWordsLost
<1> USE TwinsAssumption
<1>1. Init => WordsIInv
  BY WordsInit
<1>2. WordsIInv /\ [Next]_vars => WordsIInv'
  BY WordsStep
<1>3. WordsIInv => NoWordsLost
  BY DEF WordsIInv, RunsKeep, RunKeeps, CommitKeeps, KeepsWords, NoWordsLost, Writing
<1> QED BY <1>1, <1>2, <1>3, PTL DEF Spec

=============================================================================
