------------------------------ MODULE Backfill ------------------------------
(***************************************************************************)
(* "Backfill the whole project" (twin/backfill.ts, pure/backfillState.ts   *)
(* and the commands of ux/commands.ts): the estimate, the confirmation,    *)
(* the run with its progress file, pause, resume and cancel, over the      *)
(* permissions of Projects.                                                *)
(*                                                                         *)
(* The controller keeps one set of variables, and start() and resume() set *)
(* `running' only after several awaits; so each call under way is a thread *)
(* of its own here, and two of them may share those variables.             *)
(***************************************************************************)
EXTENDS Projects, Selections

CONSTANTS Threads,         \* how many calls of start() and resume() at once
          Cleaner          \* clearPersisted() called by cancel()

\* A record, and where a call is.
BackfillRecords == [folder : Folders, files : Seq(Range(Files)), done : SUBSET Range(Files)]
Stages == {"loading", "reloading", "choosing", "asking", "scanning", "confirming", "persisting",
           "loop", "explaining", "saving", "ending", "clearing"}
ThreadStates ==
  [pc : Stages, left : Seq(Folders), chosen : Seq(Folders), plan : Seq(BackfillRecords),
   ri : Nat, todo : Seq(Range(Files)), held : {None} \cup BackfillRecords,
   cancelled : BOOLEAN, caught : BOOLEAN, after : {None, "cancelled", "done"}]

ASSUME BackfillAssumption ==
  /\ Files \in Seq(Range(Files))
  /\ Cleaner \notin Threads /\ None \notin Threads \cup {Cleaner}
  /\ None \notin BackfillRecords /\ None \notin ThreadStates

VARIABLES bstate, records, pausing, failed, running, source,
          th,              \* the threads
          saved,           \* backfill.json of each folder
          planned,         \* files the person confirmed, unless cancelled or lost since
          skipped,         \* files done without words: no assistant, not eligible
          shared           \* two calls have used those variables at once

backfillVars == <<bstate, records, pausing, failed, running, source, th, saved,
                  planned, skipped>>
vars == <<projectVars, backfillVars, shared>>

-----------------------------------------------------------------------------
(* The record (pure/backfillState.ts).                                     *)

BackfillRecord(f, files) == [folder |-> f, files |-> files, done |-> {}]
RemainingFiles(r) == Only(r.files, {i \in DOMAIN r.files : r.files[i] \notin r.done})
IsComplete(r) == RemainingFiles(r) = <<>>
FilesOf(recs) == UNION {Range(recs[i].files) : i \in DOMAIN recs}

\* loadPersisted: one record for each folder, if it parses and is not complete.
Unfinished == {f \in Folders : IF saved[f] = None THEN FALSE ELSE ~IsComplete(saved[f])}
Loaded == Only([i \in DOMAIN Order |-> saved[Order[i]]], {i \in DOMAIN Order : Order[i] \in Unfinished})

-----------------------------------------------------------------------------
(* A thread: a call of start() or resume().                                *)

Thread(pc) ==
  [pc |-> pc, left |-> <<>>, chosen |-> <<>>,   \* folders to look at, allowed ones
   plan |-> <<>>,                                \* records to make
   ri |-> 0, todo |-> <<>>,                      \* the loop over records and files
   held |-> None, cancelled |-> FALSE, caught |-> FALSE, after |-> None]

Pc(t, pc) == IF th[t] = None THEN FALSE ELSE th[t].pc = pc
Goes(t, thread) == th' = [th EXCEPT ![t] = thread]
To(t, pc) == Goes(t, [th[t] EXCEPT !.pc = pc])
Ends(t) == Goes(t, None)

\* Past the questions, a thread works on the variables they share.
Busy(t) == IF th[t] = None THEN FALSE
           ELSE th[t].pc \notin {"loading", "reloading", "choosing", "asking"}
Crowded == \E t, u \in DOMAIN th : t # u /\ Busy(t) /\ Busy(u)

\* What a step of a thread leaves alone.
Alone == UNCHANGED <<perm, twins, paper, events, planned, skipped>>

\* guardRun's finally: whoever ends, nothing counts as running any more.
Settles(t, state) ==
  /\ Ends(t)
  /\ running' = None
  /\ bstate' = state

-----------------------------------------------------------------------------
(* start() and resume().                                                   *)

\* run(): its first, uninterrupted part.
BeginRun(t, thread) ==
  /\ pausing' = FALSE /\ failed' = FALSE
  /\ source' = t /\ running' = t
  /\ bstate' = "running"
  /\ Goes(t, [thread EXCEPT !.pc = "loop", !.ri = 0, !.todo = <<>>, !.cancelled = FALSE])

Resumed(t, recs) ==
  IF \A i \in DOMAIN recs : IsComplete(recs[i])
  THEN /\ bstate' = "idle" /\ Ends(t)
       /\ UNCHANGED <<pausing, failed, source, running>>
  ELSE BeginRun(t, Thread("loop"))

CallResume(t) ==
  IF running # None
  THEN /\ pausing' = FALSE /\ Ends(t)
       /\ UNCHANGED <<bstate, records, failed, running, source>>
  ELSE IF records = <<>>
  THEN /\ Goes(t, Thread("reloading"))
       /\ UNCHANGED <<bstate, records, pausing, failed, running, source>>
  ELSE Resumed(t, records) /\ UNCHANGED records

Reload(t) ==
  /\ Pc(t, "reloading")
  /\ records' = Loaded
  /\ Resumed(t, Loaded)
  /\ Alone /\ UNCHANGED saved

Load(t) ==
  /\ Pc(t, "loading")
  /\ IF Loaded # <<>> THEN CallResume(t)
     ELSE /\ Goes(t, [th[t] EXCEPT !.pc = "choosing", !.left = Order])
          /\ UNCHANGED <<bstate, records, pausing, failed, running, source>>
  /\ Alone /\ UNCHANGED saved

\* Every folder in turn: allowed, refused, or to be asked about.
Choose(t) ==
  /\ Pc(t, "choosing") /\ th[t].left # <<>>
  /\ LET f == Head(th[t].left)
         next == [th[t] EXCEPT !.left = Tail(@)]
     IN \/ /\ decision[f] = "allowed"
           /\ Goes(t, [next EXCEPT !.chosen = Append(@, f)])
           /\ UNCHANGED <<question, cool>>
        \/ /\ decision[f] = "denied"
           /\ Goes(t, next)
           /\ UNCHANGED <<question, cool>>
        \/ /\ decision[f] = "unknown"
           /\ IF f \in question THEN UNCHANGED <<question, cool>> ELSE Ask(f)
           /\ To(t, "asking")
  /\ UNCHANGED <<decision, waits, opening, twins, paper, events>>
  /\ UNCHANGED <<bstate, records, pausing, failed, running, source, saved, planned, skipped>>

AnswerQuestion(f, d) ==
  /\ Answer(f, d)
  /\ th' = [t \in DOMAIN th |->
              IF Pc(t, "asking") /\ Head(th[t].left) = f
              THEN [th[t] EXCEPT !.pc = "choosing", !.left = Tail(@),
                                 !.chosen = IF d = "allowed" THEN Append(@, f) ELSE @]
              ELSE th[t]]
  /\ UNCHANGED <<bstate, records, pausing, failed, running, source, saved, planned, skipped>>

Estimate(t) ==
  /\ Pc(t, "choosing") /\ th[t].left = <<>>
  /\ IF th[t].chosen = <<>>
     THEN Ends(t) /\ UNCHANGED <<bstate, records, failed, running>>
     ELSE /\ running' = t /\ failed' = FALSE /\ records' = <<>>
          /\ bstate' = "estimating"
          /\ Goes(t, [th[t] EXCEPT !.pc = "scanning", !.caught = TRUE])
  /\ Alone /\ UNCHANGED <<pausing, source, saved>>

\* scan(): the code files of the whole workspace without a complete twin; a file
\* of no chosen folder goes to the first one.
Stale == {i \in DOMAIN Files : Files[i] \notin twins}
HomeOf(chosen, file) == IF FolderOf[file] \in Range(chosen) THEN FolderOf[file] ELSE chosen[1]
EntriesOf(chosen, f) == Only(Files, {i \in Stale : HomeOf(chosen, Files[i]) = f})
Plan(chosen) ==
  LET all == [i \in DOMAIN chosen |-> BackfillRecord(chosen[i], EntriesOf(chosen, chosen[i]))]
  IN Only(all, {i \in DOMAIN chosen : all[i].files # <<>>})
Scan(t) ==
  /\ Pc(t, "scanning")
  /\ LET plan == Plan(th[t].chosen) IN
     IF plan = <<>> THEN Settles(t, "done")
     ELSE /\ Goes(t, [th[t] EXCEPT !.pc = "confirming", !.plan = plan])
          /\ UNCHANGED <<bstate, running>>
  /\ Alone /\ UNCHANGED <<records, pausing, failed, source, saved>>
\* The scan is cancelled in its progress window, or no assistant is connected.
ScanEnds(t) ==
  /\ Pc(t, "scanning")
  /\ \/ Settles(t, "cancelled") /\ UNCHANGED failed
     \/ Settles(t, "error") /\ failed' = TRUE
  /\ Event
  /\ UNCHANGED <<perm, twins, paper, planned, skipped, records, pausing, source, saved>>

Confirm(t) ==
  /\ Pc(t, "confirming")
  /\ To(t, "persisting")
  /\ planned' = planned \cup FilesOf(th[t].plan)
  /\ UNCHANGED <<perm, twins, paper, events, skipped>>
  /\ UNCHANGED <<bstate, records, pausing, failed, running, source, saved>>
Decline(t) ==
  /\ Pc(t, "confirming")
  /\ Settles(t, "cancelled")
  /\ Alone /\ UNCHANGED <<records, pausing, failed, source, saved>>

Persist(t) ==
  /\ Pc(t, "persisting")
  /\ IF th[t].plan = <<>>
     THEN BeginRun(t, th[t]) /\ UNCHANGED <<records, saved>>
     ELSE LET r == Head(th[t].plan) IN
          /\ records' = Append(records, r)
          /\ saved' = [saved EXCEPT ![r.folder] = r]
          /\ Goes(t, [th[t] EXCEPT !.plan = Tail(@)])
          /\ UNCHANGED <<bstate, pausing, failed, running, source>>
  /\ Alone
\* A record cannot be written: its file stays as it is or is cut short, and the rest
\* of what was confirmed is given up.
PersistFails(t) ==
  /\ Pc(t, "persisting") /\ th[t].plan # <<>>
  /\ LET r == Head(th[t].plan) IN
     /\ records' = Append(records, r)
     /\ saved' \in {saved, [saved EXCEPT ![r.folder] = None]}
  /\ planned' = planned \ FilesOf(th[t].plan)
  /\ Settles(t, "error") /\ failed' = TRUE
  /\ Event
  /\ UNCHANGED <<perm, twins, paper, skipped, pausing, source>>

-----------------------------------------------------------------------------
(* run().                                                                  *)

Loop(t) ==
  /\ Pc(t, "loop")
  /\ LET w == th[t] IN
     Goes(t, IF w.todo # <<>>
             THEN [w EXCEPT !.pc = IF w.cancelled \/ pausing THEN "ending" ELSE "explaining"]
             ELSE IF w.ri < Len(records)
             THEN [w EXCEPT !.ri = @ + 1, !.todo = RemainingFiles(records[w.ri + 1])]
             ELSE [w EXCEPT !.pc = "ending"])
  /\ Alone /\ UNCHANGED <<bstate, records, pausing, failed, running, source, saved>>

File(t) == Head(th[t].todo)

\* An error that nothing catches leaves the state as it is; start() catches those
\* of the run it has begun.
Throws(t) ==
  IF th[t].caught THEN Settles(t, "error") /\ failed' = TRUE
  ELSE Settles(t, bstate) /\ UNCHANGED failed

\* After the file: a cancelled run ends; else the file is marked as done in the
\* record that now has this index.
MarkFileDone(t) ==
  LET w == th[t] IN
  IF w.cancelled THEN To(t, "ending") /\ UNCHANGED <<records, failed, bstate, running>>
  ELSE IF w.ri > Len(records) THEN Throws(t) /\ UNCHANGED records
  ELSE /\ records' = [records EXCEPT ![w.ri].done = @ \cup {File(t)}]
       /\ Goes(t, [w EXCEPT !.pc = "saving", !.held = records'[w.ri]])
       /\ UNCHANGED <<failed, bstate, running>>

Explain(t) ==
  /\ Pc(t, "explaining")
  /\ twins' = twins \cup {File(t)}
  /\ MarkFileDone(t)
  /\ UNCHANGED <<perm, paper, events, planned, skipped, pausing, source, saved>>
\* The assistant is not connected any more: no words, no error.
Skip(t) ==
  /\ Pc(t, "explaining")
  /\ skipped' = skipped \cup {File(t)}
  /\ MarkFileDone(t)
  /\ Event
  /\ UNCHANGED <<perm, twins, paper, planned, pausing, source, saved>>
\* Fault: a file the pause interrupted counts as done.
StopsMarked(t) ==
  /\ Pc(t, "explaining") /\ (pausing \/ th[t].cancelled)
  /\ MarkFileDone(t)
  /\ Alone /\ UNCHANGED <<pausing, source, saved>>

\* The engine looks at the pause and the token between two requests.
Stop(t) ==
  /\ Pc(t, "explaining") /\ (pausing \/ th[t].cancelled)
  /\ To(t, "ending")
  /\ Alone /\ UNCHANGED <<bstate, records, pausing, failed, running, source, saved>>
ExplainFails(t) ==
  /\ Pc(t, "explaining")
  /\ failed' = (failed \/ ~th[t].cancelled)
  /\ To(t, "ending")
  /\ Event
  /\ UNCHANGED <<perm, twins, paper, planned, skipped, bstate, records, pausing, running, source, saved>>

Save(t) ==
  /\ Pc(t, "saving")
  /\ saved' = [saved EXCEPT ![th[t].held.folder] = th[t].held]
  /\ Goes(t, [th[t] EXCEPT !.pc = "loop", !.todo = Tail(@), !.held = None])
  /\ Alone /\ UNCHANGED <<bstate, records, pausing, failed, running, source>>
\* The file stays as it is or is cut short; the run ends with the error.
SaveFails(t) ==
  /\ Pc(t, "saving")
  /\ LET r == th[t].held IN
     \/ UNCHANGED <<saved, planned>>
     \/ saved' = [saved EXCEPT ![r.folder] = None] /\ planned' = planned \ Range(r.files)
  /\ Throws(t)
  /\ Event
  /\ UNCHANGED <<perm, twins, paper, skipped, records, pausing, source>>

Ending(t) ==
  IF ~th[t].cancelled /\ failed THEN Settles(t, "error")
  ELSE IF ~th[t].cancelled /\ pausing THEN Settles(t, "paused")
  ELSE /\ Goes(t, [th[t] EXCEPT !.pc = "clearing", !.after = IF th[t].cancelled THEN "cancelled" ELSE "done"])
       /\ UNCHANGED <<bstate, running>>
Finish(t) ==
  /\ Pc(t, "ending")
  /\ Ending(t)
  /\ Alone /\ UNCHANGED <<records, pausing, failed, source, saved>>

\* clearPersisted, one file at a time.
Clear(t) ==
  /\ Pc(t, "clearing")
  /\ IF \E f \in Folders : saved[f] # None
     THEN /\ saved' = [saved EXCEPT ![CHOOSE f \in Folders : saved[f] # None] = None]
          /\ UNCHANGED <<bstate, records, running, th>>
     ELSE /\ records' = <<>>
          /\ IF t = Cleaner THEN bstate' = th[t].after /\ Ends(t) /\ UNCHANGED running
             ELSE Settles(t, th[t].after)
          /\ UNCHANGED saved
  /\ Alone /\ UNCHANGED <<pausing, failed, source>>

-----------------------------------------------------------------------------
(* The commands.                                                           *)

Start(t) ==
  /\ th[t] = None
  /\ bstate # "running" /\ running = None
  /\ IF bstate = "paused" THEN CallResume(t)
     ELSE Goes(t, Thread("loading")) /\ UNCHANGED <<bstate, records, pausing, failed, running, source>>
  /\ Event
  /\ UNCHANGED <<perm, twins, paper, planned, skipped, saved>>
Resume(t) ==
  /\ th[t] = None
  /\ bstate = "paused"
  /\ CallResume(t)
  /\ Event
  /\ UNCHANGED <<perm, twins, paper, planned, skipped, saved>>
Pause ==
  /\ bstate = "running" /\ ~pausing
  /\ pausing' = TRUE
  /\ Event
  /\ UNCHANGED <<perm, twins, paper, planned, skipped, bstate, records, failed, running, source, th, saved>>
Cancel ==
  /\ bstate \in {"running", "paused", "estimating"}
  /\ pausing' = FALSE
  /\ running = None => th[Cleaner] = None
  /\ th' = [t \in DOMAIN th |->
              IF t = Cleaner /\ running = None THEN [Thread("clearing") EXCEPT !.after = "cancelled"]
              ELSE IF t = source /\ th[t] # None THEN [th[t] EXCEPT !.cancelled = TRUE]
              ELSE th[t]]
  /\ planned' = {}
  /\ Event
  /\ UNCHANGED <<perm, twins, paper, skipped, bstate, records, failed, running, source, saved>>

\* The window closes or dies: what was confirmed and not yet written is gone, and
\* a record that was being written may be half there.
Unwritten == UNION {FilesOf(th[t].plan) : t \in {u \in DOMAIN th : Pc(u, "persisting")}}
InHand(t) == CASE Pc(t, "saving") -> {th[t].held.folder}
               [] Pc(t, "persisting") -> {th[t].plan[i].folder : i \in DOMAIN th[t].plan \cap {1}}
               [] OTHER -> {}
Restart ==
  /\ RestartProjects
  /\ bstate' = "idle" /\ records' = <<>> /\ pausing' = FALSE /\ failed' = FALSE
  /\ running' = None /\ source' = None
  /\ th' = [t \in DOMAIN th |-> None]
  /\ \E torn \in SUBSET UNION {InHand(t) : t \in Threads} :
       /\ saved' = [f \in Folders |-> IF f \in torn THEN None ELSE saved[f]]
       /\ planned' = planned \ (Unwritten \cup UNION {Range(saved[f].files) : f \in {g \in torn : saved[g] # None}})
  /\ Event
  /\ UNCHANGED skipped

Works(t) ==
  \/ Load(t) \/ Reload(t) \/ Choose(t) \/ Estimate(t) \/ Scan(t)
  \/ Confirm(t) \/ Decline(t) \/ Persist(t)
  \/ Loop(t) \/ Explain(t) \/ Stop(t) \/ Save(t) \/ Finish(t)

Init ==
  /\ ProjectsInit
  /\ bstate = "idle" /\ records = <<>> /\ pausing = FALSE /\ failed = FALSE
  /\ running = None /\ source = None
  /\ th = [t \in Threads \cup {Cleaner} |-> None]
  /\ saved = [f \in Folders |-> None]
  /\ planned = {} /\ skipped = {} /\ shared = FALSE

Step ==
  \/ ProjectsNext /\ UNCHANGED backfillVars
  \/ \E f \in Folders, d \in {"allowed", "denied", "unknown"} : AnswerQuestion(f, d)
  \/ \E t \in Threads :
       \/ Start(t) \/ Resume(t) \/ Works(t) \/ ScanEnds(t) \/ Skip(t) \/ ExplainFails(t)
       \/ PersistFails(t) \/ SaveFails(t)
  \/ \E t \in Threads \cup {Cleaner} : Clear(t)
  \/ Pause \/ Cancel \/ Restart
\* A second call of start() takes back the pause of the run it finds.
TakesOver == \E t \in Threads : running # None /\ Load(t)
Next == Step /\ shared' = (shared \/ Crowded' \/ TakesOver)

Spec == Init /\ [][Next]_vars

-----------------------------------------------------------------------------

\* backfillState.ts:3: the record never claims a file that was not dealt with, for
\* what it calls done is not looked at again when the run is resumed.
ClaimsNoMore ==
  \A f \in Folders : saved[f] # None => saved[f].done \subseteq twins \cup skipped

\* Whenever no call is under way the progress files hold every confirmed file that
\* still has no words, unless a second call got past the question whether one is
\* running.  `planned' loses the files of a record that a failed write or the end of
\* the process cuts short, and those of the records that were then never written.
ForgetsNone ==
  ~shared /\ (\A t \in DOMAIN th : th[t] = None) =>
    planned \ (twins \cup skipped) \subseteq UNION {Range(RemainingFiles(saved[f])) : f \in Unfinished}

\* backfillState.ts:4, "a paused run survives a VS Code restart": the progress
\* files claim neither too much nor too little, whatever stops a run.
ProgressIsTrue == ClaimsNoMore /\ ForgetsNone
=============================================================================
