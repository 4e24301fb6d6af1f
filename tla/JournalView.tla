---------------------------- MODULE JournalView ----------------------------
(***************************************************************************)
(* The `Changes and restore points' view (src/journal/treeView.ts) over    *)
(* the restore points of a folder: what it lists, how it notices that      *)
(* another window changed them, and the two ways to restore from it.       *)
(***************************************************************************)
EXTENDS RestorePoints

CONSTANT Viewers    \* the windows with a view

ASSUME ViewersAssumption == Viewers \subseteq Windows

VARIABLE view       \* what each of them shows

vars == <<storeVars, view>>

\* shown: the points listed; stamped: there is a modification time to compare
\* with; loading: VS Code has been told to ask again; failed: it was last answered
\* with an error.
NewView == [visible |-> FALSE, shown |-> {}, stamped |-> FALSE, loading |-> TRUE, failed |-> FALSE]

Init == StoreInit /\ view = [w \in Viewers |-> NewView]

IdsOf(points) == {p.id : p \in points}

-----------------------------------------------------------------------------

\* poll: a file that was seen before and has another modification time.
Polls(w, v) ==
  /\ view' = [view EXCEPT ![w] = [v EXCEPT !.stamped = TRUE,
                                    !.loading = @ \/ (v.stamped /\ w \in unseen)]]
  /\ unseen' = unseen \ {w}
  /\ UNCHANGED <<index, snap, file, saved, clock, op, toast, witnessed, disturbed, edits, troubles>>

Show(w) ==
  /\ ~view[w].visible
  /\ Polls(w, [view[w] EXCEPT !.visible = TRUE])

\* Fault: the stamps are forgotten with the timer.
HiddenAndForgotten(v) == [v EXCEPT !.visible = FALSE, !.stamped = FALSE]

\* stopPolling: the stamps stay.
Hidden(v) == [v EXCEPT !.visible = FALSE]

Hide(w) ==
  /\ view[w].visible
  /\ view' = [view EXCEPT ![w] = Hidden(view[w])]
  /\ UNCHANGED storeVars

Poll(w) == view[w].visible /\ Polls(w, view[w])

\* getChildren: list() waits its turn in the window's queue.
Load(w) ==
  /\ view[w].visible /\ view[w].loading /\ ~Busy(w)
  /\ view' = [view EXCEPT ![w].shown = IdsOf(IndexRead), ![w].loading = FALSE, ![w].failed = FALSE]
  /\ ReadingIndex
  /\ UNCHANGED <<snap, file, saved, clock, op, toast, witnessed, unseen, disturbed, edits, troubles>>

\* The journal or the index cannot be read: VS Code shows the error and no list, and
\* nobody asks again before the next change.
LoadFails(w) ==
  /\ view[w].visible /\ view[w].loading /\ ~Busy(w) /\ Trouble
  /\ view' = [view EXCEPT ![w].shown = {}, ![w].loading = FALSE, ![w].failed = TRUE]
  /\ UNCHANGED <<index, snap, file, saved, clock, op, toast, witnessed, unseen, disturbed, edits>>

\* performRestore and doRestore: a file with unsaved changes is refused by the
\* one, a person who does not confirm by the other.
PerformRestore(w, id) == Restore(w, id)
DoRestore(w, id) == Restore(w, id)

\* A click on a point of the list, which may be gone by now: the view's own
\* restore, and the command that the button runs.
RestoreShown(w) ==
  /\ view[w].visible
  /\ \E id \in view[w].shown : Readable(id) /\ PerformRestore(w, id)
  /\ UNCHANGED view

RestoreCheckpoint(w) ==
  /\ \E id \in view[w].shown : Readable(id) /\ DoRestore(w, id)
  /\ UNCHANGED view

\* A pick from a list that was read when the command began.
RestoreFile(w) == \E id \in Ids : DoRestore(w, id) /\ UNCHANGED view

\* The Undo button of the last restore's message, or that point `is no longer
\* available'.
Undo(w) ==
  /\ toast[w] # 0
  /\ IF Readable(toast[w]) THEN PerformRestore(w, toast[w])
     ELSE /\ ~Busy(w)
          /\ toast' = [toast EXCEPT ![w] = 0]
          /\ UNCHANGED <<index, snap, file, saved, clock, op, witnessed, unseen, disturbed, edits, troubles>>
  /\ UNCHANGED view

\* performRestore ends with a refresh of the window's views.
Refreshed(w) ==
  view' = IF w \in Viewers /\ IsRestore(w) /\ At(w, "sweep") THEN [view EXCEPT ![w].loading = TRUE] ELSE view

Work(w) == Stages(w) /\ Refreshed(w)

Next ==
  \/ \E w \in Windows :
       \/ Work(w) \/ (Fail(w) /\ Refreshed(w))
       \/ Crash(w) /\ view' = [v \in Viewers |-> IF v = w THEN NewView ELSE view[v]]
       \/ (Save(w) \/ SelfTest(w)) /\ UNCHANGED view
       \/ Undo(w)
  \/ \E w \in Viewers : Show(w) \/ Hide(w) \/ Poll(w) \/ Load(w) \/ LoadFails(w)
                         \/ RestoreShown(w) \/ RestoreCheckpoint(w) \/ RestoreFile(w)
  \/ (Damage \/ SetClockBack \/ \E f \in Files : Edit(f)) /\ UNCHANGED view

\* A job that has started goes on, a visible view polls, and VS Code loads it: a
\* list() gets its turn in the queue, however many jobs follow it.
Fairness ==
  /\ \A w \in Windows : WF_vars(Work(w))
  /\ \A w \in Viewers : WF_vars(Poll(w)) /\ SF_vars(Load(w))

Spec == Init /\ [][Next]_vars /\ Fairness

-----------------------------------------------------------------------------

\* What the index lists can be restored: a crash or a failure anywhere in a
\* save, a rotation or a self-test never leaves an entry whose snapshot is
\* missing, and not even two windows at once leave one that is torn or another
\* point's (saveLocked, removeLocked, rotateLocked).
IndexedIsRestorable ==
  \A p \in IndexRead :
    /\ p.id \in DOMAIN snap => snap[p.id] = p.content
    /\ disturbed \/ p.id \in DOMAIN snap

\* A restore writes what was saved under that number, and what it replaces
\* can itself be restored, unless somebody edited the file after the restore
\* had looked at it, or damaged the index that listed it (restoreLocked).
LosesNothing(w) ==
  LET path == op[w].path
      replaced == op[w].content
  IN Write(w) /\ file' # file =>
       /\ file'[path] = saved[op[w].id].content
       /\ \/ disturbed \/ index \in {{}, Damaged}
          \/ file[path] # replaced \/ replaced = None
          \/ Readable(op[w].safety) /\ snap[op[w].safety] = replaced

\* When a restore reports, the point its Undo button would bring back has
\* survived the rotation that followed, and the restore is in the journal.
OffersUndo(w) ==
  toast'[w] # toast[w] /\ toast'[w] # 0 =>
    /\ [id |-> op[w].id, before |-> op[w].content, safety |-> toast'[w]] \in witnessed
    /\ disturbed' \/ index' \in {{}, Damaged} \/ \E id \in DOMAIN saved : id = toast'[w] /\ Readable(id)'

\* No step of a restore loses what was there, or the way back to it.
RestoresAreSafe == [][\A w \in Windows : LosesNothing(w) /\ OffersUndo(w)]_vars

\* A view that stays visible comes to show the points that exist, whichever window
\* changed them (poll, refresh, getChildren), or that they could not be read; the next
\* change makes up for that.
ViewCatchesUp ==
  \A w \in Viewers :
    LET v == view[w]
    IN []<>(v.visible => \/ v.shown = IdsOf(IndexRead)
                         \/ v.failed /\ ~v.loading /\ w \notin unseen)
=============================================================================
