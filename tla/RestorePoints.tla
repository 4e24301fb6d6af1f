--------------------------- MODULE RestorePoints ---------------------------
(***************************************************************************)
(* The restore points of one workspace folder (src/journal/pure/           *)
(* checkpoints.ts): a snapshot file per point and an index that says which *)
(* points exist, used by every window that has the folder open, each with  *)
(* a queue of its own and no lock between them.  An action is what a       *)
(* window does between two awaits; a window may die, and a call may fail,  *)
(* at each of them.                                                        *)
(***************************************************************************)
EXTENDS Integers, Sequences, FiniteSets, SequencesExt

CONSTANTS Windows, Files, Scratch,   \* Scratch: the self-test's own file
          Contents, None, Torn,      \* Torn: part of a content
          First,                     \* what the files hold at first
          Damaged,                   \* an index that does not parse
          Size,                      \* the bytes of a content
          MaxPerFile, MaxTotal,      \* the two settings
          MaxSaves, MaxEdits, MaxTroubles  \* bounds of the model

ASSUME RestoreAssumption ==
  /\ Scratch \notin Files
  /\ None \notin Contents /\ Torn \notin Contents /\ None # Torn /\ First \in Contents
  /\ Size \in [Contents \cup {Torn} -> Nat]
  /\ MaxPerFile \in Nat \ {0} /\ MaxTotal \in Nat
  /\ MaxSaves \in Nat /\ MaxEdits \in Nat /\ MaxTroubles \in Nat

VARIABLES index,      \* the points of index.json, in the order of their numbers, or Damaged
          snap,       \* what <id>.snap holds, for each that is there
          file,       \* the workspace's files
          saved,      \* every point taken, by number: the ids handed out
          clock,      \* the wall clock, as restore points read it
          op,         \* what each window's queue is running
          toast,      \* the safety point a window's Undo button would restore, or 0
          witnessed,  \* the journal's `restored' entries
          unseen,     \* the windows that have not polled since the last write
          disturbed,  \* two windows overlapped, or the clock went back
          edits, troubles

storeVars == <<index, snap, file, saved, clock, op, toast, witnessed,
               unseen, disturbed, edits, troubles>>

Ids == 1..MaxSaves
Paths == Files \cup {Scratch}

\* Fault: the earlier place in the index wins a tie.
NewerButFirst(p, q) == p.ts > q.ts \/ (p.ts = q.ts /\ p.id < q.id)

\* Newest first, a later place in the index winning a tie (sortNewestFirst): a
\* point comes behind those that were there when it got its number.
Newer(p, q) == p.ts > q.ts \/ (p.ts = q.ts /\ p.id > q.id)

WithinFileCap(points) ==
  {p \in points : Cardinality({q \in points : q.path = p.path /\ Newer(q, p)}) < MaxPerFile}

SizeDownTo(among, p) ==
  FoldSet(LAMBDA q, sum : sum + Size[q.content], 0, {q \in among : q = p \/ Newer(q, p)})

\* planRotation: the per-file cap, then the oldest go until the rest fits;
\* the newest point stays even if it is too large.
Kept(points) ==
  LET among == WithinFileCap(points)
  IN {p \in among : SizeDownTo(among, p) <= MaxTotal \/ \A q \in among : ~Newer(q, p)}

-----------------------------------------------------------------------------

\* A job of the queue: the stages it has left, and what it has read so far.
Job(todo, path, content, id) ==
  [todo |-> todo, path |-> path, content |-> content, want |-> None, id |-> id,
   idx |-> {}, point |-> None, safety |-> 0, made |-> {}]

Idle == Job(<<>>, Scratch, None, 0)
Busy(w) == op[w].todo # <<>>
At(w, stage) == Busy(w) /\ Head(op[w].todo) = stage
IsTest(w) == op[w].path = Scratch
IsRestore(w) == ~IsTest(w) /\ op[w].id # 0

StoreInit ==
  /\ index = {} /\ snap = <<>>
  /\ file = [f \in Files |-> First]
  /\ saved = <<>> /\ clock = 0
  /\ op = [w \in Windows |-> Idle] /\ toast = [w \in Windows |-> 0]
  /\ witnessed = {} /\ unseen = {} /\ disturbed = FALSE /\ edits = 0 /\ troubles = 0

Goes(w, job) == op' = [op EXCEPT ![w] = job]
Advance(w, job) == Goes(w, [job EXCEPT !.todo = Tail(@)])

\* readIndex: a damaged index is moved aside and read as empty.
IndexRead == IF index = Damaged THEN {} ELSE index
ReadingIndex == index' = IndexRead

Trouble == troubles < MaxTroubles /\ troubles' = troubles + 1

SaveStages == <<"readForSave", "writeSnap", "writeIndex">>

\* Fault: the snapshots go first.
RotateSnapshotsFirst == <<"plan", "unlink", "trim", "sweep">>

RotateStages == <<"plan", "trim", "unlink", "sweep">>

RestoreStages == <<"find", "look">> \o SaveStages \o <<"write">>

CleanUp == <<"remove", "trim", "unlink">>

\* The points that the running jobs will still take.
Promised == MapThenSumSet(LAMBDA w : Cardinality({i \in DOMAIN op[w].todo :
                                                    op[w].todo[i] = "readForSave"}), Windows)

\* enqueue: a window runs one job at a time.
Starts(w, job, ids) ==
  /\ ~Busy(w)
  /\ Len(saved) + ids + Promised <= MaxSaves
  /\ Goes(w, job)
  /\ IF \E v \in Windows : Busy(v)
     THEN Trouble /\ disturbed' = TRUE
     ELSE UNCHANGED <<disturbed, troubles>>
  /\ toast' = [toast EXCEPT ![w] = 0]
  /\ UNCHANGED <<index, snap, file, saved, clock, witnessed, unseen, edits>>

\* save(): what the gate read, before an accepted change.
Save(w) == \E f \in Files :
  file[f] # None /\ Starts(w, Job(SaveStages \o RotateStages, f, file[f], 0), 1)

\* restore(id): the id comes from a list that may be out of date.
Restore(w, id) ==
  /\ id \in 1..Len(saved) /\ saved[id].path # Scratch
  /\ Starts(w, Job(RestoreStages \o <<"witness">> \o RotateStages, saved[id].path, None, id), 1)

\* selfTest(): save, change and restore a scratch file, and clean up.
SelfTest(w) == \E c \in Contents :
  Starts(w, Job(SaveStages \o RestoreStages \o <<"check">> \o CleanUp, Scratch, c, 0), 2)

-----------------------------------------------------------------------------

ReadForSave(w) ==
  LET p == [id |-> Len(saved) + 1, path |-> op[w].path, ts |-> clock \div 2,
            content |-> op[w].content]
  IN /\ At(w, "readForSave")
     /\ saved' = Append(saved, p)
     /\ clock' = clock + 1
     /\ Advance(w, [op[w] EXCEPT !.idx = IndexRead, !.point = p])
     /\ ReadingIndex
     /\ UNCHANGED <<snap, file, toast, witnessed, unseen, disturbed, edits, troubles>>

\* The snapshots with one more, or without some.
Holding(id, content) == [i \in DOMAIN snap \cup {id} |-> IF i = id THEN content ELSE snap[i]]
Without(ids) == [i \in DOMAIN snap \ ids |-> snap[i]]

WriteSnap(w) ==
  /\ At(w, "writeSnap")
  /\ snap' = Holding(op[w].point.id, op[w].point.content)
  /\ Advance(w, op[w])
  /\ UNCHANGED <<index, file, saved, clock, toast, witnessed, unseen, disturbed, edits, troubles>>

\* The self-test's first point is the one it then restores.
WriteIndex(w) ==
  LET id == op[w].point.id
  IN /\ At(w, "writeIndex")
     /\ index' = op[w].idx \cup {op[w].point}
     /\ unseen' = Windows
     /\ Advance(w, [op[w] EXCEPT !.idx = {}, !.point = None, !.made = @ \cup {id},
                                 !.id = IF IsTest(w) /\ @ = 0 THEN id ELSE @,
                                 !.safety = IF op[w].id = 0 THEN 0 ELSE id])
     /\ UNCHANGED <<snap, file, saved, clock, toast, witnessed, disturbed, edits, troubles>>

\* A job that throws: the self-test still removes what it made, and a restore
\* whose rotation fails has succeeded.
Throws(w) ==
  /\ Goes(w, IF IsTest(w) /\ Len(op[w].todo) > Len(CleanUp)
             THEN [op[w] EXCEPT !.todo = CleanUp] ELSE Idle)
  /\ toast' = IF IsRestore(w) /\ Len(op[w].todo) <= Len(RotateStages)
              THEN [toast EXCEPT ![w] = op[w].safety] ELSE toast

Readable(id) == id \in DOMAIN snap /\ \E p \in IndexRead : p.id = id

\* readLocked: a point that has been rotated away is not found.
Find(w) ==
  /\ At(w, "find")
  /\ IF Readable(op[w].id)
     THEN Advance(w, [op[w] EXCEPT !.want = snap[op[w].id]]) /\ UNCHANGED toast
     ELSE Throws(w)
  /\ ReadingIndex
  /\ UNCHANGED <<snap, file, saved, clock, witnessed, unseen, disturbed, edits, troubles>>

\* What is on disk now is what the safety point will hold; the self-test has
\* changed its file in the meantime.
Look(w) ==
  /\ At(w, "look")
  /\ \E now \in IF IsTest(w) THEN Contents \ {op[w].want} ELSE {file[op[w].path]} :
       IF now = None
       THEN Goes(w, [op[w] EXCEPT !.content = None, !.todo = SubSeq(@, 5, Len(@))])
       ELSE Advance(w, [op[w] EXCEPT !.content = now])
  /\ UNCHANGED <<index, snap, file, saved, clock, toast, witnessed, unseen, disturbed, edits, troubles>>

\* atomicWriteFile, over whatever is there by now.
Write(w) ==
  /\ At(w, "write")
  /\ file' = IF IsTest(w) \/ op[w].want = op[w].content THEN file
             ELSE [file EXCEPT ![op[w].path] = op[w].want]
  /\ Advance(w, op[w])
  /\ UNCHANGED <<index, snap, saved, clock, toast, witnessed, unseen, disturbed, edits, troubles>>

Witness(w) ==
  /\ At(w, "witness")
  /\ witnessed' = witnessed \cup {[id |-> op[w].id, before |-> op[w].content,
                                   safety |-> op[w].safety]}
  /\ unseen' = Windows
  /\ Advance(w, op[w])
  /\ UNCHANGED <<index, snap, file, saved, clock, toast, disturbed, edits, troubles>>

\* The end of the self-test: does the safety point hold the changed content?
Check(w) ==
  /\ At(w, "check")
  /\ IF Readable(op[w].safety) /\ snap[op[w].safety] = op[w].content
     THEN Advance(w, op[w]) /\ unseen' = Windows /\ UNCHANGED toast
     ELSE Throws(w) /\ UNCHANGED unseen
  /\ ReadingIndex
  /\ UNCHANGED <<snap, file, saved, clock, witnessed, disturbed, edits, troubles>>

-----------------------------------------------------------------------------

\* rotateLocked and removeLocked: the points to remove leave the index first,
\* their snapshots afterwards.
Plan(w) ==
  /\ At(w, "plan") \/ At(w, "remove")
  /\ LET keep == IF At(w, "plan") THEN Kept(IndexRead)
                 ELSE {p \in IndexRead : p.id \notin op[w].made}
         gone == {p \in IndexRead : p \notin keep}
         made == IF At(w, "plan") THEN {p.id : p \in gone} ELSE op[w].made
     IN Goes(w, [op[w] EXCEPT !.idx = keep, !.made = made,
                              !.todo = IF made # {} THEN Tail(@)
                                       ELSE IF IsTest(w) THEN <<>> ELSE <<"sweep">>])
  /\ ReadingIndex
  /\ UNCHANGED <<snap, file, saved, clock, toast, witnessed, unseen, disturbed, edits, troubles>>

Trim(w) ==
  /\ At(w, "trim")
  /\ index' = op[w].idx
  /\ unseen' = Windows
  /\ Advance(w, op[w])
  /\ UNCHANGED <<snap, file, saved, clock, toast, witnessed, disturbed, edits, troubles>>

\* A snapshot that cannot be removed is left to a later sweep.
Unlink(w) ==
  /\ At(w, "unlink")
  /\ \E left \in {{}, op[w].made} :
       /\ left = {} \/ troubles < MaxTroubles
       /\ snap' = Without(op[w].made \ left)
       /\ troubles' = IF left = {} THEN troubles ELSE troubles + 1
  /\ Goes(w, IF IsTest(w) THEN Idle ELSE [op[w] EXCEPT !.todo = Tail(@)])
  /\ UNCHANGED <<index, file, saved, clock, toast, witnessed, unseen, disturbed, edits>>

\* Snapshots the index does not know, the ones past ORPHAN_GRACE_MS: those up
\* to some point.  Then the restore reports, with an Undo button when there was
\* something to save.
Sweep(w) ==
  /\ At(w, "sweep")
  /\ \E young \in 1..Len(saved) + 1 :
       snap' = Without({i \in 1..young - 1 : \A p \in op[w].idx : p.id # i})
  /\ Goes(w, Idle)
  /\ toast' = IF IsRestore(w) THEN [toast EXCEPT ![w] = op[w].safety] ELSE toast
  /\ UNCHANGED <<index, file, saved, clock, witnessed, unseen, disturbed, edits, troubles>>

-----------------------------------------------------------------------------

\* A write that did not finish: a snapshot, or a file that had to be written
\* in place, is torn.  The index is replaced by a rename.
HalfDone(w) ==
  \/ UNCHANGED <<snap, file>>
  \/ At(w, "writeSnap") /\ snap' = Holding(op[w].point.id, Torn) /\ UNCHANGED file
  \/ /\ At(w, "write") /\ ~IsTest(w) /\ op[w].want # op[w].content
     /\ file' = [file EXCEPT ![op[w].path] = Torn]
     /\ UNCHANGED snap

Fail(w) ==
  /\ Busy(w) /\ Trouble
  /\ HalfDone(w)
  /\ Throws(w)
  /\ UNCHANGED <<index, saved, clock, witnessed, unseen, disturbed, edits>>

Crash(w) ==
  /\ Busy(w) /\ Trouble
  /\ HalfDone(w)
  /\ Goes(w, Idle)
  /\ UNCHANGED <<index, saved, clock, toast, witnessed, unseen, disturbed, edits>>

\* What is outside the store: a file is edited or deleted, the index is
\* damaged, the clock is set back.
Edit(f) ==
  /\ edits < MaxEdits /\ edits' = edits + 1
  /\ \E c \in Contents \cup {None} : c # file[f] /\ file' = [file EXCEPT ![f] = c]
  /\ UNCHANGED <<index, snap, saved, clock, op, toast, witnessed, unseen, disturbed, troubles>>

Damage ==
  /\ Trouble
  /\ index' = Damaged /\ unseen' = Windows
  /\ UNCHANGED <<snap, file, saved, clock, op, toast, witnessed, disturbed, edits>>

SetClockBack ==
  /\ Trouble
  /\ clock' = 0 /\ disturbed' = TRUE
  /\ UNCHANGED <<index, snap, file, saved, op, toast, witnessed, unseen, edits>>

Stages(w) ==
  \/ ReadForSave(w) \/ WriteSnap(w) \/ WriteIndex(w)
  \/ Find(w) \/ Look(w) \/ Write(w) \/ Witness(w) \/ Check(w)
  \/ Plan(w) \/ Trim(w) \/ Unlink(w) \/ Sweep(w)

StoreNext ==
  \/ \E w \in Windows : Stages(w) \/ Fail(w) \/ Crash(w)
  \/ Damage \/ SetClockBack
  \/ \E f \in Files : Edit(f)
=============================================================================
