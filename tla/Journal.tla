------------------------------- MODULE Journal -------------------------------
(***************************************************************************)
(* The change journal of one workspace folder (journal/pure/journal.ts):   *)
(* journal.jsonl, its archives and the temporary files of a rotation, and  *)
(* the VS Code windows that append to them.  Each window queues its own    *)
(* calls (enqueue), so a window runs one append at a time; a step is one   *)
(* file-system call.  A process may die between any two of them or in the  *)
(* middle of one, a call may fail, and people may edit the files.          *)
(*                                                                         *)
(* A hash is a fresh number: sha256 is taken to be injective, so the       *)
(* number stands for the entry and for everything it is chained to.        *)
(***************************************************************************)
EXTENDS Integers, Sequences, FiniteSets, SequencesExt, FiniteSetsExt

CONSTANTS
    Writers,        \* the processes that have the folder open
    MaxEntries,     \* effectiveMaxEntries(): lines of the active file before it rotates
    MaxAppends,     \* bound: calls of append
    MaxStops,       \* bound: processes that die
    MaxFaults,      \* bound: file-system calls that fail
    MaxChanges,     \* bound: changes of the files by hand
    MaxOverlaps,    \* bound: appends that start while another window is in one
    MaxMishaps,     \* bound: all of these together
    Edits,          \* the kinds of them: of EditKinds
    NoFile,         \* a file that is not there
    NoState,        \* the TailState of a window that has none
    Junk            \* a line that is not a valid entry

EditKinds == {"alter", "damage", "remove", "reorder", "set aside", "delete", "lose archive"}

ASSUME JournalConstants ==
    /\ MaxEntries \in Nat /\ MaxEntries >= 2
    /\ {MaxAppends, MaxStops, MaxFaults, MaxChanges, MaxOverlaps, MaxMishaps} \subseteq Nat
    /\ Edits \subseteq EditKinds

GENESIS_HASH == 0
NoArchive == 0        \* the `path` of an entry that is not the note of a rotation
NoHead == -1          \* recoverTmpArchives(undefined)
NoLog == <<GENESIS_HASH>>
Active == 0           \* the name of journal.jsonl among the temporary files

Stamps == Nat \ {0}
Hashes == Nat \ {0}

Entry == [hash: Hashes, prev: Hashes \cup {GENESIS_HASH}, seq: Nat \ {0},
          kind: {"change", "repair", "rotation"},
          path: Stamps \cup {NoArchive}, after: Hashes \cup {GENESIS_HASH},
          intact: BOOLEAN]
Text == [lines: Seq(Entry \cup {Junk}), newline: BOOLEAN]
TailState == [seq: Nat, hash: Hashes \cup {GENESIS_HASH}, lines: Nat, seen: Text]

ASSUME JournalValues == NoFile \notin Text /\ Junk \notin Entry

Calls == {"idle", "stat", "read", "trim", "repair", "finish line", "readdir", "recover",
          "write", "rotate", "write archive", "write active", "swap", "commit", "note"}

VARIABLES
    active,     \* journal.jsonl
    archives,   \* the archives, by the time stamp in their names
    tmps,       \* the *.tmp files, by the name they are to get
    st,         \* per window: FileJournal.state
    pc,         \* per window: the next file-system call of its append
    job,        \* per window: the locals of the append in progress
    stamped,    \* the time stamp of the last archive
    history,    \* for every hash ever written, the entry and the log that it continued
    recorded,   \* the hashes of the entries that were written and synced
    spent,      \* the appends and the troubles there have been
    unfinished  \* a recovery could not clean up

journalVars == <<active, archives, tmps, st, pc, job, stamped, history, recorded, spent, unfinished>>
files == <<active, archives, tmps>>
ghosts == <<history, recorded, unfinished>>

NoJob == [head |-> NoHead, todo |-> {}, older |-> <<>>, newer |-> <<>>, stamp |-> NoArchive]
EmptyText == [lines |-> <<>>, newline |-> TRUE]
Genesis == [seq |-> 0, hash |-> GENESIS_HASH, lines |-> 0, seen |-> EmptyText]

-----------------------------------------------------------------------------
(* Reading the files. *)

EntryPlaces(lines) == {i \in DOMAIN lines : lines[i] # Junk}
EntriesOf(lines) ==
    LET found[n \in 0 .. Len(lines)] ==
            IF n = 0 THEN <<>>
            ELSE IF lines[n] = Junk THEN found[n - 1] ELSE Append(found[n - 1], lines[n])
    IN found[Len(lines)]
FirstEntry(lines) == lines[Min(EntryPlaces(lines))]
LastEntry(lines) == lines[Max(EntryPlaces(lines))]

LinesOf(file) == IF file = NoFile THEN <<>> ELSE file.lines

(* The archives in chain order: by the seq of their first entry, then by name. *)
FirstSeq(lines) ==
    IF EntryPlaces(lines) = {} THEN 4 * MaxAppends + MaxStops + MaxFaults
    ELSE FirstEntry(lines).seq
Earlier(a, b) ==
    \/ FirstSeq(archives[a]) < FirstSeq(archives[b])
    \/ FirstSeq(archives[a]) = FirstSeq(archives[b]) /\ a < b
NthArchive(k) ==
    CHOOSE a \in DOMAIN archives : Cardinality({b \in DOMAIN archives : Earlier(b, a)}) = k - 1
ArchiveOrder == [k \in 1 .. Cardinality(DOMAIN archives) |-> NthArchive(k)]

Archived == FlattenSeq([i \in DOMAIN ArchiveOrder |-> archives[ArchiveOrder[i]]])
Chain == Archived \o LinesOf(active)

\* Fault: the first line may point anywhere.
LinksInside(lines, i) ==
    /\ lines[i] # Junk
    /\ lines[i].intact
    /\ i > 1 => /\ lines[i].prev = lines[i - 1].hash
               /\ lines[i].seq = lines[i - 1].seq + 1
(* verifyLines over the archives and the active file, one continuous chain. *)
Links(lines, i) ==
    /\ lines[i] # Junk
    /\ lines[i].intact
    /\ IF i = 1 THEN lines[i].prev = GENESIS_HASH
       ELSE /\ lines[i].prev = lines[i - 1].hash
            /\ lines[i].seq = lines[i - 1].seq + 1

FirstBroken(lines) ==
    LET broken == {i \in DOMAIN lines : /\ \A k \in 1 .. i - 1 : Links(lines, k)
                                        /\ ~Links(lines, i)}
    IN IF broken = {} THEN 0 ELSE CHOOSE i \in broken : TRUE

(* The tail hash verification has computed for the archive at place i. *)
TailOf(i) ==
    LET before == FlattenSeq([k \in 1 .. i |-> archives[ArchiveOrder[k]]])
    IN IF before = <<>> THEN GENESIS_HASH ELSE Last(before).hash

NotesHold ==
    LET chain == Chain IN
    \A i \in DOMAIN chain :
        chain[i].kind = "rotation" =>
            \E a \in DOMAIN ArchiveOrder : /\ ArchiveOrder[a] = chain[i].path
                                           /\ TailOf(a) = chain[i].after

VerifyChain ==
    LET i == FirstBroken(Chain)
    IN CASE i = 0 /\ NotesHold  -> "verified"
         [] i = 0 /\ ~NotesHold -> "archive altered"
         [] OTHER -> IF /\ i = Len(Chain) /\ Chain[i] = Junk
                        /\ active # NoFile /\ ~active.newline
                     THEN "incomplete line" ELSE "broken"

-----------------------------------------------------------------------------
(* Writing them. *)

(* What a file holds after a line was appended to it: behind a line that    *)
(* has no newline, the new text continues that line and spoils it.         *)
Appended(file, line, newline) ==
    LET lines == LinesOf(file)
    IN IF lines # <<>> /\ ~file.newline
       THEN [lines |-> [lines EXCEPT ![Len(lines)] = Junk], newline |-> newline]
       ELSE [lines |-> Append(lines, line), newline |-> newline]

LineFinished(file) ==
    IF LinesOf(file) # <<>> /\ ~file.newline
    THEN [file EXCEPT !.newline = TRUE] ELSE Appended(file, Junk, TRUE)

Truncated(file, keep) == [lines |-> SubSeq(file.lines, 1, keep), newline |-> TRUE]

LastHash(lines) == IF EntryPlaces(lines) = {} THEN GENESIS_HASH ELSE LastEntry(lines).hash
HeadOf(lines) == IF EntryPlaces(lines) = {} THEN NoHead ELSE FirstEntry(lines).prev

(* A temporary archive that continues into an active file with that head.  *)
Linking(n, head) ==
    n # Active /\ head # NoHead /\ EntryPlaces(tmps[n]) # {} /\ LastHash(tmps[n]) = head

(* Everything the files still hold, a rotation that is half done included. *)
Pending ==
    LET linking == {n \in DOMAIN tmps : Linking(n, HeadOf(LinesOf(active)))}
    IN IF linking = {} THEN <<>> ELSE tmps[CHOOSE n \in linking : TRUE]
LogLines == Archived \o Pending \o LinesOf(active)
Log == EntriesOf(LogLines)

(* The log a new entry vouches for, and none when the two make no chain.    *)
Vouched(entry) == IF FirstBroken(Append(LogLines, entry)) = 0
                  THEN [i \in DOMAIN LogLines |-> LogLines[i].hash] ELSE NoLog
Remembered(entry) == Append(history, [entry |-> entry, log |-> Vouched(entry)])

(* writeEntry: the entry that continues what the window takes for the tail. *)
NewEntry(w, kind, path, after) ==
    [hash |-> Len(history) + 1, prev |-> st[w].hash, seq |-> st[w].seq + 1,
     kind |-> kind, path |-> path, after |-> after, intact |-> TRUE]

EntryToWrite(w) ==
    CASE pc[w] = "write"  -> NewEntry(w, "change", NoArchive, GENESIS_HASH)
      [] pc[w] = "repair" -> NewEntry(w, "repair", NoArchive, GENESIS_HASH)
      [] pc[w] = "note"   -> NewEntry(w, "rotation", job[w].stamp, LastHash(job[w].older))

WriteEntry(w) ==
    LET entry == EntryToWrite(w)
    IN /\ active' = Appended(active, entry, TRUE)
       /\ st' = [st EXCEPT ![w] = [seq |-> entry.seq, hash |-> entry.hash, lines |-> @.lines + 1,
                                   seen |-> Appended(@.seen, entry, TRUE)]]
       /\ history' = Remembered(entry)
       /\ recorded' = recorded \cup {entry.hash}
       /\ UNCHANGED <<archives, tmps, stamped, spent, unfinished>>

(* One more trouble of a kind is within the bounds.                         *)
Troubled(kind, max) ==
    spent[kind] < max /\ spent.stops + spent.faults + spent.edits + spent.overlaps < MaxMishaps

Goto(w, step) == pc' = [pc EXCEPT ![w] = step]
Return(w) == Goto(w, "idle") /\ job' = [job EXCEPT ![w] = NoJob]

-----------------------------------------------------------------------------
(* append: ensureLoaded. *)

Start(w) ==
    /\ pc[w] = "idle"
    /\ spent.appends < MaxAppends
    /\ IF \A v \in Writers : pc[v] = "idle"
       THEN spent' = [spent EXCEPT !.appends = @ + 1]
       ELSE /\ Troubled("overlaps", MaxOverlaps)
            /\ spent' = [spent EXCEPT !.appends = @ + 1, !.overlaps = @ + 1]
    /\ Goto(w, "stat")
    /\ UNCHANGED <<files, st, job, stamped, ghosts>>

UpToDate(w) == st[w] # NoState /\ st[w].seen = active

StatMissing(w) ==
    /\ pc[w] = "stat" /\ active = NoFile
    /\ st' = [st EXCEPT ![w] = Genesis]
    /\ job' = [job EXCEPT ![w].head = NoHead]
    /\ Goto(w, "readdir")
    /\ UNCHANGED <<files, stamped, ghosts, spent>>

StatKnown(w) ==
    /\ pc[w] = "stat" /\ active # NoFile /\ UpToDate(w)
    /\ Goto(w, "write")
    /\ UNCHANGED <<files, st, job, stamped, ghosts, spent>>

(* The stat and the read are one step: of a file that grows between them    *)
(* the window keeps a size that its next append finds to be wrong.         *)
StatAndRead(w) ==
    LET lines == active.lines
    IN /\ pc[w] = "stat" /\ active # NoFile /\ ~UpToDate(w)
       /\ st' = [st EXCEPT ![w] = [seq |-> IF EntryPlaces(lines) = {} THEN 0 ELSE LastEntry(lines).seq,
                                   hash |-> LastHash(lines),
                                   lines |-> Len(lines), seen |-> active]]
       /\ job' = [job EXCEPT ![w].head = HeadOf(lines)]
       /\ Goto(w, IF active.newline \/ lines = <<>> THEN "readdir"
                  ELSE IF Last(lines) = Junk THEN "trim" ELSE "finish line")
       /\ UNCHANGED <<files, stamped, ghosts, spent>>

(* The truncation keeps the length of what was good at the read, whatever   *)
(* came since: a file that has become shorter is filled up with junk.      *)
TrimTail(w) ==
    LET keep == st[w].lines - 1
    IN /\ pc[w] = "trim" /\ active # NoFile
       /\ active' = IF keep <= Len(active.lines) THEN Truncated(active, keep)
                    ELSE Appended(active, Junk, FALSE)
       /\ st' = [st EXCEPT ![w].lines = keep, ![w].seen = Truncated(@, keep)]
       /\ Goto(w, "repair")
       /\ UNCHANGED <<archives, tmps, job, stamped, ghosts, spent>>

Repair(w) ==
    /\ pc[w] = "repair"
    /\ WriteEntry(w)
    /\ Goto(w, "readdir")
    /\ UNCHANGED job

FinishLine(w) ==
    /\ pc[w] = "finish line"
    /\ active' = LineFinished(active)
    /\ st' = [st EXCEPT ![w].seen = LineFinished(@)]
    /\ Goto(w, "readdir")
    /\ UNCHANGED <<archives, tmps, job, stamped, ghosts, spent>>

(* recoverTmpArchives: finish or discard what a rotation has left behind.   *)
Readdir(w) ==
    /\ pc[w] = "readdir"
    /\ job' = [job EXCEPT ![w].todo = DOMAIN tmps]
    /\ Goto(w, IF DOMAIN tmps = {} THEN "write" ELSE "recover")
    /\ UNCHANGED <<files, st, stamped, ghosts, spent>>

Recovered(w, n) ==
    /\ pc[w] = "recover" /\ n \in job[w].todo
    /\ job' = [job EXCEPT ![w].todo = @ \ {n}]
    /\ Goto(w, IF job[w].todo = {n} THEN "write" ELSE "recover")
    /\ UNCHANGED <<active, st, stamped, history, recorded>>

Removed(f, n) == [x \in DOMAIN f \ {n} |-> f[x]]
With(f, n, value) == [x \in DOMAIN f \cup {n} |-> IF x = n THEN value ELSE f[x]]

\* Fault: an unfinished rotation is discarded like any other leftover.
DiscardRotation(w, n) ==
    /\ Recovered(w, n)
    /\ n \in DOMAIN tmps
    /\ tmps' = Removed(tmps, n)
    /\ UNCHANGED <<archives, spent, unfinished>>
CompleteRotation(w, n) ==
    /\ Recovered(w, n)
    /\ n \in DOMAIN tmps /\ Linking(n, job[w].head)
    /\ archives' = With(archives, n, tmps[n])
    /\ tmps' = Removed(tmps, n)
    /\ UNCHANGED <<spent, unfinished>>

Discard(w, n) ==
    /\ Recovered(w, n)
    /\ n \in DOMAIN tmps => ~Linking(n, job[w].head)
    /\ tmps' = Removed(tmps, n)
    /\ UNCHANGED <<archives, spent, unfinished>>

(* A file that cannot be cleaned up is only logged. *)
RecoveryFails(w, n) ==
    /\ Recovered(w, n)
    /\ Troubled("faults", MaxFaults)
    /\ spent' = [spent EXCEPT !.faults = @ + 1]
    /\ unfinished' = TRUE
    /\ UNCHANGED <<archives, tmps>>

-----------------------------------------------------------------------------
(* append: writeEntry and rotateIfNeeded. *)

WriteChange(w) ==
    /\ pc[w] = "write"
    /\ WriteEntry(w)
    /\ IF st'[w].lines > MaxEntries THEN Goto(w, "rotate") /\ UNCHANGED job ELSE Return(w)

\* Fault: the line at the cut goes into neither half.
RotateDropsOne(w) ==
    LET half == Len(active.lines) \div 2
    IN /\ pc[w] = "rotate" /\ active # NoFile
       /\ job' = [job EXCEPT ![w].older = SubSeq(active.lines, 1, half),
                            ![w].newer = SubSeq(active.lines, half + 2, Len(active.lines)),
                            ![w].stamp = stamped + 1]
       /\ stamped' = stamped + 1
       /\ Goto(w, "write archive")
       /\ UNCHANGED <<files, st, ghosts, spent>>
Rotate(w) ==
    LET half == Len(active.lines) \div 2
    IN /\ pc[w] = "rotate" /\ active # NoFile
       /\ IF half < 1 THEN Return(w) /\ UNCHANGED stamped
          ELSE /\ job' = [job EXCEPT ![w].older = SubSeq(active.lines, 1, half),
                                     ![w].newer = SubSeq(active.lines, half + 1, Len(active.lines)),
                                     ![w].stamp = stamped + 1]
               /\ stamped' = stamped + 1
               /\ Goto(w, "write archive")
       /\ UNCHANGED <<files, st, ghosts, spent>>

WriteTmp(w, step, name, lines, next) ==
    /\ pc[w] = step
    /\ tmps' = With(tmps, name, lines)
    /\ Goto(w, next)
    /\ UNCHANGED <<active, archives, st, job, stamped, ghosts, spent>>
WriteArchive(w) == WriteTmp(w, "write archive", job[w].stamp, job[w].older, "write active")
WriteActive(w) == WriteTmp(w, "write active", Active, job[w].newer, "swap")

Swap(w) ==
    /\ pc[w] = "swap" /\ Active \in DOMAIN tmps
    /\ active' = [lines |-> tmps[Active], newline |-> TRUE]
    /\ tmps' = Removed(tmps, Active)
    /\ Goto(w, "commit")
    /\ UNCHANGED <<archives, st, job, stamped, ghosts, spent>>

Commit(w) ==
    LET stamp == job[w].stamp
    IN /\ pc[w] = "commit" /\ stamp \in DOMAIN tmps
       /\ archives' = With(archives, stamp, tmps[stamp])
       /\ tmps' = Removed(tmps, stamp)
       /\ st' = [st EXCEPT ![w].lines = Len(job[w].newer),
                           ![w].seen = [lines |-> job[w].newer, newline |-> TRUE]]
       /\ Goto(w, "note")
       /\ UNCHANGED <<active, job, stamped, ghosts, spent>>

NoteRotation(w) ==
    /\ pc[w] = "note"
    /\ WriteEntry(w)
    /\ Return(w)

-----------------------------------------------------------------------------
(* What stops an append half way. *)

TornEntry(w) ==
    LET entry == EntryToWrite(w)
    IN /\ \/ active' = IF active = NoFile THEN EmptyText ELSE active
          \/ active' = Appended(active, Junk, FALSE)
          \/ \E newline \in BOOLEAN : active' = Appended(active, entry, newline)
       /\ history' = IF Last(<<Junk>> \o active'.lines) = entry
                     THEN Remembered(entry) ELSE history
       /\ UNCHANGED <<archives, tmps>>

TornTmp(name, lines) ==
    /\ \E k \in 0 .. Len(lines) : tmps' = With(tmps, name, SubSeq(lines, 1, k))
    /\ UNCHANGED <<active, archives, history>>

(* What the call a window is in has done when it does not complete: part of *)
(* a write; of a rename, nothing.                                          *)
BrokenOff(w) ==
    \/ UNCHANGED <<files, history>>
    \/ pc[w] \in {"write", "repair", "note"} /\ TornEntry(w)
    \/ pc[w] = "write archive" /\ TornTmp(job[w].stamp, job[w].older)
    \/ pc[w] = "write active" /\ TornTmp(Active, job[w].newer)

Forget(w) ==
    /\ st' = [st EXCEPT ![w] = NoState]
    /\ Return(w)
    /\ UNCHANGED <<stamped, recorded, unfinished>>

(* The process dies, or the window is closed; the next one starts anew.     *)
Stop(w) ==
    /\ Troubled("stops", MaxStops)
    /\ pc[w] # "idle" \/ st[w] # NoState
    /\ spent' = [spent EXCEPT !.stops = @ + 1]
    /\ BrokenOff(w)
    /\ Forget(w)

(* A call fails: append and rotateIfNeeded drop the state they trusted.     *)
CallFails(w) ==
    /\ pc[w] \notin {"idle", "readdir", "recover"}
    /\ Troubled("faults", MaxFaults)
    /\ spent' = [spent EXCEPT !.faults = @ + 1]
    /\ BrokenOff(w)
    /\ Forget(w)

(* A file is not where this window has left it.                            *)
FileGone(w) ==
    /\ \/ pc[w] \in {"trim", "rotate"} /\ active = NoFile
       \/ pc[w] = "swap" /\ Active \notin DOMAIN tmps
       \/ pc[w] = "commit" /\ job[w].stamp \notin DOMAIN tmps
    /\ Forget(w)
    /\ UNCHANGED <<files, history, spent>>

-----------------------------------------------------------------------------
(* What people and other programs do to the files (external). *)

Closed == \A w \in Writers : pc[w] = "idle" /\ st[w] = NoState

(* A line is changed (its hash stays), spoilt, taken out or exchanged with  *)
(* the one after it.                                                       *)
Revisions(lines) ==
    LET At == DOMAIN lines IN
    {[kind |-> "alter", lines |-> [lines EXCEPT ![i] = [lines[i] EXCEPT !.intact = FALSE]]] :
        i \in {i \in At : lines[i] # Junk}}
    \cup {[kind |-> "damage", lines |-> [lines EXCEPT ![i] = Junk]] : i \in At}
    \cup {[kind |-> "remove", lines |-> RemoveAt(lines, i)] : i \in At}
    \cup {[kind |-> "reorder", lines |-> [lines EXCEPT ![i] = lines[i + 1], ![i + 1] = lines[i]]] :
            i \in At \ {Len(lines)}}

Edited(kind) ==
    /\ kind \in Edits
    /\ Troubled("edits", MaxChanges)
    /\ spent' = [spent EXCEPT !.edits = @ + 1]
    /\ UNCHANGED <<tmps, st, pc, job, stamped, ghosts>>

EditJournal ==
    /\ active # NoFile /\ active.newline
    /\ \E r \in Revisions(active.lines) :
          Edited(r.kind) /\ active' = [active EXCEPT !.lines = r.lines]
    /\ UNCHANGED archives

EditArchive ==
    /\ \E n \in DOMAIN archives : \E r \in Revisions(archives[n]) :
          Edited(r.kind) /\ archives' = [archives EXCEPT ![n] = r.lines]
    /\ UNCHANGED active

(* Docs/runbooks/5: "rename the damaged journal.jsonl while VS Code is      *)
(* closed".                                                                *)
SetAside == Closed /\ Edited("set aside") /\ active' = NoFile /\ UNCHANGED archives

DeleteJournal == Edited("delete") /\ active' = NoFile /\ UNCHANGED archives

LoseArchive ==
    /\ \E n \in DOMAIN archives : archives' = Removed(archives, n)
    /\ Edited("lose archive")
    /\ UNCHANGED active

-----------------------------------------------------------------------------
JournalInit ==
    /\ active = NoFile
    /\ archives = <<>> /\ tmps = <<>>
    /\ st = [w \in Writers |-> NoState]
    /\ pc = [w \in Writers |-> "idle"]
    /\ job = [w \in Writers |-> NoJob]
    /\ stamped = 0
    /\ history = <<>> /\ recorded = {}
    /\ spent = [appends |-> 0, stops |-> 0, faults |-> 0, edits |-> 0, overlaps |-> 0]
    /\ unfinished = FALSE

EnsureLoaded(w) == StatMissing(w) \/ StatKnown(w) \/ StatAndRead(w) \/ TrimTail(w) \/ Repair(w) \/ FinishLine(w)
Recover(w) == Readdir(w) \/ \E n \in job[w].todo :
                 CompleteRotation(w, n) \/ Discard(w, n) \/ RecoveryFails(w, n)
Rotation(w) == Rotate(w) \/ WriteArchive(w) \/ WriteActive(w) \/ Swap(w) \/ Commit(w) \/ NoteRotation(w)
HandEdit == EditJournal \/ EditArchive \/ (active # NoFile /\ (SetAside \/ DeleteJournal)) \/ LoseArchive

JournalNext ==
    \/ \E w \in Writers : \/ Start(w) \/ EnsureLoaded(w) \/ Recover(w) \/ WriteChange(w) \/ Rotation(w)
                          \/ Stop(w) \/ CallFails(w) \/ FileGone(w)
    \/ HandEdit

JournalSpec == JournalInit /\ [][JournalNext]_journalVars

=============================================================================
