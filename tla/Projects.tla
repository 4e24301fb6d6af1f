------------------------------ MODULE Projects ------------------------------
(***************************************************************************)
(* The permission of each project (core/projectConsent.ts,                 *)
(* twin/projectPermission.ts) and what follows it: twins that open beside  *)
(* the code (twin/autoOpen.ts), the sections in the assistants'            *)
(* instruction files (src/instructions) and the repository's local exclude *)
(* list (core/gitExclude.ts).  One window, folders of one repository.      *)
(*                                                                         *)
(* An instruction file is a sequence of lines: the person's "text", the    *)
(* two markers, and what is between them, "body" or that of an older       *)
(* version.  The exclude list is the set of its lines; the pattern of a    *)
(* file is the file itself.                                                *)
(***************************************************************************)
EXTENDS Naturals, Sequences, FiniteSets, SequencesExt

CONSTANTS Order,          \* the workspace folders
          Files,          \* their code files, in the order of their paths
          FolderOf,       \* the folder each is in
          Notes,          \* its instruction files, in the order of the assistants
          FirstNotes,     \* what they hold at first
          TwinPattern, OwnLines,
          Jobs,           \* how many ensure() calls may be under way at once
          None, MaxEvents

Folders == Range(Order)
AllNotes == UNION {Range(Notes[f]) : f \in Folders}

ASSUME ProjectsAssumption ==
  /\ IsInjective(Order)
  /\ FolderOf \in [Range(Files) -> Folders]
  /\ TwinPattern \notin AllNotes
  /\ OwnLines \cap AllNotes = {}

\* The kinds of lines of an instruction file.
Lines == {"text", "start", "body", "older", "end"}

\* One instruction file for each assistant in each folder.
Tasks == Folders \cup AllNotes \cup {TwinPattern}
JobStates == [todo : Seq(Tasks), at : {"next", "read", "open", "fill"},
              held : SUBSET (Tasks \cup OwnLines), startup : BOOLEAN]
ASSUME ListsAssumption ==
  /\ Order \in Seq(Folders)
  /\ Notes \in [Folders -> Seq(AllNotes)]
  /\ \A f, g \in Folders : Len(Notes[f]) = Len(Notes[g])
  /\ None \notin Seq(Lines) /\ None \notin JobStates

\* A complete section between `s' and `e', with none of the person's text in it.
SectionAt(lines, s, e) ==
  /\ s < e /\ lines[s] = "start" /\ lines[e] = "end"
  /\ \A i \in 1..(s - 1) : lines[i] # "start"
  /\ \A i \in (s + 1)..(e - 1) : lines[i] \notin {"end", "text"}

\* A file without a stray start marker (upsertSection would take what follows one
\* for its section): no marker at all, or a section first.
WellMarked(lines) ==
  /\ lines \in Seq(Lines)
  /\ \/ \A i \in DOMAIN lines : lines[i] # "start"
     \/ \E s, e \in DOMAIN lines : SectionAt(lines, s, e)
ASSUME NotesAssumption ==
  /\ FirstNotes \in [AllNotes -> {None} \cup Seq(Lines)]
  /\ \A n \in AllNotes : FirstNotes[n] # None => WellMarked(FirstNotes[n])

VARIABLES decision,        \* state.json: what the person decided for each folder
          question,        \* the folders whose question is on the screen
          cool,            \* those asked less than five minutes ago
          waits,           \* code files whose opening waits for an answer
          opening, twins,  \* twins about to be written, and those explained in full
          notes, exclude,  \* instruction files, .git/info/exclude
          jobs,            \* ensure() and ensureGitExclude() calls under way
          listening,       \* the listener of extension.ts is registered
          team, texts,     \* the files of the person's own, their lines in each
          unread,          \* those written over because they could not be read
          disturbed,       \* the exclude list was written by two at once, or half
          emptied,         \* somebody took it for empty, or left it empty
          events

perm == <<decision, question, cool, waits, opening>>
paper == <<notes, exclude, jobs, listening, team, texts, unread, disturbed, emptied>>
projectVars == <<perm, twins, paper, events>>

Room == events < MaxEvents
Event == Room /\ events' = events + 1

-----------------------------------------------------------------------------
(* upsertSection (instructions/pure/sections.ts).                          *)

Section == <<"start", "body", "end">>
First(lines, mark, from) == SelectInSubSeq(lines, from, Len(lines), LAMBDA l : l = mark)

\* Fault: everything after the first marker is the section.
UpsertedToTheEnd(lines) ==
  LET start == First(lines, "start", 1)
  IN IF lines = None THEN Section
     ELSE IF start # 0 THEN SubSeq(lines, 1, start - 1) \o Section ELSE lines \o Section

\* A complete section is replaced where it stands; else one is appended.
Upserted(lines) ==
  IF lines = None \/ lines = <<>> THEN Section
  ELSE LET start == First(lines, "start", 1)
           end == IF start = 0 THEN 0 ELSE First(lines, "end", start + 1)
       IN IF end # 0 THEN SubSeq(lines, 1, start - 1) \o Section \o SubSeq(lines, end + 1, Len(lines))
          ELSE lines \o Section

TextIn(lines) ==
  IF lines = None THEN 0 ELSE Cardinality({i \in DOMAIN lines : lines[i] = "text"})

-----------------------------------------------------------------------------
(* Preparing folders: ensure() and ensureGitExclude(), one await at a time.*)

Job(todo) == [todo |-> todo, at |-> "next", held |-> {}, startup |-> FALSE]
PrepareFolder(f) == Append(Notes[f], TwinPattern)
Free == {j \in Jobs : jobs[j] = None}
StartJob(job) == jobs' = [jobs EXCEPT ![CHOOSE j \in Free : TRUE] = job]

At(j, at) == IF jobs[j] = None THEN FALSE ELSE jobs[j].at = at
Task(j) == Head(jobs[j].todo)
Enter(j, at) == jobs' = [jobs EXCEPT ![j].at = at]
EndTask(j) ==
  jobs' = [jobs EXCEPT ![j].todo = Tail(@), ![j].at = "next", ![j].held = {}]

EndJob(j) ==
  /\ At(j, "next") /\ jobs[j].todo = <<>>
  /\ jobs' = [jobs EXCEPT ![j] = None]
  /\ listening' = (listening \/ jobs[j].startup)
  /\ UNCHANGED <<perm, twins, notes, exclude, team, texts, unread, disturbed, emptied, events>>

\* At startup a folder's permission is looked up when its turn comes.
ExpandFolder(j) ==
  /\ At(j, "next") /\ jobs[j].todo # <<>> /\ Task(j) \in Folders
  /\ LET f == Task(j) IN
     jobs' = [jobs EXCEPT ![j].todo = (IF decision[f] = "allowed" THEN PrepareFolder(f) ELSE <<>>) \o Tail(@)]
  /\ UNCHANGED <<perm, twins, notes, exclude, listening, team, texts, unread, disturbed, emptied, events>>

\* Fault: the file is looked for after it was written.
CreatesNever(n) == FALSE
\* Only files ExplainIT brought into existence are excluded.
Creates(n) == notes[n] = None

EnsureNote(j) ==
  /\ At(j, "next") /\ jobs[j].todo # <<>> /\ Task(j) \in AllNotes
  /\ LET n == Task(j) IN
     IF Upserted(notes[n]) = notes[n]
     THEN EndTask(j) /\ UNCHANGED <<notes, team>>
     ELSE /\ notes' = [notes EXCEPT ![n] = Upserted(@)]
          /\ team' = IF notes[n] = None THEN team \ {n} ELSE team
          /\ IF Creates(n) THEN Enter(j, "read") ELSE EndTask(j)
  /\ UNCHANGED <<perm, twins, exclude, listening, texts, unread, disturbed, emptied, events>>

\* A file that is there but cannot be read counts as missing: the section alone
\* takes its place, and its name goes to the exclude list.
NoteUnread(j) ==
  /\ At(j, "next") /\ jobs[j].todo # <<>> /\ Task(j) \in AllNotes
  /\ LET n == Task(j) IN
     /\ notes[n] # None
     /\ notes' = [notes EXCEPT ![n] = Upserted(None)]
     /\ team' = team \ {n} /\ unread' = unread \cup {n}
  /\ Enter(j, "read")
  /\ Event
  /\ UNCHANGED <<perm, twins, exclude, listening, texts, disturbed, emptied>>

\* The file cannot be written.  ensure() goes on with its other files and throws
\* at the end: no pattern, no other folder and, at startup, no listener.
OtherNotes(todo) ==
  LET pattern == SelectInSeq(todo, LAMBDA task : task = TwinPattern)
  IN IF pattern = 0 THEN Tail(todo) ELSE SubSeq(todo, 2, pattern - 1)
NoteFails(j) ==
  /\ At(j, "next") /\ jobs[j].todo # <<>> /\ Task(j) \in AllNotes
  /\ jobs' = [jobs EXCEPT ![j].todo = OtherNotes(@), ![j].startup = FALSE]
  /\ Event
  /\ UNCHANGED <<perm, twins, notes, exclude, listening, team, texts, unread, disturbed, emptied>>

EnsureGitExclude(j) ==
  /\ At(j, "next") /\ jobs[j].todo # <<>> /\ Task(j) = TwinPattern
  /\ Enter(j, "read")
  /\ UNCHANGED <<perm, twins, notes, exclude, listening, team, texts, unread, disturbed, emptied, events>>

\* ensureExcludePattern: read, and if the line is missing write it all back;
\* the file is empty between the two halves of the write.
ReadExclude(j) ==
  /\ At(j, "read")
  /\ IF Task(j) \in exclude THEN EndTask(j)
     ELSE jobs' = [jobs EXCEPT ![j].at = "open", ![j].held = exclude]
  /\ emptied' = (emptied \/ (exclude = {} /\ \E k \in Jobs : At(k, "fill")))
  /\ UNCHANGED <<perm, twins, notes, exclude, listening, team, texts, unread, disturbed, events>>
\* A list that cannot be read counts as an empty one.
ReadExcludeFails(j) ==
  /\ At(j, "read")
  /\ jobs' = [jobs EXCEPT ![j].at = "open", ![j].held = {}]
  /\ emptied' = TRUE
  /\ Event
  /\ UNCHANGED <<perm, twins, notes, exclude, listening, team, texts, unread, disturbed>>
OpenExclude(j) ==
  /\ At(j, "open")
  /\ exclude' = {}
  /\ disturbed' = (disturbed \/ exclude # jobs[j].held)
  /\ Enter(j, "fill")
  /\ UNCHANGED <<perm, twins, notes, listening, team, texts, unread, emptied, events>>
FillExclude(j) ==
  /\ At(j, "fill")
  /\ exclude' = jobs[j].held \cup {Task(j)}
  /\ disturbed' = (disturbed \/ exclude # {})
  /\ EndTask(j)
  /\ UNCHANGED <<perm, twins, notes, listening, team, texts, unread, emptied, events>>

\* No repository is found, or the list cannot be written, at all or once it is
\* empty: the failure is logged, and that is all.
Rewriting(j) == At(j, "read") \/ At(j, "open") \/ At(j, "fill")
ExcludeFails(j) ==
  /\ Rewriting(j)
  /\ EndTask(j)
  /\ disturbed' = TRUE
  /\ emptied' = (emptied \/ At(j, "fill"))
  /\ Event
  /\ UNCHANGED <<perm, twins, notes, exclude, listening, team, texts, unread>>

Prepares(j) ==
  \/ EndJob(j) \/ ExpandFolder(j) \/ EnsureNote(j) \/ EnsureGitExclude(j)
  \/ ReadExclude(j) \/ OpenExclude(j) \/ FillExclude(j)

\* Connecting an assistant writes its file in every folder of the workspace.
ConnectAssistant ==
  /\ Free # {}
  /\ \E i \in DOMAIN Notes[Order[1]] :
       StartJob(Job([k \in DOMAIN Order |-> Notes[Order[k]][i]]))
  /\ Event
  /\ UNCHANGED <<perm, twins, notes, exclude, listening, team, texts, unread, disturbed, emptied>>

\* In the list, or about to be.
Hidden(n) ==
  \/ n \in exclude
  \/ \E j \in Jobs : Rewriting(j) /\ (n = Task(j) \/ n \in jobs[j].held)

\* The person writes a line before or after the section, or takes the file away.
\* A new file where a pattern is listed or on its way is hidden, whoever wrote it:
\* whether one is ExplainIT's own is decided at the read.  `team' leaves it out.
WriteNote(n) ==
  /\ \E lines \in IF notes[n] = None THEN {<<"text">>}
                  ELSE {<<"text">> \o notes[n], Append(notes[n], "text")} :
       notes' = [notes EXCEPT ![n] = lines]
  /\ team' = IF Hidden(n) \/ notes[n] # None THEN team ELSE team \cup {n}
  /\ texts' = [texts EXCEPT ![n] = @ + 1]
  /\ Event
  /\ UNCHANGED <<perm, twins, exclude, jobs, listening, unread, disturbed, emptied>>
DeleteNote(n) ==
  /\ notes[n] # None
  /\ notes' = [notes EXCEPT ![n] = None]
  /\ team' = team \ {n} /\ unread' = unread \ {n}
  /\ texts' = [texts EXCEPT ![n] = 0]
  /\ Event
  /\ UNCHANGED <<perm, twins, exclude, jobs, listening, disturbed, emptied>>

-----------------------------------------------------------------------------
(* The permission.                                                         *)

\* projectConsent.set(): whoever listens prepares an allowed folder.
Set(f, d) ==
  /\ decision' = [decision EXCEPT ![f] = d]
  /\ cool' = cool \ {f}
  /\ IF d = "allowed" /\ listening
     THEN Free # {} /\ StartJob(Job(PrepareFolder(f)))
     ELSE UNCHANGED jobs
  /\ UNCHANGED <<twins, notes, exclude, listening, team, texts, unread, disturbed, emptied>>

\* ask(): one question at a time for a folder; a second caller waits with the first.
Ask(f) == question' = question \cup {f} /\ cool' = cool \cup {f}

\* autoOpen: a code file is shown.
Open(file) ==
  LET f == FolderOf[file] IN
  /\ file \notin twins \cup opening \cup waits
  /\ \/ /\ decision[f] = "allowed"
        /\ opening' = opening \cup {file}
        /\ UNCHANGED <<question, cool, waits>>
     \/ /\ decision[f] = "unknown"
        /\ f \in cool => f \in question
        /\ IF f \in question THEN UNCHANGED <<question, cool>> ELSE Ask(f)
        /\ waits' = waits \cup {file}
        /\ UNCHANGED opening
  /\ Event
  /\ UNCHANGED <<decision, twins, paper>>

Waiting(f) == {file \in waits : FolderOf[file] = f}
Answer(f, d) ==
  /\ f \in question
  /\ question' = question \ {f}
  /\ waits' = waits \ Waiting(f)
  /\ opening' = IF d = "allowed" THEN opening \cup Waiting(f) ELSE opening
  /\ IF d = "unknown" THEN UNCHANGED <<decision, cool, twins, paper>> ELSE Set(f, d)
  /\ UNCHANGED events

\* ensureTwin asks for the permission once more, then writes.
EnsureTwin(file) ==
  /\ file \in opening
  /\ opening' = opening \ {file}
  /\ twins' = IF decision[FolderOf[file]] = "allowed" THEN twins \cup {file} ELSE twins
  /\ UNCHANGED <<decision, question, cool, waits, paper, events>>

CooldownOver(f) ==
  /\ f \in cool \ question
  /\ cool' = cool \ {f}
  /\ UNCHANGED <<decision, question, waits, opening, twins, paper, events>>

\* "Allow or stop explanations for this project"
ChangePermission(f) ==
  /\ \E d \in {"allowed", "denied"} \ {decision[f]} : Set(f, d)
  /\ Event
  /\ UNCHANGED <<question, waits, opening>>

-----------------------------------------------------------------------------

StartupJob == [Job(Order) EXCEPT !.startup = TRUE]
StartingJobs == [j \in Jobs |-> IF j = CHOOSE k \in Jobs : TRUE THEN StartupJob ELSE None]
ProjectsInit ==
  /\ decision = [f \in Folders |-> "unknown"]
  /\ question = {} /\ cool = {} /\ waits = {} /\ opening = {}
  /\ twins = {}
  /\ notes = FirstNotes /\ exclude = OwnLines
  /\ jobs = StartingJobs /\ listening = FALSE
  /\ team = {n \in AllNotes : FirstNotes[n] # None}
  /\ texts = [n \in AllNotes |-> TextIn(FirstNotes[n])]
  /\ unread = {} /\ disturbed = FALSE /\ emptied = FALSE
  /\ events = 0

\* The window closes, or dies, and another opens: what was being written is not.
RestartProjects ==
  /\ question' = {} /\ cool' = {} /\ waits' = {} /\ opening' = {}
  /\ jobs' = StartingJobs /\ listening' = FALSE
  /\ disturbed' = (disturbed \/ \E j \in Jobs : Rewriting(j))
  /\ emptied' = (emptied \/ \E j \in Jobs : At(j, "fill"))
  /\ UNCHANGED <<decision, twins, notes, exclude, team, texts, unread>>

ProjectsNext ==
  \/ \E j \in Jobs :
       Prepares(j) \/ NoteUnread(j) \/ NoteFails(j) \/ ReadExcludeFails(j) \/ ExcludeFails(j)
  \/ ConnectAssistant
  \/ \E n \in AllNotes : WriteNote(n) \/ DeleteNote(n)
  \/ \E f \in Folders : CooldownOver(f) \/ ChangePermission(f)
  \/ \E file \in Range(Files) : Open(file) \/ EnsureTwin(file)

-----------------------------------------------------------------------------

\* instructions/index.ts:3, "never touches the person's own text", and :7, "files
\* that already existed belong to the team and their git status is never
\* touched": through updates, edits, crashes and calls at the same time the
\* person's lines stay, and no file that was the person's when ExplainIT looked is
\* hidden from git, but for a file that could not be read.
PersonsFilesStay ==
  \A n \in AllNotes \ unread :
    /\ TextIn(notes[n]) = texts[n]
    /\ n \in team => n \notin exclude

\* instructions/index.ts:6, "files that ExplainIT creates are kept out of git":
\* once every call is over, the person's own lines are in the list, though writes
\* crossed, unless somebody took it for empty: at a failed read, or at one between
\* the two halves of a write; or a failure or a crash between them left it empty.
\* And each file that was created is in it, unless writes crossed, or a read, a
\* write or the window failed.
ExcludeIsWhole ==
  (\A j \in Jobs : jobs[j] = None) =>
    /\ ~emptied => OwnLines \subseteq exclude
    /\ ~disturbed => \A n \in AllNotes : notes[n] # None /\ n \notin team => n \in exclude
=============================================================================
