------------------------------- MODULE Arming -------------------------------
(***************************************************************************)
(* How the checkpoint hook gets, stays and stops being installed: the      *)
(* adapters for Claude Code and Codex (src/adapters), the session-start    *)
(* pass of extension.ts and the commands that call them.                   *)
(*                                                                         *)
(* Every window works on the same files: the hook script, the wrapper that *)
(* starts it, one file of hooks for each assistant, which the person and   *)
(* other tools edit too, and state.json.  The code between two awaits runs *)
(* to its end in its own window, but other windows run between any two of  *)
(* its file-system calls, and each of them may be its last.                *)
(*                                                                         *)
(* A hooks file is a sequence of groups, a group a sequence of handlers;   *)
(* of the two events (before and after a tool runs) one is modelled, as    *)
(* the code treats both alike.  A file is equal to another if its hash is. *)
(***************************************************************************)
EXTENDS Integers, Sequences, FiniteSets, SequencesExt, Selections

CONSTANTS Windows,
          Version,           \* the hook script each window ships
          Runtime,           \* the Node each window finds, which its wrapper starts
          Claude, Codex,
          Watchdogs,         \* the values of the setting in the hook's command
          FirstWatchdog,
          Persons,           \* handlers of the person's own
          FirstHooks,        \* the hooks files at first
          None, Torn,        \* no file; half a file, or one that does not parse
          Foreign,           \* a file that somebody has changed or removed
          MaxStarts, MaxEvents  \* bounds of the model

Agents == {Claude, Codex}

ASSUME ArmingAssumption ==
  /\ Version \in [Windows -> STRING] /\ Runtime \in [Windows -> STRING]
  /\ Claude # Codex
  /\ Watchdogs \cap Persons = {}
  /\ DOMAIN FirstHooks = Agents
  /\ MaxStarts \in Nat /\ MaxEvents \in Nat

\* A hooks file: whether it parses, and its groups of handlers.
HookFiles == [ok: BOOLEAN, groups: Seq(Seq([ours: BOOLEAN, command: Watchdogs \cup Persons]))]

ASSUME HooksAssumption ==
  /\ FirstWatchdog \in Watchdogs
  /\ FirstHooks \in [Agents -> {None} \cup HookFiles]
  /\ None \notin HookFiles
  /\ \A w \in Windows : None # [script |-> Version[w], wrapper |-> Runtime[w]]

VARIABLES script, wrapper,   \* what <home>/hooks holds
          hooks,             \* the hooks file of each assistant
          unreadable,        \* the assistants whose hooks file windows cannot read
          trust,             \* the handlers Codex trusts, by their place (config.toml)
          state,             \* state.json
          watchdog,          \* the setting
          win,               \* what each window is at, None when it is closed
          theirs,            \* the person's own handlers, in the order they put them
          raced,             \* somebody wrote a hooks file while a window held it
          lost,              \* the assistants whose hooks file was written over unread,
                             \* and not edited since
          vouched,           \* the person trusts the hook as it stands, at the end of the
                             \* file (see TrustOutlivesUpdates)
          quiet,             \* the windows nothing has disturbed since they started
          starts, events

files == <<script, wrapper, hooks, unreadable, state>>
person == <<trust, watchdog, theirs, vouched>>
mishaps == <<raced, lost>>
bounds == <<starts, events>>
vars == <<files, person, win, mishaps, quiet, bounds>>

-----------------------------------------------------------------------------
(* The hooks file (pure/hookConfig.ts).                                    *)

Handler(ours, command) == [ours |-> ours, command |-> command]
Our(command) == Handler(TRUE, command)

\* What upsertConfigFile and its fellows read: a missing file is an empty one.
Groups(file) == IF file = None THEN <<>> ELSE file.groups
\* readText: one that cannot be read counts as a missing one, too.
Seen(a) == IF a \in unreadable THEN None ELSE hooks[a]
Parses(file) == file # None => file.ok
Places(groups) == UNION {{i} \X DOMAIN groups[i] : i \in DOMAIN groups}
At(groups, place) == groups[place[1]][place[2]]

\* findOurEntries
OurPlaces(groups) == {place \in Places(groups) : At(groups, place).ours}
HasOurs(file) == file # None /\ Parses(file) /\ OurPlaces(Groups(file)) # {}

\* Where a group holds handlers that are not ours.
Others(group) == {i \in DOMAIN group : ~group[i].ours}

\* Fault: a group that holds one of ours goes as a whole.
WithoutOurGroups(groups) ==
  Only(groups, {i \in DOMAIN groups : Others(groups[i]) = DOMAIN groups[i]})

\* removeOurEntries: a group goes only if nothing else was in it.
WithoutOurs(groups) ==
  Only([i \in DOMAIN groups |-> Only(groups[i], Others(groups[i]))],
       {i \in DOMAIN groups : groups[i] = <<>> \/ Others(groups[i]) # {}})

\* Fault: a new entry goes in front of the person's.
UpsertedFirst(groups, command) == <<<<Our(command)>>>> \o WithoutOurs(groups)

\* upsertOurEntries: ours come after the person's own groups.
Upserted(groups, command) == Append(WithoutOurs(groups), <<Our(command)>>)

\* entriesMatch: exactly the entry expected, nothing extra of ours.
EntriesMatch(groups, command) ==
  \E place \in Places(groups) :
    OurPlaces(groups) = {place} /\ At(groups, place) = Our(command)

Before(p, q) == p[1] < q[1] \/ (p[1] = q[1] /\ p[2] < q[2])

\* The person's handlers, in their order.
TheirPlaces(groups) == Places(groups) \ OurPlaces(groups)
NthPlace(P, k) == CHOOSE p \in P : Cardinality({q \in P : Before(q, p)}) = k - 1
Theirs(groups) ==
  [k \in 1..Cardinality(TheirPlaces(groups)) |-> At(groups, NthPlace(TheirPlaces(groups), k))]

\* trustStatus, for the first of our entries.
TrustsOurs(groups) ==
  \E place \in OurPlaces(groups) :
    /\ \A other \in OurPlaces(groups) : other = place \/ Before(place, other)
    /\ place \in DOMAIN trust /\ trust[place] = At(groups, place)

-----------------------------------------------------------------------------
(* state.json (core/state.ts) and the integrity checks.                    *)

Fresh == [consent |-> FALSE, onboarded |-> FALSE, record |-> [a \in Agents |-> None]]
\* read(): a file that does not parse counts as none.
Read == IF state = Torn THEN Fresh ELSE state

InstalledIn(s, a) == s.record[a] # None \/ HasOurs(Seen(a))
IsInstalled(a) == InstalledIn(Read, a)

\* Fault: a script is fine if it is the one recorded.
FileFailsAsRecorded(w, r) == script # r.script \/ wrapper # r.wrapper

\* fileChecks: changed since it was recorded, or an update ships another.
FileFails(w, r) == script # r.script \/ script # Version[w] \/ wrapper # r.wrapper

\* The checks of verify() that writing everything again would mend.
FixableFails(w, a) ==
  LET r == Read.record[a]
  IN IF r = None THEN HasOurs(Seen(a))
     ELSE \/ FileFails(w, r)
          \/ Seen(a) = None
          \/ Parses(Seen(a)) /\ ~EntriesMatch(Groups(Seen(a)), watchdog)

\* Those that only the person can mend: a file that is not JSON, Codex's trust.
OtherFails(a) ==
  /\ Read.record[a] # None
  /\ \/ ~Parses(Seen(a))
     \/ a = Codex /\ ~TrustsOurs(Groups(Seen(a)))

VerifyIntegrity(w) == \A a \in Agents : ~FixableFails(w, a) /\ ~OtherFails(a)
IsArmed(w, a) == IsInstalled(a) /\ ~FixableFails(w, a)

-----------------------------------------------------------------------------
(* What a window is at: the tasks it still has to do, the stage of the     *)
(* first one, and what that stage has read.                                *)

Task(do, a) == [do |-> do, agent |-> a]
Each(do) == <<Task(do, Claude), Task(do, Codex)>>
Startup == <<Task("check", None), Task("ensure", None), Task("greet", None)>>
Window(todo) == [todo |-> todo, at |-> "idle", held |-> None]

Up(w) == win[w] # None
AtRest(w) == IF Up(w) THEN win[w].at = "idle" ELSE FALSE
Now(w) == Head(win[w].todo)
AllSet(w) == AtRest(w) /\ win[w].todo = <<>>
Turn(w, do) == /\ AtRest(w)
                /\ win[w].todo # <<>>
                /\ Now(w).do = do
Stage(w, at) == IF Up(w) THEN win[w].at = at ELSE FALSE
Installing(w) == Now(w).do \in {"rearm", "arm", "connect"}

Becomes(w, todo) == win' = [win EXCEPT ![w] = Window(todo)]
Done(w) == Becomes(w, Tail(win[w].todo))
Enter(w, at, held) == win' = [win EXCEPT ![w].at = at, ![w].held = held]

\* A step of one window disturbs the others.
StepOf(w) == quiet' = quiet \cap {w} /\ UNCHANGED <<person, bounds>>
Thinks(w) == StepOf(w) /\ UNCHANGED <<files, mishaps>>

Room == events < MaxEvents
Event == Room /\ events' = events + 1 /\ quiet' = {} /\ UNCHANGED starts

-----------------------------------------------------------------------------
(* The tasks.                                                              *)

\* activate(): the integrity pass, arming, and on first use the permission.
Start(w) ==
  /\ ~Up(w) /\ starts < MaxStarts
  /\ Becomes(w, Startup)
  /\ starts' = starts + 1
  /\ IF \A v \in Windows \ {w} : Up(v) => AllSet(v)
     THEN quiet' = {w} /\ UNCHANGED events
     ELSE quiet' = {} /\ Room /\ events' = events + 1
  /\ UNCHANGED <<files, person, mishaps>>

\* verifyAndRearmAtStartup
Check(w) ==
  /\ Turn(w, "check")
  /\ Becomes(w, (IF VerifyIntegrity(w) THEN <<>> ELSE Each("rearm")) \o Tail(win[w].todo))
  /\ Thinks(w)

NeedsRearm(w, a) == IsInstalled(a) /\ FixableFails(w, a)

\* rearm(): installs again whatever a fixable check complains about.
Rearm(w) ==
  /\ Turn(w, "rearm")
  /\ IF NeedsRearm(w, Now(w).agent) THEN Enter(w, "script", None) ELSE Done(w)
  /\ Thinks(w)

\* ensureArmed(): nothing without the permission; then every assistant that
\* detect() finds.
EnsureArmed(w) ==
  /\ Turn(w, "ensure")
  /\ Becomes(w, (IF Read.consent THEN Each("arm") ELSE <<>>) \o Tail(win[w].todo))
  /\ Thinks(w)
\* An assistant that does not answer in time counts as absent.
DetectFails(w) ==
  /\ Event
  /\ Turn(w, "arm")
  /\ Done(w)
  /\ UNCHANGED <<files, person, mishaps>>
Arm(w) ==
  /\ Turn(w, "arm")
  /\ IF IsArmed(w, Now(w).agent) THEN Done(w) ELSE Enter(w, "script", None)
  /\ Thinks(w)

\* runOnboarding: the permission, autoArm(), and never again.
Greet(w) ==
  /\ Turn(w, "greet")
  /\ \E asked \in {<<>>, <<Task("consent", None)>>} :
       /\ Read.onboarded \/ Read.consent => asked = <<>>
       /\ Becomes(w, IF Read.onboarded THEN Tail(win[w].todo)
                     ELSE asked \o <<Task("ensure", None), Task("onboarded", None)>>)
  /\ Thinks(w)

\* The commands Connect, Disconnect assistants and the Doctor's re-arming.
Command(w, todo) ==
  /\ Event
  /\ AtRest(w)
  /\ Becomes(w, todo \o win[w].todo)
  /\ UNCHANGED <<files, person, mishaps>>
Connect(w) ==
  \E a \in Agents :
    Command(w, (IF Read.consent THEN <<>> ELSE <<Task("consent", a)>>) \o <<Task("connect", a)>>)
Disconnect(w) == Command(w, Each("disconnect"))
DoctorRearms(w) == Command(w, Each("rearm"))

-----------------------------------------------------------------------------
(* install() and uninstall(), one file after the other.                    *)

StartInstall(w) ==
  /\ Turn(w, "connect") /\ Enter(w, "script", None) /\ Thinks(w)
InstallScript(w) ==
  /\ Stage(w, "script")
  /\ script' = Version[w]
  /\ Enter(w, "wrapper", None)
  /\ StepOf(w) /\ UNCHANGED <<wrapper, hooks, unreadable, state, mishaps>>
InstallWrapper(w) ==
  /\ Stage(w, "wrapper")
  /\ wrapper' = Runtime[w]
  /\ Enter(w, "read", None)
  /\ StepOf(w) /\ UNCHANGED <<script, hooks, unreadable, state, mishaps>>

StartUninstall(w) ==
  /\ Turn(w, "disconnect") /\ Enter(w, "read", None)
  /\ vouched' = (vouched /\ Now(w).agent # Codex)
  /\ quiet' = quiet \cap {w}
  /\ UNCHANGED <<files, trust, watchdog, theirs, mishaps, bounds>>

Edited(w, groups) ==
  IF Installing(w) THEN Upserted(groups, watchdog) ELSE WithoutOurs(groups)

\* A file that does not parse is left alone, and the call fails; a file that
\* would not change is not written; one that cannot be read is written over.
ReadHooks(w) ==
  /\ Stage(w, "read")
  /\ LET a == Now(w).agent
         was == Groups(Seen(a))
     IN IF Seen(a) # None /\ ~Parses(Seen(a)) THEN Done(w)
        ELSE IF Edited(w, was) = was THEN Enter(w, "open", None)
        ELSE Enter(w, "write", [was |-> hooks[a], becomes |-> Edited(w, was),
                                blind |-> a \in unreadable])
  /\ Thinks(w)

\* The file is replaced as a whole: it can be read again.
WriteHooks(w) ==
  /\ Stage(w, "write")
  /\ LET a == Now(w).agent
         held == win[w].held
     IN /\ hooks' = [hooks EXCEPT ![a] = [ok |-> TRUE, groups |-> held.becomes]]
        /\ unreadable' = unreadable \ {a}
        /\ raced' = (raced \/ held.was # hooks[a])
        /\ lost' = IF held.blind THEN lost \cup {a} ELSE lost
        /\ vouched' = (vouched /\ ~(held.blind /\ a = Codex))
  /\ Enter(w, "open", None)
  /\ quiet' = quiet \cap {w}
  /\ UNCHANGED <<script, wrapper, state, trust, watchdog, theirs, bounds>>

StartUpdate(w) ==
  /\ Turn(w, "consent") \/ Turn(w, "onboarded")
  /\ Enter(w, "open", None) /\ Thinks(w)

\* update(): what is read is written back with one thing changed.  Writing
\* truncates the file first, and somebody may read it then.
OpenState(w) ==
  /\ Stage(w, "open")
  /\ Enter(w, "fill", Read)
  /\ state' = Torn
  /\ StepOf(w) /\ UNCHANGED <<script, wrapper, hooks, unreadable, mishaps>>

Record(w) == [script |-> Version[w], wrapper |-> Runtime[w]]
Mutated(w, s) ==
  LET do == Now(w).do
  IN CASE do = "consent" -> [s EXCEPT !.consent = TRUE]
       [] do = "onboarded" -> [s EXCEPT !.onboarded = TRUE]
       [] do = "disconnect" -> [s EXCEPT !.record[Now(w).agent] = None]
       [] OTHER -> [s EXCEPT !.record[Now(w).agent] = Record(w)]
FillState(w) ==
  /\ Stage(w, "fill")
  /\ state' = Mutated(w, win[w].held)
  /\ Done(w)
  /\ StepOf(w) /\ UNCHANGED <<script, wrapper, hooks, unreadable, mishaps>>

\* Any call but a read fails: the task is over, and what waited for the
\* permission with it.
Fail(w) ==
  /\ Event
  /\ Up(w) /\ ~AtRest(w)
  /\ Becomes(w, IF Now(w).do # "consent" THEN Tail(win[w].todo)
                ELSE IF Now(w).agent = None THEN <<>>
                ELSE Tail(Tail(win[w].todo)))
  /\ UNCHANGED <<files, person, mishaps>>

\* The window is closed, or dies at any step.
Crash(w) ==
  /\ Event
  /\ Up(w)
  /\ win' = [win EXCEPT ![w] = None]
  /\ UNCHANGED <<files, person, mishaps>>

-----------------------------------------------------------------------------
(* What others do to the files.                                            *)

Puts(a, groups) ==
  /\ Event
  /\ hooks' = [hooks EXCEPT ![a] = [ok |-> TRUE, groups |-> groups]]
  /\ theirs' = [theirs EXCEPT ![a] = Theirs(groups)]
  /\ vouched' = (vouched /\ a # Codex)
  /\ lost' = lost \ {a}
  /\ UNCHANGED <<script, wrapper, unreadable, state, trust, watchdog, win, raced>>

\* The person adds a handler: in a group of its own, or in one that is there.
AddHook(a) ==
  /\ hooks[a] = None \/ Parses(hooks[a])
  /\ LET groups == Groups(hooks[a]) IN
     \E p \in Persons :
       LET h == Handler(FALSE, p) IN
       /\ \/ Puts(a, Append(groups, <<h>>))
          \/ Puts(a, <<<<h>>>> \o groups)
          \/ \E i \in DOMAIN groups : Puts(a, [groups EXCEPT ![i] = Append(@, h)])
       /\ h \notin Range(Theirs(groups))
\* Somebody takes our entries out.
TakeOut(a) ==
  /\ HasOurs(hooks[a])
  /\ Puts(a, WithoutOurs(Groups(hooks[a])))
\* A slip of the keyboard, and its repair.
Break(a) ==
  /\ Event
  /\ hooks[a] # None
  /\ hooks' = [hooks EXCEPT ![a].ok = ~@]
  /\ UNCHANGED <<script, wrapper, unreadable, state, person, win, mishaps>>
\* Reads of the file begin to fail, or work again: its rights, or too many
\* open files.
CannotRead(a) ==
  /\ Event
  /\ hooks[a] # None
  /\ unreadable' = IF a \in unreadable THEN unreadable \ {a} ELSE unreadable \cup {a}
  /\ UNCHANGED <<script, wrapper, hooks, state, person, win, mishaps>>

Tamper ==
  /\ Event
  /\ \/ script # None /\ script' = Foreign /\ UNCHANGED wrapper
     \/ wrapper # None /\ wrapper' = Foreign /\ UNCHANGED script
  /\ UNCHANGED <<hooks, unreadable, state, person, win, mishaps>>

SetWatchdog ==
  /\ Event
  /\ watchdog' \in Watchdogs \ {watchdog}
  /\ vouched' = FALSE
  /\ UNCHANGED <<files, trust, theirs, win, mishaps>>

\* A window has Codex's file in hand, and may write something else there than
\* what the person sees.
InHand(v) ==
  /\ Stage(v, "write") \/ (Stage(v, "read") /\ ~Installing(v))
  /\ Now(v).agent = Codex

\* The person starts codex and trusts the hooks it shows.
Trust ==
  LET groups == Groups(hooks[Codex]) IN
  /\ Event
  /\ Parses(hooks[Codex])
  /\ trust' = [place \in Places(groups) |-> At(groups, place)]
  /\ vouched' = /\ EntriesMatch(groups, watchdog)
                /\ \A v \in Windows : ~InHand(v)
                /\ Last(groups) = <<Our(watchdog)>>
  /\ UNCHANGED <<files, watchdog, theirs, win, mishaps>>

-----------------------------------------------------------------------------

Works(w) ==
  \/ Check(w) \/ Rearm(w) \/ EnsureArmed(w) \/ Arm(w) \/ Greet(w)
  \/ StartInstall(w) \/ StartUninstall(w) \/ StartUpdate(w)
  \/ InstallScript(w) \/ InstallWrapper(w) \/ ReadHooks(w) \/ WriteHooks(w)
  \/ OpenState(w) \/ FillState(w)

Init ==
  /\ script = None /\ wrapper = None
  /\ hooks = FirstHooks /\ unreadable = {}
  /\ trust = <<>> /\ state = Fresh
  /\ watchdog = FirstWatchdog
  /\ win = [w \in Windows |-> None]
  /\ theirs = [a \in Agents |-> Theirs(Groups(FirstHooks[a]))]
  /\ raced = FALSE /\ lost = {} /\ vouched = FALSE /\ quiet = {}
  /\ starts = 0 /\ events = 0

Next ==
  \/ \E w \in Windows :
       \/ Start(w) \/ Works(w) \/ DetectFails(w) \/ Fail(w) \/ Crash(w)
       \/ Connect(w) \/ Disconnect(w) \/ DoctorRearms(w)
  \/ \E a \in Agents : AddHook(a) \/ TakeOut(a) \/ Break(a) \/ CannotRead(a)
  \/ Tamper \/ SetWatchdog \/ Trust

Spec == Init /\ [][Next]_vars

-----------------------------------------------------------------------------

\* README.md:151, "the hook script, wrappers and config entries are hashed and
\* verified every session ...; tampering is re-armed automatically", and
\* README.md:38, "a fresh machine is protected as soon as you say Allow": a
\* session that nothing has disturbed ends with the hook in place, once, for
\* every assistant whose hooks file is not broken JSON, whatever earlier sessions,
\* crashes, failed calls and people left behind, and also when it cannot read the
\* file.  The wrapper starts some window's Node, since a wrapper that is as
\* recorded stays (fileChecks).
QuietStartupArms ==
  \A w \in quiet : AllSet(w) /\ Read.consent =>
    /\ script = Version[w] /\ wrapper \in Range(Runtime)
    /\ \A a \in Agents : Parses(hooks[a]) =>
         /\ EntriesMatch(Groups(hooks[a]), watchdog)
         /\ Read.record[a] # None /\ Read.record[a].script = script

\* installer.ts:3, "edits the agent's config surgically": the person's own
\* handlers stay, in their order, also those in one group with ours and those
\* of a file that does not parse for a while.  Two things break it, and nothing
\* else: an edit between the reading and the writing of a file (`raced'), and
\* a file that could not be read, which is taken for a missing one and
\* written over (`lost', until the person edits that file again).
PersonsHooksKept ==
  ~raced => \A a \in Agents \ lost : Theirs(Groups(hooks[a])) = theirs[a]

\* README.md:142, "you do this once, not per window": updates, repairs and new
\* sessions of any window leave the trusted entry where Codex knows it, as long
\* as it is the last of the file and its command stays.  That lasts (`vouched')
\* until the person or another tool edits the file, the setting changes,
\* somebody disconnects Codex, or a window writes over a file it could not
\* read; and the trust does not count if it was given while a window was about
\* to write that file, or to read it in order to disconnect Codex.
TrustOutlivesUpdates == vouched /\ Parses(hooks[Codex]) => TrustsOurs(Groups(hooks[Codex]))
=============================================================================
