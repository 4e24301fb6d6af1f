----------------------------- MODULE Generation -----------------------------
(***************************************************************************)
(* The generation router of one window with its channels and its cache     *)
(* (src/generation).  A request is answered from the cache where it can    *)
(* be; the rest goes, in chunks, to the connected assistants in order,     *)
(* each of them a command-line child process or VS Code's model API.       *)
(* Which assistants are connected is probed, and the answers are kept for  *)
(* a while; so are the explanations, in memory and later in one file.      *)
(* An explanation is known by the hash of the function it explains.        *)
(***************************************************************************)
EXTENDS Integers, Sequences, FiniteSets, SequencesExt, FiniteSetsExt, Selections

CONSTANTS Requests, FunctionsOf,   \* the hashes each request asks for
          NameOf,                  \* what the function of a hash is called, part by part
          Oversized,               \* hashes of functions too long to be sent
          ChunkSize, MaxEntries,   \* of a chunk, of the cache
          Clis, ChannelOrder,      \* the command-line channels; all channels
          Pins,                    \* the settings of the pin: a channel or "auto"
          OnPath, Bundled,         \* where a command-line tool is found
          None,
          MaxToggles, MaxFailures, MaxCancels, MaxEvents   \* bounds of the model

Channels == Range(ChannelOrder)

ASSUME GenerationAssumption ==
  /\ ChannelOrder \in Seq(Channels) /\ IsInjective(ChannelOrder) /\ Clis \subseteq Range(ChannelOrder)
  /\ Pins \subseteq Channels \cup {"auto"} /\ "status" \notin Requests /\ ChunkSize \in Nat \ {0} /\ MaxEntries \in Nat \ {0}
  /\ \A r \in Requests : \A f, g \in Range(FunctionsOf[r]) : NameOf[f] = NameOf[g] => f = g
  /\ \A r \in Requests :
       /\ FunctionsOf[r] \in Seq(Range(FunctionsOf[r])) /\ FunctionsOf[r] # <<>> /\ IsInjective(FunctionsOf[r])
       /\ \A f \in Range(FunctionsOf[r]) : f \notin Nat /\ f # None
  /\ None \notin Nat

Callers == Requests \cup {"status"}

VARIABLES consent, pin, custom, version,  \* consent; settings, and how often they changed
          entry, probes,                  \* the availability cache; checks under way
          asks, lastResolved,             \* who waits for which check
          req, child, cancelled,          \* requests, their channel's work, their token
          mem, timer, dirty, saving, file,   \* the explanation cache
          toggles, failures, cancels

settings == <<consent, pin, custom, version>>
availability == <<entry, probes, asks, lastResolved>>
work == <<req, child, cancelled>>
cache == <<mem, timer, dirty, saving, file>>
bounds == <<toggles, failures, cancels>>
vars == <<settings, availability, work, cache, bounds>>

Room == toggles + failures + cancels < MaxEvents
MayToggle == toggles < MaxToggles /\ Room
MayFail == failures < MaxFailures /\ Room

-----------------------------------------------------------------------------
(* Where a command-line assistant is.                                      *)

\* The setting is the default, names something that is there, or does not.
Customs == {"default", "works", "broken"}

FromSetting(c) == custom[c] = "works"
FindOnPath(c) == c \in OnPath
FindExtensionBinary(c) == c \in Bundled

\* What the setting names, else the tool on the path, else the one that
\* comes with the assistant's own extension.
ResolveCli(c) ==
  CASE FromSetting(c) -> "setting"
    [] ~FromSetting(c) /\ FindOnPath(c) -> "path"
    [] ~FromSetting(c) /\ ~FindOnPath(c) /\ FindExtensionBinary(c) -> "extension"
    [] OTHER -> "none"

-----------------------------------------------------------------------------
(* What a reply explains.                                                  *)

\* An explanation in the cache: whose it is, and whom its words are about.
Words(h, f) == [hash |-> h, about |-> f]

\* The item that goes to each function so far, as a place in the reply; 0: none.
\* An item goes to the first function it may go to and that has none yet.
Given(found, item, functions) ==
  LET free == {i \in functions : found[i] = 0}
  IN IF free = {} THEN found ELSE [found EXCEPT ![Min(free)] = item]

\* The label of a function in its prompt is its place there.
ByKey(found, items, fns) ==
  LET give(f, j) == Given(f, j, {i \in DOMAIN fns : items[j].key \in {i, fns[i]}})
  IN FoldLeft(give, found, [j \in DOMAIN items |-> j])

\* By the whole name, else by its last part.
ByName(found, items, fns) ==
  LET named(f, j) == {i \in DOMAIN fns : f[i] = 0 /\ NameOf[fns[i]] = items[j].name}
      alike(f, j) == {i \in DOMAIN fns : Last(NameOf[fns[i]]) = Last(items[j].name)}
      give(f, j) == IF j \in Range(f) \/ items[j].name = <<>> THEN f
                    ELSE Given(f, j, IF named(f, j) # {} THEN named(f, j) ELSE alike(f, j))
  IN FoldLeft(give, found, [j \in DOMAIN items |-> j])

Unlabelled(found, items) ==
  {j \in DOMAIN items : j \notin Range(found) /\ items[j].key = None /\ items[j].name = <<>>}
Open(found) == {i \in DOMAIN found : found[i] = 0}
PlaceAmong(open, i) == Cardinality({k \in open : k <= i})

\* Fault: in order, as far as the items go.
ByPlaceAlways(found, items) ==
  LET rest == Unlabelled(found, items)
      open == Open(found)
  IN [i \in DOMAIN found |-> IF i \in open /\ PlaceAmong(open, i) <= Cardinality(rest)
                             THEN Nth(rest, PlaceAmong(open, i)) ELSE found[i]]

\* What has neither label nor name goes by its place, if as many are left as functions.
ByPlace(found, items) ==
  LET rest == Unlabelled(found, items)
      open == Open(found)
  IN IF Cardinality(rest) # Cardinality(open) THEN found
     ELSE [i \in DOMAIN found |-> IF i \in open THEN Nth(rest, PlaceAmong(open, i)) ELSE found[i]]

\* matchItemsToFunctions: each item at most once; what fits nowhere is dropped.
MatchItems(items, fns) ==
  ByPlace(ByName(ByKey([i \in DOMAIN fns |-> 0], items, fns), items, fns), items)

\* Plain text has headings, which are names, but no labels.
PlainTextItems(items) == [k \in DOMAIN items |-> [items[k] EXCEPT !.key = None]]

ParseReply(reply) == IF reply.form = "text" THEN PlainTextItems(reply.items) ELSE reply.items

\* The words that are usable: in full sentences, of the right number and length.
Usable(reply, fns) ==
  LET items == ParseReply(reply)
      found == MatchItems(items, fns)
  IN {Words(fns[i], items[found[i]].about) : i \in {k \in DOMAIN fns : found[k] # 0 /\ items[found[k]].clear}}

\* What assistants send: items about different functions of the prompt, by label or
\* by the whole name, in any order; those with neither in the order of the prompt.
AssistantReplies(fns) ==
  LET items(i) == [about : {fns[i]}, key : {i, None}, name : {NameOf[fns[i]], <<>>}, clear : BOOLEAN]
      places == UNION {{p \in [1 .. n -> DOMAIN fns] : IsInjective(p)} : n \in 0 .. Len(fns)}
      bare(reply) == {k \in DOMAIN reply : reply[k].key = None /\ reply[k].name = <<>>}
      json(p) == {reply \in [DOMAIN p -> UNION {items(i) : i \in DOMAIN fns}] :
                    /\ \A k \in DOMAIN p : reply[k] \in items(p[k])
                    /\ \A k, l \in bare(reply) : k < l => p[k] < p[l]}
      replies == UNION {json(p) : p \in places}
  IN [form : {"json"}, items : replies]
       \cup [form : {"text"}, items : {r \in replies : \A k \in DOMAIN r : r[k].name # <<>>}]

\* What a prompt can ask about: different functions of one request.
PromptsOf(r) ==
  {s \in UNION {[1..n -> Range(FunctionsOf[r])] : n \in 0..ChunkSize} : IsInjective(s)}
Prompts == UNION {PromptsOf(r) : r \in Requests}

\* What can be usable of an answer to each prompt.
Answers ==
  {[to |-> fns, usable |-> {Usable(reply, fns) : reply \in AssistantReplies(fns)}] : fns \in Prompts}

-----------------------------------------------------------------------------
(* Which assistants are connected.                                         *)

\* Whether the channel can say yes at all: a tool that is nowhere does not
\* run, the model API is not even asked without consent.
ToolIsThere(ch) == ResolveCli(ch) # "none"
CouldAnswer(ch) == IF ch \in Clis THEN ToolIsThere(ch) ELSE consent

Init ==
  /\ consent \in BOOLEAN /\ pin \in Pins
  /\ custom = [c \in Clis |-> "default"] /\ version = 0
  /\ entry = [ch \in Channels |-> None] /\ probes = {}
  /\ asks = [c \in Callers |-> None] /\ lastResolved = "none"
  /\ req = [r \in Requests |-> [pc |-> "new"]]
  /\ child = [r \in Requests |-> None] /\ cancelled = {}
  /\ \E r \in Requests : file \in {<<>>, <<Words(FunctionsOf[r][1], FunctionsOf[r][1])>>}
  /\ mem = file /\ timer = FALSE /\ dirty = FALSE /\ saving = None
  /\ toggles = 0 /\ failures = 0 /\ cancels = 0

Answer(consented, settled, probe, up) ==
  [consent |-> consented, version |-> settled, probe |-> probe, up |-> up, old |-> FALSE]

\* An earlier check that still runs, or a fresh answer, serves again, if it
\* is from the same state of consent.
Serves(ch) ==
  IF entry[ch] = None THEN FALSE
  ELSE entry[ch].consent = consent /\ (entry[ch].probe # 0 \/ ~entry[ch].old)

\* What a caller waits for, per channel: a probe, or the answer it has.
Waits(id) == [probe |-> id, up |-> FALSE]
Has(up) == [probe |-> 0, up |-> up]

\* A check is known by its channel and a number that none of that channel's
\* checks under way has.
FreeId(ch) ==
  CHOOSE i \in 1 .. Cardinality(probes) + 1 : \A p \in probes : p.ch = ch => p.id # i

\* A caller asks for every channel that no earlier check serves; `id' are
\* the checks it starts.
ProbeAll(caller) ==
    LET fresh == {ch \in Channels : ~Serves(ch)}
        id == [ch \in fresh |-> FreeId(ch)]
    IN  /\ probes' = probes \cup {[id |-> id[ch], ch |-> ch, consent |-> consent,
                                    could |-> CouldAnswer(ch), version |-> version] : ch \in fresh}
        /\ entry' = [ch \in Channels |-> IF ch \in fresh
              THEN Answer(consent, version, id[ch], FALSE)
              ELSE entry[ch]]
        /\ asks' = [asks EXCEPT ![caller] = [ch \in Channels |->
              IF ch \in fresh THEN Waits(id[ch])
              ELSE IF entry[ch].probe # 0 THEN Waits(entry[ch].probe) ELSE Has(entry[ch].up)]]

\* Fault: whatever a check finds is published.
PublishesAlways(p, up) ==
  entry' = [entry EXCEPT ![p.ch] = Answer(p.consent, p.version, 0, up)]

\* An answer is kept only if its check is still the one the cache waits for.
Publish(p, up) ==
  IF entry[p.ch] # None /\ entry[p.ch].probe = p.id
  THEN entry' = [entry EXCEPT ![p.ch] = Answer(p.consent, p.version, 0, up)]
  ELSE UNCHANGED entry

\* A check ends; everyone who waits for it has the answer.
ProbeEnds ==
  \E p \in probes, up \in BOOLEAN :
    /\ up => p.could
    /\ probes' = probes \ {p}
    /\ Publish(p, up)
    /\ asks' = [c \in Callers |-> IF asks[c] = None THEN None
         ELSE [ch \in Channels |-> IF ch = p.ch /\ asks[c][ch].probe = p.id THEN Has(up) ELSE asks[c][ch]]]
    /\ UNCHANGED <<settings, lastResolved, work, cache, bounds>>

\* A kept answer passes its time.
Ages ==
  /\ MayToggle /\ toggles' = toggles + 1
  /\ \E ch \in {c \in Channels : entry[c] # None} :
       entry[ch].probe = 0 /\ ~entry[ch].old /\ entry' = [entry EXCEPT ![ch].old = TRUE]
  /\ UNCHANGED <<settings, probes, asks, lastResolved, work, cache, failures, cancels>>

\* The caller waits no longer; the check goes on for the next one.
WaitOver(c) ==
  /\ asks[c] # None /\ \E ch \in Channels : asks[c][ch].probe # 0
  /\ MayFail /\ failures' = failures + 1
  /\ asks' = [asks EXCEPT ![c] = [ch \in Channels |-> IF @[ch].probe # 0 THEN Has(FALSE) ELSE @[ch]]]
  /\ UNCHANGED <<settings, entry, probes, lastResolved, work, cache, toggles, cancels>>

Answered(c) == asks[c] # None /\ \A ch \in Channels : asks[c][ch].probe = 0
Available(c) == SelectSeq(ChannelOrder, LAMBDA ch : asks[c][ch].up)
FirstOr(s, default) == IF s = <<>> THEN default ELSE s[1]

\* What resolveChannel and the cost estimate go by.
Resolves(c) ==
  lastResolved' = IF pin # "auto" /\ asks[c][pin].up THEN pin ELSE FirstOr(Available(c), "none")

\* The status view, the Doctor or the twin engine asks which are connected.
Check ==
  /\ asks["status"] = None /\ MayToggle /\ toggles' = toggles + 1
  /\ ProbeAll("status")
  /\ UNCHANGED <<settings, lastResolved, work, cache, failures, cancels>>

CheckEnds ==
  /\ Answered("status") /\ Resolves("status")
  /\ asks' = [asks EXCEPT !["status"] = None]
  /\ UNCHANGED <<settings, entry, probes, work, cache, bounds>>

SetConsent ==
  /\ MayToggle /\ toggles' = toggles + 1
  /\ consent' = ~consent
  /\ UNCHANGED <<pin, custom, version, availability, work, cache, failures, cancels>>

\* A new path or pin forgets every answer.
ChangeSettings ==
  /\ MayToggle /\ toggles' = toggles + 1 /\ version' = version + 1
  /\ \/ \E c \in Clis, v \in Customs : v # custom[c] /\ custom' = [custom EXCEPT ![c] = v]
                                       /\ UNCHANGED pin
     \/ pin' \in Pins \ {pin} /\ UNCHANGED custom
  /\ entry' = [ch \in Channels |-> None]
  /\ UNCHANGED <<consent, probes, asks, lastResolved, work, cache, failures, cancels>>

-----------------------------------------------------------------------------
(* The explanations kept in memory, least recently used first.             *)

Hashes(s) == {s[i].hash : i \in DOMAIN s}
Without(s, h) == Only(s, {i \in DOMAIN s : s[i].hash # h})
Trim(s) == IF Len(s) > MaxEntries THEN SubSeq(s, Len(s) - MaxEntries + 1, Len(s)) ELSE s
Touch(s, h) == Without(s, h) \o Only(s, {i \in DOMAIN s : s[i].hash = h})
Put(s, words) == Trim(Append(Without(s, words.hash), words))

-----------------------------------------------------------------------------
(* One request.                                                            *)

Is(r, pc) == req[r].pc = pc
End(r, how) == req' = [req EXCEPT ![r] = [pc |-> how]]
InOrder(fns, hs) == Only(fns, {i \in DOMAIN fns : fns[i] \in hs})

\* The parts of a request that still have to be sent, cut by count.
Chunks(fns) ==
  [i \in 1..((Len(fns) + ChunkSize - 1) \div ChunkSize) |->
     SubSeq(fns, (i - 1) * ChunkSize + 1, IF i * ChunkSize < Len(fns) THEN i * ChunkSize ELSE Len(fns))]

\* The cache first, unless fresh wording is wanted; then consent, once.
Start(r) ==
  /\ Is(r, "new")
  /\ \E bypass \in BOOLEAN :
       LET small == {h \in Range(FunctionsOf[r]) : h \notin Oversized}
           hits == IF bypass THEN {} ELSE small \cap Hashes(mem)
           misses == InOrder(FunctionsOf[r], small \ hits)
       IN  /\ mem' = FoldLeft(Touch, mem, InOrder(FunctionsOf[r], hits))
           /\ \/ misses = <<>> /\ End(r, "done") /\ UNCHANGED <<entry, probes, asks>>
              \/ /\ misses # <<>> /\ (~consent \/ r \in cancelled)
                 /\ End(r, "failed") /\ UNCHANGED <<entry, probes, asks>>
              \/ /\ misses # <<>> /\ consent /\ r \notin cancelled
                 /\ ProbeAll(r)
                 /\ req' = [req EXCEPT ![r] = [pc |-> "probing", chunks |-> Chunks(misses)]]
  /\ UNCHANGED <<settings, lastResolved, child, cancelled, timer, dirty, saving, file, bounds>>

\* The pin goes first even when it did not say it is connected.
OrderedChannels(r) ==
  (IF pin = "auto" THEN <<>> ELSE <<pin>>) \o SelectSeq(Available(r), LAMBDA ch : ch # pin)

Probed(r) ==
  /\ Is(r, "probing") /\ Answered(r) /\ Resolves(r)
  /\ asks' = [asks EXCEPT ![r] = None]
  /\ LET order == OrderedChannels(r) IN
     IF order = <<>> \/ r \in cancelled THEN End(r, "failed")
     ELSE req' = [req EXCEPT ![r] = [pc |-> "turn", chunks |-> req[r].chunks, order |-> order,
                                     left |-> order, reask |-> 1, good |-> {}, again |-> {},
                                     prompts |-> 0, turns |-> 0]]
  /\ UNCHANGED <<settings, entry, probes, child, cancelled, cache, bounds>>

\* The model API is closed to a request made without consent.
Asked(ch) == [ch |-> ch, try |-> 1,
              step |-> IF ch \in Clis \/ consent THEN "start" ELSE "refused"]

\* The next assistant, or the next chunk after the last one's answer.
Turn(r) ==
  /\ Is(r, "turn") /\ child[r] = None
  /\ \/ r \in cancelled /\ End(r, "failed") /\ UNCHANGED child
     \/ r \notin cancelled /\ req[r].left = <<>> /\ End(r, "failed") /\ UNCHANGED child
     \/ /\ r \notin cancelled /\ req[r].left # <<>>
        /\ req' = [req EXCEPT ![r].pc = "asking", ![r].left = Tail(@), ![r].turns = @ + 1]
        /\ child' = [child EXCEPT ![r] = Asked(Head(req[r].left))]
  /\ UNCHANGED <<settings, availability, cancelled, cache, bounds>>

\* Whether the request still waits for its channel.
Waiting(r) == Is(r, "asking")

\* Fault: the request is not told that its channel gave up.
ForgetsTheNext(r) == UNCHANGED req

NextTurn(r) == req' = IF Waiting(r) THEN [req EXCEPT ![r].pc = "turn", ![r].again = {}] ELSE req

Running(r) ==
  /\ child' = [child EXCEPT ![r].step = "running"]
  /\ req' = IF Waiting(r) THEN [req EXCEPT ![r].prompts = @ + 1] ELSE req

\* Fault: the token is not looked at again once the process is there.
NeverInVain(r) == FALSE

\* Cancelled while the channel was not listening: the process is killed
\* before it gets the prompt.
InVain(r) == r \in cancelled

\* The process of a command-line assistant starts and gets the prompt.
Spawn(r) ==
  /\ child[r] # None /\ child[r].step = "start" /\ child[r].ch \in Clis
  /\ IF ~ToolIsThere(child[r].ch) \/ InVain(r)
     THEN child' = [child EXCEPT ![r] = None] /\ NextTurn(r)
     ELSE Running(r)
  /\ UNCHANGED <<settings, availability, cancelled, cache, bounds>>

\* VS Code names its models; the prompt follows, whatever the token says.
SelectsModel(r) ==
  /\ child[r] # None /\ child[r].step = "start" /\ child[r].ch \notin Clis
  /\ Running(r)
  /\ UNCHANGED <<settings, availability, cancelled, cache, bounds>>

\* Without models, or when consent was gone, there is nothing to ask.
NoModel(r) ==
  /\ child[r] # None /\ child[r].ch \notin Clis
  /\ \/ child[r].step = "refused" /\ UNCHANGED failures
     \/ child[r].step = "start" /\ MayFail /\ failures' = failures + 1
  /\ child' = [child EXCEPT ![r] = None] /\ NextTurn(r)
  /\ UNCHANGED <<settings, availability, cancelled, cache, toggles, cancels>>

\* The assistant refuses, is out of quota, or answers with nothing.
Refuses(r) ==
  /\ child[r] # None /\ child[r].step = "running"
  /\ MayFail /\ failures' = failures + 1
  /\ child' = [child EXCEPT ![r] = None] /\ NextTurn(r)
  /\ UNCHANGED <<settings, availability, cancelled, cache, toggles, cancels>>

\* Fault: a timeout is tried again without end.
RetriesAlways(r) == child[r].ch \in Clis /\ r \notin cancelled

\* A timeout or a process that cannot start is tried once more, later.
Retryable(r) == child[r].ch \in Clis /\ child[r].try = 1 /\ r \notin cancelled

\* The process is killed.
TimesOut(r) ==
  /\ child[r] # None /\ child[r].step = "running"
  /\ MayFail /\ failures' = failures + 1
  /\ IF Retryable(r)
     THEN child' = [child EXCEPT ![r].step = "pause"] /\ UNCHANGED req
     ELSE child' = [child EXCEPT ![r] = None] /\ NextTurn(r)
  /\ UNCHANGED <<settings, availability, cancelled, cache, toggles, cancels>>

Again(r) ==
  /\ child[r] # None /\ child[r].step = "pause"
  /\ child' = [child EXCEPT ![r].step = "start", ![r].try = 2]
  /\ UNCHANGED <<settings, availability, req, cancelled, cache, bounds>>

\* Valid words are kept and the debounce armed; a fallback never is.
KeepValid(fns, valid) ==
  LET of(h) == CHOOSE w \in valid : w.hash = h
      keep == InOrder(fns, {w.hash : w \in valid}) IN
  /\ mem' = FoldLeft(LAMBDA m, h : Put(m, of(h)), mem, keep)
  /\ IF keep = <<>> THEN UNCHANGED <<timer, dirty>> ELSE timer' = TRUE /\ dirty' = TRUE

\* The reply explains some functions of the chunk usably.  The others are
\* asked for again, once per request; what is unusable then falls back.
Replies(r) ==
  /\ child[r] # None /\ child[r].step = "running"
  /\ IF ~Waiting(r) THEN child' = [child EXCEPT ![r] = None] /\ UNCHANGED <<req, mem, timer, dirty>>
     ELSE LET q == req[r]
              chunk == Head(q.chunks)
              sent == IF q.again # {} THEN InOrder(chunk, q.again) ELSE chunk
          IN  \E answer \in Answers : answer.to = sent /\ \E usable \in answer.usable :
                LET good == usable \cup IF q.again # {} THEN q.good ELSE {}
                    bad == {h \in Range(sent) : \A w \in usable : w.hash # h} IN
                IF bad # {} /\ q.reask = 1
                THEN /\ req' = [req EXCEPT ![r].reask = 0, ![r].good = good, ![r].again = bad]
                     /\ child' = [child EXCEPT ![r] = Asked(@.ch)]
                     /\ UNCHANGED <<mem, timer, dirty>>
                ELSE /\ KeepValid(chunk, good)
                     /\ child' = [child EXCEPT ![r] = None]
                     /\ IF Tail(q.chunks) = <<>> THEN End(r, "done")
                        ELSE req' = [req EXCEPT ![r].pc = "turn", ![r].chunks = Tail(@),
                                       ![r].left = q.order, ![r].good = {}, ![r].again = {}]
  /\ UNCHANGED <<settings, availability, cancelled, saving, file, bounds>>

\* A token fires: the process is killed and the request fails at once.
Cancel(r) ==
  /\ cancels < MaxCancels /\ Room /\ cancels' = cancels + 1
  /\ r \notin cancelled /\ ~Is(r, "done") /\ ~Is(r, "failed")
  /\ cancelled' = cancelled \cup {r}
  /\ IF Waiting(r) THEN End(r, "failed") ELSE UNCHANGED req
  /\ child' = IF child[r] # None /\ child[r].ch \in Clis /\ child[r].step = "running"
              THEN [child EXCEPT ![r] = None] ELSE child
  /\ UNCHANGED <<settings, availability, cache, toggles, failures>>

-----------------------------------------------------------------------------
(* The file of the explanation cache.                                      *)

\* Saves follow one another; each one writes what memory holds when its
\* turn comes, and what is set meanwhile arms the next.
BeginSave ==
  /\ timer /\ saving = None /\ dirty
  /\ timer' = FALSE /\ dirty' = FALSE
  /\ saving' = [entries |-> mem, step |-> "rename"]
  /\ UNCHANGED <<settings, availability, work, mem, file, bounds>>

Renamed ==
  /\ saving # None /\ saving.step = "rename"
  /\ file' = saving.entries /\ saving' = None
  /\ UNCHANGED <<settings, availability, work, mem, timer, dirty, bounds>>

SaveFails ==
  /\ saving # None /\ MayFail /\ failures' = failures + 1
  /\ saving' = None
  /\ UNCHANGED <<settings, availability, work, mem, timer, dirty, file, toggles, cancels>>

\* Another window saves what it knows; the last one wins.
OtherWindowSaves ==
  /\ MayFail /\ failures' = failures + 1
  /\ file' = <<>>
  /\ UNCHANGED <<settings, availability, work, mem, timer, dirty, saving, toggles, cancels>>

-----------------------------------------------------------------------------
Works(r) == Start(r) \/ Probed(r) \/ Turn(r) \/ Spawn(r) \/ SelectsModel(r) \/ NoModel(r) \/ Again(r)
\* Every attempt ends: an answer, an error or the timeout of the channel.
Settles(r) == Replies(r) \/ Refuses(r) \/ TimesOut(r)

Next ==
  \/ ProbeEnds \/ Ages \/ Check \/ CheckEnds \/ SetConsent \/ ChangeSettings
  \/ \E c \in Callers : WaitOver(c)
  \/ \E r \in Requests : Start(r) \/ Probed(r) \/ Turn(r) \/ Spawn(r) \/ SelectsModel(r)
       \/ NoModel(r) \/ Refuses(r) \/ TimesOut(r) \/ Again(r) \/ Replies(r) \/ Cancel(r)
  \/ BeginSave \/ Renamed \/ SaveFails \/ OtherWindowSaves

Fairness ==
  /\ WF_vars(ProbeEnds)
  /\ \A r \in Requests : WF_vars(Works(r)) /\ WF_vars(Settles(r))
  /\ WF_vars(BeginSave) /\ WF_vars(Renamed)

Spec == Init /\ [][Next]_vars /\ Fairness

-----------------------------------------------------------------------------
(* Properties.                                                             *)

\* An answer in the availability cache was found under the settings and the
\* consent it is served for, although checks outlive changes of both and
\* several run at once.
AnswersAreCurrent ==
  \A ch \in Channels : LET e == entry[ch] IN
    IF e = None THEN TRUE
    ELSE e.probe # 0 \/ (e.version = version /\ (e.up /\ ch \notin Clis => e.consent))

\* A request that is over, cancelled at any moment or not, has no process
\* of its own left that has the prompt.
NoChildLeft ==
  \A r \in Requests :
    child[r] # None /\ child[r].ch \in Clis /\ child[r].step = "running" => Waiting(r)

\* Whatever times out, is unusable or is tried with the next assistant: a
\* chunk costs at most two prompts per assistant, and the request two more.
SpendIsBounded ==
  \A r \in Requests : Waiting(r) => req[r].prompts <= 2 * req[r].turns + 2 * (1 - req[r].reask)

\* Words are kept for the function they were written about, although an assistant
\* may answer in part and out of order, leave the labels out, be asked again
\* under new labels, and two functions may share the last part of their names.
WordsFindTheirFunction == \A w \in Range(mem) \cup Range(file) : w.about = w.hash

\* Every request ends, whatever the checks and the assistants do.
RequestsEnd == \A r \in Requests : <>(Is(r, "done") \/ Is(r, "failed"))
=============================================================================
