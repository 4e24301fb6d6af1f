--------------------------- MODULE HookCallsProofs ---------------------------
(***************************************************************************)
(* What holds of hook scripts and the gate's server for any number of      *)
(* calls and for any times.                                                *)
(*                                                                         *)
(* The cap of the server: work that no script waits for any more is still  *)
(* counted, because only what is finished leaves the map.                  *)
(*                                                                         *)
(* The watchdog: a script waits at most for the rest of its deadline, and  *)
(* one tick more if there is none left.                                    *)
(*                                                                         *)
(* The answer: an id belongs to the one call it was made for, so whatever  *)
(* breaks no script prints another call's decision; and while nothing      *)
(* breaks the script gets the decision, because the server's question      *)
(* ends before the watchdog and a decision does not age before it is read. *)
(***************************************************************************)
EXTENDS HookCallsProperties, FiniteSetTheorems, TLAPS

States == Decisions \cup {"unknown", "deciding", "error"}

(* What is being decided is in the map as undecided.                       *)
DecidingIsPending ==
    /\ pending \in [Ids -> [state : States, age : Nat]]
    /\ deciding \subseteq {id \in Ids : Undecided(id)}

WorkInvariant == DecidingIsPending /\ CapOnWork

(* The map counts everything that is being decided.                        *)
LEMMA InFlightCounts ==
    ASSUME DecidingIsPending
    PROVE  /\ IsFiniteSet(deciding)
           /\ Cardinality(deciding) \in Nat
           /\ InFlight \in Nat
           /\ Cardinality(deciding) <= InFlight
<1> DEFINE Counted == {id \in Ids : Undecided(id)}
<1>1. IsFiniteSet(Ids)
  BY FS_Interval, ServerAssumption DEF Ids, ServerAssumption
<1>2. IsFiniteSet(Counted) /\ Cardinality(Counted) \in Nat
  <2>1. Counted \subseteq Ids
    OBVIOUS
  <2> QED BY <1>1, <2>1, FS_Subset, FS_CardinalityType
<1>3. deciding \subseteq Counted
  BY DEF DecidingIsPending
<1>4. IsFiniteSet(deciding) /\ Cardinality(deciding) <= Cardinality(Counted)
  BY <1>2, <1>3, FS_Subset
<1> QED BY <1>2, <1>4, FS_CardinalityType DEF InFlight

(* A request that gets an id below the cap keeps both.                     *)
LEMMA RegisterKeepsWork ==
    ASSUME WorkInvariant, NEW c \in Calls, NEW id \in Ids,
           InFlight < MaxInFlight, Register(c, id)
    PROVE  WorkInvariant'
<1>1. pending' = [pending EXCEPT ![id] = Entry("deciding")]
  BY DEF Register
<1>2. deciding' = deciding \cup {id}
  BY DEF Register
<1>3. DecidingIsPending'
  <2>1. pending' \in [Ids -> [state : States, age : Nat]]
    <3>1. Entry("deciding") \in [state : States, age : Nat]
      BY DEF Entry, States
    <3> QED BY <1>1, <3>1 DEF WorkInvariant, DecidingIsPending
  <2>2. \A i \in deciding' : i \in Ids /\ pending'[i].state = "deciding"
    BY <1>1, <1>2 DEF WorkInvariant, DecidingIsPending, Undecided, Entry
  <2> QED BY <2>1, <2>2 DEF DecidingIsPending, Undecided
<1>4. CapOnWork'
  <2>1. /\ IsFiniteSet(deciding)
        /\ Cardinality(deciding) \in Nat
        /\ InFlight \in Nat
        /\ Cardinality(deciding) <= InFlight
    BY InFlightCounts DEF WorkInvariant
  <2>2. Cardinality(deciding \cup {id}) <= Cardinality(deciding) + 1
    BY <2>1, FS_AddElement
  <2>3. IsFiniteSet(deciding \cup {id}) /\ Cardinality(deciding \cup {id}) \in Nat
    BY <2>1, FS_AddElement, FS_CardinalityType
  <2>4. MaxInFlight \in Nat
    BY ServerAssumption DEF ServerAssumption
  <2>5. Cardinality(deciding \cup {id}) <= MaxInFlight
    BY <2>1, <2>2, <2>3, <2>4
  <2> QED BY <1>2, <2>5 DEF CapOnWork
<1> QED BY <1>3, <1>4 DEF WorkInvariant

(* What leaves both alone, or only finishes work, keeps it within the cap. *)
LEMMA LessWork ==
    ASSUME WorkInvariant, deciding' \subseteq deciding, DecidingIsPending'
    PROVE  WorkInvariant'
<1>1. IsFiniteSet(deciding) /\ Cardinality(deciding) \in Nat
  BY InFlightCounts DEF WorkInvariant
<1>2. Cardinality(deciding') <= Cardinality(deciding) /\ Cardinality(deciding') \in Nat
  BY <1>1, FS_Subset, FS_CardinalityType
<1>3. MaxInFlight \in Nat
  BY ServerAssumption DEF ServerAssumption
<1> QED BY <1>1, <1>2, <1>3 DEF WorkInvariant, CapOnWork

LEMMA SameWork ==
    ASSUME WorkInvariant, UNCHANGED <<pending, deciding>>
    PROVE  WorkInvariant'
BY DEF WorkInvariant, DecidingIsPending, CapOnWork, Undecided

LEMMA WorkInit == Init => WorkInvariant
<1> SUFFICES ASSUME Init PROVE WorkInvariant
  OBVIOUS
<1>1. pending = [id \in Ids |-> Unknown] /\ deciding = {}
  BY DEF Init, ServerInit
<1>2. DecidingIsPending
  BY <1>1 DEF DecidingIsPending, Unknown, States
<1>3. Cardinality(deciding) = 0
  BY <1>1, FS_EmptySet
<1>4. MaxInFlight \in Nat
  BY ServerAssumption DEF ServerAssumption
<1> QED BY <1>2, <1>3, <1>4 DEF WorkInvariant, CapOnWork

(* The steps of the server, one by one.                                    *)
LEMMA ServerKeepsWork ==
    ASSUME WorkInvariant, ServerStep
    PROVE  WorkInvariant'
<1> USE DEF WorkInvariant
<1>1. ASSUME NEW c \in Calls, TooBusy(c) \/ RefuseBody(c) \/ HoldExpires(c) \/ Disconnect(c)
      PROVE  WorkInvariant'
  BY <1>1, SameWork DEF TooBusy, RefuseBody, HoldExpires, Disconnect
<1>2. ASSUME NEW c \in Calls, ReceivePost(c)
      PROVE  WorkInvariant'
  <2>1. PICK id \in Fresh : Register(c, id)
    BY <1>2 DEF ReceivePost
  <2> QED BY <1>2, <2>1, RegisterKeepsWork DEF ReceivePost, Fresh
<1>3. ASSUME NEW c \in Calls, NEW id \in Ids, ReceivePoll(c, id)
      PROVE  WorkInvariant'
  BY <1>3, SameWork DEF ReceivePoll
<1>4. ASSUME NEW c \in Calls, ReadAbandoned(c)
      PROVE  WorkInvariant'
  <2>1. CASE UNCHANGED <<pending, deciding>>
    BY <2>1, SameWork
  <2>2. CASE InFlight < MaxInFlight /\ \E id \in Fresh : Register(c, id)
    BY <2>2, RegisterKeepsWork DEF Fresh
  <2> QED BY <1>4, <2>1, <2>2 DEF ReadAbandoned
<1>5. ASSUME NEW id \in Ids, NEW result \in Results, Decide(id, result)
      PROVE  WorkInvariant'
  <2>1. deciding' = deciding \ {id}
    BY <1>5 DEF Decide
  <2>2. \A i \in Ids : i # id => pending'[i] = pending[i]
    BY <1>5 DEF Decide, DecidingIsPending
  <2>3. pending' \in [Ids -> [state : States, age : Nat]]
    <3>1. PICK new \in [state : States, age : Nat] : pending' = [pending EXCEPT ![id] = new]
      <4>1. result \in States
        BY ServerAssumption DEF ServerAssumption, States, Decisions
      <4>2. {pending[id], Unknown, Entry(result)} \subseteq [state : States, age : Nat]
        BY <4>1 DEF DecidingIsPending, Unknown, Entry, States
      <4> QED BY <1>5, <4>2 DEF Decide
    <3> QED BY <3>1 DEF DecidingIsPending
  <2>4. DecidingIsPending'
    BY <2>1, <2>2, <2>3 DEF DecidingIsPending, Undecided
  <2> QED BY <2>1, <2>4, LessWork
<1>6. ASSUME Sweep
      PROVE  WorkInvariant'
  <2>1. pending' \in [Ids -> [state : States, age : Nat]]
    BY <1>6 DEF Sweep, DecidingIsPending, Unknown, States
  <2>2. \A i \in Ids : Undecided(i) => pending'[i] = pending[i]
    BY <1>6 DEF Sweep, Stale, Done, Undecided, Decisions
  <2>3. deciding' = deciding
    BY <1>6 DEF Sweep
  <2>4. DecidingIsPending'
    BY <2>1, <2>2, <2>3 DEF DecidingIsPending, Undecided
  <2> QED BY <2>3, <2>4, LessWork
<1>7. ASSUME Stop
      PROVE  WorkInvariant'
  <2>1. pending' = [id \in Ids |-> Unknown] /\ deciding' = {}
    BY <1>7 DEF Stop
  <2>2. DecidingIsPending'
    BY <2>1 DEF DecidingIsPending, Unknown, States
  <2> QED BY <2>1, <2>2, LessWork
<1>8. ASSUME Start \/ Freeze \/ Thaw
      PROVE  WorkInvariant'
  BY <1>8, SameWork DEF Start, Freeze, Thaw
<1> QED BY <1>1, <1>2, <1>3, <1>4, <1>5, <1>6, <1>7, <1>8 DEF ServerStep, Receive

LEMMA TickKeepsWork ==
    ASSUME WorkInvariant, Tick
    PROVE  WorkInvariant'
<1>1. deciding' = deciding
  BY DEF Tick
<1>2. ASSUME NEW i \in Ids
      PROVE  /\ pending'[i] \in [state : States, age : Nat]
             /\ pending'[i].state = pending[i].state
  <2>1. pending[i] \in [state : States, age : Nat]
    BY DEF WorkInvariant, DecidingIsPending
  <2>2. \/ pending'[i] = pending[i]
        \/ pending'[i] = [pending[i] EXCEPT !.age = pending[i].age + 1]
    BY DEF Tick
  <2>3. pending[i].age + 1 \in Nat
    BY <2>1
  <2> QED BY <2>1, <2>2, <2>3
<1>3. pending' \in [Ids -> [state : States, age : Nat]]
  BY <1>2 DEF Tick
<1>4. DecidingIsPending'
  BY <1>1, <1>2, <1>3 DEF WorkInvariant, DecidingIsPending, Undecided
<1> QED BY <1>1, <1>4, LessWork

LEMMA StepKeepsWork == WorkInvariant /\ [Next]_vars => WorkInvariant'
<1> SUFFICES ASSUME WorkInvariant, [Next]_vars PROVE WorkInvariant'
  OBVIOUS
<1>1. CASE ServerStep
  BY <1>1, ServerKeepsWork
<1>2. ASSUME NEW c \in Calls, DenyProtected(c) \/ NoSession(c) \/ Unread(c) \/ Begin(c)
      PROVE  WorkInvariant'
  BY <1>2, SameWork DEF DenyProtected, NoSession, Unread, EndsUnasked, Begin
<1>3. ASSUME NEW c \in Calls, HookStep(c)
      PROVE  WorkInvariant'
  BY <1>3, SameWork DEF HookStep, ReadAnswer, ConnectionLost, Retry, Timeout
<1>4. CASE Tick
  BY <1>4, TickKeepsWork
<1>5. CASE UNCHANGED vars
  BY <1>5, SameWork DEF vars, serverVars
<1> QED BY <1>1, <1>2, <1>3, <1>4, <1>5 DEF Next

(* The calls being decided stay within the cap, whoever has given up       *)
(* waiting for them: "a flood of hook calls cannot queue unbounded work"   *)
(* (server.ts:31).                                                         *)
THEOREM WorkIsCapped == Spec => []CapOnWork
<1>1. WorkInvariant => CapOnWork
  BY DEF WorkInvariant
<1> QED BY <1>1, WorkInit, StepKeepsWork, PTL DEF Spec
-----------------------------------------------------------------------------
(* The timer of a request ends at most a tick after the deadline, the one  *)
(* of a pause before a retry not after it.                                 *)
MeetsDeadline(script) ==
    /\ script.left \in Int
    /\ script.timer \in Nat
    /\ script.left >= -1
    /\ script.pc = "waiting" => script.timer <= script.left + 1
    /\ script.pc = "pausing" => script.timer <= script.left

TimersMeetDeadline ==
    /\ hook = [c \in Calls |-> hook[c]]
    /\ \A c \in Calls : MeetsDeadline(hook[c])

(* A step of one script leaves the others alone.                           *)
LEMMA OneScript ==
    ASSUME TimersMeetDeadline, NEW c \in Calls, NEW script, MeetsDeadline(script),
           hook' = [hook EXCEPT ![c] = script]
    PROVE  TimersMeetDeadline'
<1>1. hook' = [x \in Calls |-> IF x = c THEN script ELSE hook[x]]
  BY DEF TimersMeetDeadline
<1>2. \A x \in Calls : MeetsDeadline(hook'[x])
  BY <1>1 DEF TimersMeetDeadline
<1>3. hook' = [x \in Calls |-> hook'[x]]
  BY <1>1
<1>4. \A x \in Calls : MeetsDeadline(hook[x])'
  BY <1>2 DEF MeetsDeadline
<1> QED BY <1>3, <1>4 DEF TimersMeetDeadline

LEMMA FinishKeepsTimers ==
    ASSUME TimersMeetDeadline, NEW c \in Calls, NEW text, Finish(c, text)
    PROVE  TimersMeetDeadline'
<1>1. hook' = [hook EXCEPT ![c] = Ended]
  BY DEF Finish
<1>2. MeetsDeadline(Ended)
  BY DEF Ended, Script, MeetsDeadline
<1> QED BY <1>1, <1>2, OneScript

(* A request gets the rest of the time to the deadline.                    *)
LEMMA SendKeepsTimers ==
    ASSUME TimersMeetDeadline, NEW c \in Calls, NEW request, NEW left \in Nat,
           NEW retried, NEW port, Send(c, request, left, retried, port)
    PROVE  TimersMeetDeadline'
<1>1. Remaining(left) \in Nat /\ Remaining(left) <= left + 1
  BY DEF Remaining
<1> DEFINE script == Script("waiting", request, left, Remaining(left), retried, port)
<1>2. hook' = [hook EXCEPT ![c] = script]
  BY DEF Send
<1>3. MeetsDeadline(script)
  BY <1>1 DEF Script, MeetsDeadline
<1> HIDE DEF script
<1> QED BY <1>2, <1>3, OneScript

LEMMA TimersInit == Init => TimersMeetDeadline
<1>1. MeetsDeadline(Idle)
  BY DEF Idle, Script, MeetsDeadline
<1> QED BY <1>1 DEF Init, TimersMeetDeadline

LEMMA HookStepKeepsTimers ==
    ASSUME TimersMeetDeadline, NEW c \in Calls, HookStep(c)
    PROVE  TimersMeetDeadline'
<1>1. Patience(c) \in Nat
  BY HookAssumption DEF HookAssumption, Patience
<1>2. CASE ReadAnswer(c)
  BY <1>1, <1>2, FinishKeepsTimers, SendKeepsTimers DEF ReadAnswer, Renewed, GiveUp
<1>3. CASE ConnectionLost(c)
  <2>1. CASE MayRetry(c) /\ hook' = [hook EXCEPT ![c] =
                 Script("pausing", @.id, @.left, 1, @.retried, @.port)]
    <3>1. hook[c].left \in Int /\ hook[c].left > 0
      BY <2>1 DEF MayRetry, TimersMeetDeadline, MeetsDeadline
    <3> DEFINE script == Script("pausing", hook[c].id, hook[c].left, 1,
                                hook[c].retried, hook[c].port)
    <3>2. hook' = [hook EXCEPT ![c] = script]
      BY <2>1
    <3>3. MeetsDeadline(script)
      BY <3>1 DEF Script, MeetsDeadline
    <3> HIDE DEF script
    <3> QED BY <3>2, <3>3, OneScript
  <2>2. CASE GiveUp(c)
    BY <2>2, FinishKeepsTimers DEF GiveUp
  <2> QED BY <1>3, <2>1, <2>2 DEF ConnectionLost
<1>4. CASE Retry(c)
  <2>1. hook[c].left \in Nat
    BY <1>4 DEF Retry, TimersMeetDeadline, MeetsDeadline
  <2> QED BY <1>4, <2>1, SendKeepsTimers DEF Retry
<1>5. CASE Timeout(c)
  BY <1>5, FinishKeepsTimers DEF Timeout, GiveUp
<1> QED BY <1>2, <1>3, <1>4, <1>5 DEF HookStep

(* While a timer runs, time passes only until it fires.                    *)
LEMMA TickKeepsTimers ==
    ASSUME TimersMeetDeadline, Tick
    PROVE  TimersMeetDeadline'
<1>1. ASSUME NEW c \in Calls
      PROVE  MeetsDeadline(hook'[c])
  <2> MeetsDeadline(hook[c])
    BY DEF TimersMeetDeadline
  <2>1. CASE hook[c].pc \in {"waiting", "pausing"}
    <3>1. hook[c].timer # 0
      BY <2>1 DEF Tick, Prompt
    <3>2. /\ hook'[c].pc = hook[c].pc
          /\ hook'[c].left = Late(hook[c].left)
          /\ hook'[c].timer = Elapsed(hook[c].timer)
      BY <2>1 DEF Tick, Script
    <3>3. Elapsed(hook[c].timer) = hook[c].timer - 1
      BY <3>1 DEF MeetsDeadline, Elapsed
    <3>4. Late(hook[c].left) = hook[c].left - 1
      BY DEF MeetsDeadline, Late, Overdue
    <3> QED BY <2>1, <3>1, <3>2, <3>3, <3>4 DEF MeetsDeadline
  <2>2. CASE hook[c].pc \notin {"waiting", "pausing"}
    <3>1. hook'[c] = hook[c]
      BY <2>2 DEF Tick
    <3> QED BY <3>1
  <2> QED BY <2>1, <2>2
<1>2. hook' = [c \in Calls |-> hook'[c]]
  BY DEF Tick
<1>3. \A c \in Calls : MeetsDeadline(hook[c])'
  BY <1>1 DEF MeetsDeadline
<1> QED BY <1>2, <1>3 DEF TimersMeetDeadline

LEMMA StepKeepsTimers == TimersMeetDeadline /\ [Next]_vars => TimersMeetDeadline'
<1> SUFFICES ASSUME TimersMeetDeadline, [Next]_vars PROVE TimersMeetDeadline'
  OBVIOUS
<1>1. CASE UNCHANGED hook
  BY <1>1 DEF TimersMeetDeadline, MeetsDeadline
<1>2. ASSUME NEW c \in Calls, DenyProtected(c) \/ NoSession(c) \/ Unread(c)
      PROVE  TimersMeetDeadline'
  BY <1>2, FinishKeepsTimers DEF DenyProtected, NoSession, Unread, EndsUnasked
<1>3. ASSUME NEW c \in Calls, Begin(c)
      PROVE  TimersMeetDeadline'
  <2>1. Patience(c) \in Nat
    BY HookAssumption DEF HookAssumption, Patience
  <2> QED BY <1>3, <2>1, SendKeepsTimers DEF Begin
<1>4. ASSUME NEW c \in Calls, HookStep(c)
      PROVE  TimersMeetDeadline'
  BY <1>4, HookStepKeepsTimers
<1>5. CASE Tick
  BY <1>5, TickKeepsTimers
<1> QED BY <1>1, <1>2, <1>3, <1>4, <1>5 DEF Next, vars, hookVars

(* No script is later than its watchdog and the half second that a last    *)
(* request gets: "It never hangs" (explainit-hook.js:18).                  *)
THEOREM NobodyHangs == Spec => []NeverHangs
<1>1. TimersMeetDeadline => NeverHangs
  BY DEF TimersMeetDeadline, MeetsDeadline, NeverHangs
<1> QED BY <1>1, TimersInit, StepKeepsTimers, PTL DEF Spec

(* Neither time nor work gets past its bound, for any number of calls:      *)
(* explainit-hook.js:475-499 and the cap of server.ts:31-36.               *)
THEOREM StaysWithinBounds == Spec => []WithinBounds
<1>1. NeverHangs /\ CapOnWork => WithinBounds
  BY DEF WithinBounds
<1> QED BY <1>1, WorkIsCapped, NobodyHangs, PTL
-----------------------------------------------------------------------------
(* An id belongs to the one call it was made for; what a connection and a  *)
(* script speak about is theirs, and a decision that is kept or under way  *)
(* is one that was made for the call.                                      *)
Own(c, request) == request = Post \/ (request \in Ids /\ origin[request] = {c})

AnswerFits(c, answer) ==
    \/ answer.kind = "decision" /\ answer.decision \in Decisions \cap said[c]
    \/ answer.kind = "accepted" /\ answer.id \in Ids /\ origin[answer.id] = {c}
    \/ answer.kind \in {"pending", "refused"}

LinkFits(c, l) ==
    \/ l.at \in {"quiet", "lost"}
    \/ l.at = "sent" /\ Own(c, l.request)
    \/ /\ l.at = "held" /\ l = Held(l.request, l.id, l.wait)
       /\ l.id \in Ids /\ origin[l.id] = {c}
       /\ l.request \in {Post, l.id}
       /\ l.wait \in Nat
    \/ l.at = "back" /\ AnswerFits(c, l.answer)

PrintsFit(c) == PrintedFor(c) =>
    /\ out[c] = "allow" => "allow" \in said[c]
    /\ out[c] = "nothing" =>
          \/ "none" \in said[c]
          \/ c \in alone \cup unread
          \/ opts[c].agent = "codex" /\ said[c] \cap {"allow", "ask"} # {}
          \/ opts[c].agent = "codex" /\ opts[c].unresponsive = "passthrough"
    /\ out[c] = "deny" => "deny" \in said[c] \/ opts[c].agent = "codex"

OnCalls(f) == f = [c \in Calls |-> f[c]]

Shapes ==
    /\ DecidingIsPending
    /\ origin \in [Ids -> SUBSET Calls]
    /\ said \in [Calls -> SUBSET Decisions]
    /\ opts \in [Calls -> Options]
    /\ OnCalls(link) /\ OnCalls(hook) /\ OnCalls(out)

DecisionsFit == \A id \in Ids : \A c \in origin[id] :
                    pending[id].state \in Decisions => pending[id].state \in said[c]
LinksFit == \A c \in Calls : LinkFits(c, link[c]) /\ Own(c, hook[c].id)
Ownership == Shapes /\ DecisionsFit /\ LinksFit /\ \A c \in Calls : PrintsFit(c)

(* Ids are not given away, and what was said stays said.                   *)
LEMMA OwnersStay ==
    ASSUME Ownership, [Next]_vars
    PROVE  /\ \A id \in Ids : origin[id] # {} => origin'[id] = origin[id]
           /\ \A c \in Calls : said[c] \subseteq said'[c]
           /\ origin' \in [Ids -> SUBSET Calls]
           /\ said' \in [Calls -> SUBSET Decisions]
           /\ opts' = opts
<1> USE DEF Ownership, Shapes
<1>0. ASSUME NEW c \in Calls, NEW id \in Fresh, Register(c, id)
      PROVE  /\ \A i \in Ids : origin[i] # {} => origin'[i] = origin[i]
             /\ origin' \in [Ids -> SUBSET Calls]
  BY <1>0 DEF Register, Fresh
<1>1. ASSUME NEW c \in Calls,
             \/ RefuseBody(c) \/ HoldExpires(c) \/ Disconnect(c) \/ \E id \in Ids : ReceivePoll(c, id)
      PROVE  UNCHANGED <<origin, said>>
  BY <1>1 DEF RefuseBody, HoldExpires, Disconnect, ReceivePoll
<1>2. ASSUME NEW c \in Calls, TooBusy(c) \/ DenyProtected(c) \/ NoSession(c) \/ Unread(c)
      PROVE  /\ origin' = origin
             /\ \A x \in Calls : said[x] \subseteq said'[x]
             /\ said' \in [Calls -> SUBSET Decisions]
  BY <1>2 DEF TooBusy, DenyProtected, NoSession, Unread, EndsUnasked, Decisions
<1>3. ASSUME NEW c \in Calls, ReceivePost(c) \/ ReadAbandoned(c)
      PROVE  /\ said' = said
             /\ \A i \in Ids : origin[i] # {} => origin'[i] = origin[i]
             /\ origin' \in [Ids -> SUBSET Calls]
  <2>1. said' = said
    BY <1>3 DEF ReceivePost, ReadAbandoned
  <2>2. origin' = origin \/ \E id \in Fresh : Register(c, id)
    BY <1>3 DEF ReceivePost, ReadAbandoned
  <2> QED BY <1>0, <2>1, <2>2
<1>4. ASSUME NEW id \in Ids, NEW result \in Results, Decide(id, result)
      PROVE  /\ origin' = origin
             /\ \A c \in Calls : said[c] \subseteq said'[c]
             /\ said' \in [Calls -> SUBSET Decisions]
  <2>1. result # "error" => result \in Decisions
    BY ServerAssumption DEF ServerAssumption, Decisions
  <2> QED BY <1>4, <2>1 DEF Decide
<1>5. ASSUME Sweep \/ Stop \/ Start \/ Freeze \/ Thaw
      PROVE  UNCHANGED <<origin, said>>
  BY <1>5 DEF Sweep, Stop, Start, Freeze, Thaw
<1>6. ASSUME NEW c \in Calls, Begin(c) \/ HookStep(c)
      PROVE  UNCHANGED <<origin, said>>
  BY <1>6 DEF Begin, HookStep, ReadAnswer, ConnectionLost, Retry, Timeout
<1>7. ASSUME Tick \/ UNCHANGED vars
      PROVE  UNCHANGED <<origin, said>>
  BY <1>7 DEF Tick, vars, serverVars
<1>8. opts' = opts
  <2>1. ASSUME NEW c \in Calls, DenyProtected(c) \/ NoSession(c) \/ Unread(c) \/ Begin(c) \/ HookStep(c)
        PROVE  opts' = opts
    BY <2>1 DEF DenyProtected, NoSession, Unread, EndsUnasked, Begin, HookStep, ReadAnswer, ConnectionLost, Retry, Timeout
  <2> QED BY <2>1 DEF Next, Tick, vars, hookVars
<1>9. CASE ServerStep
  BY <1>1, <1>2, <1>3, <1>4, <1>5, <1>8, <1>9 DEF ServerStep, Receive
<1> QED BY <1>2, <1>6, <1>7, <1>8, <1>9 DEF Next

(* What a script or a connection speaks about stays its call's.            *)
LEMMA SameOwn ==
    ASSUME Ownership, [Next]_vars, NEW c \in Calls, NEW request, Own(c, request)
    PROVE  Own(c, request)'
BY OwnersStay DEF Own

LEMMA SameLinkFits ==
    ASSUME Ownership, [Next]_vars, NEW c \in Calls, NEW l, LinkFits(c, l)
    PROVE  LinkFits(c, l)'
<1>1. /\ \A id \in Ids : origin[id] # {} => origin'[id] = origin[id]
      /\ said[c] \subseteq said'[c]
  BY OwnersStay
<1>2. CASE l.at \in {"quiet", "lost"}
  BY <1>2 DEF LinkFits
<1>3. CASE l.at = "sent"
  <2>1. Own(c, l.request)
    BY <1>3 DEF LinkFits
  <2> QED BY <1>3, <2>1, SameOwn DEF LinkFits
<1>4. CASE l.at = "held"
  BY <1>1, <1>4 DEF LinkFits
<1>5. CASE l.at = "back"
  BY <1>1, <1>5 DEF LinkFits, AnswerFits
<1>6. l.at \in {"quiet", "lost", "sent", "held", "back"}
  BY DEF LinkFits
<1> QED BY <1>2, <1>3, <1>4, <1>5, <1>6

LEMMA ShapesStep ==
    ASSUME WorkInvariant, Ownership, [Next]_vars
    PROVE  Shapes'
<1> USE DEF Ownership, Shapes
<1>1. /\ DecidingIsPending'
      /\ origin' \in [Ids -> SUBSET Calls] /\ said' \in [Calls -> SUBSET Decisions]
      /\ opts' \in [Calls -> Options]
  BY StepKeepsWork, OwnersStay DEF WorkInvariant
<1> DEFINE Functions == OnCalls(link') /\ OnCalls(hook') /\ OnCalls(out')
<1>2. ASSUME NEW c \in Calls, NEW text, Finish(c, text), link' = link \/ Hang(c)
      PROVE  Functions
  BY <1>2 DEF Finish, Hang, OnCalls
<1>3. ASSUME NEW c \in Calls, NEW request, NEW left, NEW retried, NEW port,
             Send(c, request, left, retried, port), out' = out
      PROVE  Functions
  BY <1>3 DEF Send, OnCalls
<1>4. ASSUME ServerStep, UNCHANGED hookVars PROVE Functions
  <2>1. OnCalls(hook') /\ OnCalls(out')
    BY <1>4 DEF hookVars
  <2>2. OnCalls(link')
    <3>1. ASSUME NEW c \in Calls, TooBusy(c) \/ RefuseBody(c) \/ HoldExpires(c) \/ Disconnect(c)
          PROVE  OnCalls(link')
      BY <3>1 DEF TooBusy, RefuseBody, HoldExpires, Disconnect, Answer, OnCalls
    <3>2. ASSUME NEW c \in Calls,
                 ReceivePost(c) \/ ReadAbandoned(c) \/ \E id \in Ids : ReceivePoll(c, id)
          PROVE  OnCalls(link')
      BY <3>2 DEF ReceivePost, ReadAbandoned, ReceivePoll, Answer, OnCalls
    <3>3. ASSUME NEW id \in Ids, NEW result \in Results, Decide(id, result)
          PROVE  OnCalls(link')
      BY <3>3 DEF Decide, OnCalls
    <3>4. ASSUME Sweep \/ Stop \/ Start \/ Freeze \/ Thaw PROVE OnCalls(link')
      BY <3>4 DEF Sweep, Stop, Start, Freeze, Thaw, OnCalls
    <3> QED BY <1>4, <3>1, <3>2, <3>3, <3>4 DEF ServerStep, Receive
  <2> QED BY <2>1, <2>2
<1>5. ASSUME NEW c \in Calls, DenyProtected(c) \/ NoSession(c) \/ Unread(c) \/ Begin(c)
      PROVE  Functions
  BY <1>2, <1>3, <1>5 DEF DenyProtected, NoSession, Unread, EndsUnasked, Begin
<1>6. ASSUME NEW c \in Calls, HookStep(c)
      PROVE  Functions
  <2>1. ASSUME ReadAnswer(c) PROVE Functions
    BY <1>2, <1>3, <2>1 DEF ReadAnswer, GiveUp
  <2>2. ASSUME ConnectionLost(c) PROVE Functions
    BY <1>2, <2>2 DEF ConnectionLost, GiveUp, Hang, OnCalls
  <2>3. ASSUME Retry(c) \/ Timeout(c) PROVE Functions
    BY <1>2, <1>3, <2>3 DEF Retry, Timeout, GiveUp
  <2> QED BY <1>6, <2>1, <2>2, <2>3 DEF HookStep
<1>7. ASSUME Tick \/ UNCHANGED vars PROVE Functions
  <2>1. ASSUME Tick PROVE Functions
    BY <2>1 DEF Tick, OnCalls
  <2>2. ASSUME UNCHANGED vars PROVE Functions
    BY <2>2 DEF vars, serverVars, hookVars
  <2> QED BY <1>7, <2>1, <2>2
<1>8. Functions
  BY <1>4, <1>5, <1>6, <1>7 DEF Next
<1> QED BY <1>1, <1>8 DEF OnCalls

(* A kept decision is one that was made for the call of its id.            *)
LEMMA DecisionsStep ==
    ASSUME Ownership, [Next]_vars
    PROVE  DecisionsFit'
<1> USE DEF Ownership, Shapes, DecidingIsPending
<1>1. SUFFICES ASSUME NEW id \in Ids, NEW c \in origin'[id], pending'[id].state \in Decisions
               PROVE  pending'[id].state \in said'[c]
  BY DEF DecisionsFit
<1>2. said[c] \subseteq said'[c] /\ (origin[id] # {} => origin'[id] = origin[id]) /\ c \in Calls
  BY OwnersStay
<1>3. ASSUME origin'[id] = origin[id], pending'[id].state = pending[id].state
      PROVE  pending'[id].state \in said'[c]
  BY <1>1, <1>2, <1>3 DEF DecisionsFit
<1>4. ASSUME UNCHANGED <<pending, origin>>
      PROVE  pending'[id].state \in said'[c]
  BY <1>3, <1>4
<1>5. ASSUME NEW x \in Calls, NEW new \in Ids, Register(x, new)
      PROVE  pending'[id].state \in said'[c]
  <2>1. id # new
    BY <1>1, <1>5 DEF Register, Entry, Decisions
  <2> QED BY <1>3, <1>5, <2>1 DEF Register
<1>6. ASSUME NEW x \in Calls, \/ TooBusy(x) \/ RefuseBody(x) \/ HoldExpires(x) \/ Disconnect(x)
                              \/ \E i \in Ids : ReceivePoll(x, i)
      PROVE  pending'[id].state \in said'[c]
  BY <1>4, <1>6 DEF TooBusy, RefuseBody, HoldExpires, Disconnect, ReceivePoll
<1>7. ASSUME NEW x \in Calls, ReceivePost(x) \/ ReadAbandoned(x)
      PROVE  pending'[id].state \in said'[c]
  BY <1>4, <1>5, <1>7 DEF ReceivePost, ReadAbandoned, Fresh
<1>8. ASSUME NEW i \in Ids, NEW result \in Results, Decide(i, result)
      PROVE  pending'[id].state \in said'[c]
  <2>1. origin' = origin
    BY <1>8 DEF Decide
  <2>2. CASE i = id /\ pending'[id] = Entry(result)
    <3>1. result # "error" /\ pending'[id].state = result
      BY <1>1, <2>2 DEF Entry, Decisions
    <3> QED BY <1>2, <1>8, <2>1, <2>2, <3>1 DEF Decide
  <2>3. CASE pending'[id] = Unknown
    BY <1>1, <2>3 DEF Unknown, Decisions
  <2>4. pending'[id] = pending[id] \/ (i = id /\ pending'[id] = Entry(result))
                                   \/ pending'[id] = Unknown
    BY <1>8 DEF Decide
  <2> QED BY <1>3, <2>1, <2>2, <2>3, <2>4
<1>9. CASE Sweep \/ Stop
  <2>1. pending'[id] = pending[id] \/ pending'[id] = Unknown
    BY <1>9 DEF Sweep, Stop
  <2>2. origin' = origin
    BY <1>9 DEF Sweep, Stop
  <2> QED BY <1>1, <1>3, <2>1, <2>2 DEF Unknown, Decisions
<1>10. CASE Start \/ Freeze \/ Thaw
  BY <1>4, <1>10 DEF Start, Freeze, Thaw
<1>11. ASSUME NEW x \in Calls, DenyProtected(x) \/ NoSession(x) \/ Unread(x) \/ Begin(x) \/ HookStep(x)
       PROVE  UNCHANGED <<pending, origin>>
  BY <1>11 DEF DenyProtected, NoSession, Unread, EndsUnasked, Begin, HookStep, ReadAnswer, ConnectionLost, Retry, Timeout
<1>12. CASE Tick
  <2>1. pending'[id] = pending[id] \/ pending'[id] = [pending[id] EXCEPT !.age = @ + 1]
    BY <1>12 DEF Tick
  <2>2. pending'[id].state = pending[id].state /\ origin' = origin
    BY <1>12, <2>1 DEF Tick
  <2> QED BY <1>3, <2>2
<1>13. CASE UNCHANGED vars
  BY <1>4, <1>13 DEF vars, serverVars
<1>14. CASE ServerStep
  BY <1>6, <1>7, <1>8, <1>9, <1>10, <1>14 DEF ServerStep, Receive
<1> QED BY <1>4, <1>11, <1>12, <1>13, <1>14 DEF Next

(* The steps of the server leave every connection with what is its call's. *)
LEMMA ServerLinks ==
    ASSUME Ownership, [Next]_vars, ServerStep, NEW c \in Calls, NEW l, l = link'[c]
    PROVE  LinkFits(c, l)'
<1> USE DEF Ownership, Shapes, OnCalls
<1>1. LinkFits(c, link[c]) /\ Own(c, hook[c].id)
  BY DEF LinksFit
<1>2. ASSUME link'[c] = link[c]
      PROVE  LinkFits(c, l)'
  BY <1>1, <1>2, SameLinkFits
<1>3. /\ \A id \in Ids : origin[id] # {} => origin'[id] = origin[id]
      /\ said[c] \subseteq said'[c] /\ said'[c] \subseteq Decisions
  BY OwnersStay
<1>4. ASSUME NEW answer, AnswerFits(c, answer)', l = Back(answer)
      PROVE  LinkFits(c, l)'
  BY <1>4 DEF LinkFits, Back
<1>5. ASSUME l = Lost
      PROVE  LinkFits(c, l)'
  BY <1>5 DEF LinkFits, Lost
<1>6. ASSUME NEW id \in Ids, origin'[id] = {c}, NEW request \in {Post, id}, NEW wait \in Nat,
             l = Held(request, id, wait)
      PROVE  LinkFits(c, l)'
  BY <1>6 DEF LinkFits, Held
<1>7. CASE TooBusy(c)
  <2>1. l = Back(Decided("ask")) /\ "ask" \in said'[c]
    BY <1>7 DEF TooBusy, Answer
  <2>2. AnswerFits(c, Decided("ask"))'
    BY <1>3, <2>1 DEF AnswerFits, Decided
  <2> QED BY <1>4, <2>1, <2>2
<1>8. CASE RefuseBody(c)
  <2>1. l = Back(Refused)
    BY <1>8 DEF RefuseBody, Answer
  <2>2. AnswerFits(c, Refused)'
    BY DEF AnswerFits, Refused
  <2> QED BY <1>4, <2>1, <2>2
<1>9. CASE ReceivePost(c)
  <2>1. PICK id \in Fresh : Register(c, id) /\ link' = [link EXCEPT ![c] = Held(Post, id, FastPath)]
    BY <1>9 DEF ReceivePost
  <2>2. l = Held(Post, id, FastPath) /\ origin'[id] = {c} /\ id \in Ids
    BY <2>1 DEF Register, Fresh
  <2>3. FastPath \in Nat
    BY ServerAssumption DEF ServerAssumption
  <2> QED BY <1>6, <2>2, <2>3
<1>10. ASSUME NEW id \in Ids, ReceivePoll(c, id)
       PROVE  LinkFits(c, l)'
  <2>1. origin[id] = {c}
    <3>1. Own(c, id) /\ id # Post
      BY <1>1, <1>10 DEF ReceivePoll, Requested, LinkFits, Ids, Post
    <3> QED BY <3>1 DEF Own
  <2>2. CASE Answer(c, Refused)
    <3>1. l = Back(Refused) /\ AnswerFits(c, Refused)'
      BY <2>2 DEF Answer, AnswerFits, Refused
    <3> QED BY <1>4, <3>1
  <2>3. CASE Done(id) /\ Answer(c, Outcome(pending[id].state))
    <3>1. pending[id].state \in Decisions => pending[id].state \in said'[c]
      BY <1>3, <2>1 DEF DecisionsFit
    <3> DEFINE answer == Outcome(pending[id].state)
    <3>2. \/ pending[id].state = "error" /\ answer = Refused
          \/ pending[id].state \in Decisions /\ answer = Decided(pending[id].state)
      BY <2>3 DEF Done, Outcome, Decisions
    <3>3. PICK a : a = answer
      OBVIOUS
    <3>4. AnswerFits(c, a)'
      BY <3>1, <3>2, <3>3 DEF AnswerFits, Refused, Decided
    <3>5. l = Back(a)
      BY <2>3, <3>3 DEF Answer
    <3> QED BY <1>4, <3>4, <3>5
  <2>4. CASE link' = [link EXCEPT ![c] = Held(id, id, LongPoll)]
    <3>1. LongPoll \in Nat
      BY ServerAssumption DEF ServerAssumption
    <3>2. origin'[id] = {c}
      BY <1>3, <2>1
    <3> QED BY <1>6, <2>4, <3>1, <3>2
  <2> QED BY <1>10, <2>2, <2>3, <2>4 DEF ReceivePoll
<1>11. ASSUME NEW id \in Ids, NEW result \in Results, Decide(id, result)
       PROVE  LinkFits(c, l)'
  <2>1. CASE ~Waits(c, id)
    BY <1>2, <1>11, <2>1 DEF Decide
  <2>2. CASE Waits(c, id)
    <3>1. origin[id] = {c}
      BY <1>1, <2>2 DEF Waits, LinkFits
    <3>2. l = Back(Outcome(result))
      BY <1>11, <2>2 DEF Decide
    <3>3. result = "error" \/ (result \in Decisions /\ result \in said'[c])
      <4>1. result = "error" \/ result \in Decisions
        BY ServerAssumption DEF ServerAssumption, Decisions
      <4> QED BY <1>11, <3>1, <4>1 DEF Decide
    <3>4. AnswerFits(c, Outcome(result))'
      BY <3>3 DEF AnswerFits, Outcome, Refused, Decided, Decisions
    <3> QED BY <1>4, <3>2, <3>4
  <2> QED BY <2>1, <2>2
<1>12. CASE HoldExpires(c)
  <2>1. link[c].id \in Ids /\ origin'[link[c].id] = {c}
    BY <1>1, <1>3, <1>12 DEF HoldExpires, LinkFits
  <2>2. PICK a : a = IF link[c].request = Post THEN Accepted(link[c].id) ELSE Heartbeat
    OBVIOUS
  <2>3. l = Back(a)
    BY <1>12, <2>2 DEF HoldExpires, Answer
  <2>4. AnswerFits(c, a)'
    BY <2>1, <2>2 DEF AnswerFits, Accepted, Heartbeat
  <2> QED BY <1>4, <2>3, <2>4
<1>13. CASE Stop
  BY <1>2, <1>5, <1>13 DEF Stop, Break
<1>14. CASE Disconnect(c)
  BY <1>5, <1>14 DEF Disconnect
<1>15. ASSUME NEW x \in Calls, ReadAbandoned(x)
       PROVE  link'[c] = link[c]
  BY <1>15 DEF ReadAbandoned
<1>16. ASSUME NEW x \in Calls, x # c,
              Receive(x) \/ RefuseBody(x) \/ HoldExpires(x) \/ Disconnect(x)
       PROVE  link'[c] = link[c]
  BY <1>16 DEF Receive, TooBusy, ReceivePost, ReceivePoll, RefuseBody, HoldExpires, Disconnect, Answer
<1>17. CASE Sweep \/ Start \/ Freeze \/ Thaw
  BY <1>2, <1>17 DEF Sweep, Start, Freeze, Thaw
<1> QED BY <1>2, <1>7, <1>8, <1>9, <1>10, <1>11, <1>12, <1>13, <1>14, <1>15, <1>16, <1>17
        DEF ServerStep, Receive

(* A script asks about its own id only, on its own connection.             *)
LEMMA LinksStep ==
    ASSUME Ownership, [Next]_vars
    PROVE  LinksFit'
<1> SUFFICES ASSUME NEW c \in Calls, NEW l, l = link'[c], NEW i, i = hook'[c].id
             PROVE  LinkFits(c, l)' /\ Own(c, i)'
  BY DEF LinksFit
<1> USE DEF Ownership, Shapes, OnCalls
<1>1. LinkFits(c, link[c]) /\ Own(c, hook[c].id)
  BY DEF LinksFit
<1>2. ASSUME link'[c] = link[c]
      PROVE  LinkFits(c, l)'
  BY <1>1, <1>2, SameLinkFits
<1>3. ASSUME hook'[c].id = hook[c].id
      PROVE  Own(c, i)'
  BY <1>1, <1>3, SameOwn
<1>4. ASSUME Hang(c)
      PROVE  LinkFits(c, l)'
  BY <1>4 DEF Hang, LinkFits, Quiet
<1>5. ASSUME NEW text, Finish(c, text)
      PROVE  Own(c, i)'
  BY <1>5 DEF Finish, Ended, Script, Own
<1>6. ASSUME NEW request, Own(c, request), NEW left, NEW retried, NEW port,
             Send(c, request, left, retried, port)
      PROVE  LinkFits(c, l)' /\ Own(c, i)'
  <2>1. Own(c, request)'
    BY <1>6, SameOwn
  <2>2. i = request /\ l \in {Sent(request), Lost}
    BY <1>6 DEF Send, Script
  <2> QED BY <2>1, <2>2 DEF LinkFits, Sent, Lost
<1>7. CASE ServerStep /\ UNCHANGED hookVars
  BY <1>3, <1>7, ServerLinks DEF hookVars
<1>8. CASE DenyProtected(c) \/ NoSession(c) \/ Unread(c)
  BY <1>2, <1>5, <1>8 DEF DenyProtected, NoSession, Unread, EndsUnasked
<1>9. CASE Begin(c)
  BY <1>6, <1>9 DEF Begin, Own
<1>10. CASE ReadAnswer(c)
  <2>1. LinkFits(c, link[c]) /\ link[c].at = "back"
    BY <1>1, <1>10 DEF ReadAnswer
  <2>2. AnswerFits(c, link[c].answer)
    BY <2>1 DEF LinkFits
  <2>3. link[c].answer.kind = "accepted" => Own(c, link[c].answer.id)
    BY <2>2 DEF AnswerFits, Own
  <2> QED BY <1>1, <1>4, <1>5, <1>6, <1>10, <2>3 DEF ReadAnswer, GiveUp
<1>11. CASE ConnectionLost(c)
  <2>1. CASE hook' = [hook EXCEPT ![c] =
                 Script("pausing", @.id, @.left, 1, @.retried, @.port)]
    BY <1>3, <1>4, <1>11, <2>1 DEF ConnectionLost, Script
  <2> QED BY <1>4, <1>5, <1>11, <2>1 DEF ConnectionLost, GiveUp
<1>12. CASE Retry(c)
  BY <1>1, <1>6, <1>12 DEF Retry
<1>13. CASE Timeout(c)
  BY <1>4, <1>5, <1>13 DEF Timeout, GiveUp
<1>14. ASSUME NEW x \in Calls, x # c,
              DenyProtected(x) \/ NoSession(x) \/ Unread(x) \/ Begin(x) \/ HookStep(x)
       PROVE  link'[c] = link[c] /\ hook'[c] = hook[c]
  BY <1>14 DEF DenyProtected, NoSession, Unread, EndsUnasked, Begin, HookStep, ReadAnswer, ConnectionLost, Retry, Timeout,
               Finish, GiveUp, Send, Hang
<1>15. CASE Tick
  <2>1. hook'[c].id = hook[c].id
    BY <1>15 DEF Tick, Script
  <2>2. CASE link[c].at # "held"
    BY <1>2, <1>3, <1>15, <2>1, <2>2 DEF Tick
  <2>3. CASE link[c].at = "held"
    <3>1. /\ link[c] = Held(link[c].request, link[c].id, link[c].wait)
          /\ link[c].id \in Ids /\ origin[link[c].id] = {c}
          /\ link[c].request \in {Post, link[c].id} /\ link[c].wait \in Nat
      BY <1>1, <2>3 DEF LinkFits
    <3>2. l = Held(link[c].request, link[c].id, Elapsed(link[c].wait))
      BY <1>15, <2>3, <3>1 DEF Tick, Held
    <3>3. Elapsed(link[c].wait) \in Nat
      BY <3>1 DEF Elapsed
    <3>4. LinkFits(c, l)
      BY <3>1, <3>2, <3>3 DEF LinkFits, Held
    <3> QED BY <1>3, <2>1, <3>4, SameLinkFits
  <2> QED BY <2>2, <2>3
<1>16. CASE UNCHANGED vars
  BY <1>2, <1>3, <1>16 DEF vars, serverVars, hookVars
<1> QED BY <1>2, <1>3, <1>7, <1>8, <1>9, <1>10, <1>11, <1>12, <1>13, <1>14, <1>15, <1>16
        DEF Next, HookStep

(* What a script prints is what it was told, or a failure to decide.       *)
LEMMA UnaskedStay == [Next]_vars => alone \subseteq alone' /\ unread \subseteq unread'
  BY DEF Next, vars, hookVars, unasked, Tick, DenyProtected, NoSession, Unread, Begin, HookStep,
         ReadAnswer, ConnectionLost, Retry, Timeout

LEMMA PrintsStep ==
    ASSUME Ownership, [Next]_vars, NEW c \in Calls
    PROVE  PrintsFit(c)'
<1> USE DEF Ownership, Shapes, OnCalls
<1>1. /\ said[c] \subseteq said'[c] /\ opts' = opts /\ opts[c] \in Options
      /\ alone \subseteq alone' /\ unread \subseteq unread'
  BY OwnersStay, UnaskedStay
<1>2. ASSUME hook'[c] = hook[c], out'[c] = out[c]
      PROVE  PrintsFit(c)'
  BY <1>1, <1>2 DEF PrintsFit, PrintedFor, Pre
<1>3. ASSUME hook'[c].pc # "done"
      PROVE  PrintsFit(c)'
  BY <1>3 DEF PrintsFit, PrintedFor
<1>4. ASSUME GiveUp(c)
      PROVE  PrintsFit(c)'
  BY <1>1, <1>4 DEF GiveUp, Finish, UnresponsiveOut, DecisionOut, PrintsFit, PrintedFor, Pre, Options
<1>5. ASSUME NEW request, NEW left, NEW retried, NEW port, Send(c, request, left, retried, port)
      PROVE  hook'[c].pc # "done"
  BY <1>5 DEF Send, Script
<1>6. CASE ServerStep /\ UNCHANGED hookVars
  BY <1>2, <1>6 DEF hookVars
<1>7. CASE DenyProtected(c)
  BY <1>1, <1>7 DEF DenyProtected, Finish, PrintsFit, PrintedFor
<1>8. CASE NoSession(c) \/ Unread(c)
  BY <1>1, <1>8 DEF NoSession, Unread, EndsUnasked, Finish, PrintsFit, PrintedFor
<1>9. CASE Begin(c)
  BY <1>3, <1>5, <1>9 DEF Begin
<1>10. CASE ReadAnswer(c)
  <2>1. LinkFits(c, link[c]) /\ link[c].at = "back"
    BY <1>10 DEF LinksFit, ReadAnswer
  <2>2. AnswerFits(c, link[c].answer)
    BY <2>1 DEF LinkFits
  <2>3. ASSUME ~Pre(c)
        PROVE  PrintsFit(c)'
    BY <1>1, <2>3 DEF PrintsFit, PrintedFor, Pre
  <2>4. ASSUME Pre(c), link[c].answer.kind = "decision",
               Finish(c, DecisionOut(opts[c].agent, link[c].answer.decision))
        PROVE  PrintsFit(c)'
    <3>1. PICK d \in Decisions : d = link[c].answer.decision /\ d \in said[c]
      BY <2>2, <2>4 DEF AnswerFits
    <3>2. out'[c] = DecisionOut(opts[c].agent, d)
      BY <2>4, <3>1 DEF Finish
    <3>3. CASE opts[c].agent = "claude"
      BY <1>1, <3>1, <3>2, <3>3 DEF DecisionOut, PrintsFit, Decisions
    <3>4. CASE opts[c].agent = "codex"
      BY <1>1, <3>1, <3>2, <3>4 DEF DecisionOut, PrintsFit, Decisions
    <3> QED BY <1>1, <3>3, <3>4 DEF Options
  <2> QED BY <1>3, <1>4, <1>5, <1>10, <2>3, <2>4 DEF ReadAnswer
<1>11. CASE ConnectionLost(c)
  BY <1>3, <1>4, <1>11 DEF ConnectionLost, Script
<1>12. CASE Retry(c)
  BY <1>3, <1>5, <1>12 DEF Retry
<1>13. CASE Timeout(c)
  BY <1>4, <1>13 DEF Timeout
<1>14. ASSUME NEW x \in Calls, x # c,
              DenyProtected(x) \/ NoSession(x) \/ Unread(x) \/ Begin(x) \/ HookStep(x)
       PROVE  hook'[c] = hook[c] /\ out'[c] = out[c]
  BY <1>14 DEF DenyProtected, NoSession, Unread, EndsUnasked, Begin, HookStep, ReadAnswer, ConnectionLost, Retry, Timeout,
               Finish, GiveUp, Send
<1>15. CASE Tick
  <2>1. hook'[c].pc = hook[c].pc /\ out'[c] = out[c]
    BY <1>15 DEF Tick, Script
  <2> QED BY <1>1, <2>1 DEF PrintsFit, PrintedFor, Pre
<1>16. CASE UNCHANGED vars
  BY <1>2, <1>16 DEF vars, hookVars
<1> QED BY <1>2, <1>6, <1>7, <1>8, <1>9, <1>10, <1>11, <1>12, <1>13, <1>14, <1>15, <1>16
        DEF Next, HookStep

LEMMA OwnershipInit == Init => Ownership
<1> SUFFICES ASSUME Init PROVE Ownership
  OBVIOUS
<1>1. DecidingIsPending
  BY WorkInit DEF WorkInvariant
<1>2. opts \in [Calls -> Options]
  BY HookAssumption DEF HookAssumption, Init
<1>3. \A c \in Calls : hook[c] = Idle /\ link[c] = Quiet
  BY DEF Init, ServerInit
<1>4. LinksFit
  BY <1>3 DEF LinksFit, LinkFits, Own, Idle, Quiet, Script
<1>5. DecisionsFit
  BY DEF Init, ServerInit, DecisionsFit
<1>6. \A c \in Calls : PrintsFit(c)
  BY <1>3 DEF PrintsFit, PrintedFor, Idle, Script
<1>7. OnCalls(link) /\ OnCalls(hook) /\ OnCalls(out)
  BY DEF Init, ServerInit, OnCalls
<1>8. origin \in [Ids -> SUBSET Calls] /\ said \in [Calls -> SUBSET Decisions]
  BY DEF Init, ServerInit
<1> QED BY <1>1, <1>2, <1>4, <1>5, <1>6, <1>7, <1>8 DEF Ownership, Shapes

LEMMA OwnershipStep == WorkInvariant /\ Ownership /\ [Next]_vars => Ownership'
BY ShapesStep, DecisionsStep, LinksStep, PrintsStep DEF Ownership

(* Whatever breaks, times out, is retried, forgotten or answered late: a   *)
(* script that has asked never passes on an acceptance or a silence that   *)
(* was not decided for its own call; one that has not asked is silent only *)
(* because no window ran, or because it could not read its input or the    *)
(* window's session file (explainit-hook.js:10-21, server.ts:274-366).     *)
THEOREM NothingUncheckedPasses == Spec => []NothingPassesUnchecked
<1>1. Ownership => NothingPassesUnchecked
  BY DEF Ownership, PrintsFit, NothingPassesUnchecked
<1> QED BY <1>1, WorkInit, StepKeepsWork, OwnershipInit, OwnershipStep, PTL DEF Spec
-----------------------------------------------------------------------------
(* While nothing breaks for a call, its window is up, its question is with *)
(* the server well before the watchdog, and what it asks for is still      *)
(* being decided, or was decided at this very moment.                      *)
Fetchable(id) ==
    \/ Undecided(id)
    \/ pending[id].state \in Decisions /\ pending[id].age = 0

CalmLink(c) ==
    \/ /\ link[c].at = "sent" /\ link[c].request = hook[c].id
       /\ hook[c].timer = Watchdog
       /\ hook[c].id # Post => Fetchable(hook[c].id)
    \/ /\ link[c].at = "held" /\ link[c].request = hook[c].id
       /\ hook[c].timer \in Nat /\ hook[c].timer > link[c].wait
       /\ Undecided(link[c].id)
    \/ /\ link[c].at = "back"
       /\ link[c].answer.kind # "refused"
       /\ link[c].answer.kind = "accepted" => Fetchable(link[c].answer.id)
       /\ link[c].answer.kind = "pending" => hook[c].id \in Ids /\ Fetchable(hook[c].id)

Told(c) == \E d \in said[c] : out[c] = DecisionOut(opts[c].agent, d)

AtEase(c) ==
    /\ hook[c].pc # "pausing"
    /\ hook[c].pc = "waiting" => hook[c].port = epoch /\ CalmLink(c)
    /\ hook[c].pc = "done" => Told(c)
Calm(c) == c \notin disturbed => server = "up" /\ (Pre(c) => AtEase(c))

(* What was not lost may be fetched: a decision does not age before it is  *)
(* given to the script that asks for it, so the sweep does not take it.    *)
LEMMA FetchableStays ==
    ASSUME WorkInvariant, Ownership, ServerStep, NEW c \in Calls, c \notin disturbed',
           NEW id \in Ids, origin[id] = {c}, Fetchable(id)
    PROVE  Fetchable(id)'
<1> USE DEF Ownership, Shapes, DecidingIsPending
<1>1. ASSUME pending'[id] = pending[id]
      PROVE  Fetchable(id)'
  BY <1>1 DEF Fetchable, Undecided
<1>2. ASSUME NEW x \in Calls, \/ TooBusy(x) \/ RefuseBody(x) \/ HoldExpires(x) \/ Disconnect(x)
                              \/ \E i \in Ids : ReceivePoll(x, i)
      PROVE  pending' = pending
  BY <1>2 DEF TooBusy, RefuseBody, HoldExpires, Disconnect, ReceivePoll
<1>3. ASSUME NEW x \in Calls, ReceivePost(x) \/ ReadAbandoned(x)
      PROVE  pending'[id] = pending[id]
  <2>1. id \notin Fresh
    BY DEF Fresh
  <2> QED BY <1>3, <2>1 DEF ReceivePost, ReadAbandoned, Register
<1>4. ASSUME NEW i \in Ids, NEW result \in Results, Decide(i, result)
      PROVE  Fetchable(id)'
  <2>1. CASE i # id
    BY <1>1, <1>4, <2>1 DEF Decide
  <2>2. CASE i = id
    <3>1. result # "error"
      BY <1>4, <2>2 DEF Decide, Trouble
    <3>2. pending[id] # Unknown
      BY DEF Fetchable, Undecided, Unknown, Decisions
    <3>3. pending'[id] = Entry(result)
      BY <1>4, <2>2, <3>1, <3>2 DEF Decide
    <3>4. result \in Decisions
      BY <3>1, ServerAssumption DEF ServerAssumption, Decisions
    <3> QED BY <3>3, <3>4 DEF Fetchable, Entry
  <2> QED BY <2>1, <2>2
<1>5. CASE Sweep
  <2>1. ~Stale(id)
    BY ServerAssumption DEF ServerAssumption, Stale, Done, Fetchable, Undecided, Decisions
  <2> QED BY <1>1, <1>5, <2>1 DEF Sweep
<1>6. ~Stop
  BY DEF Stop, Trouble
<1>7. CASE Start \/ Freeze \/ Thaw
  BY <1>1, <1>7 DEF Start, Freeze, Thaw
<1> QED BY <1>1, <1>2, <1>3, <1>4, <1>5, <1>6, <1>7 DEF ServerStep, Receive

LEMMA CalmServer ==
    ASSUME WorkInvariant, Ownership, ServerStep, UNCHANGED hookVars,
           NEW c \in Calls, c \notin disturbed', Calm(c)
    PROVE  Calm(c)'
<1> USE DEF Ownership, Shapes, OnCalls, hookVars
<1>1. c \notin disturbed
  BY DEF ServerStep, Receive, TooBusy, ReceivePost, ReceivePoll, RefuseBody, ReadAbandoned,
         HoldExpires, Disconnect, Decide, Trouble, Sweep, Stop, Start, Freeze, Thaw
<1>2. server = "up" /\ (Pre(c) => AtEase(c))
  BY <1>1 DEF Calm
<1>3. ~Stop /\ ~Freeze /\ ~Start /\ ~Thaw /\ ~RefuseBody(c) /\ ~Disconnect(c)
  BY <1>2 DEF Stop, Freeze, Start, Thaw, RefuseBody, Disconnect, Trouble
<1>4. server' = server /\ epoch' = epoch
  BY <1>3 DEF ServerStep, Receive, TooBusy, ReceivePost, ReceivePoll, RefuseBody, ReadAbandoned,
              HoldExpires, Disconnect, Decide, Sweep
<1>5. \A x \in Calls : said[x] \subseteq said'[x]
  BY OwnersStay DEF Next
<1>6. LinkFits(c, link[c]) /\ Own(c, hook[c].id)
  BY DEF LinksFit
<1>7. SUFFICES ASSUME Pre(c), hook[c].pc = "waiting", CalmLink(c)
               PROVE  CalmLink(c)'
  BY <1>2, <1>4, <1>5 DEF Calm, AtEase, Told, Pre
<1>8. \A id \in Ids : origin[id] = {c} /\ Fetchable(id) => Fetchable(id)'
  BY FetchableStays
<1>9. hook[c].id \in Ids => origin[hook[c].id] = {c}
  BY <1>6 DEF Own, Ids, Post
<1>10. CASE link[c].at = "back"
  <2>1. link'[c] = link[c]
    BY <1>3, <1>10 DEF ServerStep, Receive, TooBusy, ReceivePost, ReceivePoll, Requested, RefuseBody,
              ReadAbandoned, HoldExpires, Disconnect, Decide, Waits, Sweep, Answer
  <2>2. AnswerFits(c, link[c].answer)
    BY <1>6, <1>10 DEF LinkFits
  <2> QED BY <1>7, <1>8, <1>9, <1>10, <2>1, <2>2 DEF CalmLink, AnswerFits
<1>11. CASE link[c].at = "sent"
  <2>1. /\ link[c].request = hook[c].id /\ hook[c].timer = Watchdog
        /\ hook[c].id # Post => Fetchable(hook[c].id)
    BY <1>7, <1>11 DEF CalmLink
  <2>2. CASE link'[c] = link[c]
    <3>1. hook[c].id # Post => Fetchable(hook[c].id)'
      BY <1>6, <1>8, <1>9, <2>1 DEF Own
    <3> QED BY <1>11, <2>1, <2>2, <3>1 DEF CalmLink
  <2>3. CASE TooBusy(c)
    BY <2>3 DEF TooBusy, Answer, Back, Decided, CalmLink
  <2>4. CASE ReceivePost(c)
    <3>1. PICK id \in Fresh : Register(c, id) /\ link' = [link EXCEPT ![c] = Held(Post, id, FastPath)]
      BY <2>4 DEF ReceivePost
    <3>2. link'[c] = Held(Post, id, FastPath) /\ id \in Ids /\ pending'[id].state = "deciding"
      BY <3>1 DEF Register, Entry, Fresh, DecidingIsPending
    <3>3. hook[c].id = Post
      BY <2>1, <2>4 DEF ReceivePost, Requested
    <3>4. Watchdog \in Nat /\ Watchdog > FastPath
      BY HookAssumption DEF HookAssumption
    <3> QED BY <2>1, <3>2, <3>3, <3>4 DEF CalmLink, Held, Undecided
  <2>5. ASSUME NEW id \in Ids, ReceivePoll(c, id)
        PROVE  CalmLink(c)'
    <3>1. hook[c].id = id /\ id # Post /\ Fetchable(id) /\ pending' = pending
      BY <2>1, <2>5 DEF ReceivePoll, Requested, Ids, Post
    <3>2. CASE Undecided(id) /\ link' = [link EXCEPT ![c] = Held(id, id, LongPoll)]
      <4>1. Watchdog \in Nat /\ Watchdog > LongPoll
        BY HookAssumption DEF HookAssumption
      <4> QED BY <2>1, <3>1, <3>2, <4>1 DEF CalmLink, Held, Undecided
    <3>3. CASE Done(id) /\ Answer(c, Outcome(pending[id].state))
      <4>1. pending[id].state \in Decisions
        BY <3>1, <3>3 DEF Fetchable, Undecided, Done, Decisions
      <4>2. link'[c] = Back(Decided(pending[id].state))
        BY <3>3, <4>1 DEF Answer, Outcome, Decisions
      <4> QED BY <4>2 DEF Back, Decided, CalmLink
    <3>4. pending[id] # Unknown
      BY <3>1 DEF Fetchable, Undecided, Unknown, Decisions
    <3> QED BY <2>5, <3>2, <3>3, <3>4 DEF ReceivePoll
  <2>6. ASSUME NEW x \in Calls, ReadAbandoned(x) \/ HoldExpires(x)
        PROVE  link'[c] = link[c]
    BY <1>11, <2>6 DEF ReadAbandoned, HoldExpires, Answer
  <2>7. ASSUME NEW x \in Calls, x # c, Receive(x) \/ RefuseBody(x) \/ Disconnect(x)
        PROVE  link'[c] = link[c]
    BY <2>7 DEF Receive, TooBusy, ReceivePost, ReceivePoll, RefuseBody, Disconnect, Answer
  <2>8. ASSUME NEW id \in Ids, NEW result \in Results, Decide(id, result)
        PROVE  link'[c] = link[c]
    BY <1>11, <2>8 DEF Decide, Waits
  <2>9. Sweep => link' = link
    BY DEF Sweep
  <2> QED BY <1>3, <2>2, <2>3, <2>4, <2>5, <2>6, <2>7, <2>8, <2>9 DEF ServerStep, Receive
<1>12. CASE link[c].at = "held"
  <2>1. /\ link[c].request = hook[c].id
        /\ hook[c].timer \in Nat /\ hook[c].timer > link[c].wait
        /\ Undecided(link[c].id)
    BY <1>7, <1>12 DEF CalmLink
  <2>2. /\ link[c].id \in Ids /\ origin[link[c].id] = {c}
        /\ link[c].request \in {Post, link[c].id}
    BY <1>6, <1>12 DEF LinkFits
  <2>3. ASSUME NEW id \in Ids, NEW result \in Results, Decide(id, result)
        PROVE  CalmLink(c)'
    <3>1. CASE id = link[c].id
      <4>1. result # "error"
        BY <2>2, <2>3, <3>1 DEF Decide, Trouble
      <4>2. link'[c] = Back(Decided(result))
        BY <1>12, <2>3, <3>1, <4>1 DEF Decide, Waits, Outcome
      <4> QED BY <4>2 DEF Back, Decided, CalmLink
    <3>2. CASE id # link[c].id
      <4>1. link'[c] = link[c]
        BY <2>3, <3>2 DEF Decide, Waits
      <4>2. pending'[link[c].id] = pending[link[c].id]
        BY <2>2, <2>3, <3>2 DEF Decide, DecidingIsPending
      <4> QED BY <1>12, <2>1, <4>1, <4>2 DEF CalmLink, Undecided
    <3> QED BY <3>1, <3>2
  <2>4. CASE HoldExpires(c)
    <3>1. link'[c] = Back(IF link[c].request = Post THEN Accepted(link[c].id) ELSE Heartbeat)
      BY <2>4 DEF HoldExpires, Answer
    <3>2. Fetchable(link[c].id)
      BY <2>1 DEF Fetchable
    <3>3. pending' = pending
      BY <2>4 DEF HoldExpires
    <3>4. CASE link[c].request = Post
      <4>1. link'[c] = Back(Accepted(link[c].id))
        BY <3>1, <3>4
      <4> QED BY <3>2, <3>3, <4>1 DEF Back, Accepted, CalmLink, Fetchable, Undecided
    <3>5. CASE link[c].request # Post
      <4>1. link'[c] = Back(Heartbeat) /\ hook[c].id = link[c].id
        BY <2>1, <2>2, <3>1, <3>5
      <4> QED BY <2>2, <3>2, <3>3, <4>1 DEF Back, Heartbeat, CalmLink, Fetchable, Undecided
    <3> QED BY <3>4, <3>5
  <2>5. ASSUME link'[c] = link[c], pending'[link[c].id] = pending[link[c].id]
        PROVE  CalmLink(c)'
    BY <1>12, <2>1, <2>5 DEF CalmLink, Undecided
  <2>6. CASE Sweep
    BY <2>1, <2>2, <2>5, <2>6 DEF Sweep, Stale, Done, Undecided, Decisions
  <2>7. ASSUME NEW x \in Calls, ReceivePost(x) \/ ReadAbandoned(x)
        PROVE  link'[c] = link[c] /\ pending'[link[c].id] = pending[link[c].id]
    <3>1. link[c].id \notin Fresh
      BY <2>2 DEF Fresh
    <3>2. ASSUME NEW id \in Fresh, Register(x, id)
          PROVE  pending'[link[c].id] = pending[link[c].id]
      BY <3>1, <3>2 DEF Register
    <3>3. CASE ReceivePost(x)
      BY <1>12, <3>2, <3>3 DEF ReceivePost, Requested
    <3>4. CASE ReadAbandoned(x)
      BY <3>2, <3>4 DEF ReadAbandoned
    <3> QED BY <2>7, <3>3, <3>4
  <2>8. ASSUME NEW x \in Calls, \/ TooBusy(x) \/ RefuseBody(x) \/ \E id \in Ids : ReceivePoll(x, id)
        PROVE  link'[c] = link[c] /\ pending' = pending
    BY <1>12, <2>8 DEF TooBusy, RefuseBody, ReceivePoll, Requested, Answer
  <2>9. ASSUME NEW x \in Calls, x # c, HoldExpires(x) \/ Disconnect(x)
         PROVE  link'[c] = link[c] /\ pending' = pending
    BY <2>9 DEF HoldExpires, Disconnect, Answer
  <2> QED BY <1>3, <2>3, <2>4, <2>5, <2>6, <2>7, <2>8, <2>9 DEF ServerStep, Receive
<1> QED BY <1>7, <1>10, <1>11, <1>12 DEF CalmLink

LEMMA CalmHook ==
    ASSUME WorkInvariant, Ownership, NEW c \in Calls, c \notin disturbed', Calm(c),
           DenyProtected(c) \/ NoSession(c) \/ Unread(c) \/ Begin(c) \/ HookStep(c)
    PROVE  Calm(c)'
<1> USE DEF Ownership, Shapes, OnCalls
<1>0. Watchdog \in Nat \ {0}
  BY HookAssumption DEF HookAssumption
<1>1. opts' = opts /\ server' = server /\ epoch' = epoch /\ pending' = pending
  BY DEF DenyProtected, NoSession, Unread, EndsUnasked, Begin, HookStep, ReadAnswer, ConnectionLost, Retry, Timeout
<1>2. ASSUME server = "up", ~Pre(c)
      PROVE  Calm(c)'
  BY <1>1, <1>2 DEF Calm, Pre
<1>3. ASSUME server = "up", Pre(c), NEW request,
             request # Post => Fetchable(request), NEW retried, NEW port, port = epoch,
             Send(c, request, Watchdog, retried, port)
      PROVE  Calm(c)'
  <2>1. hook'[c] = Script("waiting", request, Watchdog, Watchdog, retried, port)
    BY <1>0, <1>3 DEF Send, Remaining
  <2>2. link'[c] = Sent(request)
    BY <1>3 DEF Send
  <2>3. request # Post => Fetchable(request)'
    BY <1>1, <1>3 DEF Fetchable, Undecided
  <2>4. CalmLink(c)'
    BY <2>1, <2>2, <2>3 DEF CalmLink, Script, Sent
  <2> QED BY <1>1, <1>3, <2>1, <2>4 DEF Calm, AtEase, Script
<1>4. CASE Begin(c)
  <2>1. server = "up"
    BY <1>4 DEF Begin
  <2>2. Pre(c) => Send(c, Post, Watchdog, FALSE, epoch)
    BY <1>4 DEF Begin, Patience
  <2> QED BY <1>2, <1>3, <2>1, <2>2
<1>5. CASE ~Begin(c)
  <2>1. c \notin disturbed
    BY <1>5 DEF DenyProtected, NoSession, Unread, EndsUnasked, HookStep, ReadAnswer, ConnectionLost, Retry, Timeout
  <2>2. server = "up" /\ (Pre(c) => AtEase(c))
    BY <2>1 DEF Calm
  <2>3. SUFFICES ASSUME Pre(c), AtEase(c) PROVE Calm(c)'
    BY <1>2, <2>2
  <2>4. ASSUME NEW d \in said'[c], Finish(c, DecisionOut(opts[c].agent, d))
        PROVE  Calm(c)'
    <3>1. hook'[c] = Ended /\ out'[c] = DecisionOut(opts[c].agent, d)
      BY <2>4 DEF Finish
    <3> QED BY <1>1, <2>2, <2>4, <3>1 DEF Calm, AtEase, Told, Ended, Script
  <2>5. CASE DenyProtected(c)
    <3>1. "deny" \in said'[c] /\ Finish(c, "deny")
      BY <2>5 DEF DenyProtected
    <3>2. DecisionOut(opts[c].agent, "deny") = "deny"
      BY DEF DecisionOut
    <3> QED BY <2>4, <3>1, <3>2
  <2>6. ~NoSession(c) /\ ~Unread(c)
    BY DEF NoSession, Unread, EndsUnasked
  <2>7. CASE HookStep(c)
    <3>1. hook[c].pc = "waiting" /\ hook[c].port = epoch /\ CalmLink(c)
      BY <2>3, <2>7 DEF HookStep, ReadAnswer, ConnectionLost, Retry, Timeout, AtEase
    <3>2. LinkFits(c, link[c])
      BY DEF LinksFit
    <3>3. ReadAnswer(c)
      <4>1. ~ConnectionLost(c) /\ ~Retry(c)
        BY <3>1 DEF ConnectionLost, Retry, CalmLink
      <4>2. ~Timeout(c)
        BY <1>0, <3>1, <3>2 DEF Timeout, CalmLink, LinkFits
      <4> QED BY <2>7, <4>1, <4>2 DEF HookStep
    <3>4. link[c].at = "back" /\ AnswerFits(c, link[c].answer)
      BY <3>2, <3>3 DEF ReadAnswer, LinkFits
    <3>5. /\ link[c].answer.kind # "refused"
          /\ link[c].answer.kind = "accepted" => Fetchable(link[c].answer.id)
          /\ link[c].answer.kind = "pending" => hook[c].id \in Ids /\ Fetchable(hook[c].id)
      BY <3>1, <3>4 DEF CalmLink
    <3>6. Renewed(c) = Watchdog
      BY <2>3 DEF Renewed, Patience
    <3>7. said' = said
      BY <3>3 DEF ReadAnswer
    <3>8. CASE link[c].answer.kind = "decision"
      <4>1. Finish(c, DecisionOut(opts[c].agent, link[c].answer.decision))
        BY <2>3, <3>3, <3>8 DEF ReadAnswer
      <4>2. link[c].answer.decision \in said'[c]
        BY <3>4, <3>7, <3>8 DEF AnswerFits
      <4> QED BY <2>4, <4>1, <4>2
    <3>9. CASE link[c].answer.kind = "accepted"
      <4>1. Send(c, link[c].answer.id, Watchdog, FALSE, hook[c].port)
        BY <2>3, <3>3, <3>6, <3>9 DEF ReadAnswer
      <4> QED BY <1>3, <2>2, <2>3, <3>1, <3>5, <3>9, <4>1
    <3>10. CASE link[c].answer.kind = "pending"
      <4>1. Send(c, hook[c].id, Watchdog, FALSE, hook[c].port)
        BY <2>3, <3>3, <3>6, <3>10 DEF ReadAnswer
      <4> QED BY <1>3, <2>2, <2>3, <3>1, <3>5, <3>10, <4>1
    <3> QED BY <3>4, <3>5, <3>8, <3>9, <3>10 DEF AnswerFits
  <2> QED BY <1>5, <2>5, <2>6, <2>7
<1> QED BY <1>4, <1>5

(* Time passes only while the server holds the question, and its timer     *)
(* ends before the script's.                                               *)
LEMMA CalmTick ==
    ASSUME WorkInvariant, Ownership, NEW c \in Calls, c \notin disturbed', Calm(c), Tick
    PROVE  Calm(c)'
<1> USE DEF Ownership, Shapes, OnCalls
<1>1. /\ opts' = opts /\ server' = server /\ epoch' = epoch /\ disturbed' = disturbed
      /\ said' = said /\ out' = out
  BY DEF Tick
<1>2. server = "up" /\ (Pre(c) => AtEase(c))
  BY <1>1 DEF Calm
<1>3. hook'[c].pc = hook[c].pc /\ hook'[c].id = hook[c].id /\ hook'[c].port = hook[c].port
  BY DEF Tick, Script
<1>4. SUFFICES ASSUME Pre(c), hook[c].pc = "waiting", CalmLink(c) PROVE CalmLink(c)'
  BY <1>1, <1>2, <1>3 DEF Calm, AtEase, Told, Pre
<1>5. ~Prompt(c)
  BY DEF Tick
<1>6. LinkFits(c, link[c])
  BY DEF LinksFit
<1>7. link[c].at = "held" /\ link[c].wait # 0 /\ hook[c].timer # 0
  BY <1>2, <1>4, <1>5 DEF Prompt, CalmLink
<1>8. /\ link[c] = Held(link[c].request, link[c].id, link[c].wait)
      /\ link[c].id \in Ids /\ link[c].wait \in Nat
  BY <1>6, <1>7 DEF LinkFits
<1>9. /\ link[c].request = hook[c].id
      /\ hook[c].timer \in Nat /\ hook[c].timer > link[c].wait
      /\ Undecided(link[c].id)
  BY <1>4, <1>7 DEF CalmLink
<1>10. link'[c] = Held(link[c].request, link[c].id, link[c].wait - 1)
  BY <1>7, <1>8 DEF Tick, Held, Elapsed
<1>11. hook'[c].timer = hook[c].timer - 1
  BY <1>4, <1>7, <1>9 DEF Tick, Script, Elapsed
<1>12. pending'[link[c].id] = pending[link[c].id]
  BY <1>8, <1>9 DEF Tick, Done, Undecided, Decisions
<1> QED BY <1>3, <1>7, <1>8, <1>9, <1>10, <1>11, <1>12 DEF CalmLink, Held, Undecided

LEMMA CalmStep ==
    ASSUME WorkInvariant, Ownership, [Next]_vars, \A c \in Calls : Calm(c)
    PROVE  \A c \in Calls : Calm(c)'
<1> SUFFICES ASSUME NEW c \in Calls PROVE Calm(c)'
  OBVIOUS
<1>1. SUFFICES ASSUME c \notin disturbed' PROVE Calm(c)'
  BY DEF Calm
<1>2. CASE ServerStep /\ UNCHANGED hookVars
  BY <1>1, <1>2, CalmServer
<1>3. CASE DenyProtected(c) \/ NoSession(c) \/ Unread(c) \/ Begin(c) \/ HookStep(c)
  BY <1>1, <1>3, CalmHook
<1>4. CASE Tick
  BY <1>1, <1>4, CalmTick
<1>5. ASSUME UNCHANGED <<server, epoch, pending, opts>>,
             c \in disturbed' <=> c \in disturbed,
             link'[c] = link[c], hook'[c] = hook[c], out'[c] = out[c], said'[c] = said[c]
      PROVE  Calm(c)'
  <2>1. Calm(c)
    OBVIOUS
  <2>2. CalmLink(c)' <=> CalmLink(c)
    BY <1>5 DEF CalmLink, Fetchable, Undecided
  <2> QED BY <1>5, <2>1, <2>2 DEF Calm, AtEase, Told, Pre
<1>6. ASSUME NEW x \in Calls, x # c,
             DenyProtected(x) \/ NoSession(x) \/ Unread(x) \/ Begin(x) \/ HookStep(x)
      PROVE  Calm(c)'
  <2>1. /\ UNCHANGED <<server, epoch, pending, opts>>
        /\ c \in disturbed' <=> c \in disturbed
    BY <1>6 DEF DenyProtected, NoSession, Unread, EndsUnasked, Begin, HookStep, ReadAnswer, ConnectionLost, Retry, Timeout
  <2>2. link'[c] = link[c] /\ hook'[c] = hook[c] /\ out'[c] = out[c] /\ said'[c] = said[c]
    BY <1>6 DEF DenyProtected, NoSession, Unread, EndsUnasked, Begin, HookStep, ReadAnswer, ConnectionLost, Retry, Timeout,
                Finish, GiveUp, Send, Hang, Ownership, Shapes, OnCalls
  <2> QED BY <1>5, <2>1, <2>2
<1>7. CASE UNCHANGED vars
  BY <1>5, <1>7 DEF vars, serverVars, hookVars
<1> QED BY <1>2, <1>3, <1>4, <1>6, <1>7 DEF Next

(* Unless something breaks while it is under way, every call of every      *)
(* assistant gets the decision made for it, however long the person takes  *)
(* and whatever the times are, as long as the watchdog is longer than the  *)
(* server holds a question (explainit-hook.js:13-14, hookConfig.ts:59).    *)
THEOREM DecisionArrives == Spec => []AnswerIsTheDecision
<1>1. Init => \A c \in Calls : Calm(c)
  <2> SUFFICES ASSUME Init, NEW c \in Calls PROVE Calm(c)
    OBVIOUS
  <2>1. server = "up" /\ hook[c].pc = "idle"
    BY DEF Init, ServerInit, Idle, Script
  <2> QED BY <2>1 DEF Calm, AtEase
<1>2. (\A c \in Calls : Calm(c)) => AnswerIsTheDecision
  BY DEF Calm, AtEase, Told, AnswerIsTheDecision, PrintedFor
<1>3. WorkInvariant /\ Ownership /\ (\A c \in Calls : Calm(c)) /\ [Next]_vars
         => (\A c \in Calls : Calm(c))'
  BY CalmStep
<1> QED BY <1>1, <1>2, <1>3, WorkInit, StepKeepsWork, OwnershipInit, OwnershipStep, PTL DEF Spec
=============================================================================
