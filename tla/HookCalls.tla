------------------------------ MODULE HookCalls ------------------------------
(***************************************************************************)
(* Hook scripts (hooks/explainit-hook.js) and the server they ask.  An     *)
(* assistant starts one script per tool call; the script finds the         *)
(* window's session file, posts the change, asks again and again for the   *)
(* decision, and prints it.  Its watchdog is the time since the last       *)
(* answer of the server.                                                   *)
(***************************************************************************)
EXTENDS HookServer, Integers

CONSTANTS
    CommandLines,   \* agent, event and --unresponsive of the scripts of all calls
    Watchdog,       \* --watchdog, in ticks
    ReportWait      \* how long a PostToolUse report waits for an answer

Options ==
    [agent : {"claude", "codex"}, event : {"PreToolUse", "PostToolUse"},
     unresponsive : {"deny", "passthrough"}]

(* The installer writes no watchdog below 30 s (hookConfig.ts:59, 68); the *)
(* server holds a question 25 s.                                           *)
ASSUME HookAssumption ==
    /\ CommandLines \subseteq [Calls -> Options]
    /\ {Watchdog, ReportWait} \subseteq Nat \ {0}
    /\ Watchdog > LongPoll
    /\ Watchdog > FastPath

VARIABLES
    opts,       \* opts[c]: the command line of the hook of c
    hook,       \* hook[c]: the hook script of c
    out,        \* out[c]: what it has printed
    alone,      \* calls whose script found no window running, and
    unread      \* those it could not read, or not the window's session file

unasked == <<alone, unread>>
hookVars == <<opts, hook, out, unasked>>
vars == <<serverVars, hookVars>>

(* id is the request id, or Post while there is none; left is the time to  *)
(* the deadline; timer the time to the next timeout or retry.              *)
Script(pc, id, left, timer, retried, port) ==
    [pc |-> pc, id |-> id, left |-> left, timer |-> timer, retried |-> retried, port |-> port]
Idle == Script("idle", Post, 0, 0, FALSE, 0)
Ended == Script("done", Post, 0, 0, FALSE, 0)

Pre(c) == opts[c].event = "PreToolUse"

-----------------------------------------------------------------------------
(* What an assistant is told: codex knows no `ask' and no bare `allow'.    *)
DecisionOut(agent, d) ==
    IF d = "none" \/ (agent = "codex" /\ d \in {"ask", "allow"}) THEN "nothing" ELSE d

UnresponsiveOut(o) ==
    IF o.agent = "codex"
    THEN IF o.unresponsive = "deny" THEN "deny" ELSE "nothing"
    ELSE DecisionOut(o.agent, "ask")

Finish(c, text) ==
    /\ hook' = [hook EXCEPT ![c] = Ended]
    /\ out' = [out EXCEPT ![c] = text]

(* A report prints nothing whatever happens to it.                         *)
GiveUp(c) == Finish(c, IF Pre(c) THEN UnresponsiveOut(opts[c]) ELSE "nothing")

Patience(c) == IF Pre(c) THEN Watchdog ELSE ReportWait

\* Fault: an answer does not move the deadline.
RenewedNever(c) == hook[c].left
Renewed(c) == Patience(c)

(* The timeout of one request; half a second at least, here one tick.      *)
\* Fault: every request gets the whole watchdog.
RemainingAll(left) == Watchdog
Remaining(left) == IF left > 0 THEN left ELSE 1

(* request(): a window that is gone refuses the connection.                *)
Send(c, request, left, retried, port) ==
    /\ hook' = [hook EXCEPT ![c] =
           Script("waiting", request, left, Remaining(left), retried, port)]
    /\ link' = [link EXCEPT ![c] =
           IF server # "down" /\ port = epoch THEN Sent(request) ELSE Lost]

Hang(c) == link' = [link EXCEPT ![c] = Quiet]

-----------------------------------------------------------------------------
(* run(): a protected target is denied whether or not there is a window.   *)
DenyProtected(c) ==
    /\ hook[c].pc = "idle"
    /\ Pre(c)
    /\ Finish(c, "deny")
    /\ said' = [said EXCEPT ![c] = @ \cup {"deny"}]
    /\ UNCHANGED <<server, epoch, pending, deciding, origin, link, abandoned,
                   disturbed, troubles, opts, unasked>>

(* The script ends before it asks a window.                                *)
EndsUnasked(c) ==
    /\ hook[c].pc = "idle"
    /\ Finish(c, "nothing")
    /\ disturbed' = disturbed \cup {c}
    /\ UNCHANGED <<server, epoch, pending, deciding, origin, link, abandoned,
                   said, troubles, opts>>

NoSession(c) ==
    /\ server = "down"
    /\ EndsUnasked(c)
    /\ alone' = alone \cup {c}
    /\ unread' = unread

(* Standard input over 8 MB, broken or no JSON, an exception before the    *)
(* window is asked, or a session file of a running window that cannot be   *)
(* read: as if there were no window.                                       *)
Unread(c) ==
    /\ EndsUnasked(c)
    /\ unread' = unread \cup {c}
    /\ alone' = alone

Begin(c) ==
    /\ hook[c].pc = "idle"
    /\ server # "down"
    /\ Send(c, Post, Patience(c), FALSE, epoch)
    /\ disturbed' = IF server = "up" THEN disturbed \ {c} ELSE disturbed \cup {c}
    /\ UNCHANGED <<server, epoch, pending, deciding, origin, abandoned, said, troubles,
                   opts, out, unasked>>

(* The callback of request() with an answer.                               *)
ReadAnswer(c) ==
    /\ hook[c].pc = "waiting"
    /\ link[c].at = "back"
    /\ LET answer == link[c].answer IN
       \/ /\ ~Pre(c) /\ Finish(c, "nothing") /\ Hang(c)
       \/ /\ Pre(c) /\ answer.kind = "decision"
          /\ Finish(c, DecisionOut(opts[c].agent, answer.decision)) /\ Hang(c)
       \/ /\ Pre(c) /\ answer.kind = "accepted"
          /\ Send(c, answer.id, Renewed(c), FALSE, hook[c].port) /\ out' = out
       \/ /\ Pre(c) /\ answer.kind = "pending"
          /\ Send(c, hook[c].id, Renewed(c), FALSE, hook[c].port) /\ out' = out
       \/ /\ Pre(c) /\ answer.kind = "refused" /\ GiveUp(c) /\ Hang(c)
    /\ UNCHANGED <<server, epoch, pending, deciding, origin, abandoned, said,
                   disturbed, troubles, opts, unasked>>

\* Fault: retries as long as the connection breaks.
MayAlwaysRetry(c) == Pre(c)
MayRetry(c) == Pre(c) /\ ~hook[c].retried /\ hook[c].left > 0

(* The callback of request() with an error that is not a timeout.          *)
ConnectionLost(c) ==
    /\ hook[c].pc = "waiting"
    /\ link[c].at = "lost"
    /\ Hang(c)
    /\ \/ /\ MayRetry(c)
          /\ hook' = [hook EXCEPT ![c] =
                 Script("pausing", @.id, @.left, 1, @.retried, @.port)]
          /\ out' = out
       \/ ~MayRetry(c) /\ GiveUp(c)
    /\ UNCHANGED <<server, epoch, pending, deciding, origin, abandoned, said,
                   disturbed, troubles, opts, unasked>>

(* After jitter(), 0.3 to 0.9 s: within a tick.                            *)
Retry(c) ==
    /\ hook[c].pc = "pausing"
    /\ Send(c, hook[c].id, hook[c].left, TRUE, hook[c].port)
    /\ UNCHANGED <<server, epoch, pending, deciding, origin, abandoned, said,
                   disturbed, troubles, opts, out, unasked>>

(* The timer of request() fires.  A POST that a frozen window has not read *)
(* may still be read when it thaws.                                        *)
Timeout(c) ==
    /\ hook[c].pc = "waiting"
    /\ hook[c].timer = 0
    /\ link[c].at \in {"sent", "held"}
    /\ GiveUp(c)
    /\ Hang(c)
    /\ \/ abandoned' = abandoned
       \/ /\ link[c] = Sent(Post)
          /\ abandoned' = abandoned \cup {c}
    /\ UNCHANGED <<server, epoch, pending, deciding, origin, said, disturbed, troubles,
                   opts, unasked>>

-----------------------------------------------------------------------------
(* The clock.  Whatever runs as soon as it can has run before time passes. *)
Prompt(c) ==
    \/ link[c].at \in {"back", "lost"}
    \/ server = "up" /\ link[c].at = "sent"
    \/ server = "up" /\ link[c].at = "held" /\ link[c].wait = 0
    \/ hook[c].pc \in {"waiting", "pausing"} /\ hook[c].timer = 0

Elapsed(n) == IF n > 0 THEN n - 1 ELSE n

(* How far behind its deadline a script can be told to be.                 *)
Overdue == -2
Late(left) == IF left > Overdue THEN left - 1 ELSE left

Tick ==
    /\ \A c \in Calls : ~Prompt(c)
    /\ link' = [c \in Calls |->
           IF link[c].at = "held" THEN [link[c] EXCEPT !.wait = Elapsed(@)] ELSE link[c]]
    /\ hook' = [c \in Calls |->
           IF hook[c].pc \in {"waiting", "pausing"}
           THEN Script(hook[c].pc, hook[c].id, Late(hook[c].left), Elapsed(hook[c].timer),
                       hook[c].retried, hook[c].port)
           ELSE hook[c]]
    /\ pending' = [id \in Ids |->
           IF Done(id) /\ pending[id].age <= DoneTTL
           THEN [pending[id] EXCEPT !.age = @ + 1] ELSE pending[id]]
    /\ UNCHANGED <<server, epoch, deciding, origin, abandoned, said, disturbed, troubles,
                   opts, out, unasked>>

-----------------------------------------------------------------------------
Init ==
    /\ ServerInit
    /\ opts \in CommandLines
    /\ hook = [c \in Calls |-> Idle]
    /\ out = [c \in Calls |-> ""]
    /\ alone = {} /\ unread = {}

HookStep(c) == ReadAnswer(c) \/ ConnectionLost(c) \/ Retry(c) \/ Timeout(c)

Next ==
    \/ ServerStep /\ UNCHANGED hookVars
    \/ \E c \in Calls : DenyProtected(c) \/ NoSession(c) \/ Unread(c) \/ Begin(c) \/ HookStep(c)
    \/ Tick

(* Scripts and a running server do what they can; timers fire; a change    *)
(* that is being decided gets decided.  A frozen window need not thaw, and *)
(* one that stopped need not start again.                                  *)
Fairness ==
    /\ WF_vars(Tick)
    /\ \A c \in Calls : WF_vars(HookStep(c)) /\ WF_vars((Receive(c) \/ HoldExpires(c)) /\ UNCHANGED hookVars)
    /\ \A id \in Ids :
           WF_vars((\E d \in Decisions \cap Results : Decide(id, d)) /\ UNCHANGED hookVars)

Spec == Init /\ [][Next]_vars /\ Fairness
=============================================================================
