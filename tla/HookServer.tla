----------------------------- MODULE HookServer -----------------------------
(***************************************************************************)
(* The gate's HTTP server (src/gate/server.ts): a hook script posts a      *)
(* proposed change, is answered at once if the decision comes within       *)
(* FastPath, and otherwise gets a request id to ask again with.  A         *)
(* question about an id is held until the decision or LongPoll.            *)
(*                                                                         *)
(* Time passes in ticks.  The module HookCalls has the other end of each   *)
(* connection, the hook script, and the clock.                             *)
(***************************************************************************)
EXTENDS Naturals, FiniteSets

CONSTANTS
    Calls,          \* tool calls of assistants; each runs one hook script
    Results,        \* what GateController.handle() may come to
    MaxInFlight,    \* MAX_IN_FLIGHT: calls being decided at the same time
    FastPath,       \* FAST_PATH_MS, in ticks
    LongPoll,       \* LONG_POLL_MS, in ticks
    DoneTTL,        \* DONE_TTL_MS, in ticks
    MaxRequests,    \* bound on request ids
    MaxTroubles     \* bound on what goes wrong: errors, stops, freezes, lost connections

ASSUME ServerAssumption ==
    /\ IsFiniteSet(Calls)
    /\ Results \subseteq {"allow", "deny", "ask", "none", "error"}
    /\ {MaxInFlight, FastPath, LongPoll, DoneTTL, MaxRequests} \subseteq Nat \ {0}
    /\ MaxTroubles \in Nat

VARIABLES
    server,     \* "up", "frozen" (alive, its thread does not run) or "down"
    epoch,      \* how many times a window has been started: a port and a token
    pending,    \* pending[id]: what the map holds for a request id
    deciding,   \* ids whose GateController.handle() is still running
    origin,     \* origin[id]: the call a request id was made for
    link,       \* link[c]: the connection of the hook script of c
    abandoned,  \* calls whose POST is unread although its sender has given up
    said,       \* said[c]: the decisions made for c so far
    disturbed,  \* calls during which something broke
    troubles    \* how often something broke

serverVars == <<server, epoch, pending, deciding, origin, link, abandoned,
                said, disturbed, troubles>>

Decisions == {"allow", "deny", "ask", "none"}
Ids == 1 .. MaxRequests

(* The request on a connection: POST /v1/hook, or GET /v1/decision/<id>.   *)
Post == 0

-----------------------------------------------------------------------------
(* Entries of the pending map.                                             *)
Unknown == [state |-> "unknown", age |-> 0]
Entry(state) == [state |-> state, age |-> 0]
Undecided(id) == pending[id].state = "deciding"
Done(id) == pending[id].state \in Decisions \cup {"error"}
Fresh == {id \in Ids : origin[id] = {}}

(* What a connection is doing.                                             *)
Quiet == [at |-> "quiet"]
Sent(request) == [at |-> "sent", request |-> request]
Held(request, id, wait) ==
    [at |-> "held", request |-> request, id |-> id, wait |-> wait]
Back(answer) == [at |-> "back", answer |-> answer]
Lost == [at |-> "lost"]

(* Answers of the server.                                                  *)
Decided(d) == [kind |-> "decision", decision |-> d]
Accepted(id) == [kind |-> "accepted", id |-> id]
Heartbeat == [kind |-> "pending"]
Refused == [kind |-> "refused"]          \* 400, 404, 413, 500
Outcome(state) == IF state = "error" THEN Refused ELSE Decided(state)

Answer(c, answer) == link' = [link EXCEPT ![c] = Back(answer)]

InFlight == Cardinality({id \in Ids : Undecided(id)})

(* The rest of onHook() up to its await: a new id, handle() is running.    *)
Register(c, id) ==
    /\ pending' = [pending EXCEPT ![id] = Entry("deciding")]
    /\ deciding' = deciding \cup {id}
    /\ origin' = [origin EXCEPT ![id] = {c}]

(* Something goes wrong for the calls given.                               *)
Trouble(calls) ==
    /\ troubles < MaxTroubles
    /\ troubles' = troubles + 1
    /\ disturbed' = disturbed \cup calls

-----------------------------------------------------------------------------
Requested(c, request) ==
    server = "up" /\ link[c].at = "sent" /\ link[c].request = request

(* onHook() with a body that is too large, or no JSON.                     *)
RefuseBody(c) ==
    /\ Requested(c, Post)
    /\ Trouble({c})
    /\ Answer(c, Refused)
    /\ UNCHANGED <<server, epoch, pending, deciding, origin, abandoned, said>>

(* onHook() at the cap: `ask' without a review.                            *)
TooBusy(c) ==
    /\ Requested(c, Post)
    /\ InFlight >= MaxInFlight
    /\ Answer(c, Decided("ask"))
    /\ said' = [said EXCEPT ![c] = @ \cup {"ask"}]
    /\ UNCHANGED <<server, epoch, pending, deciding, origin, abandoned, disturbed, troubles>>

ReceivePost(c) ==
    /\ Requested(c, Post)
    /\ InFlight < MaxInFlight
    /\ \E id \in Fresh : /\ \A other \in Fresh : id <= other
                         /\ Register(c, id)
                         /\ link' = [link EXCEPT ![c] = Held(Post, id, FastPath)]
    /\ UNCHANGED <<server, epoch, abandoned, said, disturbed, troubles>>

(* onHook() of a request that its sender no longer waits for: it was in    *)
(* the socket while the window was frozen.                                 *)
ReadAbandoned(c) ==
    /\ server = "up"
    /\ c \in abandoned
    /\ abandoned' = abandoned \ {c}
    /\ \/ InFlight >= MaxInFlight /\ UNCHANGED <<pending, deciding, origin>>
       \/ /\ InFlight < MaxInFlight
          /\ \E id \in Fresh : (\A other \in Fresh : id <= other) /\ Register(c, id)
    /\ UNCHANGED <<server, epoch, link, said, disturbed, troubles>>

(* onDecision() up to its await.                                           *)
ReceivePoll(c, id) ==
    /\ Requested(c, id)
    /\ \/ pending[id] = Unknown /\ Answer(c, Refused)
       \/ Done(id) /\ Answer(c, Outcome(pending[id].state))
       \/ Undecided(id) /\ link' = [link EXCEPT ![c] = Held(id, id, LongPoll)]
    /\ UNCHANGED <<server, epoch, pending, deciding, origin, abandoned, said,
                   disturbed, troubles>>

\* Fault: a decision wakes every waiter.
WaitsForAny(c, id) == link[c].at = "held"
Waits(c, id) == link[c].at = "held" /\ link[c].id = id

(* handle() resolves or throws; the waiters of the entry answer.  onHook() *)
(* removes an entry whose handler threw while it held the POST.            *)
Decide(id, result) ==
    /\ server = "up"
    /\ id \in deciding
    /\ deciding' = deciding \ {id}
    /\ pending' = [pending EXCEPT ![id] =
           CASE @ = Unknown -> @
             [] result = "error" /\ (\E c \in Calls : Waits(c, id) /\ link[c].request = Post)
                -> Unknown
             [] OTHER -> Entry(result)]
    /\ link' = [c \in Calls |-> IF Waits(c, id) THEN Back(Outcome(result)) ELSE link[c]]
    /\ said' = [c \in Calls |->
           said[c] \cup IF c \in origin[id] /\ result # "error" THEN {result} ELSE {}]
    /\ IF result = "error" THEN Trouble(origin[id]) ELSE UNCHANGED <<disturbed, troubles>>
    /\ UNCHANGED <<server, epoch, origin, abandoned>>

(* waitFor() ran out: 202 with the id, or a heartbeat.                     *)
HoldExpires(c) ==
    /\ server = "up"
    /\ link[c].at = "held"
    /\ link[c].wait = 0
    /\ Answer(c, IF link[c].request = Post THEN Accepted(link[c].id) ELSE Heartbeat)
    /\ UNCHANGED <<server, epoch, pending, deciding, origin, abandoned, said,
                   disturbed, troubles>>

Stale(id) == Done(id) /\ pending[id].age > DoneTTL

Sweep ==
    /\ server = "up"
    /\ \E id \in Ids : Stale(id)
    /\ pending' = [id \in Ids |-> IF Stale(id) THEN Unknown ELSE pending[id]]
    /\ UNCHANGED <<server, epoch, deciding, origin, link, abandoned, said,
                   disturbed, troubles>>

-----------------------------------------------------------------------------
Break(c) == IF link[c].at \in {"sent", "held"} THEN Lost ELSE link[c]

(* stop() when the window closes, or the death of its process: the map and *)
(* everything that was being decided are gone, connections break.          *)
Stop ==
    /\ Trouble(Calls)
    /\ server # "down"
    /\ server' = "down"
    /\ pending' = [id \in Ids |-> Unknown]
    /\ deciding' = {}
    /\ abandoned' = {}
    /\ link' = [c \in Calls |-> Break(c)]
    /\ UNCHANGED <<epoch, origin, said>>

(* start() in a new window: another port, another token.                   *)
Start ==
    /\ server = "down"
    /\ server' = "up"
    /\ epoch' = epoch + 1
    /\ UNCHANGED <<pending, deciding, origin, link, abandoned, said, disturbed, troubles>>

(* The window's thread is busy or suspended; the socket still listens.     *)
Freeze ==
    /\ Trouble(Calls)
    /\ server = "up"
    /\ server' = "frozen"
    /\ UNCHANGED <<epoch, pending, deciding, origin, link, abandoned, said>>

Thaw ==
    /\ server = "frozen"
    /\ server' = "up"
    /\ UNCHANGED <<epoch, pending, deciding, origin, link, abandoned, said, disturbed, troubles>>

(* One connection breaks; what it asked for goes on.                       *)
Disconnect(c) ==
    /\ Trouble({c})
    /\ link[c].at \in {"sent", "held"}
    /\ link' = [link EXCEPT ![c] = Lost]
    /\ UNCHANGED <<server, epoch, pending, deciding, origin, abandoned, said>>

-----------------------------------------------------------------------------
ServerInit ==
    /\ server = "up"
    /\ epoch = 1
    /\ pending = [id \in Ids |-> Unknown]
    /\ deciding = {}
    /\ origin = [id \in Ids |-> {}]
    /\ link = [c \in Calls |-> Quiet]
    /\ abandoned = {}
    /\ said = [c \in Calls |-> {}]
    /\ disturbed = {}
    /\ troubles = 0

Receive(c) ==
    TooBusy(c) \/ ReceivePost(c) \/ \E id \in Ids : ReceivePoll(c, id)

ServerStep ==
    \/ \E c \in Calls : Receive(c) \/ RefuseBody(c) \/ ReadAbandoned(c)
                        \/ HoldExpires(c) \/ Disconnect(c)
    \/ \E id \in Ids, result \in Results : Decide(id, result)
    \/ Sweep \/ Stop \/ Start \/ Freeze \/ Thaw
=============================================================================
