------------------------- MODULE HookCallsProperties -------------------------
(***************************************************************************)
(* What hook scripts and the gate's server owe an assistant.               *)
(***************************************************************************)
EXTENDS HookCalls

Answers ==
    [kind : {"decision"}, decision : Decisions] \cup [kind : {"accepted"}, id : Ids]
    \cup {Heartbeat, Refused}

Links ==
    {Quiet, Lost} \cup {Back(a) : a \in Answers}
    \cup [at : {"sent"}, request : Ids \cup {Post}]
    \cup [at : {"held"}, request : Ids \cup {Post}, id : Ids, wait : 0 .. LongPoll]

Patiences == {0, 1, Watchdog, ReportWait}
Longest == CHOOSE n \in Patiences : \A m \in Patiences : m <= n

(* The variables have the values their declarations say.  A timer of the   *)
(* server or of a script never runs below zero, also while the window's    *)
(* thread does not run.                                                    *)
TypeOK ==
    /\ server \in {"up", "frozen", "down"}
    /\ epoch \in 1 .. MaxTroubles + 1
    /\ pending \in [Ids -> [state : Decisions \cup {"unknown", "deciding", "error"},
                            age : 0 .. DoneTTL + 1]]
    /\ deciding \subseteq Ids
    /\ origin \in [Ids -> SUBSET Calls]
    /\ link \in [Calls -> Links]
    /\ abandoned \subseteq Calls
    /\ said \in [Calls -> SUBSET Decisions]
    /\ disturbed \subseteq Calls
    /\ troubles \in 0 .. MaxTroubles
    /\ opts \in [Calls -> Options]
    /\ hook \in [Calls -> [pc : {"idle", "waiting", "pausing", "done"},
                           id : Ids \cup {Post}, left : Overdue .. Longest,
                           timer : 0 .. Longest, retried : BOOLEAN,
                           port : 0 .. MaxTroubles + 1]]
    /\ out \in [Calls -> {"", "nothing", "allow", "deny", "ask"}]
    /\ alone \subseteq Calls /\ unread \subseteq Calls

-----------------------------------------------------------------------------
PrintedFor(c) == hook[c].pc = "done" /\ Pre(c)

(* Unless something broke while a call was under way, its script prints a  *)
(* decision that was made for this call, in the words of its assistant:    *)
(* however long the person takes, the watchdog does not fire, no id is     *)
(* forgotten before its decision was fetched, and no decision is given to  *)
(* another call.  explainit-hook.js:13-14, server.ts:274-366.              *)
AnswerIsTheDecision ==
    \A c \in Calls \ disturbed :
        PrintedFor(c) => \E d \in said[c] : out[c] = DecisionOut(opts[c].agent, d)

(* Whatever breaks, a script allows only what was allowed.  It is silent,  *)
(* so that the assistant goes on by its own rules, only if that was        *)
(* decided; if no window was running; if it could not read its input or    *)
(* the session file of the window that runs, or threw, before it asked,    *)
(* which lets a call pass under a live window (explainit-hook.js:21, 424-  *)
(* 432, 536-541); to Codex also for what was allowed or left to its own    *)
(* prompt, and if the person chose passthrough.  Once it has asked, no     *)
(* loss, freeze, restart or timeout makes a call pass that was not         *)
(* decided.  explainit-hook.js:10-21.                                      *)
NothingPassesUnchecked ==
    \A c \in Calls : PrintedFor(c) =>
        /\ out[c] = "allow" => "allow" \in said[c]
        /\ out[c] = "nothing" =>
              \/ "none" \in said[c]
              \/ c \in alone \cup unread
              \/ opts[c].agent = "codex" /\ said[c] \cap {"allow", "ask"} # {}
              \/ opts[c].agent = "codex" /\ opts[c].unresponsive = "passthrough"
        /\ out[c] = "deny" => "deny" \in said[c] \/ opts[c].agent = "codex"

(* A script is never later than its watchdog, counted from the server's    *)
(* last answer, plus the half second that request() grants the last retry: *)
(* also when connections break, and retries follow, just before the        *)
(* deadline.  explainit-hook.js:475, 483, 499.                             *)
NeverHangs == \A c \in Calls : hook[c].left >= -1

(* The calls being decided stay within MAX_IN_FLIGHT, whoever has given up *)
(* waiting for them, whatever the sweep forgot: "a flood of hook calls     *)
(* cannot queue unbounded work" (server.ts:31-36).                         *)
CapOnWork == Cardinality(deciding) <= MaxInFlight

(* Neither time nor work gets past its bound.                              *)
WithinBounds == NeverHangs /\ CapOnWork

(* Every script that was started ends: "It never hangs" (explainit-        *)
(* hook.js:18), also if the window freezes for ever, stops, or breaks      *)
(* connections, provided that decisions are made while it runs.            *)
EveryCallEnds == \A c \in Calls : hook[c].pc # "idle" ~> hook[c].pc = "done"
=============================================================================
