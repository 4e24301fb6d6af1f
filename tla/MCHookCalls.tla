----------------------------- MODULE MCHookCalls -----------------------------
(***************************************************************************)
(* Two or three hook scripts and one window.                               *)
(***************************************************************************)
EXTENDS HookCallsProperties

CONSTANTS c1, c2

CommandLine(agent, event, unresponsive) ==
    [agent |-> agent, event |-> event, unresponsive |-> unresponsive]

Claude == CommandLine("claude", "PreToolUse", "deny")
ClaudeReport == CommandLine("claude", "PostToolUse", "deny")
Codex == CommandLine("codex", "PreToolUse", "deny")
CodexPassthrough == CommandLine("codex", "PreToolUse", "passthrough")

(* Each of the command lines that the installer writes, next to another.   *)
Installed ==
    {[c \in {c1, c2} |-> IF c = c1 THEN pair[1] ELSE pair[2]] :
        pair \in {<<Claude, Codex>>, <<CodexPassthrough, ClaudeReport>>}}
=============================================================================
