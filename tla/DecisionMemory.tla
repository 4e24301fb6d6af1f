---------------------------- MODULE DecisionMemory ----------------------------
(***************************************************************************)
(* What the checkpoint remembers of the person's acceptances               *)
(* (src/review/pure/memory.ts): whole sessions, whole files, and single    *)
(* hunks.  A session here is the pair (agent, reported session id).        *)
(***************************************************************************)
EXTENDS Hunks

CONSTANTS
    Sessions,      \* sessions with an id
    NoSession,     \* a request that reports no session id
    MaxHunkKeys    \* cap on remembered hunk keys (MAX_HUNK_KEYS, 10000)

ASSUME NoSessionAssumption == NoSession \notin Sessions
ASSUME MaxHunkKeysAssumption == MaxHunkKeys \in Nat \ {0}

VARIABLES
    memSessions,   \* sessions in which "accept the rest of the session" holds
    memFiles,      \* <<session, path>>: "accept the rest of the file"
    memHunks       \* <<session, path, key>>: a hunk id or a hunk content hash

memVars == <<memSessions, memFiles, memHunks>>

MemKeys == Sessions \X Paths \X (HunkIds \cup (Texts \X Texts))
MemoryOK ==
    /\ memSessions \subseteq Sessions
    /\ memFiles \subseteq Sessions \X Paths
    /\ memHunks \subseteq MemKeys

MemInit ==
    /\ memSessions = {}
    /\ memFiles = {}
    /\ memHunks = {}

Lookup(s, p, id) ==
    /\ s # NoSession
    /\ \/ s \in memSessions
       \/ <<s, p>> \in memFiles
       \/ <<s, p, id>> \in memHunks

(***************************************************************************)
(* The cap evicts the oldest keys; which ones those are is left open.      *)
(***************************************************************************)
Capped(keys) ==
    IF Cardinality(keys) <= MaxHunkKeys THEN {keys}
    ELSE {kept \in SUBSET keys : Cardinality(kept) = MaxHunkKeys}

(***************************************************************************)
(* remember(decision, request): hs[p] is the sequence of hunks of the      *)
(* request in file p.  Only acceptances teach; a session-wide acceptance   *)
(* records the session alone.                                              *)
(***************************************************************************)
AcceptedKeys(d, s, hs) ==
    UNION {UNION {{<<s, p, HunkHash(hs[p][i])>>, <<s, p, HunkId(hs[p], i)>>} :
                     i \in {j \in DOMAIN hs[p] :
                               \/ d.verdict # "partial"
                               \/ HunkId(hs[p], j) \in d.accepted}} :
              p \in DOMAIN hs}

\* Fault: a rejection teaches as well.
EveryVerdictTeaches(d, s) == s # NoSession
Teaches(d, s) == d.verdict \in {"accept", "partial", "auto"} /\ s # NoSession

Remember(d, s, hs) ==
    IF ~Teaches(d, s) THEN UNCHANGED memVars
    ELSE IF d.scope = "session"
    THEN /\ memSessions' = memSessions \cup {s}
         /\ UNCHANGED <<memFiles, memHunks>>
    ELSE /\ memFiles' = IF d.scope = "file"
                        THEN memFiles \cup ({s} \X DOMAIN hs) ELSE memFiles
         /\ memHunks' \in Capped(memHunks \cup AcceptedKeys(d, s, hs))
         /\ UNCHANGED memSessions

\* A session or file acceptance expires after 30 minutes without a hit.
Expire ==
    /\ \/ \E s \in memSessions : memSessions' = memSessions \ {s} /\ UNCHANGED memFiles
       \/ \E f \in memFiles : memFiles' = memFiles \ {f} /\ UNCHANGED memSessions
    /\ UNCHANGED memHunks

ClearAll ==
    /\ memSessions' = {}
    /\ memFiles' = {}
    /\ memHunks' = {}
=============================================================================
