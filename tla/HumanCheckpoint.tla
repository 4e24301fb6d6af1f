---------------------------- MODULE HumanCheckpoint ----------------------------
(***************************************************************************)
(* What the checkpoint promises, without saying how: a change is allowed   *)
(* only in a session in which the person has accepted something, and a     *)
(* request that reports no session is allowed only by a decision about     *)
(* that very request.  (Twin files and writes that change nothing need no  *)
(* person; they are "free".)                                               *)
(***************************************************************************)
CONSTANTS Requests, Session, NoSession

VARIABLES
    session,   \* the session each request reports
    free,      \* requests that need no person
    accepted,  \* requests (wholly or partly) accepted by the person
    allowed    \* requests answered allow

vars == <<session, free, accepted, allowed>>

Init ==
    /\ session \in [Requests -> Session]
    /\ free = {}
    /\ accepted = {}
    /\ allowed = {}

Trusted(s) == s # NoSession /\ \E r \in accepted : session[r] = s

Submit(r) ==
    /\ r \notin accepted \cup allowed
    /\ \E s \in Session : session' = [session EXCEPT ![r] = s]
    /\ free' \in {free, free \cup {r}}
    /\ allowed' \in {allowed, IF r \in free' THEN allowed \cup {r} ELSE allowed}
    /\ UNCHANGED accepted

Accept(r) ==
    /\ r \notin accepted \cup allowed
    /\ accepted' = accepted \cup {r}
    /\ UNCHANGED <<session, free, allowed>>

Allow(r) ==
    /\ \/ r \in free
       \/ r \in accepted
       \/ Trusted(session[r])
    /\ allowed' = allowed \cup {r}
    /\ UNCHANGED <<session, free, accepted>>

Next == \E r \in Requests : Submit(r) \/ Accept(r) \/ Allow(r)

Spec == Init /\ [][Next]_vars
=============================================================================
