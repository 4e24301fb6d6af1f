---------------------------- MODULE AppendOnlyLog ----------------------------
(***************************************************************************)
(* What the change journal promises (README.md: "Append-only, hash-chained *)
(* journal per workspace"): a log of entries that only ever grows at its   *)
(* end, each entry chained to the one before it.  The promise is off once  *)
(* somebody has changed the files behind the journal's back.               *)
(***************************************************************************)
EXTENDS Integers, Sequences

CONSTANT GenesisHash

VARIABLES log, excused

TypeOK == /\ excused \in BOOLEAN
          /\ \A i \in DOMAIN log : log[i].seq \in Nat

Init == log = <<>> /\ ~excused

(* The entry after an empty log starts the chain; any other continues it.   *)
Follows(entry, before) ==
    IF before = <<>> THEN entry.prev = GenesisHash /\ entry.seq = 1
    ELSE entry.prev = before[Len(before)].hash /\ entry.seq = before[Len(before)].seq + 1

Extends(before, after) ==
    /\ Len(after) = Len(before) + 1
    /\ SubSeq(after, 1, Len(before)) = before
    /\ Follows(after[Len(after)], before)

Extend == ~excused /\ UNCHANGED excused /\ Extends(log, log')

Excused == excused'

Next == Extend \/ Excused

Spec == Init /\ [][Next]_<<log, excused>>

=============================================================================
