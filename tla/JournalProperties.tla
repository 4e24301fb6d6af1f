-------------------------- MODULE JournalProperties --------------------------
(***************************************************************************)
(* What makes the change journal correct, for journal/pure/journal.ts.     *)
(***************************************************************************)
EXTENDS Journal

(* The types of the files and of what a window keeps of them (TailState,    *)
(* journal.ts:220-227), and the bounds.                                    *)
JournalTypeOK ==
    /\ active \in {NoFile} \cup Text
    /\ DOMAIN archives \subseteq Stamps /\ DOMAIN tmps \subseteq Stamps \cup {Active}
    /\ \A n \in DOMAIN archives : archives[n] \in Seq(Entry \cup {Junk})
    /\ \A n \in DOMAIN tmps : tmps[n] \in Seq(Entry \cup {Junk})
    /\ st \in [Writers -> {NoState} \cup TailState]
    /\ pc \in [Writers -> Calls]
    /\ stamped \in 0 .. MaxAppends
    /\ recorded \subseteq 1 .. Len(history)
    /\ spent.appends <= MaxAppends
    /\ spent.stops + spent.faults + spent.edits + spent.overlaps <= MaxMishaps

(* Nobody touched the files, every recovery could clean up, and windows     *)
(* that share the folder took turns.                                       *)
Undisturbed == spent.edits = 0 /\ ~unfinished /\ spent.overlaps = 0

(* The last append has gone through: its window knows the file as it is.    *)
Settled == \E w \in Writers : active # NoFile /\ UpToDate(w) /\ \A v \in Writers : pc[v] = "idle"

(* Journal.ts:2 and README.md:154, "append-only, hash-chained": through     *)
(* rotations, crashes and failed calls the entries that the archives, an   *)
(* unfinished rotation and the active file hold together only ever grow at *)
(* their end, each chained to the one before it.                           *)
AsAppendOnlyLog == INSTANCE AppendOnlyLog
    WITH log <- Log, excused <- ~Undisturbed, GenesisHash <- GENESIS_HASH
AppendOnly == AsAppendOnlyLog!Spec

(* Journal.ts:9-10, "a crash can lose at most the line being written":      *)
(* every entry that was written and synced is still in the files.          *)
Hashed(lines) == {lines[i].hash : i \in EntryPlaces(lines)}
RecordedIsKept == Undisturbed => recorded \subseteq Hashed(LogLines)

(* Once an append has gone through, verifyChain (journal.ts:499-544) has    *)
(* nothing to report on a journal that nobody tampered with, whatever      *)
(* crashes, half rotations, torn lines and appends of other windows there  *)
(* were before it.                                                         *)
NoFalseAlarm ==
    Undisturbed /\ Settled => VerifyChain = "verified"

(* A journal that verifies tells the truth about the past (runbook 5, "any  *)
(* edit, deletion or reordering of past entries makes verification fail at *)
(* that point"): each of its entries is as it was written, and in front of *)
(* it stands exactly the log that it continued.                            *)
VerifiedIsAsWritten ==
    VerifyChain = "verified" =>
        LET chain == Chain IN
        \A i \in DOMAIN chain :
            LET past == history[chain[i].hash] IN
            /\ chain[i] = past.entry
            /\ past.log \in {NoLog, [k \in 1 .. i - 1 |-> chain[k].hash]}

(* The files hold what they should, and verification does not accuse an     *)
(* honest journal.                                                         *)
JournalInvariant == JournalTypeOK /\ RecordedIsKept /\ NoFalseAlarm
=============================================================================
