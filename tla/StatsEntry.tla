------------------------------ MODULE StatsEntry ------------------------------
(***************************************************************************)
(* One entry of stats.Tracker and the operations on it. An entry holds the *)
(* last counters seen (current), the counters already accounted for        *)
(* (base), the unreported bytes of a removed peer (lastDelta), whether the *)
(* peer has been seen active, and whether it was removed.                  *)
(***************************************************************************)
EXTENDS Integers

Dirs == {"rx", "tx"}
Zero == [d \in Dirs |-> 0]
NoEntry == [email |-> "none"]

Counters == [Dirs -> Nat]

NewEntry(email) ==
    [email |-> email, current |-> Zero, base |-> Zero, lastDelta |-> Zero,
     active |-> FALSE, deleted |-> FALSE]

(* What the entry still has to report, per direction.                      *)
Pending(e, d) == IF e = NoEntry THEN 0 ELSE e.current[d] - e.base[d]

(* applySampleLocked: e is the entry found for the sample's key, or a new  *)
(* one.                                                                    *)
Readded(e) == \E d \in Dirs : e.lastDelta[d] # 0
RolledBack(e, s) == ~Readded(e) /\ \E d \in Dirs : s[d] < e.current[d]
ClampAway(n) == 0 * n   \* mutant: a rollback drops what was pending
Clamp(n) == IF n < 0 THEN 0 ELSE n

(* The mutants ignore a counter that went back, or forget what was pending *)
(* when it did.                                                            *)
NewBaseNoRollback(e, s) ==
    [d \in Dirs |-> IF Readded(e) THEN s[d] - e.lastDelta[d] ELSE e.base[d]]
NewBaseDropsPending(e, s) ==
    [d \in Dirs |-> IF Readded(e) \/ RolledBack(e, s) THEN s[d] ELSE e.base[d]]

NewBase(e, s) ==
    [d \in Dirs |->
        IF Readded(e) THEN s[d] - e.lastDelta[d]
        ELSE IF RolledBack(e, s) THEN s[d] - Clamp(e.current[d] - e.base[d])
        ELSE e.base[d]]

ApplySample(entry, email, s) ==
    LET e == IF entry = NoEntry THEN NewEntry(email) ELSE entry
    IN  [email |-> email, current |-> s, base |-> NewBase(e, s), lastDelta |-> Zero,
         active |-> e.active \/ \E d \in Dirs : s[d] > e.current[d],
         deleted |-> FALSE]

(* One entry's part of GetStats and GetUsersStats with reset. The mutant   *)
(* moves no base.                                                          *)
AfterReportKeepsBase(e) ==
    IF e = NoEntry \/ e.deleted THEN NoEntry ELSE e
AfterReport(e) ==
    IF e = NoEntry \/ e.deleted THEN NoEntry ELSE [e EXCEPT !.base = e.current]
Reported(e, d) == IF Pending(e, d) > 0 THEN Pending(e, d) ELSE 0

(* RemoveStats.                                                            *)
AfterRemove(e) ==
    IF e = NoEntry THEN NoEntry
    ELSE [e EXCEPT !.lastDelta = [d \in Dirs |-> e.current[d] - e.base[d]],
                   !.deleted = TRUE, !.active = FALSE]

(* One entry's part of CleanupDeletedEntries.                              *)
AfterCleanup(e) ==
    IF e # NoEntry /\ e.deleted /\ e.current = e.base THEN NoEntry ELSE e

Entry(Emails) ==
    [email : Emails, current : Counters, base : [Dirs -> Int], lastDelta : [Dirs -> Int],
     active : BOOLEAN, deleted : BOOLEAN]
=============================================================================
