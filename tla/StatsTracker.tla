----------------------------- MODULE StatsTracker -----------------------------
(***************************************************************************)
(* stats.Tracker fed by a kernel's per-peer byte counters, as the backends *)
(* use it while nothing interleaves: a poll reads the counters and applies *)
(* them, removing a peer takes a last sample first. WireGuard.tla composes *)
(* the same operations with the races between polls and syncs.             *)
(***************************************************************************)
EXTENDS StatsEntry

CONSTANTS
    Keys,       \* tracker keys: a peer's public key, or a user's email
    MaxBytes    \* bound on the bytes a peer moves in all, per direction

ASSUME StatsTrackerAssumption == MaxBytes \in Nat

VARIABLES
    stats,    \* Tracker.stats: key -> entry
    present,  \* peers the kernel has
    kernel,   \* the counters of those peers
    sampled,  \* history: peers polled since their counters last started at zero
    moved,    \* history: bytes each peer has moved in all
    billed    \* history: bytes reported with reset

trackerVars == <<stats, present, kernel, sampled, moved, billed>>

Email == "user"

TrackerInit ==
    /\ stats = [k \in Keys |-> NoEntry]
    /\ present = {}
    /\ kernel = [k \in Keys |-> Zero]
    /\ sampled = {}
    /\ moved = [k \in Keys |-> Zero]
    /\ billed = [k \in Keys |-> Zero]

(* The kernel: peers come with counters at zero, move bytes, and lose      *)
(* their counts when the device is set up again.                           *)
AddPeer(k) ==
    /\ k \notin present
    /\ present' = present \cup {k}
    /\ kernel' = [kernel EXCEPT ![k] = Zero]
    /\ sampled' = sampled \ {k}
    /\ UNCHANGED <<stats, moved, billed>>

Traffic(k, d) ==
    /\ k \in present
    /\ moved[k][d] < MaxBytes
    /\ kernel' = [kernel EXCEPT ![k][d] = @ + 1]
    /\ moved' = [moved EXCEPT ![k][d] = @ + 1]
    /\ UNCHANGED <<stats, present, sampled, billed>>

CounterReset(k) ==
    /\ k \in present
    /\ kernel' = [kernel EXCEPT ![k] = Zero]
    /\ sampled' = sampled \ {k}
    /\ UNCHANGED <<stats, present, moved, billed>>

(* UpdateStatsBatch with one sample per peer.                              *)
UpdateStatsBatch ==
    /\ stats' = [k \in Keys |-> IF k \in present THEN ApplySample(stats[k], Email, kernel[k])
                                                 ELSE stats[k]]
    /\ sampled' = sampled \cup present
    /\ UNCHANGED <<present, kernel, moved, billed>>

(* A peer leaves: its last sample, unless the device could not be read,    *)
(* then the kernel forgets it and RemoveStats marks it.                    *)
RemovePeer(k, lastSample) ==
    /\ k \in present
    /\ stats' = [stats EXCEPT ![k] =
                    AfterRemove(IF lastSample THEN ApplySample(@, Email, kernel[k]) ELSE @)]
    /\ present' = present \ {k}
    /\ kernel' = [kernel EXCEPT ![k] = Zero]
    /\ sampled' = sampled \ {k}
    /\ UNCHANGED <<moved, billed>>

(* GetStats for some keys or GetUsersStats for all of them, with reset.    *)
(* Without reset they change nothing.                                      *)
Report(K) ==
    /\ stats' = [k \in Keys |-> IF k \in K THEN AfterReport(stats[k]) ELSE stats[k]]
    /\ billed' = [k \in Keys |-> [d \in Dirs |->
                     IF k \in K THEN billed[k][d] + Reported(stats[k], d) ELSE billed[k][d]]]
    /\ UNCHANGED <<present, kernel, sampled, moved>>

CleanupDeletedEntries ==
    /\ stats' = [k \in Keys |-> AfterCleanup(stats[k])]
    /\ UNCHANGED <<present, kernel, sampled, moved, billed>>

TrackerNext ==
    \/ \E k \in Keys : \/ AddPeer(k)
                       \/ \E d \in Dirs : Traffic(k, d)
                       \/ CounterReset(k)
                       \/ \E lastSample \in BOOLEAN : RemovePeer(k, lastSample)
                       \/ Report({k})
    \/ UpdateStatsBatch
    \/ Report(Keys)
    \/ CleanupDeletedEntries

TrackerSpec == TrackerInit /\ [][TrackerNext]_trackerVars
-----------------------------------------------------------------------------
(* Types of the tracker, the kernel and the histories.                     *)
TypeOK ==
    /\ stats \in [Keys -> Entry({Email}) \cup {NoEntry}]
    /\ present \subseteq Keys
    /\ kernel \in [Keys -> Counters]
    /\ sampled \subseteq present
    /\ moved \in [Keys -> Counters]
    /\ billed \in [Keys -> Counters]

(* What is reported never exceeds what was moved, through removals, re-    *)
(* adds, counter resets and reports in any order.                          *)
NeverOverbilled ==
    \A k \in Keys, d \in Dirs : billed[k][d] + Pending(stats[k], d) <= moved[k][d]

(* An entry never owes a negative count, so a report never skips one       *)
(* direction of a user while it forgets the other.                         *)
PendingIsNatural == \A k \in Keys, d \in Dirs : Pending(stats[k], d) >= 0

(* Bytes once counted stay accounted for: they are pending until a report  *)
(* takes them, whatever else happens to the entry.                         *)
CountedBytesAreKept ==
    [][\A k \in Keys, d \in Dirs :
          billed'[k][d] + Pending(stats'[k], d) >= billed[k][d] + Pending(stats[k], d)]_trackerVars
=============================================================================
