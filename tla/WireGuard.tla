------------------------------- MODULE WireGuard -------------------------------
(***************************************************************************)
(* The WireGuard backend: the interface in the kernel, the peer store, the *)
(* stats tracker, the user syncs that change all three one after the       *)
(* other, and the poll goroutine that reads the kernel meanwhile.          *)
(*                                                                         *)
(* Syncs and restarts hold syncMu, so one runs at a time; the poll and the *)
(* panel's stats requests take no part in it, and Shutdown takes only      *)
(* wg.mu. A step is one critical section of the store, the tracker or the  *)
(* manager. The store appears as the one map PeerStore is shown to         *)
(* implement, the tracker's entries with the operations of StatsEntry.     *)
(***************************************************************************)
EXTENDS Peers, StatsEntry

CONSTANTS
    UserIPs,    \* the addresses the panel may give each user
    SyncKinds,  \* which operations the panel calls
    Failures,   \* what may fail: "device" reads, the kernel's "configure" calls, the
                \* "delete" of the interface
    MaxBytes    \* bound on traffic: it ends when some peer has moved as many bytes

ASSUME WireGuardAssumption ==
    /\ UserIPs \in [Emails -> SUBSET IPs]
    /\ SyncKinds \subseteq {"SyncUsers", "UpdateUsers", "UpdateUsersAndRestart", "Restart"}
    /\ Failures \subseteq {"device", "configure", "delete"}
    /\ MaxBytes \in Nat

VARIABLES
    running,  \* the manager's client is open
    present,  \* kernel: the interface's peers
    allowed,  \* kernel: the allowed IPs of each; an address has one peer
    bytes,    \* kernel: the counters of each
    map,      \* the peer store
    stats,    \* the tracker
    sync,     \* the sync that holds syncMu
    poll,     \* the poll goroutine
    left,     \* history: the peers of an interface Shutdown could not delete
    drift,    \* history: a configure call has failed since the last one that replaced all peers
    moved,    \* history: bytes moved by each peer
    billed    \* history: bytes reported with reset

kernelVars == <<present, allowed, bytes, left>>
vars == <<running, kernelVars, map, stats, sync, poll, drift, moved, billed>>

Idle == [pc |-> "idle"]

-----------------------------------------------------------------------------
(***************************************************************************)
(* What the panel sends, after normalizeUsers: for some users a key and    *)
(* addresses, and whether the user belongs on this interface (a user whose *)
(* key or addresses are quarantined does not).                             *)
(***************************************************************************)
Batches ==
    UNION {[E -> [key : Keys, ips : SUBSET IPs, on : BOOLEAN]] : E \in SUBSET Emails}
ValidBatch(b) == \A e \in DOMAIN b : b[e].ips # {} /\ b[e].ips \subseteq UserIPs[e]

(* collectDesiredPeers: it refuses a batch that gives two users one key or *)
(* one address.                                                            *)
On(b) == {e \in DOMAIN b : b[e].on}
Conflict(b) ==
    \E e, f \in On(b) : e # f /\ (b[e].key = b[f].key \/ b[e].ips \cap b[f].ips # {})
Desired(b) ==
    [k \in Keys |->
        IF \E e \in On(b) : b[e].key = k
        THEN LET e == CHOOSE e \in On(b) : b[e].key = k IN [email |-> e, ips |-> b[e].ips]
        ELSE NoPeer]

(* newWithManagerFactory brings the interface up with the peers of a first *)
(* batch and initialises the store with the same peers.                    *)
Init ==
    /\ running = TRUE
    /\ \E b \in Batches : ValidBatch(b) /\ ~Conflict(b) /\ map = Desired(b)
    /\ present = Listed(map)
    /\ allowed = [k \in Keys |-> map[k].ips]
    /\ bytes = [k \in Keys |-> Zero]
    /\ stats = [k \in Keys |-> NoEntry]
    /\ sync = Idle
    /\ poll = Idle
    /\ drift = FALSE /\ left = {}
    /\ moved = [k \in Keys |-> Zero]
    /\ billed = [k \in Keys |-> Zero]

(* A partial sync looks only at the peers of the users it names, and       *)
(* refuses a key that a user it does not name holds.                       *)
Existing(full, b) ==
    [k \in Keys |-> IF full \/ map[k].email \in DOMAIN b THEN map[k] ELSE NoPeer]
KeyTakenUnchecked(b) == FALSE /\ b \in Batches   \* mutant: any key may be claimed
KeyTaken(b) ==
    \E k \in Listed(Desired(b)) :
        map[k].email \notin {NoEmail, Desired(b)[k].email} \cup DOMAIN b

(* buildSyncDiff *)
RemoveKeys(old, new) == Listed(old) \ Listed(new)
UpsertPeersNewOnly(old, new) ==   \* mutant: a key that changes hands is skipped
    [k \in Keys |-> IF old[k] = NoPeer THEN new[k] ELSE NoPeer]
UpsertPeers(old, new) == [k \in Keys |-> IF new[k] # old[k] THEN new[k] ELSE NoPeer]
PeerConfigsNewOnly(old, new) == RemoveKeys(new, old)   \* mutant: address changes are skipped
PeerConfigs(old, new) == {k \in Listed(UpsertPeers(old, new)) : old[k].ips # new[k].ips}

(***************************************************************************)
(* The kernel's answer to ConfigureDevice. An address given to a peer is   *)
(* taken from the peer that had it. Without ReplacePeers the configs of C  *)
(* are applied and then the removals of R; a failing call stops on the     *)
(* way.                                                                    *)
(***************************************************************************)
Configure(C, R, new) ==
    LET given == UNION {new[k].ips : k \in C}
    IN  /\ present' = (present \cup C) \ R
        /\ allowed' = [k \in Keys |->
              IF k \in R THEN {}
              ELSE IF k \in C THEN new[k].ips \cup (IF map[k] = NoPeer THEN allowed[k] ELSE {})
              ELSE allowed[k] \ given]
        /\ bytes' = [k \in Keys |-> IF k \in R \/ k \notin present THEN Zero ELSE bytes[k]]
        /\ UNCHANGED left

(* ReplacePeers: all peers go, their counters with them, and those of K    *)
(* come back; of two that claim one address the later one has it.          *)
ReplacePeers(K, new) ==
    /\ present' = K
    /\ \E winner \in [IPs -> Keys \cup {NoKey}] :
          /\ \A ip \in IPs : LET claim == {k \in K : ip \in new[k].ips}
                             IN  winner[ip] \in IF claim = {} THEN {NoKey} ELSE claim
          /\ allowed' = [k \in Keys |-> {ip \in IPs : winner[ip] = k}]
    /\ bytes' = [k \in Keys |-> Zero]
    /\ UNCHANGED left
-----------------------------------------------------------------------------
(***************************************************************************)
(* The syncs.                                                              *)
(***************************************************************************)

(* SyncUsers, UpdateUsers and the first half of UpdateUsersAndRestart, up  *)
(* to the diff. A batch that is refused changes nothing.                   *)
BeginSync(kind, b) ==
    /\ sync = Idle /\ kind \in SyncKinds \ {"Restart"}
    /\ ValidBatch(b) /\ ~Conflict(b)
    /\ LET full == kind = "SyncUsers"
           old == Existing(full, b)
           new == Desired(b)
       IN  /\ full \/ ~KeyTaken(b)
           /\ IF full /\ old = new
              THEN sync' = Idle      \* !diff.Changed: nothing to do
              ELSE sync' = [pc |-> IF RemoveKeys(old, new) = {} THEN "apply" ELSE "sample",
                            kind |-> kind, users |-> DOMAIN b, new |-> new,
                            remove |-> RemoveKeys(old, new),
                            upsert |-> UpsertPeers(old, new),
                            configs |-> PeerConfigs(old, new),
                            snapshot |-> <<>>]
    /\ UNCHANGED <<running, kernelVars, map, stats, poll, drift, moved, billed>>

(* sampleDepartingPeers reads the device; a failed read is not an error.   *)
SampleRead ==
    /\ sync.pc = "sample"
    /\ \/ /\ running
          /\ sync' = [sync EXCEPT !.pc = "sampled",
                              !.snapshot = [k \in sync.remove \cap present |-> bytes[k]]]
       \/ /\ ~running \/ "device" \in Failures
          /\ sync' = [sync EXCEPT !.pc = "apply"]
    /\ UNCHANGED <<running, kernelVars, map, stats, poll, drift, moved, billed>>

SampleApply ==
    /\ sync.pc = "sampled"
    /\ stats' = [k \in Keys |-> IF k \in DOMAIN sync.snapshot
                                THEN ApplySample(stats[k], map[k].email, sync.snapshot[k])
                                ELSE stats[k]]
    /\ sync' = [sync EXCEPT !.pc = "apply", !.snapshot = <<>>]
    /\ UNCHANGED <<running, kernelVars, map, poll, drift, moved, billed>>

(* ensureRunningWithManagerLocked and one configure call: ApplyPeers, or   *)
(* ApplyPeersReplaceAll for SyncUsers. A partial sync with nothing for the *)
(* kernel makes no call.                                                   *)
(* The mutant does not ask whether the manager is open.                    *)
ApplyAnyway ==
    /\ sync.pc = "apply"
    /\ sync' = [sync EXCEPT !.pc = "commit"]
    /\ IF sync.kind = "SyncUsers" THEN ReplacePeers(Listed(sync.new), sync.new)
       ELSE Configure(sync.configs, sync.remove, sync.new)
    /\ drift' = (drift /\ sync.kind # "SyncUsers")
    /\ UNCHANGED <<running, map, stats, poll, moved, billed>>

Apply ==
    /\ sync.pc = "apply"
    /\ sync' = [sync EXCEPT !.pc = "commit"]
    /\ \/ sync.kind = "SyncUsers" /\ running /\ ReplacePeers(Listed(sync.new), sync.new)
       \/ /\ sync.kind # "SyncUsers" /\ (running \/ sync.configs \cup sync.remove = {})
          /\ Configure(sync.configs, sync.remove, sync.new)
    /\ drift' = (drift /\ sync.kind # "SyncUsers")
    /\ UNCHANGED <<running, map, stats, poll, moved, billed>>

(* The call is refused by a closed manager, or fails on the way.           *)
ApplyFail ==
    /\ sync.pc = "apply"
    /\ sync' = Idle
    /\ \/ /\ ~running
          /\ sync.kind = "SyncUsers" \/ sync.configs \cup sync.remove # {}
          /\ UNCHANGED <<kernelVars, drift>>
       \/ /\ running /\ "configure" \in Failures
          /\ drift' = TRUE
          /\ \/ UNCHANGED kernelVars
             \/ /\ sync.kind = "SyncUsers"
                /\ \E K \in SUBSET Listed(sync.new) \ {Listed(sync.new)} : ReplacePeers(K, sync.new)
             \/ /\ sync.kind # "SyncUsers"
                /\ \E C \in SUBSET sync.configs, R \in SUBSET sync.remove :
                      /\ R # {} => C = sync.configs
                      /\ C \cup R # sync.configs \cup sync.remove
                      /\ Configure(C, R, sync.new)
    /\ UNCHANGED <<running, map, stats, poll, moved, billed>>

(* The store follows: ReplaceAll or ApplyChanges, which return the keys    *)
(* they removed.                                                           *)
Commit ==
    /\ sync.pc = "commit"
    /\ map' = IF sync.kind = "SyncUsers" THEN sync.new ELSE Applied(map, sync.remove, sync.upsert)
    /\ sync' = [sync EXCEPT !.pc = "removeStats", !.remove = RemoveKeys(map, map') \cap
                   IF sync.kind = "SyncUsers" THEN Keys ELSE sync.remove]
    /\ UNCHANGED <<running, kernelVars, stats, poll, drift, moved, billed>>

RemoveStats(k) ==
    /\ sync.pc = "removeStats" /\ k \in sync.remove
    /\ stats' = [stats EXCEPT ![k] = AfterRemove(@)]
    /\ sync' = [sync EXCEPT !.remove = @ \ {k}]
    /\ UNCHANGED <<running, kernelVars, map, poll, drift, moved, billed>>

SyncReturn ==
    /\ sync.pc = "removeStats" /\ sync.remove = {}
    /\ sync' = IF sync.kind = "UpdateUsersAndRestart" THEN [pc |-> "restart"] ELSE Idle
    /\ UNCHANGED <<running, kernelVars, map, stats, poll, drift, moved, billed>>

BeginRestart ==
    /\ sync = Idle /\ "Restart" \in SyncKinds
    /\ sync' = [pc |-> "restart"]
    /\ UNCHANGED <<running, kernelVars, map, stats, poll, drift, moved, billed>>

(* restartLocked gives the kernel the peers of the store.                  *)
Restart ==
    /\ sync.pc = "restart"
    /\ sync' = Idle
    /\ \/ running /\ ReplacePeers(Listed(map), map) /\ drift' = FALSE
       \/ ~running /\ UNCHANGED <<kernelVars, drift>>
       \/ /\ running /\ "configure" \in Failures
          /\ drift' = TRUE
          /\ \/ UNCHANGED kernelVars
             \/ \E K \in SUBSET Listed(map) \ {Listed(map)} : ReplacePeers(K, map)
    /\ UNCHANGED <<running, map, stats, poll, moved, billed>>
-----------------------------------------------------------------------------
(***************************************************************************)
(* The poll goroutine, which also cleans up, and the panel's requests.     *)
(***************************************************************************)

(* updateConnectedPeers reads the device: peers that have completed a      *)
(* handshake, which is traffic. Without one the poll changes nothing.      *)
Connected == {k \in present : bytes[k] # Zero}
PollRead ==
    /\ poll = Idle /\ running /\ Connected # {}
    /\ poll' = [pc |-> "read", snapshot |-> [k \in Connected |-> bytes[k]]]
    /\ UNCHANGED <<running, kernelVars, map, stats, sync, drift, moved, billed>>

PollEmails ==
    /\ poll.pc = "read"
    /\ poll' = [pc |-> "emails", snapshot |-> poll.snapshot,
                email |-> [k \in DOMAIN poll.snapshot |-> map[k].email]]
    /\ UNCHANGED <<running, kernelVars, map, stats, sync, drift, moved, billed>>

(* UpdateStatsBatch, unless the loop over the peers saw the shutdown.       *)
PollApply ==
    /\ poll.pc = "emails"
    /\ poll' = Idle
    /\ \/ ~running /\ UNCHANGED stats
       \/ stats' = [k \in Keys |-> IF k \in DOMAIN poll.snapshot /\ poll.email[k] # NoEmail
                                   THEN ApplySample(stats[k], poll.email[k], poll.snapshot[k])
                                   ELSE stats[k]]
    /\ UNCHANGED <<running, kernelVars, map, sync, drift, moved, billed>>

CleanupOfflineUsers ==
    /\ poll = Idle
    /\ stats' = [k \in Keys |-> AfterCleanup(stats[k])]
    /\ UNCHANGED <<running, kernelVars, map, sync, poll, drift, moved, billed>>

(* GetStats with reset, for all users or for the key a user had when it    *)
(* was looked up, which need not be the user's any more.                   *)
GetStats(K) ==
    /\ running
    /\ stats' = [k \in Keys |-> IF k \in K THEN AfterReport(stats[k]) ELSE stats[k]]
    /\ billed' = [k \in Keys |-> [d \in Dirs |->
                     IF k \in K THEN billed[k][d] + Reported(stats[k], d) ELSE billed[k][d]]]
    /\ UNCHANGED <<running, kernelVars, map, sync, poll, drift, moved>>

Traffic(k) ==
    /\ k \in present
    /\ \A j \in Keys : moved[j]["rx"] < MaxBytes
    /\ bytes' = [bytes EXCEPT ![k]["rx"] = @ + 1]
    /\ moved' = [moved EXCEPT ![k]["rx"] = @ + 1]
    /\ UNCHANGED <<running, present, allowed, left, map, stats, sync, poll, drift, billed>>

(* Manager.Close deletes the interface. If it cannot, which is logged, the *)
(* peers stay.                                                             *)
Close ==
    \/ /\ present' = {}
       /\ allowed' = [k \in Keys |-> {}]
       /\ bytes' = [k \in Keys |-> Zero]
       /\ UNCHANGED left
    \/ /\ "delete" \in Failures
       /\ left' = present
       /\ UNCHANGED <<present, allowed, bytes>>

(* The manager closes whatever a sync is doing.                            *)
Shutdown ==
    /\ running
    /\ running' = FALSE
    /\ Close
    /\ UNCHANGED <<map, stats, sync, poll, drift, moved, billed>>
-----------------------------------------------------------------------------
Sync ==
    \/ \E kind \in SyncKinds, b \in Batches : BeginSync(kind, b)
    \/ SampleRead \/ SampleApply \/ Apply \/ ApplyFail \/ Commit
    \/ \E k \in Keys : RemoveStats(k)
    \/ SyncReturn \/ BeginRestart \/ Restart

Poll == PollRead \/ PollEmails \/ PollApply \/ CleanupOfflineUsers

Next ==
    \/ Sync
    \/ Poll
    \/ GetStats(Keys) \/ \E k \in Keys : GetStats({k})
    \/ \E k \in Keys : Traffic(k)
    \/ Shutdown

Spec == Init /\ [][Next]_vars
-----------------------------------------------------------------------------
DeviceMatches(m) ==
    present = Listed(m) /\ \A k \in Keys : allowed[k] = m[k].ips

(* Between syncs the interface has exactly the store's peers with their    *)
(* addresses: partial and full syncs, key changes, swaps and restarts keep *)
(* the two in step. A configure call that fails half-way may set them      *)
(* apart; the next SyncUsers or Restart that reaches the kernel ends that. *)
KernelMatchesStore == running /\ sync = Idle /\ ~drift => DeviceMatches(map)

(* A sync leaves every user it names exactly as asked: on the key and      *)
(* addresses given, or off the interface.                                  *)
SyncDelivers ==
    sync.pc = "removeStats" =>
        \A k \in Keys : \/ map[k] = sync.new[k]
                        \/ sync.new[k] = NoPeer /\ map[k].email \notin sync.users

(* A partial sync does not touch the users it does not name.               *)
OthersKeepTheirPeers ==
    [][sync.pc # "idle" /\ sync.pc # "restart" /\ sync.kind # "SyncUsers" =>
          \A k \in Keys : map[k].email \in Emails \ sync.users => map'[k] = map[k]]_vars

(* Nothing brings a peer up after Shutdown, though a sync may hold the     *)
(* manager it read before: the interface is gone, or has no peer but those *)
(* it had when it could not be deleted.                                    *)
StoppedInterfaceIsEmpty == ~running => present \subseteq left

(* Bytes once counted are reported or pending, though polls apply readings *)
(* that are older than the sync's last sample or than the removal.         *)
CountedBytesAreKept ==
    [][\A k \in Keys, d \in Dirs :
          billed'[k][d] + Pending(stats'[k], d) >= billed[k][d] + Pending(stats[k], d)]_vars
=============================================================================
