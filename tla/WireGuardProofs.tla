--------------------------- MODULE WireGuardProofs --------------------------
(***************************************************************************)
(* Proofs about WireGuard, for any keys, users and addresses, and with     *)
(* polls, requests, failing calls and a shutdown between any two steps of  *)
(* a sync, and about the peer store it keeps.                              *)
(***************************************************************************)
EXTENDS WireGuard, PeerStore, TLAPS
-----------------------------------------------------------------------------
(***************************************************************************)
(* The backend.                                                            *)
(***************************************************************************)
(* A peer list that gives every user some of their addresses.              *)
Placed(m) ==
    m \in PeerList /\ \A k \in Listed(m) : m[k].ips # {} /\ m[k].ips \subseteq UserIPs[m[k].email]

(* The panel gives no address to two users.                                *)
OwnAddresses == \A e, f \in Emails : e # f => UserIPs[e] \cap UserIPs[f] = {}

Fields == {"pc", "kind", "users", "new", "remove", "upsert", "configs", "snapshot"}
Planning == {"sample", "sampled", "apply", "commit"}

(* The peers the sync may change, and what it leaves of the store.         *)
Seen ==
    [k \in Keys |->
        IF sync.kind = "SyncUsers" \/ map[k].email \in sync.users THEN map[k] ELSE NoPeer]
Final == IF sync.kind = "SyncUsers" THEN sync.new ELSE Applied(map, sync.remove, sync.upsert)

(* The diff of a sync under way fits the store until it is committed:      *)
(* nothing else writes to the store.                                       *)
Plan ==
    /\ Placed(sync.new)
    /\ sync.users \subseteq Emails
    /\ \A k \in Listed(sync.new) :
          /\ sync.new[k].email \in sync.users
          /\ sync.kind # "SyncUsers" => map[k].email \in {NoEmail} \cup sync.users
    /\ sync.remove = RemoveKeys(Seen, sync.new)
    /\ sync.upsert = UpsertPeers(Seen, sync.new)
    /\ sync.configs = PeerConfigs(Seen, sync.new)

Shape ==
    /\ sync.pc \in Planning \cup {"idle", "restart", "removeStats"}
    /\ sync.pc \in Planning \cup {"removeStats"} => DOMAIN sync = Fields
    /\ sync.pc = "idle" => sync = Idle

Inv ==
    /\ Shape
    /\ Placed(map)
    /\ sync.pc \in Planning => Plan
    /\ SyncDelivers
    /\ StoppedInterfaceIsEmpty

(* Between the configure call and the commit the interface is ahead.       *)
Device ==
    running /\ ~drift => DeviceMatches(IF sync.pc = "commit" THEN Final ELSE map)
-----------------------------------------------------------------------------
LEMMA NoPeerFields == NoPeer.email = NoEmail /\ NoPeer.ips = {} /\ NoEmail \notin Emails
BY PeersAssumption DEF NoPeer

LEMMA PlacedPeer ==
    ASSUME NEW m, Placed(m), NEW k \in Keys
    PROVE  /\ m[k] = NoPeer \/ (m[k] \in PeerInfo /\ m[k].email \in Emails /\ m[k].ips # {})
           /\ m[k] = NoPeer <=> m[k].email = NoEmail
           /\ m[k] = NoPeer <=> m[k].ips = {}
BY NoPeerFields DEF Placed, PeerList, PeerMaps, PeerInfo, Listed

(* Two peers of one list have no address in common.                        *)
LEMMA PlacedApart ==
    ASSUME OwnAddresses, NEW m, Placed(m), NEW j \in Keys, NEW k \in Keys, j # k
    PROVE  m[j].ips \cap m[k].ips = {}
<1>1. CASE m[j] = NoPeer \/ m[k] = NoPeer
  BY <1>1, NoPeerFields
<1>2. CASE m[j] # NoPeer /\ m[k] # NoPeer
  <2>1. m[j].email \in Emails /\ m[k].email \in Emails
    BY <1>2, PlacedPeer
  <2>2. m[j].email # m[k].email
    BY <2>1 DEF Placed, PeerList
  <2>3. m[j].ips \subseteq UserIPs[m[j].email] /\ m[k].ips \subseteq UserIPs[m[k].email]
    BY <1>2 DEF Placed, Listed
  <2> QED
    BY <2>1, <2>2, <2>3 DEF OwnAddresses
<1> QED
  BY <1>1, <1>2

(* collectDesiredPeers makes such a list of a batch it does not refuse.    *)
LEMMA DesiredIsPlaced ==
    ASSUME NEW b \in Batches, ValidBatch(b), ~Conflict(b)
    PROVE  /\ Placed(Desired(b)) /\ DOMAIN b \subseteq Emails
           /\ \A k \in Listed(Desired(b)) : Desired(b)[k].email \in DOMAIN b
<1> DEFINE m == Desired(b)
<1>1. DOMAIN b \subseteq Emails /\ \A e \in DOMAIN b : b[e].ips \in SUBSET IPs
  BY DEF Batches
<1>2. ASSUME NEW k \in Keys
      PROVE  \/ m[k] = NoPeer
             \/ \E e \in On(b) : b[e].key = k /\ m[k] = [email |-> e, ips |-> b[e].ips]
  BY DEF Desired
<1> HIDE DEF m
<1>3. ASSUME NEW k \in Keys, m[k] # NoPeer
      PROVE  /\ m[k].email \in DOMAIN b /\ m[k].email \in On(b) /\ b[m[k].email].key = k
             /\ m[k] \in PeerInfo
             /\ m[k].ips # {} /\ m[k].ips \subseteq UserIPs[m[k].email]
  <2>1. PICK e \in On(b) : b[e].key = k /\ m[k] = [email |-> e, ips |-> b[e].ips]
    BY <1>2, <1>3
  <2>2. m[k].email = e /\ m[k].ips = b[e].ips /\ e \in DOMAIN b
    BY <2>1 DEF On
  <2> QED
    BY <1>1, <2>1, <2>2 DEF ValidBatch, PeerInfo
<1>4. m \in PeerMaps
  <2>1. \A k \in Keys : m[k] \in PeerInfo \cup {NoPeer}
    BY <1>3
  <2> QED
    BY <2>1 DEF m, Desired, PeerMaps
<1>5. m \in PeerList
  <2>1. ASSUME NEW j \in Keys, NEW k \in Keys, m[j].email = m[k].email, m[j].email \in Emails
        PROVE  j = k
    <3>1. m[j] # NoPeer /\ m[k] # NoPeer
      BY <2>1, NoPeerFields
    <3> QED
      BY <1>3, <2>1, <3>1
  <2> QED
    BY <1>4, <2>1 DEF PeerList
<1> QED
  BY <1>1, <1>3, <1>5 DEF m, Placed, Listed

(* What a partial sync makes of the store: the users it names have what    *)
(* they are to have, the others what they had.                             *)
LEMMA FinalPeers ==
    ASSUME Plan, Placed(map), sync.kind # "SyncUsers", NEW k \in Keys
    PROVE  Final[k] = IF map[k].email \in sync.users \/ sync.new[k] # NoPeer
                      THEN sync.new[k] ELSE map[k]
<1> DEFINE new == sync.new
<1>1. Seen[k] = IF map[k].email \in sync.users THEN map[k] ELSE NoPeer
  BY DEF Seen
<1>2. sync.upsert[k] = IF new[k] # Seen[k] THEN new[k] ELSE NoPeer
  BY DEF Plan, UpsertPeers
<1>3. k \in sync.remove <=> Seen[k] # NoPeer /\ new[k] = NoPeer
  BY DEF Plan, RemoveKeys, Listed
<1>4. Final[k] = IF sync.upsert[k] # NoPeer THEN sync.upsert[k]
                 ELSE IF k \in sync.remove \/ map[k].email \in ListedEmails(sync.upsert) THEN NoPeer
                 ELSE map[k]
  BY DEF Final, Applied
<1>5. CASE sync.upsert[k] # NoPeer
  BY <1>2, <1>4, <1>5
<1>6. CASE sync.upsert[k] = NoPeer /\ k \in sync.remove
  <2>1. map[k].email \in sync.users
    BY <1>1, <1>3, <1>6
  <2> QED
    BY <1>3, <1>4, <1>6, <2>1
<1>7. CASE sync.upsert[k] = NoPeer /\ k \notin sync.remove
  <2>1. CASE map[k].email \in sync.users
    <3>1. map[k] # NoPeer
      BY <2>1, NoPeerFields DEF Plan
    <3>2. new[k] # NoPeer
      BY <1>1, <1>3, <1>7, <2>1, <3>1
    <3>3. new[k] = map[k]
      BY <1>1, <1>2, <1>7, <2>1, <3>2
    <3>4. map[k].email \notin ListedEmails(sync.upsert)
      <4> SUFFICES ASSUME NEW j \in Listed(sync.upsert), sync.upsert[j].email = map[k].email
                   PROVE  FALSE
        BY DEF ListedEmails
      <4>1. sync.upsert[j] = new[j] /\ new[j] # Seen[j] /\ j \in Keys
        BY DEF Plan, UpsertPeers, Listed
      <4>2. new[j].email = new[k].email /\ new[k].email \in Emails
        BY <2>1, <3>3, <4>1 DEF Plan
      <4>3. j = k
        BY <4>1, <4>2 DEF Plan, Placed, PeerList
      <4> QED
        BY <1>7, <4>3 DEF Listed
    <3> QED
      BY <1>4, <1>7, <2>1, <3>3, <3>4
  <2>2. CASE map[k].email \notin sync.users
    <3>1. new[k] = NoPeer
      BY <1>1, <1>2, <1>7, <2>2
    <3>2. map[k].email \in ListedEmails(sync.upsert) => FALSE
      <4> SUFFICES ASSUME NEW j \in Listed(sync.upsert), sync.upsert[j].email = map[k].email
                   PROVE  FALSE
        BY DEF ListedEmails
      <4>1. sync.upsert[j] = new[j] /\ new[j] # NoPeer /\ j \in Keys
        BY DEF Plan, UpsertPeers, Listed
      <4>2. new[j].email \in sync.users
        BY <4>1 DEF Plan, Listed
      <4> QED
        BY <2>2, <4>1, <4>2
    <3> QED
      BY <1>4, <1>7, <2>2, <3>1, <3>2
  <2> QED
    BY <2>1, <2>2
<1> QED
  BY <1>5, <1>6, <1>7

LEMMA FinalIsPlaced ==
    ASSUME Plan, Placed(map)
    PROVE  Placed(Final)
<1>1. CASE sync.kind = "SyncUsers"
  BY <1>1 DEF Final, Plan
<1>2. CASE sync.kind # "SyncUsers"
  <2>1. \A k \in Keys : Final[k] = IF map[k].email \in sync.users \/ sync.new[k] # NoPeer
                                   THEN sync.new[k] ELSE map[k]
    BY <1>2, FinalPeers
  <2>2. Final = [k \in Keys |-> Final[k]]
    BY <1>2 DEF Final, Applied
  <2>3. Placed(sync.new)
    BY DEF Plan
  <2>4. \A k \in Keys : Final[k] \in PeerInfo \cup {NoPeer}
    BY <2>1, <2>3, PlacedPeer
  <2>5. Final \in PeerMaps
    BY <2>2, <2>4 DEF PeerMaps
  <2>6. ASSUME NEW j \in Keys, NEW k \in Keys, Final[j].email = Final[k].email,
               Final[j].email \in Emails
        PROVE  j = k
    <3> DEFINE New(i) == map[i].email \in sync.users \/ sync.new[i] # NoPeer
    <3>1. CASE New(j) /\ New(k)
      BY <2>1, <2>3, <2>6, <3>1 DEF Placed, PeerList
    <3>2. CASE ~New(j) /\ ~New(k)
      BY <2>1, <2>6, <3>2 DEF Placed, PeerList
    <3>3. ASSUME NEW x \in Keys, NEW y \in Keys, New(x), ~New(y),
                 Final[x].email = Final[y].email, Final[x].email \in Emails
          PROVE  FALSE
      <4>1. Final[x] = sync.new[x] /\ Final[y] = map[y]
        BY <2>1, <3>3
      <4>2. sync.new[x] # NoPeer
        BY <3>3, <4>1, NoPeerFields
      <4>3. sync.new[x].email \in sync.users
        BY <4>2 DEF Plan, Listed
      <4> QED
        BY <3>3, <4>1, <4>3
    <3> QED
      BY <2>6, <3>1, <3>2, <3>3
  <2>7. \A k \in Listed(Final) : Final[k].ips # {} /\ Final[k].ips \subseteq UserIPs[Final[k].email]
    BY <2>1, <2>3 DEF Placed, Listed
  <2> QED
    BY <2>5, <2>6, <2>7 DEF Placed, PeerList
<1> QED
  BY <1>1, <1>2
-----------------------------------------------------------------------------
(***************************************************************************)
(* The store and the diff.                                                 *)
(***************************************************************************)

(* buildSyncDiff, when the sync has something to do.                       *)
LEMMA BeginSyncPlans ==
    ASSUME Inv, NEW kind \in SyncKinds, NEW b \in Batches, BeginSync(kind, b)
    PROVE  Shape' /\ (sync'.pc \in Planning => Plan') /\ sync'.pc # "removeStats"
<1> DEFINE full == kind = "SyncUsers"
           old == Existing(full, b)
           new == Desired(b)
           remove == RemoveKeys(old, new)
           s == [pc |-> IF remove = {} THEN "apply" ELSE "sample",
                 kind |-> kind, users |-> DOMAIN b, new |-> new, remove |-> remove,
                 upsert |-> UpsertPeers(old, new), configs |-> PeerConfigs(old, new),
                 snapshot |-> <<>>]
<1>1. sync' = Idle \/ (sync' = s /\ (full \/ ~KeyTaken(b)))
  BY DEF BeginSync
<1>2. ValidBatch(b) /\ ~Conflict(b) /\ map' = map
  BY DEF BeginSync
<1>3. CASE sync' = Idle
  BY <1>3 DEF Shape, Idle, Planning
<1>4. CASE sync' = s /\ (full \/ ~KeyTaken(b))
  <2>1. /\ sync'.pc \in {"apply", "sample"} /\ DOMAIN sync' = Fields
        /\ sync'.kind = kind /\ sync'.users = DOMAIN b /\ sync'.new = new
        /\ sync'.remove = RemoveKeys(old, new)
        /\ sync'.upsert = UpsertPeers(old, new) /\ sync'.configs = PeerConfigs(old, new)
    <3> HIDE DEF full, old, new
    <3> QED
      BY <1>4 DEF Fields
  <2>2. Seen' = old
    BY <1>2, <2>1 DEF Seen, Existing
  <2>3. Placed(new) /\ DOMAIN b \subseteq Emails /\ \A k \in Listed(new) : new[k].email \in DOMAIN b
    BY <1>2, DesiredIsPlaced
  <2>4. kind # "SyncUsers" => \A k \in Listed(new) : map[k].email \in {NoEmail} \cup DOMAIN b
    BY <1>4, <2>3 DEF KeyTaken
  <2> HIDE DEF old, new
  <2>5. Plan'
    BY <1>2, <2>1, <2>2, <2>3, <2>4 DEF Plan
  <2> QED
    BY <2>1, <2>5 DEF Shape, Planning
<1> QED
  BY <1>1, <1>3, <1>4

(* The steps of a sync that leave the diff and the store as they are.      *)
LEMMA PlanStays ==
    ASSUME Shape, Placed(map), sync.pc \in Planning, Plan, map' = map,
           DOMAIN sync' = Fields, sync'.pc \in Planning,
           \A f \in {"kind", "users", "new", "remove", "upsert", "configs"} : sync'[f] = sync[f]
    PROVE  Shape' /\ Plan' /\ Final' = Final /\ sync'.kind = sync.kind
<1>1. /\ sync'.kind = sync.kind /\ sync'.users = sync.users /\ sync'.new = sync.new
      /\ sync'.remove = sync.remove /\ sync'.upsert = sync.upsert
      /\ sync'.configs = sync.configs
  OBVIOUS
<1>2. Seen' = Seen
  BY <1>1 DEF Seen
<1>3. Plan'
  BY <1>1, <1>2 DEF Plan
<1>4. Shape'
  BY DEF Shape, Planning
<1>5. Final' = Final
  BY <1>1 DEF Final
<1> QED
  BY <1>1, <1>3, <1>4, <1>5

(* ReplaceAll and ApplyChanges.                                            *)
LEMMA CommitDelivers ==
    ASSUME Inv, Commit
    PROVE  Shape' /\ map' = Final /\ Placed(map)' /\ SyncDelivers' /\ sync'.pc = "removeStats"
<1>1. Plan /\ DOMAIN sync = Fields /\ Placed(map) /\ sync.pc = "commit"
  BY DEF Inv, Commit, Planning, Shape
<1>2. map' = Final
  BY DEF Commit, Final
<1>3. Placed(map)'
  <2>1. Placed(Final)
    BY <1>1, FinalIsPlaced
  <2> QED
    BY <1>2, <2>1 DEF Placed, Listed
<1>4. /\ sync'.pc = "removeStats" /\ sync'.new = sync.new /\ sync'.users = sync.users
      /\ DOMAIN sync' = Fields
  BY <1>1 DEF Commit, Fields
<1>5. ASSUME NEW k \in Keys
      PROVE  Final[k] = sync.new[k] \/ (sync.new[k] = NoPeer /\ Final[k].email \notin sync.users)
  <2>1. CASE sync.kind = "SyncUsers"
    BY <2>1 DEF Final
  <2>2. CASE sync.kind # "SyncUsers"
    BY <1>1, <2>2, FinalPeers
  <2> QED
    BY <2>1, <2>2
<1>6. SyncDelivers'
  BY <1>2, <1>4, <1>5 DEF SyncDelivers
<1> QED
  BY <1>2, <1>3, <1>4, <1>6 DEF Shape, Planning

(* Once the manager is closed no step reaches the interface.               *)
LEMMA StoppedStays ==
    ASSUME Inv, [Next]_vars
    PROVE  StoppedInterfaceIsEmpty'
<1>1. CASE UNCHANGED <<running, present, left>>
  BY <1>1 DEF Inv, StoppedInterfaceIsEmpty
<1>2. CASE running'
  BY <1>2 DEF StoppedInterfaceIsEmpty
<1>3. CASE Apply
  <2>1. CASE ~running /\ sync.kind # "SyncUsers" /\ sync.configs \cup sync.remove = {}
             /\ Configure(sync.configs, sync.remove, sync.new)
    BY <2>1 DEF Configure, Inv, StoppedInterfaceIsEmpty
  <2> QED
    BY <1>2, <1>3, <2>1 DEF Apply
<1>4. CASE ApplyFail
  BY <1>1, <1>2, <1>4 DEF ApplyFail, kernelVars
<1>5. CASE Restart
  BY <1>1, <1>2, <1>5 DEF Restart, kernelVars
<1>6. CASE Shutdown
  BY <1>6 DEF Shutdown, Close, StoppedInterfaceIsEmpty
<1>7. CASE (\E k \in Keys : Traffic(k) \/ GetStats({k})) \/ GetStats(Keys)
  BY <1>1, <1>7 DEF Traffic, GetStats, kernelVars
<1>8. CASE Poll
  BY <1>1, <1>8 DEF Poll, PollRead, PollEmails, PollApply, CleanupOfflineUsers, kernelVars
<1>9. CASE \/ \E kind \in SyncKinds, b \in Batches : BeginSync(kind, b)
           \/ SampleRead \/ SampleApply \/ Commit \/ SyncReturn \/ BeginRestart
           \/ \E k \in Keys : RemoveStats(k)
  BY <1>1, <1>9
  DEF BeginSync, SampleRead, SampleApply, Commit, SyncReturn, BeginRestart, RemoveStats, kernelVars
<1>10. CASE UNCHANGED vars
  BY <1>1, <1>10 DEF vars, kernelVars
<1> QED
  BY <1>3, <1>4, <1>5, <1>6, <1>7, <1>8, <1>9, <1>10 DEF Next, Sync

LEMMA InvStep ==
    ASSUME Inv, [Next]_vars
    PROVE  Inv'
<1>1. StoppedInterfaceIsEmpty'
  BY StoppedStays
<1>2. CASE UNCHANGED <<sync, map>>
  <2>1. Shape' /\ Placed(map)' /\ SyncDelivers'
    BY <1>2 DEF Inv, Shape, Placed, Listed, SyncDelivers
  <2>2. sync.pc \in Planning => Plan'
    BY <1>2 DEF Inv, Plan, Seen
  <2> QED
    BY <1>1, <1>2, <2>1, <2>2 DEF Inv
<1>3. ASSUME NEW kind \in SyncKinds, NEW b \in Batches, BeginSync(kind, b)
      PROVE  Inv'
  <2>1. Placed(map)'
    BY <1>3 DEF BeginSync, Inv, Placed, Listed
  <2>2. Shape' /\ (sync'.pc \in Planning => Plan') /\ sync'.pc # "removeStats"
    BY <1>3, BeginSyncPlans
  <2> QED
    BY <1>1, <2>1, <2>2 DEF Inv, SyncDelivers
<1>4. CASE SampleRead \/ SampleApply \/ Apply
  <2>1. sync.pc \in {"sample", "sampled", "apply"} /\ map' = map
    BY <1>4 DEF SampleRead, SampleApply, Apply
  <2>2. DOMAIN sync = Fields /\ Plan /\ Shape /\ Placed(map)
    BY <2>1 DEF Inv, Shape, Planning
  <2>3. /\ DOMAIN sync' = Fields /\ sync'.pc \in {"sampled", "apply", "commit"}
        /\ \A f \in {"kind", "users", "new", "remove", "upsert", "configs"} : sync'[f] = sync[f]
    BY <1>4, <2>2 DEF SampleRead, SampleApply, Apply, Fields
  <2>4. Shape' /\ Plan'
    BY <2>1, <2>2, <2>3, PlanStays DEF Planning
  <2> QED
    BY <1>1, <2>1, <2>2, <2>3, <2>4 DEF Inv, SyncDelivers, Placed, Listed
<1>5. CASE ApplyFail \/ Restart
  <2>1. sync' = Idle /\ map' = map
    BY <1>5 DEF ApplyFail, Restart
  <2> QED
    BY <1>1, <2>1 DEF Inv, Shape, Idle, Planning, SyncDelivers, Placed, Listed
<1>6. CASE Commit
  BY <1>1, <1>6, CommitDelivers DEF Inv, Planning
<1>7. ASSUME NEW k \in Keys, RemoveStats(k)
      PROVE  Inv'
  <2>1. sync.pc = "removeStats" /\ map' = map /\ DOMAIN sync = Fields
    BY <1>7 DEF RemoveStats, Inv, Shape
  <2>2. /\ DOMAIN sync' = Fields /\ sync'.pc = "removeStats" /\ sync'.new = sync.new
        /\ sync'.users = sync.users
    BY <1>7, <2>1 DEF RemoveStats, Fields
  <2> QED
    BY <1>1, <2>1, <2>2 DEF Inv, Shape, Planning, SyncDelivers, Placed, Listed
<1>8. CASE SyncReturn \/ BeginRestart
  <2>1. sync' \in {Idle, [pc |-> "restart"]} /\ map' = map
    BY <1>8 DEF SyncReturn, BeginRestart
  <2> QED
    BY <1>1, <2>1 DEF Inv, Shape, Idle, Planning, SyncDelivers, Placed, Listed
<1>9. CASE Poll
  BY <1>2, <1>9 DEF Poll, PollRead, PollEmails, PollApply, CleanupOfflineUsers
<1>10. CASE (\E k \in Keys : Traffic(k) \/ GetStats({k})) \/ GetStats(Keys) \/ Shutdown
  BY <1>2, <1>10 DEF Traffic, GetStats, Shutdown, Close
<1>11. CASE UNCHANGED vars
  BY <1>2, <1>11 DEF vars
<1> QED
  BY <1>3, <1>4, <1>5, <1>6, <1>7, <1>8, <1>9, <1>10, <1>11 DEF Next, Sync

LEMMA InitInv == Init => Inv
<1> SUFFICES ASSUME Init
             PROVE  Inv
  OBVIOUS
<1>1. PICK b \in Batches : ValidBatch(b) /\ ~Conflict(b) /\ map = Desired(b)
  BY DEF Init
<1>2. Placed(map)
  BY <1>1, DesiredIsPlaced
<1>3. sync = Idle /\ running
  BY DEF Init
<1> QED
  BY <1>2, <1>3 DEF Inv, Shape, Idle, Planning, SyncDelivers, StoppedInterfaceIsEmpty

(* Whatever polls, requests, failures and the shutdown do between the      *)
(* steps of a sync, the diff it computed fits the store it commits to.     *)
THEOREM Invariance == Spec => []Inv
BY InitInv, InvStep, PTL DEF Spec

(* SyncUsers, UpdateUsers and UpdateUsersAndRestart: after the commit      *)
(* every user named has what was asked for.                                *)
THEOREM SyncsDeliver == Spec => []SyncDelivers
<1>1. Inv => SyncDelivers
  BY DEF Inv
<1> QED
  BY Invariance, <1>1, PTL

(* Shutdown: the interface stays empty, or with the peers it had when it   *)
(* could not be deleted, though a sync goes on.                            *)
THEOREM StoppedInterfacesStayEmpty == Spec => []StoppedInterfaceIsEmpty
<1>1. Inv => StoppedInterfaceIsEmpty
  BY DEF Inv
<1> QED
  BY Invariance, <1>1, PTL

(* ApplyChanges: a partial sync changes no peer of a user it does not name.*)
THEOREM OthersAreLeftAlone == Spec => OthersKeepTheirPeers
<1>1. Inv /\ [Next]_vars =>
        [sync.pc # "idle" /\ sync.pc # "restart" /\ sync.kind # "SyncUsers" =>
            \A k \in Keys : map[k].email \in Emails \ sync.users => map'[k] = map[k]]_vars
  <2> SUFFICES ASSUME Inv, Next, sync.pc # "idle", sync.pc # "restart",
                      sync.kind # "SyncUsers"
               PROVE  \A k \in Keys : map[k].email \in Emails \ sync.users => map'[k] = map[k]
    OBVIOUS
  <2>1. CASE map' = map
    BY <2>1
  <2>2. CASE Commit
    <3> SUFFICES ASSUME NEW k \in Keys,
                        map[k].email \in Emails \ sync.users
                 PROVE  map'[k] = map[k]
      OBVIOUS
    <3>1. Plan /\ Placed(map) /\ map' = Final
      BY <2>2, CommitDelivers DEF Inv, Commit, Planning
    <3>2. sync.new[k] = NoPeer
      BY <3>1, NoPeerFields DEF Plan, Listed
    <3> QED
      BY <3>1, <3>2, FinalPeers
  <2>3. CASE (\E k \in Keys : Traffic(k) \/ GetStats({k})) \/ GetStats(Keys) \/ Shutdown
    BY <2>1, <2>3 DEF Traffic, GetStats, Shutdown, Close
  <2>4. CASE Poll
    BY <2>1, <2>4 DEF Poll, PollRead, PollEmails, PollApply, CleanupOfflineUsers
  <2>5. CASE \/ \E kind \in SyncKinds, b \in Batches : BeginSync(kind, b)
             \/ SampleRead \/ SampleApply \/ Apply \/ ApplyFail
    BY <2>1, <2>5 DEF BeginSync, SampleRead, SampleApply, Apply, ApplyFail
  <2>6. CASE SyncReturn \/ BeginRestart \/ Restart \/ \E k \in Keys : RemoveStats(k)
    BY <2>1, <2>6 DEF SyncReturn, BeginRestart, Restart, RemoveStats
  <2> QED
    BY <2>2, <2>3, <2>4, <2>5, <2>6 DEF Next, Sync
<1> QED
  BY Invariance, <1>1, PTL DEF Spec, OthersKeepTheirPeers
-----------------------------------------------------------------------------
(***************************************************************************)
(* The interface.                                                          *)
(***************************************************************************)

(* A full replacement gives every address to its one owner.                *)
LEMMA ReplaceMatches ==
    ASSUME OwnAddresses, NEW m, Placed(m), ReplacePeers(Listed(m), m)
    PROVE  present' = Listed(m) /\ \A k \in Keys : allowed'[k] = m[k].ips
<1>1. PICK winner \in [IPs -> Keys \cup {NoKey}] :
          /\ \A ip \in IPs : LET claim == {k \in Listed(m) : ip \in m[k].ips}
                             IN  winner[ip] \in IF claim = {} THEN {NoKey} ELSE claim
          /\ allowed' = [k \in Keys |-> {ip \in IPs : winner[ip] = k}]
  BY DEF ReplacePeers
<1>2. ASSUME NEW k \in Keys
      PROVE  m[k].ips \subseteq IPs /\ (m[k].ips # {} => k \in Listed(m))
  BY PlacedPeer, NoPeerFields DEF Listed, PeerInfo
<1>3. ASSUME NEW k \in Keys, NEW ip \in IPs
      PROVE  winner[ip] = k <=> ip \in m[k].ips
  <2> DEFINE claim == {j \in Listed(m) : ip \in m[j].ips}
  <2>1. winner[ip] \in IF claim = {} THEN {NoKey} ELSE claim
    BY <1>1
  <2>2. CASE ip \in m[k].ips
    <3>1. k \in claim
      BY <1>2, <2>2
    <3>2. \A j \in claim : j = k
      BY <2>2, PlacedApart DEF Listed
    <3> QED
      BY <2>1, <2>2, <3>1, <3>2
  <2>3. CASE ip \notin m[k].ips
    BY <2>1, <2>3, PeersAssumption
  <2> QED
    BY <2>2, <2>3
<1>4. present' = Listed(m)
  BY DEF ReplacePeers
<1>5. ASSUME NEW k \in Keys
      PROVE  allowed'[k] = m[k].ips
  <2>1. allowed'[k] = {ip \in IPs : winner[ip] = k}
    BY <1>1
  <2> QED
    BY <1>2, <1>3, <2>1
<1> QED
  BY <1>4, <1>5

(* The configs and removals of a partial sync, given to an interface that  *)
(* matches the store, make it match what the store will be.                *)
LEMMA ConfigureMatches ==
    ASSUME OwnAddresses, Plan, Placed(map), sync.kind # "SyncUsers", DeviceMatches(map),
           Configure(sync.configs, sync.remove, sync.new)
    PROVE  present' = Listed(Final) /\ \A k \in Keys : allowed'[k] = Final[k].ips
<1> DEFINE new == sync.new
           C == sync.configs
           R == sync.remove
           given == UNION {new[k].ips : k \in C}
           Named(k) == map[k].email \in sync.users
<1>1. ASSUME NEW k \in Keys
      PROVE  /\ Final[k] = IF Named(k) \/ new[k] # NoPeer THEN new[k] ELSE map[k]
             /\ k \in R <=> map[k] # NoPeer /\ Named(k) /\ new[k] = NoPeer
             /\ k \in C <=> /\ new[k] # NoPeer
                            /\ new[k] # (IF Named(k) THEN map[k] ELSE NoPeer)
                            /\ new[k].ips # (IF Named(k) THEN map[k] ELSE NoPeer).ips
             /\ new[k] # NoPeer /\ ~Named(k) => map[k] = NoPeer
  <2>1. Seen[k] = IF Named(k) THEN map[k] ELSE NoPeer
    BY DEF Seen
  <2>2. Final[k] = IF Named(k) \/ new[k] # NoPeer THEN new[k] ELSE map[k]
    BY FinalPeers
  <2>3. k \in R <=> Seen[k] # NoPeer /\ new[k] = NoPeer
    BY DEF Plan, RemoveKeys, Listed
  <2>4. k \in C <=> (IF new[k] # Seen[k] THEN new[k] ELSE NoPeer) # NoPeer
                    /\ Seen[k].ips # new[k].ips
    BY DEF Plan, PeerConfigs, UpsertPeers, Listed
  <2>5. new[k] # NoPeer /\ ~Named(k) => map[k] = NoPeer
    BY PlacedPeer DEF Plan, Listed
  <2> QED
    BY <2>1, <2>2, <2>3, <2>4, <2>5
<1>2. C \subseteq Keys /\ R \subseteq Keys /\ Placed(new)
  BY DEF Plan, PeerConfigs, RemoveKeys, Listed
<1>3. /\ present' = (Listed(map) \cup C) \ R
      /\ \A k \in Keys : allowed'[k] =
            IF k \in R THEN {}
            ELSE IF k \in C THEN new[k].ips \cup (IF map[k] = NoPeer THEN map[k].ips ELSE {})
            ELSE map[k].ips \ given
  BY DEF Configure, DeviceMatches
<1>4. ASSUME NEW k \in Keys
      PROVE  k \in present' <=> Final[k] # NoPeer
  <2>1. CASE new[k] # NoPeer
    <3>1. map[k] = NoPeer => k \in C
      BY <1>1, <1>2, <2>1, PlacedPeer, NoPeerFields
    <3> QED
      BY <1>1, <1>3, <2>1, <3>1 DEF Listed
  <2>2. CASE new[k] = NoPeer
    BY <1>1, <1>3, <2>2 DEF Listed
  <2> QED
    BY <2>1, <2>2
<1>5. present' = Listed(Final)
  <2>1. present' \subseteq Keys
    BY <1>2, <1>3 DEF Listed
  <2> QED
    BY <1>4, <2>1 DEF Listed
<1>6. ASSUME NEW k \in Keys, k \notin C, k \notin R
      PROVE  map[k].ips \cap given = {} /\ Final[k].ips = map[k].ips
  <2>1. CASE new[k] # NoPeer
    <3>1. new[k].ips = map[k].ips
      BY <1>1, <1>6, <2>1, NoPeerFields
    <3>2. \A j \in C : new[j].ips \cap new[k].ips = {}
      BY <1>2, <1>6, PlacedApart
    <3> QED
      BY <1>1, <2>1, <3>1, <3>2
  <2>2. CASE new[k] = NoPeer /\ map[k] = NoPeer
    BY <1>1, <2>2, NoPeerFields
  <2>3. CASE new[k] = NoPeer /\ map[k] # NoPeer
    <3>1. ~Named(k) /\ Final[k] = map[k]
      BY <1>1, <1>6, <2>3
    <3>2. map[k].email \in Emails /\ map[k].ips \subseteq UserIPs[map[k].email]
      BY <2>3, PlacedPeer DEF Placed, Listed
    <3>3. ASSUME NEW j \in C
          PROVE  new[j].ips \cap map[k].ips = {}
      <4>1. j \in Listed(new)
        BY <1>1, <1>2 DEF Listed
      <4>2. new[j].email \in sync.users /\ new[j].email \in Emails
        BY <4>1 DEF Plan
      <4>3. new[j].ips \subseteq UserIPs[new[j].email]
        BY <1>2, <4>1 DEF Placed
      <4> QED
        BY <3>1, <3>2, <4>2, <4>3 DEF OwnAddresses
    <3> QED
      BY <3>1, <3>3
  <2> QED
    BY <2>1, <2>2, <2>3
<1>7. ASSUME NEW k \in Keys
      PROVE  allowed'[k] = Final[k].ips
  <2>1. CASE k \in R
    <3>1. Final[k] = NoPeer
      BY <1>1, <2>1
    <3>2. allowed'[k] = {}
      BY <1>3, <2>1
    <3> QED
      BY <3>1, <3>2, NoPeerFields
  <2>2. CASE k \in C /\ k \notin R
    <3>1. Final[k] = new[k]
      BY <1>1, <2>2
    <3>2. allowed'[k] = new[k].ips \cup (IF map[k] = NoPeer THEN map[k].ips ELSE {})
      BY <1>3, <2>2
    <3>3. (IF map[k] = NoPeer THEN map[k].ips ELSE {}) = {}
      BY NoPeerFields
    <3> QED
      BY <3>1, <3>2, <3>3
  <2>3. CASE k \notin C /\ k \notin R
    BY <1>3, <1>6, <2>3
  <2> QED
    BY <2>1, <2>2, <2>3
<1> QED
  BY <1>5, <1>7

LEMMA DeviceStep ==
    ASSUME OwnAddresses, Inv, Device, [Next]_vars
    PROVE  Device'
<1>1. CASE UNCHANGED <<present, allowed, map, running, drift>>
           /\ sync.pc # "commit" /\ sync'.pc # "commit"
  BY <1>1 DEF Device, DeviceMatches, Listed
<1>2. CASE UNCHANGED <<present, allowed, map, running, drift, sync>>
  <2>1. Final' = Final
    BY <1>2 DEF Final
  <2> QED
    BY <1>2, <2>1 DEF Device, DeviceMatches, Listed
<1>3. ASSUME NEW kind \in SyncKinds, NEW b \in Batches, BeginSync(kind, b)
      PROVE  Device'
  <2>1. sync'.pc # "commit"
    BY <1>3 DEF BeginSync, Idle
  <2> QED
    BY <1>1, <1>3, <2>1 DEF BeginSync, Idle, kernelVars
<1>4. CASE SampleRead \/ SampleApply
  <2>1. sync.pc \in {"sample", "sampled"} /\ DOMAIN sync = Fields
    BY <1>4 DEF SampleRead, SampleApply, Inv, Shape, Planning
  <2>2. sync'.pc # "commit"
    BY <1>4, <2>1 DEF SampleRead, SampleApply, Fields
  <2> QED
    BY <1>1, <1>4, <2>1, <2>2 DEF SampleRead, SampleApply, kernelVars
<1>5. CASE Apply
  <2>1. sync.pc = "apply" /\ map' = map /\ running' = running
    BY <1>5 DEF Apply
  <2>2. DOMAIN sync = Fields /\ Plan /\ Shape /\ Placed(map)
    BY <2>1 DEF Inv, Shape, Planning
  <2>3. /\ DOMAIN sync' = Fields /\ sync'.pc = "commit"
        /\ \A f \in {"kind", "users", "new", "remove", "upsert", "configs"} : sync'[f] = sync[f]
    BY <1>5, <2>2 DEF Apply, Fields
  <2>4. Final' = Final
    BY <2>1, <2>2, <2>3, PlanStays DEF Planning
  <2>5. ASSUME running, ~drift'
        PROVE  present' = Listed(Final) /\ \A k \in Keys : allowed'[k] = Final[k].ips
    <3>1. CASE sync.kind = "SyncUsers"
      <4>1. ReplacePeers(Listed(sync.new), sync.new)
        BY <1>5, <3>1 DEF Apply
      <4> QED
        BY <2>2, <3>1, <4>1, ReplaceMatches DEF Final, Plan
    <3>2. CASE sync.kind # "SyncUsers"
      <4>1. ~drift /\ Configure(sync.configs, sync.remove, sync.new)
        BY <1>5, <2>5, <3>2 DEF Apply
      <4>2. DeviceMatches(map)
        BY <2>1, <2>5, <4>1 DEF Device
      <4> QED
        BY <2>2, <3>2, <4>1, <4>2, ConfigureMatches
    <3> QED
      BY <3>1, <3>2
  <2> QED
    BY <2>1, <2>3, <2>4, <2>5 DEF Device, DeviceMatches, Listed
<1>6. CASE ApplyFail
  <2>1. sync.pc = "apply" /\ sync' = Idle /\ map' = map /\ running' = running
    BY <1>6 DEF ApplyFail
  <2>2. ~running \/ drift'
    BY <1>6 DEF ApplyFail
  <2> QED
    BY <2>1, <2>2 DEF Device
<1>7. CASE Commit
  <2>1. map' = Final /\ sync'.pc = "removeStats" /\ sync.pc = "commit"
    BY <1>7, CommitDelivers DEF Commit
  <2>2. UNCHANGED <<present, allowed, running, drift>>
    BY <1>7 DEF Commit, kernelVars
  <2> QED
    BY <2>1, <2>2 DEF Device, DeviceMatches, Listed
<1>8. ASSUME NEW k \in Keys, RemoveStats(k)
      PROVE  Device'
  <2>1. sync.pc = "removeStats" /\ DOMAIN sync = Fields
    BY <1>8 DEF RemoveStats, Inv, Shape
  <2>2. sync'.pc = "removeStats"
    BY <1>8, <2>1 DEF RemoveStats, Fields
  <2> QED
    BY <1>1, <1>8, <2>1, <2>2 DEF RemoveStats, kernelVars
<1>9. CASE SyncReturn \/ BeginRestart
  <2>1. sync.pc # "commit" /\ sync'.pc # "commit"
    BY <1>9 DEF SyncReturn, BeginRestart, Idle
  <2> QED
    BY <1>1, <1>9, <2>1 DEF SyncReturn, BeginRestart, kernelVars
<1>10. CASE Restart
  <2>1. sync.pc = "restart" /\ sync'.pc = "idle" /\ map' = map /\ running' = running
    BY <1>10 DEF Restart, Idle
  <2>2. ~running \/ drift' \/ ReplacePeers(Listed(map), map)
    BY <1>10 DEF Restart
  <2>3. CASE ReplacePeers(Listed(map), map)
    <3>1. present' = Listed(map) /\ \A k \in Keys : allowed'[k] = map[k].ips
      BY <2>3, ReplaceMatches DEF Inv
    <3> QED
      BY <2>1, <3>1 DEF Device, DeviceMatches, Listed
  <2> QED
    BY <2>1, <2>2, <2>3 DEF Device
<1>11. CASE Poll
  BY <1>2, <1>11 DEF Poll, PollRead, PollEmails, PollApply, CleanupOfflineUsers, kernelVars
<1>12. CASE (\E k \in Keys : Traffic(k) \/ GetStats({k})) \/ GetStats(Keys)
  BY <1>2, <1>12 DEF Traffic, GetStats, kernelVars
<1>13. CASE Shutdown
  BY <1>13 DEF Shutdown, Close, Device
<1>14. CASE UNCHANGED vars
  BY <1>2, <1>14 DEF vars, kernelVars
<1> QED
  BY <1>3, <1>4, <1>5, <1>6, <1>7, <1>8, <1>9, <1>10, <1>11, <1>12, <1>13, <1>14 DEF Next, Sync

(* ApplyPeers, ApplyPeersReplaceAll and restartLocked: between syncs the   *)
(* interface has the peers and addresses of the store, when the panel      *)
(* gives no address to two users and no configure call has failed since    *)
(* the last full one.                                                      *)
THEOREM TheKernelFollowsTheStore ==
    ASSUME OwnAddresses
    PROVE  Spec => []KernelMatchesStore
<1>1. Init => Device
  <2> SUFFICES ASSUME Init
               PROVE  DeviceMatches(map) /\ sync.pc # "commit"
    BY DEF Device
  <2> QED
    BY DEF Init, DeviceMatches, Idle
<1>2. Inv /\ Device /\ [Next]_vars => Device'
  BY DeviceStep
<1>3. Inv /\ Device => KernelMatchesStore
  BY DEF Device, KernelMatchesStore, Idle
<1> QED
  BY Invariance, <1>1, <1>2, <1>3, PTL DEF Spec
-----------------------------------------------------------------------------
(***************************************************************************)
(* The tracker's entries and the readings on their way to them.            *)
(***************************************************************************)
Mails == Emails \cup {NoEmail}
Entries == Entry(Mails) \cup {NoEntry}

(* A removed entry remembers in lastDelta what it still owes.              *)
GoodEntry(e) ==
    e # NoEntry =>
        \A d \in Dirs : /\ e.base[d] <= e.current[d]
                        /\ e.lastDelta[d] = IF e.deleted THEN e.current[d] - e.base[d] ELSE 0

Readings(s) == DOMAIN s \subseteq Keys /\ \A k \in DOMAIN s : s[k] \in Counters

Books ==
    /\ bytes \in [Keys -> Counters] /\ billed \in [Keys -> Counters]
    /\ present \subseteq Keys
    /\ stats \in [Keys -> Entries] /\ \A k \in Keys : GoodEntry(stats[k])
    /\ sync.pc = "sampled" => Readings(sync.snapshot)
    /\ poll.pc \in {"read", "emails"} => Readings(poll.snapshot)
    /\ poll.pc = "emails" => \A k \in DOMAIN poll.snapshot : poll.email[k] \in Mails

LEMMA EntryFields ==
    ASSUME NEW e \in Entry(Mails)
    PROVE  /\ e # NoEntry
           /\ e.current \in Counters /\ e.base \in [Dirs -> Int] /\ e.lastDelta \in [Dirs -> Int]
           /\ e.active \in BOOLEAN /\ e.deleted \in BOOLEAN
           /\ \A d \in Dirs : e.current[d] \in Nat /\ e.base[d] \in Int /\ e.lastDelta[d] \in Int
<1>1. DOMAIN e # DOMAIN NoEntry
  BY DEF Entry, NoEntry
<1> QED
  BY <1>1 DEF Entry, Counters

(* applySampleLocked loses nothing: neither of a peer that comes back nor  *)
(* of one whose counters went back, and however old the reading is.        *)
LEMMA SampleKeeps ==
    ASSUME NEW e \in Entries, GoodEntry(e), NEW m \in Mails, NEW s \in Counters
    PROVE  /\ ApplySample(e, m, s) \in Entries /\ GoodEntry(ApplySample(e, m, s))
           /\ \A d \in Dirs : Pending(ApplySample(e, m, s), d) >= Pending(e, d)
<1> DEFINE g == IF e = NoEntry THEN NewEntry(m) ELSE e
           f == ApplySample(e, m, s)
<1>1. g \in Entry(Mails) /\ GoodEntry(g)
  <2>1. NewEntry(m) \in Entry(Mails) /\ GoodEntry(NewEntry(m))
    BY DEF NewEntry, Entry, GoodEntry, Zero, Counters
  <2> QED
    BY <2>1 DEF Entries
<1>2. \A d \in Dirs : Pending(e, d) = g.current[d] - g.base[d]
  BY DEF Pending, NewEntry, Zero
<1>3. /\ f.current = s /\ f.base = NewBase(g, s) /\ f.lastDelta = Zero /\ f.deleted = FALSE
      /\ f = [email |-> m, current |-> s, base |-> NewBase(g, s), lastDelta |-> Zero,
              active |-> g.active \/ \E d \in Dirs : s[d] > g.current[d], deleted |-> FALSE]
  BY DEF ApplySample
<1>4. (g.active \/ \E d \in Dirs : s[d] > g.current[d]) \in BOOLEAN
  OBVIOUS
<1> HIDE DEF g, f
<1>5. ASSUME NEW d \in Dirs
      PROVE  /\ NewBase(g, s)[d] \in Int /\ NewBase(g, s)[d] <= s[d] /\ s[d] \in Nat
             /\ s[d] - NewBase(g, s)[d] >= g.current[d] - g.base[d]
  <2>1. /\ g # NoEntry /\ g.current[d] \in Nat /\ g.base[d] \in Int /\ g.lastDelta[d] \in Int
        /\ s[d] \in Nat /\ \A c \in Dirs : g.current[c] \in Nat /\ s[c] \in Nat
    BY <1>1, EntryFields DEF Counters
  <2>2. g.base[d] <= g.current[d]
    BY <1>1, <2>1 DEF GoodEntry
  <2>3. CASE Readded(g)
    <3>1. g.lastDelta[d] = g.current[d] - g.base[d]
      BY <1>1, <2>1, <2>3 DEF Readded, GoodEntry
    <3>2. NewBase(g, s)[d] = s[d] - g.lastDelta[d]
      BY <2>3 DEF NewBase
    <3> QED
      BY <2>1, <2>2, <3>1, <3>2
  <2>4. CASE ~Readded(g) /\ RolledBack(g, s)
    <3>1. NewBase(g, s)[d] = s[d] - (g.current[d] - g.base[d])
      BY <2>1, <2>2, <2>4 DEF NewBase, Clamp
    <3> QED
      BY <2>1, <2>2, <3>1
  <2>5. CASE ~Readded(g) /\ ~RolledBack(g, s)
    <3>1. NewBase(g, s)[d] = g.base[d] /\ s[d] >= g.current[d]
      BY <2>1, <2>5 DEF NewBase, RolledBack
    <3> QED
      BY <2>1, <2>2, <3>1
  <2> QED
    BY <2>3, <2>4, <2>5
<1>6. NewBase(g, s) \in [Dirs -> Int] /\ Zero \in [Dirs -> Int]
  BY <1>5 DEF NewBase, Zero
<1>7. f \in Entry(Mails)
  BY <1>3, <1>4, <1>6 DEF Entry
<1>8. GoodEntry(f)
  BY <1>3, <1>5 DEF GoodEntry, Zero
<1>9. \A d \in Dirs : Pending(f, d) = s[d] - NewBase(g, s)[d]
  BY <1>3, <1>7, EntryFields DEF Pending
<1> QED
  BY <1>2, <1>5, <1>7, <1>8, <1>9 DEF f, Entries

LEMMA RemoveKeeps ==
    ASSUME NEW e \in Entries, GoodEntry(e)
    PROVE  /\ AfterRemove(e) \in Entries /\ GoodEntry(AfterRemove(e))
           /\ \A d \in Dirs : Pending(AfterRemove(e), d) = Pending(e, d)
<1>1. CASE e = NoEntry
  BY <1>1 DEF AfterRemove, Entries
<1>2. CASE e # NoEntry
  <2> DEFINE f == AfterRemove(e)
             ld == [d \in Dirs |-> e.current[d] - e.base[d]]
  <2>1. e \in Entry(Mails) /\ \A d \in Dirs : e.current[d] \in Nat /\ e.base[d] \in Int
    BY <1>2, EntryFields DEF Entries
  <2>2. ld \in [Dirs -> Int]
    BY <2>1
  <2>3. f = [e EXCEPT !.lastDelta = ld, !.deleted = TRUE, !.active = FALSE]
    BY <1>2 DEF AfterRemove
  <2>4. /\ f \in Entry(Mails) /\ f.current = e.current /\ f.base = e.base
        /\ f.lastDelta = ld /\ f.deleted = TRUE
    BY <2>1, <2>2, <2>3 DEF Entry
  <2>5. GoodEntry(f)
    BY <1>2, <2>1, <2>4 DEF GoodEntry
  <2> QED
    BY <1>2, <2>4, <2>5, EntryFields DEF Pending, Entries
<1> QED
  BY <1>1, <1>2

LEMMA ReportKeeps ==
    ASSUME NEW e \in Entries, GoodEntry(e)
    PROVE  /\ AfterReport(e) \in Entries /\ GoodEntry(AfterReport(e))
           /\ \A d \in Dirs : /\ Reported(e, d) \in Nat /\ Reported(e, d) = Pending(e, d)
                              /\ Pending(AfterReport(e), d) = 0
<1>1. CASE e = NoEntry
  BY <1>1 DEF AfterReport, Entries, Pending, Reported, GoodEntry
<1>2. CASE e # NoEntry
  <2>1. e \in Entry(Mails) /\ \A d \in Dirs : e.current[d] \in Nat /\ e.base[d] \in Int
    BY <1>2, EntryFields DEF Entries
  <2>2. \A d \in Dirs : Reported(e, d) \in Nat /\ Reported(e, d) = Pending(e, d)
    BY <1>2, <2>1 DEF Pending, Reported, GoodEntry
  <2>3. CASE e.deleted
    BY <1>2, <2>2, <2>3 DEF AfterReport, Entries, GoodEntry, Pending
  <2>4. CASE ~e.deleted
    <3> DEFINE f == [e EXCEPT !.base = e.current]
    <3>1. AfterReport(e) = f
      BY <1>2, <2>4 DEF AfterReport
    <3>2. /\ f \in Entry(Mails) /\ f.base = e.current /\ f.current = e.current
          /\ f.lastDelta = e.lastDelta /\ f.deleted = e.deleted
      BY <2>1 DEF Entry, Counters
    <3>3. f # NoEntry /\ GoodEntry(f)
      BY <1>2, <2>1, <2>4, <3>2, EntryFields DEF GoodEntry
    <3> QED
      BY <2>1, <2>2, <3>1, <3>2, <3>3 DEF Pending, Entries
  <2> QED
    BY <2>3, <2>4
<1> QED
  BY <1>1, <1>2

LEMMA CleanupKeeps ==
    ASSUME NEW e \in Entries, GoodEntry(e)
    PROVE  /\ AfterCleanup(e) \in Entries /\ GoodEntry(AfterCleanup(e))
           /\ \A d \in Dirs : Pending(AfterCleanup(e), d) = Pending(e, d)
<1>1. CASE e # NoEntry /\ e.deleted /\ e.current = e.base
  <2>1. \A d \in Dirs : e.current[d] \in Nat
    BY <1>1, EntryFields DEF Entries
  <2> QED
    BY <1>1, <2>1 DEF AfterCleanup, Entries, GoodEntry, Pending
<1>2. CASE ~(e # NoEntry /\ e.deleted /\ e.current = e.base)
  BY <1>2 DEF AfterCleanup
<1> QED
  BY <1>1, <1>2

LEMMA PendingIsNatural ==
    ASSUME NEW e \in Entries, GoodEntry(e), NEW d \in Dirs
    PROVE  Pending(e, d) \in Nat
BY ReportKeeps

Keeps(e, f) ==
    f \in Entries /\ GoodEntry(f) /\ \A d \in Dirs : Pending(f, d) >= Pending(e, d)

LEMMA EntryKeeps ==
    ASSUME NEW e \in Entries, GoodEntry(e)
    PROVE  /\ Keeps(e, e) /\ Keeps(e, AfterRemove(e)) /\ Keeps(e, AfterCleanup(e))
           /\ \A m \in Mails, s \in Counters : Keeps(e, ApplySample(e, m, s))
<1>1. \A d \in Dirs : Pending(e, d) \in Nat
  BY PendingIsNatural
<1>2. Keeps(e, e)
  BY <1>1 DEF Keeps
<1>3. Keeps(e, AfterRemove(e))
  BY <1>1, RemoveKeeps DEF Keeps
<1>4. Keeps(e, AfterCleanup(e))
  BY <1>1, CleanupKeeps DEF Keeps
<1>5. \A m \in Mails, s \in Counters : Keeps(e, ApplySample(e, m, s))
  BY SampleKeeps DEF Keeps
<1> QED
  BY <1>2, <1>3, <1>4, <1>5

Kept ==
    \A k \in Keys, d \in Dirs :
        billed'[k][d] + Pending(stats'[k], d) >= billed[k][d] + Pending(stats[k], d)

LEMMA BilledTypes ==
    ASSUME Books, NEW k \in Keys, NEW d \in Dirs
    PROVE  stats[k] \in Entries /\ GoodEntry(stats[k]) /\ billed[k][d] \in Nat
           /\ Pending(stats[k], d) \in Nat
BY PendingIsNatural DEF Books, Counters

(* A step that touches no entry.                                           *)
LEMMA EntriesUntouched ==
    ASSUME Books, stats' = stats, billed' = billed
    PROVE  /\ stats' \in [Keys -> Entries] /\ (\A k \in Keys : GoodEntry(stats'[k]))
           /\ billed' \in [Keys -> Counters] /\ Kept
<1>1. Kept
  BY BilledTypes DEF Kept
<1> QED
  BY <1>1 DEF Books

(* A step that changes each entry in a way that keeps what is pending.     *)
LEMMA EntriesKept ==
    ASSUME Books, billed' = billed, NEW new, stats' = [k \in Keys |-> new[k]],
           \A k \in Keys : Keeps(stats[k], new[k])
    PROVE  /\ stats' \in [Keys -> Entries] /\ (\A k \in Keys : GoodEntry(stats'[k]))
           /\ billed' \in [Keys -> Counters] /\ Kept
<1>1. ASSUME NEW k \in Keys, NEW d \in Dirs
      PROVE  billed'[k][d] + Pending(stats'[k], d) >= billed[k][d] + Pending(stats[k], d)
  <2>1. Pending(new[k], d) \in Nat /\ Pending(new[k], d) >= Pending(stats[k], d)
    BY PendingIsNatural DEF Keeps
  <2>2. stats'[k] = new[k]
    OBVIOUS
  <2> QED
    BY <2>1, <2>2, BilledTypes
<1> QED
  BY <1>1 DEF Kept, Books, Keeps

(* The kernel calls that change counters set them to zero or leave them.   *)
LEMMA CountersStay ==
    ASSUME bytes \in [Keys -> Counters], present \subseteq Keys,
           NEW C \in SUBSET Keys, NEW R, NEW m, Configure(C, R, m) \/ ReplacePeers(C, m)
    PROVE  bytes' \in [Keys -> Counters] /\ present' \subseteq Keys
<1>1. Zero \in Counters
  BY DEF Zero, Counters
<1> QED
  BY <1>1 DEF Configure, ReplacePeers

LEMMA BooksStep ==
    ASSUME Inv, Books, [Next]_vars
    PROVE  Books' /\ Kept
<1> DEFINE Kernel == bytes' \in [Keys -> Counters] /\ present' \subseteq Keys
           Entered == /\ stats' \in [Keys -> Entries] /\ (\A k \in Keys : GoodEntry(stats'[k]))
                      /\ billed' \in [Keys -> Counters] /\ Kept
           SyncReadings == sync'.pc = "sampled" => Readings(sync'.snapshot)
           PollReadings == /\ poll'.pc \in {"read", "emails"} => Readings(poll'.snapshot)
                           /\ poll'.pc = "emails" =>
                                \A k \in DOMAIN poll'.snapshot : poll'.email[k] \in Mails
<1>0. \A k \in Keys : stats[k] \in Entries /\ GoodEntry(stats[k])
  BY DEF Books
<1>1. SUFFICES Kernel /\ Entered /\ SyncReadings /\ PollReadings
  BY DEF Books, Readings
<1>2. UNCHANGED <<stats, billed>> => Entered
  BY EntriesUntouched
<1>3. UNCHANGED sync => SyncReadings
  BY DEF Books
<1>4. UNCHANGED poll => PollReadings
  BY DEF Books
<1>5. UNCHANGED <<present, bytes>> => Kernel
  BY DEF Books
<1>6. \A k \in Keys : map[k].email \in Mails
  BY PlacedPeer DEF Inv, Mails
<1>7. sync.pc \in Planning \cup {"removeStats"} => DOMAIN sync = Fields
  BY DEF Inv, Shape
<1> HIDE DEF Kernel, Entered, SyncReadings, PollReadings
<1>8. CASE UNCHANGED vars
  BY <1>2, <1>3, <1>4, <1>5, <1>8 DEF vars, kernelVars
<1>9. ASSUME NEW kind \in SyncKinds, NEW b \in Batches, BeginSync(kind, b)
      PROVE  Kernel /\ Entered /\ SyncReadings /\ PollReadings
  <2>1. sync'.pc # "sampled"
    BY <1>9 DEF BeginSync, Idle
  <2> QED
    BY <1>2, <1>4, <1>5, <1>9, <2>1 DEF BeginSync, kernelVars, SyncReadings
<1>10. CASE SampleRead
  <2>1. SyncReadings
    <3>1. DOMAIN sync = Fields
      BY <1>7, <1>10 DEF SampleRead, Planning
    <3>2. CASE sync' = [sync EXCEPT !.pc = "sampled",
                                    !.snapshot = [k \in sync.remove \cap present |-> bytes[k]]]
      <4>1. sync'.snapshot = [k \in sync.remove \cap present |-> bytes[k]]
        BY <3>1, <3>2 DEF Fields
      <4>2. sync.remove \subseteq Keys
        BY <1>10 DEF SampleRead, Inv, Planning, Plan, RemoveKeys, Listed
      <4> QED
        BY <4>1, <4>2 DEF SyncReadings, Readings, Books
    <3>3. CASE sync' = [sync EXCEPT !.pc = "apply"]
      BY <3>1, <3>3 DEF Fields, SyncReadings
    <3> QED
      BY <1>10, <3>2, <3>3 DEF SampleRead
  <2> QED
    BY <1>2, <1>4, <1>5, <1>10, <2>1 DEF SampleRead, kernelVars
<1>11. CASE SampleApply
  <2> DEFINE new == [k \in Keys |-> IF k \in DOMAIN sync.snapshot
                                    THEN ApplySample(stats[k], map[k].email, sync.snapshot[k])
                                    ELSE stats[k]]
  <2>1. DOMAIN sync = Fields /\ Readings(sync.snapshot)
    BY <1>7, <1>11 DEF SampleApply, Planning, Books
  <2>2. SyncReadings
    BY <1>11, <2>1 DEF SampleApply, SyncReadings, Fields
  <2>3. ASSUME NEW k \in Keys
        PROVE  Keeps(stats[k], new[k])
    <3>1. CASE k \in DOMAIN sync.snapshot
      <4>1. new[k] = ApplySample(stats[k], map[k].email, sync.snapshot[k])
        BY <3>1
      <4>2. map[k].email \in Mails /\ sync.snapshot[k] \in Counters
        BY <1>6, <2>1, <3>1 DEF Readings
      <4> QED
        BY <4>1, <4>2, <1>0, EntryKeeps
    <3>2. CASE k \notin DOMAIN sync.snapshot
      <4>1. new[k] = stats[k]
        BY <3>2
      <4> QED
        BY <4>1, <1>0, EntryKeeps
    <3> QED
      BY <3>1, <3>2
  <2>4. stats' = new /\ billed' = billed
    BY <1>11 DEF SampleApply
  <2>5. Entered
    <3> HIDE DEF new
    <3>1. stats' = [k \in Keys |-> new[k]]
      BY <2>4 DEF new
    <3> QED
      BY <2>3, <2>4, <3>1, EntriesKept DEF Entered
  <2> QED
    BY <1>4, <1>5, <1>11, <2>2, <2>5 DEF SampleApply, kernelVars
<1>12. CASE Apply \/ ApplyFail \/ Restart
  <2>1. Kernel
    <3>1. CASE Apply \/ ApplyFail
      <4>1. /\ Listed(sync.new) \subseteq Keys
            /\ sync.configs \subseteq Keys
        BY <3>1 DEF Apply, ApplyFail, Inv, Planning, Plan, PeerConfigs, Listed
      <4>2. \/ UNCHANGED <<present, bytes>>
            \/ \E C \in SUBSET Keys : ReplacePeers(C, sync.new)
            \/ \E C \in SUBSET Keys : \E R : Configure(C, R, sync.new)
        BY <3>1, <4>1 DEF Apply, ApplyFail, kernelVars
      <4> QED
        BY <1>5, <4>2, CountersStay DEF Books, Kernel
    <3>2. CASE Restart
      <4>1. UNCHANGED <<present, bytes>> \/ \E C \in SUBSET Keys : ReplacePeers(C, map)
        BY <3>2 DEF Restart, kernelVars, Listed
      <4> QED
        BY <1>5, <4>1, CountersStay DEF Books, Kernel
    <3> QED
      BY <1>12, <3>1, <3>2
  <2>2. sync'.pc # "sampled"
    BY <1>7, <1>12 DEF Apply, ApplyFail, Restart, Idle, Planning, Fields
  <2> QED
    BY <1>2, <1>4, <1>12, <2>1, <2>2 DEF Apply, ApplyFail, Restart, SyncReadings
<1>13. CASE Commit \/ SyncReturn \/ BeginRestart
  <2>1. sync'.pc # "sampled"
    <3>1. CASE Commit
      BY <1>7, <3>1 DEF Commit, Planning, Fields
    <3>2. CASE SyncReturn \/ BeginRestart
      BY <3>2 DEF SyncReturn, BeginRestart, Idle
    <3> QED
      BY <1>13, <3>1, <3>2
  <2> QED
    BY <1>2, <1>4, <1>5, <1>13, <2>1 DEF Commit, SyncReturn, BeginRestart, SyncReadings, kernelVars
<1>14. ASSUME NEW j \in Keys, RemoveStats(j)
       PROVE  Kernel /\ Entered /\ SyncReadings /\ PollReadings
  <2> DEFINE new == [k \in Keys |-> IF k = j THEN AfterRemove(stats[k]) ELSE stats[k]]
  <2>1. sync'.pc # "sampled"
    BY <1>7, <1>14 DEF RemoveStats, Fields
  <2>2. stats' = new /\ billed' = billed
    BY <1>14 DEF RemoveStats, Books
  <2>3. ASSUME NEW k \in Keys
        PROVE  Keeps(stats[k], new[k])
    <3>1. new[k] = AfterRemove(stats[k]) \/ new[k] = stats[k]
      OBVIOUS
    <3> QED
      BY <3>1, <1>0, EntryKeeps
  <2>4. Entered
    <3> HIDE DEF new
    <3>1. stats' = [k \in Keys |-> new[k]]
      BY <2>2 DEF new
    <3> QED
      BY <2>2, <2>3, <3>1, EntriesKept DEF Entered
  <2> QED
    BY <1>4, <1>5, <1>14, <2>1, <2>4 DEF RemoveStats, SyncReadings, kernelVars
<1>15. CASE PollRead
  <2>1. /\ poll'.pc = "read" /\ poll'.snapshot = [k \in Connected |-> bytes[k]]
        /\ Connected \subseteq Keys
    BY <1>15 DEF PollRead, Connected, Books
  <2>2. PollReadings
    BY <2>1 DEF PollReadings, Readings, Books
  <2> QED
    BY <1>2, <1>3, <1>5, <1>15, <2>2 DEF PollRead, kernelVars
<1>16. CASE PollEmails
  <2>1. /\ poll'.snapshot = poll.snapshot /\ Readings(poll.snapshot)
        /\ poll'.email = [k \in DOMAIN poll.snapshot |-> map[k].email]
    BY <1>16 DEF PollEmails, Books
  <2>2. PollReadings
    BY <1>6, <2>1 DEF PollReadings, Readings
  <2> QED
    BY <1>2, <1>3, <1>5, <1>16, <2>2 DEF PollEmails, kernelVars
<1>17. CASE PollApply
  <2> DEFINE new == [k \in Keys |-> IF k \in DOMAIN poll.snapshot /\ poll.email[k] # NoEmail
                                    THEN ApplySample(stats[k], poll.email[k], poll.snapshot[k])
                                    ELSE stats[k]]
  <2>1. Readings(poll.snapshot) /\ \A k \in DOMAIN poll.snapshot : poll.email[k] \in Mails
    BY <1>17 DEF PollApply, Books
  <2>2. ASSUME NEW k \in Keys
        PROVE  Keeps(stats[k], new[k])
    <3>1. CASE k \in DOMAIN poll.snapshot /\ poll.email[k] # NoEmail
      <4>1. new[k] = ApplySample(stats[k], poll.email[k], poll.snapshot[k])
        BY <3>1
      <4>2. poll.email[k] \in Mails /\ poll.snapshot[k] \in Counters
        BY <2>1, <3>1 DEF Readings
      <4> QED
        BY <4>1, <4>2, <1>0, EntryKeeps
    <3>2. CASE ~(k \in DOMAIN poll.snapshot /\ poll.email[k] # NoEmail)
      <4>1. new[k] = stats[k]
        BY <3>2
      <4> QED
        BY <4>1, <1>0, EntryKeeps
    <3> QED
      BY <3>1, <3>2
  <2>3. UNCHANGED stats => Entered
    BY <1>2, <1>17 DEF PollApply
  <2>4. ASSUME stats' = new
        PROVE  Entered
    <3> HIDE DEF new
    <3>1. stats' = [k \in Keys |-> new[k]] /\ billed' = billed
      BY <1>17, <2>4 DEF new, PollApply
    <3> QED
      BY <2>2, <3>1, EntriesKept DEF Entered
  <2>5. PollReadings
    BY <1>17 DEF PollApply, Idle, PollReadings
  <2> QED
    BY <1>3, <1>5, <1>17, <2>3, <2>4, <2>5 DEF PollApply, kernelVars
<1>18. CASE CleanupOfflineUsers
  <2> DEFINE new == [k \in Keys |-> AfterCleanup(stats[k])]
  <2>1. ASSUME NEW k \in Keys
        PROVE  Keeps(stats[k], new[k])
    <3>1. new[k] = AfterCleanup(stats[k])
      OBVIOUS
    <3> QED
      BY <3>1, <1>0, EntryKeeps
  <2>2. Entered
    <3>1. stats' = new /\ billed' = billed
      BY <1>18 DEF CleanupOfflineUsers
    <3> HIDE DEF new
    <3>2. stats' = [k \in Keys |-> new[k]]
      BY <3>1 DEF new
    <3> QED
      BY <2>1, <3>1, <3>2, EntriesKept DEF Entered
  <2> QED
    BY <1>3, <1>4, <1>5, <1>18, <2>2 DEF CleanupOfflineUsers, kernelVars
<1>19. ASSUME NEW K \in SUBSET Keys, GetStats(K)
       PROVE  Kernel /\ Entered /\ SyncReadings /\ PollReadings
  <2>1. /\ stats' = [k \in Keys |-> IF k \in K THEN AfterReport(stats[k]) ELSE stats[k]]
        /\ billed' = [k \in Keys |-> [d \in Dirs |->
              IF k \in K THEN billed[k][d] + Reported(stats[k], d) ELSE billed[k][d]]]
    BY <1>19 DEF GetStats
  <2>2. ASSUME NEW k \in Keys
        PROVE  /\ stats'[k] \in Entries /\ GoodEntry(stats'[k])
               /\ \A d \in Dirs :
                     /\ billed'[k][d] \in Nat
                     /\ billed'[k][d] + Pending(stats'[k], d) >= billed[k][d] + Pending(stats[k], d)
    <3>1. CASE k \in K
      <4>1. stats'[k] = AfterReport(stats[k])
            /\ \A d \in Dirs : billed'[k][d] = billed[k][d] + Reported(stats[k], d)
        BY <2>1, <3>1
      <4>2. stats'[k] \in Entries /\ GoodEntry(stats'[k])
        BY <4>1, <1>0, ReportKeeps
      <4>3. ASSUME NEW d \in Dirs
            PROVE  /\ billed'[k][d] \in Nat
                   /\ billed'[k][d] + Pending(stats'[k], d) >= billed[k][d] + Pending(stats[k], d)
        <5>1. /\ Reported(stats[k], d) \in Nat /\ Reported(stats[k], d) = Pending(stats[k], d)
              /\ Pending(stats'[k], d) = 0
          BY <4>1, <1>0, ReportKeeps
        <5> QED
          BY <4>1, <5>1, BilledTypes
      <4> QED
        BY <4>2, <4>3
    <3>2. CASE k \notin K
      <4>1. stats'[k] = stats[k] /\ \A d \in Dirs : billed'[k][d] = billed[k][d]
        BY <2>1, <3>2
      <4>2. ASSUME NEW d \in Dirs
            PROVE  /\ billed'[k][d] \in Nat
                   /\ billed'[k][d] + Pending(stats'[k], d) >= billed[k][d] + Pending(stats[k], d)
        BY <4>1, BilledTypes
      <4> QED
        BY <4>1, <4>2, <1>0
    <3> QED
      BY <3>1, <3>2
  <2>3. Entered
    <3>1. stats' \in [Keys -> Entries] /\ billed' \in [Keys -> Counters]
      BY <2>1, <2>2 DEF Counters
    <3> QED
      BY <2>2, <3>1 DEF Entered, Kept
  <2> QED
    BY <1>3, <1>4, <1>5, <1>19, <2>3 DEF GetStats, kernelVars
<1>20. ASSUME NEW k \in Keys, Traffic(k)
       PROVE  Kernel /\ Entered /\ SyncReadings /\ PollReadings
  <2>1. bytes[k] \in [Dirs -> Nat] /\ [bytes[k] EXCEPT !["rx"] = @ + 1] \in [Dirs -> Nat]
    BY DEF Books, Counters, Dirs
  <2>2. Kernel
    BY <1>20, <2>1 DEF Traffic, Books, Counters, Kernel
  <2> QED
    BY <1>2, <1>3, <1>4, <1>20, <2>2 DEF Traffic
<1>21. CASE Shutdown
  <2>1. Zero \in Counters
    BY DEF Zero, Counters
  <2> QED
    BY <1>2, <1>3, <1>4, <1>21, <2>1 DEF Shutdown, Close, Kernel, Books
<1> QED
  BY <1>8, <1>9, <1>10, <1>11, <1>12, <1>13, <1>14, <1>15, <1>16, <1>17, <1>18, <1>19, <1>20, <1>21
     DEF Next, Sync, Poll

(* GetStats, the polls and the syncs: a byte that was counted is reported  *)
(* or pending ever after, though a poll applies a reading that is older    *)
(* than the sync's last one, or than the removal of the peer.              *)
THEOREM CountedBytesStay == Spec => CountedBytesAreKept
<1>1. Init => Books
  <2> SUFFICES ASSUME Init
               PROVE  Books
    OBVIOUS
  <2>1. Zero \in Counters
    BY DEF Zero, Counters
  <2>2. bytes \in [Keys -> Counters] /\ billed \in [Keys -> Counters] /\ present \subseteq Keys
    BY <2>1 DEF Init, Listed
  <2>3. stats \in [Keys -> Entries] /\ \A k \in Keys : GoodEntry(stats[k])
    BY DEF Init, Entries, GoodEntry
  <2>4. sync.pc = "idle" /\ poll.pc = "idle"
    BY DEF Init, Idle
  <2> QED
    BY <2>2, <2>3, <2>4 DEF Books
<1>2. Inv /\ Books /\ [Next]_vars =>
        Books' /\ [\A k \in Keys, d \in Dirs :
            billed'[k][d] + Pending(stats'[k], d) >= billed[k][d] + Pending(stats[k], d)]_vars
  BY BooksStep DEF Kept
<1> QED
  BY <1>1, <1>2, Invariance, PTL DEF Spec, CountedBytesAreKept
-----------------------------------------------------------------------------
(***************************************************************************)
(* The peer store: its two maps agree after every iteration of every loop, *)
(* and its operations take effect as single steps of PeerMap.              *)
(***************************************************************************)
(* The inductive invariant. The maps under construction are one-to-one as  *)
(* well, and so was the map when the lock was taken.                       *)
StoreInv ==
    /\ TypeOK
    /\ OneToOne(store)
    /\ OneToOne(fresh)
    /\ before \in PeerList
    /\ LoopInv

(* The two maps agree, so no user has two keys.                            *)
LEMMA OneToOneList ==
    ASSUME NEW s \in Stores, OneToOne(s)
    PROVE  s.peers \in PeerList
BY DEF Stores, OneToOne, PeerList

LEMMA EmptyIsOneToOne == EmptyStore \in Stores /\ OneToOne(EmptyStore) /\ NoPeers \in PeerList
BY PeersAssumption DEF EmptyStore, Stores, OneToOne, PeerList, PeerMaps, NoPeers, NoPeer

LEMMA ListedPeer ==
    ASSUME NEW l \in PeerList, NEW k \in Listed(l)
    PROVE  k \in Keys /\ l[k] \in PeerInfo /\ l[k].email \in Emails /\ l[k] # NoPeer
BY DEF PeerList, Listed, PeerMaps, PeerInfo

(* The body of the loops of Init and ReplaceAll: neither the key nor the   *)
(* user may be there yet.                                                  *)
LEMMA PutKeepsOneToOne ==
    ASSUME NEW s \in Stores, OneToOne(s), NEW k \in Keys, NEW p \in PeerInfo,
           s.peers[k] = NoPeer, \A j \in Keys : s.peers[j].email # p.email
    PROVE  /\ PutPeer(s, k, p) \in Stores
           /\ OneToOne(PutPeer(s, k, p))
           /\ PutPeer(s, k, p).peers = [s.peers EXCEPT ![k] = p]
<1>1. p.email \in Emails /\ NoPeer.email \notin Emails
  BY PeersAssumption DEF PeerInfo, NoPeer
<1>2. PutPeer(s, k, p) \in Stores
  BY <1>1 DEF PutPeer, Stores, PeerMaps
<1>3. OneToOne(PutPeer(s, k, p))
  BY <1>1, PeersAssumption DEF PutPeer, Stores, PeerMaps, OneToOne
<1> QED BY <1>2, <1>3 DEF PutPeer

LEMMA RemoveKeepsOneToOne ==
    ASSUME NEW s \in Stores, OneToOne(s), NEW k \in Keys
    PROVE  /\ RemoveKey(s, k) \in Stores
           /\ OneToOne(RemoveKey(s, k))
           /\ RemoveKey(s, k).peers = [s.peers EXCEPT ![k] = NoPeer]
<1>1. NoPeer.email \notin Emails
  BY PeersAssumption DEF NoPeer
<1>2. CASE s.peers[k] = NoPeer
  BY <1>2 DEF RemoveKey, Stores, PeerMaps
<1>3. CASE s.peers[k] # NoPeer
  <2>1. s.peers[k].email \in Emails
    BY <1>3 DEF Stores, PeerMaps, PeerInfo
  <2>2. RemoveKey(s, k) \in Stores
    BY <1>3, <2>1 DEF RemoveKey, Stores, PeerMaps
  <2>3. OneToOne(RemoveKey(s, k))
    BY <1>1, <1>3, <2>1, PeersAssumption DEF RemoveKey, Stores, PeerMaps, OneToOne
  <2> QED BY <1>3, <2>2, <2>3 DEF RemoveKey
<1> QED BY <1>2, <1>3

(* The body of the upsert loop needs no such condition: that is what its   *)
(* two deletions are for.                                                  *)
LEMMA UpsertKeepsOneToOne ==
    ASSUME NEW s \in Stores, OneToOne(s), NEW k \in Keys, NEW p \in PeerInfo
    PROVE  /\ UpsertPeer(s, k, p) \in Stores
           /\ OneToOne(UpsertPeer(s, k, p))
           /\ UpsertPeer(s, k, p).peers =
                [j \in Keys |-> IF j = k THEN p
                                ELSE IF s.peers[j].email = p.email THEN NoPeer
                                ELSE s.peers[j]]
<1> DEFINE oldKey == s.emailToKey[p.email]
           kept == IF oldKey \notin {NoKey, k} THEN [s.peers EXCEPT ![oldKey] = NoPeer]
                   ELSE s.peers
           index == IF kept[k].email \notin {NoEmail, p.email}
                    THEN [s.emailToKey EXCEPT ![kept[k].email] = NoKey]
                    ELSE s.emailToKey
           peers == [kept EXCEPT ![k] = p]
           emailToKey == [index EXCEPT ![p.email] = k]
<1>1. p.email \in Emails /\ NoPeer.email = NoEmail /\ NoEmail \notin Emails
  BY PeersAssumption DEF PeerInfo, NoPeer
<1>2. s.peers \in PeerMaps /\ s.emailToKey \in [Emails -> Keys \cup {NoKey}]
  BY DEF Stores
<1>3. oldKey \in Keys \cup {NoKey} /\ \A j \in Keys : s.peers[j].email = p.email <=> oldKey = j
  BY <1>1, <1>2 DEF OneToOne
<1>4. kept \in PeerMaps
  BY <1>1, <1>2, <1>3 DEF PeerMaps
<1>5. \A j \in Keys : kept[j].email \in Emails \cup {NoEmail}
  BY <1>4 DEF PeerMaps, PeerInfo, NoPeer
<1>6. index \in [Emails -> Keys \cup {NoKey}]
  BY <1>2, <1>5
<1>7. peers \in PeerMaps /\ emailToKey \in [Emails -> Keys \cup {NoKey}]
  BY <1>1, <1>4, <1>6 DEF PeerMaps
<1>8. kept = [j \in Keys |-> IF j # k /\ s.peers[j].email = p.email THEN NoPeer ELSE s.peers[j]]
  BY <1>2, <1>3, PeersAssumption DEF PeerMaps
<1>9. \A e \in Emails : index[e] = IF kept[k].email = e /\ e # p.email THEN NoKey
                                   ELSE s.emailToKey[e]
  BY <1>1, <1>2, <1>5
<1>10. UpsertPeer(s, k, p) = [peers |-> peers, emailToKey |-> emailToKey]
  BY DEF UpsertPeer, PutPeer
<1>11. peers = [j \in Keys |-> IF j = k THEN p
                               ELSE IF s.peers[j].email = p.email THEN NoPeer
                               ELSE s.peers[j]]
  BY <1>8
<1>12. ASSUME NEW e \in Emails, NEW j \in Keys
       PROVE  emailToKey[e] = j <=> peers[j].email = e
  <2>0. s.emailToKey[e] = j <=> s.peers[j].email = e
    BY DEF OneToOne
  <2>1. s.emailToKey[e] = k <=> s.peers[k].email = e
    BY DEF OneToOne
  <2>2. CASE e = p.email
    BY <1>1, <1>6, <1>11, <2>2
  <2>3. CASE e # p.email
    <3>1. emailToKey[e] = IF kept[k].email = e THEN NoKey ELSE s.emailToKey[e]
      BY <1>6, <1>9, <2>3
    <3>2. kept[k] = s.peers[k]
      BY <1>8
    <3>3. CASE j = k
      BY <3>1, <3>2, <3>3, <2>1, <1>11, <2>3, PeersAssumption
    <3>4. CASE j # k
      <4>1. peers[j].email = e <=> s.peers[j].email = e
        BY <1>1, <1>11, <2>3, <3>4
      <4>2. kept[k].email = e => s.emailToKey[e] = k
        BY <3>2, <2>1
      <4> QED BY <3>1, <3>4, <4>1, <4>2, <2>0, PeersAssumption
    <3> QED BY <3>3, <3>4
  <2> QED BY <2>2, <2>3
<1> HIDE DEF oldKey, kept, index, peers, emailToKey
<1>13. UpsertPeer(s, k, p) \in Stores
  BY <1>7, <1>10 DEF Stores
<1>14. OneToOne(UpsertPeer(s, k, p))
  BY <1>10, <1>12 DEF OneToOne
<1> QED BY <1>10, <1>11, <1>13, <1>14
-----------------------------------------------------------------------------
LEMMA InvInit == StoreInit => StoreInv
<1> SUFFICES ASSUME StoreInit PROVE StoreInv
  OBVIOUS
<1>1. TypeOK /\ OneToOne(store) /\ OneToOne(fresh) /\ before \in PeerList
  BY EmptyIsOneToOne DEF StoreInit, TypeOK, Listed, PeerList, EmptyStore
<1>2. LoopInv
  BY DEF StoreInit, LoopInv, EmptyStore
<1> QED BY <1>1, <1>2 DEF StoreInv

(* Taking the lock: nothing has been put or removed yet.                   *)
LEMMA LockStep ==
    ASSUME StoreInv, NEW l \in PeerList, NEW K \in SUBSET Keys,
           NEW name \in {"init", "apply", "replace"}, Lock(name, l, K),
           name = "init" => op = "new"
    PROVE  StoreInv'
<1>1. TypeOK' /\ OneToOne(store)' /\ OneToOne(fresh)'
  BY EmptyIsOneToOne DEF StoreInv, TypeOK, Lock, Listed, PeerList, OneToOne, EmptyStore, Stores
<1>2. (before \in PeerList)'
  BY OneToOneList DEF StoreInv, TypeOK, Lock
<1>3. PutSoFar' = {}
  BY DEF Lock, PutSoFar
<1>4. Put' = NoPeers
  BY <1>3 DEF Put, NoPeers
<1>5. AppliedSoFar' = store.peers
  BY <1>3 DEF StoreInv, TypeOK, Stores, PeerMaps, Lock, AppliedSoFar
<1>6. LoopInv'
  BY <1>4, <1>5 DEF StoreInv, LoopInv, Lock, EmptyStore
<1> QED BY <1>1, <1>2, <1>6 DEF StoreInv

(* One more key put into a map that holds what has been put so far.        *)
LEMMA PutOne ==
    ASSUME StoreInv, NEW k \in todo, todo' = todo \ {k}, UNCHANGED list
    PROVE  /\ k \in Keys /\ list[k] \in PeerInfo
           /\ PutSoFar' = PutSoFar \cup {k} /\ k \notin PutSoFar
           /\ Put[k] = NoPeer
           /\ \A j \in Keys : Put[j].email # list[k].email
           /\ Put' = [Put EXCEPT ![k] = list[k]]
<1>1. list \in PeerList /\ k \in Listed(list) /\ todo \subseteq Listed(list)
  BY DEF StoreInv, TypeOK
<1>2. k \in Keys /\ list[k] \in PeerInfo /\ list[k].email \in Emails
  BY <1>1, ListedPeer
<1>3. PutSoFar' = PutSoFar \cup {k} /\ k \notin PutSoFar
  BY <1>1 DEF PutSoFar
<1>4. Put[k] = NoPeer /\ Put' = [Put EXCEPT ![k] = list[k]]
  BY <1>2, <1>3 DEF Put
<1>5. ASSUME NEW j \in Keys PROVE Put[j].email # list[k].email
  <2>1. CASE j \in PutSoFar
    BY <1>1, <1>2, <1>3, <2>1 DEF PeerList, Put
  <2>2. CASE j \notin PutSoFar
    BY <1>2, <2>2, PeersAssumption DEF Put, NoPeer
  <2> QED BY <2>1, <2>2
<1> QED BY <1>2, <1>3, <1>4, <1>5

LEMMA InitOneStep == ASSUME StoreInv, NEW k \in Keys, InitOne(k) PROVE StoreInv'
<1>1. store \in Stores /\ store.peers = Put /\ OneToOne(store) /\ k \in todo
  BY DEF StoreInv, TypeOK, LoopInv, InitOne
<1>2. /\ list[k] \in PeerInfo /\ Put[k] = NoPeer
      /\ \A j \in Keys : Put[j].email # list[k].email
      /\ Put' = [Put EXCEPT ![k] = list[k]]
  BY PutOne DEF InitOne
<1>3. store' \in Stores /\ OneToOne(store)' /\ store'.peers = Put'
  <2>1. /\ PutPeer(store, k, list[k]) \in Stores /\ OneToOne(PutPeer(store, k, list[k]))
        /\ PutPeer(store, k, list[k]).peers = [store.peers EXCEPT ![k] = list[k]]
    <3>1. store.peers[k] = NoPeer /\ \A j \in Keys : store.peers[j].email # list[k].email
      BY <1>1, <1>2
    <3> QED BY <1>1, <1>2, <3>1, PutKeepsOneToOne, Zenon
  <2>2. store' = PutPeer(store, k, list[k])
    BY DEF InitOne
  <2>3. OneToOne(store)'
    BY <2>1, <2>2 DEF OneToOne
  <2> QED BY <1>1, <1>2, <2>1, <2>2, <2>3
<1>4. TypeOK' /\ OneToOne(fresh)' /\ (before \in PeerList)'
  BY <1>3 DEF StoreInv, TypeOK, InitOne, OneToOne
<1>5. LoopInv'
  BY <1>3 DEF StoreInv, LoopInv, InitOne
<1> QED BY <1>3, <1>4, <1>5 DEF StoreInv

LEMMA ReplaceOneStep == ASSUME StoreInv, NEW k \in Keys, ReplaceOne(k) PROVE StoreInv'
<1>1. fresh \in Stores /\ fresh.peers = Put /\ OneToOne(fresh) /\ k \in todo
  BY DEF StoreInv, TypeOK, LoopInv, ReplaceOne
<1>2. /\ list[k] \in PeerInfo /\ Put[k] = NoPeer
      /\ \A j \in Keys : Put[j].email # list[k].email
      /\ Put' = [Put EXCEPT ![k] = list[k]]
  BY PutOne DEF ReplaceOne
<1>3. fresh' \in Stores /\ OneToOne(fresh)' /\ fresh'.peers = Put'
  <2>1. /\ PutPeer(fresh, k, list[k]) \in Stores /\ OneToOne(PutPeer(fresh, k, list[k]))
        /\ PutPeer(fresh, k, list[k]).peers = [fresh.peers EXCEPT ![k] = list[k]]
    <3>1. fresh.peers[k] = NoPeer /\ \A j \in Keys : fresh.peers[j].email # list[k].email
      BY <1>1, <1>2
    <3> QED BY <1>1, <1>2, <3>1, PutKeepsOneToOne, Zenon
  <2>2. fresh' = PutPeer(fresh, k, list[k])
    BY DEF ReplaceOne
  <2>3. OneToOne(fresh)'
    BY <2>1, <2>2 DEF OneToOne
  <2> QED BY <1>1, <1>2, <2>1, <2>2, <2>3
<1>4. TypeOK' /\ OneToOne(store)' /\ (before \in PeerList)'
  BY <1>3 DEF StoreInv, TypeOK, ReplaceOne, OneToOne
<1>5. LoopInv'
  BY <1>3 DEF StoreInv, LoopInv, ReplaceOne
<1> QED BY <1>3, <1>4, <1>5 DEF StoreInv

LEMMA RemoveOneStep == ASSUME StoreInv, NEW k \in Keys, RemoveOne(k) PROVE StoreInv'
<1>1. /\ store \in Stores /\ store.peers = AppliedSoFar /\ OneToOne(store)
      /\ toRemove \subseteq removes /\ removes \subseteq Keys /\ k \in toRemove
      /\ PutSoFar = {} /\ PutSoFar' = {}
  BY DEF StoreInv, TypeOK, LoopInv, RemoveOne, PutSoFar
<1>2. /\ store' \in Stores /\ OneToOne(store)'
      /\ store'.peers = [store.peers EXCEPT ![k] = NoPeer]
  <2>1. /\ RemoveKey(store, k) \in Stores /\ OneToOne(RemoveKey(store, k))
        /\ RemoveKey(store, k).peers = [store.peers EXCEPT ![k] = NoPeer]
    BY <1>1, RemoveKeepsOneToOne
  <2>2. store' = RemoveKey(store, k)
    BY DEF RemoveOne
  <2>3. OneToOne(store)'
    BY <2>1, <2>2 DEF OneToOne
  <2> QED BY <2>1, <2>2, <2>3
<1>3. AppliedSoFar' = [AppliedSoFar EXCEPT ![k] = NoPeer]
  BY <1>1 DEF RemoveOne, AppliedSoFar
<1>4. TypeOK' /\ OneToOne(fresh)' /\ (before \in PeerList)'
  BY <1>1, <1>2 DEF StoreInv, TypeOK, RemoveOne, OneToOne
<1>5. LoopInv'
  BY <1>1, <1>2, <1>3 DEF StoreInv, LoopInv, RemoveOne
<1> QED BY <1>2, <1>4, <1>5 DEF StoreInv

LEMMA UpsertOneStep == ASSUME StoreInv, NEW k \in Keys, UpsertOne(k) PROVE StoreInv'
<1>1. /\ store \in Stores /\ store.peers = AppliedSoFar /\ OneToOne(store)
      /\ toRemove = {} /\ k \in todo /\ list \in PeerList
      /\ before \in PeerMaps /\ todo \subseteq Listed(list)
  BY DEF StoreInv, TypeOK, LoopInv, UpsertOne
<1>2. list[k] \in PeerInfo /\ PutSoFar' = PutSoFar \cup {k} /\ k \notin PutSoFar
  BY PutOne DEF UpsertOne
<1>3. list[k].email \in Emails /\ NoPeer.email \notin Emails
  BY <1>2, PeersAssumption DEF PeerInfo, NoPeer
<1>4. /\ store' \in Stores /\ OneToOne(store)'
      /\ store'.peers = [j \in Keys |-> IF j = k THEN list[k]
                                        ELSE IF AppliedSoFar[j].email = list[k].email THEN NoPeer
                                        ELSE AppliedSoFar[j]]
  BY <1>1, <1>2, UpsertKeepsOneToOne DEF UpsertOne, OneToOne
<1>5. ASSUME NEW j \in Keys
      PROVE  AppliedSoFar'[j] = IF j = k THEN list[k]
                                ELSE IF AppliedSoFar[j].email = list[k].email THEN NoPeer
                                ELSE AppliedSoFar[j]
  <2> DEFINE Emailed == {list[i].email : i \in PutSoFar}
  <2>1. {list'[i].email : i \in PutSoFar'} = Emailed \cup {list[k].email}
    BY <1>2 DEF UpsertOne
  <2>2. AppliedSoFar'[j] = IF j \in PutSoFar \cup {k} THEN list[j]
            ELSE IF j \in removes \/ before[j].email \in Emailed \cup {list[k].email} THEN NoPeer
            ELSE before[j]
    BY <1>1, <1>2, <2>1 DEF UpsertOne, AppliedSoFar
  <2>3. AppliedSoFar[j] = IF j \in PutSoFar THEN list[j]
            ELSE IF j \in removes \/ before[j].email \in Emailed THEN NoPeer
            ELSE before[j]
    BY <1>1 DEF AppliedSoFar
  <2>4. j \in PutSoFar => list[j].email # list[k].email
    BY <1>1, <1>2, <1>3 DEF PeerList, PutSoFar
  <2> HIDE DEF Emailed
  <2> QED BY <1>2, <1>3, <2>2, <2>3, <2>4
<1>6. AppliedSoFar' = store'.peers
  BY <1>4, <1>5 DEF AppliedSoFar
<1>7. TypeOK' /\ OneToOne(fresh)' /\ (before \in PeerList)'
  BY <1>4 DEF StoreInv, TypeOK, UpsertOne, OneToOne
<1>8. LoopInv'
  BY <1>1, <1>6 DEF StoreInv, LoopInv, UpsertOne
<1> QED BY <1>4, <1>7, <1>8 DEF StoreInv

(* The lock is released with the store one-to-one.                         *)
LEMMA UnlockStep ==
    ASSUME StoreInv, Unlock, store' \in Stores, OneToOne(store)'
    PROVE  StoreInv'
<1>1. TypeOK' /\ OneToOne(fresh)' /\ (before \in PeerList)'
  BY EmptyIsOneToOne DEF StoreInv, TypeOK, Unlock, Listed, PeerList, OneToOne
<1>2. LoopInv'
  BY DEF LoopInv, Unlock
<1> QED BY <1>1, <1>2 DEF StoreInv

LEMMA StoreInvStep == StoreInv /\ [StoreNext]_storeVars => StoreInv'
<1> SUFFICES ASSUME StoreInv, [StoreNext]_storeVars PROVE StoreInv'
  OBVIOUS
<1>1. ASSUME NEW l \in PeerList, InitStore(l) \/ ReplaceAll(l) PROVE StoreInv'
  BY <1>1, LockStep DEF InitStore, ReplaceAll
<1>2. ASSUME NEW l \in PeerList, NEW K \in SUBSET Keys, ApplyChanges(K, l) PROVE StoreInv'
  BY <1>2, LockStep DEF ApplyChanges
<1>3. ASSUME NEW k \in Keys, InitOne(k) \/ RemoveOne(k) \/ UpsertOne(k) \/ ReplaceOne(k)
      PROVE  StoreInv'
  BY <1>3, InitOneStep, RemoveOneStep, UpsertOneStep, ReplaceOneStep
<1>4. CASE InitDone \/ ApplyDone
  BY <1>4, UnlockStep DEF InitDone, ApplyDone, StoreInv, TypeOK, OneToOne
<1>5. CASE ReplaceDone
  BY <1>5, UnlockStep DEF ReplaceDone, StoreInv, TypeOK, OneToOne
<1>6. CASE UNCHANGED storeVars
  BY <1>6 DEF storeVars, StoreInv, TypeOK, OneToOne, LoopInv, Put, PutSoFar, AppliedSoFar
<1> QED BY <1>1, <1>2, <1>3, <1>4, <1>5, <1>6 DEF StoreNext

(* The loop invariant holds at every step of every operation.              *)
THEOREM StoreInvariance == StoreSpec => []StoreInv
BY InvInit, StoreInvStep, PTL DEF StoreSpec

(* Emails and keys stay in a 1:1 relation at every step of every loop of   *)
(* Init, ApplyChanges and ReplaceAll.                                      *)
THEOREM OneToOneAlways == StoreSpec => []StoreIsOneToOne
<1>1. StoreInv => StoreIsOneToOne
  BY DEF StoreInv, StoreIsOneToOne
<1> QED BY <1>1, StoreInvariance, PTL
-----------------------------------------------------------------------------
(* The refinement: the initial states correspond, and a step of PeerStore  *)
(* is a Call, a Return or a stuttering step of PeerMap.                    *)
LEMMA MapInit == StoreInit => PM!Init
BY DEF StoreInit, PM!Init, PM!NoCall, Visible, InProgress, Busy, EmptyStore, PM!NoPeers, NoPeers,
       PM!NoPeer, NoPeer

LEMMA MapCall ==
    ASSUME StoreInv, NEW l \in PeerList, NEW K \in SUBSET Keys,
           NEW name \in {"init", "apply", "replace"}, Lock(name, l, K), op \in {"new", "idle"}
    PROVE  PM!Call
<1>1. InProgress = PM!NoCall
  BY DEF StoreInv, LoopInv, InProgress, Busy, PM!NoCall, PM!NoPeers, NoPeers, PM!NoPeer, NoPeer
<1>2. Visible' = Visible
  BY DEF Lock, Visible, Busy
<1>3. InProgress' = [op |-> name, removes |-> K, list |-> l]
  BY DEF Lock, InProgress, Busy
<1>4. l \in PM!PeerList
  BY DEF PeerList, PM!PeerList, PeerMaps, PM!PeerMaps, PeerInfo, PM!PeerInfo, NoPeer, PM!NoPeer
<1> QED BY <1>1, <1>2, <1>3, <1>4 DEF PM!Call

(* When the loops are through, the map is what the call asked for.         *)
LEMMA LoopsDone ==
    ASSUME StoreInv, todo = {}
    PROVE  /\ Put = list
           /\ toRemove = {} => AppliedSoFar = Applied(before, removes, list)
<1>1. list \in PeerMaps /\ PutSoFar = Listed(list)
  BY DEF StoreInv, TypeOK, PeerList, PutSoFar
<1>2. Put = list
  BY <1>1 DEF Put, Listed, PeerMaps
<1>3. ASSUME toRemove = {} PROVE AppliedSoFar = Applied(before, removes, list)
  BY <1>1, <1>3 DEF AppliedSoFar, Applied, Listed, ListedEmails
<1> QED BY <1>2, <1>3

LEMMA MapReturn ==
    ASSUME StoreInv, InitDone \/ ApplyDone \/ ReplaceDone
    PROVE  PM!Return
<1>1. Busy /\ ~Busy' /\ todo = {} /\ Unlock
  BY DEF InitDone, ApplyDone, ReplaceDone, Busy, Unlock
<1>2. InProgress # PM!NoCall /\ InProgress' = PM!NoCall
  BY <1>1 DEF InProgress, PM!NoCall, Unlock, PM!NoPeers, NoPeers, PM!NoPeer, NoPeer, Busy
<1>3. Visible = before /\ Visible' = store'.peers
  BY <1>1 DEF Visible
<1>4. InProgress.op = op /\ InProgress.removes = removes /\ InProgress.list = list
  BY <1>1 DEF InProgress
<1>5. store'.peers = IF op = "apply" THEN Applied(before, removes, list) ELSE list
  BY <1>1, LoopsDone DEF InitDone, ApplyDone, ReplaceDone, StoreInv, LoopInv
<1>6. PM!Applied(before, removes, list) = Applied(before, removes, list)
  BY DEF Applied, PM!Applied, ListedEmails, PM!ListedEmails, Listed, PM!Listed, NoPeer, PM!NoPeer
<1> QED BY <1>2, <1>3, <1>4, <1>5, <1>6 DEF PM!Return

LEMMA MapStep == StoreInv /\ [StoreNext]_storeVars => [PM!Next]_<<Visible, InProgress>>
<1> SUFFICES ASSUME StoreInv, [StoreNext]_storeVars PROVE PM!Next \/ UNCHANGED <<Visible, InProgress>>
  OBVIOUS
<1>1. ASSUME NEW l \in PeerList, InitStore(l) \/ ReplaceAll(l) PROVE PM!Next
  BY <1>1, MapCall DEF InitStore, ReplaceAll, PM!Next
<1>2. ASSUME NEW l \in PeerList, NEW K \in SUBSET Keys, ApplyChanges(K, l) PROVE PM!Next
  BY <1>2, MapCall DEF ApplyChanges, PM!Next
<1>3. ASSUME NEW k \in Keys, InitOne(k) \/ RemoveOne(k) \/ UpsertOne(k) \/ ReplaceOne(k)
      PROVE  UNCHANGED <<Visible, InProgress>>
  BY <1>3 DEF InitOne, RemoveOne, UpsertOne, ReplaceOne, Visible, InProgress, Busy
<1>4. CASE InitDone \/ ApplyDone \/ ReplaceDone
  BY <1>4, MapReturn DEF PM!Next
<1>5. CASE UNCHANGED storeVars
  BY <1>5 DEF storeVars, Visible, InProgress, Busy
<1> QED BY <1>1, <1>2, <1>3, <1>4, <1>5 DEF StoreNext

(* The peer store, loops, two maps and all, implements the one atomic map  *)
(* its users see.                                                          *)
THEOREM Refinement == StoreSpec => ImplementsPeerMap
BY MapInit, MapStep, StoreInvariance, PTL DEF StoreSpec, ImplementsPeerMap, PM!Spec
=============================================================================
