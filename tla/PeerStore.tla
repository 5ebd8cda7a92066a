------------------------------- MODULE PeerStore -------------------------------
(***************************************************************************)
(* wireguard.PeerStore: the peers by public key, and the index from a      *)
(* user's email to the key. Every operation holds the store's lock from    *)
(* its first to its last step; a step is one iteration of its loop.        *)
(* The order of a loop is left open.                                       *)
(***************************************************************************)
EXTENDS Peers

(***************************************************************************)
(* The body of each loop, on a pair of maps.                               *)
(***************************************************************************)
Stores == [peers : PeerMaps, emailToKey : [Emails -> Keys \cup {NoKey}]]
EmptyStore == [peers |-> NoPeers, emailToKey |-> [e \in Emails |-> NoKey]]

PutPeer(s, k, p) ==
    [peers |-> [s.peers EXCEPT ![k] = p],
     emailToKey |-> [s.emailToKey EXCEPT ![p.email] = k]]

RemoveKey(s, k) ==
    IF s.peers[k] = NoPeer THEN s
    ELSE [peers |-> [s.peers EXCEPT ![k] = NoPeer],
          emailToKey |-> [s.emailToKey EXCEPT ![s.peers[k].email] = NoKey]]

(* The user's old key leaves the map; the key's old owner leaves the index.*)
(* The mutants skip the one or the other.                                  *)
UpsertKeepsOldKey(s, k, p) ==
    LET index == IF s.peers[k].email \notin {NoEmail, p.email}
                 THEN [s.emailToKey EXCEPT ![s.peers[k].email] = NoKey]
                 ELSE s.emailToKey
    IN  PutPeer([peers |-> s.peers, emailToKey |-> index], k, p)
UpsertKeepsOldOwner(s, k, p) ==
    LET oldKey == s.emailToKey[p.email]
        kept == IF oldKey \notin {NoKey, k} THEN [s.peers EXCEPT ![oldKey] = NoPeer]
                ELSE s.peers
    IN  PutPeer([peers |-> kept, emailToKey |-> s.emailToKey], k, p)

UpsertPeer(s, k, p) ==
    LET oldKey == s.emailToKey[p.email]
        kept == IF oldKey \notin {NoKey, k} THEN [s.peers EXCEPT ![oldKey] = NoPeer]
                ELSE s.peers
        index == IF kept[k].email \notin {NoEmail, p.email}
                 THEN [s.emailToKey EXCEPT ![kept[k].email] = NoKey]
                 ELSE s.emailToKey
    IN  PutPeer([peers |-> kept, emailToKey |-> index], k, p)
-----------------------------------------------------------------------------
VARIABLES
    store,    \* ps.peers and ps.emailToKey
    fresh,    \* the maps ReplaceAll is building
    op,       \* the operation that holds the lock
    list,     \* its argument: the peers to put
    removes,  \* its argument: the keys to remove
    todo,     \* keys of the list still to be put
    toRemove, \* keys still to be removed
    before    \* history: ps.peers when the lock was taken

storeVars == <<store, fresh, op, list, removes, todo, toRemove, before>>

StoreInit ==
    /\ store = EmptyStore
    /\ fresh = EmptyStore
    /\ op = "new"
    /\ list = NoPeers
    /\ removes = {} /\ todo = {} /\ toRemove = {}
    /\ before = NoPeers

Lock(name, l, K) ==
    /\ op' = name
    /\ list' = l
    /\ removes' = K
    /\ todo' = Listed(l)
    /\ toRemove' = K
    /\ before' = store.peers
    /\ fresh' = EmptyStore
    /\ UNCHANGED store

Unlock ==
    /\ op' = "idle"
    /\ fresh' = EmptyStore
    /\ list' = NoPeers
    /\ removes' = {} /\ todo' = {} /\ toRemove' = {}
    /\ before' = NoPeers

(* Init, once, on the empty store of a new backend.                        *)
InitStore(l) == op = "new" /\ Lock("init", l, {})

InitOne(k) ==
    /\ op = "init" /\ k \in todo
    /\ store' = PutPeer(store, k, list[k])
    /\ todo' = todo \ {k}
    /\ UNCHANGED <<fresh, op, list, removes, toRemove, before>>

InitDone == op = "init" /\ todo = {} /\ Unlock /\ UNCHANGED store

(* ApplyChanges: all removals, then the upserts.                           *)
ApplyChanges(K, l) == op = "idle" /\ Lock("apply", l, K)

RemoveOne(k) ==
    /\ op = "apply" /\ k \in toRemove
    /\ store' = RemoveKey(store, k)
    /\ toRemove' = toRemove \ {k}
    /\ UNCHANGED <<fresh, op, list, removes, todo, before>>

UpsertOne(k) ==
    /\ op = "apply" /\ toRemove = {} /\ k \in todo
    /\ store' = UpsertPeer(store, k, list[k])
    /\ todo' = todo \ {k}
    /\ UNCHANGED <<fresh, op, list, removes, toRemove, before>>

ApplyDone == op = "apply" /\ toRemove = {} /\ todo = {} /\ Unlock /\ UNCHANGED store

(* ReplaceAll: new maps are built and swapped in.                          *)
ReplaceAll(l) == op = "idle" /\ Lock("replace", l, {})

ReplaceOne(k) ==
    /\ op = "replace" /\ k \in todo
    /\ fresh' = PutPeer(fresh, k, list[k])
    /\ todo' = todo \ {k}
    /\ UNCHANGED <<store, op, list, removes, toRemove, before>>

ReplaceDone == op = "replace" /\ todo = {} /\ Unlock /\ store' = fresh

StoreNext ==
    \/ \E l \in PeerList : InitStore(l) \/ ReplaceAll(l)
    \/ \E l \in PeerList, K \in SUBSET Keys : ApplyChanges(K, l)
    \/ \E k \in Keys : InitOne(k) \/ RemoveOne(k) \/ UpsertOne(k) \/ ReplaceOne(k)
    \/ InitDone \/ ApplyDone \/ ReplaceDone

StoreSpec == StoreInit /\ [][StoreNext]_storeVars
-----------------------------------------------------------------------------
(* Types of the store and of the operation in progress.                    *)
TypeOK ==
    /\ store \in Stores
    /\ fresh \in Stores
    /\ op \in {"new", "idle", "init", "apply", "replace"}
    /\ list \in PeerList
    /\ removes \subseteq Keys
    /\ todo \subseteq Listed(list)
    /\ toRemove \subseteq removes
    /\ before \in PeerMaps

OneToOne(s) ==
    \A e \in Emails, k \in Keys : s.emailToKey[e] = k <=> s.peers[k].email = e

(* PeerStore's comment: "a 1:1 mapping between User (Email) and WireGuard  *)
(* Public Key". The two maps agree after every iteration of every loop,    *)
(* though users swap keys and lists mention keys other users hold.         *)
StoreIsOneToOne == OneToOne(store)

(* Where the two loops of ApplyChanges are: what has been put is there,    *)
(* removed keys and the old keys of users already upserted are gone, and   *)
(* the rest is as it was when the lock was taken.                          *)
PutSoFar == Listed(list) \ todo
Put == [k \in Keys |-> IF k \in PutSoFar THEN list[k] ELSE NoPeer]
AppliedSoFar ==
    [k \in Keys |->
        IF k \in PutSoFar THEN list[k]
        ELSE IF k \in removes \ toRemove \/ before[k].email \in {list[j].email : j \in PutSoFar}
             THEN NoPeer
        ELSE before[k]]
LoopInv ==
    /\ op \in {"new", "idle"} => list = NoPeers /\ removes = {} /\ todo = {}
    /\ op = "new" => store.peers = NoPeers
    /\ op = "init" => store.peers = Put /\ before = NoPeers
    /\ op = "replace" => store.peers = before /\ fresh.peers = Put
    /\ op = "apply" => store.peers = AppliedSoFar /\ (toRemove # {} => todo = Listed(list))

(* Readers wait for the lock, so what they see while an operation runs is  *)
(* the map as it was: every operation takes effect as one step of PeerMap. *)
Busy == op \in {"init", "apply", "replace"}
Visible == IF Busy THEN before ELSE store.peers
InProgress == [op |-> IF Busy THEN op ELSE "none", removes |-> removes, list |-> list]
PM == INSTANCE PeerMap WITH map <- Visible, call <- InProgress
ImplementsPeerMap == PM!Spec
=============================================================================
