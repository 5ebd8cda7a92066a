--------------------------------- MODULE Peers ---------------------------------
(***************************************************************************)
(* The peers of a WireGuard interface as values: what PeerStore keeps for  *)
(* a public key, the lists its callers pass to it, and what its operations *)
(* make of a map of peers.                                                 *)
(***************************************************************************)

CONSTANTS
    Keys,     \* WireGuard public keys
    Emails,   \* user emails
    IPs,      \* allowed IPs
    NoKey,    \* email not in the index
    NoEmail   \* key not in the map

ASSUME PeersAssumption == NoKey \notin Keys /\ NoEmail \notin Emails

NoPeer == [email |-> NoEmail, ips |-> {}]
PeerInfo == [email : Emails, ips : SUBSET IPs]
PeerMaps == [Keys -> PeerInfo \cup {NoPeer}]
NoPeers == [k \in Keys |-> NoPeer]

(* A list of peers is a function from keys, NoPeer where the list has      *)
(* none. Callers build lists from maps keyed by public key and by email:   *)
(* no key and no email occurs twice in one.                                *)
PeerList ==
    {l \in PeerMaps :
        \A j, k \in Keys : l[j].email = l[k].email /\ l[j].email \in Emails => j = k}
Listed(l) == {k \in Keys : l[k] # NoPeer}
ListedEmails(l) == {l[k].email : k \in Listed(l)}

(* What ApplyChanges makes of a map: the upserts are there, the removed    *)
(* keys and the upserted users' old keys are gone unless upserted, and     *)
(* nobody else is touched.                                                 *)
Applied(map, K, l) ==
    [k \in Keys |->
        IF l[k] # NoPeer THEN l[k]
        ELSE IF k \in K \/ map[k].email \in ListedEmails(l) THEN NoPeer
        ELSE map[k]]
=============================================================================
