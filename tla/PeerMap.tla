-------------------------------- MODULE PeerMap --------------------------------
(***************************************************************************)
(* What the users of wireguard.PeerStore may rely on: one map of peers,    *)
(* and calls that take effect at one instant, when they return.            *)
(***************************************************************************)
EXTENDS Peers

VARIABLES
    map,   \* key -> peer
    call   \* the call in progress

NoCall == [op |-> "none", removes |-> {}, list |-> NoPeers]

Init == map = NoPeers /\ call = NoCall

Call ==
    /\ call = NoCall
    /\ call'.op \in {"init", "apply", "replace"}
    /\ call'.removes \subseteq Keys
    /\ call'.list \in PeerList
    /\ UNCHANGED map

Return ==
    /\ call # NoCall
    /\ map' = IF call.op = "apply" THEN Applied(map, call.removes, call.list)
              ELSE call.list
    /\ call' = NoCall

Next == Call \/ Return

Spec == Init /\ [][Next]_<<map, call>>
=============================================================================
