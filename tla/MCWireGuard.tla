----------------------------- MODULE MCWireGuard -----------------------------
(* Model-checking instances of WireGuard. *)
EXTENDS WireGuard, FiniteSets, TLC

Symmetry == Permutations(Keys)

(* Every user has addresses of their own.                                  *)
CONSTANT e1, e2, i1, i2
OwnIPs == [e \in Emails |-> IF e = e1 THEN {i1} ELSE {i2}]

(* Bytes move on the interface of one user only: with two, every placing   *)
(* of the traffic among the peers would be explored besides every order of *)
(* the syncs.                                                              *)
TrafficOfOneUser ==
    LET new == IF "new" \in DOMAIN sync THEN sync.new ELSE map
        seen == {k \in Keys : moved[k]["rx"] > 0}
        listed == Listed(map) \cup Listed(new) \cup present \cup {k \in Keys : stats[k] # NoEntry}
    IN  seen # {} => /\ Cardinality(listed \cup seen) = 1
                     /\ \A k \in Listed(map) \cup Listed(new) : (map[k].email = e1 \/ new[k].email = e1)
=============================================================================
