----------------------------- MODULE MCPeerStore -----------------------------
(* Model-checking instance of PeerStore. *)
EXTENDS PeerStore, TLC

Symmetry == Permutations(Keys) \cup Permutations(Emails)
=============================================================================
