---------------------------- MODULE MCSingBoxUsers ----------------------------
(* Bounds and symmetry for model-checking a sing-box core's users.         *)
EXTENDS SingBoxUsers, TLC

Symmetry == Permutations(Emails) \cup Permutations(Requests) \cup Permutations(Inbounds)
=============================================================================
