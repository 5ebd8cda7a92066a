------------------------------- MODULE MCHost -------------------------------
(***************************************************************************)
(* Two cores of any two kinds, with tables of their own or a shared one.   *)
(***************************************************************************)
EXTENDS Host, TLC

(* Syncs, which rewrite chap-secrets, and refreshers, which rewrite the    *)
(* MSS rules, touch nothing in common: behaviours with both are not        *)
(* searched on.                                                            *)
OneConcern == syncs = 0 \/ ticks + changes = 0

Interchangeable == Permutations(Cores) \cup Permutations(Tables)
=============================================================================
