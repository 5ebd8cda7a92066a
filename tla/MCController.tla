---------------------------- MODULE MCController ----------------------------
(***************************************************************************)
(* Model-checking instance of Controller: requests are interchangeable.    *)
(***************************************************************************)
EXTENDS Controller, TLC

RequestSymmetry == Permutations(Requests)
ClientSymmetry == Permutations(Clients)
KeySymmetry == Permutations(Keys)
Symmetry == RequestSymmetry \cup ClientSymmetry \cup KeySymmetry
=============================================================================
