--------------------------- MODULE MCSingBoxProcess ---------------------------
(* Model-checking instances of SingBoxProcess. The callers are             *)
(* interchangeable, but the runs check liveness, where symmetry is not     *)
(* sound.                                                                  *)
EXTENDS SingBoxProcess
=============================================================================
