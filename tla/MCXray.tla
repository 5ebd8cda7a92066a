-------------------------------- MODULE MCXray --------------------------------
(* Model-checking instances of Xray.                                       *)
EXTENDS Xray
=============================================================================
