----------------------------- MODULE MCSessions -----------------------------
(***************************************************************************)
(* Model-checking instance of Sessions. Traffic of two users with a fixed  *)
(* user list, and overlapping syncs of one user without traffic, are       *)
(* searched apart: a behaviour is about one of them.                       *)
(***************************************************************************)
EXTENDS Sessions, TLC

CONSTANTS u1, u2
VARIABLE concern

MCInit == CoreInit /\ concern \in {"traffic", "users"}
MCNext == CoreNext /\ UNCHANGED concern
MCSpec == MCInit /\ [][MCNext]_<<coreVars, concern>>

(* Every user is let in, and no sync is under way; a client moves a byte.  *)
OfTraffic ==
    CASE core = "openvpn" -> /\ \A u \in Users : allow[u] = AnySerial
                             /\ \A c \in DOMAIN client : client[c].bytes <= 1
      [] core = "l2tp" -> \A r \in Requests : job[r] = L2!NoJob
      [] OTHER -> TRUE
(* u2 stays away and nobody moves a byte; one session is enough for L2TP.  *)
OfUsers ==
    CASE core = "openvpn" -> /\ allow[u2] = Denied /\ owed = Zero
                             /\ \A c \in DOMAIN client : client[c].cn = u1
      [] core = "l2tp" -> u2 \notin allow /\ owed = Zero /\ sessions <= 1
      [] OTHER -> FALSE

(* Not searched further are states where bytes were counted in an order    *)
(* that BooksBalance excepts, or where the core has stopped.               *)
InService == ~disturbed /\ life # "stopped"
OneConcern == InService /\ IF concern = "traffic" THEN OfTraffic ELSE OfUsers
Symmetry == Permutations(Requests)
=============================================================================
