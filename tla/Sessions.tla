------------------------------ MODULE Sessions ------------------------------
(***************************************************************************)
(* One core of a node that bills from counters beside it: an OpenVPN       *)
(* server, an L2TP server or the statistics of a sing-box core. A          *)
(* behaviour is one core's; the state of the other kinds stays as it is.   *)
(* OpenVPN's definitions are this module's, those of the others the        *)
(* instances', which share the variables of the same name.                 *)
(***************************************************************************)
EXTENDS OpenVPN

CONSTANTS
    Ifs, MaxSessions        \* of L2TP

VARIABLES
    core,                                                   \* the kind of the core
    secrets, ppp, sessions, file, finals, job, live, recs, ifSeen, torn, missed, outdated,
    counter, baseline, pending, readings, taking, outgrown  \* of SingBoxStats

L2 == INSTANCE L2TP
SB == INSTANCE SingBoxStats

openvpnVars == <<daemonVars, mgmtVars, kills, snap, seen, ended, restart, spared>>
l2tpVars == <<secrets, ppp, sessions, file, finals, job, live, recs, ifSeen, torn, missed, outdated>>
vpnVars == <<allow, poll, life>>
singboxVars == <<counter, baseline, pending, readings, taking, outgrown>>
coreVars == <<core, cum, restarts, owed, disturbed, vpnVars, openvpnVars, l2tpVars, singboxVars>>

NoL2TP ==
    /\ secrets = 0 /\ ppp = 0 /\ sessions = 0 /\ file = 0 /\ finals = 0 /\ job = 0 /\ live = 0
    /\ recs = 0 /\ ifSeen = 0 /\ torn = 0 /\ missed = 0 /\ outdated = 0
NoOpenVPN ==
    /\ daemon = 0 /\ client = 0 /\ nextCid = 0 /\ connects = 0 /\ link = 0 /\ toNode = 0
    /\ reader = 0 /\ kills = 0 /\ lastStatus = 0 /\ ready = 0 /\ snap = 0 /\ seen = 0
    /\ ended = 0 /\ restart = 0 /\ spared = 0
NoSingBox ==
    /\ counter = 0 /\ baseline = 0 /\ pending = 0 /\ readings = 0 /\ taking = 0 /\ outgrown = 0
NoVPN == allow = 0 /\ poll = 0 /\ life = "running"

CoreInit ==
    \/ core = "openvpn" /\ Init /\ NoL2TP /\ NoSingBox
    \/ core = "l2tp" /\ L2!Init /\ NoOpenVPN /\ NoSingBox
    \/ core = "singbox" /\ SB!Init /\ NoVPN /\ NoOpenVPN /\ NoL2TP

CoreNext ==
    /\ UNCHANGED core
    /\ \/ core = "openvpn" /\ Next /\ UNCHANGED <<l2tpVars, singboxVars>>
       \/ core = "l2tp" /\ L2!Next /\ UNCHANGED <<openvpnVars, singboxVars>>
       \/ core = "singbox" /\ SB!Next /\ UNCHANGED <<vpnVars, openvpnVars, l2tpVars>>

CoreSpec == CoreInit /\ [][CoreNext]_coreVars
-----------------------------------------------------------------------------
(* A session of a user the panel has removed is being ended: CutOff of     *)
(* OpenVPN and of L2TP.                                                    *)
RemovedUsersAreCutOff ==
    /\ core = "openvpn" => CutOff
    /\ core = "l2tp" => L2!CutOff

(* Every byte a session moves is counted once: BooksBalance of OpenVPN, of *)
(* L2TP and of SingBoxStats.                                               *)
BytesCountOnce ==
    /\ core = "openvpn" => BooksBalance
    /\ core = "l2tp" => L2!BooksBalance
    /\ core = "singbox" => SB!BooksBalance
=============================================================================
