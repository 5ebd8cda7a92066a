------------------------------ MODULE Controller ------------------------------
(***************************************************************************)
(* The control plane of the node: controller.Controller and the Start,     *)
(* Stop, sync and info handlers of the gRPC and REST services around it.   *)
(*                                                                         *)
(* Every request is a goroutine of its own, so a request is a process that *)
(* runs once. A core is named by the Start request that launched it, and a *)
(* connection (the context made by Connect, with its keep-alive tracker)   *)
(* by the Start request that connected. Each step below is one critical    *)
(* section of c.mu, or one call made outside it; controlMu is held by a    *)
(* Start or Stop from its first to its last step, and by nobody else.      *)
(***************************************************************************)
EXTENDS Integers, FiniteSets

CONSTANTS
    Requests,         \* the requests the panel sends, one process each
    NoReq,            \* "no request": an empty map slot, a free mutex
    Clients,          \* client addresses
    NoClient,         \* clientIP == ""
    Keys,             \* backendKey: core type and instance
    Kinds,            \* which of the requests "stop", "sync" and "info" the panel sends
    KeepAlives,       \* keep-alive values a Start may carry, 0 for none
    MaxIdle,          \* bound on the measured idle time, no smaller than any keep-alive
    ExitModes         \* how a signal may end the server: "graceful", or "forced" when
                      \* the 10 s of main's shutdown expire with handlers in flight

ASSUME ControllerAssumption ==
    /\ NoReq \notin Requests
    /\ NoClient \notin Clients
    /\ Kinds \subseteq {"stop", "sync", "info"}
    /\ KeepAlives \subseteq 0..MaxIdle
    /\ MaxIdle \in Nat
    /\ ExitModes \subseteq {"graceful", "forced"}

VARIABLES
    backends,    \* c.backends: key -> running core, NoReq where there is none
    clientIP,    \* c.clientIP
    idle,        \* time.Since(c.lastRequest), saturating at MaxIdle
    cancelFunc,  \* c.cancelFunc: the connection it cancels
    cancelled,   \* connections whose context is done
    controlMu,   \* the request holding c.controlMu
    req,         \* what each request asks for, once it has arrived
    pc,          \* where each process is
    todo,        \* the cores a process has collected and still has to call
    additive,    \* the Starts whose handler computed additive = true
    alive        \* cores whose process is up: constructed and not yet Shutdown

vars == <<backends, clientIP, idle, cancelFunc, cancelled, controlMu, req, pc,
          todo, additive, alive>>

Req(r) == <<"request", r>>
Tracker(r) == <<"keepAliveTracker", r>>
Main == <<"main", NoReq>>
Procs == {Req(r) : r \in Requests} \cup {Tracker(r) : r \in Requests} \cup {Main}

StartRequest == [kind : {"start"}, ip : Clients, key : Keys,
                 additive : BOOLEAN, keepAlive : KeepAlives]
OtherRequest == [kind : Kinds, ip : Clients]
NoRequest == [kind |-> "none"]

DisconnectPC == {"cancel", "snapshot", "shutdown"}
ControlPC == {"check", "retire", "retiring", "install", "finish"} \cup DisconnectPC
PCs == {"new", "done", "client", "backend", "lock", "collect", "apply", "ack",
        "none", "wait", "serve", "exited"} \cup ControlPC

Goto(p, l) == pc' = [pc EXCEPT ![p] = l]
IsCurrentClient(ip) == clientIP \in {NoClient, ip}
Backend == {backends[k] : k \in Keys} \ {NoReq}
ReleaseForgotten(r) == UNCHANGED controlMu /\ r \in Requests   \* mutant: no deferred unlock
Release(r) == controlMu' = IF controlMu = r THEN NoReq ELSE controlMu
-----------------------------------------------------------------------------
Init ==
    /\ backends = [k \in Keys |-> NoReq]
    /\ clientIP = NoClient
    /\ idle = MaxIdle
    /\ cancelFunc = NoReq
    /\ cancelled = {}
    /\ controlMu = NoReq
    /\ req = [r \in Requests |-> NoRequest]
    /\ pc = [p \in Procs |-> IF p[1] = "main" THEN "serve"
                             ELSE IF p[1] = "request" THEN "new" ELSE "none"]
    /\ todo = [p \in Procs |-> {}]
    /\ additive = {}
    /\ alive = {}
-----------------------------------------------------------------------------
(***************************************************************************)
(* Start. It takes controlMu, decides from the running set and the client, *)
(* resets the node if it is a plain Start, and brings one core up.         *)
(***************************************************************************)

AdditiveAsAsked(q) == q.additive   \* mutant: additive even when nothing runs
Additive(q) == Backend # {} /\ q.additive

(* LockControl, then running := s.Backend() != nil. The flag the handler   *)
(* keeps is running && data.GetAdditive(); a request on an idle node goes  *)
(* straight to StartBackend.                                               *)
StartLock(r, q) ==
    /\ pc[Req(r)] = "new" /\ pc[Main] = "serve"
    /\ controlMu = NoReq
    /\ req' = [req EXCEPT ![r] = q]
    /\ controlMu' = r
    /\ additive' = IF Additive(q) THEN additive \cup {r} ELSE additive
    /\ Goto(Req(r), IF Backend # {} THEN "check" ELSE "retire")
    /\ UNCHANGED <<backends, clientIP, idle, cancelFunc, cancelled, todo, alive>>

(* running && !IsCurrentClient(ip): the request is refused.                *)
StartDeny(r) ==
    /\ pc[Req(r)] = "check"
    /\ ~IsCurrentClient(req[r].ip)
    /\ Release(r)
    /\ Goto(Req(r), "done")
    /\ UNCHANGED <<backends, clientIP, idle, cancelFunc, cancelled, req, todo,
                   additive, alive>>

(* The client is the current one, or nobody is: a plain Start disconnects. *)
(* The mutant admits any client.                                           *)
StartAdmitAnyone(r) ==
    /\ pc[Req(r)] = "check"
    /\ Goto(Req(r), IF r \in additive THEN "retire" ELSE "cancel")
    /\ UNCHANGED <<backends, clientIP, idle, cancelFunc, cancelled, controlMu, req,
                   todo, additive, alive>>

StartAdmit(r) ==
    /\ pc[Req(r)] = "check"
    /\ IsCurrentClient(req[r].ip)
    /\ Goto(Req(r), IF r \in additive THEN "retire" ELSE "cancel")
    /\ UNCHANGED <<backends, clientIP, idle, cancelFunc, cancelled, controlMu, req,
                   todo, additive, alive>>

RetiredNone(r) == IF req[r].additive THEN {} ELSE Keys   \* mutant: an additive Start retires nothing
Retired(r) == IF req[r].additive THEN {req[r].key} ELSE Keys

(* retireFor: the superseded cores leave the map under c.mu. It reads the  *)
(* request's own additive flag, not the one the handler computed.          *)
RetireFor(r) ==
    /\ pc[Req(r)] = "retire"
    /\ todo' = [todo EXCEPT ![Req(r)] = {backends[k] : k \in Retired(r)} \ {NoReq}]
    /\ backends' = [k \in Keys |-> IF k \in Retired(r) THEN NoReq ELSE backends[k]]
    /\ Goto(Req(r), "retiring")
    /\ UNCHANGED <<clientIP, idle, cancelFunc, cancelled, controlMu, req, additive,
                   alive>>

(* The constructor of the requested core type succeeds: a process is up    *)
(* that only this request knows of. The mutant launches before the retired *)
(* cores are down.                                                         *)
ConstructEarly(r) ==
    /\ pc[Req(r)] = "retiring"
    /\ alive' = alive \cup {r}
    /\ Goto(Req(r), "install")
    /\ UNCHANGED <<backends, clientIP, idle, cancelFunc, cancelled, controlMu, req,
                   todo, additive>>

Construct(r) ==
    /\ pc[Req(r)] = "retiring" /\ todo[Req(r)] = {}
    /\ alive' = alive \cup {r}
    /\ Goto(Req(r), "install")
    /\ UNCHANGED <<backends, clientIP, idle, cancelFunc, cancelled, controlMu, req,
                   todo, additive>>

(* Config parsing, a missing binary or the core itself fails: the handler  *)
(* returns the error and nothing is put back.                              *)
ConstructFail(r) ==
    /\ pc[Req(r)] = "retiring" /\ todo[Req(r)] = {}
    /\ Release(r)
    /\ Goto(Req(r), "done")
    /\ UNCHANGED <<backends, clientIP, idle, cancelFunc, cancelled, req, todo,
                   additive, alive>>

Install(r) ==
    /\ pc[Req(r)] = "install"
    /\ backends' = [backends EXCEPT ![req[r].key] = r]
    /\ Goto(Req(r), "finish")
    /\ UNCHANGED <<clientIP, idle, cancelFunc, cancelled, controlMu, req, todo,
                   additive, alive>>

(* An additive Start only counts as a request.                             *)
StartAdditiveDone(r) ==
    /\ pc[Req(r)] = "finish" /\ r \in additive
    /\ idle' = 0
    /\ Release(r)
    /\ Goto(Req(r), "ack")
    /\ UNCHANGED <<backends, clientIP, cancelFunc, cancelled, req, todo, additive,
                   alive>>

(* Connect: the new context replaces cancelFunc without cancelling the one *)
(* it held, and a tracker runs when the Start carries a keep-alive.        *)
Connect(r) ==
    /\ pc[Req(r)] = "finish" /\ r \notin additive
    /\ idle' = 0
    /\ clientIP' = req[r].ip
    /\ cancelFunc' = r
    /\ Release(r)
    /\ pc' = [pc EXCEPT ![Req(r)] = "ack",
                        ![Tracker(r)] = IF req[r].keepAlive > 0 THEN "wait" ELSE "none"]
    /\ UNCHANGED <<backends, cancelled, req, todo, additive, alive>>
-----------------------------------------------------------------------------
(***************************************************************************)
(* Disconnect, run by a Start or a Stop under controlMu, and by a keep-    *)
(* alive tracker and by main without it.                                   *)
(***************************************************************************)

(* c.cancelFunc(). The mutant leaves the connection's context alone.       *)
DisconnectNoCancel(p) ==
    /\ pc[p] = "cancel"
    /\ Goto(p, "snapshot")
    /\ UNCHANGED <<backends, clientIP, idle, cancelFunc, cancelled, controlMu, req, todo,
                   additive, alive>>

DisconnectCancel(p) ==
    /\ pc[p] = "cancel"
    /\ cancelled' = cancelled \cup ({cancelFunc} \ {NoReq})
    /\ Goto(p, "snapshot")
    /\ UNCHANGED <<backends, clientIP, idle, cancelFunc, controlMu, req, todo,
                   additive, alive>>

(* The running cores are listed under c.mu and stay in the map.            *)
DisconnectSnapshot(p) ==
    /\ pc[p] = "snapshot"
    /\ todo' = [todo EXCEPT ![p] = Backend]
    /\ Goto(p, "shutdown")
    /\ UNCHANGED <<backends, clientIP, idle, cancelFunc, cancelled, controlMu, req,
                   additive, alive>>

(* One Shutdown outside the lock, of Disconnect's list or of retireFor's.  *)
ShutdownOne(p) ==
    /\ pc[p] \in {"shutdown", "retiring"}
    /\ \E c \in todo[p] :
          /\ alive' = alive \ {c}
          /\ todo' = [todo EXCEPT ![p] = @ \ {c}]
    /\ UNCHANGED <<backends, clientIP, idle, cancelFunc, cancelled, controlMu, req,
                   pc, additive>>

(* Where a process goes when its Disconnect returns.                       *)
AfterDisconnect(p) ==
    IF p[1] = "main" THEN "exited"
    ELSE IF p[1] = "keepAliveTracker" THEN "wait"
    ELSE IF req[p[2]].kind = "start" THEN "retire" ELSE "ack"

(* The map is replaced by an empty one, whatever it holds by now. The      *)
(* mutant keeps it.                                                        *)
DisconnectKeepsMap(p) ==
    /\ pc[p] = "shutdown" /\ todo[p] = {}
    /\ clientIP' = NoClient
    /\ Goto(p, AfterDisconnect(p))
    /\ controlMu' = IF AfterDisconnect(p) = "ack" THEN NoReq ELSE controlMu
    /\ UNCHANGED <<backends, idle, cancelFunc, cancelled, req, todo, additive, alive>>

DisconnectReset(p) ==
    /\ pc[p] = "shutdown" /\ todo[p] = {}
    /\ backends' = [k \in Keys |-> NoReq]
    /\ clientIP' = NoClient
    /\ Goto(p, AfterDisconnect(p))
    /\ controlMu' = IF AfterDisconnect(p) = "ack" THEN NoReq ELSE controlMu
    /\ UNCHANGED <<idle, cancelFunc, cancelled, req, todo, additive, alive>>
-----------------------------------------------------------------------------
(***************************************************************************)
(* Stop and the user-sync requests pass two middleware checks, each with   *)
(* its own critical section, before the handler runs. GetBaseInfo passes   *)
(* none. A request that succeeds refreshes lastRequest on its way out.     *)
(***************************************************************************)
Arrive(r, q) ==
    /\ pc[Req(r)] = "new" /\ pc[Main] = "serve"
    /\ req' = [req EXCEPT ![r] = q]
    /\ Goto(Req(r), IF q.kind = "info" THEN "ack" ELSE "client")
    /\ UNCHANGED <<backends, clientIP, idle, cancelFunc, cancelled, controlMu, todo,
                   additive, alive>>

ValidateCurrentClient(r) ==
    /\ pc[Req(r)] = "client"
    /\ Goto(Req(r), IF IsCurrentClient(req[r].ip) THEN "backend" ELSE "done")
    /\ UNCHANGED <<backends, clientIP, idle, cancelFunc, cancelled, controlMu, req,
                   todo, additive, alive>>

(* A node with a core in its map reports Started while any of them is up.  *)
CheckBackend(r) ==
    /\ pc[Req(r)] = "backend"
    /\ Goto(Req(r), IF Backend \cap alive = {} THEN "done"
                    ELSE IF req[r].kind = "stop" THEN "lock" ELSE "collect")
    /\ UNCHANGED <<backends, clientIP, idle, cancelFunc, cancelled, controlMu, req,
                   todo, additive, alive>>

StopLock(r) ==
    /\ pc[Req(r)] = "lock"
    /\ controlMu = NoReq
    /\ controlMu' = r
    /\ Goto(Req(r), "cancel")
    /\ UNCHANGED <<backends, clientIP, idle, cancelFunc, cancelled, req, todo,
                   additive, alive>>

(* s.Backend(): a composite over the cores of this moment; an empty node   *)
(* fails the request.                                                      *)
SyncCollect(r) ==
    /\ pc[Req(r)] = "collect"
    /\ todo' = [todo EXCEPT ![Req(r)] = Backend]
    /\ Goto(Req(r), IF Backend = {} THEN "done" ELSE "apply")
    /\ UNCHANGED <<backends, clientIP, idle, cancelFunc, cancelled, controlMu, req,
                   additive, alive>>

(* The composite hands the update to one core after the other, and to all  *)
(* of them though one refuses it: the request then fails at the end.       *)
SyncOne(r) ==
    /\ pc[Req(r)] = "apply"
    /\ \E c \in todo[Req(r)] :
          /\ todo' = [todo EXCEPT ![Req(r)] = @ \ {c}]
          /\ \E l \in IF todo[Req(r)] = {c} THEN {"ack", "done"} ELSE {"apply"} : Goto(Req(r), l)
    /\ UNCHANGED <<backends, clientIP, idle, cancelFunc, cancelled, controlMu, req,
                   additive, alive>>

(* NewRequest by the logging interceptor, after the handler has returned.  *)
Ack(r) ==
    /\ pc[Req(r)] = "ack"
    /\ idle' = 0
    /\ Goto(Req(r), "done")
    /\ UNCHANGED <<backends, clientIP, cancelFunc, cancelled, controlMu, req, todo,
                   additive, alive>>
-----------------------------------------------------------------------------
(***************************************************************************)
(* The keep-alive tracker of a connection. When its context is done and a  *)
(* tick is pending, select takes either case.                              *)
(***************************************************************************)
TrackerTick(r) ==
    /\ pc[Tracker(r)] = "wait"
    /\ idle >= req[r].keepAlive
    /\ Goto(Tracker(r), "cancel")
    /\ UNCHANGED <<backends, clientIP, idle, cancelFunc, cancelled, controlMu, req,
                   todo, additive, alive>>

TrackerExit(r) ==
    /\ pc[Tracker(r)] = "wait"
    /\ r \in cancelled
    /\ Goto(Tracker(r), "done")
    /\ UNCHANGED <<backends, clientIP, idle, cancelFunc, cancelled, controlMu, req,
                   todo, additive, alive>>

Clock ==
    /\ idle < MaxIdle
    /\ idle' = idle + 1
    /\ UNCHANGED <<backends, clientIP, cancelFunc, cancelled, controlMu, req, pc,
                   todo, additive, alive>>

(* A signal ends main's wait: the server stops taking requests, lets the   *)
(* running handlers finish unless its time runs out, and main disconnects. *)
(* The mutant never waits for the handlers.                                *)
SignalImpatient ==
    /\ pc[Main] = "serve" /\ ExitModes # {}
    /\ Goto(Main, "cancel")
    /\ UNCHANGED <<backends, clientIP, idle, cancelFunc, cancelled, controlMu, req,
                   todo, additive, alive>>

Signal ==
    /\ pc[Main] = "serve"
    /\ \/ "forced" \in ExitModes
       \/ "graceful" \in ExitModes /\ \A r \in Requests : pc[Req(r)] \in {"new", "done"}
    /\ Goto(Main, "cancel")
    /\ UNCHANGED <<backends, clientIP, idle, cancelFunc, cancelled, controlMu, req,
                   todo, additive, alive>>
-----------------------------------------------------------------------------
Start(r) ==
    \/ \E q \in StartRequest : StartLock(r, q)
    \/ StartDeny(r) \/ StartAdmit(r) \/ RetireFor(r) \/ Construct(r)
    \/ ConstructFail(r) \/ Install(r) \/ StartAdditiveDone(r) \/ Connect(r)

Other(r) ==
    \/ \E q \in OtherRequest : Arrive(r, q)
    \/ ValidateCurrentClient(r) \/ CheckBackend(r) \/ StopLock(r)
    \/ SyncCollect(r) \/ SyncOne(r) \/ Ack(r)

Disconnect(p) ==
    DisconnectCancel(p) \/ DisconnectSnapshot(p) \/ ShutdownOne(p) \/ DisconnectReset(p)

KeepAliveTracker(r) == TrackerTick(r) \/ TrackerExit(r)

Next ==
    /\ pc[Main] # "exited"
    /\ \/ \E r \in Requests : Start(r) \/ Other(r) \/ KeepAliveTracker(r)
       \/ \E p \in Procs : Disconnect(p)
       \/ Clock
       \/ Signal

Spec == Init /\ [][Next]_vars

(* Go runs every goroutine that can run, time passes, and a select with    *)
(* two ready cases takes each of them sooner or later. Whether a request   *)
(* or a signal arrives is the outside world's choice.                      *)
RequestStep(r) ==
    /\ pc[Main] # "exited"
    /\ \/ StartDeny(r) \/ StartAdmit(r) \/ RetireFor(r) \/ Construct(r) \/ ConstructFail(r)
       \/ Install(r) \/ StartAdditiveDone(r) \/ Connect(r)
       \/ ValidateCurrentClient(r) \/ CheckBackend(r) \/ StopLock(r)
       \/ SyncCollect(r) \/ SyncOne(r) \/ Ack(r)

Fairness ==
    /\ \A r \in Requests : /\ WF_vars(RequestStep(r))
                           /\ WF_vars(pc[Main] # "exited" /\ TrackerTick(r))
                           /\ SF_vars(pc[Main] # "exited" /\ TrackerExit(r))
    /\ \A p \in Procs : WF_vars(pc[Main] # "exited" /\ Disconnect(p))
    /\ WF_vars(pc[Main] # "exited" /\ Clock)

FairSpec == Spec /\ Fairness
-----------------------------------------------------------------------------
(* Types of all the state above.                                           *)
TypeOK ==
    /\ backends \in [Keys -> Requests \cup {NoReq}]
    /\ clientIP \in Clients \cup {NoClient}
    /\ idle \in 0..MaxIdle
    /\ cancelFunc \in Requests \cup {NoReq}
    /\ cancelled \subseteq Requests
    /\ controlMu \in Requests \cup {NoReq}
    /\ req \in [Requests -> StartRequest \cup OtherRequest \cup {NoRequest}]
    /\ pc \in [Procs -> PCs]
    /\ todo \in [Procs -> SUBSET Requests]
    /\ additive \subseteq Requests
    /\ alive \subseteq Requests

(* While a client holds the node, every core in the node's map was started *)
(* by that client, whatever trackers and main disconnect in between. The   *)
(* only gap is a Start between installing its core and Connect, and it     *)
(* holds controlMu.                                                        *)
CoresBelongToClient ==
    clientIP # NoClient /\ (\A r \in Requests : pc[Req(r)] # "finish") =>
        \A k \in Keys : backends[k] # NoReq => req[backends[k]].ip = clientIP

(* A core in the map answers, or a Disconnect that is about to empty the   *)
(* map is under way: handlers never find a dead core on a settled node.    *)
TrackedCoreIsUp ==
    \A k \in Keys : backends[k] # NoReq /\ backends[k] \notin alive =>
        \E p \in Procs : pc[p] = "shutdown"

(* No core runs that the node has lost: it is in the map, on the list of a *)
(* process that will shut it down, or in the hands of the Start that has   *)
(* just constructed it.                                                    *)
NoLostCore ==
    \A c \in alive :
        \/ c \in Backend
        \/ \E p \in Procs : pc[p] \in {"shutdown", "retiring"} /\ c \in todo[p]
        \/ pc[Req(c)] = "install"

(* Two running cores never share a key: they would fight over one port and *)
(* one state directory, which is why retiring comes before launching.      *)
OneCorePerKey ==
    \A c, d \in alive : req[c].key = req[d].key => c = d

(* A node that has settled and serves has an owner: otherwise any client   *)
(* passes IsCurrentClient and no tracker watches the cores.                *)
ServingNodeHasOwner ==
    controlMu = NoReq /\ Backend # {} /\ pc[Main] = "serve" => clientIP # NoClient

(* When main has returned every core is down.                              *)
ExitStopsCores == pc[Main] = "exited" => alive = {}

(* A client that connected with a keep-alive and falls silent is           *)
(* disconnected.                                                           *)
SilentClientIsDisconnected ==
    \A r \in Requests :
        (cancelFunc = r /\ pc[Tracker(r)] = "wait")
            ~> (r \in cancelled \/ cancelFunc # r \/ pc[Main] = "exited")

(* Every request that was accepted returns, though Starts and Stops queue  *)
(* on controlMu and trackers disconnect at any time.                       *)
RequestsReturn ==
    \A r \in Requests :
        pc[Req(r)] # "new" ~> (pc[Req(r)] = "done" \/ pc[Main] = "exited")
=============================================================================
