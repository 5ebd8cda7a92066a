--------------------------- MODULE ControllerProofs ---------------------------
(***************************************************************************)
(* Proofs about Controller, for any number of requests, clients and cores. *)
(***************************************************************************)
EXTENDS Controller, TLAPS

(* A request that has started has said what it asks for.                   *)
ArrivedInv == \A r \in Requests : pc[Req(r)] # "new" => req[r] \in StartRequest \cup OtherRequest

(* Control handlers exclude each other, and only a Start is ever at the    *)
(* Start-only steps; a Start that disconnects is not an additive one.      *)
ControlInv ==
    \A r \in Requests :
        /\ pc[Req(r)] \in ControlPC => controlMu = r
        /\ pc[Req(r)] \in ControlPC \ DisconnectPC => req[r] \in StartRequest
        /\ pc[Req(r)] \in DisconnectPC /\ req[r].kind = "start" =>
              req[r] \in StartRequest /\ r \notin additive
        /\ pc[Req(r)] = "new" => r \notin additive
        /\ pc[Req(r)] \in {"client", "backend", "lock"} => req[r] \in OtherRequest

(* Only cores of requests that have come as far as installing are in the   *)
(* map.                                                                    *)
InstalledInv ==
    \A k \in Keys : backends[k] # NoReq =>
        /\ req[backends[k]] \in StartRequest
        /\ pc[Req(backends[k])] \in {"finish", "ack", "done"}

(* What a Start between its reset and its last step knows of the node: a   *)
(* plain one has it to itself, an additive one is still the owner's.       *)
StartInv ==
    \A r \in Requests : pc[Req(r)] \in {"retire", "retiring", "install", "finish"} =>
        IF r \in additive THEN clientIP \in {NoClient, req[r].ip}
                       ELSE \A k \in Keys : backends[k] \in {NoReq, r}

(* CoresBelongToClient, but for the core a Start has installed just now.   *)
OwnerInv ==
    clientIP # NoClient =>
        \A k \in Keys : backends[k] # NoReq =>
            req[backends[k]].ip = clientIP \/ pc[Req(backends[k])] = "finish"

Inv == ArrivedInv /\ ControlInv /\ InstalledInv /\ StartInv /\ OwnerInv
-----------------------------------------------------------------------------
(* Processes are told apart by their kind and their request.               *)
LEMMA ProcessNames ==
    /\ \A r \in Requests : Req(r) \in Procs /\ Tracker(r) \in Procs
    /\ Main \in Procs
    /\ \A r, s \in Requests : /\ Req(r) = Req(s) <=> r = s
                              /\ Tracker(r) = Tracker(s) <=> r = s
                              /\ Req(r) # Tracker(s)
    /\ \A r \in Requests : Req(r) # Main /\ Tracker(r) # Main
    /\ \A p \in Procs : \/ p = Main
                        \/ \E r \in Requests : p = Req(r)
                        \/ \E r \in Requests : p = Tracker(r)
  BY DEF Req, Tracker, Main, Procs

(* Where Disconnect returns to, for each kind of process.                  *)
LEMMA Returns ==
    /\ AfterDisconnect(Main) = "exited"
    /\ \A r \in Requests : AfterDisconnect(Tracker(r)) = "wait"
    /\ \A r \in Requests : AfterDisconnect(Req(r)) =
                               IF req[r].kind = "start" THEN "retire" ELSE "ack"
  BY DEF AfterDisconnect, Main, Tracker, Req
-----------------------------------------------------------------------------
(* Every step keeps the types.                                             *)
LEMMA TypeStep == TypeOK /\ ArrivedInv /\ ControlInv /\ [Next]_vars => TypeOK'
<1> SUFFICES ASSUME TypeOK, ArrivedInv, ControlInv, [Next]_vars PROVE TypeOK'
  OBVIOUS
<1> USE ControllerAssumption, ProcessNames
<1> USE DEF TypeOK, Goto, PCs, ControlPC, DisconnectPC, Backend, Release
<1>1. ASSUME NEW r \in Requests, Start(r) PROVE TypeOK'
  <2>1. ASSUME NEW q \in StartRequest, StartLock(r, q) PROVE TypeOK'
    BY <2>1 DEF StartLock
  <2>2. CASE StartDeny(r) BY <2>2 DEF StartDeny
  <2>3. CASE StartAdmit(r) BY <2>3 DEF StartAdmit
  <2>4. CASE RetireFor(r)
    <3>1. req[r].key \in Keys
      BY <2>4 DEF RetireFor, ControlInv, StartRequest
    <3>2. \A S \in SUBSET Keys : {backends[k] : k \in S} \ {NoReq} \subseteq Requests
      OBVIOUS
    <3> QED BY <2>4, <3>1, <3>2 DEF RetireFor, Retired
  <2>5. CASE Construct(r) BY <2>5 DEF Construct
  <2>6. CASE ConstructFail(r) BY <2>6 DEF ConstructFail
  <2>7. CASE Install(r) BY <2>7 DEF Install
  <2>8. CASE StartAdditiveDone(r) BY <2>8 DEF StartAdditiveDone
  <2>9. CASE Connect(r)
    <3>1. req[r].ip \in Clients
      BY <2>9 DEF Connect, ControlInv, StartRequest
    <3> QED BY <2>9, <3>1 DEF Connect
  <2> QED BY <1>1, <2>1, <2>2, <2>3, <2>4, <2>5, <2>6, <2>7, <2>8, <2>9 DEF Start
<1>2. ASSUME NEW r \in Requests, Other(r) PROVE TypeOK'
  <2>1. ASSUME NEW q \in OtherRequest, Arrive(r, q) PROVE TypeOK'
    BY <2>1 DEF Arrive
  <2>2. CASE ValidateCurrentClient(r) BY <2>2 DEF ValidateCurrentClient
  <2>3. CASE CheckBackend(r) BY <2>3 DEF CheckBackend
  <2>4. CASE StopLock(r) BY <2>4 DEF StopLock
  <2>5. CASE SyncCollect(r) BY <2>5 DEF SyncCollect
  <2>6. CASE SyncOne(r)
    <3>1. req[r].ip \in Clients
      BY <2>6 DEF SyncOne, ArrivedInv, StartRequest, OtherRequest
    <3> QED BY <2>6, <3>1 DEF SyncOne
  <2>7. CASE Ack(r) BY <2>7 DEF Ack
  <2> QED BY <1>2, <2>1, <2>2, <2>3, <2>4, <2>5, <2>6, <2>7 DEF Other
<1>3. ASSUME NEW r \in Requests, KeepAliveTracker(r) PROVE TypeOK'
  BY <1>3 DEF KeepAliveTracker, TrackerTick, TrackerExit
<1>4. ASSUME NEW p \in Procs, Disconnect(p) PROVE TypeOK'
  <2>1. CASE DisconnectCancel(p) BY <2>1 DEF DisconnectCancel
  <2>2. CASE DisconnectSnapshot(p) BY <2>2 DEF DisconnectSnapshot
  <2>3. CASE ShutdownOne(p) BY <2>3 DEF ShutdownOne
  <2>4. CASE DisconnectReset(p) BY <2>4 DEF DisconnectReset, AfterDisconnect
  <2> QED BY <1>4, <2>1, <2>2, <2>3, <2>4 DEF Disconnect
<1>5. CASE Clock BY <1>5 DEF Clock
<1>6. CASE Signal BY <1>6 DEF Signal
<1>7. CASE UNCHANGED vars BY <1>7 DEF vars
<1> QED BY <1>1, <1>2, <1>3, <1>4, <1>5, <1>6, <1>7 DEF Next

(* Every step keeps Inv. Most actions move one process and leave the node  *)
(* alone; the four that write backends or clientIP carry the argument.     *)
LEMMA InvStep == TypeOK /\ Inv /\ [Next]_vars => Inv'
<1> SUFFICES ASSUME TypeOK, Inv, [Next]_vars PROVE Inv'
  OBVIOUS
<1> USE ControllerAssumption, ProcessNames
<1> USE DEF TypeOK, Inv, ArrivedInv, ControlInv, InstalledInv, StartInv, OwnerInv,
            Goto, ControlPC, DisconnectPC, Release
<1>1. ASSUME NEW r \in Requests, Start(r) PROVE Inv'
  <2>1. ASSUME NEW q \in StartRequest, StartLock(r, q) PROVE Inv'
    <3>1. \A s \in Requests : pc[Req(s)] \notin ControlPC
      BY <2>1 DEF StartLock
    <3>2. \A k \in Keys : backends[k] # r
      BY <2>1 DEF StartLock
    <3>3. ASSUME Backend = {}, NEW k \in Keys PROVE backends[k] = NoReq
      <4>1. backends[k] # NoReq => backends[k] \in Backend
        BY DEF Backend
      <4> QED BY <3>3, <4>1
    <3>4. ArrivedInv' /\ ControlInv'
      <4>1. req' = [req EXCEPT ![r] = q] /\ controlMu' = r
        BY <2>1 DEF StartLock
      <4>2. pc' = [pc EXCEPT ![Req(r)] = "check"] \/ pc' = [pc EXCEPT ![Req(r)] = "retire"]
        BY <2>1 DEF StartLock
      <4>3. \A s \in Requests : s # r => (s \in additive' <=> s \in additive)
        BY <2>1 DEF StartLock
      <4> QED BY <3>1, <4>1, <4>2, <4>3
    <3>5. InstalledInv' /\ OwnerInv'
      BY <2>1, <3>2 DEF StartLock
    <3>6. StartInv'
      <4>1. ASSUME NEW s \in Requests, pc'[Req(s)] \in {"retire", "retiring", "install", "finish"}
            PROVE  s = r /\ Backend = {}
        BY <2>1, <3>1, <4>1 DEF StartLock
      <4>2. Backend = {} => r \notin additive'
        BY <2>1 DEF StartLock, Additive
      <4>3. backends' = backends
        BY <2>1 DEF StartLock
      <4> QED BY <3>3, <4>1, <4>2, <4>3
    <3> QED BY <3>4, <3>5, <3>6
  <2>2. CASE StartDeny(r) BY <2>2 DEF StartDeny
  <2>3. CASE StartAdmit(r) BY <2>3 DEF StartAdmit, IsCurrentClient, StartRequest
  <2>4. CASE RetireFor(r) BY <2>4 DEF RetireFor
  <2>5. CASE Construct(r) BY <2>5 DEF Construct
  <2>6. CASE ConstructFail(r) BY <2>6 DEF ConstructFail
  <2>7. CASE Install(r) BY <2>7 DEF Install, StartRequest
  <2>8. CASE StartAdditiveDone(r) BY <2>8 DEF StartAdditiveDone
  <2>9. CASE Connect(r) BY <2>9 DEF Connect
  <2> QED BY <1>1, <2>1, <2>2, <2>3, <2>4, <2>5, <2>6, <2>7, <2>8, <2>9 DEF Start
<1>2. ASSUME NEW r \in Requests, Other(r) PROVE Inv'
  <2>1. ASSUME NEW q \in OtherRequest, Arrive(r, q) PROVE Inv'
    BY <2>1 DEF Arrive
  <2>2. CASE ValidateCurrentClient(r) BY <2>2 DEF ValidateCurrentClient
  <2>3. CASE CheckBackend(r) BY <2>3 DEF CheckBackend
  <2>4. CASE StopLock(r)
    <3>1. req[r].kind # "start"
      BY <2>4 DEF StopLock, OtherRequest
    <3>2. \A s \in Requests : pc[Req(s)] \notin ControlPC
      BY <2>4 DEF StopLock
    <3> QED BY <2>4, <3>1, <3>2 DEF StopLock
  <2>5. CASE SyncCollect(r) BY <2>5 DEF SyncCollect
  <2>6. CASE SyncOne(r) BY <2>6 DEF SyncOne
  <2>7. CASE Ack(r) BY <2>7 DEF Ack
  <2> QED BY <1>2, <2>1, <2>2, <2>3, <2>4, <2>5, <2>6, <2>7 DEF Other
<1>3. ASSUME NEW r \in Requests, KeepAliveTracker(r) PROVE Inv'
  BY <1>3 DEF KeepAliveTracker, TrackerTick, TrackerExit
<1>4. ASSUME NEW p \in Procs, Disconnect(p) PROVE Inv'
  <2>1. CASE DisconnectCancel(p) BY <2>1 DEF DisconnectCancel
  <2>2. CASE DisconnectSnapshot(p) BY <2>2 DEF DisconnectSnapshot
  <2>3. CASE ShutdownOne(p) BY <2>3 DEF ShutdownOne
  <2>4. CASE DisconnectReset(p) BY <2>4, Returns DEF DisconnectReset
  <2> QED BY <1>4, <2>1, <2>2, <2>3, <2>4 DEF Disconnect
<1>5. CASE Clock BY <1>5 DEF Clock
<1>6. CASE Signal BY <1>6 DEF Signal
<1>7. CASE UNCHANGED vars BY <1>7 DEF vars
<1> QED BY <1>1, <1>2, <1>3, <1>4, <1>5, <1>6, <1>7 DEF Next

(* The two together are inductive.                                         *)
THEOREM Invariance == Spec => [](TypeOK /\ Inv)
<1>1. Init => TypeOK /\ Inv
  BY ControllerAssumption, ProcessNames
     DEF Init, TypeOK, Inv, ArrivedInv, ControlInv, InstalledInv, StartInv, OwnerInv,
         PCs, ControlPC, DisconnectPC, Req
<1>2. TypeOK /\ Inv /\ [Next]_vars => (TypeOK /\ Inv)'
  BY TypeStep, InvStep DEF Inv
<1> QED BY <1>1, <1>2, PTL DEF Spec

(* The state keeps its types.                                              *)
THEOREM TypeCorrect == Spec => []TypeOK
BY Invariance, PTL

(* A client that holds the node owns every core in its map.                *)
THEOREM Ownership == Spec => []CoresBelongToClient
<1>1. TypeOK /\ Inv => CoresBelongToClient
  BY DEF TypeOK, Inv, OwnerInv, CoresBelongToClient
<1> QED BY <1>1, Invariance, PTL
-----------------------------------------------------------------------------
(***************************************************************************)
(* A core in the map is up, whatever trackers and main disconnect.         *)
(***************************************************************************)

(* A core is known by its key, it is up when it is installed, it is on a   *)
(* list only after it was in the map, and one that is being retired is in  *)
(* the map no more.                                                        *)
Installed(c) == req[c] \in StartRequest /\ pc[Req(c)] \in {"finish", "ack", "done"}

KeyInv == \A k \in Keys : backends[k] # NoReq => req[backends[k]].key = k
InstallInv ==
    \A r \in Requests :
        /\ pc[Req(r)] = "install" => r \in alive
        /\ pc[Req(r)] \in {"retiring", "install"} => backends[req[r].key] = NoReq
ListInv ==
    \A p \in Procs : pc[p] \in {"shutdown", "retiring"} =>
        /\ \A c \in todo[p] : Installed(c)
        /\ pc[p] = "retiring" => \A k \in Keys : backends[k] \notin todo[p]

(* The tracker of a connection begins when its Start connects.             *)
TrackerInv ==
    \A r \in Requests : /\ pc[Tracker(r)] \in {"none", "wait", "done"} \cup DisconnectPC
                        /\ pc[Req(r)] \notin {"ack", "done"} => pc[Tracker(r)] = "none"

UpInv == TrackerInv /\ KeyInv /\ InstallInv /\ ListInv /\ TrackedCoreIsUp

LEMMA UpStep == TypeOK /\ Inv /\ UpInv /\ [Next]_vars => UpInv'
<1> SUFFICES ASSUME TypeOK, Inv, UpInv, [Next]_vars PROVE UpInv'
  OBVIOUS
<1> USE ControllerAssumption, ProcessNames
<1> USE DEF TypeOK, Inv, ControlInv, InstalledInv, UpInv, TrackerInv, KeyInv, InstallInv, ListInv,
            Installed, TrackedCoreIsUp, Goto, ControlPC, DisconnectPC
<1>1. ASSUME NEW r \in Requests, Start(r) PROVE UpInv'
  <2>1. ASSUME NEW q \in StartRequest, StartLock(r, q) PROVE UpInv'
    BY <2>1 DEF StartLock
  <2>2. CASE StartDeny(r) BY <2>2 DEF StartDeny
  <2>3. CASE StartAdmit(r) BY <2>3 DEF StartAdmit
  <2>4. CASE RetireFor(r) BY <2>4 DEF RetireFor, Retired, StartRequest
  <2>5. CASE Construct(r) BY <2>5 DEF Construct
  <2>6. CASE ConstructFail(r) BY <2>6 DEF ConstructFail
  <2>7. CASE Install(r) BY <2>7 DEF Install, StartRequest
  <2>8. CASE StartAdditiveDone(r) BY <2>8 DEF StartAdditiveDone
  <2>9. CASE Connect(r) BY <2>9 DEF Connect
  <2> QED BY <1>1, <2>1, <2>2, <2>3, <2>4, <2>5, <2>6, <2>7, <2>8, <2>9 DEF Start
<1>2. ASSUME NEW r \in Requests, Other(r) PROVE UpInv'
  <2>1. ASSUME NEW q \in OtherRequest, Arrive(r, q) PROVE UpInv'
    BY <2>1 DEF Arrive
  <2>2. CASE ValidateCurrentClient(r) BY <2>2 DEF ValidateCurrentClient
  <2>3. CASE CheckBackend(r) BY <2>3 DEF CheckBackend
  <2>4. CASE StopLock(r) BY <2>4 DEF StopLock
  <2>5. CASE SyncCollect(r) BY <2>5 DEF SyncCollect
  <2>6. CASE SyncOne(r) BY <2>6 DEF SyncOne
  <2>7. CASE Ack(r) BY <2>7 DEF Ack
  <2> QED BY <1>2, <2>1, <2>2, <2>3, <2>4, <2>5, <2>6, <2>7 DEF Other
<1>3. ASSUME NEW r \in Requests, KeepAliveTracker(r) PROVE UpInv'
  BY <1>3 DEF KeepAliveTracker, TrackerTick, TrackerExit
<1>4. ASSUME NEW p \in Procs, Disconnect(p) PROVE UpInv'
  <2>1. CASE DisconnectCancel(p) BY <2>1 DEF DisconnectCancel
  <2>2. CASE DisconnectSnapshot(p) BY <2>2 DEF DisconnectSnapshot, Backend
  <2>3. CASE ShutdownOne(p) BY <2>3 DEF ShutdownOne
  <2>4. CASE DisconnectReset(p)
    <3>1. /\ pc[p] = "shutdown" /\ pc' = [pc EXCEPT ![p] = AfterDisconnect(p)]
          /\ \A k \in Keys : backends'[k] = NoReq
          /\ todo' = todo /\ req' = req /\ alive' = alive
      BY <2>4 DEF DisconnectReset
    <3>2. AfterDisconnect(p) \in {"exited", "wait", "retire", "ack"}
      BY Returns
    <3>3. \A r \in Requests : p = Tracker(r) => pc[Req(r)] \in {"ack", "done"}
      BY <3>1
    <3>4. \A q \in Procs : pc'[q] = IF q = p THEN AfterDisconnect(p) ELSE pc[q]
      BY <3>1
    <3>5. \A q \in Procs : /\ pc'[q] \in {"shutdown", "retiring", "install"} => pc'[q] = pc[q]
                           /\ pc[q] \in {"finish", "ack", "done"} => pc'[q] = pc[q]
      BY <3>1, <3>2, <3>4
    <3>6. TrackerInv'
      BY <3>1, <3>3, <3>4, Returns
    <3>7. KeyInv' /\ TrackedCoreIsUp'
      BY <3>1
    <3>8. InstallInv' /\ ListInv'
      <4>1. InstallInv'
        BY <3>1, <3>5 DEF StartRequest
      <4>2. ListInv'
        BY <3>1, <3>5
      <4> QED BY <4>1, <4>2
    <3> QED BY <3>6, <3>7, <3>8
  <2> QED BY <1>4, <2>1, <2>2, <2>3, <2>4 DEF Disconnect
<1>5. CASE Clock BY <1>5 DEF Clock
<1>6. CASE Signal BY <1>6 DEF Signal
<1>7. CASE UNCHANGED vars BY <1>7 DEF vars
<1> QED BY <1>1, <1>2, <1>3, <1>4, <1>5, <1>6, <1>7 DEF Next

(* UpInv is kept whatever trackers, Starts, Stops and main do.             *)
THEOREM UpInvariance == Spec => []UpInv
<1>1. Init => UpInv
  <2> SUFFICES ASSUME Init PROVE UpInv
    OBVIOUS
  <2>1. \A p \in Procs : pc[p] \notin {"shutdown", "retiring", "install"}
    BY DEF Init
  <2>2. \A r \in Requests : pc[Tracker(r)] = "none"
    BY ProcessNames DEF Init, Tracker
  <2>3. \A k \in Keys : backends[k] = NoReq
    BY DEF Init
  <2> QED BY <2>1, <2>2, <2>3, ProcessNames DEF UpInv, TrackerInv, KeyInv, InstallInv, ListInv,
                                              TrackedCoreIsUp
<1> QED BY <1>1, Invariance, UpStep, PTL DEF Spec

(* A core in the map is up, or a Disconnect that is about to empty the map *)
(* is under way, however many keep-alive trackers disconnect at once.      *)
THEOREM TrackedCores == Spec => []TrackedCoreIsUp
<1>1. UpInv => TrackedCoreIsUp
  BY DEF UpInv
<1> QED BY <1>1, UpInvariance, PTL
-----------------------------------------------------------------------------
(***************************************************************************)
(* The core life cycle, for as long as no keep-alive expires and main does *)
(* not run out of time while handlers are in flight.                       *)
(***************************************************************************)
NoTimeout == \A r \in Requests : pc[Tracker(r)] \notin DisconnectPC
Graceful == pc[Main] # "serve" => \A r \in Requests : pc[Req(r)] \in {"new", "done"}

(* The list of a Disconnect covers the cores of the map that are up.       *)
AliveInv == \A c \in alive : req[c] \in StartRequest /\ pc[Req(c)] # "new"
CoverInv == \A p \in Procs : pc[p] = "shutdown" => Backend \cap alive \subseteq todo[p]
CoreInv == AliveInv /\ CoverInv /\ NoLostCore /\ OneCorePerKey /\ ExitStopsCores

(* At most one process is at work on the map.                              *)
LEMMA Alone ==
    ASSUME Inv, UpInv, NoTimeout, Graceful, NEW p \in Procs, NEW q \in Procs,
           pc[p] \in ControlPC, pc[q] \in ControlPC
    PROVE  p = q
<1>1. \A r \in Requests : pc[Req(r)] \in ControlPC => controlMu = r
  BY DEF Inv, ControlInv
<1>2. \A r \in Requests : pc[Tracker(r)] \notin ControlPC
  BY DEF UpInv, TrackerInv, NoTimeout, ControlPC
<1>3. pc[Main] \in ControlPC => \A r \in Requests : pc[Req(r)] \notin ControlPC
  BY DEF Graceful, ControlPC, DisconnectPC
<1> QED BY <1>1, <1>2, <1>3, ProcessNames

LEMMA CoreStep ==
    ASSUME TypeOK, Inv, UpInv, CoreInv, NoTimeout, Graceful, [Next]_vars, UpInv'
    PROVE  CoreInv'
<1> USE ControllerAssumption, ProcessNames
<1> USE DEF TypeOK, CoreInv, AliveInv, CoverInv, NoLostCore, OneCorePerKey, ExitStopsCores,
            Backend, Goto, ControlPC, DisconnectPC
<1>1. ASSUME NEW r \in Requests, Start(r) PROVE CoreInv'
  <2>1. ASSUME NEW q \in StartRequest, StartLock(r, q) PROVE CoreInv'
    BY <2>1 DEF StartLock
  <2>2. CASE StartDeny(r) BY <2>2 DEF StartDeny
  <2>3. CASE StartAdmit(r) BY <2>3 DEF StartAdmit
  <2>4. CASE RetireFor(r) BY <2>4, Alone DEF RetireFor
  <2>5. CASE Construct(r)
    <3>1. \A c \in alive : req[c].key # req[r].key
      BY <2>5, Alone DEF Construct, UpInv, KeyInv, InstallInv
    <3>2. /\ pc[Req(r)] = "retiring" /\ todo[Req(r)] = {} /\ alive' = alive \cup {r}
          /\ pc' = [pc EXCEPT ![Req(r)] = "install"]
          /\ backends' = backends /\ req' = req /\ todo' = todo
      BY <2>5 DEF Construct
    <3>3. pc[Main] = "serve"
      BY <3>2 DEF Graceful
    <3>4. req[r] \in StartRequest
      BY <3>2 DEF Inv, ControlInv
    <3>5. \A p \in Procs : pc[p] # "shutdown" /\ pc'[p] # "shutdown"
      BY <3>2, Alone
    <3>6. NoLostCore'
      BY <3>2
    <3>7. OneCorePerKey'
      BY <3>1, <3>2
    <3> QED BY <3>2, <3>3, <3>4, <3>5, <3>6, <3>7
  <2>6. CASE ConstructFail(r) BY <2>6 DEF ConstructFail
  <2>7. CASE Install(r)
    <3>1. /\ pc[Req(r)] = "install" /\ pc' = [pc EXCEPT ![Req(r)] = "finish"]
          /\ backends' = [backends EXCEPT ![req[r].key] = r]
          /\ alive' = alive /\ req' = req /\ todo' = todo
      BY <2>7 DEF Install
    <3>2. req[r].key \in Keys /\ backends[req[r].key] = NoReq
      BY <3>1 DEF UpInv, InstallInv, Inv, ControlInv, StartRequest
    <3>3. \A c \in Backend : c \in Backend'
      BY <3>1, <3>2
    <3>4. r \in Backend'
      BY <3>1, <3>2
    <3>5. \A p \in Procs : pc[p] # "shutdown" /\ pc'[p] # "shutdown"
      BY <3>1, Alone
    <3>6. NoLostCore'
      <4> SUFFICES ASSUME NEW c \in alive, c \notin Backend'
                   PROVE  \/ \E p \in Procs : pc'[p] \in {"shutdown", "retiring"} /\ c \in todo'[p]
                          \/ pc'[Req(c)] = "install"
        BY <3>1
      <4>1. c # r /\ c \notin Backend
        BY <3>3, <3>4
      <4>2. CASE pc[Req(c)] = "install"
        BY <3>1, <4>1, <4>2
      <4>3. ASSUME NEW p \in Procs, pc[p] \in {"shutdown", "retiring"}, c \in todo[p]
            PROVE  pc'[p] \in {"shutdown", "retiring"} /\ c \in todo'[p]
        BY <3>1, <4>3
      <4> QED BY <4>1, <4>2, <4>3
    <3>7. AliveInv' /\ OneCorePerKey' /\ ExitStopsCores'
      BY <3>1
    <3> QED BY <3>5, <3>6, <3>7
  <2>8. CASE StartAdditiveDone(r) BY <2>8 DEF StartAdditiveDone
  <2>9. CASE Connect(r) BY <2>9 DEF Connect, UpInv, TrackerInv
  <2> QED BY <1>1, <2>1, <2>2, <2>3, <2>4, <2>5, <2>6, <2>7, <2>8, <2>9 DEF Start
<1>2. ASSUME NEW r \in Requests, Other(r) PROVE CoreInv'
  <2>1. ASSUME NEW q \in OtherRequest, Arrive(r, q) PROVE CoreInv'
    BY <2>1 DEF Arrive
  <2>2. CASE ValidateCurrentClient(r) BY <2>2 DEF ValidateCurrentClient
  <2>3. CASE CheckBackend(r) BY <2>3 DEF CheckBackend
  <2>4. CASE StopLock(r) BY <2>4 DEF StopLock
  <2>5. CASE SyncCollect(r) BY <2>5 DEF SyncCollect
  <2>6. CASE SyncOne(r) BY <2>6 DEF SyncOne
  <2>7. CASE Ack(r) BY <2>7 DEF Ack
  <2> QED BY <1>2, <2>1, <2>2, <2>3, <2>4, <2>5, <2>6, <2>7 DEF Other
<1>3. ASSUME NEW r \in Requests, KeepAliveTracker(r) PROVE CoreInv'
  BY <1>3 DEF KeepAliveTracker, TrackerTick, TrackerExit
<1>4. ASSUME NEW p \in Procs, Disconnect(p) PROVE CoreInv'
  <2>1. CASE DisconnectCancel(p) BY <2>1 DEF DisconnectCancel
  <2>2. CASE DisconnectSnapshot(p) BY <2>2 DEF DisconnectSnapshot
  <2>3. CASE ShutdownOne(p) BY <2>3 DEF ShutdownOne
  <2>4. CASE DisconnectReset(p) BY <2>4, Returns, Alone DEF DisconnectReset
  <2> QED BY <1>4, <2>1, <2>2, <2>3, <2>4 DEF Disconnect
<1>5. CASE Clock BY <1>5 DEF Clock
<1>6. CASE Signal BY <1>6 DEF Signal
<1>7. CASE UNCHANGED vars BY <1>7 DEF vars
<1> QED BY <1>1, <1>2, <1>3, <1>4, <1>5, <1>6, <1>7 DEF Next

(* CoreInv is kept while controlMu orders all work on the map.             *)
THEOREM CoreInvariance == Spec /\ []NoTimeout /\ []Graceful => []CoreInv
<1>1. Init => CoreInv
  BY DEF Init, CoreInv, AliveInv, CoverInv, NoLostCore, OneCorePerKey, ExitStopsCores
<1> QED BY <1>1, Invariance, UpInvariance, CoreStep, PTL DEF Spec

(* Without an owner, the map holds at most the core of a plain Start that  *)
(* is about to connect; an additive Start finds the owner it was admitted  *)
(* under.                                                                  *)
OwnedInv ==
    pc[Main] = "serve" =>
        /\ clientIP = NoClient => \A k \in Keys : backends[k] # NoReq =>
              pc[Req(backends[k])] = "finish" /\ backends[k] \notin additive
        /\ \A r \in additive :
              pc[Req(r)] \in {"check", "retire", "retiring", "install", "finish"} =>
                  clientIP # NoClient

LEMMA OwnedStep ==
    ASSUME TypeOK, Inv, UpInv, OwnedInv, NoTimeout, [Next]_vars
    PROVE  OwnedInv'
<1> USE ControllerAssumption, ProcessNames
<1> USE DEF TypeOK, OwnedInv, Inv, ControlInv, InstalledInv, Goto, ControlPC, DisconnectPC
<1>1. ASSUME NEW r \in Requests, Start(r) PROVE OwnedInv'
  <2>1. ASSUME NEW q \in StartRequest, StartLock(r, q) PROVE OwnedInv'
    <3>1. \A s \in Requests : pc[Req(s)] \notin ControlPC
      BY <2>1 DEF StartLock
    <3>2. Backend # {} => \E k \in Keys : backends[k] # NoReq
      BY DEF Backend
    <3>3. r \in additive' => Backend # {}
      BY <2>1 DEF StartLock, Additive
    <3>4. r \in additive' /\ pc[Main] = "serve" => clientIP # NoClient
      BY <3>1, <3>2, <3>3
    <3>5. \A k \in Keys : backends[k] # r
      BY <2>1 DEF StartLock
    <3>6. /\ \A s \in Requests : s # r => (s \in additive' <=> s \in additive)
          /\ \A s \in Requests : s # r => pc'[Req(s)] = pc[Req(s)]
          /\ pc'[Main] = pc[Main] /\ backends' = backends /\ clientIP' = clientIP
          /\ additive' \subseteq Requests
      BY <2>1 DEF StartLock
    <3> QED BY <3>1, <3>4, <3>5, <3>6
  <2>2. CASE StartDeny(r) BY <2>2 DEF StartDeny
  <2>3. CASE StartAdmit(r) BY <2>3 DEF StartAdmit
  <2>4. CASE RetireFor(r) BY <2>4 DEF RetireFor
  <2>5. CASE Construct(r) BY <2>5 DEF Construct
  <2>6. CASE ConstructFail(r) BY <2>6 DEF ConstructFail
  <2>7. CASE Install(r) BY <2>7 DEF Install
  <2>8. CASE StartAdditiveDone(r) BY <2>8 DEF StartAdditiveDone
  <2>9. CASE Connect(r)
    <3>1. req[r].ip # NoClient
      BY <2>9 DEF Connect, StartRequest
    <3> QED BY <2>9, <3>1 DEF Connect
  <2> QED BY <1>1, <2>1, <2>2, <2>3, <2>4, <2>5, <2>6, <2>7, <2>8, <2>9 DEF Start
<1>2. ASSUME NEW r \in Requests, Other(r) PROVE OwnedInv'
  <2>1. ASSUME NEW q \in OtherRequest, Arrive(r, q) PROVE OwnedInv'
    BY <2>1 DEF Arrive
  <2>2. CASE ValidateCurrentClient(r) BY <2>2 DEF ValidateCurrentClient
  <2>3. CASE CheckBackend(r) BY <2>3 DEF CheckBackend
  <2>4. CASE StopLock(r) BY <2>4 DEF StopLock
  <2>5. CASE SyncCollect(r) BY <2>5 DEF SyncCollect
  <2>6. CASE SyncOne(r) BY <2>6 DEF SyncOne
  <2>7. CASE Ack(r) BY <2>7 DEF Ack
  <2> QED BY <1>2, <2>1, <2>2, <2>3, <2>4, <2>5, <2>6, <2>7 DEF Other
<1>3. ASSUME NEW r \in Requests, KeepAliveTracker(r) PROVE OwnedInv'
  BY <1>3 DEF KeepAliveTracker, TrackerTick, TrackerExit
<1>4. ASSUME NEW p \in Procs, Disconnect(p) PROVE OwnedInv'
  <2>1. CASE DisconnectCancel(p) BY <2>1 DEF DisconnectCancel
  <2>2. CASE DisconnectSnapshot(p) BY <2>2 DEF DisconnectSnapshot
  <2>3. CASE ShutdownOne(p) BY <2>3 DEF ShutdownOne
  <2>4. CASE DisconnectReset(p) BY <2>4, Returns DEF DisconnectReset, NoTimeout
  <2> QED BY <1>4, <2>1, <2>2, <2>3, <2>4 DEF Disconnect
<1>5. CASE Clock BY <1>5 DEF Clock
<1>6. CASE Signal BY <1>6 DEF Signal
<1>7. CASE UNCHANGED vars BY <1>7 DEF vars
<1> QED BY <1>1, <1>2, <1>3, <1>4, <1>5, <1>6, <1>7 DEF Next

(* For as long as no keep-alive expires and main's shutdown waits for the  *)
(* handlers: no core is lost, so each one that runs is in the map, on the  *)
(* list of a process that shuts it down, or with the Start that made it.   *)
THEOREM NoCoreIsLost == Spec /\ []NoTimeout /\ []Graceful => []NoLostCore
<1>1. CoreInv => NoLostCore
  BY DEF CoreInv
<1> QED BY <1>1, CoreInvariance, PTL

(* Under the same conditions, retireFor and controlMu keep two cores of    *)
(* one key from running at once.                                           *)
THEOREM KeysAreExclusive == Spec /\ []NoTimeout /\ []Graceful => []OneCorePerKey
<1>1. CoreInv => OneCorePerKey
  BY DEF CoreInv
<1> QED BY <1>1, CoreInvariance, PTL

(* And when main returns, its Disconnect has shut down every core.         *)
THEOREM NothingOutlivesMain == Spec /\ []NoTimeout /\ []Graceful => []ExitStopsCores
<1>1. CoreInv => ExitStopsCores
  BY DEF CoreInv
<1> QED BY <1>1, CoreInvariance, PTL

(* For as long as no keep-alive expires, a settled node with cores has an  *)
(* owner, whatever additive and plain Starts and Stops follow each other,  *)
(* and however main ends.                                                  *)
THEOREM SettledNodeIsOwned == Spec /\ []NoTimeout => []ServingNodeHasOwner
<1>1. Init => OwnedInv
  BY DEF Init, OwnedInv
<1>2. TypeOK /\ Inv /\ OwnedInv => ServingNodeHasOwner
  BY ControllerAssumption, ProcessNames
     DEF TypeOK, Inv, ControlInv, OwnedInv, ServingNodeHasOwner, Backend, ControlPC
<1> QED BY <1>1, <1>2, Invariance, UpInvariance, OwnedStep, PTL DEF Spec

(* The conditions hold of a panel that sets no keep-alive and a server     *)
(* that stops gracefully.                                                  *)
THEOREM ConditionsAreMet ==
    KeepAlives = {0} /\ "forced" \notin ExitModes => (Spec => []NoTimeout /\ []Graceful)
<1> SUFFICES ASSUME KeepAlives = {0}, "forced" \notin ExitModes
             PROVE  Spec => []NoTimeout /\ []Graceful
  OBVIOUS
<1> DEFINE Untracked == \A r \in Requests : pc[Tracker(r)] = "none"
<1>1. Init => Untracked /\ Graceful
  <2>1. Init => \A r \in Requests : pc[Tracker(r)] = "none"
    BY ProcessNames DEF Init, Tracker
  <2>2. Init => pc[Main] = "serve"
    BY ProcessNames DEF Init, Main
  <2> QED BY <2>1, <2>2 DEF Graceful
<1>2. TypeOK /\ Inv /\ Untracked /\ Graceful /\ [Next]_vars => Untracked' /\ Graceful'
  <2> SUFFICES ASSUME TypeOK, Inv, Untracked, Graceful, [Next]_vars
               PROVE  Untracked' /\ Graceful'
    OBVIOUS
  <2> USE ProcessNames DEF TypeOK, Graceful, Goto
  <2>1. ASSUME NEW r \in Requests, Start(r) PROVE Untracked' /\ Graceful'
    <3>1. CASE Connect(r)
      <4>1. req[r].keepAlive = 0
        BY <3>1 DEF Connect, Inv, ControlInv, ControlPC, DisconnectPC, StartRequest
      <4> QED BY <3>1, <4>1 DEF Connect
    <3>2. CASE ~Connect(r)
      BY <2>1, <3>2 DEF Start, StartLock, StartDeny, StartAdmit, RetireFor, Construct,
                        ConstructFail, Install, StartAdditiveDone
    <3> QED BY <3>1, <3>2
  <2>2. ASSUME NEW r \in Requests, Other(r) PROVE Untracked' /\ Graceful'
    BY <2>2 DEF Other, Arrive, ValidateCurrentClient, CheckBackend, StopLock, SyncCollect,
                SyncOne, Ack
  <2>3. ASSUME NEW r \in Requests, KeepAliveTracker(r) PROVE Untracked' /\ Graceful'
    BY <2>3 DEF KeepAliveTracker, TrackerTick, TrackerExit
  <2>4. ASSUME NEW p \in Procs, Disconnect(p) PROVE Untracked' /\ Graceful'
    <3>1. pc' = pc \/ \E l : l # "serve" /\ pc[p] \in DisconnectPC /\ Goto(p, l)
      BY <2>4, Returns DEF Disconnect, DisconnectCancel, DisconnectSnapshot, ShutdownOne,
                           DisconnectReset, DisconnectPC
    <3> QED BY <3>1 DEF DisconnectPC
  <2>5. CASE Clock BY <2>5 DEF Clock
  <2>6. CASE Signal BY <2>6 DEF Signal
  <2>7. CASE UNCHANGED vars BY <2>7 DEF vars
  <2> QED BY <2>1, <2>2, <2>3, <2>4, <2>5, <2>6, <2>7 DEF Next
<1>3. Untracked => NoTimeout
  BY DEF NoTimeout, DisconnectPC
<1> QED BY <1>1, <1>2, <1>3, Invariance, PTL DEF Spec
=============================================================================
