------------------------- MODULE SingBoxProcessProofs -------------------------
(***************************************************************************)
(* Proofs about SingBoxProcess, for any number of launches and callers.    *)
(***************************************************************************)
EXTENDS SingBoxProcess, TLAPS

(* What the proof needs of the types: the domains.                         *)
Shape == DOMAIN watch = Launches /\ DOMAIN pc = Procs

(* A supervisor holds the flag from the decision to spawn it to its        *)
(* deferred release. OneSupervisor alone does not exclude a second one     *)
(* while the first is at work.                                             *)
FlagIsHeld == \A l \in Launches : Supervises(l) => supervising

(* A process has one watcher, which spawns at most once: a number is       *)
(* launched once and published once.                                       *)
Targets == {"idle", "failed", "done", "check", "renew", "stopped"}
Numbered ==
    /\ launches \in Nat
    /\ DOMAIN mine = Procs /\ then \in [Procs -> Targets]
    /\ \A l \in Launches : l > launches => watch[l] = "none"
    /\ \A p \in Procs : pc[p] = "publish" => mine[p] \in 1..launches /\ watch[mine[p]] = "none"
    /\ \A p, q \in Procs : pc[p] = "publish" /\ pc[q] = "publish" /\ mine[p] = mine[q] => p = q
SpawnedOnce == \A l \in Launches : watch[l] # "done" => pc[Supervisor(l)] = "idle"

Inv == Shape /\ OneSupervisor /\ FlagIsHeld /\ Numbered /\ SpawnedOnce
-----------------------------------------------------------------------------
(* Goroutines are told apart by what they run and for which process.       *)
LEMMA Goroutines ==
    /\ New \in Procs
    /\ \A l \in Launches : Supervisor(l) \in Procs /\ Supervisor(l) # New
                           /\ Supervisor(l)[1] # "call"
    /\ \A k, l \in Launches : Supervisor(k) = Supervisor(l) => k = l
BY DEF Procs, Supervisor, New

LEMMA Initially == Init => Inv
<1> SUFFICES ASSUME Init PROVE Inv
  OBVIOUS
<1>1. Shape
  BY DEF Init, Shape
<1>2. \A l \in Launches : watch[l] = "none" /\ pc[Supervisor(l)] = "idle"
  BY Goroutines DEF Init
<1>3. \A l \in Launches : ~Supervises(l)
  BY <1>2 DEF Supervises
<1>4. SpawnedOnce
  BY <1>2 DEF SpawnedOnce
<1>5. Numbered
  <2>1. \A p \in Procs : pc[p] # "publish"
    BY DEF Init
  <2>2. then \in [Procs -> Targets] /\ DOMAIN mine = Procs /\ launches \in Nat
    BY DEF Init, Targets
  <2> QED BY <1>2, <2>1, <2>2 DEF Numbered
<1> QED BY <1>1, <1>3, <1>4, <1>5 DEF Inv, OneSupervisor, FlagIsHeld

(* What most steps have in common: no supervisor begins, the flag and the  *)
(* watchers stay as they are, and no process is launched.                  *)
Quiet ==
    /\ DOMAIN pc' = Procs
    /\ \A q \in Procs : pc'[q] = "publish" => pc[q] = "publish"
    /\ \A l \in Launches : pc[Supervisor(l)] \in {"idle", "done"} =>
          pc'[Supervisor(l)] = pc[Supervisor(l)]
    /\ launches' = launches /\ watch' = watch /\ mine' = mine
    /\ then' \in [Procs -> Targets]
    /\ supervising' = supervising

LEMMA QuietStep ==
    ASSUME Inv, Quiet
    PROVE  Inv'
<1>1. Shape' /\ SpawnedOnce'
  BY DEF Inv, Quiet, Shape, SpawnedOnce
<1>2. Numbered'
  BY DEF Inv, Quiet, Numbered
<1>3. \A l \in Launches : Supervises(l)' => Supervises(l)
  BY DEF Quiet, Supervises
<1>4. OneSupervisor' /\ FlagIsHeld'
  BY <1>3 DEF Inv, Quiet, OneSupervisor, FlagIsHeld
<1> QED BY <1>1, <1>2, <1>4 DEF Inv

(* A step that moves one goroutine which has begun, and no more, is quiet. *)
LEMMA MoveIsQuiet ==
    ASSUME Inv, NEW p \in Procs, NEW label,
           pc[p] \notin {"idle", "done"} \/ p[1] = "call", Goto(p, label), label # "publish",
           launches' = launches, watch' = watch, mine' = mine,
           then' \in [Procs -> Targets], supervising' = supervising
    PROVE  Inv'
<1>1. \A l \in Launches : Supervisor(l) \in Procs /\ Supervisor(l)[1] # "call"
  BY Goroutines
<1>2. Quiet
  BY <1>1 DEF Quiet, Goto, Inv, Shape
<1> QED BY <1>2, QuietStep

(* A process is launched under a number that was never used.               *)
LEMMA LaunchStep ==
    ASSUME Inv, NEW p \in Procs, Launch(p)
    PROVE  Inv'
<1> USE Goroutines
<1>1. /\ pc[p] = "launch" /\ launches' = launches + 1 /\ launches < MaxLaunches
      /\ pc' = [pc EXCEPT ![p] = "publish"] /\ mine' = [mine EXCEPT ![p] = launches']
      /\ watch' = watch /\ supervising' = supervising /\ then' = then
  BY DEF Launch, Goto, structVars
<1>2. launches \in Nat /\ MaxLaunches \in Nat /\ launches' \in Launches
  BY <1>1, SingBoxProcessAssumption DEF Inv, Numbered, Launches
<1>3. Shape' /\ SpawnedOnce'
  BY <1>1 DEF Inv, Shape, SpawnedOnce
<1>4. watch[launches'] = "none"
  BY <1>1, <1>2 DEF Inv, Numbered
<1>5. \A q \in Procs : q # p => pc'[q] = pc[q] /\ mine'[q] = mine[q]
  BY <1>1 DEF Inv, Shape, Numbered
<1>6. pc'[p] = "publish" /\ mine'[p] = launches'
  BY <1>1 DEF Inv, Shape, Numbered
<1>7. \A q \in Procs : pc[q] = "publish" => mine[q] \in 1..launches /\ watch[mine[q]] = "none"
  BY DEF Inv, Numbered
<1>8. \A q \in Procs : pc'[q] = "publish" =>
          mine'[q] \in 1..launches' /\ watch'[mine'[q]] = "none"
  BY <1>1, <1>2, <1>4, <1>5, <1>6, <1>7
<1>9. \A q, r \in Procs : pc'[q] = "publish" /\ pc'[r] = "publish" /\ mine'[q] = mine'[r] => q = r
  <2> SUFFICES ASSUME NEW q \in Procs, NEW r \in Procs,
                      pc'[q] = "publish", pc'[r] = "publish", mine'[q] = mine'[r]
               PROVE  q = r
    OBVIOUS
  <2>1. CASE q # p /\ r # p
    BY <2>1, <1>5 DEF Inv, Numbered
  <2>2. CASE q = p /\ r # p
    BY <2>2, <1>1, <1>2, <1>5, <1>6, <1>7
  <2>3. CASE q # p /\ r = p
    BY <2>3, <1>1, <1>2, <1>5, <1>6, <1>7
  <2> QED BY <2>1, <2>2, <2>3
<1>10. \A l \in Launches : l > launches' => watch'[l] = "none"
  BY <1>1, <1>2, SingBoxProcessAssumption DEF Inv, Numbered, Launches
<1>11. Numbered'
  BY <1>1, <1>2, <1>8, <1>9, <1>10 DEF Inv, Numbered
<1>12. \A l \in Launches : Supervises(l)' => Supervises(l)
  BY <1>1 DEF Supervises, Inv, Shape
<1> QED BY <1>1, <1>3, <1>11, <1>12 DEF Inv, OneSupervisor, FlagIsHeld

(* The watcher of a published process starts: it never ran before.         *)
LEMMA PublishStep ==
    ASSUME Inv, NEW p \in Procs, Publish(p)
    PROVE  Inv'
<1> USE Goroutines
<1>1. /\ pc[p] = "publish" /\ launches' = launches
      /\ pc' = [pc EXCEPT ![p] = "ready"] /\ mine' = mine
      /\ watch' = [watch EXCEPT ![mine[p]] = "wait"]
      /\ supervising' = supervising /\ then' = then
  BY DEF Publish, Goto, localVars
<1>2. watch[mine[p]] = "none" /\ mine[p] \in 1..launches
  BY <1>1 DEF Inv, Numbered
<1>3. \A l \in Launches : watch'[l] = IF l = mine[p] THEN "wait" ELSE watch[l]
  BY <1>1 DEF Inv, Shape
<1>4. \A q \in Procs : pc'[q] = "publish" => q # p /\ pc[q] = "publish"
  BY <1>1 DEF Inv, Shape
<1>5. Shape'
  BY <1>1 DEF Inv, Shape
<1>6. \A l \in Launches : pc[Supervisor(l)] \in {"idle", "done"} =>
          pc'[Supervisor(l)] = pc[Supervisor(l)]
  BY <1>1 DEF Inv, Shape
<1>7. SpawnedOnce'
  BY <1>2, <1>3, <1>6 DEF Inv, SpawnedOnce
<1>8. \A q \in Procs : q # p /\ pc[q] = "publish" =>
          mine[q] \in 1..launches /\ mine[q] # mine[p] /\ watch[mine[q]] = "none"
  BY <1>1 DEF Inv, Numbered
<1>9. Numbered'
  <2>1. \A l \in Launches : l > launches => watch'[l] = "none"
    BY <1>2, <1>3 DEF Inv, Numbered
  <2>2. \A q \in Procs : q # p /\ pc[q] = "publish" => watch'[mine[q]] = "none"
    BY <1>1, <1>8 DEF Inv, Shape
  <2>3. \A q, r \in Procs : pc'[q] = "publish" /\ pc'[r] = "publish" /\ mine[q] = mine[r] => q = r
    BY <1>4 DEF Inv, Numbered
  <2> QED BY <1>1, <1>4, <1>8, <2>1, <2>2, <2>3 DEF Inv, Numbered
<1>10. \A l \in Launches : Supervises(l)' => Supervises(l)
  BY <1>3, <1>6 DEF Supervises
<1> QED BY <1>1, <1>5, <1>7, <1>9, <1>10 DEF Inv, OneSupervisor, FlagIsHeld

(* The other steps of start() move a goroutine that has begun.             *)
LEMMA StarterStep ==
    ASSUME Inv, NEW p \in Procs, Starter(p)
    PROVE  Inv'
<1>1. CASE Launch(p) \/ Publish(p)
  BY <1>1, LaunchStep, PublishStep
<1>2. CASE ~Launch(p) /\ ~Publish(p)
  <2> DEFINE Rest == LaunchFail(p) \/ ReadyOk(p) \/ ReadyFail(p) \/ SetStarted(p) \/ PushOk(p)
                     \/ PushFail(p)
  <2>1. Rest
    BY <1>2 DEF Starter
  <2>2. pc[p] \notin {"idle", "done"}
    BY <2>1 DEF LaunchFail, ReadyOk, ReadyFail, SetStarted, PushOk, PushFail
  <2>3. \E label : Goto(p, label) /\ label # "publish"
    BY <2>1 DEF LaunchFail, ReadyOk, ReadyFail, SetStarted, PushOk, PushFail, AfterStartError
  <2>4. launches' = launches /\ watch' = watch /\ mine' = mine /\ supervising' = supervising
    BY <2>1 DEF LaunchFail, ReadyOk, ReadyFail, SetStarted, PushOk, PushFail,
                processVars, structVars, localVars
  <2>5. then \in [Procs -> Targets]
    BY DEF Inv, Numbered
  <2>6. then' \in [Procs -> Targets]
    <3>1. CASE ReadyFail(p)
      BY <2>5, <3>1 DEF ReadyFail, AfterStartError, Targets
    <3>2. CASE PushFail(p)
      BY <2>5, <3>2 DEF PushFail, Targets
    <3>3. CASE ~ReadyFail(p) /\ ~PushFail(p)
      BY <2>1, <2>5, <3>3 DEF LaunchFail, ReadyOk, SetStarted, PushOk, localVars
    <3> QED BY <3>1, <3>2, <3>3
  <2> QED BY <2>2, <2>3, <2>4, <2>6, MoveIsQuiet
<1> QED BY <1>1, <1>2

(* So does a step of Shutdown, teardown or Restart, which may also wake a  *)
(* supervisor up.                                                          *)
LEMMA StopperStep ==
    ASSUME Inv, NEW p \in Procs, Stopper(p)
    PROVE  Inv'
<1>1. pc[p] \notin {"idle", "done"}
  BY DEF Stopper, Shutdown, Teardown, Kill, Await, Renew
<1>2. launches' = launches /\ watch' = watch /\ mine' = mine /\ then' = then
  BY DEF Stopper, Shutdown, Teardown, Kill, Await, Renew, processVars, localVars
<1>3. supervising' = supervising
  BY DEF Stopper, Shutdown, Teardown, Kill, Await, Renew, structVars
<1>4. then' \in [Procs -> Targets]
  BY <1>2 DEF Inv, Numbered
<1>5. CASE Shutdown(p)
  <2>1. /\ DOMAIN pc' = Procs
        /\ \A q \in Procs : /\ pc'[q] = "publish" => pc[q] = "publish"
                            /\ pc[q] \in {"idle", "done"} => pc'[q] = pc[q]
    BY <1>1, <1>5 DEF Shutdown, Woken, Inv, Shape
  <2>2. Quiet
    BY <1>2, <1>3, <1>4, <2>1, Goroutines DEF Quiet
  <2> QED BY <2>2, QuietStep
<1>6. CASE Teardown(p) \/ Kill(p) \/ Await(p) \/ Renew(p)
  <2>1. then[p] # "publish"
    BY DEF Inv, Numbered, Targets
  <2>2. \E label : Goto(p, label) /\ label # "publish"
    BY <1>6, <2>1 DEF Teardown, Kill, Await, Renew
  <2> QED BY <1>1, <1>2, <1>3, <1>4, <2>2, MoveIsQuiet
<1> QED BY <1>5, <1>6 DEF Stopper

(* Only goroutines of the controller call.                                 *)
LEMMA CallStep ==
    ASSUME Inv, NEW p \in Procs, NEW kind \in Calls, Call(p, kind)
    PROVE  Inv'
<1>1. /\ p[1] = "call" /\ Goto(p, "shutdown")
      /\ launches' = launches /\ watch' = watch /\ mine' = mine /\ supervising' = supervising
  BY DEF Call, processVars, structVars
<1>2. then' \in [Procs -> Targets]
  BY DEF Call, Inv, Numbered, Targets
<1> QED BY <1>1, <1>2, MoveIsQuiet

(* The watcher spawns only when the flag is free, and takes it.            *)
LEMMA WatchExitStep ==
    ASSUME Inv, NEW l \in Launches, WatchExit(l)
    PROVE  Inv'
<1>1. /\ watch[l] = "wait" /\ pc' = pc /\ launches' = launches /\ mine' = mine /\ then' = then
      /\ watch' = [watch EXCEPT ![l] = IF stopping \/ supervising THEN "close" ELSE "spawn"]
  BY DEF WatchExit, localVars
<1>2. \A k : k # l => watch'[k] = watch[k]
  BY <1>1 DEF Inv, Shape
<1>3. Shape' /\ SpawnedOnce'
  BY <1>1, <1>2 DEF Inv, Shape, SpawnedOnce
<1>4. Numbered'
  <2>1. \A q \in Procs : pc[q] = "publish" => mine[q] # l
    BY <1>1 DEF Inv, Numbered
  <2> QED BY <1>1, <1>2, <2>1 DEF Inv, Numbered
<1>5. CASE stopping \/ supervising
  <2>1. watch'[l] = "close"
    BY <1>1, <1>5 DEF Inv, Shape
  <2>2. supervising => supervising'
    BY DEF WatchExit
  <2>3. \A k \in Launches : Supervises(k)' => Supervises(k)
    BY <1>1, <1>2, <2>1 DEF Supervises
  <2> QED BY <1>3, <1>4, <2>2, <2>3 DEF Inv, OneSupervisor, FlagIsHeld
<1>6. CASE ~stopping /\ ~supervising
  <2>1. supervising'
    BY <1>6 DEF WatchExit
  <2>2. \A k \in Launches : k # l => ~Supervises(k)'
    BY <1>1, <1>2, <1>6 DEF Supervises, Inv, FlagIsHeld
  <2> QED BY <1>3, <1>4, <2>1, <2>2 DEF Inv, OneSupervisor, FlagIsHeld
<1> QED BY <1>5, <1>6

(* The supervisor it has promised begins.                                  *)
LEMMA WatchCloseStep ==
    ASSUME Inv, NEW l \in Launches, WatchClose(l)
    PROVE  Inv'
<1>1. /\ watch[l] \in {"close", "spawn"} /\ watch' = [watch EXCEPT ![l] = "done"]
      /\ launches' = launches /\ mine' = mine /\ then' = then /\ supervising' = supervising
      /\ pc' = IF watch[l] = "spawn" THEN [pc EXCEPT ![Supervisor(l)] = "check"] ELSE pc
  BY DEF WatchClose, Goto, localVars, structVars
<1>2. watch'[l] = "done" /\ \A k : k # l => watch'[k] = watch[k]
  BY <1>1 DEF Inv, Shape
<1>3. /\ DOMAIN pc' = Procs
      /\ \A k \in Launches : k # l => pc'[Supervisor(k)] = pc[Supervisor(k)]
      /\ \A q \in Procs : pc'[q] = "publish" => pc[q] = "publish"
  BY <1>1, Goroutines DEF Inv, Shape
<1>4. Shape' /\ SpawnedOnce'
  BY <1>1, <1>2, <1>3 DEF Inv, Shape, SpawnedOnce
<1>5. Numbered'
  <2>1. \A q \in Procs : pc[q] = "publish" => mine[q] # l
    BY <1>1 DEF Inv, Numbered
  <2> QED BY <1>1, <1>2, <1>3, <2>1 DEF Inv, Numbered
<1>6. \A k \in Launches : Supervises(k)' => Supervises(k)
  BY <1>1, <1>2, <1>3 DEF Supervises
<1> QED BY <1>1, <1>4, <1>5, <1>6 DEF Inv, OneSupervisor, FlagIsHeld

(* The supervisor that releases the flag was the only one.                 *)
LEMMA ReleaseStep ==
    ASSUME Inv, NEW l \in Launches, SupervisorRelease(l)
    PROVE  Inv'
<1>1. /\ pc[Supervisor(l)] = "release" /\ pc' = [pc EXCEPT ![Supervisor(l)] = "done"]
      /\ launches' = launches /\ watch' = watch /\ mine' = mine /\ then' = then
  BY DEF SupervisorRelease, Goto, processVars, localVars
<1>2. /\ DOMAIN pc' = Procs /\ pc'[Supervisor(l)] = "done"
      /\ \A k \in Launches : k # l => pc'[Supervisor(k)] = pc[Supervisor(k)]
      /\ \A q \in Procs : pc'[q] = "publish" => pc[q] = "publish"
  BY <1>1, Goroutines DEF Inv, Shape
<1>3. watch[l] = "done"
  BY <1>1 DEF Inv, SpawnedOnce
<1>4. Shape' /\ SpawnedOnce'
  BY <1>1, <1>2, <1>3 DEF Inv, Shape, SpawnedOnce
<1>5. Numbered'
  BY <1>1, <1>2 DEF Inv, Numbered
<1>6. \A k \in Launches : k # l => ~Supervises(k)
  BY <1>1 DEF Inv, OneSupervisor, Supervises
<1>7. \A k \in Launches : ~Supervises(k)'
  BY <1>1, <1>2, <1>3, <1>6 DEF Supervises
<1> QED BY <1>4, <1>5, <1>7 DEF Inv, OneSupervisor, FlagIsHeld

LEMMA SuperviseStep ==
    ASSUME Inv, NEW l \in Launches, Supervise(l)
    PROVE  Inv'
<1>1. CASE SupervisorCheck(l) \/ SupervisorStop(l) \/ SupervisorWake(l)
  <2>1. pc[Supervisor(l)] \notin {"idle", "done"}
    BY <1>1 DEF SupervisorCheck, SupervisorStop, SupervisorWake
  <2>2. \E label : Goto(Supervisor(l), label) /\ label # "publish"
    BY <1>1 DEF SupervisorCheck, SupervisorStop, SupervisorWake
  <2>3. /\ launches' = launches /\ watch' = watch /\ mine' = mine /\ then' = then
        /\ supervising' = supervising
    BY <1>1 DEF SupervisorCheck, SupervisorStop, SupervisorWake, processVars, structVars, localVars
  <2>4. then' \in [Procs -> Targets]
    BY <2>3 DEF Inv, Numbered
  <2> QED BY <2>1, <2>2, <2>3, <2>4, Goroutines, MoveIsQuiet
<1> QED BY <1>1, ReleaseStep DEF Supervise

(* The invariant, for every way the core is started, stopped and crashes.  *)
THEOREM Invariance == Spec => []Inv
<1>1. Init => Inv
  BY Initially
<1>2. Inv /\ [Next]_vars => Inv'
  <2> SUFFICES ASSUME Inv, [Next]_vars PROVE Inv'
    OBVIOUS
  <2>1. CASE UNCHANGED vars
    <3>1. /\ pc' = pc /\ launches' = launches /\ watch' = watch /\ mine' = mine /\ then' = then
          /\ supervising' = supervising
      BY <2>1 DEF vars, processVars, structVars, localVars
    <3>2. Quiet
      BY <3>1 DEF Quiet, Inv, Shape, Numbered
    <3> QED BY <3>2, QuietStep
  <2>2. ASSUME NEW p \in Procs, Starter(p) \/ Stopper(p) \/ \E kind \in Calls : Call(p, kind)
        PROVE  Inv'
    BY <2>2, StarterStep, StopperStep, CallStep
  <2>3. ASSUME NEW l \in Launches, Watcher(l) \/ Supervise(l)
        PROVE  Inv'
    BY <2>3, WatchExitStep, WatchCloseStep, SuperviseStep DEF Watcher
  <2>4. ASSUME NEW l \in Launches, Bind(l) \/ Exit(l)
        PROVE  Inv'
    <3>1. /\ pc' = pc /\ launches' = launches /\ watch' = watch /\ mine' = mine /\ then' = then
          /\ supervising' = supervising
      BY <2>4 DEF Bind, Exit, structVars, localVars
    <3>2. Quiet
      BY <3>1 DEF Quiet, Inv, Shape, Numbered
    <3> QED BY <3>2, QuietStep
  <2> QED BY <2>1, <2>2, <2>3, <2>4 DEF Next
<1> QED BY <1>1, <1>2, PTL DEF Spec

(* One supervisor at a time restarts the core, however many processes it   *)
(* launches, and whoever shuts the core down or restarts it meanwhile.     *)
THEOREM OneSupervisorAlways == Spec => []OneSupervisor
<1>1. Inv => OneSupervisor
  BY DEF Inv
<1> QED BY <1>1, Invariance, PTL
-----------------------------------------------------------------------------
(***************************************************************************)
(* No channel is closed twice.                                             *)
(***************************************************************************)

(* pushStop leaves the struct when it is closed, and a done channel is     *)
(* closed by the one watcher of its process, in its last step.             *)
ClosedOnce ==
    /\ pushStop # "closed"
    /\ closed \subseteq Launches
    /\ \A l \in closed : watch[l] = "done"
    /\ ~panicked

LEMMA ClosedOnceStep ==
    ASSUME Inv, ClosedOnce, [Next]_vars
    PROVE  ClosedOnce'
<1> USE DEF ClosedOnce
<1>1. CASE UNCHANGED vars
  BY <1>1 DEF vars, processVars, structVars
<1>2. ASSUME NEW p \in Procs, Starter(p)
      PROVE  ClosedOnce'
  <2>1. CASE Publish(p)
    <3>1. watch[mine[p]] = "none" /\ watch' = [watch EXCEPT ![mine[p]] = "wait"]
      BY <2>1 DEF Publish, Inv, Numbered
    <3>2. closed' = closed /\ pushStop' = pushStop /\ panicked' = panicked
      BY <2>1 DEF Publish
    <3> QED BY <3>1, <3>2 DEF Inv, Shape
  <2>2. CASE ~Publish(p)
    <3>1. watch' = watch /\ closed' = closed /\ pushStop' = pushStop /\ panicked' = panicked
      BY <1>2, <2>2 DEF Starter, Launch, LaunchFail, ReadyOk, ReadyFail, SetStarted, PushOk,
                        PushFail, processVars, structVars
    <3> QED BY <3>1
  <2> QED BY <2>1, <2>2
<1>3. ASSUME NEW p \in Procs, Stopper(p) \/ \E kind \in Calls : Call(p, kind)
      PROVE  ClosedOnce'
  <2>1. watch' = watch /\ closed' = closed
    BY <1>3 DEF Stopper, Shutdown, Teardown, Kill, Await, Renew, Call, processVars
  <2>2. pushStop' # "closed"
    BY <1>3 DEF Stopper, Shutdown, Teardown, Kill, Await, Renew, Call, structVars
  <2>3. CASE Shutdown(p)
    <3>1. panicked' = (panicked \/ pushStop = "closed")
      BY <2>3 DEF Shutdown
    <3> QED BY <2>1, <2>2, <3>1
  <2>4. CASE ~Shutdown(p)
    <3>1. panicked' = panicked
      BY <1>3, <2>4 DEF Stopper, Teardown, Kill, Await, Renew, Call
    <3> QED BY <2>1, <2>2, <3>1
  <2> QED BY <2>3, <2>4
<1>4. ASSUME NEW l \in Launches, Watcher(l)
      PROVE  ClosedOnce'
  <2>1. watch[l] # "done"
    BY <1>4 DEF Watcher, WatchExit, WatchClose
  <2>2. CASE WatchExit(l)
    BY <2>1, <2>2 DEF WatchExit, Inv, Shape
  <2>3. CASE WatchClose(l)
    BY <2>1, <2>3 DEF WatchClose, structVars, Inv, Shape
  <2> QED BY <1>4, <2>2, <2>3 DEF Watcher
<1>5. ASSUME NEW l \in Launches, Supervise(l) \/ Bind(l) \/ Exit(l)
      PROVE  ClosedOnce'
  <2>1. watch' = watch /\ closed' = closed /\ pushStop' = pushStop /\ panicked' = panicked
    BY <1>5 DEF Supervise, SupervisorCheck, SupervisorStop, SupervisorWake, SupervisorRelease,
                Bind, Exit, processVars, structVars
  <2> QED BY <2>1
<1> QED BY <1>1, <1>2, <1>3, <1>4, <1>5 DEF Next

(* Neither a done channel nor pushStop is closed twice, which would take   *)
(* the node down, whatever is started, crashes, is shut down and restarted *)
(* at the same time.                                                       *)
THEOREM NeverPanicsAlways == Spec => []NeverPanics
<1>1. Init => ClosedOnce
  BY DEF Init, ClosedOnce
<1>2. ClosedOnce => NeverPanics
  BY DEF ClosedOnce, NeverPanics
<1> QED BY <1>1, <1>2, Invariance, ClosedOnceStep, PTL DEF Spec
-----------------------------------------------------------------------------
(***************************************************************************)
(* A Shutdown that has returned leaves nothing running.                    *)
(***************************************************************************)
Caller(p) == p[1] = "call"

(* Who teardown returns to, and that New hands the core out only when it   *)
(* has come up.                                                            *)
Control ==
    /\ DOMAIN await = Procs
    /\ pc[New] # "renew" /\ then[New] \in {"idle", "failed"}
    /\ pc[New] \in {"launch", "publish", "ready", "started", "push", "serving"} =>
          then[New] = "idle"
    /\ pc[New] \in {"shutdown", "teardown", "kill", "await"} => then[New] = "failed"
    /\ \A l \in Launches :
          /\ pc[Supervisor(l)] \in {"idle", "check", "sleep", "nap", "woken", "launch", "publish",
                                    "ready", "started", "push", "teardown", "kill", "await",
                                    "release", "done"}
          /\ pc[Supervisor(l)] \in {"teardown", "kill", "await"} => then[Supervisor(l)] = "check"
    /\ \A p \in Procs : Caller(p) =>
          /\ pc[p] = "idle" => then[p] = "idle"
          /\ pc[p] = "stopped" => then[p] = "stopped"
          /\ pc[p] # "idle" => pc[New] = "serving"

(* A process the watcher has seen the end of does not run.                 *)
Buried ==
    /\ launches <= MaxLaunches
    /\ alive \subseteq 1..launches
    /\ \A l \in Launches : watch[l] \in {"close", "spawn", "done"} => l \notin alive

(* The histories the property is about: New has not failed, no Restart was *)
(* called, and no teardown has given up waiting. None of the three can be  *)
(* undone, so what holds of these histories can be proved of them alone.   *)
Undisturbed ==
    /\ ~lingered
    /\ then[New] = "idle"
    /\ \A p \in Procs : Caller(p) => then[p] \in {"idle", "stopped"}

(* Then processes succeed one another: one is launched only when the       *)
(* watcher of the last is through, and what is published is the last.      *)
Succession ==
    /\ \A l \in Launches : l < launches => watch[l] = "done"
    /\ \A p \in Procs : pc[p] = "publish" => mine[p] = launches
    /\ launches # 0 /\ watch[launches] = "none" => \E p \in Procs : pc[p] = "publish"
    /\ launches # 0 /\ watch[launches] # "none" => waitDone = launches
    /\ pc[New] = "launch" => launches = 0
    /\ \A l \in Launches :
          /\ pc[Supervisor(l)] \in {"check", "sleep", "nap", "woken", "launch"} =>
                launches # 0 /\ watch[launches] = "done"
          /\ pc[Supervisor(l)] \in {"ready", "started", "push", "teardown", "kill", "await"} =>
                launches # 0 /\ watch[launches] # "none"
          /\ pc[Supervisor(l)] \in {"kill", "await"} => await[Supervisor(l)] = launches
    /\ \A p \in Procs : Caller(p) =>
          pc[p] \in {"idle", "shutdown", "teardown", "kill", "await", "stopped"}

(* And a core that is to stop has a Shutdown that waits for the process on *)
(* the struct, or is about to.                                             *)
Waits(p) == pc[p] = "teardown" \/ (pc[p] \in {"kill", "await"} /\ await[p] = waitDone)
Waited ==
    stopping /\ waitDone \notin closed \cup {0} => \E p \in Procs : Caller(p) /\ Waits(p)

DownInv == Control /\ Buried /\ (Undisturbed => Succession /\ Waited)

LEMMA Kinds ==
    /\ New \in Procs /\ ~Caller(New) /\ New[1] # "call"
    /\ \A l \in Launches : Supervisor(l) \in Procs /\ Supervisor(l) # New /\ ~Caller(Supervisor(l))
    /\ \A k, l \in Launches : Supervisor(k) = Supervisor(l) => k = l
    /\ \A p \in Procs : p = New \/ Caller(p) \/ \E l \in Launches : p = Supervisor(l)
BY DEF Procs, Supervisor, New, Caller

LEMMA GotoMoves ==
    ASSUME Inv, NEW p \in Procs, NEW label, Goto(p, label)
    PROVE  \A q \in Procs : pc'[q] = IF q = p THEN label ELSE pc[q]
BY DEF Goto, Inv, Shape

(* One goroutine moves, or, in Shutdown, one moves and a sleeper wakes up. *)
LEMMA ControlStep ==
    ASSUME Inv, Control, [Next]_vars
    PROVE  Control'
<1> USE Kinds
<1>1. CASE UNCHANGED vars
  BY <1>1 DEF vars, localVars, Control
<1>2. ASSUME NEW p \in Procs, Starter(p)
      PROVE  Control'
  <2>1. PICK label : Goto(p, label)
    BY <1>2 DEF Starter, Launch, LaunchFail, Publish, ReadyOk, ReadyFail, SetStarted, PushOk,
                PushFail
  <2>2. \A q \in Procs : pc'[q] = IF q = p THEN label ELSE pc[q]
    BY <2>1, GotoMoves
  <2>3. pc[p] \in {"launch", "publish", "ready", "started", "push"}
    BY <1>2 DEF Starter, Launch, LaunchFail, Publish, ReadyOk, ReadyFail, SetStarted, PushOk,
                PushFail
  <2>4. await' = await
    BY <1>2 DEF Starter, Launch, LaunchFail, Publish, ReadyOk, ReadyFail, SetStarted, PushOk,
                PushFail, localVars
  <2>5. CASE Launch(p) \/ Publish(p) \/ ReadyOk(p) \/ SetStarted(p)
    <3>1. then' = then /\ pc'[p] \in {"publish", "ready", "started", "push"}
      BY <2>5, Kinds DEF Launch, Publish, ReadyOk, SetStarted, localVars, Goto, Inv, Shape
    <3> QED BY <2>2, <2>3, <2>4, <3>1 DEF Control
  <2>6. CASE LaunchFail(p)
    <3>1. then' = then /\ pc'[p] = AfterStartError(p)
      BY <2>6 DEF LaunchFail, localVars, Goto, Inv, Shape
    <3> QED BY <2>2, <2>3, <2>4, <3>1 DEF Control, AfterStartError, Caller
  <2>7. CASE ReadyFail(p)
    <3>1. then' = [then EXCEPT ![p] = AfterStartError(p)] /\ pc'[p] = "teardown"
      BY <2>7 DEF ReadyFail, Goto, Inv, Shape
    <3>2. \A q \in Procs : then'[q] = IF q = p THEN AfterStartError(p) ELSE then[q]
      BY <3>1 DEF Inv, Numbered
    <3> QED BY <2>2, <2>3, <2>4, <3>1, <3>2 DEF Control, AfterStartError, Caller
  <2>8. CASE PushOk(p)
    <3>1. /\ then' = then
          /\ pc'[p] = IF p = New THEN "serving" ELSE IF p[1] = "call" THEN "done" ELSE "release"
      BY <2>8 DEF PushOk, localVars, Goto, Inv, Shape
    <3> QED BY <2>2, <2>3, <2>4, <3>1 DEF Control, Caller
  <2>9. CASE PushFail(p)
    <3>1. /\ then' = [then EXCEPT ![p] = IF p = New THEN "failed" ELSE @]
          /\ pc'[p] = IF p = New THEN "shutdown" ELSE IF p[1] = "call" THEN "done" ELSE "release"
      BY <2>9 DEF PushFail, Goto, Inv, Shape
    <3>2. \A q \in Procs : then'[q] = IF q = p /\ p = New THEN "failed" ELSE then[q]
      BY <3>1 DEF Inv, Numbered
    <3> QED BY <2>2, <2>3, <2>4, <3>1, <3>2 DEF Control, Caller
  <2> QED BY <1>2, <2>5, <2>6, <2>7, <2>8, <2>9 DEF Starter
<1>3. ASSUME NEW p \in Procs, Stopper(p)
      PROVE  Control'
  <2>1. then' = then /\ DOMAIN await' = Procs
    BY <1>3 DEF Stopper, Shutdown, Teardown, Kill, Await, Renew, localVars, Control
  <2>2. CASE Shutdown(p)
    <3>1. \A q \in Procs : pc'[q] = IF q = p THEN "teardown"
                                    ELSE IF pc[q] = "sleep" THEN "woken" ELSE pc[q]
      BY <2>2 DEF Shutdown, Woken
    <3>2. pc[p] = "shutdown"
      BY <2>2 DEF Shutdown
    <3> QED BY <2>1, <3>1, <3>2 DEF Control
  <2>3. CASE Teardown(p) \/ Kill(p)
    <3>1. PICK label \in {"kill", "await"} : Goto(p, label)
      BY <2>3 DEF Teardown, Kill
    <3>2. pc[p] \in {"teardown", "kill"}
      BY <2>3 DEF Teardown, Kill
    <3> QED BY <2>1, <3>1, <3>2, GotoMoves DEF Control
  <2>4. CASE Await(p)
    <3>1. pc[p] = "await" /\ Goto(p, then[p])
      BY <2>4 DEF Await
    <3>2. then[p] \in Targets
      BY DEF Inv, Numbered
    <3>3. \A q \in Procs : pc'[q] = IF q = p THEN then[p] ELSE pc[q]
      BY <3>1, GotoMoves
    <3> QED BY <2>1, <3>1, <3>2, <3>3 DEF Control, Targets
  <2>5. CASE Renew(p)
    <3>1. pc[p] = "renew" /\ Goto(p, "launch")
      BY <2>5 DEF Renew
    <3>2. \A q \in Procs : pc'[q] = IF q = p THEN "launch" ELSE pc[q]
      BY <3>1, GotoMoves
    <3> QED BY <2>1, <3>1, <3>2 DEF Control
  <2> QED BY <1>3, <2>2, <2>3, <2>4, <2>5 DEF Stopper
<1>4. ASSUME NEW p \in Procs, NEW kind \in Calls, Call(p, kind)
      PROVE  Control'
  <2>1. Caller(p) /\ pc[p] = "idle" /\ pc[New] = "serving" /\ Goto(p, "shutdown") /\ await' = await
    BY <1>4 DEF Call, Caller
  <2>2. \A q \in Procs : pc'[q] = IF q = p THEN "shutdown" ELSE pc[q]
    BY <2>1, GotoMoves
  <2>3. \A q \in Procs : q # p => then'[q] = then[q]
    BY <1>4 DEF Call, Inv, Numbered
  <2> QED BY <2>1, <2>2, <2>3 DEF Control
<1>5. ASSUME NEW l \in Launches, Watcher(l)
      PROVE  Control'
  <2>1. then' = then /\ await' = await
    BY <1>5 DEF Watcher, WatchExit, WatchClose, localVars
  <2>2. \A q \in Procs : pc'[q] = pc[q] \/ (q = Supervisor(l) /\ pc'[q] = "check")
    <3>1. pc' = pc \/ Goto(Supervisor(l), "check")
      BY <1>5 DEF Watcher, WatchExit, WatchClose
    <3> QED BY <3>1, GotoMoves
  <2> QED BY <2>1, <2>2 DEF Control
<1>6. ASSUME NEW l \in Launches, Supervise(l)
      PROVE  Control'
  <2>1. then' = then /\ await' = await
    BY <1>6 DEF Supervise, SupervisorCheck, SupervisorStop, SupervisorWake, SupervisorRelease,
                localVars
  <2>2. PICK label \in {"sleep", "nap", "release", "launch", "done"} : Goto(Supervisor(l), label)
    BY <1>6 DEF Supervise, SupervisorCheck, SupervisorStop, SupervisorWake, SupervisorRelease
  <2>3. \A q \in Procs : pc'[q] = IF q = Supervisor(l) THEN label ELSE pc[q]
    BY <2>2, GotoMoves
  <2> QED BY <2>1, <2>2, <2>3 DEF Control
<1>7. ASSUME NEW l \in Launches, Bind(l) \/ Exit(l)
      PROVE  Control'
  BY <1>7 DEF Bind, Exit, localVars, Control
<1> QED BY <1>1, <1>2, <1>3, <1>4, <1>5, <1>6, <1>7 DEF Next

LEMMA BuriedStep ==
    ASSUME Inv, Buried, [Next]_vars
    PROVE  Buried'
<1> USE DEF Buried
<1>1. CASE UNCHANGED vars
  BY <1>1 DEF vars, processVars
<1>2. ASSUME NEW p \in Procs, Starter(p)
      PROVE  Buried'
  <2>1. CASE Launch(p)
    <3>1. /\ launches' = launches + 1 /\ launches < MaxLaunches /\ watch' = watch
          /\ alive' = alive \cup {launches'}
      BY <2>1 DEF Launch
    <3>2. launches \in Nat /\ MaxLaunches \in Nat /\ launches' \in Launches
      BY <3>1, SingBoxProcessAssumption DEF Inv, Numbered, Launches
    <3>3. watch[launches'] = "none"
      BY <3>1, <3>2 DEF Inv, Numbered
    <3> QED BY <3>1, <3>2, <3>3
  <2>2. CASE Publish(p)
    BY <2>2 DEF Publish, Inv, Shape
  <2>3. CASE ~Launch(p) /\ ~Publish(p)
    <3>1. launches' = launches /\ alive' = alive /\ watch' = watch
      BY <1>2, <2>3 DEF Starter, LaunchFail, ReadyOk, ReadyFail, SetStarted, PushOk, PushFail,
                        processVars
    <3> QED BY <3>1
  <2> QED BY <2>1, <2>2, <2>3
<1>3. ASSUME NEW p \in Procs, Stopper(p) \/ \E kind \in Calls : Call(p, kind)
      PROVE  Buried'
  <2>1. launches' = launches /\ alive' = alive /\ watch' = watch
    BY <1>3 DEF Stopper, Shutdown, Teardown, Kill, Await, Renew, Call, processVars
  <2> QED BY <2>1
<1>4. ASSUME NEW l \in Launches, Watcher(l)
      PROVE  Buried'
  <2>1. launches' = launches /\ alive' = alive /\ l \notin alive
    BY <1>4 DEF Watcher, WatchExit, WatchClose
  <2>2. \A k \in Launches : k # l => watch'[k] = watch[k]
    BY <1>4 DEF Watcher, WatchExit, WatchClose, Inv, Shape
  <2> QED BY <2>1, <2>2
<1>5. ASSUME NEW l \in Launches, Supervise(l) \/ Bind(l) \/ Exit(l)
      PROVE  Buried'
  <2>1. launches' = launches /\ alive' \subseteq alive /\ watch' = watch
    BY <1>5 DEF Supervise, SupervisorCheck, SupervisorStop, SupervisorWake, SupervisorRelease,
                Bind, Exit, processVars
  <2> QED BY <2>1
<1> QED BY <1>1, <1>2, <1>3, <1>4, <1>5 DEF Next

(* A history that is undisturbed was undisturbed before.                   *)
LEMMA UndisturbedBefore ==
    ASSUME Inv, Control, [Next]_vars, Undisturbed'
    PROVE  Undisturbed
<1> USE Kinds
<1>1. lingered => lingered'
  BY DEF Next, vars, processVars, structVars, localVars, Starter, Launch, LaunchFail, Publish, ReadyOk,
         ReadyFail, SetStarted, PushOk, PushFail, Stopper, Shutdown, Teardown, Kill, Await, Renew,
         Call, Watcher, WatchExit, WatchClose, Supervise, SupervisorCheck, SupervisorStop,
         SupervisorWake, SupervisorRelease, Bind, Exit
<1>2. then' = then \/ \E p \in Procs : ReadyFail(p) \/ PushFail(p) \/ \E kind \in Calls : Call(p, kind)
  BY DEF Next, vars, localVars, Starter, Launch, LaunchFail, Publish, ReadyOk,
         SetStarted, PushOk, Stopper, Shutdown, Teardown, Kill, Await, Renew,
         Watcher, WatchExit, WatchClose, Supervise, SupervisorCheck, SupervisorStop,
         SupervisorWake, SupervisorRelease, Bind, Exit
<1>3. CASE then' = then
  BY <1>1, <1>3 DEF Undisturbed
<1>4. ASSUME NEW p \in Procs, ReadyFail(p)
      PROVE  Undisturbed
  <2>1. \A q \in Procs : then'[q] = IF q = p THEN AfterStartError(p) ELSE then[q]
    BY <1>4 DEF ReadyFail, Inv, Numbered
  <2>2. p # New /\ ~Caller(p)
    BY <2>1 DEF AfterStartError, Undisturbed, Caller
  <2> QED BY <1>1, <2>1, <2>2 DEF Undisturbed
<1>5. ASSUME NEW p \in Procs, PushFail(p)
      PROVE  Undisturbed
  <2>1. \A q \in Procs : then'[q] = IF q = p /\ p = New THEN "failed" ELSE then[q]
    BY <1>5 DEF PushFail, Inv, Numbered
  <2> QED BY <1>1, <2>1 DEF Undisturbed
<1>6. ASSUME NEW p \in Procs, NEW kind \in Calls, Call(p, kind)
      PROVE  Undisturbed
  <2>1. Caller(p) /\ pc[p] = "idle" /\ then[p] = "idle"
    BY <1>6 DEF Call, Caller, Control
  <2>2. \A q \in Procs : q # p => then'[q] = then[q]
    BY <1>6 DEF Call, Inv, Numbered
  <2> QED BY <1>1, <2>1, <2>2 DEF Undisturbed
<1> QED BY <1>2, <1>3, <1>4, <1>5, <1>6

(* The steps that neither launch, publish nor watch.                       *)
Waiting == {"check", "sleep", "nap", "woken", "launch"}
Starting == {"ready", "started", "push", "teardown", "kill", "await"}
Stopping == {"idle", "shutdown", "teardown", "kill", "await", "stopped"}

LEMMA SuccessionMove ==
    ASSUME Succession, launches' = launches, watch' = watch, mine' = mine, waitDone' = waitDone,
           \A p \in Procs : pc'[p] = "publish" <=> pc[p] = "publish",
           pc'[New] = "launch" => pc[New] = "launch",
           \A l \in Launches : pc'[Supervisor(l)] \in Waiting =>
              pc[Supervisor(l)] \in Waiting \/ (launches # 0 /\ watch[launches] = "done"),
           \A l \in Launches : pc'[Supervisor(l)] \in Starting => pc[Supervisor(l)] \in Starting,
           \A l \in Launches : pc'[Supervisor(l)] \in {"kill", "await"} =>
              await'[Supervisor(l)] = launches,
           \A p \in Procs : Caller(p) => pc'[p] \in Stopping
    PROVE  Succession'
BY DEF Succession, Waiting, Starting, Stopping

LEMMA SuccessionStarter ==
    ASSUME Inv, Control, Buried, Undisturbed, Succession, Undisturbed',
           NEW p \in Procs, Starter(p)
    PROVE  Succession'
<1> USE Kinds
<1>1. pc[p] \in {"launch", "publish", "ready", "started", "push"}
  BY DEF Starter, Launch, LaunchFail, Publish, ReadyOk, ReadyFail, SetStarted, PushOk, PushFail
<1>2. ~Caller(p)
  BY <1>1 DEF Succession
<1>3. p = New \/ \E l \in Launches : p = Supervisor(l)
  BY <1>2
<1>4. CASE Launch(p)
  <2>1. /\ pc[p] = "launch" /\ launches' = launches + 1 /\ launches < MaxLaunches /\ watch' = watch
        /\ mine' = [mine EXCEPT ![p] = launches'] /\ waitDone' = waitDone /\ await' = await
        /\ Goto(p, "publish")
    BY <1>4 DEF Launch, structVars
  <2>2. \A q \in Procs : pc'[q] = IF q = p THEN "publish" ELSE pc[q]
    BY <2>1, GotoMoves
  <2>3. launches \in Nat /\ launches' \in Launches /\ launches' # 0
    BY <2>1, SingBoxProcessAssumption DEF Inv, Numbered, Launches
  <2>4. watch[launches'] = "none" /\ mine'[p] = launches'
    BY <2>1, <2>3 DEF Inv, Numbered
  <2>5. launches = 0 \/ watch[launches] = "done"
    BY <1>3, <2>1 DEF Succession
  <2>6. \A l \in Launches : Supervisor(l) # p => pc[Supervisor(l)] \in {"idle", "done"}
    <3>1. CASE p = New
      <4>1. launches = 0
        BY <2>1, <3>1 DEF Succession
      <4>2. \A l \in Launches : l > launches
        BY <4>1, SingBoxProcessAssumption DEF Launches
      <4> QED BY <4>2 DEF Inv, Numbered, SpawnedOnce
    <3>2. ASSUME NEW k \in Launches, p = Supervisor(k)
          PROVE  \A l \in Launches : Supervisor(l) # p => pc[Supervisor(l)] \in {"idle", "done"}
      BY <2>1, <3>2 DEF Inv, OneSupervisor, Supervises
    <3> QED BY <1>3, <3>1, <3>2
  <2>7. p # New => pc[New] \notin {"launch", "publish"}
    <3>1. ASSUME NEW k \in Launches, p = Supervisor(k)
          PROVE  pc[New] \notin {"launch", "publish"}
      <4>1. launches # 0 /\ watch[launches] = "done"
        BY <2>1, <3>1 DEF Succession
      <4>2. pc[New] # "launch"
        BY <4>1 DEF Succession
      <4>3. pc[New] # "publish"
        BY <4>1 DEF Succession, Inv, Numbered
      <4> QED BY <4>2, <4>3
    <3> QED BY <1>3, <3>1
  <2>8. \A l \in Launches : l < launches' => watch'[l] = "done"
    <3>1. \A l \in Launches : l < launches' => l < launches \/ l = launches
      BY <2>1, <2>3 DEF Launches
    <3>2. \A l \in Launches : l # 0
      BY SingBoxProcessAssumption DEF Launches
    <3> QED BY <2>1, <2>5, <3>1, <3>2 DEF Succession
  <2>9. \A q \in Procs : pc'[q] = "publish" => q = p
    <3>1. \A q \in Procs : pc[q] = "publish" /\ q # p => FALSE
      BY <2>6, <2>7, Kinds DEF Succession
    <3> QED BY <2>2, <3>1
  <2>10. p = New \/ pc'[New] # "launch"
    BY <2>2, <2>7
  <2>11. \A l \in Launches : pc'[Supervisor(l)] \in {"idle", "done", "publish"}
    BY <2>2, <2>6
  <2> QED BY <1>2, <2>1, <2>2, <2>3, <2>4, <2>8, <2>9, <2>10, <2>11 DEF Succession
<1>5. CASE Publish(p)
  <2>1. /\ pc[p] = "publish" /\ launches' = launches /\ mine' = mine /\ waitDone' = mine[p]
        /\ watch' = [watch EXCEPT ![mine[p]] = "wait"] /\ await' = await /\ Goto(p, "ready")
    BY <1>5 DEF Publish, localVars
  <2>2. \A q \in Procs : pc'[q] = IF q = p THEN "ready" ELSE pc[q]
    BY <2>1, GotoMoves
  <2>3. mine[p] = launches /\ launches # 0 /\ watch[launches] = "none" /\ launches \in Launches
    BY <2>1, SingBoxProcessAssumption DEF Succession, Inv, Numbered, Buried, Launches
  <2>4. \A l \in Launches : watch'[l] = IF l = launches THEN "wait" ELSE watch[l]
    BY <2>1, <2>3 DEF Inv, Shape
  <2>5. \A q \in Procs : pc'[q] # "publish"
    BY <2>1, <2>2, <2>3 DEF Succession, Inv, Numbered
  <2>6. \A l \in Launches : pc[Supervisor(l)] \notin Waiting \cup {"kill", "await"}
    <3>1. \A l \in Launches : pc[Supervisor(l)] \notin Waiting \cup Starting
      BY <2>3 DEF Succession, Waiting, Starting
    <3> QED BY <3>1 DEF Starting
  <2>7. \A l \in Launches : pc'[Supervisor(l)] \notin Waiting \cup {"kill", "await"}
    BY <2>2, <2>6 DEF Waiting
  <2>8. \A l \in Launches : l < launches => watch'[l] = "done"
    BY <2>3, <2>4 DEF Succession, Launches
  <2>9. waitDone' = launches /\ watch'[launches] = "wait"
    BY <2>1, <2>3, <2>4
  <2>10. pc'[New] # "launch"
    BY <2>2, <2>3 DEF Succession
  <2> QED BY <1>2, <2>1, <2>2, <2>3, <2>5, <2>7, <2>8, <2>9, <2>10 DEF Succession, Waiting
<1>6. CASE ~Launch(p) /\ ~Publish(p)
  <2>1. launches' = launches /\ watch' = watch /\ mine' = mine /\ waitDone' = waitDone /\ await' = await
    BY <1>6 DEF Starter, LaunchFail, ReadyOk, ReadyFail, SetStarted, PushOk, PushFail,
                processVars, structVars, localVars
  <2>2. PICK label : /\ Goto(p, label)
                     /\ label \in {"started", "push", "teardown", "failed", "serving", "shutdown",
                                   "release", "check"}
                     /\ label = "check" => pc[p] = "launch"
                     /\ label \in Starting => pc[p] \in Starting
    BY <1>2, <1>6 DEF Starter, LaunchFail, ReadyOk, ReadyFail, SetStarted, PushOk, PushFail,
                AfterStartError, Caller, Starting
  <2>3. \A q \in Procs : pc'[q] = IF q = p THEN label ELSE pc[q]
    BY <2>2, GotoMoves
  <2>4. pc[p] # "publish"
    BY <1>6 DEF Starter, LaunchFail, ReadyOk, ReadyFail, SetStarted, PushOk, PushFail
  <2>5. \A q \in Procs : pc'[q] = "publish" <=> pc[q] = "publish"
    BY <2>2, <2>3, <2>4
  <2>6. pc'[New] = "launch" => pc[New] = "launch"
    BY <2>2, <2>3
  <2>7. \A l \in Launches : pc'[Supervisor(l)] \in Waiting => pc[Supervisor(l)] \in Waiting
    BY <2>2, <2>3 DEF Waiting
  <2>8. \A l \in Launches : pc'[Supervisor(l)] \in Starting => pc[Supervisor(l)] \in Starting
    BY <2>2, <2>3
  <2>9. \A l \in Launches : pc'[Supervisor(l)] \in {"kill", "await"} =>
            await'[Supervisor(l)] = launches
    BY <2>1, <2>2, <2>3 DEF Succession
  <2>10. \A q \in Procs : Caller(q) => pc'[q] \in Stopping
    BY <1>2, <2>3 DEF Succession, Stopping
  <2> QED BY <2>1, <2>5, <2>6, <2>7, <2>8, <2>9, <2>10, SuccessionMove
<1> QED BY <1>4, <1>5, <1>6

LEMMA SuccessionStopper ==
    ASSUME Inv, ClosedOnce, Control, Buried, Undisturbed, Succession, Undisturbed',
           NEW p \in Procs, Stopper(p) \/ \E kind \in Calls : Call(p, kind)
    PROVE  Succession'
<1> USE Kinds
<1>1. launches' = launches /\ watch' = watch /\ mine' = mine /\ waitDone' = waitDone
  BY DEF Stopper, Shutdown, Teardown, Kill, Await, Renew, Call, processVars, structVars, localVars
<1>2. launches # 0 => launches \in Launches
  BY SingBoxProcessAssumption DEF Buried, Inv, Numbered, Launches
<1>3. CASE Shutdown(p)
  <2>1. pc[p] = "shutdown" /\ await' = await
    BY <1>3 DEF Shutdown, localVars
  <2>2. \A q \in Procs : pc'[q] = IF q = p THEN "teardown"
                                  ELSE IF pc[q] = "sleep" THEN "woken" ELSE pc[q]
    BY <1>3 DEF Shutdown, Woken
  <2>3. \A l \in Launches : Supervisor(l) # p
    BY <2>1 DEF Control
  <2>4. \A q \in Procs : pc'[q] = "publish" <=> pc[q] = "publish"
    BY <2>1, <2>2
  <2>5. \A l \in Launches : /\ pc'[Supervisor(l)] \in Waiting => pc[Supervisor(l)] \in Waiting
                            /\ pc'[Supervisor(l)] \in Starting => pc[Supervisor(l)] \in Starting
    BY <2>2, <2>3 DEF Waiting, Starting
  <2>6. \A l \in Launches : pc'[Supervisor(l)] \in {"kill", "await"} =>
            await'[Supervisor(l)] = launches
    BY <2>1, <2>2, <2>3 DEF Succession
  <2>7. \A q \in Procs : Caller(q) => pc'[q] \in Stopping
    BY <2>2 DEF Succession, Stopping
  <2> QED BY <1>1, <2>2, <2>4, <2>5, <2>6, <2>7, SuccessionMove
<1>4. CASE Teardown(p)
  <2>1. pc[p] = "teardown" /\ await' = [await EXCEPT ![p] = waitDone] /\ Goto(p, "kill")
    BY <1>4 DEF Teardown
  <2>2. \A q \in Procs : /\ pc'[q] = IF q = p THEN "kill" ELSE pc[q]
                         /\ await'[q] = IF q = p THEN waitDone ELSE await[q]
    BY <2>1, GotoMoves DEF Control
  <2>3. \A l \in Launches : /\ pc'[Supervisor(l)] \in Waiting => pc[Supervisor(l)] \in Waiting
                            /\ pc'[Supervisor(l)] \in Starting => pc[Supervisor(l)] \in Starting
    BY <2>1, <2>2 DEF Waiting, Starting
  <2>4. \A l \in Launches : pc'[Supervisor(l)] \in {"kill", "await"} =>
            await'[Supervisor(l)] = launches
    BY <2>1, <2>2 DEF Succession
  <2>5. \A q \in Procs : /\ Caller(q) => pc'[q] \in Stopping
                         /\ pc'[q] = "publish" <=> pc[q] = "publish"
    BY <2>1, <2>2 DEF Succession, Stopping
  <2> QED BY <1>1, <2>2, <2>3, <2>4, <2>5, SuccessionMove
<1>5. CASE Kill(p)
  <2>1. pc[p] = "kill" /\ await' = await /\ Goto(p, "await")
    BY <1>5 DEF Kill, localVars
  <2>2. \A q \in Procs : pc'[q] = IF q = p THEN "await" ELSE pc[q]
    BY <2>1, GotoMoves
  <2>3. \A l \in Launches : /\ pc'[Supervisor(l)] \in Waiting => pc[Supervisor(l)] \in Waiting
                            /\ pc'[Supervisor(l)] \in Starting => pc[Supervisor(l)] \in Starting
    BY <2>1, <2>2 DEF Waiting, Starting
  <2>4. \A l \in Launches : pc'[Supervisor(l)] \in {"kill", "await"} =>
            await'[Supervisor(l)] = launches
    BY <2>1, <2>2 DEF Succession
  <2>5. \A q \in Procs : /\ Caller(q) => pc'[q] \in Stopping
                         /\ pc'[q] = "publish" <=> pc[q] = "publish"
    BY <2>1, <2>2 DEF Succession, Stopping
  <2> QED BY <1>1, <2>2, <2>3, <2>4, <2>5, SuccessionMove
<1>6. CASE Await(p)
  <2>1. pc[p] = "await" /\ await' = await /\ then' = then /\ Goto(p, then[p])
    BY <1>6 DEF Await
  <2>2. \A q \in Procs : pc'[q] = IF q = p THEN then[p] ELSE pc[q]
    BY <2>1, GotoMoves
  <2>3. await[p] \in closed \cup {0}
    BY <1>6 DEF Await, Undisturbed
  <2>4. \A l \in Launches : p = Supervisor(l) => launches # 0 /\ watch[launches] = "done"
    <3> SUFFICES ASSUME NEW l \in Launches, p = Supervisor(l)
                 PROVE  launches # 0 /\ watch[launches] = "done"
      OBVIOUS
    <3>1. launches # 0 /\ await[p] = launches
      BY <2>1 DEF Succession
    <3> QED BY <2>3, <3>1 DEF ClosedOnce
  <2>5. then[p] \in Targets
    BY DEF Inv, Numbered
  <2>6. \A l \in Launches :
            /\ pc'[Supervisor(l)] \in Waiting =>
                  pc[Supervisor(l)] \in Waiting \/ (launches # 0 /\ watch[launches] = "done")
            /\ pc'[Supervisor(l)] \in Starting => pc[Supervisor(l)] \in Starting
    BY <2>1, <2>2, <2>4, <2>5 DEF Waiting, Starting, Targets
  <2>7. \A l \in Launches : pc'[Supervisor(l)] \in {"kill", "await"} =>
            await'[Supervisor(l)] = launches
    BY <2>1, <2>2, <2>5 DEF Succession, Targets
  <2>8. \A q \in Procs : pc'[q] = "publish" <=> pc[q] = "publish"
    BY <2>1, <2>2, <2>5 DEF Targets
  <2>9. \A q \in Procs : Caller(q) => pc'[q] \in Stopping
    BY <2>1, <2>2 DEF Succession, Stopping, Undisturbed
  <2>10. pc'[New] = "launch" => pc[New] = "launch"
    BY <2>2, <2>5 DEF Targets
  <2> QED BY <1>1, <2>6, <2>7, <2>8, <2>9, <2>10, SuccessionMove
<1>7. CASE Renew(p)
  <2>1. pc[p] = "renew"
    BY <1>7 DEF Renew
  <2> QED BY <2>1, Kinds DEF Control, Succession
<1>8. ASSUME NEW kind \in Calls, Call(p, kind)
      PROVE  Succession'
  <2>1. Caller(p) /\ pc[p] = "idle" /\ await' = await /\ Goto(p, "shutdown")
    BY <1>8 DEF Call, Caller
  <2>2. \A q \in Procs : pc'[q] = IF q = p THEN "shutdown" ELSE pc[q]
    BY <2>1, GotoMoves
  <2>3. \A l \in Launches : pc'[Supervisor(l)] = pc[Supervisor(l)]
    BY <2>1, <2>2
  <2>4. \A q \in Procs : /\ Caller(q) => pc'[q] \in Stopping
                         /\ pc'[q] = "publish" <=> pc[q] = "publish"
    BY <2>1, <2>2 DEF Succession, Stopping
  <2>5. \A l \in Launches : pc'[Supervisor(l)] \in {"kill", "await"} =>
            await'[Supervisor(l)] = launches
    BY <2>1, <2>3 DEF Succession
  <2> QED BY <1>1, <2>2, <2>3, <2>4, <2>5, SuccessionMove
<1> QED BY <1>3, <1>4, <1>5, <1>6, <1>7, <1>8 DEF Stopper

LEMMA SuccessionWatcher ==
    ASSUME Inv, Control, Buried, Undisturbed, Succession, NEW l \in Launches, Watcher(l)
    PROVE  Succession'
<1> USE Kinds
<1>1. launches' = launches /\ mine' = mine /\ waitDone' = waitDone /\ await' = await
  BY DEF Watcher, WatchExit, WatchClose, structVars, localVars
<1>2. watch[l] \notin {"none", "done"}
  BY DEF Watcher, WatchExit, WatchClose
<1>3. l = launches /\ launches # 0
  BY <1>2, SingBoxProcessAssumption DEF Inv, Numbered, Succession, Launches
<1>4. watch'[l] # "none" /\ \A k \in Launches : k # l => watch'[k] = watch[k]
  BY DEF Watcher, WatchExit, WatchClose, Inv, Shape
<1>5. \A k \in Launches : k < launches => watch'[k] = "done"
  BY <1>3, <1>4 DEF Succession, Launches
<1>6. \A q \in Procs : pc[q] # "publish"
  BY <1>2, <1>3 DEF Succession, Inv, Numbered
<1>7. waitDone = launches
  BY <1>2, <1>3 DEF Succession
<1>8. \A k \in Launches : pc[Supervisor(k)] \notin Waiting
  BY <1>2, <1>3 DEF Succession, Waiting
<1>9. CASE WatchExit(l)
  <2>1. pc' = pc
    BY <1>9 DEF WatchExit
  <2> QED BY <1>1, <1>3, <1>4, <1>5, <1>6, <1>7, <1>8, <2>1 DEF Succession, Waiting
<1>10. CASE WatchClose(l)
  <2>1. watch'[l] = "done"
    BY <1>10 DEF WatchClose, Inv, Shape
  <2>2. \A q \in Procs : pc'[q] = pc[q] \/ (q = Supervisor(l) /\ pc'[q] = "check")
    <3>1. pc' = pc \/ Goto(Supervisor(l), "check")
      BY <1>10 DEF WatchClose
    <3> QED BY <3>1, GotoMoves
  <2>3. \A q \in Procs : pc'[q] # "publish" /\ (Caller(q) => pc'[q] = pc[q])
    BY <1>6, <2>2
  <2>4. pc'[New] = pc[New]
    BY <2>2
  <2> QED BY <1>1, <1>3, <1>4, <1>5, <1>7, <2>1, <2>2, <2>3, <2>4 DEF Succession
<1> QED BY <1>9, <1>10 DEF Watcher

LEMMA SuccessionOther ==
    ASSUME Inv, Succession,
           UNCHANGED vars \/ \E l \in Launches : Supervise(l) \/ Bind(l) \/ Exit(l)
    PROVE  Succession'
<1> USE Kinds
<1>1. /\ launches' = launches /\ watch' = watch /\ mine' = mine /\ waitDone' = waitDone
      /\ await' = await
  BY DEF vars, Supervise, SupervisorCheck, SupervisorStop, SupervisorWake, SupervisorRelease,
         Bind, Exit, processVars, structVars, localVars
<1>2. CASE pc' = pc
  BY <1>1, <1>2 DEF Succession
<1>3. ASSUME NEW l \in Launches, Supervise(l)
      PROVE  Succession'
  <2>1. PICK label \in {"sleep", "nap", "release", "launch", "done"} : Goto(Supervisor(l), label)
    BY <1>3 DEF Supervise, SupervisorCheck, SupervisorStop, SupervisorWake, SupervisorRelease
  <2>2. \A q \in Procs : pc'[q] = IF q = Supervisor(l) THEN label ELSE pc[q]
    BY <2>1, GotoMoves
  <2>3. /\ pc[Supervisor(l)] # "publish"
        /\ label \in Waiting => pc[Supervisor(l)] \in Waiting
    <3>1. CASE SupervisorRelease(l)
      <4>1. pc'[Supervisor(l)] = "done"
        BY <3>1 DEF SupervisorRelease, Goto, Inv, Shape
      <4> QED BY <2>2, <3>1, <4>1 DEF SupervisorRelease, Waiting
    <3>2. CASE ~SupervisorRelease(l)
      BY <1>3, <3>2 DEF Supervise, SupervisorCheck, SupervisorStop, SupervisorWake, Waiting
    <3> QED BY <3>1, <3>2
  <2>4. \A k \in Launches : /\ pc'[Supervisor(k)] \in Waiting => pc[Supervisor(k)] \in Waiting
                            /\ pc'[Supervisor(k)] \in Starting => pc[Supervisor(k)] \in Starting
    BY <2>1, <2>2, <2>3 DEF Starting
  <2>5. \A k \in Launches : pc'[Supervisor(k)] \in {"kill", "await"} =>
            await'[Supervisor(k)] = launches
    BY <1>1, <2>1, <2>2 DEF Succession
  <2>6. \A q \in Procs : /\ Caller(q) => pc'[q] \in Stopping
                         /\ pc'[q] = "publish" <=> pc[q] = "publish"
    BY <2>1, <2>2, <2>3 DEF Succession, Stopping
  <2> QED BY <1>1, <2>2, <2>4, <2>5, <2>6, SuccessionMove
<1> QED BY <1>2, <1>3 DEF vars, Bind, Exit

LEMMA WaitedStep ==
    ASSUME Inv, Control, Undisturbed, Waited, Undisturbed', [Next]_vars
    PROVE  Waited'
<1> USE Kinds
<1>1. ASSUME NEW q \in Procs, Publish(q)
      PROVE  Waited'
  BY <1>1 DEF Publish, Waited
<1>2. ASSUME NEW q \in Procs, Shutdown(q)
      PROVE  Waited'
  <2>1. pc[q] = "shutdown" /\ pc'[q] = "teardown"
    BY <1>2 DEF Shutdown, Woken
  <2>2. Caller(q)
    BY <2>1 DEF Control, Undisturbed
  <2> QED BY <2>1, <2>2 DEF Waited, Waits
<1>3. CASE \A q \in Procs : ~Publish(q) /\ ~Shutdown(q)
  <2>1. stopping' = stopping /\ waitDone' = waitDone
    BY <1>3 DEF Next, vars, processVars, structVars, Starter, Launch, LaunchFail, ReadyOk,
           ReadyFail, SetStarted, PushOk, PushFail, Stopper, Teardown, Kill, Await, Renew,
           Call, Watcher, WatchExit, WatchClose, Supervise, SupervisorCheck, SupervisorStop,
           SupervisorWake, SupervisorRelease, Bind, Exit
  <2>2. closed \subseteq closed'
    BY <1>3 DEF Next, vars, processVars, Starter, Launch, LaunchFail, ReadyOk,
           ReadyFail, SetStarted, PushOk, PushFail, Stopper, Teardown, Kill, Await, Renew,
           Call, Watcher, WatchExit, WatchClose, Supervise, SupervisorCheck, SupervisorStop,
           SupervisorWake, SupervisorRelease, Bind, Exit
  <2> SUFFICES ASSUME stopping, waitDone \notin closed' \cup {0}
               PROVE  \E p \in Procs : Caller(p) /\ Waits(p)'
    BY <2>1 DEF Waited
  <2>3. PICK p \in Procs : Caller(p) /\ Waits(p)
    BY <2>2 DEF Waited
  <2>4. p # New /\ \A l \in Launches : p # Supervisor(l)
    BY <2>3
  <2>5. CASE pc'[p] = pc[p] /\ await'[p] = await[p]
    BY <2>1, <2>3, <2>5 DEF Waits
  <2>6. CASE Teardown(p)
    <3>1. pc'[p] = "kill" /\ await'[p] = waitDone
      BY <2>6 DEF Teardown, Goto, Inv, Shape, Control
    <3> QED BY <2>1, <2>3, <3>1 DEF Waits
  <2>7. CASE Kill(p)
    <3>1. pc[p] = "kill" /\ pc'[p] = "await" /\ await' = await
      BY <2>7 DEF Kill, Goto, localVars, Inv, Shape
    <3> QED BY <2>1, <2>3, <3>1 DEF Waits
  <2>8. CASE Await(p)
    <3>1. pc[p] = "await" /\ await[p] \in closed \cup {0}
      BY <2>8 DEF Await, Undisturbed
    <3> QED BY <2>2, <2>3, <3>1 DEF Waits
  <2>9. Teardown(p) \/ Kill(p) \/ Await(p) \/ (pc'[p] = pc[p] /\ await'[p] = await[p])
    <3>1. CASE UNCHANGED vars
      BY <3>1 DEF vars, localVars
    <3>2. ASSUME NEW q \in Procs, Starter(q) \/ Stopper(q) \/ \E kind \in Calls : Call(q, kind)
          PROVE  Teardown(p) \/ Kill(p) \/ Await(p) \/ (pc'[p] = pc[p] /\ await'[p] = await[p])
      <4>1. CASE q = p
        <5>1. pc[p] \in {"teardown", "kill", "await"}
          BY <2>3 DEF Waits
        <5> QED BY <1>3, <3>2, <4>1, <5>1 DEF Starter, Launch, LaunchFail, ReadyOk, ReadyFail,
                SetStarted, PushOk, PushFail, Stopper, Renew, Call
      <4>2. CASE q # p
        <5>1. await'[p] = await[p]
          BY <1>3, <3>2, <4>2 DEF Starter, Launch, LaunchFail, ReadyOk, ReadyFail,
                SetStarted, PushOk, PushFail, Stopper, Teardown, Kill, Await, Renew, Call,
                localVars, Control
        <5>2. \E label : Goto(q, label)
          BY <1>3, <3>2 DEF Starter, Launch, LaunchFail, ReadyOk, ReadyFail,
                SetStarted, PushOk, PushFail, Stopper, Teardown, Kill, Await, Renew, Call
        <5>3. pc'[p] = pc[p]
          BY <4>2, <5>2, GotoMoves
        <5> QED BY <5>1, <5>3
      <4> QED BY <4>1, <4>2
    <3>3. ASSUME NEW l \in Launches, Watcher(l) \/ Supervise(l) \/ Bind(l) \/ Exit(l)
          PROVE  pc'[p] = pc[p] /\ await'[p] = await[p]
      <4>1. await' = await
        BY <3>3 DEF Watcher, WatchExit, WatchClose, Supervise, SupervisorCheck, SupervisorStop,
                    SupervisorWake, SupervisorRelease, Bind, Exit, localVars
      <4>2. pc' = pc \/ \E label : Goto(Supervisor(l), label)
        BY <3>3 DEF Watcher, WatchExit, WatchClose, Supervise, SupervisorCheck, SupervisorStop,
                    SupervisorWake, SupervisorRelease, Bind, Exit
      <4>3. pc'[p] = pc[p]
        BY <2>4, <4>2, GotoMoves
      <4> QED BY <4>1, <4>3
    <3> QED BY <3>1, <3>2, <3>3 DEF Next
  <2> QED BY <2>5, <2>6, <2>7, <2>8, <2>9
<1> QED BY <1>1, <1>2, <1>3

LEMMA DownInvStep ==
    ASSUME Inv, ClosedOnce, DownInv, [Next]_vars
    PROVE  DownInv'
<1>1. Control' /\ Buried'
  BY ControlStep, BuriedStep DEF DownInv
<1>2. ASSUME Undisturbed'
      PROVE  Succession' /\ Waited'
  <2>1. Undisturbed /\ Succession /\ Waited /\ Control /\ Buried
    BY <1>2, UndisturbedBefore DEF DownInv
  <2>2. Waited'
    BY <1>2, <2>1, WaitedStep
  <2>3. Succession'
    BY <1>2, <2>1, SuccessionStarter, SuccessionStopper, SuccessionWatcher, SuccessionOther DEF Next
  <2> QED BY <2>2, <2>3
<1> QED BY <1>1, <1>2 DEF DownInv

(* Once every Shutdown has returned, none by giving up, and no start has   *)
(* cleared stopping since, no process runs that start() has put on the     *)
(* struct, however the supervisor, crashes and Shutdowns overlap.          *)
THEOREM StoppedMeansDownAlways == Spec => []StoppedMeansDown
<1>1. Init => ClosedOnce
  BY DEF Init, ClosedOnce
<1>2. Init => DownInv
  <2> SUFFICES ASSUME Init PROVE DownInv
    OBVIOUS
  <2>1. /\ launches = 0 /\ alive = {} /\ stopping = FALSE /\ DOMAIN await = Procs
        /\ pc[New] = "launch" /\ \A p \in Procs : p # New => pc[p] = "idle"
        /\ \A p \in Procs : then[p] = "idle"
        /\ \A l \in Launches : watch[l] = "none"
    BY Kinds DEF Init
  <2>2. Control
    BY <2>1, Kinds DEF Control
  <2>3. Buried
    BY <2>1, SingBoxProcessAssumption DEF Buried
  <2>4. Succession
    <3>1. \A l \in Launches : ~(l < launches)
      BY <2>1 DEF Launches
    <3>2. \A p \in Procs : pc[p] # "publish"
      BY <2>1, Kinds
    <3> QED BY <2>1, <3>1, <3>2, Kinds DEF Succession
  <2> QED BY <2>1, <2>2, <2>3, <2>4 DEF DownInv, Waited
<1>3. Inv /\ ClosedOnce /\ DownInv => StoppedMeansDown
  <2> SUFFICES ASSUME Inv, ClosedOnce, DownInv, ~lingered, stopping, Called # {},
                      Called = Returned, NEW l \in alive
               PROVE  \E p \in Procs : pc[p] = "publish" /\ mine[p] = l
    BY DEF StoppedMeansDown
  <2>1. \A p \in Procs : Caller(p) => pc[p] \in {"idle", "stopped"}
    BY DEF Called, Returned, Caller
  <2>2. pc[New] = "serving"
    BY DEF Called, DownInv, Control, Caller
  <2>3. Undisturbed
    BY <2>1, <2>2 DEF Undisturbed, DownInv, Control
  <2>4. Succession /\ Waited
    BY <2>3 DEF DownInv
  <2>5. waitDone \in closed \cup {0}
    BY <2>1, <2>4 DEF Waited, Waits
  <2>6. l \in Launches /\ l \in 1..launches /\ launches \in Nat
    BY SingBoxProcessAssumption DEF DownInv, Buried, Inv, Numbered, Launches
  <2>7. l = launches /\ launches # 0
    BY <2>4, <2>6 DEF Succession, DownInv, Buried
  <2>8. watch[launches] = "none"
    <3> SUFFICES ASSUME watch[launches] # "none" PROVE FALSE
      OBVIOUS
    <3>1. waitDone = launches
      BY <2>4, <2>7 DEF Succession
    <3>2. watch[launches] = "done"
      BY <2>5, <2>7, <3>1 DEF ClosedOnce
    <3> QED BY <2>6, <2>7, <3>2 DEF DownInv, Buried
  <2> QED BY <2>4, <2>7, <2>8 DEF Succession
<1> QED BY <1>1, <1>2, <1>3, Invariance, ClosedOnceStep, DownInvStep, PTL DEF Spec
=============================================================================
