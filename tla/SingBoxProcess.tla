---------------------------- MODULE SingBoxProcess ----------------------------
(***************************************************************************)
(* The life of a sing-box core: New, Restart, Shutdown, the supervisor     *)
(* that brings a crashed process back, and the goroutine that waits for    *)
(* each process. Processes are numbered in the order they are launched; a  *)
(* number also names the process's context, its done channel, and the      *)
(* supervisor its exit starts. A step is one critical section of s.mu or   *)
(* one call made outside it. The users a core serves are in SingBoxUsers.  *)
(***************************************************************************)
EXTENDS Integers

CONSTANTS
    MaxLaunches,  \* bound on the processes launched
    Callers,      \* goroutines of the controller, which call once each
    Calls,        \* what they call: "Shutdown", "Restart"
    Faults        \* what may go wrong: "launch", the process cannot be started;
                  \* "starting", it exits before it answers; "timeout", it does not
                  \* answer in 20 s; "push", the users are refused; "serving" and
                  \* "recovering", it crashes once it answers, after or before its
                  \* start has returned; "lingering", killed, it outlives 10 s

ASSUME SingBoxProcessAssumption ==
    /\ MaxLaunches \in Nat
    /\ Calls \subseteq {"Shutdown", "Restart"}
    /\ Faults \subseteq {"launch", "starting", "timeout", "push", "serving",
                         "recovering", "lingering"}

VARIABLES
    launches,     \* how many processes have been launched
    alive,        \* processes that run
    holder,       \* the process that holds the ports and answers, 0 for none
    killed,       \* processes whose context was cancelled
    closed,       \* processes whose done channel is closed
    watch,        \* the goroutine that waits for each process
    cancel,       \* s.cancel: the process it kills, 0 for nil
    waitDone,     \* s.waitDone, 0 for nil
    started,      \* s.started
    stopping,     \* s.stopping
    supervising,  \* s.supervising
    pushStop,     \* s.pushStop: "nil", "open" or, in a mutant, "closed"
    panicked,     \* a channel was closed twice
    pc,           \* where each goroutine is
    mine,         \* the process each has launched
    kill,         \* teardown's copy of s.cancel
    await,        \* teardown's copy of s.waitDone
    then,         \* where each goes when teardown returns
    lingered      \* a teardown gave up waiting for the end of a process

structVars == <<cancel, waitDone, started, stopping, supervising, pushStop>>
processVars == <<launches, alive, holder, killed, closed, watch>>
localVars == <<mine, kill, await, then, lingered>>
vars == <<processVars, structVars, panicked, pc, localVars>>

Launches == 1..MaxLaunches
New == <<"New", 0>>
Supervisor(l) == <<"superviseRestart", l>>
Procs == {New} \cup {Supervisor(l) : l \in Launches} \cup {<<"call", c>> : c \in Callers}

Goto(p, label) == pc' = [pc EXCEPT ![p] = label]

Init ==
    /\ launches = 0
    /\ alive = {} /\ killed = {} /\ closed = {}
    /\ holder = 0
    /\ watch = [l \in Launches |-> "none"]
    /\ cancel = 0 /\ waitDone = 0
    /\ started = FALSE /\ stopping = FALSE /\ supervising = FALSE
    /\ pushStop = "open"
    /\ panicked = FALSE
    /\ pc = [p \in Procs |-> IF p = New THEN "launch" ELSE "idle"]
    /\ mine = [p \in Procs |-> 0]
    /\ kill = [p \in Procs |-> 0]
    /\ await = [p \in Procs |-> 0]
    /\ then = [p \in Procs |-> "idle"]
    /\ lingered = FALSE
-----------------------------------------------------------------------------
(***************************************************************************)
(* start(), run by New, by a supervisor and by Restart.                    *)
(***************************************************************************)
AfterStartError(p) ==
    IF p = New THEN "failed" ELSE IF p[1] = "call" THEN "done" ELSE "check"

(* cmd.Start, before the struct knows of the process.                      *)
Launch(p) ==
    /\ pc[p] = "launch" /\ launches < MaxLaunches
    /\ launches' = launches + 1
    /\ alive' = alive \cup {launches'}
    /\ mine' = [mine EXCEPT ![p] = launches']
    /\ Goto(p, "publish")
    /\ UNCHANGED <<holder, killed, closed, watch, structVars, panicked, kill, await, then,
                   lingered>>

(* cmd.Start has failed.                                                   *)
LaunchFail(p) ==
    /\ pc[p] = "launch" /\ "launch" \in Faults
    /\ Goto(p, AfterStartError(p))
    /\ UNCHANGED <<processVars, structVars, panicked, localVars>>

(* The struct takes the process over and the watcher starts. The mutant    *)
(* leaves the stop of an earlier Shutdown in force.                        *)
PublishKeepsStopping(p) ==
    /\ pc[p] = "publish"
    /\ cancel' = mine[p]
    /\ waitDone' = mine[p]
    /\ watch' = [watch EXCEPT ![mine[p]] = "wait"]
    /\ Goto(p, "ready")
    /\ UNCHANGED <<launches, alive, holder, killed, closed, started, stopping, supervising,
                   pushStop, panicked, localVars>>

Publish(p) ==
    /\ pc[p] = "publish"
    /\ stopping' = FALSE
    /\ cancel' = mine[p]
    /\ waitDone' = mine[p]
    /\ watch' = [watch EXCEPT ![mine[p]] = "wait"]
    /\ Goto(p, "ready")
    /\ UNCHANGED <<launches, alive, holder, killed, closed, started, supervising, pushStop,
                   panicked, localVars>>

(* waitReady: clash_api answers, whichever process is behind it, before    *)
(* the process is seen to have exited.                                     *)
ReadyOk(p) ==
    /\ pc[p] = "ready" /\ holder # 0 /\ mine[p] \notin killed \cup closed
    /\ Goto(p, "started")
    /\ UNCHANGED <<processVars, structVars, panicked, localVars>>

(* The process exited, or was cancelled, or did not answer in time. The    *)
(* failed start is torn down.                                              *)
ReadyFail(p) ==
    /\ pc[p] = "ready"
    /\ mine[p] \in closed \cup killed \/ "timeout" \in Faults
    /\ then' = [then EXCEPT ![p] = AfterStartError(p)]
    /\ Goto(p, "teardown")
    /\ UNCHANGED <<processVars, structVars, panicked, mine, kill, await, lingered>>

SetStarted(p) ==
    /\ pc[p] = "started"
    /\ started' = TRUE
    /\ Goto(p, "push")
    /\ UNCHANGED <<processVars, cancel, waitDone, stopping, supervising, pushStop, panicked,
                   localVars>>

(* pushUsers after a start. New gives the core up when it fails; a         *)
(* supervisor and Restart return either way.                               *)
PushOk(p) ==
    /\ pc[p] = "push" /\ holder # 0
    /\ Goto(p, IF p = New THEN "serving" ELSE IF p[1] = "call" THEN "done" ELSE "release")
    /\ UNCHANGED <<processVars, structVars, panicked, localVars>>

PushFail(p) ==
    /\ pc[p] = "push" /\ (holder = 0 \/ "push" \in Faults)
    /\ Goto(p, IF p = New THEN "shutdown" ELSE IF p[1] = "call" THEN "done" ELSE "release")
    /\ then' = [then EXCEPT ![p] = IF p = New THEN "failed" ELSE @]
    /\ UNCHANGED <<processVars, structVars, panicked, mine, kill, await, lingered>>
-----------------------------------------------------------------------------
(***************************************************************************)
(* Shutdown, teardown and Restart.                                         *)
(***************************************************************************)

(* The controller calls only a core New has handed to it.                  *)
Call(p, kind) ==
    /\ p[1] = "call" /\ pc[p] = "idle" /\ pc[New] = "serving"
    /\ Goto(p, "shutdown")
    /\ then' = [then EXCEPT ![p] = IF kind = "Restart" THEN "renew" ELSE "stopped"]
    /\ UNCHANGED <<processVars, structVars, panicked, mine, kill, await, lingered>>

(* A supervisor asleep on the channel that is being closed wakes up.       *)
Woken == [p \in Procs |-> IF pc[p] = "sleep" THEN "woken" ELSE pc[p]]

(* The mutant closes pushStop and leaves it on the struct.                 *)
ShutdownKeepsChannel(p) ==
    /\ pc[p] = "shutdown"
    /\ stopping' = TRUE
    /\ pushStop' = IF pushStop = "nil" THEN "nil" ELSE "closed"
    /\ panicked' = (panicked \/ pushStop = "closed")
    /\ pc' = [Woken EXCEPT ![p] = "teardown"]
    /\ UNCHANGED <<processVars, cancel, waitDone, started, supervising, localVars>>

Shutdown(p) ==
    /\ pc[p] = "shutdown"
    /\ stopping' = TRUE
    /\ pushStop' = "nil"
    /\ panicked' = (panicked \/ pushStop = "closed")
    /\ pc' = [Woken EXCEPT ![p] = "teardown"]
    /\ UNCHANGED <<processVars, cancel, waitDone, started, supervising, localVars>>

(* teardown takes s.cancel off the struct, under the lock, and uses it     *)
(* outside.                                                                *)
Teardown(p) ==
    /\ pc[p] = "teardown"
    /\ kill' = [kill EXCEPT ![p] = cancel]
    /\ await' = [await EXCEPT ![p] = waitDone]
    /\ cancel' = 0
    /\ started' = FALSE
    /\ Goto(p, "kill")
    /\ UNCHANGED <<processVars, waitDone, stopping, supervising, pushStop, panicked, mine, then,
                   lingered>>

Kill(p) ==
    /\ pc[p] = "kill"
    /\ killed' = killed \cup ({kill[p]} \ {0})
    /\ Goto(p, "await")
    /\ UNCHANGED <<launches, alive, holder, closed, watch, structVars, panicked, localVars>>

(* The mutant waits for the process however long it takes.                 *)
AwaitForever(p) ==
    /\ pc[p] = "await"
    /\ await[p] \in closed \cup {0}
    /\ Goto(p, then[p])
    /\ UNCHANGED <<processVars, structVars, panicked, localVars>>

Await(p) ==
    /\ pc[p] = "await"
    /\ await[p] \in closed \cup {0} \/ "lingering" \in Faults
    /\ lingered' = (lingered \/ await[p] \notin closed \cup {0})
    /\ Goto(p, then[p])
    /\ UNCHANGED <<processVars, structVars, panicked, mine, kill, await, then>>

(* Restart after its Shutdown: a new pushStop, then start.                 *)
Renew(p) ==
    /\ pc[p] = "renew"
    /\ pushStop' = "open"
    /\ Goto(p, "launch")
    /\ UNCHANGED <<processVars, cancel, waitDone, started, stopping, supervising, panicked,
                   localVars>>
-----------------------------------------------------------------------------
(***************************************************************************)
(* The watcher of a process, and the supervisor it may start.              *)
(***************************************************************************)

(* cmd.Wait has returned. Whether a supervisor is spawned is decided here, *)
(* and the flag is taken with it. The mutant spawns one for every exit.    *)
WatchExitSpawns(l) ==
    /\ watch[l] = "wait" /\ l \notin alive
    /\ started' = FALSE
    /\ supervising' = (supervising \/ ~stopping)
    /\ watch' = [watch EXCEPT ![l] = IF stopping THEN "close" ELSE "spawn"]
    /\ UNCHANGED <<launches, alive, holder, killed, closed, cancel, waitDone, stopping, pushStop,
                   panicked, pc, localVars>>

WatchExit(l) ==
    /\ watch[l] = "wait" /\ l \notin alive
    /\ started' = FALSE
    /\ supervising' = (supervising \/ ~stopping)
    /\ watch' = [watch EXCEPT ![l] = IF stopping \/ supervising THEN "close" ELSE "spawn"]
    /\ UNCHANGED <<launches, alive, holder, killed, closed, cancel, waitDone, stopping, pushStop,
                   panicked, pc, localVars>>

(* close(done), then go superviseRestart(). The mutant closes the channel  *)
(* that is on the struct by now.                                           *)
WatchCloseStruct(l) ==
    /\ watch[l] \in {"close", "spawn"}
    /\ closed' = closed \cup {waitDone}
    /\ panicked' = (panicked \/ waitDone \in closed)
    /\ watch' = [watch EXCEPT ![l] = "done"]
    /\ IF watch[l] = "spawn" THEN Goto(Supervisor(l), "check") ELSE UNCHANGED pc
    /\ UNCHANGED <<launches, alive, holder, killed, structVars, localVars>>

WatchClose(l) ==
    /\ watch[l] \in {"close", "spawn"}
    /\ closed' = closed \cup {l}
    /\ panicked' = (panicked \/ l \in closed)
    /\ watch' = [watch EXCEPT ![l] = "done"]
    /\ IF watch[l] = "spawn" THEN Goto(Supervisor(l), "check") ELSE UNCHANGED pc
    /\ UNCHANGED <<launches, alive, holder, killed, structVars, localVars>>

(* The top of the loop: it will sleep on the channel it reads here, which  *)
(* never wakes it when it is nil.                                          *)
SupervisorCheck(l) ==
    LET p == Supervisor(l)
    IN  /\ pc[p] = "check"
        /\ Goto(p, IF stopping THEN "release" ELSE IF pushStop = "nil" THEN "nap" ELSE "sleep")
        /\ UNCHANGED <<processVars, structVars, panicked, localVars>>

(* select takes the closed channel; when the delay is over as well, either.*)
SupervisorStop(l) ==
    LET p == Supervisor(l)
    IN  /\ pc[p] = "woken"
        /\ Goto(p, "release")
        /\ UNCHANGED <<processVars, structVars, panicked, localVars>>

(* The delay is over: both flags are read again.                           *)
SupervisorWake(l) ==
    LET p == Supervisor(l)
    IN  /\ pc[p] \in {"sleep", "nap", "woken"}
        /\ Goto(p, IF stopping \/ started THEN "release" ELSE "launch")
        /\ UNCHANGED <<processVars, structVars, panicked, localVars>>

(* The deferred release of the flag, on every way out. The mutant forgets  *)
(* it.                                                                     *)
SupervisorReleaseForgets(l) ==
    LET p == Supervisor(l)
    IN  /\ pc[p] = "release"
        /\ Goto(p, "done")
        /\ UNCHANGED <<processVars, structVars, panicked, localVars>>

SupervisorRelease(l) ==
    LET p == Supervisor(l)
    IN  /\ pc[p] = "release"
        /\ supervising' = FALSE
        /\ Goto(p, "done")
        /\ UNCHANGED <<processVars, cancel, waitDone, started, stopping, pushStop, panicked,
                       localVars>>
-----------------------------------------------------------------------------
(***************************************************************************)
(* The processes themselves.                                               *)
(***************************************************************************)
Bind(l) ==
    /\ l \in alive /\ holder = 0
    /\ holder' = l
    /\ UNCHANGED <<launches, alive, killed, closed, watch, structVars, panicked, pc, localVars>>

Recovering == \E p \in Procs : pc[p] \in {"ready", "started", "push", "release"}

Exit(l) ==
    /\ l \in alive
    /\ \/ l \in killed
       \/ holder \notin {0, l}                          \* the ports are taken
       \/ holder # l /\ "starting" \in Faults
       \/ holder = l /\ (IF Recovering THEN "recovering" ELSE "serving") \in Faults
    /\ alive' = alive \ {l}
    /\ holder' = IF holder = l THEN 0 ELSE holder
    /\ UNCHANGED <<launches, killed, closed, watch, structVars, panicked, pc, localVars>>
-----------------------------------------------------------------------------
Starter(p) ==
    \/ Launch(p) \/ LaunchFail(p) \/ Publish(p) \/ ReadyOk(p) \/ ReadyFail(p)
    \/ SetStarted(p) \/ PushOk(p) \/ PushFail(p)
Stopper(p) == Shutdown(p) \/ Teardown(p) \/ Kill(p) \/ Await(p) \/ Renew(p)
Watcher(l) == WatchExit(l) \/ WatchClose(l)
Supervise(l) == SupervisorCheck(l) \/ SupervisorStop(l) \/ SupervisorWake(l) \/ SupervisorRelease(l)

Next ==
    \/ \E p \in Procs : Starter(p) \/ Stopper(p) \/ \E kind \in Calls : Call(p, kind)
    \/ \E l \in Launches : Watcher(l) \/ Supervise(l) \/ Bind(l) \/ Exit(l)

Spec == Init /\ [][Next]_vars

(* Every goroutine that can run does, a killed process exits, unless one   *)
(* may linger, and one that is neither killed nor broken comes to hold its *)
(* ports. Launches that fail do not fail for ever. Whether the core        *)
(* crashes and what the controller calls is left open.                     *)
Fairness ==
    /\ \A p \in Procs : WF_vars(Starter(p) \/ Stopper(p))
    /\ \A l \in Launches :
          /\ WF_vars(Watcher(l)) /\ WF_vars(Supervise(l))
          /\ WF_vars(Bind(l)) /\ SF_vars(Launch(Supervisor(l)))
          /\ WF_vars(l \in killed /\ "lingering" \notin Faults /\ Exit(l))

FairSpec == Spec /\ Fairness
-----------------------------------------------------------------------------
(* Types of all the state above.                                           *)
TypeOK ==
    /\ launches \in 0..MaxLaunches
    /\ alive \subseteq 1..launches /\ killed \subseteq 1..launches /\ closed \subseteq 1..launches
    /\ holder \in alive \cup {0}
    /\ watch \in [Launches -> {"none", "wait", "close", "spawn", "done"}]
    /\ cancel \in 0..launches /\ waitDone \in 0..launches
    /\ started \in BOOLEAN /\ stopping \in BOOLEAN /\ supervising \in BOOLEAN
    /\ pushStop \in {"nil", "open", "closed"}
    /\ panicked \in BOOLEAN
    /\ pc \in [Procs -> {"idle", "launch", "publish", "ready", "started", "push", "serving",
                         "failed", "shutdown", "teardown", "kill", "await", "renew", "stopped",
                         "check", "sleep", "nap", "woken", "release", "done"}]
    /\ mine \in [Procs -> 0..launches]
    /\ kill \in [Procs -> 0..launches] /\ await \in [Procs -> 0..launches]
    /\ then \in [Procs -> {"idle", "failed", "done", "check", "renew", "stopped"}]
    /\ lingered \in BOOLEAN

(* No channel is closed twice, which would take the node down: neither a   *)
(* done channel, though a later start may have put another one on the      *)
(* struct, nor pushStop, though two Disconnects may shut the core down.    *)
NeverPanics == ~panicked

(* One supervisor at a time restarts the core: failed restarts end in      *)
(* exits of their own, and must not multiply them.                         *)
Supervises(l) == watch[l] = "spawn" \/ pc[Supervisor(l)] \notin {"idle", "done"}
OneSupervisor == \A k, l \in Launches : Supervises(k) /\ Supervises(l) => k = l

Returned == {p \in Procs : pc[p] = "stopped"}
Called == {p \in Procs : p[1] = "call" /\ pc[p] # "idle"}

(* All calls were Shutdowns and have returned, none because it gave up     *)
(* waiting, and no start has cleared stopping since: the only process that *)
(* may run is one whose start is yet to publish it, and nothing killed     *)
(* runs on. Two things break this. The late exit of a process a teardown   *)
(* gave up on counts as a crash of the next one, and a Restart may start a *)
(* core that a supervisor starts as well: in both a process is replaced on *)
(* the struct while it runs, and no Shutdown reaches it any more.          *)
StoppedMeansDown ==
    ~lingered /\ stopping /\ Called # {} /\ Called = Returned =>
        alive \subseteq {mine[p] : p \in {q \in Procs : pc[q] = "publish"}}

(* A launch is due that the bound on them leaves out.                      *)
OutOfLaunches == launches = MaxLaunches /\ \E p \in Procs : pc[p] = "launch"

(* A process that dies when no start and no supervisor is at work is       *)
(* replaced by one that answers, through restarts that fail, unless the    *)
(* core is shut down.                                                      *)
Idle == ~Recovering /\ \A l \in Launches : ~Supervises(l)
Unnoticed == \E l \in Launches : watch[l] = "wait" /\ l \notin alive
CrashIsRepaired ==
    (pc[New] = "serving" /\ holder = 0 /\ Unnoticed /\ Idle)
        ~> (holder # 0 \/ Called # {} \/ OutOfLaunches)

(* Shutdown returns, whatever supervisors and starts are doing.            *)
ShutdownReturns ==
    \A p \in Procs : pc[p] = "shutdown" ~> pc[p] \in {"stopped", "renew", "failed"}
=============================================================================
