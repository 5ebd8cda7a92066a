-------------------------------- MODULE Xray --------------------------------
(***************************************************************************)
(* The Xray core: New, the health goroutine, the user syncs and Shutdown   *)
(* around one child process at a time. A Config is an object: SyncUser and *)
(* UpdateUsers change the one x.config points to in place, the full syncs  *)
(* build a candidate, restart the core with it and only then move the      *)
(* pointer. Inbounds are independent, so one is modelled; what they do     *)
(* with accounts is in XrayConfig. A step is one section of x.mu or one    *)
(* call made outside it.                                                   *)
(***************************************************************************)
EXTENDS Integers, Sequences, SequencesExt

CONSTANTS
    Users, Accounts,
    NoAccount,
    Nobody,         \* x.mu is free
    Stoppers,       \* goroutines of the controller that call Shutdown
    Pids, NoPid,    \* process ids, used again once the process is gone
    MaxRequests,    \* bound on the user syncs
    MaxFailures,    \* maxFailures: probes in a row that fail before a restart
    Faults          \* what may go wrong: "launch", the process cannot be started;
                    \* "startup", its log shows a failure; "crash", it exits; "hang",
                    \* it stops answering; "api", a call to it fails; "ctx", a request
                    \* is cancelled; "linger", it outlives its kill by 5 s and more

ASSUME XrayAssumption ==
    /\ NoPid \notin Pids /\ MaxRequests \in Nat /\ MaxFailures \in Nat \ {0}
    /\ NoAccount \notin Accounts
    /\ Faults \subseteq {"launch", "startup", "crash", "hang", "api", "ctx", "linger"}

VARIABLES
    alive,          \* processes that run
    answers,        \* the process that answers on the API port, as a set
    hung,           \* processes that have stopped answering
    killed,         \* processes that were sent SIGKILL
    served,         \* the accounts the child that runs serves, none without one
    from,           \* the Config it was launched with, 0 without one
    process,        \* c.process, NoPid for nil
    heap,           \* the Configs: the account of each user
    config,         \* x.config
    mu,             \* who holds x.mu
    ctxDone,        \* x.cancelFunc was called
    handler,        \* x.handler: "open" or "closed"
    failures,       \* consecutiveFailures
    pc, target,     \* where each goroutine is, and the Config it restarts with, 0 for none
    snap,           \* the bytes of it that the next process will read
    batch, todo,    \* what UpdateUsers or SyncUser delivers, and the changes and calls due
    failed,         \* the request under way has an error to report
    requests,       \* how many requests have come
    panicked,       \* a nil client was dereferenced
    missed,         \* users whose call failed, or was overtaken, since the process
                    \* read its Config
    acked,          \* users the last answer reported as added
    overtaken,      \* a health restart fell between a restart and its commit
    before          \* the accounts when the request under way began

Health == "health"
Sync == "sync"
New == "New"
Procs == {New, Health, Sync} \cup Stoppers
Contents == [Users -> Accounts \cup {NoAccount}]

ASSUME GoroutineAssumption ==
    /\ Nobody \notin Procs /\ Stoppers \cap {New, Health, Sync} = {}
    /\ IsFiniteSet(Users)

processVars == <<alive, answers, hung, killed, served, from>>
localVars == <<pc, target, snap>>
requestVars == <<batch, todo, failed, requests>>
ghostVars == <<missed, acked, overtaken, before>>
vars == <<processVars, process, heap, config, mu, ctxDone, handler, failures, localVars,
          requestVars, panicked, ghostVars>>

Goto(p, label) == pc' = [pc EXCEPT ![p] = label]

(* Core.Started: the process exists and its end was not seen yet. The      *)
(* watcher sees it as it happens.                                          *)
Started == process \in alive

NoBatch == [u \in {} |-> NoAccount]

Init ==
    /\ alive = {} /\ answers = {} /\ hung = {} /\ killed = {}
    /\ served = NoBatch /\ from = 0 /\ snap = NoBatch
    /\ process = NoPid
    /\ \E c \in Contents : heap = <<c>>
    /\ before = NoBatch
    /\ config = 1
    /\ mu = Nobody /\ ctxDone = FALSE /\ handler = "open" /\ failures = 0
    /\ pc = [p \in Procs |-> IF p = New THEN "bytes" ELSE "idle"]
    /\ target = [p \in Procs |-> IF p = New THEN 1 ELSE 0]
    /\ batch = NoBatch /\ todo = <<>> /\ failed = FALSE /\ requests = 0
    /\ panicked = FALSE
    /\ missed = {} /\ acked = {} /\ overtaken = FALSE
-----------------------------------------------------------------------------
(***************************************************************************)
(* restartCoreWithConfig and Shutdown: both stop the core under x.mu.      *)
(***************************************************************************)

(* A sync is between the restart with its Config and the commit.           *)
Uncommitted == {"status", "commit", "restore", "statusRestore", "commitRestore"}

(* Core.Stop sends SIGKILL to a child that runs, which then answers nobody.*)
Kill ==
    /\ killed' = killed \cup (IF Started THEN {process} ELSE {})
    /\ answers' = answers \ killed' /\ hung' = hung \ killed'
    /\ served' = NoBatch /\ from' = 0

(* Restart of the health goroutine has read x.config before it takes the   *)
(* lock, so the Config may be the one a sync is about to replace.          *)
LockRestart(p) ==
    /\ pc[p] \in {"restart", "restore"} /\ mu = Nobody
    /\ mu' = p
    /\ Kill
    /\ Goto(p, IF pc[p] = "restore" THEN "stopRestore" ELSE "stop")
    /\ overtaken' = (p = Health /\ (target[p] # config \/ pc[Sync] \in Uncommitted))
    /\ UNCHANGED <<alive, process, heap, config, ctxDone, handler, failures, target, snap,
                   requestVars, panicked, missed, acked, before>>

(* The mutant kills only a core that answers.                              *)
LockShutdownIfAnswering(p) ==
    /\ pc[p] = "shutdown" /\ mu = Nobody
    /\ mu' = p
    /\ ctxDone' = TRUE
    /\ killed' = killed \cup answers
    /\ answers' = {}
    /\ Goto(p, "stopShutdown")
    /\ UNCHANGED <<alive, hung, served, from, process, heap, config, handler, failures, target,
                   snap, requestVars, panicked, ghostVars>>

LockShutdown(p) ==
    /\ pc[p] = "shutdown" /\ mu = Nobody
    /\ mu' = p
    /\ ctxDone' = TRUE
    /\ Kill
    /\ Goto(p, "stopShutdown")
    /\ UNCHANGED <<alive, process, heap, config, handler, failures, target, snap,
                   requestVars, panicked, ghostVars>>

(* Core.Stop waits until the process it has killed is reaped, and forgets  *)
(* it. After 5 s it kills it once more, warns and forgets it all the same: *)
(* a process the kernel has not let go of yet lives on. There is an id     *)
(* left for the next process.                                              *)
StopWait(p) ==
    /\ pc[p] \in {"stop", "stopRestore", "stopShutdown"}
    /\ Started /\ process \in killed => "linger" \in Faults /\ alive # Pids
    /\ process' = NoPid
    /\ Goto(p, CASE pc[p] = "stop" -> "bytes"
                 [] pc[p] = "stopRestore" -> "bytesRestore"
                 [] pc[p] = "stopShutdown" -> "close")
    /\ UNCHANGED <<processVars, heap, config, mu, ctxDone, handler, failures, target, snap,
                   requestVars, panicked, ghostVars>>

(* Users for whom the running request still has a change or a call to make.*)
InFlight == {todo[i][2] : i \in DOMAIN todo}

(* ToBytes. A change a request is in the middle of may be half in it.      *)
ToBytes(p) ==
    /\ pc[p] \in {"bytes", "bytesRestore"}
    /\ snap' = heap[target[p]]
    /\ missed' = InFlight
    /\ Goto(p, IF pc[p] = "bytes" THEN "launch" ELSE "launchRestore")
    /\ UNCHANGED <<processVars, process, heap, config, mu, ctxDone, handler, failures, target,
                   requestVars, panicked, acked, overtaken, before>>

AfterLaunch(p) ==
    CASE p = Health -> "top"
      [] pc[p] = "launchRestore" -> "statusRestore"
      [] OTHER -> "status"

AfterLaunchError(p) ==
    CASE p = Health -> "top"
      [] p = New -> "failed"
      [] pc[p] = "launchRestore" -> "reply"
      [] OTHER -> "restore"

(* The children that run the executable. What other parents started is     *)
(* left alone, and is not modelled.                                        *)
FindXrayProcesses == alive

KillProcessTree(S) ==
    /\ killed' = killed \cup S
    /\ answers' = answers \ S

CleanupOrphanedProcesses == KillProcessTree(FindXrayProcesses \ {process})

(* Core.Start: cleanupOrphanedProcesses kills every other child, cmd.Start *)
(* launches the new one. New calls it without the lock.                    *)
Launch(p) ==
    /\ pc[p] \in {"launch", "launchRestore"}
    /\ Pids \ alive # {}
    /\ process' = CHOOSE l \in Pids \ alive : TRUE
    /\ CleanupOrphanedProcesses
    /\ alive' = alive \cup {process'}
    /\ served' = snap /\ snap' = NoBatch
    /\ from' = target[p]
    /\ target' = [target EXCEPT ![p] = IF p = Sync THEN @ ELSE 0]
    /\ mu' = Nobody
    /\ failures' = IF p = Health THEN 0 ELSE failures
    /\ Goto(p, AfterLaunch(p))
    /\ UNCHANGED <<hung, heap, config, ctxDone, handler, requestVars, panicked, ghostVars>>

(* cmd.Start, or what precedes it, has failed. The mutant returns with     *)
(* x.mu held.                                                              *)
LaunchFailKeepsLock(p) ==
    /\ pc[p] \in {"launch", "launchRestore"} /\ "launch" \in Faults
    /\ CleanupOrphanedProcesses
    /\ failed' = (failed \/ p = Sync)
    /\ target' = [target EXCEPT ![p] = IF p = Sync THEN config ELSE 0]
    /\ snap' = NoBatch
    /\ Goto(p, AfterLaunchError(p))
    /\ UNCHANGED <<alive, hung, served, from, process, heap, config, mu, ctxDone, handler,
                   failures, batch, todo, requests, panicked, ghostVars>>

LaunchFail(p) ==
    /\ pc[p] \in {"launch", "launchRestore"} /\ "launch" \in Faults
    /\ CleanupOrphanedProcesses
    /\ mu' = Nobody
    /\ failed' = (failed \/ p = Sync)
    /\ target' = [target EXCEPT ![p] = IF p = Sync THEN config ELSE 0]
    /\ snap' = NoBatch
    /\ Goto(p, AfterLaunchError(p))
    /\ UNCHANGED <<alive, hung, served, from, process, heap, config, ctxDone, handler,
                   failures, batch, todo, requests, panicked, ghostVars>>

(* Shutdown closes the handler last, which takes its clients away.         *)
CloseHandler(p) ==
    /\ pc[p] = "close"
    /\ handler' = "closed"
    /\ mu' = Nobody
    /\ Goto(p, IF p = New THEN "failed" ELSE "stopped")
    /\ UNCHANGED <<processVars, process, heap, config, ctxDone, failures, target, snap,
                   requestVars, panicked, ghostVars>>

(* The controller shuts down a core New has handed to it.                  *)
Shutdown(p) ==
    /\ p \in Stoppers /\ pc[p] = "idle" /\ pc[New] = "up"
    /\ Goto(p, "shutdown")
    /\ UNCHANGED <<processVars, process, heap, config, mu, ctxDone, handler, failures, target,
                   snap, requestVars, panicked, ghostVars>>
-----------------------------------------------------------------------------
(***************************************************************************)
(* checkXrayStatus, of New, of a restart with a candidate and of the       *)
(* restart that restores the previous Config.                              *)
(***************************************************************************)

(* Whichever process answers, the start is taken to have succeeded.        *)
StatusOk(p) ==
    /\ pc[p] \in {"status", "statusRestore"} /\ handler = "open" /\ answers # {}
    /\ pc' = IF p = New THEN [pc EXCEPT ![New] = "up", ![Health] = "top"]
             ELSE [pc EXCEPT ![p] = IF @ = "status" THEN "commit" ELSE "commitRestore"]
    /\ UNCHANGED <<processVars, process, heap, config, mu, ctxDone, handler, failures, target,
                   snap, requestVars, panicked, ghostVars>>

(* RecordStartupLog and isStartupFailureLog: a line of the log tells of a  *)
(* failure.                                                                *)
LatestStartupFailure == "startup" \in Faults

(* The context ended, the log shows a failure, or the process is gone. The *)
(* mutant gives up without restoring what was there.                       *)
StatusFailNoRestore(p) ==
    /\ pc[p] \in {"status", "statusRestore"} /\ handler = "open"
    /\ Started => LatestStartupFailure \/ "ctx" \in Faults
    /\ failed' = (failed \/ p = Sync)
    /\ Goto(p, IF p = New THEN "shutdown" ELSE "reply")
    /\ UNCHANGED <<processVars, process, heap, config, mu, ctxDone, handler, failures, target,
                   snap, batch, todo, requests, panicked, ghostVars>>

StatusFail(p) ==
    /\ pc[p] \in {"status", "statusRestore"} /\ handler = "open"
    /\ Started => LatestStartupFailure \/ "ctx" \in Faults
    /\ failed' = (failed \/ p = Sync)
    /\ target' = [target EXCEPT ![p] = IF p = Sync THEN config ELSE 0]
    /\ Goto(p, IF p = New THEN "shutdown" ELSE IF pc[p] = "status" THEN "restore" ELSE "reply")
    /\ UNCHANGED <<processVars, process, heap, config, mu, ctxDone, handler, failures, snap,
                   batch, todo, requests, panicked, ghostVars>>

(* setConfig.                                                              *)
SetConfig(p) ==
    /\ pc[p] \in {"commit", "commitRestore"} /\ mu = Nobody
    /\ config' = target[p]
    /\ Goto(p, "reply")
    /\ UNCHANGED <<processVars, process, heap, mu, ctxDone, handler, failures, target, snap,
                   requestVars, panicked, ghostVars>>
-----------------------------------------------------------------------------
(***************************************************************************)
(* checkXrayHealth                                                         *)
(***************************************************************************)
HealthTop ==
    /\ pc[Health] = "top"
    /\ Goto(Health, IF ctxDone THEN "exited" ELSE "check")
    /\ UNCHANGED <<processVars, process, heap, config, mu, ctxDone, handler, failures, target,
                   snap, requestVars, panicked, ghostVars>>

(* A goroutine is inside Core.Stop, which holds c.mu to its end.           *)
StopHoldsMu == \E p \in Procs : pc[p] \in {"stop", "stopRestore", "stopShutdown"}

(* Restarting() waits for c.mu; then GetSysStats looks for its client.     *)
Restarting == \E p \in Procs \ {New} : pc[p] \in {"bytes", "bytesRestore", "launch", "launchRestore"}

HealthCheck ==
    /\ pc[Health] = "check" /\ ~StopHoldsMu
    /\ failures' = IF Restarting THEN 0 ELSE failures
    /\ panicked' = (~Restarting /\ handler = "closed")
    /\ Goto(Health, IF Restarting THEN "top" ELSE "await")
    /\ UNCHANGED <<processVars, process, heap, config, mu, ctxDone, handler, target, snap,
                   requestVars, ghostVars>>

ProbeOk ==
    /\ pc[Health] = "await" /\ answers # {} /\ ~ctxDone
    /\ failures' = 0
    /\ Goto(Health, "top")
    /\ UNCHANGED <<processVars, process, heap, config, mu, ctxDone, handler, target, snap,
                   requestVars, panicked, ghostVars>>

(* A probe cancelled by Shutdown counts as well: the error of the API is a *)
(* status, never context.Canceled itself.                                  *)
ProbeFail ==
    /\ pc[Health] = "await" /\ (answers = {} \/ ctxDone \/ "api" \in Faults)
    /\ failures' = IF failures < MaxFailures THEN failures + 1 ELSE failures
    /\ Goto(Health, "judge")
    /\ UNCHANGED <<processVars, process, heap, config, mu, ctxDone, handler, target, snap,
                   requestVars, panicked, ghostVars>>

(* The mutant restarts a core that hangs only when its process is gone.    *)
JudgeProcessOnly ==
    /\ pc[Health] = "judge"
    /\ IF ~Started
       THEN target' = [target EXCEPT ![Health] = config] /\ Goto(Health, "restart")
       ELSE UNCHANGED target /\ Goto(Health, "top")
    /\ UNCHANGED <<processVars, process, heap, config, mu, ctxDone, handler, failures, snap,
                   requestVars, panicked, ghostVars>>

Judge ==
    /\ pc[Health] = "judge"
    /\ IF ~Started \/ failures >= MaxFailures
       THEN target' = [target EXCEPT ![Health] = config] /\ Goto(Health, "restart")
       ELSE UNCHANGED target /\ Goto(Health, "top")
    /\ UNCHANGED <<processVars, process, heap, config, mu, ctxDone, handler, failures, snap,
                   requestVars, panicked, ghostVars>>
-----------------------------------------------------------------------------
(***************************************************************************)
(* The user syncs, one at a time under syncMu.                             *)
(***************************************************************************)
Arrive ==
    /\ pc[Sync] = "idle" /\ pc[New] = "up" /\ requests < MaxRequests
    /\ requests' = requests + 1
    /\ UNCHANGED failed
    /\ before' = heap[config]

(* SyncUsers and UpdateUsersAndRestart: a clone with the users of the      *)
(* request, or with the batch laid over it. The mutant works on the Config *)
(* itself.                                                                 *)
SyncUsersInPlace(c) ==
    /\ Arrive
    /\ heap' = [heap EXCEPT ![config] = c]
    /\ target' = [target EXCEPT ![Sync] = config]
    /\ Goto(Sync, "restart")
    /\ UNCHANGED <<processVars, process, config, mu, ctxDone, handler, failures, snap, batch,
                   todo, panicked, missed, acked, overtaken>>

SyncUsers(c) ==
    /\ Arrive
    /\ heap' = Append(heap, c)
    /\ target' = [target EXCEPT ![Sync] = Len(heap) + 1]
    /\ Goto(Sync, "restart")
    /\ UNCHANGED <<processVars, process, config, mu, ctxDone, handler, failures, snap, batch,
                   todo, panicked, missed, acked, overtaken>>

(***************************************************************************)
(* SyncUser and UpdateUsers: what is due, in order. "set" changes the      *)
(* Config, "remove" and "add" are calls to the core.                       *)
(***************************************************************************)
(* SyncUser takes the user off the core before it changes the Config.      *)
SyncUserSteps(b, u) ==
    <<<<"remove", u>>, <<"set", u>>>> \o IF b[u] = NoAccount THEN <<>> ELSE <<<<"add", u>>>>

(* UpdateUsers changes the Config first, then makes the calls of those who *)
(* leave, one each, and of those who are added, two each. The mutant makes *)
(* no calls for those who leave.                                           *)
UpdateUsersStepsAddOnly(b) ==
    LET leave == SetToSeq({u \in DOMAIN b : b[u] = NoAccount})
        stay == SetToSeq({u \in DOMAIN b : b[u] # NoAccount})
        order == leave \o stay
    IN  [i \in 1..Len(order) |-> <<"set", order[i]>>]
            \o [i \in 1..2 * Len(stay) |->
                   <<IF i % 2 = 1 THEN "remove" ELSE "add", stay[(i + 1) \div 2]>>]

UpdateUsersSteps(b) ==
    LET leave == SetToSeq({u \in DOMAIN b : b[u] = NoAccount})
        stay == SetToSeq({u \in DOMAIN b : b[u] # NoAccount})
        order == leave \o stay
    IN  [i \in 1..Len(order) |-> <<"set", order[i]>>]
            \o [i \in 1..Len(leave) |-> <<"remove", leave[i]>>]
            \o [i \in 1..2 * Len(stay) |->
                   <<IF i % 2 = 1 THEN "remove" ELSE "add", stay[(i + 1) \div 2]>>]

SyncUser(b) ==
    /\ Arrive
    /\ \E u \in DOMAIN b : DOMAIN b = {u} /\ todo' = SyncUserSteps(b, u)
    /\ batch' = b
    /\ Goto(Sync, "calls")
    /\ UNCHANGED <<processVars, process, heap, config, mu, ctxDone, handler, failures, target,
                   snap, panicked, missed, acked, overtaken>>

UpdateUsers(b) ==
    /\ Arrive
    /\ todo' = UpdateUsersSteps(b)
    /\ batch' = b
    /\ Goto(Sync, "calls")
    /\ UNCHANGED <<processVars, process, heap, config, mu, ctxDone, handler, failures, target,
                   snap, panicked, missed, acked, overtaken>>

Due(op) == pc[Sync] = "calls" /\ todo # <<>> /\ todo[1][1] = op

(* inbound.updateUser, removeUser and updateUsers.                         *)
Set ==
    /\ Due("set")
    /\ heap' = [heap EXCEPT ![config][todo[1][2]] = batch[todo[1][2]]]
    /\ todo' = Tail(todo)
    /\ UNCHANGED <<processVars, process, config, mu, ctxDone, handler, failures, localVars,
                   batch, failed, requests, panicked, ghostVars>>

(* AlterInbound reaches the process that answers. AddUser is refused for a *)
(* user who is there already.                                              *)
Apply(u, a) ==
    /\ answers # {}
    /\ a = NoAccount \/ served[u] = NoAccount
    /\ served' = [served EXCEPT ![u] = a]

Account(op, u) == IF op = "remove" THEN NoAccount ELSE batch[u]

CallOk(op) ==
    LET u == todo[1][2]
    IN  /\ Due(op) /\ handler = "open"
        /\ Apply(u, Account(op, u))
        /\ missed' = missed \ {u}
        /\ todo' = Tail(todo)
        /\ UNCHANGED <<alive, answers, hung, killed, from, process, heap, config, mu,
                       ctxDone, handler, failures, localVars, batch, failed, requests, panicked,
                       acked, overtaken, before>>

(* The call fails: nobody answers, the user is there already, the request  *)
(* is cancelled, or the core has applied it and the answer is lost. Only   *)
(* AddUser's error is reported. The mutant reports neither.                *)
CallFailSilently(op) ==
    LET u == todo[1][2]
    IN  /\ Due(op) /\ handler = "open"
        /\ \/ UNCHANGED served /\ (answers = {} \/ "api" \in Faults)
           \/ UNCHANGED served /\ op = "add" /\ answers # {} /\ served[u] # NoAccount
           \/ "api" \in Faults /\ Apply(u, Account(op, u))
        /\ missed' = missed \cup {u}
        /\ todo' = Tail(todo)
        /\ UNCHANGED <<alive, answers, hung, killed, from, process, heap, config, mu,
                       ctxDone, handler, failures, localVars, batch, failed, requests, panicked,
                       acked, overtaken, before>>

CallFail(op) ==
    LET u == todo[1][2]
    IN  /\ Due(op) /\ handler = "open"
        /\ \/ UNCHANGED served /\ (answers = {} \/ "api" \in Faults)
           \/ UNCHANGED served /\ op = "add" /\ answers # {} /\ served[u] # NoAccount
           \/ "api" \in Faults /\ Apply(u, Account(op, u))
        /\ missed' = missed \cup {u}
        /\ failed' = (failed \/ op = "add")
        /\ todo' = Tail(todo)
        /\ UNCHANGED <<alive, answers, hung, killed, from, process, heap, config, mu,
                       ctxDone, handler, failures, localVars, batch, requests, panicked, acked,
                       overtaken, before>>

(* A client of a closed handler is dereferenced: the node goes down.       *)
Panic(p) ==
    /\ handler = "closed"
    /\ pc[p] \in {"status", "statusRestore", "calls"}
    /\ pc[p] = "calls" => Due("remove") \/ Due("add")
    /\ panicked' = TRUE
    /\ UNCHANGED <<processVars, process, heap, config, mu, ctxDone, handler, failures, localVars,
                   requestVars, ghostVars>>
(* The request returns.                                                    *)
Reply ==
    /\ pc[Sync] = "reply" \/ (pc[Sync] = "calls" /\ todo = <<>>)
    /\ acked' = (acked \ DOMAIN batch)
                    \cup {u \in DOMAIN batch : ~failed /\ batch[u] # NoAccount}
    /\ batch' = NoBatch /\ before' = NoBatch /\ failed' = FALSE
    /\ target' = [target EXCEPT ![Sync] = 0]
    /\ Goto(Sync, "idle")
    /\ UNCHANGED <<processVars, process, heap, config, mu, ctxDone, handler, failures, snap,
                   todo, requests, panicked, missed, overtaken>>
-----------------------------------------------------------------------------
(***************************************************************************)
(* The Xray process: it binds its API port and answers, or exits because   *)
(* another, which may be one that outlives its kill, has the port; it may  *)
(* crash or hang; killed, it answers no more and exits in the end.         *)
(***************************************************************************)
Bind(l) ==
    /\ l \in alive \ (killed \cup hung) /\ answers = {}
    /\ answers' = {l}
    /\ UNCHANGED <<alive, hung, killed, served, from, process, heap, config, mu,
                   ctxDone, handler, failures, localVars, requestVars, panicked, ghostVars>>

Hang(l) ==
    /\ "hang" \in Faults /\ l \in answers
    /\ hung' = hung \cup {l}
    /\ answers' = {}
    /\ UNCHANGED <<alive, killed, served, from, process, heap, config, mu, ctxDone,
                   handler, failures, localVars, requestVars, panicked, ghostVars>>

Exit(l) ==
    /\ l \in alive
    /\ l \in killed \/ "crash" \in Faults \/ (answers \cup killed) \cap (alive \ {l}) # {}
    /\ alive' = alive \ {l}
    /\ answers' = answers \ {l} /\ hung' = hung \ {l} /\ killed' = killed \ {l}
    /\ served' = (IF l = process THEN NoBatch ELSE served)
    /\ from' = (IF l = process THEN 0 ELSE from)
    /\ UNCHANGED <<process, heap, config, mu, ctxDone, handler, failures, localVars,
                   requestVars, panicked, ghostVars>>
-----------------------------------------------------------------------------
Restarter(p) ==
    \/ LockRestart(p) \/ StopWait(p) \/ ToBytes(p) \/ Launch(p) \/ LaunchFail(p)
    \/ StatusOk(p) \/ StatusFail(p) \/ SetConfig(p)
    \/ LockShutdown(p) \/ CloseHandler(p) \/ Panic(p)
HealthStep == HealthTop \/ HealthCheck \/ ProbeOk \/ ProbeFail \/ Judge
SyncStep == Set \/ (\E op \in {"remove", "add"} : CallOk(op) \/ CallFail(op)) \/ Reply

Batches == UNION {[V -> Accounts \cup {NoAccount}] : V \in SUBSET Users \ {{}}}

Next ==
    /\ ~panicked
    /\ \/ \E p \in Procs : Restarter(p) \/ Shutdown(p)
       \/ HealthStep \/ SyncStep
       \/ \E c \in Contents : SyncUsers(c)
       \/ \E b \in Batches : SyncUser(b) \/ UpdateUsers(b)
       \/ \E l \in Pids : Bind(l) \/ Hang(l) \/ Exit(l)

Spec == Init /\ [][Next]_vars

(* The health goroutine and a sync that can run do, a waiter gets x.mu in  *)
(* the end, and a killed process exits sooner or later. Launches do not    *)
(* fail for ever, nor do processes for ever exit before they answer.       *)
Fairness ==
    /\ WF_vars(~panicked /\ (HealthStep \/ Restarter(Health)))
    /\ SF_vars(~panicked /\ (SyncStep \/ Restarter(Sync)))
    /\ SF_vars(~panicked /\ \E p \in {Health, Sync} : Launch(p))
    /\ SF_vars(~panicked /\ \E l \in Pids : Bind(l))
    /\ WF_vars(~panicked /\ \E l \in killed : Exit(l))

FairSpec == Spec /\ Fairness
-----------------------------------------------------------------------------
(* Apart from the child it keeps, the core leaves no process behind that   *)
(* was not sent a kill: not after a restart, a failed launch or a restore, *)
(* nor when a stop gave up waiting for a process that then lingers beside  *)
(* the next one. So every process but the kept one is on its way out.      *)
NoOrphan == alive \ killed \subseteq {process}

(* No request and no restart is under way.                                 *)
Quiet ==
    /\ pc[Sync] = "idle" /\ mu = Nobody
    /\ pc[Health] # "restart" /\ \A p \in Stoppers : pc[p] = "idle"

(* The core at rest runs the Config the node has committed, after any      *)
(* sequence of failed syncs and restores, unless the health goroutine      *)
(* restarted it in the middle of a sync.                                   *)
CommittedConfigRuns ==
    Quiet /\ ~overtaken /\ answers # {} => from = config

(* And it serves the accounts of that Config, though they are delivered by *)
(* calls that fail, apart from users a call for whom has failed since the  *)
(* process read the Config, or was under way when it did.                  *)
ServesConfig ==
    Quiet /\ answers # {} /\ from = config =>
        \A u \in Users \ missed : served[u] = heap[config][u]

(* An answer without an error to a sync that adds a user means that the    *)
(* core has them: only those that remove one may have missed it.           *)
AckedUserIsServed == pc[Sync] = "idle" => acked \cap missed = {}

(* A full sync that fails leaves the users the node had before.            *)
FailedSyncKeepsUsers == pc[Sync] = "reply" /\ failed => heap[config] = before

Stopped == \E p \in Stoppers : pc[p] # "idle"

(* A core that crashed, or that hangs, is replaced by one that answers,    *)
(* unless it is shut down.                                                 *)
OutageIsRepaired ==
    (pc[New] = "up" /\ answers = {}) ~> (answers # {} \/ Stopped)

(* A sync returns, whatever becomes of the core it restarts.               *)
SyncReturns == pc[Sync] # "idle" ~> pc[Sync] = "idle" \/ Stopped
=============================================================================
