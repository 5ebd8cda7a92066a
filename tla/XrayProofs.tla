----------------------------- MODULE XrayProofs -----------------------------
(***************************************************************************)
(* Proofs about Xray, for any number of users, requests, processes and     *)
(* goroutines that shut it down, and whatever fails, and about XrayConfig, *)
(* for any inbounds, users and routing.                                    *)
(***************************************************************************)
EXTENDS Xray, XrayConfig, FiniteSetTheorems, WellFoundedInduction, SequenceTheorems, TLAPS
-----------------------------------------------------------------------------
(***************************************************************************)
(* The core.                                                               *)
(***************************************************************************)
Stops == {"stop", "stopRestore", "stopShutdown"}
Writes == {"bytes", "bytesRestore"}
Launches == {"launch", "launchRestore"}
Candidate == {"restart", "stop", "bytes", "launch", "status", "commit"}
Restoring == {"restore", "stopRestore", "bytesRestore", "launchRestore", "statusRestore",
              "commitRestore"}
Settled == {"idle", "restart", "calls", "reply"}

(* The process that can serve: it runs and was not sent a kill.            *)
Live == alive \ killed

(* Where each goroutine can be. Until New has handed the core over it is   *)
(* alone, which is why it needs no lock.                                   *)
Control ==
    /\ DOMAIN pc = Procs
    /\ pc[New] \in {"bytes", "launch", "status", "up", "shutdown", "stopShutdown", "close",
                    "failed"}
    /\ pc[Health] \in {"idle", "top", "exited", "check", "await", "judge", "restart", "stop",
                       "bytes", "launch"}
    /\ pc[Sync] \in Candidate \cup Restoring \cup {"idle", "calls", "reply"}
    /\ \A p \in Stoppers : pc[p] \in {"idle", "shutdown", "stopShutdown", "close", "stopped"}
    /\ pc[New] # "up" => \A p \in Procs \ {New} : pc[p] = "idle"

(* Stop to launch, and stop to close, are one section of x.mu.             *)
Holds(p) == pc[p] \in Stops \cup {"close"} \/ (p # New /\ pc[p] \in Writes \cup Launches)
Exclusion == \A p \in Procs : Holds(p) => mu = p

(* The one process without a kill is the one the core keeps, and at a stop *)
(* there is none.                                                          *)
Children ==
    /\ alive \subseteq Pids /\ killed \subseteq alive /\ answers \subseteq Live
    /\ Live \subseteq {process}
    /\ \A p \in Procs : pc[p] \in Stops => process \notin Live
    /\ \A p \in Procs : pc[p] \in Writes \cup Launches => process = NoPid

(* Every pointer to a Config is to one, or nil.                            *)
Configs ==
    /\ heap \in Seq(Contents) /\ config \in 1..Len(heap) /\ from \in 0..Len(heap)
    /\ target \in [Procs -> 0..Len(heap)]
    /\ process \in Live => from # 0 /\ served \in Contents
    /\ \A p \in Procs : pc[p] \in Candidate \cup Restoring =>
          target[p] # 0 \/ (p = New /\ pc[p] = "status")

(* A full sync leaves the committed Config alone and, once it has failed,  *)
(* goes back to it.                                                        *)
FullSync ==
    /\ failed \in BOOLEAN
    /\ pc[Sync] \in Candidate => ~failed /\ heap[config] = before
    /\ pc[Sync] \in Restoring => target[Sync] = config /\ heap[config] = before
    /\ pc[Sync] = "reply" => ~failed \/ heap[config] = before
    /\ pc[Sync] = "idle" => ~failed
    /\ pc[Sync] \in {"idle", "calls"} => target[Sync] = 0

(* What is due: each change and call is for a user of the batch, and a     *)
(* user who is added has the add still to come. At first every user has a  *)
(* change and a call due.                                                  *)
Dues == {"set", "remove", "add"} \X Users
Ordered(t, b) ==
    \A i \in DOMAIN t :
        /\ t[i][2] \in DOMAIN b
        /\ b[t[i][2]] # NoAccount => \E j \in i..Len(t) : t[j] = <<"add", t[i][2]>>
Complete(t, b) ==
    \A u \in DOMAIN b :
        /\ \E i \in DOMAIN t : t[i] = <<"set", u>>
        /\ \E i \in DOMAIN t : t[i] = <<"remove", u>>

(* A change that is no longer due is in the Config.                        *)
Delivery ==
    /\ batch \in Batches \cup {NoBatch}
    /\ todo \in Seq(Dues) /\ Ordered(todo, batch)
    /\ pc[Sync] # "calls" => batch = NoBatch /\ todo = <<>>
    /\ \A u \in DOMAIN batch :
          \/ \E i \in DOMAIN todo : todo[i] = <<"set", u>>
          \/ heap[config][u] = batch[u]

(* A user whose calls failed is not one of an earlier answer, and will not *)
(* be one of the next.                                                     *)
Answering ==
    /\ acked \cap missed \subseteq DOMAIN batch
    /\ \A u \in DOMAIN batch \cap missed :
          batch[u] # NoAccount => failed \/ \E i \in DOMAIN todo : todo[i] = <<"add", u>>

(* The users with a call due, and the account a user has in a Config once  *)
(* the request under way is through.                                       *)
Owed == {u \in Users : \E i \in DOMAIN todo : todo[i][1] # "set" /\ todo[i][2] = u}
Want(c, u) == IF u \in DOMAIN batch THEN batch[u] ELSE heap[c][u]

(* The live process, and the bytes of the one to come, agree with their    *)
(* Config about every user with no call due or missed, as long as that is  *)
(* the committed Config or the one that is to replace it.                  *)
Agrees(f, c) ==
    c \in {config, target[Sync]} => \A u \in Users \ (missed \cup Owed) : f[u] = Want(c, u)
Serving ==
    /\ process \in Live => Agrees(served, from)
    /\ \A p \in Procs : pc[p] \in Launches => snap \in Contents /\ Agrees(snap, target[p])

(* The live process was launched with the Config that is, or after a sync  *)
(* under way will be, committed.                                           *)
Running ==
    /\ overtaken \in BOOLEAN
    /\ pc[New] \in {"bytes", "launch"} => target[New] = config
    /\ ~overtaken /\ process \in Live =>
          /\ pc[Sync] \in Settled => from = config
          /\ pc[Sync] \in {"status", "commit", "statusRestore", "commitRestore"} =>
                from = target[Sync]
    /\ ~overtaken /\ pc[Health] \in {"stop", "bytes", "launch"} =>
          target[Health] = config /\ pc[Sync] \in Settled

Inv ==
    /\ Control /\ Exclusion /\ Children /\ Configs /\ FullSync /\ Delivery /\ Answering
    /\ Serving /\ Running
-----------------------------------------------------------------------------
(* Who the goroutines are.                                                 *)
LEMMA Goroutines ==
    /\ New \in Procs /\ Health \in Procs /\ Sync \in Procs
    /\ New # Health /\ New # Sync /\ Health # Sync
    /\ \A p \in Procs : p = New \/ p = Health \/ p = Sync \/ p \in Stoppers
    /\ \A p \in Stoppers : p \in Procs /\ p # New /\ p # Health /\ p # Sync
    /\ Nobody \notin Procs /\ NoPid \notin Pids /\ IsFiniteSet(Users)
BY GoroutineAssumption, XrayAssumption DEF Procs, New, Health, Sync

(* A step moves one goroutine along its code.                              *)
LEMMA ControlStep ==
    ASSUME Control, [Next]_vars
    PROVE  Control'
<1> USE Goroutines DEF Control, Candidate, Restoring, Goto
<1>1. CASE UNCHANGED vars
  BY <1>1 DEF vars, localVars
<1>2. ASSUME NEW p \in Procs, Restarter(p) \/ Shutdown(p)
      PROVE  Control'
  <2>1. CASE LockRestart(p)
    BY <2>1 DEF LockRestart
  <2>2. CASE StopWait(p)
    BY <2>2 DEF StopWait
  <2>3. CASE ToBytes(p)
    BY <2>3 DEF ToBytes
  <2>4. CASE Launch(p)
    BY <2>4 DEF Launch, AfterLaunch
  <2>5. CASE LaunchFail(p)
    BY <2>5 DEF LaunchFail, AfterLaunchError
  <2>6. CASE StatusOk(p)
    BY <2>6 DEF StatusOk
  <2>7. CASE StatusFail(p)
    BY <2>7 DEF StatusFail
  <2>8. CASE SetConfig(p) \/ CloseHandler(p)
    BY <2>8 DEF SetConfig, CloseHandler
  <2>9. CASE LockShutdown(p) \/ Shutdown(p)
    BY <2>9 DEF LockShutdown, Shutdown
  <2>10. CASE Panic(p)
    BY <2>10 DEF Panic, localVars
  <2> QED
    BY <1>2, <2>1, <2>2, <2>3, <2>4, <2>5, <2>6, <2>7, <2>8, <2>9, <2>10 DEF Restarter
<1>3. CASE HealthStep
  BY <1>3 DEF HealthStep, HealthTop, HealthCheck, ProbeOk, ProbeFail, Judge
<1>4. CASE SyncStep
  BY <1>4 DEF SyncStep, Set, CallOk, CallFail, Reply, Due, localVars
<1>5. ASSUME NEW c \in Contents, SyncUsers(c)
      PROVE  Control'
  BY <1>5 DEF SyncUsers, Arrive
<1>6. ASSUME NEW b \in Batches, SyncUser(b) \/ UpdateUsers(b)
      PROVE  Control'
  BY <1>6 DEF SyncUser, UpdateUsers, Arrive
<1>7. ASSUME NEW l \in Pids, Bind(l) \/ Hang(l) \/ Exit(l)
      PROVE  Control'
  BY <1>7 DEF Bind, Hang, Exit, localVars
<1> QED
  BY <1>1, <1>2, <1>3, <1>4, <1>5, <1>6, <1>7 DEF Next

(* x.mu keeps the sections apart.                                          *)
LEMMA ExclusionStep ==
    ASSUME Control, Exclusion, [Next]_vars
    PROVE  Exclusion'
<1> USE Goroutines DEF Control, Candidate, Restoring, Exclusion, Holds, Stops, Writes, Launches, Goto
<1>1. CASE UNCHANGED vars
  BY <1>1 DEF vars, localVars
<1>2. ASSUME NEW p \in Procs, Restarter(p) \/ Shutdown(p)
      PROVE  Exclusion'
  <2>1. CASE LockRestart(p) \/ LockShutdown(p)
    BY <2>1 DEF LockRestart, LockShutdown
  <2>2. CASE StopWait(p)
    BY <2>2 DEF StopWait
  <2>3. CASE ToBytes(p)
    BY <2>3 DEF ToBytes
  <2>4. CASE Launch(p)
    <3>1. \A q \in Procs \ {p} : ~Holds(q)
      BY <2>4 DEF Launch
    <3> QED
      BY <2>4, <3>1 DEF Launch, AfterLaunch
  <2>5. CASE LaunchFail(p)
    <3>1. \A q \in Procs \ {p} : ~Holds(q)
      BY <2>5 DEF LaunchFail
    <3> QED
      BY <2>5, <3>1 DEF LaunchFail, AfterLaunchError
  <2>6. CASE StatusOk(p) \/ StatusFail(p)
    BY <2>6 DEF StatusOk, StatusFail
  <2>7. CASE SetConfig(p)
    BY <2>7 DEF SetConfig
  <2>8. CASE CloseHandler(p)
    BY <2>8 DEF CloseHandler
  <2>9. CASE Panic(p) \/ Shutdown(p)
    BY <2>9 DEF Panic, Shutdown, localVars
  <2> QED
    BY <1>2, <2>1, <2>2, <2>3, <2>4, <2>5, <2>6, <2>7, <2>8, <2>9 DEF Restarter
<1>3. CASE HealthStep
  BY <1>3 DEF HealthStep, HealthTop, HealthCheck, ProbeOk, ProbeFail, Judge
<1>4. CASE SyncStep
  BY <1>4 DEF SyncStep, Set, CallOk, CallFail, Reply, Due, localVars
<1>5. ASSUME NEW c \in Contents, SyncUsers(c)
      PROVE  Exclusion'
  BY <1>5 DEF SyncUsers, Arrive
<1>6. ASSUME NEW b \in Batches, SyncUser(b) \/ UpdateUsers(b)
      PROVE  Exclusion'
  BY <1>6 DEF SyncUser, UpdateUsers, Arrive
<1>7. ASSUME NEW l \in Pids, Bind(l) \/ Hang(l) \/ Exit(l)
      PROVE  Exclusion'
  BY <1>7 DEF Bind, Hang, Exit, localVars
<1> QED
  BY <1>1, <1>2, <1>3, <1>4, <1>5, <1>6, <1>7 DEF Next

(* Whoever stops or launches is alone in it.                               *)
LEMMA Alone ==
    ASSUME Control, Exclusion, NEW p \in Procs, NEW q \in Procs,
           pc[p] \in Stops \cup Writes \cup Launches, pc[q] \in Stops \cup Writes \cup Launches
    PROVE  p = q
BY Goroutines DEF Control, Exclusion, Holds, Stops, Writes, Launches

(* A stop or a launch kills what there was, and only a launch adds to it.  *)
LEMMA ChildrenStep ==
    ASSUME Control, Exclusion, Children, [Next]_vars
    PROVE  Children'
<1> USE Goroutines DEF Control, Candidate, Restoring, Children, Live, Stops, Writes, Launches, Goto
<1>1. CASE UNCHANGED vars
  BY <1>1 DEF vars, localVars, processVars
<1>2. ASSUME NEW p \in Procs, Restarter(p) \/ Shutdown(p)
      PROVE  Children'
  <2>1. CASE LockRestart(p)
    <3>1. process \notin Live'
      BY <2>1 DEF LockRestart, Kill, Started
    <3>2. \A q \in Procs : pc[q] \notin Writes \cup Launches \/ q = New
      BY <2>1 DEF LockRestart, Exclusion, Holds
    <3>3. pc[New] \notin Writes \cup Launches
      BY <2>1 DEF LockRestart
    <3> QED
      BY <2>1, <3>1, <3>2, <3>3 DEF LockRestart, Kill, Started
  <2>2. CASE LockShutdown(p)
    <3>1. process \notin Live'
      BY <2>2 DEF LockShutdown, Kill, Started
    <3>2. \A q \in Procs : pc[q] \notin Writes \cup Launches
      BY <2>2 DEF LockShutdown, Exclusion, Holds
    <3> QED
      BY <2>2, <3>1, <3>2 DEF LockShutdown, Kill, Started
  <2>3. CASE StopWait(p)
    <3>1. Live = {}
      BY <2>3 DEF StopWait
    <3>2. process' = NoPid /\ UNCHANGED processVars
      BY <2>3 DEF StopWait
    <3> QED
      BY <3>1, <3>2 DEF processVars
  <2>4. CASE ToBytes(p)
    BY <2>4 DEF ToBytes, processVars
  <2>5. CASE Launch(p)
    <3>1. \A q \in Procs \ {p} : pc[q] \notin Stops \cup Writes \cup Launches
      BY <2>5, Alone DEF Launch
    <3>2. pc'[p] \notin Stops \cup Writes \cup Launches
      BY <2>5 DEF Launch, AfterLaunch
    <3>3. \A q \in Procs : pc'[q] \notin Stops \cup Writes \cup Launches
      BY <2>5, <3>1, <3>2 DEF Launch
    <3>4. Live = {} /\ process = NoPid
      BY <2>5 DEF Launch
    <3>5. /\ process' \in Pids \ alive /\ alive' = alive \cup {process'}
          /\ killed' = killed \cup alive /\ answers' = answers \ alive
      <4>1. process' \in Pids \ alive
        BY <2>5 DEF Launch
      <4> QED
        BY <2>5, <3>4, <4>1 DEF Launch, CleanupOrphanedProcesses, KillProcessTree, FindXrayProcesses
    <3> QED
      BY <3>3, <3>4, <3>5
  <2>6. CASE LaunchFail(p)
    <3>1. \A q \in Procs \ {p} : pc[q] \notin Stops \cup Writes \cup Launches
      BY <2>6, Alone DEF LaunchFail
    <3>2. pc'[p] \notin Stops \cup Writes \cup Launches
      BY <2>6 DEF LaunchFail, AfterLaunchError
    <3>3. \A q \in Procs : pc'[q] \notin Stops \cup Writes \cup Launches
      BY <2>6, <3>1, <3>2 DEF LaunchFail
    <3>4. Live = {} /\ process = NoPid
      BY <2>6 DEF LaunchFail
    <3> QED
      BY <2>6, <3>3, <3>4
      DEF LaunchFail, CleanupOrphanedProcesses, KillProcessTree, FindXrayProcesses
  <2>7. CASE StatusOk(p) \/ StatusFail(p)
    BY <2>7 DEF StatusOk, StatusFail, processVars
  <2>8. CASE SetConfig(p) \/ CloseHandler(p)
    BY <2>8 DEF SetConfig, CloseHandler, processVars
  <2>9. CASE Panic(p) \/ Shutdown(p)
    BY <2>9 DEF Panic, Shutdown, localVars, processVars
  <2> QED
    BY <1>2, <2>1, <2>2, <2>3, <2>4, <2>5, <2>6, <2>7, <2>8, <2>9 DEF Restarter
<1>3. CASE HealthStep
  BY <1>3 DEF HealthStep, HealthTop, HealthCheck, ProbeOk, ProbeFail, Judge, processVars
<1>4. CASE SyncStep
  BY <1>4 DEF SyncStep, Set, CallOk, CallFail, Reply, Due, localVars, processVars
<1>5. ASSUME NEW c \in Contents, SyncUsers(c)
      PROVE  Children'
  BY <1>5 DEF SyncUsers, Arrive, processVars
<1>6. ASSUME NEW b \in Batches, SyncUser(b) \/ UpdateUsers(b)
      PROVE  Children'
  BY <1>6 DEF SyncUser, UpdateUsers, Arrive, processVars
<1>7. ASSUME NEW l \in Pids, Bind(l) \/ Hang(l) \/ Exit(l)
      PROVE  Children'
  BY <1>7 DEF Bind, Hang, Exit, localVars
<1> QED
  BY <1>1, <1>2, <1>3, <1>4, <1>5, <1>6, <1>7 DEF Next
-----------------------------------------------------------------------------
(***************************************************************************)
(* The changes and calls of a request.                                     *)
(***************************************************************************)

(* A finite set is listed without loss.                                    *)
LEMMA SetToSeqListsAll ==
    ASSUME NEW S, IsFiniteSet(S)
    PROVE  /\ SetToSeq(S) \in Seq(S)
           /\ \A x \in S : \E i \in 1..Len(SetToSeq(S)) : SetToSeq(S)[i] = x
<1> DEFINE n == Cardinality(S)
           f == SetToSeq(S)
           R == {f[i] : i \in 1..n}
<1>1. n \in Nat /\ \E g \in [1..n -> S] : IsInjective(g)
  BY FS_CardinalityType DEF ExistsBijection, Bijection, Injection
<1>2. f \in [1..n -> S] /\ IsInjective(f)
  BY <1>1 DEF SetToSeq
<1>3. f \in Bijection(1..n, R)
  BY <1>2 DEF Bijection, Injection, Surjection
<1>4. IsFiniteSet(R) /\ Cardinality(R) = n
  <2>1. ExistsBijection(1..n, R)
    BY <1>3 DEF ExistsBijection
  <2>2. IsFiniteSet(R)
    BY <1>1, <2>1, FS_NatBijection
  <2> QED
    BY <1>1, <2>1, <2>2, FS_CountingElements
<1>5. R = S
  <2>1. R \subseteq S
    BY <1>2
  <2> QED
    BY <1>4, <2>1, FS_Subset
<1> HIDE DEF f
<1>6. f \in Seq(S) /\ Len(f) = n
  BY <1>1, <1>2
<1> QED
  BY <1>5, <1>6 DEF f

(* What \o puts where.                                                     *)
LEMMA ConcatAt ==
    ASSUME NEW T, NEW s \in Seq(T), NEW r \in Seq(T)
    PROVE  /\ s \o r \in Seq(T) /\ Len(s \o r) = Len(s) + Len(r)
           /\ \A i \in 1..Len(s) : (s \o r)[i] = s[i]
           /\ \A i \in 1..Len(r) : (s \o r)[Len(s) + i] = r[i]
OBVIOUS

LEMMA SyncUserStepsAreDue ==
    ASSUME NEW b \in Batches, NEW u \in DOMAIN b, DOMAIN b = {u}
    PROVE  /\ SyncUserSteps(b, u) \in Seq(Dues)
           /\ Ordered(SyncUserSteps(b, u), b)
           /\ Complete(SyncUserSteps(b, u), b)
<1> DEFINE t == SyncUserSteps(b, u)
<1>1. u \in Users
  BY DEF Batches
<1>2. CASE b[u] = NoAccount
  <2>1. t = <<<<"remove", u>>, <<"set", u>>>>
    BY <1>2 DEF SyncUserSteps
  <2> QED
    BY <1>1, <1>2, <2>1 DEF Dues, Ordered, Complete
<1>3. CASE b[u] # NoAccount
  <2>1. t = <<<<"remove", u>>, <<"set", u>>>> \o <<<<"add", u>>>>
    BY <1>3 DEF SyncUserSteps
  <2> QED
    BY <1>1, <1>3, <2>1 DEF Dues, Ordered, Complete
<1> QED
  BY <1>2, <1>3

LEMMA UpdateUsersStepsAreDue ==
    ASSUME NEW b \in Batches
    PROVE  /\ UpdateUsersSteps(b) \in Seq(Dues)
           /\ Ordered(UpdateUsersSteps(b), b)
           /\ Complete(UpdateUsersSteps(b), b)
<1> DEFINE L == {u \in DOMAIN b : b[u] = NoAccount}
           S == {u \in DOMAIN b : b[u] # NoAccount}
           leave == SetToSeq(L)
           stay == SetToSeq(S)
           n == Len(leave)
           m == Len(stay)
           order == leave \o stay
           X == [i \in 1..Len(order) |-> <<"set", order[i]>>]
           Y == [i \in 1..n |-> <<"remove", leave[i]>>]
           Z == [i \in 1..2 * m |->
                   <<IF i % 2 = 1 THEN "remove" ELSE "add", stay[(i + 1) \div 2]>>]
           t == UpdateUsersSteps(b)
<1>1. DOMAIN b \subseteq Users
  BY DEF Batches
<1>2. IsFiniteSet(L) /\ IsFiniteSet(S)
  BY <1>1, Goroutines, FS_Subset
<1>3. /\ leave \in Seq(L) /\ \A x \in L : \E i \in 1..n : leave[i] = x
      /\ stay \in Seq(S) /\ \A x \in S : \E i \in 1..m : stay[i] = x
  BY <1>2, SetToSeqListsAll
<1>4. t = X \o Y \o Z
  BY DEF UpdateUsersSteps
<1> HIDE DEF leave, stay, t
<1>5. n \in Nat /\ m \in Nat
  BY <1>3
<1>6. /\ Len(order) = n + m
      /\ \A i \in 1..n : order[i] = leave[i] /\ leave[i] \in L
      /\ \A i \in 1..m : order[n + i] = stay[i] /\ stay[i] \in S
      /\ \A i \in 1..n + m : order[i] \in DOMAIN b
  <2>1. L \subseteq DOMAIN b /\ S \subseteq DOMAIN b
    OBVIOUS
  <2>2. leave \in Seq(DOMAIN b) /\ stay \in Seq(DOMAIN b)
    BY <1>3, <2>1
  <2>3. /\ order \in Seq(DOMAIN b) /\ Len(order) = n + m
        /\ \A i \in 1..n : order[i] = leave[i]
        /\ \A i \in 1..m : order[n + i] = stay[i]
    BY <2>2, ConcatAt
  <2> HIDE DEF order
  <2> QED
    BY <1>3, <2>3
<1> HIDE DEF order
<1>7. /\ \A i \in 1..2 * m : (i + 1) \div 2 \in 1..m /\ (i % 2 = 1 \/ i % 2 = 0)
      /\ \A k \in 1..m : /\ 2 * k - 1 \in 1..2 * m /\ 2 * k \in 1..2 * m
                         /\ ((2 * k - 1) + 1) \div 2 = k /\ (2 * k + 1) \div 2 = k
                         /\ (2 * k - 1) % 2 = 1 /\ (2 * k) % 2 = 0
      /\ \A i \in 1..2 * m : i <= 2 * ((i + 1) \div 2)
  BY <1>5
<1>8. X \in Seq(Dues) /\ Len(X) = n + m /\ \A i \in 1..n + m : X[i] = <<"set", order[i]>>
  BY <1>1, <1>5, <1>6 DEF Dues
<1>9. Y \in Seq(Dues) /\ Len(Y) = n /\ \A i \in 1..n : Y[i] = <<"remove", leave[i]>>
  BY <1>1, <1>5, <1>6 DEF Dues
<1>10. /\ Z \in Seq(Dues) /\ Len(Z) = 2 * m
       /\ \A i \in 1..2 * m : Z[i][2] = stay[(i + 1) \div 2]
       /\ \A k \in 1..m : Z[2 * k - 1] = <<"remove", stay[k]>> /\ Z[2 * k] = <<"add", stay[k]>>
  <2>1. \A i \in 1..2 * m : Z[i] \in Dues /\ Z[i][2] = stay[(i + 1) \div 2]
    BY <1>1, <1>5, <1>6, <1>7 DEF Dues
  <2>2. Z \in Seq(Dues) /\ Len(Z) = 2 * m
    BY <1>5, <2>1
  <2>3. ASSUME NEW k \in 1..m
        PROVE  Z[2 * k - 1] = <<"remove", stay[k]>> /\ Z[2 * k] = <<"add", stay[k]>>
    <3>1. 2 * k - 1 \in 1..2 * m /\ (2 * k - 1) % 2 = 1 /\ ((2 * k - 1) + 1) \div 2 = k
      BY <1>7
    <3>2. 2 * k \in 1..2 * m /\ (2 * k) % 2 # 1 /\ (2 * k + 1) \div 2 = k
      BY <1>7
    <3> QED
      BY <3>1, <3>2
  <2> QED
    BY <2>1, <2>2, <2>3
<1> HIDE DEF X, Y, Z
<1>11. /\ t \in Seq(Dues) /\ Len(t) = n + m + n + 2 * m
       /\ \A i \in 1..n + m : t[i] = X[i]
       /\ \A i \in 1..n : t[n + m + i] = Y[i]
       /\ \A i \in 1..2 * m : t[n + m + n + i] = Z[i]
  <2> DEFINE W == X \o Y
  <2>0. X \in Seq(Dues) /\ Y \in Seq(Dues) /\ Z \in Seq(Dues)
    BY <1>8, <1>9, <1>10
  <2>1. /\ W \in Seq(Dues) /\ Len(W) = Len(X) + Len(Y)
        /\ \A i \in 1..Len(X) : W[i] = X[i]
        /\ \A i \in 1..Len(Y) : W[Len(X) + i] = Y[i]
    BY <2>0, ConcatAt
  <2> HIDE DEF W
  <2>2. /\ W \o Z \in Seq(Dues) /\ Len(W \o Z) = Len(W) + Len(Z)
        /\ \A i \in 1..Len(W) : (W \o Z)[i] = W[i]
        /\ \A i \in 1..Len(Z) : (W \o Z)[Len(W) + i] = Z[i]
    <3>1. W \in Seq(Dues)
      BY <2>1
    <3> QED
      BY <2>0, <3>1, ConcatAt
  <2>3. t = W \o Z
    BY <1>4 DEF W
  <2>4. Len(W) = n + m + n /\ Len(X) = n + m /\ Len(Y) = n /\ Len(Z) = 2 * m
    BY <1>8, <1>9, <1>10, <2>1
  <2>5. t \in Seq(Dues) /\ Len(t) = n + m + n + 2 * m
    BY <2>2, <2>3, <2>4
  <2>6. \A i \in 1..n + m : t[i] = X[i]
    BY <1>5, <2>1, <2>2, <2>3, <2>4
  <2>7. \A i \in 1..n : t[n + m + i] = Y[i]
    <3> TAKE i \in 1..n
    <3>1. n + m + i \in 1..Len(W)
      BY <1>5, <2>4
    <3> QED
      BY <3>1, <2>1, <2>2, <2>3, <2>4
  <2>8. \A i \in 1..2 * m : t[n + m + n + i] = Z[i]
    BY <2>2, <2>3, <2>4
  <2> QED
    BY <2>5, <2>6, <2>7, <2>8
<1>12. \A k \in 1..m : \E j \in n + m + n + 2 * k .. Len(t) : t[j] = <<"add", stay[k]>>
  <2> TAKE k \in 1..m
  <2>1. n + m + n + 2 * k \in n + m + n + 2 * k .. Len(t)
    BY <1>5, <1>7, <1>11
  <2> QED
    BY <2>1, <1>7, <1>10, <1>11
<1>13. Ordered(t, b)
  <2> SUFFICES ASSUME NEW i \in 1..Len(t)
               PROVE  /\ t[i][2] \in DOMAIN b
                      /\ b[t[i][2]] # NoAccount =>
                            \E j \in i..Len(t) : t[j] = <<"add", t[i][2]>>
    <3>1. DOMAIN t = 1..Len(t)
      BY <1>11
    <3> QED
      BY <3>1 DEF Ordered
  <2>1. CASE i \in 1..n + m
    <3>1. t[i][2] = order[i] /\ order[i] \in DOMAIN b
      BY <2>1, <1>6, <1>8, <1>11
    <3>2. CASE i \in 1..n
      BY <3>1, <3>2, <1>6
    <3>3. CASE i \in n + 1..n + m
      <4>1. i - n \in 1..m /\ i = n + (i - n)
        BY <3>3, <1>5
      <4>2. order[i] = stay[i - n]
        BY <4>1, <1>6
      <4>3. PICK j \in n + m + n + 2 * (i - n) .. Len(t) : t[j] = <<"add", stay[i - n]>>
        BY <4>1, <1>12
      <4>4. j \in i..Len(t)
        BY <4>1, <4>3, <1>5, <1>11
      <4> QED
        BY <3>1, <4>2, <4>3, <4>4
    <3> QED
      BY <2>1, <3>2, <3>3, <1>5
  <2>2. CASE i \in n + m + 1 .. n + m + n
    <3>1. i - (n + m) \in 1..n /\ i = n + m + (i - (n + m))
      BY <2>2, <1>5
    <3>2. t[i] = <<"remove", leave[i - (n + m)]>>
      BY <3>1, <1>9, <1>11
    <3> QED
      BY <3>1, <3>2, <1>6
  <2>3. CASE i \in n + m + n + 1 .. Len(t)
    <3> DEFINE r == i - (n + m + n)
               k == (r + 1) \div 2
    <3>1. r \in 1..2 * m /\ i = n + m + n + r
      BY <2>3, <1>5, <1>11
    <3>2. k \in 1..m /\ r <= 2 * k
      BY <3>1, <1>7
    <3>3. t[i][2] = stay[k]
      <4>1. t[i] = Z[r]
        BY <3>1, <1>11
      <4>2. Z[r][2] = stay[k]
        BY <3>1, <1>10
      <4> QED
        BY <4>1, <4>2
    <3>4. PICK j \in n + m + n + 2 * k .. Len(t) : t[j] = <<"add", stay[k]>>
      BY <3>2, <1>12
    <3>5. j \in i..Len(t)
      BY <3>1, <3>2, <3>4, <1>5, <1>11
    <3> QED
      BY <3>2, <3>3, <3>4, <3>5, <1>6
  <2> QED
    BY <2>1, <2>2, <2>3, <1>5, <1>11
<1>14. Complete(t, b)
  <2> SUFFICES ASSUME NEW u \in DOMAIN b
               PROVE  /\ \E i \in 1..Len(t) : t[i] = <<"set", u>>
                      /\ \E i \in 1..Len(t) : t[i] = <<"remove", u>>
    <3>1. DOMAIN t = 1..Len(t)
      BY <1>11
    <3> QED
      BY <3>1 DEF Complete
  <2>1. CASE u \in L
    <3>1. PICK i \in 1..n : leave[i] = u
      BY <2>1, <1>3
    <3>2. t[i] = <<"set", u>> /\ t[n + m + i] = <<"remove", u>>
      BY <3>1, <1>5, <1>6, <1>8, <1>9, <1>11
    <3>3. i \in 1..Len(t) /\ n + m + i \in 1..Len(t)
      BY <1>5, <1>11
    <3> QED
      BY <3>2, <3>3
  <2>2. CASE u \in S
    <3>1. PICK i \in 1..m : stay[i] = u
      BY <2>2, <1>3
    <3>2. n + i \in 1..n + m
      BY <1>5
    <3>3. t[n + i] = <<"set", u>> /\ t[n + m + n + (2 * i - 1)] = <<"remove", u>>
      <4>1. order[n + i] = u /\ Z[2 * i - 1] = <<"remove", u>> /\ 2 * i - 1 \in 1..2 * m
        BY <3>1, <1>6, <1>7, <1>10
      <4>2. t[n + i] = X[n + i] /\ t[n + m + n + (2 * i - 1)] = Z[2 * i - 1]
        BY <3>2, <4>1, <1>11
      <4>3. X[n + i] = <<"set", order[n + i]>>
        BY <3>2, <1>8
      <4> QED
        BY <4>1, <4>2, <4>3
    <3>4. n + i \in 1..Len(t) /\ n + m + n + (2 * i - 1) \in 1..Len(t)
      BY <1>5, <1>11
    <3> QED
      BY <3>3, <3>4
  <2> QED
    BY <2>1, <2>2
<1> QED
  BY <1>11, <1>13, <1>14 DEF t

(* Both, as a request arrives.                                             *)
LEMMA ArrivalIsDue ==
    ASSUME NEW b \in Batches, SyncUser(b) \/ UpdateUsers(b)
    PROVE  todo' \in Seq(Dues) /\ Ordered(todo', b) /\ Complete(todo', b)
<1>1. CASE SyncUser(b)
  <2>1. PICK u \in DOMAIN b : DOMAIN b = {u} /\ todo' = SyncUserSteps(b, u)
    BY <1>1 DEF SyncUser
  <2> QED
    BY <2>1, SyncUserStepsAreDue
<1>2. CASE UpdateUsers(b)
  BY <1>2, UpdateUsersStepsAreDue DEF UpdateUsers
<1> QED
  BY <1>1, <1>2

LEMMA EveryAddIsDue ==
    ASSUME NEW t \in Seq(Dues), NEW b, Ordered(t, b), Complete(t, b),
           NEW u \in DOMAIN b, b[u] # NoAccount
    PROVE  \E j \in DOMAIN t : t[j] = <<"add", u>>
<1>1. PICK i \in DOMAIN t : t[i] = <<"set", u>>
  BY DEF Complete
<1>2. t[i][2] = u
  BY <1>1
<1>3. PICK j \in i..Len(t) : t[j] = <<"add", u>>
  BY <1>2 DEF Ordered
<1>4. DOMAIN t = 1..Len(t) /\ j \in 1..Len(t)
  BY <1>3
<1> QED
  BY <1>3, <1>4

(* What is left once the first is done.                                    *)
LEMMA TailIsDue ==
    ASSUME NEW t \in Seq(Dues), t # <<>>, NEW b, Ordered(t, b)
    PROVE  /\ Tail(t) \in Seq(Dues) /\ Len(Tail(t)) = Len(t) - 1
           /\ \A i \in 1..Len(t) - 1 : Tail(t)[i] = t[i + 1]
           /\ \A i \in 1..Len(t) : i # 1 => \E k \in 1..Len(t) - 1 : Tail(t)[k] = t[i]
           /\ t[1] \in Dues /\ t[1][2] \in DOMAIN b /\ t[1][2] \in Users
           /\ Ordered(Tail(t), b)
<1>1. /\ Tail(t) \in Seq(Dues) /\ Len(Tail(t)) = Len(t) - 1 /\ Len(t) \in Nat \ {0}
      /\ \A i \in 1..Len(t) - 1 : Tail(t)[i] = t[i + 1]
  OBVIOUS
<1> DEFINE r == Tail(t)
<1> HIDE DEF r
<1>2. \A i \in 1..Len(t) : i # 1 => \E k \in 1..Len(t) - 1 : r[k] = t[i]
  <2> SUFFICES ASSUME NEW i \in 1..Len(t), i # 1
               PROVE  i - 1 \in 1..Len(t) - 1 /\ r[i - 1] = t[i]
    OBVIOUS
  <2> QED
    BY <1>1 DEF r
<1>3. t[1] \in Dues /\ t[1][2] \in DOMAIN b /\ t[1][2] \in Users
  BY <1>1 DEF Ordered, Dues
<1>4. Ordered(r, b)
  <2> SUFFICES ASSUME NEW i \in 1..Len(t) - 1
               PROVE  /\ r[i][2] \in DOMAIN b
                      /\ b[r[i][2]] # NoAccount =>
                            \E j \in i..Len(r) : r[j] = <<"add", r[i][2]>>
    <3>1. DOMAIN r = 1..Len(t) - 1
      BY <1>1 DEF r
    <3> QED
      BY <3>1 DEF Ordered
  <2>1. r[i] = t[i + 1] /\ i + 1 \in DOMAIN t
    BY <1>1 DEF r
  <2>2. r[i][2] \in DOMAIN b
    BY <2>1 DEF Ordered
  <2>3. ASSUME b[r[i][2]] # NoAccount
        PROVE  \E j \in i..Len(r) : r[j] = <<"add", r[i][2]>>
    <3>1. PICK j \in i + 1 .. Len(t) : t[j] = <<"add", r[i][2]>>
      BY <2>1, <2>3 DEF Ordered
    <3>2. j - 1 \in i..Len(r) /\ j - 1 \in 1..Len(t) - 1 /\ (j - 1) + 1 = j
      BY <3>1, <1>1 DEF r
    <3>3. r[j - 1] = t[j]
      BY <3>2, <1>1 DEF r
    <3> QED
      BY <3>1, <3>2, <3>3
  <2> QED
    BY <2>2, <2>3
<1> QED
  BY <1>1, <1>2, <1>3, <1>4 DEF r
-----------------------------------------------------------------------------
(***************************************************************************)
(* The Configs.                                                            *)
(***************************************************************************)

(* A change of one user leaves the heap what it is.                        *)
LEMMA SetKeepsConfigs ==
    ASSUME Configs, Delivery, Set
    PROVE  /\ heap' \in Seq(Contents) /\ Len(heap') = Len(heap)
           /\ \A c \in 1..Len(heap), u \in Users :
                 heap'[c][u] = IF c = config /\ u = todo[1][2] THEN batch[u] ELSE heap[c][u]
<1> DEFINE u1 == todo[1][2]
<1>1. u1 \in Users /\ u1 \in DOMAIN batch
  BY TailIsDue DEF Set, Due, Delivery
<1>2. batch[u1] \in Accounts \cup {NoAccount}
  BY <1>1 DEF Delivery, Batches, NoBatch
<1>3. heap' = [heap EXCEPT ![config] = [heap[config] EXCEPT ![u1] = batch[u1]]]
  BY DEF Set
<1>4. heap[config] \in Contents
  BY DEF Configs
<1> HIDE DEF u1
<1>5. [heap[config] EXCEPT ![u1] = batch[u1]] \in Contents
  BY <1>2, <1>4 DEF Contents
<1>6. /\ heap' \in Seq(Contents) /\ Len(heap') = Len(heap)
      /\ \A c \in 1..Len(heap) :
            heap'[c] = IF c = config THEN [heap[config] EXCEPT ![u1] = batch[u1]] ELSE heap[c]
  BY <1>3, <1>5 DEF Configs
<1> QED
  BY <1>1, <1>4, <1>6 DEF u1, Contents

(* A Config more leaves the others what they are.                          *)
LEMMA SyncUsersKeepsConfigs ==
    ASSUME Configs, NEW c \in Contents, SyncUsers(c)
    PROVE  /\ heap' \in Seq(Contents) /\ Len(heap') = Len(heap) + 1
           /\ \A i \in 1..Len(heap) : heap'[i] = heap[i]
           /\ heap'[Len(heap) + 1] = c
BY DEF SyncUsers, Configs

LEMMA ConfigsStep ==
    ASSUME Inv, [Next]_vars
    PROVE  Configs'
<1> USE Goroutines DEF Inv, Control, Candidate, Restoring, Children, Live, Configs, Goto
<1>1. CASE UNCHANGED vars
  BY <1>1 DEF vars, localVars, processVars
<1>2. ASSUME NEW p \in Procs, Restarter(p) \/ Shutdown(p)
      PROVE  Configs'
  <2>1. CASE LockRestart(p)
    <3>1. process' \notin Live' /\ from' = 0
      BY <2>1 DEF LockRestart, Kill, Started
    <3> QED
      BY <2>1, <3>1 DEF LockRestart
  <2>2. CASE LockShutdown(p)
    <3>1. process' \notin Live' /\ from' = 0
      BY <2>2 DEF LockShutdown, Kill, Started
    <3> QED
      BY <2>2, <3>1 DEF LockShutdown
  <2>3. CASE StopWait(p)
    BY <2>3 DEF StopWait, processVars
  <2>4. CASE ToBytes(p)
    BY <2>4 DEF ToBytes, processVars
  <2>5. CASE Launch(p)
    <3>1. target[p] # 0 /\ snap \in Contents
      BY <2>5 DEF Launch, Serving, Launches
    <3>2. from' = target[p] /\ served' = snap /\ UNCHANGED <<heap, config>>
      BY <2>5 DEF Launch
    <3>3. target' \in [Procs -> 0..Len(heap)]
      BY <2>5 DEF Launch
    <3>4. \A q \in Procs : pc'[q] \in Candidate \cup Restoring =>
             target'[q] # 0 \/ (q = New /\ pc'[q] = "status")
      BY <2>5, <3>1 DEF Launch, AfterLaunch
    <3> QED
      BY <3>1, <3>2, <3>3, <3>4
  <2>6. CASE LaunchFail(p)
    <3>1. /\ target' = [target EXCEPT ![p] = IF p = Sync THEN config ELSE 0]
          /\ UNCHANGED <<alive, served, from, process, heap, config>> /\ Live' \subseteq Live
      BY <2>6 DEF LaunchFail, CleanupOrphanedProcesses, KillProcessTree
    <3>2. target' \in [Procs -> 0..Len(heap)]
      BY <3>1
    <3>3. \A q \in Procs : pc'[q] \in Candidate \cup Restoring =>
             target'[q] # 0 \/ (q = New /\ pc'[q] = "status")
      BY <2>6, <3>1 DEF LaunchFail, AfterLaunchError
    <3> QED
      BY <3>1, <3>2, <3>3
  <2>7. CASE StatusOk(p)
    BY <2>7 DEF StatusOk, processVars
  <2>8. CASE StatusFail(p)
    BY <2>8 DEF StatusFail, processVars
  <2>9. CASE SetConfig(p)
    BY <2>9 DEF SetConfig, processVars
  <2>10. CASE CloseHandler(p) \/ Panic(p) \/ Shutdown(p)
    BY <2>10 DEF CloseHandler, Panic, Shutdown, localVars, processVars
  <2> QED
    BY <1>2, <2>1, <2>2, <2>3, <2>4, <2>5, <2>6, <2>7, <2>8, <2>9, <2>10 DEF Restarter
<1>3. CASE HealthStep
  <2>1. CASE Judge
    BY <2>1 DEF Judge, processVars
  <2>2. CASE HealthTop \/ HealthCheck \/ ProbeOk \/ ProbeFail
    BY <2>2 DEF HealthTop, HealthCheck, ProbeOk, ProbeFail, processVars
  <2> QED
    BY <1>3, <2>1, <2>2 DEF HealthStep
<1>4. CASE SyncStep
  <2>1. CASE Set
    BY <2>1, SetKeepsConfigs DEF Set, Due, localVars, processVars
  <2>2. ASSUME NEW op \in {"remove", "add"}, CallOk(op) \/ CallFail(op)
        PROVE  Configs'
    <3> DEFINE u == todo[1][2]
    <3>1. u \in Users /\ u \in DOMAIN batch
      BY <2>2, TailIsDue DEF CallOk, CallFail, Due, Delivery
    <3>2. Account(op, u) \in Accounts \cup {NoAccount}
      BY <3>1 DEF Account, Delivery, Batches, NoBatch
    <3>3. served' = served \/ served' = [served EXCEPT ![u] = Account(op, u)]
      BY <2>2 DEF CallOk, CallFail, Apply
    <3>4. UNCHANGED <<alive, killed, from, process, heap, config, pc, target>>
      BY <2>2 DEF CallOk, CallFail, localVars
    <3> HIDE DEF u
    <3>5. served \in Contents => served' \in Contents
      BY <3>1, <3>2, <3>3 DEF Contents
    <3> QED
      BY <3>4, <3>5
  <2>3. CASE Reply
    BY <2>3 DEF Reply, processVars
  <2> QED
    BY <1>4, <2>1, <2>2, <2>3 DEF SyncStep
<1>5. ASSUME NEW c \in Contents, SyncUsers(c)
      PROVE  Configs'
  BY <1>5, SyncUsersKeepsConfigs DEF SyncUsers, Arrive, processVars
<1>6. ASSUME NEW b \in Batches, SyncUser(b) \/ UpdateUsers(b)
      PROVE  Configs'
  BY <1>6 DEF SyncUser, UpdateUsers, Arrive, processVars
<1>7. ASSUME NEW l \in Pids, Bind(l) \/ Hang(l) \/ Exit(l)
      PROVE  Configs'
  BY <1>7 DEF Bind, Hang, Exit, localVars
<1> QED
  BY <1>1, <1>2, <1>3, <1>4, <1>5, <1>6, <1>7 DEF Next

LEMMA FullSyncStep ==
    ASSUME Inv, [Next]_vars
    PROVE  FullSync'
<1> USE Goroutines DEF Inv, Control, Candidate, Restoring, Configs, FullSync, Goto
<1>1. CASE UNCHANGED vars
  BY <1>1 DEF vars, localVars, requestVars, ghostVars
<1>2. ASSUME NEW p \in Procs, Restarter(p) \/ Shutdown(p)
      PROVE  FullSync'
  <2>1. CASE LockRestart(p) \/ LockShutdown(p)
    BY <2>1 DEF LockRestart, LockShutdown, requestVars, ghostVars
  <2>2. CASE StopWait(p)
    BY <2>2 DEF StopWait, requestVars, ghostVars
  <2>3. CASE ToBytes(p)
    BY <2>3 DEF ToBytes, requestVars
  <2>4. CASE Launch(p)
    <3>1. UNCHANGED <<heap, config, failed, before>>
      BY <2>4 DEF Launch, requestVars, ghostVars
    <3>2. target'[Sync] = target[Sync]
      BY <2>4 DEF Launch
    <3>3. pc'[Sync] = IF p # Sync THEN pc[Sync]
                      ELSE IF pc[p] = "launchRestore" THEN "statusRestore" ELSE "status"
      BY <2>4 DEF Launch, AfterLaunch
    <3> QED
      BY <2>4, <3>1, <3>2, <3>3 DEF Launch
  <2>5. CASE LaunchFail(p)
    <3>1. UNCHANGED <<heap, config, before>> /\ (p # Sync => failed' = failed)
      BY <2>5 DEF LaunchFail, ghostVars
    <3>2. failed' \in BOOLEAN
      BY <2>5 DEF LaunchFail
    <3>3. target'[Sync] = IF p = Sync THEN config ELSE target[Sync]
      BY <2>5 DEF LaunchFail
    <3>4. pc'[Sync] = IF p # Sync THEN pc[Sync]
                      ELSE IF pc[p] = "launchRestore" THEN "reply" ELSE "restore"
      BY <2>5 DEF LaunchFail, AfterLaunchError
    <3> QED
      BY <2>5, <3>1, <3>2, <3>3, <3>4 DEF LaunchFail
  <2>6. CASE StatusOk(p)
    BY <2>6 DEF StatusOk, requestVars, ghostVars
  <2>7. CASE StatusFail(p)
    <3>1. UNCHANGED <<heap, config, before>> /\ (p # Sync => failed' = failed)
      BY <2>7 DEF StatusFail, ghostVars
    <3>2. failed' \in BOOLEAN
      BY <2>7 DEF StatusFail
    <3> QED
      BY <2>7, <3>1, <3>2 DEF StatusFail
  <2>8. CASE SetConfig(p)
    BY <2>8 DEF SetConfig, requestVars, ghostVars
  <2>9. CASE CloseHandler(p) \/ Panic(p) \/ Shutdown(p)
    BY <2>9 DEF CloseHandler, Panic, Shutdown, localVars, requestVars, ghostVars
  <2> QED
    BY <1>2, <2>1, <2>2, <2>3, <2>4, <2>5, <2>6, <2>7, <2>8, <2>9 DEF Restarter
<1>3. CASE HealthStep
  BY <1>3 DEF HealthStep, HealthTop, HealthCheck, ProbeOk, ProbeFail, Judge, requestVars, ghostVars
<1>4. CASE SyncStep
  <2>1. CASE Set
    BY <2>1 DEF Set, Due, localVars, ghostVars
  <2>2. ASSUME NEW op \in {"remove", "add"}, CallOk(op) \/ CallFail(op)
        PROVE  FullSync'
    <3>1. failed' \in BOOLEAN
      BY <2>2 DEF CallOk, CallFail
    <3> QED
      BY <2>2, <3>1 DEF CallOk, CallFail, Due, localVars
  <2>3. CASE Reply
    BY <2>3 DEF Reply
  <2> QED
    BY <1>4, <2>1, <2>2, <2>3 DEF SyncStep
<1>5. ASSUME NEW c \in Contents, SyncUsers(c)
      PROVE  FullSync'
  BY <1>5, SyncUsersKeepsConfigs DEF SyncUsers, Arrive
<1>6. ASSUME NEW b \in Batches, SyncUser(b) \/ UpdateUsers(b)
      PROVE  FullSync'
  BY <1>6 DEF SyncUser, UpdateUsers, Arrive
<1>7. ASSUME NEW l \in Pids, Bind(l) \/ Hang(l) \/ Exit(l)
      PROVE  FullSync'
  BY <1>7 DEF Bind, Hang, Exit, localVars, requestVars, ghostVars
<1> QED
  BY <1>1, <1>2, <1>3, <1>4, <1>5, <1>6, <1>7 DEF Next
-----------------------------------------------------------------------------
(***************************************************************************)
(* The calls.                                                              *)
(***************************************************************************)

(* Only SetConfig moves the pointer, and not while calls are due.          *)
LEMMA DeliveryStep ==
    ASSUME Inv, [Next]_vars
    PROVE  Delivery'
<1> USE Goroutines DEF Inv, Control, Candidate, Restoring, Goto
<1>1. CASE /\ UNCHANGED <<heap, config, batch, todo>>
           /\ pc'[Sync] = "calls" <=> pc[Sync] = "calls"
  BY <1>1 DEF Delivery
<1>2. CASE UNCHANGED vars
  BY <1>1, <1>2 DEF vars, localVars, requestVars
<1>3. ASSUME NEW p \in Procs, Restarter(p) \/ Shutdown(p)
      PROVE  Delivery'
  <2>1. CASE LockRestart(p) \/ LockShutdown(p)
    BY <1>1, <2>1 DEF LockRestart, LockShutdown, requestVars
  <2>2. CASE StopWait(p)
    BY <1>1, <2>2 DEF StopWait, requestVars
  <2>3. CASE ToBytes(p)
    BY <1>1, <2>3 DEF ToBytes, requestVars
  <2>4. CASE Launch(p)
    BY <1>1, <2>4 DEF Launch, AfterLaunch, requestVars
  <2>5. CASE LaunchFail(p)
    BY <1>1, <2>5 DEF LaunchFail, AfterLaunchError
  <2>6. CASE StatusOk(p) \/ StatusFail(p)
    BY <1>1, <2>6 DEF StatusOk, StatusFail, requestVars
  <2>7. CASE SetConfig(p)
    <3>1. pc[Sync] # "calls" /\ UNCHANGED <<batch, todo>> /\ pc'[Sync] # "calls"
      BY <2>7 DEF SetConfig, requestVars
    <3>2. batch = NoBatch /\ DOMAIN batch = {}
      BY <3>1 DEF Delivery, NoBatch
    <3> QED
      BY <3>1, <3>2 DEF Delivery
  <2>8. CASE CloseHandler(p) \/ Panic(p) \/ Shutdown(p)
    BY <1>1, <2>8 DEF CloseHandler, Panic, Shutdown, localVars, requestVars
  <2> QED
    BY <1>3, <2>1, <2>2, <2>3, <2>4, <2>5, <2>6, <2>7, <2>8 DEF Restarter
<1>4. CASE HealthStep
  BY <1>1, <1>4 DEF HealthStep, HealthTop, HealthCheck, ProbeOk, ProbeFail, Judge, requestVars
<1>5. CASE SyncStep
  <2>1. ASSUME pc[Sync] = "calls", todo # <<>>, todo' = Tail(todo),
               UNCHANGED <<batch, config, pc>>,
               \A u \in DOMAIN batch :
                  \/ todo[1] # <<"set", u>> /\ heap'[config][u] = heap[config][u]
                  \/ heap'[config][u] = batch[u]
        PROVE  Delivery'
    <3>1. /\ Tail(todo) \in Seq(Dues) /\ Ordered(Tail(todo), batch)
          /\ DOMAIN Tail(todo) = 1..Len(todo) - 1
          /\ \A i \in 1..Len(todo) : i # 1 => \E k \in 1..Len(todo) - 1 : Tail(todo)[k] = todo[i]
      BY <2>1, TailIsDue DEF Delivery
    <3>2. ASSUME NEW u \in DOMAIN batch
          PROVE  \/ \E i \in DOMAIN Tail(todo) : Tail(todo)[i] = <<"set", u>>
                 \/ heap'[config][u] = batch[u]
      <4>1. DOMAIN todo = 1..Len(todo)
        BY DEF Delivery
      <4>2. CASE heap'[config][u] = batch[u]
        BY <4>2
      <4>3. CASE todo[1] # <<"set", u>> /\ heap'[config][u] # batch[u]
        <5>1. PICK i \in 1..Len(todo) : todo[i] = <<"set", u>>
          BY <2>1, <4>1, <4>3 DEF Delivery
        <5>2. i # 1
          BY <4>3, <5>1
        <5>3. PICK k \in 1..Len(todo) - 1 : Tail(todo)[k] = todo[i]
          BY <3>1, <5>2
        <5> QED
          BY <3>1, <5>1, <5>3
      <4> QED
        BY <2>1, <4>2, <4>3
    <3> QED
      BY <2>1, <3>1, <3>2 DEF Delivery
  <2>2. CASE Set
    <3>1. \A u \in Users : heap'[config][u] = IF u = todo[1][2] THEN batch[u] ELSE heap[config][u]
      BY <2>2, SetKeepsConfigs DEF Configs
    <3>2. DOMAIN batch \subseteq Users
      BY DEF Delivery, Batches, NoBatch
    <3> QED
      BY <2>1, <2>2, <3>1, <3>2 DEF Set, Due, localVars
  <2>3. ASSUME NEW op \in {"remove", "add"}, CallOk(op) \/ CallFail(op)
        PROVE  Delivery'
    <3>1. todo[1][1] = op /\ op # "set"
      BY <2>3 DEF CallOk, CallFail, Due
    <3> QED
      BY <2>1, <2>3, <3>1 DEF CallOk, CallFail, Due, localVars
  <2>4. CASE Reply
    <3>1. todo = <<>> /\ todo' = <<>> /\ batch' = NoBatch
      BY <2>4 DEF Reply, Delivery
    <3> QED
      BY <3>1 DEF Delivery, Ordered, NoBatch
  <2> QED
    BY <1>5, <2>2, <2>3, <2>4 DEF SyncStep
<1>6. ASSUME NEW c \in Contents, SyncUsers(c)
      PROVE  Delivery'
  <2>1. batch' = NoBatch /\ todo' = <<>>
    BY <1>6 DEF SyncUsers, Arrive, Delivery
  <2> QED
    BY <2>1 DEF Delivery, Ordered, NoBatch
<1>7. ASSUME NEW b \in Batches, SyncUser(b) \/ UpdateUsers(b)
      PROVE  Delivery'
  <2>1. todo' \in Seq(Dues) /\ Ordered(todo', b) /\ Complete(todo', b)
    BY <1>7, ArrivalIsDue
  <2>2. batch' = b /\ pc'[Sync] = "calls"
    BY <1>7 DEF SyncUser, UpdateUsers
  <2> QED
    BY <2>1, <2>2 DEF Delivery, Complete
<1>8. ASSUME NEW l \in Pids, Bind(l) \/ Hang(l) \/ Exit(l)
      PROVE  Delivery'
  BY <1>1, <1>8 DEF Bind, Hang, Exit, localVars, requestVars
<1> QED
  BY <1>2, <1>3, <1>4, <1>5, <1>6, <1>7, <1>8 DEF Next

(* A failed add is reported, and after a failed removal the add is still   *)
(* to come.                                                                *)
LEMMA AnsweringStep ==
    ASSUME Inv, [Next]_vars
    PROVE  Answering'
<1> USE Goroutines DEF Inv, Control, Candidate, Restoring, Goto
<1>1. CASE UNCHANGED <<acked, missed, batch, todo>> /\ (failed => failed')
  BY <1>1 DEF Answering
<1>2. CASE UNCHANGED vars
  BY <1>1, <1>2 DEF vars, requestVars, ghostVars
<1>3. ASSUME NEW p \in Procs, Restarter(p) \/ Shutdown(p)
      PROVE  Answering'
  <2>1. CASE LockRestart(p) \/ LockShutdown(p) \/ StopWait(p)
    BY <1>1, <2>1 DEF LockRestart, LockShutdown, StopWait, requestVars, ghostVars
  <2>2. CASE ToBytes(p)
    <3>1. UNCHANGED <<acked, batch, todo, failed>> /\ missed' = InFlight
      BY <2>2 DEF ToBytes, requestVars
    <3>2. ASSUME NEW u \in InFlight
          PROVE  /\ u \in DOMAIN batch
                 /\ batch[u] # NoAccount => \E i \in DOMAIN todo : todo[i] = <<"add", u>>
      <4>1. PICK i \in DOMAIN todo : u = todo[i][2]
        BY DEF InFlight
      <4>2. DOMAIN todo = 1..Len(todo) /\ Len(todo) \in Nat
        BY DEF Delivery
      <4>3. u \in DOMAIN batch
        BY <4>1 DEF Delivery, Ordered
      <4>4. ASSUME batch[u] # NoAccount
            PROVE  \E j \in DOMAIN todo : todo[j] = <<"add", u>>
        <5>1. PICK j \in i..Len(todo) : todo[j] = <<"add", u>>
          BY <4>1, <4>4 DEF Delivery, Ordered
        <5>2. j \in 1..Len(todo)
          BY <4>1, <4>2, <5>1
        <5> QED
          BY <4>2, <5>1, <5>2
      <4> QED
        BY <4>3, <4>4
    <3> QED
      BY <3>1, <3>2 DEF Answering
  <2>3. CASE Launch(p) \/ StatusOk(p) \/ SetConfig(p)
    BY <1>1, <2>3 DEF Launch, StatusOk, SetConfig, requestVars, ghostVars
  <2>4. CASE LaunchFail(p) \/ StatusFail(p)
    BY <1>1, <2>4 DEF LaunchFail, StatusFail, ghostVars
  <2>5. CASE CloseHandler(p) \/ Panic(p) \/ Shutdown(p)
    BY <1>1, <2>5 DEF CloseHandler, Panic, Shutdown, requestVars, ghostVars
  <2> QED
    BY <1>3, <2>1, <2>2, <2>3, <2>4, <2>5 DEF Restarter
<1>4. CASE HealthStep
  BY <1>1, <1>4
  DEF HealthStep, HealthTop, HealthCheck, ProbeOk, ProbeFail, Judge, requestVars, ghostVars
<1>5. CASE SyncStep
  <2>1. ASSUME pc[Sync] = "calls", todo # <<>>, todo' = Tail(todo), batch' = batch,
               NEW u \in DOMAIN batch, batch[u] # NoAccount,
               NEW i \in DOMAIN todo, todo[i] = <<"add", u>>, todo[1] # <<"add", u>>
        PROVE  \E k \in DOMAIN todo' : todo'[k] = <<"add", u>>
    <3>1. /\ DOMAIN Tail(todo) = 1..Len(todo) - 1 /\ DOMAIN todo = 1..Len(todo)
          /\ \A j \in 1..Len(todo) : j # 1 => \E k \in 1..Len(todo) - 1 : Tail(todo)[k] = todo[j]
      BY <2>1, TailIsDue DEF Delivery
    <3>2. i # 1
      BY <2>1
    <3>3. PICK k \in 1..Len(todo) - 1 : Tail(todo)[k] = todo[i]
      BY <3>1, <3>2
    <3> QED
      BY <2>1, <3>1, <3>3
  <2>2. CASE Set
    <3>1. pc[Sync] = "calls" /\ todo # <<>> /\ todo' = Tail(todo) /\ todo[1][1] = "set"
      BY <2>2 DEF Set, Due
    <3>2. UNCHANGED <<acked, missed, batch, failed>>
      BY <2>2 DEF Set, ghostVars
    <3>3. \A u \in DOMAIN batch : todo[1] # <<"add", u>>
      BY <3>1
    <3> QED
      BY <2>1, <3>1, <3>2, <3>3 DEF Answering
  <2>3. ASSUME NEW op \in {"remove", "add"}, CallOk(op)
        PROVE  Answering'
    <3> DEFINE v == todo[1][2]
    <3>1. pc[Sync] = "calls" /\ todo # <<>> /\ todo' = Tail(todo)
      BY <2>3 DEF CallOk, Due
    <3>2. UNCHANGED <<acked, batch, failed>> /\ missed' = missed \ {v}
      BY <2>3 DEF CallOk
    <3>3. \A u \in DOMAIN batch \cap missed' : todo[1] # <<"add", u>> /\ u \in missed
      BY <3>2
    <3> QED
      BY <2>1, <3>1, <3>2, <3>3 DEF Answering
  <2>4. ASSUME NEW op \in {"remove", "add"}, CallFail(op)
        PROVE  Answering'
    <3> DEFINE v == todo[1][2]
    <3>1. pc[Sync] = "calls" /\ todo # <<>> /\ todo' = Tail(todo) /\ todo[1][1] = op
      BY <2>4 DEF CallFail, Due
    <3>2. UNCHANGED <<acked, batch>> /\ missed' = missed \cup {v} /\ (failed => failed')
      BY <2>4 DEF CallFail
    <3>3. op = "add" => failed'
      BY <2>4 DEF CallFail
    <3>4. v \in DOMAIN batch
      BY <3>1, TailIsDue DEF Delivery
    <3>5. ASSUME NEW u \in DOMAIN batch \cap missed', batch[u] # NoAccount, ~failed'
          PROVE  \E i \in DOMAIN todo' : todo'[i] = <<"add", u>>
      <4>1. todo[1] # <<"add", u>>
        BY <3>1, <3>3, <3>5
      <4>2. \E i \in DOMAIN todo : todo[i] = <<"add", u>>
        <5>1. CASE u = v
          <6>1. DOMAIN todo = 1..Len(todo) /\ 1 \in DOMAIN todo
            BY <3>1 DEF Delivery
          <6>2. PICK j \in 1..Len(todo) : todo[j] = <<"add", u>>
            BY <3>5, <5>1, <6>1 DEF Delivery, Ordered
          <6> QED
            BY <6>1, <6>2
        <5>2. CASE u # v
          BY <3>2, <3>5, <5>2 DEF Answering
        <5> QED
          BY <5>1, <5>2
      <4> QED
        BY <2>1, <3>1, <3>2, <3>5, <4>1, <4>2
    <3>6. acked' \cap missed' \subseteq DOMAIN batch'
      BY <3>2, <3>4 DEF Answering
    <3> QED
      BY <3>2, <3>5, <3>6 DEF Answering
  <2>5. CASE Reply
    <3>1. todo = <<>> /\ batch' = NoBatch /\ missed' = missed
      BY <2>5 DEF Reply, Delivery
    <3>2. acked' = (acked \ DOMAIN batch) \cup {u \in DOMAIN batch : ~failed /\ batch[u] # NoAccount}
      BY <2>5 DEF Reply
    <3>3. DOMAIN todo = {}
      BY <3>1
    <3>4. acked' \cap missed' = {}
      BY <3>1, <3>2, <3>3 DEF Answering
    <3> QED
      BY <3>1, <3>4 DEF Answering, NoBatch
  <2> QED
    BY <1>5, <2>2, <2>3, <2>4, <2>5 DEF SyncStep
<1>6. ASSUME NEW c \in Contents, SyncUsers(c)
      PROVE  Answering'
  BY <1>1, <1>6 DEF SyncUsers, Arrive
<1>7. ASSUME NEW b \in Batches, SyncUser(b) \/ UpdateUsers(b)
      PROVE  Answering'
  <2>1. todo' \in Seq(Dues) /\ Ordered(todo', b) /\ Complete(todo', b)
    BY <1>7, ArrivalIsDue
  <2>2. batch' = b /\ UNCHANGED <<acked, missed>> /\ pc[Sync] = "idle"
    BY <1>7 DEF SyncUser, UpdateUsers, Arrive
  <2>3. acked \cap missed = {}
    BY <2>2 DEF Answering, Delivery, NoBatch
  <2>4. ASSUME NEW u \in DOMAIN b, b[u] # NoAccount
        PROVE  \E j \in DOMAIN todo' : todo'[j] = <<"add", u>>
    BY <2>1, <2>4, EveryAddIsDue
  <2> QED
    BY <2>2, <2>3, <2>4 DEF Answering
<1>8. ASSUME NEW l \in Pids, Bind(l) \/ Hang(l) \/ Exit(l)
      PROVE  Answering'
  BY <1>1, <1>8 DEF Bind, Hang, Exit, requestVars, ghostVars
<1> QED
  BY <1>2, <1>3, <1>4, <1>5, <1>6, <1>7, <1>8 DEF Next
-----------------------------------------------------------------------------
(***************************************************************************)
(* What the process serves.                                                *)
(***************************************************************************)

(* A step that touches neither the users nor what a live process or the    *)
(* next one has of them.                                                   *)
LEMMA ServingFrame ==
    ASSUME Inv, UNCHANGED <<heap, batch, todo, missed>>,
           process' \in Live' => process \in Live /\ UNCHANGED <<served, from>>,
           \A p \in Procs : pc'[p] \in Launches =>
              pc[p] \in Launches /\ snap' = snap /\ target'[p] = target[p],
           {config', target'[Sync]} \subseteq {config, target[Sync], 0}
    PROVE  Serving'
<1> USE DEF Inv
<1>1. Owed' = Owed /\ \A c, u : Want(c, u)' = Want(c, u)
  BY DEF Owed, Want
<1>2. process \in Live => from # 0
  BY DEF Configs
<1>3. \A p \in Procs : pc[p] \in Launches => target[p] # 0
  BY DEF Configs, Candidate, Restoring, Launches
<1>4. process' \in Live' => Agrees(served, from)'
  <2> SUFFICES ASSUME process' \in Live', from' \in {config', target'[Sync]},
                      NEW u \in Users \ (missed' \cup Owed')
               PROVE  served'[u] = Want(from, u)'
    BY DEF Agrees
  <2>1. process \in Live /\ from' = from /\ served' = served /\ from \in {config, target[Sync]}
    BY <1>2
  <2> QED
    BY <1>1, <2>1 DEF Serving, Agrees, Want
<1>5. ASSUME NEW p \in Procs, pc'[p] \in Launches
      PROVE  snap' \in Contents /\ Agrees(snap, target[p])'
  <2>1. snap' = snap /\ target'[p] = target[p] /\ pc[p] \in Launches /\ target[p] # 0
    BY <1>3, <1>5
  <2>2. snap \in Contents /\ Agrees(snap, target[p])
    BY <2>1 DEF Serving
  <2> QED
    BY <1>1, <2>1, <2>2 DEF Agrees, Want
<1> QED
  BY <1>4, <1>5 DEF Serving

(* What is owed once the first step of what is due is done.                *)
LEMMA OwedAfter ==
    ASSUME Delivery, todo # <<>>, todo' = Tail(todo)
    PROVE  /\ Owed \subseteq Owed' \cup {todo[1][2]}
           /\ todo[1][1] = "set" => Owed \subseteq Owed'
           /\ todo[1][1] = "remove" /\ batch[todo[1][2]] # NoAccount => todo[1][2] \in Owed'
<1>1. /\ DOMAIN Tail(todo) = 1..Len(todo) - 1 /\ DOMAIN todo = 1..Len(todo)
      /\ 1 \in 1..Len(todo) /\ todo[1] \in Dues /\ todo[1][2] \in Users
      /\ \A j \in 1..Len(todo) : j # 1 => \E k \in 1..Len(todo) - 1 : Tail(todo)[k] = todo[j]
  BY TailIsDue DEF Delivery
<1>2. ASSUME NEW u \in Users, NEW j \in 1..Len(todo), j # 1, todo[j][1] # "set", todo[j][2] = u
      PROVE  u \in Owed'
  <2>1. PICK k \in 1..Len(todo) - 1 : Tail(todo)[k] = todo[j]
    BY <1>1, <1>2
  <2> QED
    BY <1>1, <1>2, <2>1 DEF Owed
<1>3. ASSUME NEW u \in Owed, u # todo[1][2] \/ todo[1][1] = "set"
      PROVE  u \in Owed'
  <2>1. PICK j \in 1..Len(todo) : todo[j][1] # "set" /\ todo[j][2] = u
    BY <1>1 DEF Owed
  <2> QED
    BY <1>2, <1>3, <2>1 DEF Owed
<1>4. ASSUME todo[1][1] = "remove", batch[todo[1][2]] # NoAccount
      PROVE  todo[1][2] \in Owed'
  <2>1. PICK j \in 1..Len(todo) : todo[j] = <<"add", todo[1][2]>>
    BY <1>1, <1>4 DEF Delivery, Ordered
  <2>2. j # 1 /\ todo[j][1] # "set" /\ todo[j][2] = todo[1][2]
    BY <1>4, <2>1
  <2> QED
    BY <1>1, <1>2, <2>2
<1> QED
  BY <1>3, <1>4

LEMMA ServingStep ==
    ASSUME Inv, [Next]_vars
    PROVE  Serving'
<1> USE Goroutines DEF Goto
<1>1. CASE UNCHANGED vars
  BY <1>1, ServingFrame DEF vars, localVars, processVars, requestVars, ghostVars, Live
<1>2. ASSUME NEW p \in Procs, Restarter(p) \/ Shutdown(p)
      PROVE  Serving'
  <2> USE DEF Inv, Control, Candidate, Restoring
  <2>1. CASE LockRestart(p) \/ LockShutdown(p)
    <3>1. /\ UNCHANGED <<heap, batch, todo, missed, snap, target, config>>
          /\ process' \notin Live'
      BY <2>1 DEF LockRestart, LockShutdown, Kill, Started, requestVars, ghostVars, Live, Children
    <3>2. \A q \in Procs : pc'[q] \in Launches => pc[q] \in Launches
      BY <2>1 DEF LockRestart, LockShutdown, Launches
    <3> QED
      BY <3>1, <3>2, ServingFrame
  <2>2. CASE StopWait(p)
    <3>1. /\ UNCHANGED <<heap, batch, todo, missed, snap, target, config>>
          /\ process' \notin Live'
      BY <2>2 DEF StopWait, requestVars, ghostVars, processVars, Live, Children
    <3>2. \A q \in Procs : pc'[q] \in Launches => pc[q] \in Launches
      BY <2>2 DEF StopWait, Launches
    <3> QED
      BY <3>1, <3>2, ServingFrame
  <2>3. CASE ToBytes(p)
    <3>1. /\ UNCHANGED <<heap, batch, todo, target, config, process, alive, killed>>
          /\ missed' = InFlight /\ snap' = heap[target[p]]
      BY <2>3 DEF ToBytes, requestVars, processVars
    <3>2. process' \notin Live'
      BY <2>3, <3>1 DEF ToBytes, Children, Live, Writes
    <3>3. \A q \in Procs \ {p} : pc'[q] \notin Launches
      BY <2>3, Alone DEF ToBytes, Writes, Launches, Stops
    <3>4. target[p] \in 1..Len(heap) /\ heap[target[p]] \in Contents
      BY <2>3 DEF ToBytes, Configs
    <3>5. ASSUME target[p] \in {config, target[Sync]}, NEW u \in Users \ (InFlight \cup Owed)
          PROVE  heap[target[p]][u] = Want(target[p], u)
      <4>1. CASE u \in DOMAIN batch
        <5>1. pc[Sync] = "calls"
          BY <4>1 DEF Delivery, NoBatch
        <5>2. target[p] = config
          BY <3>4, <3>5, <5>1 DEF FullSync
        <5>3. \A i \in DOMAIN todo : todo[i] # <<"set", u>>
          BY <3>5 DEF InFlight
        <5> QED
          BY <4>1, <5>2, <5>3 DEF Delivery, Want
      <4> QED
        BY <4>1 DEF Want
    <3>6. snap' \in Contents /\ Agrees(snap, target[p])'
      BY <3>1, <3>4, <3>5 DEF Agrees, Want, Owed
    <3> QED
      BY <3>2, <3>3, <3>6 DEF Serving
  <2>4. CASE Launch(p)
    <3>1. /\ UNCHANGED <<heap, batch, todo, missed, config>> /\ served' = snap
          /\ from' = target[p] /\ target'[Sync] = target[Sync]
      BY <2>4 DEF Launch, requestVars, ghostVars, Configs
    <3>2. \A q \in Procs : pc'[q] \notin Launches
      <4>1. \A q \in Procs \ {p} : pc[q] \notin Launches
        BY <2>4, Alone DEF Launch, Launches
      <4> QED
        BY <2>4, <4>1 DEF Launch, AfterLaunch, Launches
    <3>3. Agrees(snap, target[p])
      BY <2>4 DEF Launch, Serving, Launches
    <3>4. Agrees(served, from)'
      BY <3>1, <3>3 DEF Agrees, Want, Owed
    <3> QED
      BY <3>2, <3>4 DEF Serving
  <2>5. CASE LaunchFail(p)
    <3>1. /\ UNCHANGED <<heap, batch, todo, missed, process, served, from, config>>
          /\ Live' \subseteq Live
      BY <2>5 DEF LaunchFail, ghostVars, Live, CleanupOrphanedProcesses, KillProcessTree
    <3>2. target'[Sync] \in {config, target[Sync]}
      BY <2>5 DEF LaunchFail, Configs
    <3>3. \A q \in Procs : pc'[q] \notin Launches
      <4>1. \A q \in Procs \ {p} : pc[q] \notin Launches
        BY <2>5, Alone DEF LaunchFail, Launches
      <4> QED
        BY <2>5, <4>1 DEF LaunchFail, AfterLaunchError, Launches
    <3> QED
      BY <3>1, <3>2, <3>3, ServingFrame
  <2>6. CASE StatusOk(p) \/ StatusFail(p) \/ SetConfig(p)
    <3>1. /\ UNCHANGED <<heap, batch, todo, missed, process, served, from, snap, alive, killed>>
          /\ p \in {New, Sync}
      BY <2>6 DEF StatusOk, StatusFail, SetConfig, requestVars, ghostVars, processVars
    <3>2. {config', target'[Sync]} \subseteq {config, target[Sync], 0}
      BY <2>6 DEF StatusOk, StatusFail, SetConfig, Configs
    <3>3. \A q \in Procs : pc'[q] \in Launches => pc[q] \in Launches /\ target'[q] = target[q]
      BY <2>6, <3>1 DEF StatusOk, StatusFail, SetConfig, Launches, Configs
    <3> QED
      BY <3>1, <3>2, <3>3, ServingFrame DEF Live
  <2>7. CASE CloseHandler(p) \/ Panic(p) \/ Shutdown(p)
    <3>1. UNCHANGED <<heap, batch, todo, missed, process, served, from, snap, target, config,
                      alive, killed>>
      BY <2>7 DEF CloseHandler, Panic, Shutdown, requestVars, ghostVars, processVars, localVars
    <3>2. \A q \in Procs : pc'[q] \in Launches => pc[q] \in Launches
      BY <2>7 DEF CloseHandler, Panic, Shutdown, Launches, localVars
    <3> QED
      BY <3>1, <3>2, ServingFrame DEF Live
  <2> QED
    BY <1>2, <2>1, <2>2, <2>3, <2>4, <2>5, <2>6, <2>7 DEF Restarter
<1>3. CASE HealthStep
  <2> USE DEF Inv, Control
  <2>1. UNCHANGED <<heap, batch, todo, missed, process, served, from, snap, config, alive, killed>>
    BY <1>3
    DEF HealthStep, HealthTop, HealthCheck, ProbeOk, ProbeFail, Judge, requestVars, ghostVars,
        processVars
  <2>2. target'[Sync] = target[Sync]
    BY <1>3 DEF HealthStep, HealthTop, HealthCheck, ProbeOk, ProbeFail, Judge, Configs
  <2>3. \A q \in Procs : pc'[q] \in Launches => pc[q] \in Launches /\ target'[q] = target[q]
    BY <1>3
    DEF HealthStep, HealthTop, HealthCheck, ProbeOk, ProbeFail, Judge, Configs, Launches
  <2> QED
    BY <2>1, <2>2, <2>3, ServingFrame DEF Live
<1>4. CASE Set
  <2> USE DEF Inv
  <2>1. /\ UNCHANGED <<batch, missed, process, served, from, snap, target, pc, config, alive, killed>>
        /\ pc[Sync] = "calls" /\ todo # <<>> /\ todo' = Tail(todo) /\ todo[1][1] = "set"
    BY <1>4 DEF Set, Due, localVars, processVars, ghostVars
  <2>2. Owed \subseteq Owed'
    BY <2>1, OwedAfter
  <2>3. todo[1][2] \in DOMAIN batch
    BY <2>1, TailIsDue DEF Delivery
  <2>4. \A c \in 1..Len(heap), u \in Users : Want(c, u)' = Want(c, u)
    BY <1>4, <2>1, <2>3, SetKeepsConfigs DEF Want
  <2>5. config \in 1..Len(heap) /\ (target[Sync] # 0 => target[Sync] \in 1..Len(heap))
    BY DEF Configs
  <2>6. ASSUME process' \in Live'
        PROVE  Agrees(served, from)'
    <3>1. from \in 1..Len(heap) /\ Agrees(served, from)
      BY <2>1, <2>6 DEF Configs, Serving, Live
    <3> QED
      BY <2>1, <2>2, <2>4, <3>1 DEF Agrees
  <2>7. ASSUME NEW p \in Procs, pc'[p] \in Launches
        PROVE  snap' \in Contents /\ Agrees(snap, target[p])'
    <3>1. target[p] \in 1..Len(heap) /\ snap \in Contents /\ Agrees(snap, target[p])
      BY <2>1, <2>7 DEF Configs, Serving, Launches, Candidate, Restoring
    <3> QED
      BY <2>1, <2>2, <2>4, <3>1 DEF Agrees
  <2> QED
    BY <2>6, <2>7 DEF Serving
<1>5. ASSUME NEW op \in {"remove", "add"}, CallOk(op)
      PROVE  Serving'
  <2> USE DEF Inv
  <2> DEFINE v == todo[1][2]
  <2>1. /\ UNCHANGED <<heap, batch, process, from, target, pc, config, alive, killed>>
        /\ todo # <<>> /\ todo' = Tail(todo) /\ todo[1][1] = op
        /\ missed' = missed \ {v} /\ answers # {}
        /\ served' = [served EXCEPT ![v] = Account(op, v)]
    BY <1>5 DEF CallOk, Due, Apply, localVars
  <2>2. process \in Live /\ process # NoPid
    BY <2>1 DEF Children, Live
  <2>3. \A p \in Procs : pc'[p] \notin Launches
    BY <2>1, <2>2 DEF Children
  <2>4. v \in Users /\ v \in DOMAIN batch /\ served \in Contents
    BY <2>1, <2>2, TailIsDue DEF Delivery, Configs
  <2>5. /\ Owed \subseteq Owed' \cup {v}
        /\ op = "remove" /\ batch[v] # NoAccount => v \in Owed'
    BY <2>1, OwedAfter
  <2> HIDE DEF v
  <2>6. served'[v] = Account(op, v) /\ \A u \in Users \ {v} : served'[u] = served[u]
    BY <2>1, <2>4 DEF Contents
  <2>7. v \notin Owed' => Account(op, v) = Want(from, v)
    BY <2>4, <2>5 DEF Account, Want
  <2>8. Agrees(served, from)
    BY <2>2 DEF Serving
  <2>9. Agrees(served, from)'
    BY <2>1, <2>5, <2>6, <2>7, <2>8 DEF Agrees, Want
  <2> QED
    BY <2>3, <2>9 DEF Serving
<1>6. ASSUME NEW op \in {"remove", "add"}, CallFail(op)
      PROVE  Serving'
  <2> USE DEF Inv
  <2> DEFINE v == todo[1][2]
  <2>1. /\ UNCHANGED <<heap, batch, process, from, snap, target, pc, config, alive, killed>>
        /\ todo # <<>> /\ todo' = Tail(todo) /\ missed' = missed \cup {v}
        /\ served' = served \/ served' = [served EXCEPT ![v] = Account(op, v)]
    BY <1>6 DEF CallFail, Due, Apply, localVars
  <2>2. v \in Users /\ Owed \subseteq Owed' \cup {v}
    BY <2>1, OwedAfter, TailIsDue DEF Delivery
  <2> HIDE DEF v
  <2>3. ASSUME process \in Live
        PROVE  Agrees(served, from)'
    <3>1. served \in Contents /\ Agrees(served, from)
      BY <2>3 DEF Configs, Serving
    <3>2. \A u \in Users \ {v} : served'[u] = served[u]
      BY <2>1, <3>1 DEF Contents
    <3> QED
      BY <2>1, <2>2, <3>1, <3>2 DEF Agrees, Want
  <2>4. ASSUME NEW p \in Procs, pc[p] \in Launches
        PROVE  snap' \in Contents /\ Agrees(snap, target[p])'
    <3>1. snap \in Contents /\ Agrees(snap, target[p])
      BY <2>4 DEF Serving
    <3> QED
      BY <2>1, <2>2, <3>1 DEF Agrees, Want
  <2> QED
    BY <2>1, <2>3, <2>4 DEF Serving, Live
<1>7. CASE Reply
  <2> USE DEF Inv, Control
  <2>1. /\ UNCHANGED <<heap, process, served, from, snap, config, alive, killed, missed>>
        /\ todo = <<>> /\ todo' = todo /\ batch' = NoBatch /\ target'[Sync] = 0
        /\ \A q \in Procs : pc'[q] \in Launches => pc[q] \in Launches /\ target'[q] = target[q]
    BY <1>7 DEF Reply, Delivery, processVars, Launches, Configs
  <2>2. Owed = {} /\ Owed' = {}
    BY <2>1 DEF Owed
  <2>3. \A u \in Users : Want(config, u)' = Want(config, u)
    BY <2>1 DEF Want, Delivery, NoBatch
  <2>4. ASSUME process' \in Live'
        PROVE  Agrees(served, from)'
    <3>1. from # 0 /\ Agrees(served, from)
      BY <2>1, <2>4 DEF Configs, Serving, Live
    <3> QED
      BY <2>1, <2>2, <2>3, <3>1 DEF Agrees
  <2>5. ASSUME NEW p \in Procs, pc'[p] \in Launches
        PROVE  snap' \in Contents /\ Agrees(snap, target[p])'
    <3>1. target[p] # 0 /\ snap \in Contents /\ Agrees(snap, target[p]) /\ target'[p] = target[p]
      BY <2>1, <2>5 DEF Configs, Serving, Launches, Candidate, Restoring
    <3> QED
      BY <2>1, <2>2, <2>3, <3>1 DEF Agrees
  <2> QED
    BY <2>4, <2>5 DEF Serving
<1>8. ASSUME NEW c \in Contents, SyncUsers(c)
      PROVE  Serving'
  <2> USE DEF Inv, Control
  <2>1. /\ UNCHANGED <<batch, todo, missed, process, served, from, snap, config, alive, killed>>
        /\ target' = [target EXCEPT ![Sync] = Len(heap) + 1]
        /\ pc[Sync] = "idle" /\ \A q \in Procs : pc'[q] \in Launches => q # Sync /\ pc[q] \in Launches
    BY <1>8 DEF SyncUsers, Arrive, processVars, Launches
  <2>2. /\ target'[Sync] = Len(heap) + 1
        /\ \A q \in Procs \ {Sync} : target'[q] = target[q]
    BY <2>1 DEF Configs
  <2>3. Owed' = Owed /\ \A i \in 1..Len(heap), u \in Users : Want(i, u)' = Want(i, u)
    BY <1>8, <2>1, SyncUsersKeepsConfigs DEF Owed, Want
  <2>4. config \in 1..Len(heap) /\ Len(heap) \in Nat
    BY DEF Configs
  <2>5. ASSUME process' \in Live'
        PROVE  Agrees(served, from)'
    <3>1. from \in 1..Len(heap) /\ Agrees(served, from)
      BY <2>1, <2>5 DEF Configs, Serving, Live
    <3>2. from # Len(heap) + 1
      BY <2>4, <3>1
    <3> QED
      BY <2>1, <2>2, <2>3, <3>1, <3>2 DEF Agrees
  <2>6. ASSUME NEW p \in Procs, pc'[p] \in Launches
        PROVE  snap' \in Contents /\ Agrees(snap, target[p])'
    <3>1. /\ target[p] \in 1..Len(heap) /\ snap \in Contents /\ Agrees(snap, target[p])
          /\ target'[p] = target[p]
      BY <2>1, <2>2, <2>6 DEF Configs, Serving, Launches, Candidate, Restoring
    <3>2. target[p] # Len(heap) + 1
      BY <2>4, <3>1
    <3> QED
      BY <2>1, <2>2, <2>3, <3>1, <3>2 DEF Agrees
  <2> QED
    BY <2>5, <2>6 DEF Serving
<1>9. ASSUME NEW b \in Batches, SyncUser(b) \/ UpdateUsers(b)
      PROVE  Serving'
  <2> USE DEF Inv, Control
  <2>1. /\ UNCHANGED <<heap, missed, process, served, from, snap, config, target, alive, killed>>
        /\ batch' = b /\ pc[Sync] = "idle"
        /\ \A q \in Procs : pc'[q] \in Launches => pc[q] \in Launches
    BY <1>9 DEF SyncUser, UpdateUsers, Arrive, processVars, Launches
  <2>2. batch = NoBatch /\ todo = <<>>
    BY <2>1 DEF Delivery
  <2>3. DOMAIN b \subseteq Owed' /\ Owed = {}
    <3>1. Complete(todo', b)
      BY <1>9, ArrivalIsDue
    <3>2. DOMAIN b \subseteq Users
      BY DEF Batches
    <3> QED
      BY <2>2, <3>1, <3>2 DEF Complete, Owed
  <2>4. \A c \in 1..Len(heap), u \in Users \ Owed' : Want(c, u)' = Want(c, u)
    BY <2>1, <2>2, <2>3 DEF Want, NoBatch
  <2>5. ASSUME process' \in Live'
        PROVE  Agrees(served, from)'
    <3>1. from \in 1..Len(heap) /\ Agrees(served, from)
      BY <2>1, <2>5 DEF Configs, Serving, Live
    <3> QED
      BY <2>1, <2>3, <2>4, <3>1 DEF Agrees
  <2>6. ASSUME NEW p \in Procs, pc'[p] \in Launches
        PROVE  snap' \in Contents /\ Agrees(snap, target[p])'
    <3>1. target[p] \in 1..Len(heap) /\ snap \in Contents /\ Agrees(snap, target[p])
      BY <2>1, <2>6 DEF Configs, Serving, Launches, Candidate, Restoring
    <3> QED
      BY <2>1, <2>3, <2>4, <3>1 DEF Agrees
  <2> QED
    BY <2>5, <2>6 DEF Serving
<1>10. ASSUME NEW l \in Pids, Bind(l) \/ Hang(l) \/ Exit(l)
       PROVE  Serving'
  <2>1. /\ UNCHANGED <<heap, batch, todo, missed, snap, target, config, pc>>
        /\ process' \in Live' => process \in Live /\ UNCHANGED <<served, from>>
    BY <1>10 DEF Bind, Hang, Exit, localVars, requestVars, ghostVars, Live
  <2> QED
    BY <2>1, ServingFrame
<1> QED
  BY <1>1, <1>2, <1>3, <1>4, <1>5, <1>6, <1>7, <1>8, <1>9, <1>10 DEF Next, SyncStep
-----------------------------------------------------------------------------
(***************************************************************************)
(* The Config that runs.                                                   *)
(***************************************************************************)
LEMMA RunningStep ==
    ASSUME Inv, [Next]_vars
    PROVE  Running'
<1> USE Goroutines DEF Inv, Control, Candidate, Restoring, Settled, Running, Goto
<1>1. CASE UNCHANGED vars
  BY <1>1 DEF vars, localVars, processVars, ghostVars, Live
<1>2. ASSUME NEW p \in Procs, Restarter(p) \/ Shutdown(p)
      PROVE  Running'
  <2>1. CASE LockRestart(p)
    <3>1. process' \notin Live' /\ UNCHANGED <<config, target>>
      BY <2>1 DEF LockRestart, Kill, Started, Live, Children
    <3>2. overtaken' \in BOOLEAN
      BY <2>1 DEF LockRestart
    <3>3. \A q \in Procs : ~Holds(q)
      BY <2>1 DEF LockRestart, Exclusion
    <3>4. pc[New] = "up" /\ pc'[New] = "up"
      BY <2>1 DEF LockRestart
    <3>5. ASSUME ~overtaken', pc'[Health] \in {"stop", "bytes", "launch"}
          PROVE  target[Health] = config /\ pc'[Sync] \in Settled
      <4>1. pc[Health] \notin {"stop", "bytes", "launch"}
        BY <3>3 DEF Holds, Stops, Writes, Launches
      <4>2. p = Health
        BY <2>1, <3>5, <4>1 DEF LockRestart
      <4>3. target[Health] = config /\ pc[Sync] \notin Uncommitted
        BY <2>1, <3>5, <4>2 DEF LockRestart
      <4>4. pc[Sync] \in Settled
        BY <3>3, <4>3 DEF Holds, Stops, Writes, Launches, Uncommitted
      <4> QED
        BY <2>1, <4>2, <4>3, <4>4 DEF LockRestart
    <3> QED
      BY <3>1, <3>2, <3>4, <3>5
  <2>2. CASE LockShutdown(p)
    <3>1. process' \notin Live' /\ UNCHANGED <<config, target, overtaken>>
      BY <2>2 DEF LockShutdown, Kill, Started, Live, Children, ghostVars
    <3> QED
      BY <2>2, <3>1 DEF LockShutdown
  <2>3. CASE StopWait(p)
    <3>1. process' \notin Live' /\ UNCHANGED <<config, target, overtaken>>
      BY <2>3 DEF StopWait, Live, Children, processVars, ghostVars
    <3> QED
      BY <2>3, <3>1 DEF StopWait
  <2>4. CASE ToBytes(p)
    <3>1. process' \notin Live' /\ UNCHANGED <<config, target, overtaken>>
      BY <2>4 DEF ToBytes, Live, Children, processVars, Writes
    <3> QED
      BY <2>4, <3>1 DEF ToBytes
  <2>5. CASE Launch(p)
    <3>1. /\ from' = target[p] /\ target'[Sync] = target[Sync] /\ UNCHANGED <<config, overtaken>>
          /\ pc[p] \in Launches
      BY <2>5 DEF Launch, ghostVars, Configs, Launches
    <3>2. /\ p # New => pc[New] = "up" /\ pc'[New] = "up"
          /\ p = New => pc[Sync] = "idle" /\ pc[Health] = "idle" /\ pc'[New] = "status"
      BY <2>5 DEF Launch, AfterLaunch
    <3>3. p # Health => pc[Health] \notin {"stop", "bytes", "launch"}
      BY <3>1, Alone DEF Stops, Writes, Launches
    <3>4. CASE p = New
      BY <2>5, <3>1, <3>2, <3>4 DEF Launch, Launches
    <3>5. CASE p = Health
      BY <2>5, <3>1, <3>2, <3>5 DEF Launch, AfterLaunch, Launches
    <3>6. CASE p = Sync
      BY <2>5, <3>1, <3>2, <3>3, <3>6 DEF Launch, AfterLaunch, Launches
    <3>7. CASE p \in Stoppers
      BY <3>1, <3>7 DEF Launches
    <3> QED
      BY <3>4, <3>5, <3>6, <3>7
  <2>6. CASE LaunchFail(p)
    <3>1. /\ UNCHANGED <<config, overtaken, process>> /\ pc[p] \in Launches
          /\ process' \notin Live'
      BY <2>6 DEF LaunchFail, ghostVars, Live, Children, Launches
    <3>2. /\ p # New => pc[New] = "up" /\ pc'[New] = "up"
          /\ p = New => pc[Sync] = "idle" /\ pc[Health] = "idle" /\ pc'[New] = "failed"
      BY <2>6 DEF LaunchFail, AfterLaunchError
    <3>3. p # Health => pc[Health] \notin {"stop", "bytes", "launch"}
      BY <3>1, Alone DEF Stops, Writes, Launches
    <3>4. pc'[Health] \notin {"stop", "bytes", "launch"}
      BY <2>6, <3>3 DEF LaunchFail, AfterLaunchError
    <3> QED
      BY <3>1, <3>2, <3>4
  <2>7. CASE StatusOk(p) \/ StatusFail(p)
    <3>1. /\ UNCHANGED <<config, overtaken, process, from, alive, killed>>
          /\ p \in {New, Sync} /\ (p = New => pc[Sync] = "idle")
      BY <2>7 DEF StatusOk, StatusFail, ghostVars, processVars
    <3>2. target'[Health] = target[Health]
      BY <2>7, <3>1 DEF StatusOk, StatusFail, Configs
    <3>3. pc'[Health] \in {"stop", "bytes", "launch"} => p = Sync /\ pc'[Health] = pc[Health]
      BY <2>7, <3>1 DEF StatusOk, StatusFail
    <3>4. CASE p = Sync
      <4>1. CASE StatusOk(p)
        BY <3>1, <3>2, <3>3, <3>4, <4>1 DEF StatusOk, Live
      <4>2. CASE StatusFail(p)
        <5>1. /\ target'[Sync] = config
              /\ pc'[Sync] = IF pc[Sync] = "status" THEN "restore" ELSE "reply"
              /\ pc[Sync] = "statusRestore" => target[Sync] = config
              /\ pc[Sync] \in {"status", "statusRestore"} /\ pc'[New] = "up"
          BY <3>4, <4>2 DEF StatusFail, Configs, FullSync
        <5> QED
          BY <3>1, <3>2, <3>3, <5>1 DEF Live
      <4> QED
        BY <2>7, <4>1, <4>2
    <3>5. CASE p = New
      <4>1. target'[Sync] = target[Sync] /\ pc'[Sync] = "idle" /\ pc'[New] \in {"up", "shutdown"}
        BY <2>7, <3>1, <3>5 DEF StatusOk, StatusFail, Configs
      <4> QED
        BY <3>1, <3>3, <3>5, <4>1 DEF Live
    <3> QED
      BY <3>1, <3>4, <3>5
  <2>8. CASE SetConfig(p)
    <3>1. /\ p = Sync /\ config' = target[Sync] /\ pc'[Sync] = "reply" /\ pc'[New] = "up"
          /\ pc[Sync] \in {"commit", "commitRestore"}
          /\ UNCHANGED <<target, overtaken, process, from, alive, killed>>
          /\ pc'[Health] = pc[Health]
      BY <2>8 DEF SetConfig, ghostVars, processVars
    <3> QED
      BY <3>1 DEF Live
  <2>9. CASE CloseHandler(p) \/ Panic(p) \/ Shutdown(p)
    <3>1. UNCHANGED <<config, target, overtaken, process, from, alive, killed>>
      BY <2>9 DEF CloseHandler, Panic, Shutdown, ghostVars, processVars, localVars
    <3> QED
      BY <2>9, <3>1 DEF CloseHandler, Panic, Shutdown, localVars, Live
  <2> QED
    BY <1>2, <2>1, <2>2, <2>3, <2>4, <2>5, <2>6, <2>7, <2>8, <2>9 DEF Restarter
<1>3. CASE HealthStep
  <2>1. UNCHANGED <<config, overtaken, process, from, alive, killed>>
    BY <1>3
    DEF HealthStep, HealthTop, HealthCheck, ProbeOk, ProbeFail, Judge, ghostVars, processVars
  <2>2. /\ target'[Sync] = target[Sync] /\ target'[New] = target[New]
        /\ pc'[Sync] = pc[Sync] /\ pc'[New] = pc[New]
        /\ pc'[Health] \notin {"stop", "bytes", "launch"}
    BY <1>3 DEF HealthStep, HealthTop, HealthCheck, ProbeOk, ProbeFail, Judge, Configs
  <2> QED
    BY <2>1, <2>2 DEF Live
<1>4. CASE SyncStep
  <2>1. CASE Set
    BY <2>1 DEF Set, localVars, processVars, ghostVars, Live
  <2>2. ASSUME NEW op \in {"remove", "add"}, CallOk(op) \/ CallFail(op)
        PROVE  Running'
    BY <2>2 DEF CallOk, CallFail, localVars, Live
  <2>3. CASE Reply
    BY <2>3 DEF Reply, processVars, Live, Configs
  <2> QED
    BY <1>4, <2>1, <2>2, <2>3 DEF SyncStep
<1>5. ASSUME NEW c \in Contents, SyncUsers(c)
      PROVE  Running'
  BY <1>5 DEF SyncUsers, Arrive, processVars, Live, Configs
<1>6. ASSUME NEW b \in Batches, SyncUser(b) \/ UpdateUsers(b)
      PROVE  Running'
  BY <1>6 DEF SyncUser, UpdateUsers, Arrive, processVars, Live
<1>7. ASSUME NEW l \in Pids, Bind(l) \/ Hang(l) \/ Exit(l)
      PROVE  Running'
  BY <1>7 DEF Bind, Hang, Exit, localVars, ghostVars, Live
<1> QED
  BY <1>1, <1>2, <1>3, <1>4, <1>5, <1>6, <1>7 DEF Next
-----------------------------------------------------------------------------
(***************************************************************************)
(* The theorems.                                                           *)
(***************************************************************************)
LEMMA InitInv == Init => Inv
<1> SUFFICES ASSUME Init
             PROVE  Inv
  OBVIOUS
<1> USE Goroutines DEF Init
<1>1. Control /\ Exclusion /\ Children
  BY DEF Control, Candidate, Restoring, Exclusion, Holds, Children, Live, Stops, Writes, Launches
<1>2. PICK c \in Contents : heap = <<c>>
  OBVIOUS
<1>3. heap \in Seq(Contents) /\ Len(heap) = 1
  BY <1>2
<1>4. Configs
  BY <1>3 DEF Configs, Live, Candidate, Restoring
<1>5. FullSync
  BY DEF FullSync, Candidate, Restoring
<1>6. DOMAIN batch = {}
  BY DEF NoBatch
<1>7. Delivery /\ Answering
  BY <1>6 DEF Delivery, Answering, Ordered
<1>8. Serving /\ Running
  BY DEF Serving, Running, Live, Launches, Settled
<1> QED
  BY <1>1, <1>4, <1>5, <1>7, <1>8 DEF Inv

(* Every run of the core, whatever fails in it, keeps the invariant: what  *)
(* restarts exclude, which process can serve, where the pointers of New,   *)
(* the health goroutine and the syncs lead, and what is still due.         *)
THEOREM Invariance == Spec => []Inv
<1>1. Inv /\ [Next]_vars => Inv'
  <2> SUFFICES ASSUME Inv, [Next]_vars
               PROVE  Inv'
    OBVIOUS
  <2>1. Control' /\ Exclusion' /\ Children'
    BY ControlStep, ExclusionStep, ChildrenStep DEF Inv
  <2>2. Configs' /\ FullSync' /\ Delivery'
    BY ConfigsStep, FullSyncStep, DeliveryStep
  <2>3. Answering' /\ Serving' /\ Running'
    BY AnsweringStep, ServingStep, RunningStep
  <2> QED
    BY <2>1, <2>2, <2>3 DEF Inv
<1> QED
  BY InitInv, <1>1, PTL DEF Spec

(* Core.Start and Core.Stop: no process runs that was not sent a kill but  *)
(* the one the core keeps.                                                 *)
THEOREM NoProcessIsOrphaned == Spec => []NoOrphan
<1>1. Inv => NoOrphan
  BY DEF Inv, Children, Live, NoOrphan
<1> QED
  BY Invariance, <1>1, PTL

(* applyConfigWithRestart and restorePreviousConfig: at rest the process   *)
(* runs the committed Config, after any number of failed syncs, unless the *)
(* health goroutine has overtaken one.                                     *)
THEOREM TheCommittedConfigRuns == Spec => []CommittedConfigRuns
<1>1. Inv => CommittedConfigRuns
  BY DEF Inv, Children, Running, Settled, Live, CommittedConfigRuns, Quiet
<1> QED
  BY Invariance, <1>1, PTL

(* UpdateUsers and SyncUser: a core that runs the committed Config serves  *)
(* it, but for the users a call for whom has failed or was overtaken.      *)
THEOREM TheCommittedConfigIsServed == Spec => []ServesConfig
<1>1. Inv => ServesConfig
  <2> SUFFICES ASSUME Inv, Quiet, answers # {}, from = config, NEW u \in Users \ missed
               PROVE  served[u] = heap[config][u]
    BY DEF ServesConfig
  <2>1. process \in Live
    BY DEF Inv, Children
  <2>2. todo = <<>> /\ batch = NoBatch
    BY DEF Inv, Delivery, Quiet
  <2>3. u \notin Owed /\ Want(config, u) = heap[config][u]
    BY <2>2 DEF Owed, Want, NoBatch
  <2> QED
    BY <2>1, <2>3 DEF Inv, Serving, Agrees
<1> QED
  BY Invariance, <1>1, PTL

(* AddInboundUser's error is reported: the core has every user the last    *)
(* answers called added, whatever restarts came in between.                *)
THEOREM AckedUsersAreServed == Spec => []AckedUserIsServed
<1>1. Inv => AckedUserIsServed
  <2> SUFFICES ASSUME Inv, pc[Sync] = "idle"
               PROVE  acked \cap missed = {}
    BY DEF AckedUserIsServed
  <2>1. DOMAIN batch = {}
    BY DEF Inv, Delivery, NoBatch
  <2> QED
    BY <2>1 DEF Inv, Answering
<1> QED
  BY Invariance, <1>1, PTL

(* SyncUsers and UpdateUsersAndRestart work on a clone: when they fail the *)
(* node has the users it had.                                              *)
THEOREM FailedSyncsKeepUsers == Spec => []FailedSyncKeepsUsers
<1>1. Inv => FailedSyncKeepsUsers
  BY DEF Inv, FullSync, FailedSyncKeepsUsers
<1> QED
  BY Invariance, <1>1, PTL
-----------------------------------------------------------------------------
(***************************************************************************)
(* The configuration: the three ways a user reaches an inbound agree, the  *)
(* core has the accounts a restart would give it, and ApplyAPI may be      *)
(* applied to its own result.                                              *)
(***************************************************************************)
(* The accounts a full sync gives an inbound.                              *)
Active(tag, sent) == {e \in DOMAIN sent : IsActiveInbound(tag, sent[e])}

(* An account is of its inbound's type, and checkShadowsocks2022 leaves    *)
(* one that it has checked before as it is.                                *)
LEMMA AccountIsChecked ==
    ASSUME NEW tag, NEW user
    PROVE  /\ AccountOf(tag, user).type = AccountType(tag)
           /\ CheckShadowsocks2022(tag, AccountOf(tag, user)) = AccountOf(tag, user)
<1> DEFINE a == NewAccount(tag, user)
           s == EnsureBase64Password(a.secret, KeyLen[tag])
           b == [a EXCEPT !.secret = s]
<1>1. CASE KeyLen[tag] = 0
  BY <1>1 DEF AccountOf, CheckShadowsocks2022, NewAccount
<1>2. CASE KeyLen[tag] # 0
  <2>1. AccountOf(tag, user) = b
    BY <1>2 DEF AccountOf, CheckShadowsocks2022
  <2>2. b = [type |-> AccountType(tag), secret |-> s, flow |-> a.flow]
    BY DEF NewAccount
  <2>3. s.form = "key" /\ s.len = KeyLen[tag]
    BY DEF EnsureBase64Password
  <2>4. EnsureBase64Password(s, KeyLen[tag]) = s
    BY <2>3 DEF EnsureBase64Password
  <2>5. CheckShadowsocks2022(tag, b) = [b EXCEPT !.secret = EnsureBase64Password(b.secret, KeyLen[tag])]
    BY <1>2 DEF CheckShadowsocks2022
  <2> HIDE DEF s
  <2>6. [b EXCEPT !.secret = EnsureBase64Password(b.secret, KeyLen[tag])] = b
    BY <2>2, <2>4
  <2> QED
    BY <2>1, <2>2, <2>5, <2>6
<1> QED
  BY <1>1, <1>2

(* What a full sync makes of an inbound, and what a batch is split into.   *)
LEMMA SyncedInbound ==
    ASSUME NEW tag, NEW sent
    PROVE  InboundSyncUsers(tag, sent) =
               [e \in Active(tag, sent) |-> AccountOf(tag, sent[e])]
BY DEF InboundSyncUsers, Active, IsActiveInbound, AccountOf

LEMMA BuiltUpdate ==
    ASSUME NEW tag, NEW sent
    PROVE  BuildInboundUpdate(tag, sent) =
               [accounts |-> [e \in Active(tag, sent) |-> AccountOf(tag, sent[e])],
                removeEmailSet |-> DOMAIN sent \ Active(tag, sent)]
BY DEF BuildInboundUpdate, Active

(* A batch decides over the users it names, and over them only.            *)
LEMMA OverlaidActive ==
    ASSUME NEW tag, NEW f, NEW g
    PROVE  /\ Active(tag, Overlay(f, g)) = (Active(tag, f) \ DOMAIN g) \cup Active(tag, g)
           /\ \A e \in Active(tag, f) \ DOMAIN g : Overlay(f, g)[e] = f[e]
           /\ \A e \in Active(tag, g) : Overlay(f, g)[e] = g[e]
           /\ Active(tag, g) \subseteq DOMAIN g
BY DEF Active, Overlay

(* A batch applied to the clients of a full sync gives the clients of a    *)
(* full sync of all users. Calls to a core that had the clients of the     *)
(* first give it those of the second, up to their flow.                    *)
LEMMA BatchIsPartOfSync ==
    ASSUME NEW tag, NEW old, NEW sent
    PROVE  LET synced == InboundSyncUsers(tag, old)
               update == BuildInboundUpdate(tag, sent)
               new == InboundSyncUsers(tag, Overlay(old, sent))
           IN  /\ InboundUpdateUsers(tag, synced, update) = new
               /\ \A accounts : AgreeUpToFlow(tag, accounts, synced) =>
                     AgreeUpToFlow(tag, Called(tag, accounts, update), new)
<1> DEFINE synced == InboundSyncUsers(tag, old)
           update == BuildInboundUpdate(tag, sent)
           new == InboundSyncUsers(tag, Overlay(old, sent))
<1>1. /\ DOMAIN synced = Active(tag, old)
      /\ \A e \in DOMAIN synced : synced[e] = AccountOf(tag, old[e])
  BY SyncedInbound
<1>2. /\ DOMAIN update.accounts = Active(tag, sent)
      /\ update.removeEmailSet = DOMAIN sent \ Active(tag, sent)
      /\ \A e \in Active(tag, sent) : update.accounts[e] = AccountOf(tag, sent[e])
  BY BuiltUpdate
<1>3. new = [e \in (Active(tag, old) \ DOMAIN sent) \cup Active(tag, sent) |->
                IF e \in Active(tag, sent) THEN AccountOf(tag, sent[e]) ELSE AccountOf(tag, old[e])]
  <2> DEFINE over == Overlay(old, sent)
  <2>1. new = [e \in Active(tag, over) |-> AccountOf(tag, over[e])]
    BY SyncedInbound
  <2> QED
    BY <2>1, OverlaidActive
<1> HIDE DEF synced, update, new
<1>4. InboundUpdateUsers(tag, synced, update) = new
  <2>1. (DOMAIN synced \cup DOMAIN update.accounts) \ update.removeEmailSet
            = (Active(tag, old) \ DOMAIN sent) \cup Active(tag, sent)
    BY <1>1, <1>2, OverlaidActive
  <2>2. \A e \in Active(tag, sent) : CheckShadowsocks2022(tag, update.accounts[e]) = AccountOf(tag, sent[e])
    BY <1>2, AccountIsChecked
  <2> QED
    BY <1>1, <1>2, <1>3, <2>1, <2>2 DEF InboundUpdateUsers
<1>5. ASSUME NEW accounts, AgreeUpToFlow(tag, accounts, synced)
      PROVE  AgreeUpToFlow(tag, Called(tag, accounts, update), new)
  <2>1. /\ DOMAIN new = (Active(tag, old) \ DOMAIN sent) \cup Active(tag, sent)
        /\ \A e \in Active(tag, sent) : new[e] = AccountOf(tag, sent[e])
        /\ \A e \in DOMAIN new \ Active(tag, sent) : new[e] = synced[e]
    BY <1>1, <1>3
  <2>2. DOMAIN accounts = DOMAIN synced
    BY <1>5 DEF AgreeUpToFlow
  <2>3. DOMAIN Called(tag, accounts, update) = DOMAIN new
    BY <1>1, <1>2, <2>1, <2>2, OverlaidActive DEF Called
  <2>4. ASSUME NEW e \in DOMAIN new
        PROVE  Called(tag, accounts, update)[e] \in {new[e], AccountForAPI(tag, new[e])}
    <3>1. CASE e \in Active(tag, sent)
      <4>1. Called(tag, accounts, update)[e] = AccountForAPI(tag, update.accounts[e])
        BY <1>2, <3>1 DEF Called
      <4> QED
        BY <1>2, <2>1, <3>1, <4>1
    <3>2. CASE e \notin Active(tag, sent)
      <4>1. e \in DOMAIN synced
        BY <1>1, <2>1, <3>2
      <4>2. Called(tag, accounts, update)[e] = accounts[e]
        BY <1>2, <2>3, <3>2 DEF Called
      <4> QED
        BY <1>5, <2>1, <3>2, <4>1, <4>2 DEF AgreeUpToFlow
    <3> QED
      BY <3>1, <3>2
  <2> QED
    BY <2>3, <2>4 DEF AgreeUpToFlow
<1> QED
  BY <1>4, <1>5 DEF synced, update, new

(* One user applied inbound by inbound is a batch of one.                  *)
LEMMA OneUserIsABatch ==
    ASSUME NEW tag, NEW old, NEW sent, NEW e, DOMAIN sent = {e}
    PROVE  InboundSyncUser(tag, InboundSyncUsers(tag, old), e, sent[e])
               = InboundSyncUsers(tag, Overlay(old, sent))
<1> DEFINE synced == InboundSyncUsers(tag, old)
           new == InboundSyncUsers(tag, Overlay(old, sent))
<1>1. /\ DOMAIN synced = Active(tag, old)
      /\ \A f \in DOMAIN synced : synced[f] = AccountOf(tag, old[f])
  BY SyncedInbound
<1> DEFINE user == sent[e]
<1>2. DOMAIN sent = {e} /\ sent[e] = user
  OBVIOUS
<1> HIDE DEF user
<1>3. Active(tag, sent) = IF IsActiveInbound(tag, user) THEN {e} ELSE {}
  BY <1>2 DEF Active
<1>4. new = [f \in (Active(tag, old) \ DOMAIN sent) \cup Active(tag, sent) |->
                IF f \in Active(tag, sent) THEN AccountOf(tag, sent[f]) ELSE AccountOf(tag, old[f])]
  <2> DEFINE over == Overlay(old, sent)
  <2>1. new = [f \in Active(tag, over) |-> AccountOf(tag, over[f])]
    BY SyncedInbound
  <2> QED
    BY <2>1, OverlaidActive
<1> HIDE DEF synced, new
<1>5. CASE IsActiveInbound(tag, user)
  <2>1. Active(tag, sent) = {e}
    BY <1>3, <1>5
  <2>2. new = [f \in DOMAIN synced \cup {e} |-> IF f = e THEN AccountOf(tag, user) ELSE synced[f]]
    BY <1>1, <1>2, <1>4, <2>1
  <2> QED
    BY <1>5, <2>2, AccountIsChecked DEF InboundSyncUser, synced, new, user
<1>6. CASE ~IsActiveInbound(tag, user)
  <2>1. Active(tag, sent) = {}
    BY <1>3, <1>6
  <2>2. new = [f \in DOMAIN synced \ {e} |-> synced[f]]
    BY <1>1, <1>2, <1>4, <2>1
  <2> QED
    BY <1>6, <2>2 DEF InboundSyncUser, synced, new, user
<1> QED
  BY <1>5, <1>6

(* Serialising leaves out no account of a full sync: each has its          *)
(* inbound's type.                                                         *)
LEMMA EveryAccountIsWritten ==
    ASSUME NEW sent
    PROVE  ConfigToBytes(Full(sent)) = [tag \in Managed |-> InboundSyncUsers(tag, sent)]
<1>1. ASSUME NEW tag \in Managed
      PROVE  [e \in {e \in DOMAIN Full(sent)[tag] : Full(sent)[tag][e].type = AccountType(tag)}
                 |-> Full(sent)[tag][e]] = InboundSyncUsers(tag, sent)
  <2>1. Full(sent)[tag] = InboundSyncUsers(tag, sent)
    BY DEF Full, Managed
  <2>2. /\ DOMAIN InboundSyncUsers(tag, sent) = Active(tag, sent)
        /\ \A e \in Active(tag, sent) : InboundSyncUsers(tag, sent)[e].type = AccountType(tag)
        /\ InboundSyncUsers(tag, sent) = [e \in Active(tag, sent) |-> InboundSyncUsers(tag, sent)[e]]
    BY SyncedInbound, AccountIsChecked
  <2>3. {e \in DOMAIN Full(sent)[tag] : Full(sent)[tag][e].type = AccountType(tag)} = Active(tag, sent)
    BY <2>1, <2>2
  <2> QED
    BY <2>1, <2>2, <2>3
<1> QED
  BY <1>1 DEF ConfigToBytes

-----------------------------------------------------------------------------
(* Induction over the naturals: the least number outside of G, taken from  *)
(* the well-founded order of finite sets, would not be there.              *)
LEMMA Induction ==
    ASSUME NEW G, 0 \in G, \A n \in Nat : n \in G => n + 1 \in G
    PROVE  Nat \subseteq G
<1> DEFINE B == Nat \ G
           T == {1..n : n \in B}
           R == StrictSubsetOrdering(Nat)
<1> SUFFICES ASSUME B # {} PROVE FALSE
  OBVIOUS
<1>1. IsWellFoundedOn(R, FiniteSubsetsOf(Nat))
  BY FS_StrictSubsetOrderingWellFounded
<1>2. T \subseteq FiniteSubsetsOf(Nat) /\ T # {}
  <2>1. \A n \in Nat : IsFiniteSet(1..n) /\ (1..n) \in SUBSET Nat
    BY FS_Interval
  <2> QED
    BY <2>1 DEF FiniteSubsetsOf
<1>3. PICK x \in T : \A y \in T : <<y, x>> \notin R
  <2> HIDE DEF T, R
  <2> QED
    BY <1>1, <1>2, WFMin
<1>4. PICK n \in B : x = 1..n
  OBVIOUS
<1>5. n # 0 /\ n - 1 \in Nat /\ (n - 1) + 1 = n
  OBVIOUS
<1>6. n - 1 \in B
  BY <1>5
<1>7. (1..(n - 1)) \subseteq (1..n) /\ n \in 1..n /\ n \notin 1..(n - 1)
  BY <1>5
<1>8. <<1..(n - 1), x>> \in R
  BY <1>4, <1>7 DEF StrictSubsetOrdering
<1> QED
  BY <1>3, <1>6, <1>8

(* What one turn of filterRules' loop makes of the rules kept before.      *)
Turn(rules, i, prefix) == IF KeepsRule(rules[i]) THEN Append(prefix, rules[i]) ELSE prefix

(* The loop of filterRules, turn by turn: the recursive function exists.   *)
LEMMA FilterLoop ==
    ASSUME NEW S, NEW rules \in Seq(S)
    PROVE  \E f : /\ DOMAIN f = 0..Len(rules)
                  /\ f[0] = <<>> 
                  /\ \A i \in 1..Len(rules) : f[i] = Turn(rules, i, f[i-1])
                  /\ FilterRules(rules) = f[Len(rules)]
<1> DEFINE Body(f, i) == IF i = 0 THEN <<>>
                         ELSE IF KeepsRule(rules[i]) THEN Append(f[i-1], rules[i]) ELSE f[i-1]
           Good(n) == \E f : DOMAIN f = 0..n /\ \A i \in 0..n : f[i] = Body(f, i)
           G == {n \in Nat : Good(n)}
<1>1. 0 \in G
  <2>1. DOMAIN [i \in 0..0 |-> <<>>] = 0..0 /\ \A i \in 0..0 : [j \in 0..0 |-> <<>>][i] = <<>> /\ i = 0
    OBVIOUS
  <2> QED
    BY <2>1
<1>2. ASSUME NEW n \in Nat, n \in G PROVE n + 1 \in G
  <2>1. PICK f : DOMAIN f = 0..n /\ \A i \in 0..n : f[i] = Body(f, i)
    BY <1>2
  <2> DEFINE g == [i \in 0..(n + 1) |-> IF i <= n THEN f[i] ELSE Body(f, n + 1)]
  <2>2. \A i \in 0..n : g[i] = f[i]
    OBVIOUS
  <2>3. g[n + 1] = Body(f, n + 1) /\ DOMAIN g = 0..(n + 1)
    OBVIOUS
  <2> HIDE DEF g
  <2>4. ASSUME NEW i \in 0..(n + 1) PROVE g[i] = Body(g, i)
    <3>1. CASE i \in 0..n
      <4>1. i # 0 => i - 1 \in 0..n /\ g[i-1] = f[i-1]
        BY <2>2, <3>1
      <4>2. Body(f, i) = Body(g, i)
        BY <4>1
      <4> HIDE DEF Body
      <4> QED
        BY <2>1, <2>2, <3>1, <4>2
    <3>2. CASE i = n + 1
      <4>1. n \in 0..n /\ i - 1 = n /\ g[n] = f[n]
        BY <2>2, <3>2
      <4> QED
        BY <2>3, <3>2, <4>1
    <3> QED
      BY <3>1, <3>2
  <2> HIDE DEF Body
  <2>5. Good(n + 1)
    BY <2>3, <2>4
  <2> QED
    BY <2>5
<1>3. Len(rules) \in G
  <2>1. Len(rules) \in Nat
    OBVIOUS
  <2> HIDE DEF G
  <2> QED
    BY <1>1, <1>2, <2>1, Induction
<1>4. PICK f : DOMAIN f = 0..Len(rules) /\ \A i \in 0..Len(rules) : f[i] = Body(f, i)
  BY <1>3
<1> DEFINE Whole(g) == [i \in 0..Len(rules) |-> IF i = 0 THEN <<>>
                         ELSE IF KeepsRule(rules[i]) THEN Append(g[i-1], rules[i]) ELSE g[i-1]]
           h == CHOOSE g : g = Whole(g)
<1>5. \E g : g = Whole(g)
  <2> DEFINE ff == [i \in 0..Len(rules) |-> f[i]]
  <2>1. ff = Whole(ff)
    BY <1>4
  <2> QED
    BY <2>1
<1>6. h = Whole(h)
  BY <1>5
<1>7. FilterRules(rules) = h[Len(rules)]
  BY DEF FilterRules
<1>8. /\ DOMAIN Whole(h) = 0..Len(rules)
      /\ Whole(h)[0] = <<>>
      /\ \A i \in 1..Len(rules) : Whole(h)[i] = Turn(rules, i, h[i-1])
  <2> HIDE DEF h
  <2> QED
    BY DEF Turn
<1> HIDE DEF h, Whole
<1>9. DOMAIN h = 0..Len(rules) /\ h[0] = <<>> /\ \A i \in 1..Len(rules) : h[i] = Turn(rules, i, h[i-1])
  BY <1>6, <1>8
<1> QED
  BY <1>7, <1>9

(* filterRules returns rules it keeps.                                     *)
LEMMA FilteredAreKept ==
    ASSUME NEW S, NEW rules \in Seq(S)
    PROVE  FilterRules(rules) \in Seq({x \in S : KeepsRule(x)})
<1> DEFINE K == {x \in S : KeepsRule(x)}
<1>1. PICK f : /\ f[0] = <<>>
               /\ \A i \in 1..Len(rules) : f[i] = Turn(rules, i, f[i-1])
               /\ FilterRules(rules) = f[Len(rules)]
  BY FilterLoop
<1> DEFINE G == {n \in Nat : n <= Len(rules) => f[n] \in Seq(K)}
<1>2. 0 \in G
  <2>1. <<>> \in Seq(K)
    OBVIOUS
  <2> QED
    BY <1>1, <2>1
<1>3. ASSUME NEW n \in Nat, n \in G PROVE n + 1 \in G
  <2> SUFFICES ASSUME n + 1 <= Len(rules) PROVE f[n+1] \in Seq(K)
    OBVIOUS
  <2>1. f[n] \in Seq(K) /\ n + 1 \in 1..Len(rules) /\ (n + 1) - 1 = n
    BY <1>3
  <2>2. f[n+1] = Turn(rules, n + 1, f[n]) /\ rules[n+1] \in S
    BY <1>1, <2>1
  <2> QED BY <2>1, <2>2 DEF Turn
<1>4. Len(rules) \in G
  <2>1. Len(rules) \in Nat
    OBVIOUS
  <2> HIDE DEF G
  <2> QED
    BY <1>2, <1>3, <2>1, Induction
<1>5. f[Len(rules)] \in Seq(K)
  BY <1>4
<1> HIDE DEF K
<1>6. FilterRules(rules) \in Seq(K)
  BY <1>1, <1>5
<1> QED
  BY <1>6 DEF K

(* Rules of the node's own in front of kept ones are filtered out again.   *)
LEMMA FilterDropsPrefix ==
    ASSUME NEW S, NEW p \in Seq(S), NEW s \in Seq(S),
           \A i \in 1..Len(p) : ~KeepsRule(p[i]),
           \A i \in 1..Len(s) : KeepsRule(s[i])
    PROVE  FilterRules(p \o s) = s
<1> DEFINE rules == p \o s
<1>1. /\ rules \in Seq(S) /\ Len(rules) = Len(p) + Len(s) /\ Len(p) \in Nat /\ Len(s) \in Nat
      /\ \A i \in 1..Len(p) : rules[i] = p[i]
      /\ \A i \in 1..Len(s) : rules[Len(p) + i] = s[i]
  BY ConcatProperties
<1> HIDE DEF rules
<1>2. PICK f : /\ f[0] = <<>>
               /\ \A i \in 1..Len(rules) : f[i] = Turn(rules, i, f[i-1])
               /\ FilterRules(rules) = f[Len(rules)]
  BY <1>1, FilterLoop
<1> DEFINE G == {n \in Nat : n <= Len(p) => f[n] = <<>>}
           H == {n \in Nat : n <= Len(s) => f[Len(p) + n] = SubSeq(s, 1, n)}
<1>3. Len(p) \in G
  <2>1. 0 \in G
    BY <1>2
  <2>2. ASSUME NEW n \in Nat, n \in G PROVE n + 1 \in G
    <3> SUFFICES ASSUME n + 1 <= Len(p) PROVE f[n+1] = <<>>
      OBVIOUS
    <3>1. f[n] = <<>> /\ n + 1 \in 1..Len(p) /\ n + 1 \in 1..Len(rules) /\ (n + 1) - 1 = n
      BY <2>2, <1>1
    <3>2. f[n+1] = Turn(rules, n + 1, f[n]) /\ ~KeepsRule(rules[n+1])
      BY <1>1, <1>2, <3>1
    <3> QED BY <3>1, <3>2 DEF Turn
  <2> HIDE DEF G
  <2> QED BY <1>1, <2>1, <2>2, Induction
<1>4. Len(s) \in H
  <2>1. 0 \in H
    <3>1. SubSeq(s, 1, 0) = <<>> /\ Len(p) + 0 = Len(p)
      BY <1>1
    <3>2. f[Len(p)] = <<>>
      BY <1>1, <1>3
    <3> QED
      BY <3>1, <3>2
  <2>2. ASSUME NEW n \in Nat, n \in H PROVE n + 1 \in H
    <3> SUFFICES ASSUME n + 1 <= Len(s) PROVE f[Len(p) + (n + 1)] = SubSeq(s, 1, n + 1)
      OBVIOUS
    <3> DEFINE k == Len(p) + (n + 1)
    <3>1. f[Len(p) + n] = SubSeq(s, 1, n) /\ n + 1 \in 1..Len(s) /\ k \in 1..Len(rules) /\ k - 1 = Len(p) + n
      BY <2>2, <1>1
    <3>2. f[k] = Turn(rules, k, f[k - 1]) /\ rules[k] = s[n + 1]
      BY <1>1, <1>2, <3>1
    <3>3. f[k] = Append(SubSeq(s, 1, n), s[n + 1])
      BY <3>1, <3>2 DEF Turn
    <3>4. Append(SubSeq(s, 1, n), s[n + 1]) = SubSeq(s, 1, n + 1)
      BY <3>1
    <3> QED BY <3>3, <3>4
  <2> HIDE DEF H
  <2> QED BY <1>1, <2>1, <2>2, Induction
<1>5. SubSeq(s, 1, Len(s)) = s
  OBVIOUS
<1>6. f[Len(p) + Len(s)] = SubSeq(s, 1, Len(s))
  BY <1>1, <1>4
<1>7. FilterRules(rules) = s
  BY <1>1, <1>2, <1>5, <1>6
<1> QED
  BY <1>7 DEF rules

(* normalizeRoutingRules leaves nothing for a second pass.                 *)
LEMMA NormalizedRule ==
    ASSUME NEW x \in Rules
    PROVE  NormalizeRule(x) \in Rules /\ NormalizeRule(x).private # "geoip"
BY DEF Rules, NormalizeRule

(* ApplyAPI on its own result: the rules it put in front are filtered out  *)
(* and put there again, the others are normal and kept.                    *)
LEMMA AppliedRouting ==
    ASSUME NEW r \in Routings
    PROVE  ApplyAPI(ApplyAPI(r)) = ApplyAPI(r)
<1> DEFINE Normal == {x \in Rules : x.private # "geoip"}
           Kept == {x \in Normal : KeepsRule(x)}
           norm == [i \in DOMAIN r.rules |-> NormalizeRule(r.rules[i])]
           rules == FilterRules(norm)
           own == <<ApiRule>> \o GuardRules(r.outbounds)
           sel == {t \in r.selectors : Observed(r.outbounds, t)}
           a == ApplyAPI(r)
<1>1. r.rules \in Seq(Rules) /\ r = [rules |-> r.rules, selectors |-> r.selectors, outbounds |-> r.outbounds]
  BY DEF Routings
<1>2. norm \in Seq(Normal)
  <2>1. DOMAIN r.rules = 1..Len(r.rules) /\ Len(r.rules) \in Nat /\ \A i \in DOMAIN r.rules : r.rules[i] \in Rules
    BY <1>1
  <2>2. \A i \in DOMAIN r.rules : NormalizeRule(r.rules[i]) \in Normal
    BY <2>1, NormalizedRule
  <2> HIDE DEF Normal
  <2> QED
    BY <2>1, <2>2
<1>3. rules \in Seq(Kept)
  <2> HIDE DEF norm, Normal
  <2> QED
    BY <1>2, FilteredAreKept
<1>4. /\ own \in Seq(Normal)
      /\ \A i \in 1..Len(own) : ~KeepsRule(own[i])
  <2>1. ApiRule \in Normal /\ ~KeepsRule(ApiRule)
    <3>1. "API" \in OutboundTags
      BY XrayConfigAssumption
    <3> QED
      BY <3>1 DEF ApiRule, Rules, KeepsRule
  <2> DEFINE g == GuardRules(r.outbounds)
  <2>2. g \in Seq(Normal) /\ \A i \in 1..Len(g) : ~KeepsRule(g[i])
    <3>1. CASE FirstBlackhole(r.outbounds) = {}
      <4>1. g = <<>>
        BY <3>1 DEF GuardRules
      <4> HIDE DEF g, Normal
      <4> QED
        BY <4>1
    <3>2. CASE FirstBlackhole(r.outbounds) # {}
      <4> DEFINE k == CHOOSE i \in FirstBlackhole(r.outbounds) : TRUE
                 tag == r.outbounds[k].tag
      <4>1. k \in DOMAIN r.outbounds
        BY <3>2 DEF FirstBlackhole
      <4>2. r.outbounds \in Seq(Outbounds)
        BY DEF Routings
      <4>3. g = <<GuardRule(tag)>>
        BY <3>2 DEF GuardRules
      <4> HIDE DEF k, g
      <4>4. tag \in OutboundTags
        <5>1. r.outbounds[k] \in Outbounds
          BY <4>1, <4>2
        <5> QED
          BY <5>1 DEF Outbounds
      <4>5. GuardRule(tag) \in Normal /\ ~KeepsRule(GuardRule(tag))
        BY <4>4 DEF GuardRule, Rules, KeepsRule
      <4> HIDE DEF tag, Normal
      <4> QED
        BY <4>3, <4>5
    <3> QED
      BY <3>1, <3>2
  <2>3. <<ApiRule>> \in Seq(Normal) /\ Len(<<ApiRule>>) = 1 /\ <<ApiRule>>[1] = ApiRule
    BY <2>1
  <2> HIDE DEF g, Normal
  <2> DEFINE q == <<ApiRule>>
  <2>4. q \in Seq(Normal) /\ \A i \in 1..Len(q) : ~KeepsRule(q[i])
    BY <2>1, <2>3
  <2> HIDE DEF q
  <2>5. q \o g \in Seq(Normal) /\ \A i \in 1..Len(q \o g) : ~KeepsRule((q \o g)[i])
    <3>1. /\ q \o g \in Seq(Normal) /\ Len(q \o g) = Len(q) + Len(g)
          /\ \A i \in 1..Len(q) : (q \o g)[i] = q[i]
          /\ \A i \in 1..Len(g) : (q \o g)[Len(q) + i] = g[i]
          /\ Len(q) \in Nat /\ Len(g) \in Nat
      BY <2>2, <2>4, ConcatProperties
    <3> QED
      BY <2>2, <2>4, <3>1
  <2> QED
    BY <2>5 DEF q, g
<1> HIDE DEF own, norm
<1>5. a = [rules |-> own \o rules, selectors |-> sel, outbounds |-> r.outbounds]
  <2>1. a = [r EXCEPT !.rules = own \o rules, !.selectors = sel]
    BY DEF ApplyAPI, norm, own
  <2> HIDE DEF a, sel, rules
  <2> QED
    BY <1>1, <2>1
<1> HIDE DEF rules
<1>6. /\ own \o rules \in Seq(Normal)
      /\ rules \in Seq(Normal)
      /\ \A i \in 1..Len(rules) : KeepsRule(rules[i])
  <2> HIDE DEF Normal
  <2>1. rules \in Seq(Normal) /\ \A i \in 1..Len(rules) : KeepsRule(rules[i])
    BY <1>3
  <2> QED
    BY <2>1, <1>4, ConcatProperties
<1>7. [i \in DOMAIN a.rules |-> NormalizeRule(a.rules[i])] = own \o rules
  <2> DEFINE q == own \o rules
  <2>1. a.rules = q
    BY <1>5
  <2>2. q \in Seq(Normal)
    BY <1>6
  <2> HIDE DEF q
  <2>3. \A i \in DOMAIN q : NormalizeRule(q[i]) = q[i]
    BY <2>2 DEF NormalizeRule, Rules
  <2>4. q = [i \in DOMAIN q |-> q[i]]
    BY <2>2
  <2> QED
    BY <2>1, <2>3, <2>4 DEF q
<1>8. FilterRules(own \o rules) = rules
  <2> HIDE DEF Normal
  <2> QED
    BY <1>4, <1>6, FilterDropsPrefix
<1>9. /\ a.outbounds = r.outbounds
      /\ {t \in a.selectors : Observed(a.outbounds, t)} = sel
      /\ <<ApiRule>> \o GuardRules(a.outbounds) = own
  BY <1>5 DEF own
<1>10. ApplyAPI(a) = [a EXCEPT !.rules = own \o rules, !.selectors = sel]
  <2> HIDE DEF a, sel
  <2> QED
    BY <1>7, <1>8, <1>9 DEF ApplyAPI
<1> QED
  <2> HIDE DEF a, sel
  <2> DEFINE q == own \o rules
  <2>1. a = [rules |-> q, selectors |-> sel, outbounds |-> r.outbounds]
    BY <1>5
  <2>2. ApplyAPI(a) = [a EXCEPT !.rules = q, !.selectors = sel]
    BY <1>10
  <2> HIDE DEF q
  <2>3. ApplyAPI(a) = a
    BY <2>1, <2>2
  <2> QED
    BY <2>3 DEF a
-----------------------------------------------------------------------------
(* The inductive invariant: the clients are those of a full sync, the core *)
(* has what would be written for it up to the flow, and the routing is     *)
(* ApplyAPI's.                                                             *)
AccountsAgree == PartialEqualsFull /\ CoreAgrees
ConfigInv == AccountsAgree /\ raw \in RawConfigs /\ routing = ApplyAPI(raw)

(* A core that was just launched has what was written for it.              *)
LEMMA RestartAgrees == core' = ConfigToBytes(clients') => CoreAgrees'
BY DEF CoreAgrees, AgreeUpToFlow, ConfigToBytes, AccountForAPI

(* A batch, and one user, keep the accounts right, whether the core is     *)
(* restarted or called.                                                    *)
LEMMA UpdatedAccounts ==
    ASSUME AccountsAgree, NEW sent, clients' = Updated(sent), latest' = Overlay(latest, sent),
           \/ core' = ConfigToBytes(clients')
           \/ core' = [tag \in Managed |-> Called(tag, core[tag], BuildInboundUpdate(tag, sent))]
    PROVE  AccountsAgree'
<1>1. Updated(sent) = Full(Overlay(latest, sent))
  BY BatchIsPartOfSync DEF AccountsAgree, PartialEqualsFull, Updated, Full
<1>2. PartialEqualsFull'
  BY <1>1 DEF PartialEqualsFull
<1>3. CASE core' = [tag \in Managed |-> Called(tag, core[tag], BuildInboundUpdate(tag, sent))]
  <2>1. ASSUME NEW tag \in Managed
        PROVE  AgreeUpToFlow(tag, core'[tag], ConfigToBytes(clients')[tag])
    <3>1. AgreeUpToFlow(tag, core[tag], InboundSyncUsers(tag, latest))
      <4>1. ConfigToBytes(clients)[tag] = InboundSyncUsers(tag, latest)
        BY EveryAccountIsWritten DEF AccountsAgree, PartialEqualsFull
      <4> QED
        BY <4>1 DEF AccountsAgree, CoreAgrees
    <3>2. ConfigToBytes(clients')[tag] = InboundSyncUsers(tag, Overlay(latest, sent))
      BY <1>1, EveryAccountIsWritten
    <3>3. core'[tag] = Called(tag, core[tag], BuildInboundUpdate(tag, sent))
      BY <1>3
    <3> QED
      BY <3>1, <3>2, <3>3, BatchIsPartOfSync
  <2> QED
    BY <1>2, <2>1 DEF AccountsAgree, CoreAgrees, AgreeUpToFlow, ConfigToBytes, AccountForAPI
<1>4. CASE core' = ConfigToBytes(clients')
  BY <1>2, <1>4, RestartAgrees DEF AccountsAgree
<1> QED
  BY <1>3, <1>4

LEMMA AccountsStep == AccountsAgree /\ [ConfigNext]_configVars => AccountsAgree'
<1> SUFFICES ASSUME AccountsAgree, [ConfigNext]_configVars PROVE AccountsAgree'
  OBVIOUS
<1>1. ASSUME NEW sent \in UserBatches, ConfigSyncUsers(sent) PROVE AccountsAgree'
  <2>1. clients' = Full(sent)
    BY <1>1 DEF ConfigSyncUsers, Full, AccountsAgree, PartialEqualsFull
  <2> QED
    BY <1>1, <2>1, RestartAgrees DEF ConfigSyncUsers, AccountsAgree, PartialEqualsFull
<1>2. ASSUME NEW sent \in UserBatches, ConfigUpdateUsers(sent) PROVE AccountsAgree'
  BY <1>2, UpdatedAccounts DEF ConfigUpdateUsers
<1>3. ASSUME NEW sent \in UserBatches, UpdateUsersAndRestart(sent) PROVE AccountsAgree'
  BY <1>3, UpdatedAccounts DEF UpdateUsersAndRestart
<1>4. ASSUME NEW e \in Emails, NEW user \in UserRecords, ConfigSyncUser(e, user) PROVE AccountsAgree'
  <2> DEFINE sent == [f \in {e} |-> user]
  <2>0. DOMAIN sent = {e} /\ sent[e] = user
    OBVIOUS
  <2> HIDE DEF sent
  <2>1. \A tag \in Tags \ Excluded : InboundSyncUser(tag, clients[tag], e, user)
            = InboundUpdateUsers(tag, clients[tag], BuildInboundUpdate(tag, sent))
    <3> TAKE tag \in Tags \ Excluded
    <3>1. clients[tag] = InboundSyncUsers(tag, latest)
      BY DEF AccountsAgree, PartialEqualsFull, Full
    <3>2. InboundSyncUser(tag, clients[tag], e, user) = InboundSyncUsers(tag, Overlay(latest, sent))
      <4>1. InboundSyncUser(tag, InboundSyncUsers(tag, latest), e, user)
                = InboundSyncUsers(tag, Overlay(latest, sent))
        BY <2>0, OneUserIsABatch
      <4> QED
        BY <3>1, <4>1, Zenon
    <3> QED
      BY <3>1, <3>2, BatchIsPartOfSync
  <2>2. clients' = Updated(sent)
    BY <1>4, <2>1 DEF ConfigSyncUser, Updated, sent
  <2> QED
    BY <1>4, <2>2, UpdatedAccounts DEF ConfigSyncUser, sent
<1>5. CASE Restart
  BY <1>5, RestartAgrees DEF Restart, AccountsAgree, PartialEqualsFull
<1>6. CASE UNCHANGED configVars
  <2>1. UNCHANGED <<clients, core, latest>>
    BY <1>6 DEF configVars
  <2>2. PartialEqualsFull'
    BY <2>1 DEF AccountsAgree, PartialEqualsFull, Full
  <2>3. ConfigToBytes(clients)' = ConfigToBytes(clients)
    BY <2>1 DEF ConfigToBytes
  <2>4. CoreAgrees'
    BY <2>1, <2>3 DEF AccountsAgree, CoreAgrees, AgreeUpToFlow, AccountForAPI
  <2> QED
    BY <2>2, <2>4 DEF AccountsAgree
<1> QED
  BY <1>1, <1>2, <1>3, <1>4, <1>5, <1>6 DEF ConfigNext

LEMMA ConfigInvariance == ConfigSpec => []ConfigInv
<1>1. ConfigInit => ConfigInv
  BY DEF ConfigInit, ConfigInv, AccountsAgree, PartialEqualsFull, CoreAgrees, AgreeUpToFlow,
         ConfigToBytes, AccountForAPI
<1>2. ConfigInv /\ [ConfigNext]_configVars => ConfigInv'
  <2> SUFFICES ASSUME ConfigInv, [ConfigNext]_configVars PROVE ConfigInv'
    OBVIOUS
  <2>1. AccountsAgree'
    BY AccountsStep DEF ConfigInv
  <2>2. UNCHANGED <<raw, routing>>
    BY DEF ConfigNext, configVars, ConfigSyncUsers, ConfigUpdateUsers, UpdateUsersAndRestart, ConfigSyncUser, Restart
  <2> QED
    BY <2>1, <2>2 DEF ConfigInv
<1> QED
  BY <1>1, <1>2, PTL DEF ConfigSpec

(* Full syncs, batches and single users, in any mix, leave the accounts    *)
(* that one full sync of what the panel last said would give.              *)
THEOREM ThreeWaysOneResult == ConfigSpec => []PartialEqualsFull
BY ConfigInvariance, PTL DEF ConfigInv, AccountsAgree

(* accountForAPI and ToBytes: the core that was told by calls has the      *)
(* users and the secrets of a restarted one. Only the flow of a VLESS      *)
(* account may differ, on an inbound with a flow of its own.               *)
THEOREM RestartsChangeFlowsOnly == ConfigSpec => []CoreAgrees
BY ConfigInvariance, PTL DEF ConfigInv, AccountsAgree

(* ApplyAPI changes nothing in a configuration it has been applied to: the *)
(* node's own rules come first and once each.                              *)
THEOREM AppliedOnceIsEnough == ConfigSpec => []ApplyAPIIsIdempotent
<1>1. ConfigInv => ApplyAPIIsIdempotent
  BY AppliedRouting, XrayConfigAssumption DEF ConfigInv, ApplyAPIIsIdempotent
<1> QED
  BY <1>1, ConfigInvariance, PTL
=============================================================================
