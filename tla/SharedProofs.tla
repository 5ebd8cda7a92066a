---------------------------- MODULE SharedProofs ----------------------------
(***************************************************************************)
(* Proofs about what the cores of a node share: the host, for any number   *)
(* of cores, tables and users, and with syncs, refreshers and changes of   *)
(* the MTU all at once, and the statistics tracker, for any set of peers   *)
(* and any amount of traffic.                                              *)
(***************************************************************************)
EXTENDS Host, StatsTracker, FiniteSetTheorems, TLAPS
-----------------------------------------------------------------------------
(***************************************************************************)
(* The host.                                                               *)
(***************************************************************************)
(* Only l2tp cores have a start of several steps, a refresher and a sync.  *)
Shape ==
    /\ DOMAIN pc = Cores /\ DOMAIN users = Cores /\ DOMAIN secrets = Cores /\ DOMAIN sync = Cores
    /\ DOMAIN tick = Cores /\ DOMAIN applied = Cores /\ DOMAIN clamp = Cores
    /\ mtu \in MTUs
    /\ \A c \in Cores : kind[c] # "l2tp" =>
          pc[c] \in {"off", "up"} /\ tick[c] = Stopped /\ sync[c] = NoSync

(* The rules of a core are on the host from setupNAT to its cleanup.       *)
BeforeNAT == {"off", "begin", "secrets", "nat"}
Routing ==
    \A c \in Cores :
        /\ pc[c] \in {"acquire", "load", "up"} =>
              /\ c \in masq \cap forward
              /\ kind[c] # "openvpn" => c \in rule /\ (table[c] \in route \/ c \in flushed)
        /\ pc[c] \in BeforeNAT \cup {"unclamp"} /\ c \notin leaked =>
              c \notin masq \cup forward \cup rule
        /\ kind[c] = "openvpn" => c \notin rule

(* The refresher runs no longer than the rules are needed. The cache tells *)
(* the truth about the rules unless a stray refresher has written them.    *)
Clamping ==
    \A c \in Cores :
        /\ pc[c] \in BeforeNAT \cup {"unclamp"} => tick[c] = Stopped
        /\ kind[c] = "l2tp" /\ pc[c] \in {"acquire", "load", "up"} => applied[c] # 0
        /\ applied[c] # 0 => clamp[c] = {applied[c]} \/ c \in overtaken
        /\ applied[c] # 0 /\ pc[c] = "unclamp" => c \in overtaken
        /\ (pc[c] \in BeforeNAT \/ kind[c] # "l2tp") /\ c \notin leaked =>
              clamp[c] = {} \/ c \in overtaken

(* The core's lines are in chap-secrets from writeChapSecrets to           *)
(* removeChapSecrets, unless older ones were written over them.            *)
Listing ==
    \A c \in Cores :
        /\ kind[c] = "l2tp" /\ pc[c] \in HasLines =>
              secrets[c] = users[c] \/ sync[c] # NoSync \/ c \in stale
        /\ \/ pc[c] \in {"release", "unroute", "unclamp", "off", "begin", "secrets"}
           \/ kind[c] # "l2tp"
           => c \in leaked \/ secrets[c] = {} \/ c \in stale

(* The count of charon is the number of cores that hold a reference, and   *)
(* those are the ones between acquire and release.                         *)
Counting ==
    /\ refs \in Nat /\ held \subseteq Cores /\ IsFiniteSet(held)
    /\ surplus \in BOOLEAN
    /\ \A c \in held : kind[c] = "l2tp" /\ pc[c] \in {"load", "giveup", "up", "drop", "release"}
    /\ \A c \in Cores : kind[c] = "l2tp" /\ pc[c] \in {"load", "giveup", "up"} => c \in held
    /\ ~surplus => refs = Cardinality(held) /\ (refs = 0 <=> charon = "down")

Inv == Shape /\ Routing /\ Clamping /\ Listing /\ Counting
-----------------------------------------------------------------------------
LEMMA ShapeStep ==
    ASSUME Inv, [Next]_vars
    PROVE  Shape'
<1> USE DEF Shape, Inv, Goto, coreVars, secretVars, charonVars, routeVars, mssVars, failVars
<1>1. ASSUME NEW c \in Cores, Begin(c) \/ BeginDirect(c) \/ Shutdown(c) \/ ShutdownDirect(c)
      PROVE  Shape'
  BY <1>1 DEF Begin, BeginDirect, Shutdown, ShutdownDirect, ReadSecrets
<1>2. ASSUME NEW c \in Cores, NEW new \in SUBSET Users, Restart(c, new) \/ SyncUsers(c, new)
      PROVE  Shape'
  BY <1>2 DEF Restart, SyncUsers
<1>3. ASSUME NEW c \in Cores, SyncWrites(c) \/ WriteChapSecrets(c) \/ RemoveChapSecrets(c)
      PROVE  Shape'
  BY <1>3 DEF SyncWrites, WriteChapSecrets, RemoveChapSecrets, Write
<1>4. ASSUME NEW c \in Cores, SetupNAT(c) \/ Cleanup(c) \/ RemoveMSSClamp(c)
      PROVE  Shape'
  BY <1>4 DEF SetupNAT, Cleanup, RemoveMSSClamp, EnsureMSSClamp
<1>5. ASSUME NEW c \in Cores, Acquire(c) \/ Launch(c) \/ LaunchFail(c) \/ ShutdownReleases(c)
      PROVE  Shape'
  BY <1>5 DEF Acquire, Launch, LaunchFail, ShutdownReleases
<1>6. ASSUME NEW c \in Cores, AcquireFail(c) \/ GiveUp(c)
      PROVE  Shape'
  BY <1>6 DEF AcquireFail, GiveUp, Fail
<1>7. ASSUME NEW c \in Cores, \/ TickReads(c) \/ TickApplies(c) \/ OrphanReads(c)
                              \/ \E mss \in {MSSForMTU(m) : m \in MTUs} : StrayApplies(c, mss)
      PROVE  Shape'
  BY <1>7 DEF TickReads, TickApplies, OrphanReads, StrayApplies, EnsureMSSClamp, Stopped, Waiting
<1>8. ASSUME CharonDies \/ (\E m \in MTUs : MTUChanges(m)) \/ UNCHANGED vars
      PROVE  Shape'
  BY <1>8 DEF CharonDies, MTUChanges, vars
<1> QED BY <1>1, <1>2, <1>3, <1>4, <1>5, <1>6, <1>7, <1>8 DEF Next

LEMMA RoutingStep ==
    ASSUME Inv, [Next]_vars
    PROVE  Routing'
<1> USE DEF Shape, Routing, BeforeNAT, Inv, Goto, coreVars, secretVars, charonVars, routeVars,
            mssVars, failVars
<1>1. ASSUME NEW c \in Cores, BeginDirect(c) \/ ShutdownDirect(c)
      PROVE  Routing'
  <2> USE DEF BeginDirect, ShutdownDirect, ApplyHostRouting, CleanupHostRouting, ApplyEgress,
              CleanupEgress, EnsureMasquerade, EnsureForwardAccept, RemoveForwardRules, Sharers
  <2>1. CASE BeginDirect(c) BY <2>1
  <2>2. CASE ShutdownDirect(c) BY <2>2
  <2> QED BY <1>1, <2>1, <2>2
<1>2. ASSUME NEW c \in Cores, Begin(c) \/ Shutdown(c)
      PROVE  Routing'
  BY <1>2 DEF Begin, Shutdown
<1>3. ASSUME NEW c \in Cores, NEW new \in SUBSET Users, Restart(c, new) \/ SyncUsers(c, new)
      PROVE  Routing'
  BY <1>3 DEF Restart, SyncUsers
<1>4. ASSUME NEW c \in Cores, SyncWrites(c) \/ WriteChapSecrets(c) \/ RemoveChapSecrets(c)
      PROVE  Routing'
  BY <1>4 DEF SyncWrites, WriteChapSecrets, RemoveChapSecrets
<1>5. ASSUME NEW c \in Cores, SetupNAT(c) \/ Cleanup(c)
      PROVE  Routing'
  BY <1>5 DEF SetupNAT, Cleanup, ApplyHostRouting, CleanupHostRouting, ApplyEgress,
              CleanupEgress, EnsureMasquerade, EnsureForwardAccept, RemoveForwardRules, Sharers
<1>6. ASSUME NEW c \in Cores, \/ RemoveMSSClamp(c) \/ Acquire(c) \/ Launch(c) \/ LaunchFail(c)
                              \/ ShutdownReleases(c)
      PROVE  Routing'
  BY <1>6 DEF RemoveMSSClamp, Removed, Acquire, Launch, LaunchFail, ShutdownReleases
<1>7. ASSUME NEW c \in Cores, AcquireFail(c) \/ GiveUp(c)
      PROVE  Routing'
  BY <1>7 DEF AcquireFail, GiveUp, Fail
<1>8. ASSUME NEW c \in Cores, \/ TickReads(c) \/ TickApplies(c) \/ OrphanReads(c)
                              \/ \E mss \in {MSSForMTU(m) : m \in MTUs} : StrayApplies(c, mss)
      PROVE  Routing'
  BY <1>8 DEF TickReads, TickApplies, OrphanReads, StrayApplies
<1>9. ASSUME CharonDies \/ (\E m \in MTUs : MTUChanges(m)) \/ UNCHANGED vars
      PROVE  Routing'
  BY <1>9 DEF CharonDies, MTUChanges, vars
<1> QED BY <1>1, <1>2, <1>3, <1>4, <1>5, <1>6, <1>7, <1>8, <1>9 DEF Next

LEMMA PathMSSIsPositive == \A m \in MTUs : MSSForMTU(m) \notin {Stopped, Waiting}
BY HostAssumption DEF MSSForMTU, Stopped, Waiting

LEMMA ClampingStep ==
    ASSUME Inv, [Next]_vars
    PROVE  Clamping'
<1> USE PathMSSIsPositive
    DEF Shape, Clamping, BeforeNAT, Inv, Goto, Stopped, Waiting, coreVars, secretVars, charonVars,
        routeVars, mssVars, failVars
<1>1. ASSUME NEW c \in Cores, Begin(c) \/ BeginDirect(c) \/ Shutdown(c) \/ ShutdownDirect(c)
      PROVE  Clamping'
  BY <1>1 DEF Begin, BeginDirect, Shutdown, ShutdownDirect
<1>2. ASSUME NEW c \in Cores, NEW new \in SUBSET Users, Restart(c, new) \/ SyncUsers(c, new)
      PROVE  Clamping'
  BY <1>2 DEF Restart, SyncUsers
<1>3. ASSUME NEW c \in Cores, SyncWrites(c) \/ WriteChapSecrets(c) \/ RemoveChapSecrets(c)
      PROVE  Clamping'
  BY <1>3 DEF SyncWrites, WriteChapSecrets, RemoveChapSecrets
<1>4. ASSUME NEW c \in Cores, SetupNAT(c)
      PROVE  Clamping'
  BY <1>4 DEF SetupNAT, EnsureMSSClamp, PathMSS
<1>5. ASSUME NEW c \in Cores, Cleanup(c) \/ RemoveMSSClamp(c)
      PROVE  Clamping'
  BY <1>5 DEF Cleanup, RemoveMSSClamp, Removed
<1>6. ASSUME NEW c \in Cores, Acquire(c) \/ Launch(c) \/ LaunchFail(c) \/ ShutdownReleases(c)
      PROVE  Clamping'
  BY <1>6 DEF Acquire, Launch, LaunchFail, ShutdownReleases
<1>7. ASSUME NEW c \in Cores, AcquireFail(c) \/ GiveUp(c)
      PROVE  Clamping'
  BY <1>7 DEF AcquireFail, GiveUp, Fail
<1>8. ASSUME NEW c \in Cores, TickReads(c) \/ OrphanReads(c)
      PROVE  Clamping'
  BY <1>8 DEF TickReads, OrphanReads
<1>9. ASSUME NEW c \in Cores, TickApplies(c)
      PROVE  Clamping'
  BY <1>9 DEF TickApplies, EnsureMSSClamp
<1>10. ASSUME NEW c \in Cores, NEW m \in MTUs, StrayApplies(c, MSSForMTU(m))
       PROVE  Clamping'
  BY <1>10 DEF StrayApplies, EnsureMSSClamp
<1>11. ASSUME CharonDies \/ (\E m \in MTUs : MTUChanges(m)) \/ UNCHANGED vars
       PROVE  Clamping'
  BY <1>11 DEF CharonDies, MTUChanges, vars
<1> QED BY <1>1, <1>2, <1>3, <1>4, <1>5, <1>6, <1>7, <1>8, <1>9, <1>10, <1>11 DEF Next

(* A line is either the core's own last write or marked stale.             *)
LEMMA ListingStep ==
    ASSUME Inv, [Next]_vars
    PROVE  Listing'
<1> USE DEF Shape, Listing, HasLines, Inv, Goto, coreVars, secretVars, charonVars, routeVars,
            mssVars, failVars
<1>1. ASSUME NEW c \in Cores, Begin(c) \/ BeginDirect(c) \/ Shutdown(c) \/ ShutdownDirect(c)
      PROVE  Listing'
  BY <1>1 DEF Begin, BeginDirect, Shutdown, ShutdownDirect, ReadSecrets
<1>2. ASSUME NEW c \in Cores, NEW new \in SUBSET Users, Restart(c, new)
      PROVE  Listing'
  BY <1>2 DEF Restart
<1>3. ASSUME NEW c \in Cores, NEW new \in SUBSET Users, SyncUsers(c, new)
      PROVE  Listing'
  <2>1. secrets # NoSync
    BY DEF NoSync
  <2> QED BY <1>3, <2>1 DEF SyncUsers
<1>4. ASSUME NEW c \in Cores, WriteChapSecrets(c) \/ RemoveChapSecrets(c)
      PROVE  Listing'
  BY <1>4 DEF WriteChapSecrets, RemoveChapSecrets, Write, Reverted
<1>5. ASSUME NEW c \in Cores, SyncWrites(c)
      PROVE  Listing'
  BY <1>5 DEF SyncWrites, Write, Reverted
<1>6. ASSUME NEW c \in Cores, SetupNAT(c) \/ Cleanup(c) \/ RemoveMSSClamp(c)
      PROVE  Listing'
  BY <1>6 DEF SetupNAT, Cleanup, RemoveMSSClamp, Removed
<1>7. ASSUME NEW c \in Cores, Acquire(c) \/ Launch(c) \/ LaunchFail(c) \/ ShutdownReleases(c)
      PROVE  Listing'
  BY <1>7 DEF Acquire, Launch, LaunchFail, ShutdownReleases
<1>8. ASSUME NEW c \in Cores, AcquireFail(c) \/ GiveUp(c)
      PROVE  Listing'
  BY <1>8 DEF AcquireFail, GiveUp, Fail
<1>9. ASSUME NEW c \in Cores, \/ TickReads(c) \/ TickApplies(c) \/ OrphanReads(c)
                              \/ \E mss \in {MSSForMTU(m) : m \in MTUs} : StrayApplies(c, mss)
      PROVE  Listing'
  BY <1>9 DEF TickReads, TickApplies, OrphanReads, StrayApplies
<1>10. ASSUME CharonDies \/ (\E m \in MTUs : MTUChanges(m)) \/ UNCHANGED vars
       PROVE  Listing'
  BY <1>10 DEF CharonDies, MTUChanges, vars
<1> QED BY <1>1, <1>2, <1>3, <1>4, <1>5, <1>6, <1>7, <1>8, <1>9, <1>10 DEF Next

(* A release takes the core's own reference, or marks the count surplus.   *)
LEMMA ReleaseCounts ==
    ASSUME Counting, NEW c \in Cores, Release(c)
    PROVE  /\ refs' \in Nat /\ IsFiniteSet(held') /\ surplus' \in BOOLEAN
           /\ ~surplus' => refs' = Cardinality(held') /\ (refs' = 0 <=> charon' = "down")
<1> USE DEF Counting, Release
<1>1. refs' \in Nat /\ surplus' \in BOOLEAN
  OBVIOUS
<1>2. IsFiniteSet(held')
  BY FS_RemoveElement
<1>3. ASSUME ~surplus'
      PROVE  refs' = Cardinality(held') /\ (refs' = 0 <=> charon' = "down")
  <2>1. c \in held /\ ~surplus
    BY <1>3
  <2>2. Cardinality(held \ {c}) = Cardinality(held) - 1
    BY <2>1, FS_RemoveElement
  <2>3. Cardinality(held) \in Nat /\ Cardinality(held) # 0
    BY <2>1, FS_CardinalityType, FS_EmptySet
  <2> QED BY <2>1, <2>2, <2>3
<1> QED BY <1>1, <1>2, <1>3

LEMMA CountingStep ==
    ASSUME Inv, [Next]_vars
    PROVE  Counting'
<1> USE DEF Shape, Inv, Goto, coreVars, secretVars, charonVars, routeVars, mssVars, failVars
<1>1. ASSUME NEW c \in Cores, Begin(c) \/ BeginDirect(c) \/ Shutdown(c) \/ ShutdownDirect(c)
      PROVE  Counting'
  <2>1. CASE Begin(c) BY <2>1 DEF Counting, Begin
  <2>2. CASE BeginDirect(c) BY <2>2 DEF Counting, BeginDirect
  <2>3. CASE Shutdown(c) BY <2>3 DEF Counting, Shutdown
  <2>4. CASE ShutdownDirect(c) BY <2>4 DEF Counting, ShutdownDirect
  <2> QED BY <1>1, <2>1, <2>2, <2>3, <2>4
<1>2. ASSUME NEW c \in Cores, NEW new \in SUBSET Users, Restart(c, new) \/ SyncUsers(c, new)
      PROVE  Counting'
  BY <1>2 DEF Counting, Restart, SyncUsers
<1>3. ASSUME NEW c \in Cores, SyncWrites(c) \/ WriteChapSecrets(c) \/ RemoveChapSecrets(c)
      PROVE  Counting'
  BY <1>3 DEF Counting, SyncWrites, WriteChapSecrets, RemoveChapSecrets
<1>4. ASSUME NEW c \in Cores, SetupNAT(c) \/ Cleanup(c) \/ RemoveMSSClamp(c)
      PROVE  Counting'
  BY <1>4 DEF Counting, SetupNAT, Cleanup, RemoveMSSClamp, Removed
<1>5. ASSUME NEW c \in Cores, Acquire(c)
      PROVE  Counting'
  <2>1. c \notin held /\ IsFiniteSet(held) /\ refs \in Nat
    BY <1>5 DEF Acquire, Counting
  <2>2. IsFiniteSet(held') /\ Cardinality(held') = Cardinality(held) + 1
    BY <1>5, <2>1, FS_AddElement DEF Acquire
  <2>3. Cardinality(held) \in Nat
    BY <2>1, FS_CardinalityType
  <2>4. ~surplus' => refs' = Cardinality(held') /\ (refs' = 0 <=> charon' = "down")
    BY <1>5, <2>1, <2>2, <2>3 DEF Acquire, Counting
  <2> QED BY <1>5, <2>1, <2>2, <2>4 DEF Acquire, Counting
<1>6. ASSUME NEW c \in Cores, Launch(c) \/ LaunchFail(c) \/ AcquireFail(c)
      PROVE  Counting'
  BY <1>6 DEF Counting, Launch, LaunchFail, AcquireFail, Fail
<1>7. ASSUME NEW c \in Cores, GiveUp(c) \/ ShutdownReleases(c)
      PROVE  Counting'
  <2>1. Release(c)
    BY <1>7 DEF GiveUp, ShutdownReleases
  <2>2. /\ refs' \in Nat /\ IsFiniteSet(held') /\ surplus' \in BOOLEAN
        /\ ~surplus' => refs' = Cardinality(held') /\ (refs' = 0 <=> charon' = "down")
    BY <2>1, ReleaseCounts
  <2>3. kind' = kind /\ held' = held \ {c} /\ \A d \in Cores : d # c => pc'[d] = pc[d]
    BY <1>7 DEF GiveUp, ShutdownReleases, Release, Fail
  <2>4. pc'[c] \in {"failed", "off", "unroute"}
    BY <1>7 DEF GiveUp, ShutdownReleases, Fail
  <2>5. held \subseteq Cores
    BY DEF Counting
  <2> QED BY <2>2, <2>3, <2>4, <2>5 DEF Counting
<1>8. ASSUME NEW c \in Cores, \/ TickReads(c) \/ TickApplies(c) \/ OrphanReads(c)
                              \/ \E mss \in {MSSForMTU(m) : m \in MTUs} : StrayApplies(c, mss)
      PROVE  Counting'
  BY <1>8 DEF Counting, TickReads, TickApplies, OrphanReads, StrayApplies
<1>9. ASSUME CharonDies \/ (\E m \in MTUs : MTUChanges(m)) \/ UNCHANGED vars
      PROVE  Counting'
  BY <1>9 DEF Counting, CharonDies, MTUChanges, vars
<1> QED BY <1>1, <1>2, <1>3, <1>4, <1>5, <1>6, <1>7, <1>8, <1>9 DEF Next

(* The invariant, for every order of starts, failures and shutdowns.       *)
THEOREM Invariance == Spec => []Inv
<1>1. Init => Inv
  <2> SUFFICES ASSUME Init PROVE Inv
    OBVIOUS
  <2>1. Shape
    BY DEF Init, Shape, NoLines
  <2>2. Routing /\ Clamping /\ Listing
    BY DEF Init, Routing, Clamping, Listing, NoLines, BeforeNAT, HasLines
  <2>3. Counting
    BY FS_EmptySet DEF Init, Counting
  <2> QED BY <2>1, <2>2, <2>3 DEF Inv
<1>2. Inv /\ [Next]_vars => Inv'
  BY ShapeStep, RoutingStep, ClampingStep, ListingStep, CountingStep DEF Inv
<1> QED BY <1>1, <1>2, PTL DEF Spec

(* A core that is up has on the host what it needs: its rules, its route,  *)
(* the clamp the cache says it has, a charon nobody has stopped under it,  *)
(* and its users in chap-secrets, but for the exceptions Served names.     *)
THEOREM RunningCoresAreServed == Spec => []RunningCoreIsServed
<1>1. Inv => RunningCoreIsServed
  <2> SUFFICES ASSUME Inv, NEW c \in Cores, pc[c] = "up" PROVE Served(c)
    BY DEF RunningCoreIsServed
  <2>1. /\ c \in masq \cap forward
        /\ kind[c] # "openvpn" => c \in rule /\ (table[c] \in route \/ c \in flushed)
    BY DEF Inv, Routing
  <2>2. kind[c] = "l2tp" => clamp[c] = {applied[c]} \/ c \in overtaken
    BY DEF Inv, Clamping
  <2>3. kind[c] = "l2tp" => secrets[c] = users[c] \/ sync[c] # NoSync \/ c \in stale
    BY DEF Inv, Listing, HasLines
  <2>4. kind[c] = "l2tp" => charon # "down" \/ surplus
    <3> SUFFICES ASSUME kind[c] = "l2tp", ~surplus PROVE charon # "down"
      OBVIOUS
    <3>1. c \in held /\ IsFiniteSet(held) /\ refs = Cardinality(held)
      BY DEF Inv, Counting
    <3>2. refs # 0
      BY <3>1, FS_EmptySet
    <3> QED BY <3>2 DEF Inv, Counting
  <2> QED BY <2>1, <2>2, <2>3, <2>4 DEF Served
<1> QED BY <1>1, Invariance, PTL

(* A core that is shut down leaves nothing on the host, and charon is      *)
(* counted right, but for the exceptions Clean and leaked name.            *)
THEOREM NothingIsLeftBehind == Spec => []NothingLeftBehind
<1>1. Inv => NothingLeftBehind
  <2> SUFFICES ASSUME Inv PROVE NothingLeftBehind
    OBVIOUS
  <2>1. ASSUME NEW c \in Cores \ leaked, pc[c] = "off" PROVE Clean(c)
    BY <2>1 DEF Inv, Routing, Clamping, Listing, BeforeNAT, Clean
  <2>2. ~surplus => refs = Cardinality(held) /\ (refs = 0 <=> charon = "down")
    BY DEF Inv, Counting
  <2> QED BY <2>1, <2>2 DEF NothingLeftBehind
<1> QED BY <1>1, Invariance, PTL
-----------------------------------------------------------------------------
(***************************************************************************)
(* The tracker never reports more than was moved, never owes a negative    *)
(* count, and never loses a byte it has counted.                           *)
(***************************************************************************)
Entries == Entry({Email}) \cup {NoEntry}

(* A removed entry remembers in lastDelta what it still owes, a live one   *)
(* has none: this is what lets a re-added peer restore its baseline.       *)
GoodEntry(e) ==
    e # NoEntry =>
        \A d \in Dirs : /\ e.base[d] <= e.current[d]
                        /\ e.deleted => e.lastDelta[d] = e.current[d] - e.base[d]
                        /\ ~e.deleted => e.lastDelta[d] = 0

(* An entry and the absence of one are different records.                  *)
LEMMA EntryFields ==
    ASSUME NEW e \in Entries, e # NoEntry
    PROVE  /\ e \in Entry({Email}) /\ e.email = Email
           /\ e.current \in Counters /\ e.base \in [Dirs -> Int] /\ e.lastDelta \in [Dirs -> Int]
           /\ e.active \in BOOLEAN /\ e.deleted \in BOOLEAN
BY DEF Entries, Entry

LEMMA PendingIsInt == ASSUME NEW e \in Entries, NEW d \in Dirs PROVE Pending(e, d) \in Int
<1>1. e # NoEntry => e.current[d] \in Nat /\ e.base[d] \in Int
  BY EntryFields DEF Counters
<1> QED BY <1>1 DEF Pending

LEMMA EntryIsNotNoEntry == ASSUME NEW e \in Entry({Email}) PROVE e # NoEntry
BY DEF Entry, NoEntry, Email

(* applySampleLocked on a known entry.                                     *)
LEMMA SampleKnown ==
    ASSUME NEW e \in Entry({Email}), GoodEntry(e), NEW s \in Counters, NEW d \in Dirs
    PROVE  /\ NewBase(e, s)[d] \in Int /\ NewBase(e, s)[d] <= s[d]
           /\ s[d] - NewBase(e, s)[d] >= e.current[d] - e.base[d]
           /\ s[d] - NewBase(e, s)[d] <= e.current[d] - e.base[d] + s[d]
           /\ ~e.deleted /\ (\A c \in Dirs : e.current[c] <= s[c]) =>
                s[d] - NewBase(e, s)[d] = e.current[d] - e.base[d] + s[d] - e.current[d]
<1>1. /\ e # NoEntry
      /\ e.current \in Counters /\ e.base \in [Dirs -> Int] /\ e.lastDelta \in [Dirs -> Int]
  BY EntryIsNotNoEntry DEF Entry
<1>2. e.current[d] \in Nat /\ e.base[d] \in Int /\ e.lastDelta[d] \in Int /\ s[d] \in Nat
  BY <1>1 DEF Counters
<1>3. e.base[d] <= e.current[d]
  BY <1>1 DEF GoodEntry
<1>4. CASE Readded(e)
  <2>1. e.deleted /\ e.lastDelta[d] = e.current[d] - e.base[d]
    BY <1>1, <1>4 DEF Readded, GoodEntry, Entry
  <2>2. NewBase(e, s)[d] = s[d] - e.lastDelta[d]
    BY <1>4 DEF NewBase
  <2> QED BY <1>2, <1>3, <2>1, <2>2
<1>5. CASE ~Readded(e) /\ RolledBack(e, s)
  <2>1. NewBase(e, s)[d] = s[d] - (e.current[d] - e.base[d])
    BY <1>2, <1>3, <1>5 DEF NewBase, Clamp
  <2>2. ~(\A c \in Dirs : e.current[c] <= s[c])
    BY <1>1, <1>5 DEF RolledBack, Counters
  <2> QED BY <1>2, <1>3, <2>1, <2>2
<1>6. CASE ~Readded(e) /\ ~RolledBack(e, s)
  <2>1. NewBase(e, s)[d] = e.base[d]
    BY <1>6 DEF NewBase
  <2>2. s[d] >= e.current[d]
    BY <1>1, <1>2, <1>6 DEF RolledBack
  <2> QED BY <1>2, <1>3, <2>1, <2>2
<1> QED BY <1>4, <1>5, <1>6

(* applySampleLocked on any entry: nothing counted is lost, and at most    *)
(* the sample is added; the exact growth when the counters have grown.     *)
LEMMA Sample ==
    ASSUME NEW e \in Entries, GoodEntry(e), NEW s \in Counters
    PROVE  /\ ApplySample(e, Email, s) \in Entry({Email})
           /\ GoodEntry(ApplySample(e, Email, s))
           /\ ~ApplySample(e, Email, s).deleted
           /\ ApplySample(e, Email, s).current = s
           /\ \A d \in Dirs :
                /\ Pending(ApplySample(e, Email, s), d) >= Pending(e, d)
                /\ Pending(ApplySample(e, Email, s), d) <= Pending(e, d) + s[d]
                /\ e # NoEntry /\ ~e.deleted /\ (\A c \in Dirs : e.current[c] <= s[c]) =>
                     Pending(ApplySample(e, Email, s), d) = Pending(e, d) + s[d] - e.current[d]
<1> DEFINE g == IF e = NoEntry THEN NewEntry(Email) ELSE e
           f == ApplySample(e, Email, s)
<1>1. NewEntry(Email) \in Entry({Email}) /\ GoodEntry(NewEntry(Email))
  BY DEF NewEntry, Entry, GoodEntry, Zero, Counters
<1>2. g \in Entry({Email}) /\ GoodEntry(g)
  BY <1>1, EntryFields
<1>3. /\ f.email = Email /\ f.current = s /\ f.base = NewBase(g, s) /\ f.lastDelta = Zero
      /\ f.deleted = FALSE
      /\ f = [email |-> Email, current |-> s, base |-> NewBase(g, s), lastDelta |-> Zero,
              active |-> g.active \/ \E d \in Dirs : s[d] > g.current[d], deleted |-> FALSE]
  BY DEF ApplySample
<1>4. \A d \in Dirs : /\ s[d] \in Nat /\ g.current[d] \in Nat /\ g.base[d] \in Int
                      /\ NewBase(g, s)[d] \in Int /\ NewBase(g, s)[d] <= s[d]
  BY <1>2, SampleKnown DEF Counters, Entry
<1>5. NewBase(g, s) \in [Dirs -> Int] /\ Zero \in [Dirs -> Int]
  BY <1>4 DEF NewBase, Zero
<1>6. (g.active \/ \E d \in Dirs : s[d] > g.current[d]) \in BOOLEAN
  OBVIOUS
<1> HIDE DEF g, f
<1>7. f \in Entry({Email})
  BY <1>3, <1>5, <1>6 DEF Entry
<1>8. GoodEntry(f)
  BY <1>3, <1>4 DEF GoodEntry, Zero
<1>9. ASSUME NEW d \in Dirs
      PROVE  /\ Pending(f, d) >= Pending(e, d)
             /\ Pending(f, d) <= Pending(e, d) + s[d]
             /\ e # NoEntry /\ ~e.deleted /\ (\A c \in Dirs : e.current[c] <= s[c]) =>
                  Pending(f, d) = Pending(e, d) + s[d] - e.current[d]
  <2>1. Pending(f, d) = s[d] - NewBase(g, s)[d]
    BY <1>3, <1>7, EntryIsNotNoEntry DEF Pending
  <2>2. Pending(e, d) = g.current[d] - g.base[d]
    BY DEF Pending, g, NewEntry, Zero
  <2>3. e # NoEntry => g = e
    BY DEF g
  <2> QED BY <1>2, <1>4, <2>1, <2>2, <2>3, SampleKnown
<1> QED BY <1>3, <1>7, <1>8, <1>9 DEF f

(* RemoveStats keeps what is pending.                                      *)
LEMMA Remove ==
    ASSUME NEW e \in Entries, GoodEntry(e)
    PROVE  /\ AfterRemove(e) \in Entries /\ GoodEntry(AfterRemove(e))
           /\ \A d \in Dirs : Pending(AfterRemove(e), d) = Pending(e, d)
<1>1. CASE e = NoEntry
  BY <1>1 DEF AfterRemove, Entries
<1>2. CASE e # NoEntry
  <2> DEFINE f == AfterRemove(e)
             ld == [d \in Dirs |-> e.current[d] - e.base[d]]
  <2>1. e \in Entry({Email}) /\ \A d \in Dirs : e.current[d] \in Nat /\ e.base[d] \in Int
    BY <1>2, EntryFields DEF Counters
  <2>2. ld \in [Dirs -> Int]
    BY <2>1
  <2>3. f = [e EXCEPT !.lastDelta = ld, !.deleted = TRUE, !.active = FALSE]
    BY <1>2 DEF AfterRemove
  <2>4. f \in Entry({Email}) /\ f.current = e.current /\ f.base = e.base
        /\ f.lastDelta = ld /\ f.deleted = TRUE
    BY <2>1, <2>2, <2>3 DEF Entry
  <2>5. GoodEntry(f)
    BY <1>2, <2>1, <2>4 DEF GoodEntry
  <2> QED BY <1>2, <2>4, <2>5, EntryIsNotNoEntry DEF Pending, Entries
<1> QED BY <1>1, <1>2

(* A reset leaves nothing pending; a collected entry owed nothing.         *)
LEMMA ReportEntry ==
    ASSUME NEW e \in Entries, GoodEntry(e), NEW d \in Dirs
    PROVE  /\ AfterReport(e) \in Entries /\ GoodEntry(AfterReport(e))
           /\ Pending(AfterReport(e), d) = 0
           /\ Pending(e, d) \in Nat /\ Reported(e, d) = Pending(e, d)
           /\ e # NoEntry /\ ~e.deleted =>
                /\ AfterReport(e) # NoEntry
                /\ ~AfterReport(e).deleted /\ AfterReport(e).current = e.current
<1>1. CASE e = NoEntry
  BY <1>1 DEF AfterReport, Entries, Pending, Reported, GoodEntry
<1>2. CASE e # NoEntry
  <2>1. e \in Entry({Email}) /\ \A c \in Dirs : e.current[c] \in Nat /\ e.base[c] \in Int
    BY <1>2, EntryFields DEF Counters
  <2>2. Pending(e, d) \in Nat /\ Reported(e, d) = Pending(e, d)
    BY <1>2, <2>1 DEF Pending, Reported, GoodEntry
  <2>3. CASE e.deleted
    BY <1>2, <2>2, <2>3 DEF AfterReport, Entries, GoodEntry, Pending
  <2>4. CASE ~e.deleted
    <3>1. AfterReport(e) = [e EXCEPT !.base = e.current]
      BY <1>2, <2>4 DEF AfterReport
    <3>2. /\ AfterReport(e) \in Entry({Email})
          /\ AfterReport(e).base = e.current /\ AfterReport(e).current = e.current
          /\ AfterReport(e).lastDelta = e.lastDelta /\ AfterReport(e).deleted = e.deleted
      BY <2>1, <3>1 DEF Entry, Counters
    <3>3. AfterReport(e) # NoEntry
      BY <3>2, EntryIsNotNoEntry
    <3>4. GoodEntry(AfterReport(e))
      BY <1>2, <2>1, <2>4, <3>2 DEF GoodEntry
    <3> QED BY <2>1, <2>2, <2>4, <3>2, <3>3, <3>4 DEF Pending, Entries
  <2> QED BY <2>3, <2>4
<1> QED BY <1>1, <1>2

LEMMA CleanupEntry ==
    ASSUME NEW e \in Entries, GoodEntry(e), NEW d \in Dirs
    PROVE  /\ AfterCleanup(e) \in Entries /\ GoodEntry(AfterCleanup(e))
           /\ Pending(AfterCleanup(e), d) = Pending(e, d)
           /\ e # NoEntry /\ ~e.deleted => AfterCleanup(e) = e
<1>1. CASE e # NoEntry /\ e.deleted /\ e.current = e.base
  <2>1. e.current[d] \in Nat
    BY <1>1, EntryFields DEF Counters
  <2> QED BY <1>1, <2>1 DEF AfterCleanup, Entries, GoodEntry, Pending
<1>2. CASE ~(e # NoEntry /\ e.deleted /\ e.current = e.base)
  BY <1>2 DEF AfterCleanup
<1> QED BY <1>1, <1>2
-----------------------------------------------------------------------------
(* What the next sample of a peer can still add to its entry.              *)
Owed(k, d) ==
    IF k \in sampled THEN kernel[k][d] - stats[k].current[d]
    ELSE IF k \in present THEN kernel[k][d] ELSE 0

(* The inductive invariant, for one peer: its entry is good, a peer polled *)
(* since its counters started is live and not ahead of the kernel, and     *)
(* what was reported, is pending or is still to be counted was moved.      *)
PeerInv(k) ==
    /\ GoodEntry(stats[k])
    /\ k \in sampled => /\ stats[k] # NoEntry /\ ~stats[k].deleted
                        /\ \A d \in Dirs : stats[k].current[d] <= kernel[k][d]
    /\ \A d \in Dirs : billed[k][d] + Pending(stats[k], d) + Owed(k, d) <= moved[k][d]

TrackerInv == TypeOK /\ \A k \in Keys : PeerInv(k)

LEMMA Types ==
    ASSUME TypeOK, NEW k \in Keys, NEW d \in Dirs
    PROVE  /\ stats[k] \in Entries /\ kernel[k] \in Counters
           /\ kernel[k][d] \in Nat /\ moved[k][d] \in Nat /\ billed[k][d] \in Nat
           /\ stats[k] # NoEntry => stats[k].current[d] \in Nat /\ stats[k].base[d] \in Int
           /\ Pending(stats[k], d) \in Int
<1>1. stats[k] \in Entries /\ kernel[k] \in Counters /\ moved[k] \in Counters /\ billed[k] \in Counters
  BY DEF TypeOK, Entries
<1>2. stats[k] # NoEntry => stats[k].current[d] \in Nat /\ stats[k].base[d] \in Int
  BY <1>1, EntryFields DEF Counters
<1> QED BY <1>1, <1>2 DEF Counters, Pending

LEMMA OwedIsNatural == ASSUME TrackerInv, NEW k \in Keys, NEW d \in Dirs PROVE Owed(k, d) \in Nat
<1>1. TypeOK /\ PeerInv(k)
  BY DEF TrackerInv
<1>2. kernel[k][d] \in Nat /\ (stats[k] # NoEntry => stats[k].current[d] \in Nat)
  BY <1>1, Types
<1>3. k \in sampled => stats[k] # NoEntry /\ stats[k].current[d] <= kernel[k][d]
  BY <1>1 DEF PeerInv
<1> QED BY <1>2, <1>3 DEF Owed

(* A peer whose entry, counters and histories a step leaves alone.         *)
LEMMA Untouched ==
    ASSUME NEW k \in Keys, PeerInv(k), stats'[k] = stats[k], kernel'[k] = kernel[k],
           moved'[k] = moved[k], billed'[k] = billed[k],
           k \in sampled' <=> k \in sampled, k \in present' <=> k \in present
    PROVE  PeerInv(k)'
BY DEF PeerInv, Owed, Pending

LEMMA AddPeerStep == ASSUME TrackerInv, NEW k \in Keys, AddPeer(k) PROVE TrackerInv'
<1>1. TypeOK'
  BY DEF TrackerInv, TypeOK, AddPeer, Counters, Zero
<1>2. ASSUME NEW j \in Keys PROVE PeerInv(j)'
  <2>1. CASE j = k
    <3>1. k \notin sampled /\ k \notin sampled' /\ stats' = stats /\ billed' = billed
          /\ moved' = moved /\ k \notin present /\ k \in present' /\ kernel'[k] = Zero
      BY DEF TrackerInv, TypeOK, AddPeer
    <3> QED BY <2>1, <3>1, Types DEF TrackerInv, PeerInv, Owed, Zero, Pending
  <2>2. CASE j # k
    BY <2>2, Untouched DEF TrackerInv, TypeOK, AddPeer
  <2> QED BY <2>1, <2>2
<1> QED BY <1>1, <1>2 DEF TrackerInv

LEMMA TrafficStep ==
    ASSUME TrackerInv, NEW k \in Keys, NEW c \in Dirs, Traffic(k, c)
    PROVE  TrackerInv'
<1>0. kernel[k][c] \in Nat /\ moved[k][c] \in Nat
  BY Types DEF TrackerInv
<1>1. TypeOK'
  <2>1. kernel' \in [Keys -> Counters]
    BY <1>0 DEF TrackerInv, TypeOK, Traffic, Counters
  <2>2. moved' \in [Keys -> Counters]
    BY <1>0 DEF TrackerInv, TypeOK, Traffic, Counters
  <2> QED BY <2>1, <2>2 DEF TrackerInv, TypeOK, Traffic
<1>2. ASSUME NEW j \in Keys PROVE PeerInv(j)'
  <2>1. CASE j = k
    <3>1. /\ stats' = stats /\ billed' = billed /\ sampled' = sampled /\ present' = present
          /\ k \in present
          /\ \A d \in Dirs : \/ kernel'[k][d] = kernel[k][d] /\ moved'[k][d] = moved[k][d]
                             \/ kernel'[k][d] = kernel[k][d] + 1 /\ moved'[k][d] = moved[k][d] + 1
      BY DEF TrackerInv, TypeOK, Traffic, Counters
    <3>2. ASSUME NEW d \in Dirs
          PROVE  billed'[k][d] + Pending(stats'[k], d) + Owed(k, d)' <= moved'[k][d]
      <4>1. Owed(k, d)' - Owed(k, d) = moved'[k][d] - moved[k][d] /\ Owed(k, d) \in Int
        BY <3>1, OwedIsNatural, Types DEF TrackerInv, Owed, PeerInv
      <4>2. billed[k][d] + Pending(stats[k], d) + Owed(k, d) <= moved[k][d]
        BY DEF TrackerInv, PeerInv
      <4>3. /\ billed[k][d] \in Nat /\ Pending(stats[k], d) \in Int
            /\ moved[k][d] \in Nat /\ moved'[k][d] \in Nat /\ Owed(k, d)' \in Int
        BY <3>1, <1>1, Types DEF TrackerInv, Owed, PeerInv
      <4> QED BY <3>1, <4>1, <4>2, <4>3
    <3>3. k \in sampled => \A d \in Dirs : stats[k].current[d] <= kernel'[k][d]
      BY <3>1, Types DEF TrackerInv, PeerInv
    <3> QED BY <2>1, <3>1, <3>2, <3>3 DEF TrackerInv, PeerInv, Pending
  <2>2. CASE j # k
    BY <2>2, Untouched DEF TrackerInv, TypeOK, Traffic
  <2> QED BY <2>1, <2>2
<1> QED BY <1>1, <1>2 DEF TrackerInv

LEMMA CounterResetStep == ASSUME TrackerInv, NEW k \in Keys, CounterReset(k) PROVE TrackerInv'
<1>1. TypeOK'
  BY DEF TrackerInv, TypeOK, CounterReset, Counters, Zero
<1>2. ASSUME NEW j \in Keys PROVE PeerInv(j)'
  <2>1. CASE j = k
    <3>1. k \notin sampled' /\ stats' = stats /\ billed' = billed /\ moved' = moved
          /\ kernel'[k] = Zero
      BY DEF TrackerInv, TypeOK, CounterReset
    <3>2. \A d \in Dirs : Owed(k, d)' = 0 /\ Owed(k, d) \in Nat
      BY <3>1, Types DEF TrackerInv, PeerInv, Owed, Zero
    <3> QED BY <2>1, <3>1, <3>2, Types DEF TrackerInv, PeerInv, Pending
  <2>2. CASE j # k
    BY <2>2, Untouched DEF TrackerInv, TypeOK, CounterReset
  <2> QED BY <2>1, <2>2
<1> QED BY <1>1, <1>2 DEF TrackerInv

(* The heart of the argument: a sample adds at most what was owed.         *)
LEMMA SampleOwed ==
    ASSUME TrackerInv, NEW k \in present
    PROVE  LET f == ApplySample(stats[k], Email, kernel[k])
           IN  /\ f \in Entry({Email}) /\ GoodEntry(f) /\ ~f.deleted /\ f.current = kernel[k]
               /\ \A d \in Dirs : /\ Pending(f, d) \in Int
                                  /\ billed[k][d] + Pending(f, d) <= moved[k][d]
<1> DEFINE f == ApplySample(stats[k], Email, kernel[k])
<1>1. k \in Keys /\ PeerInv(k) /\ TypeOK
  BY DEF TrackerInv, TypeOK
<1>2. stats[k] \in Entries /\ kernel[k] \in Counters /\ GoodEntry(stats[k])
  BY <1>1, Types DEF PeerInv, Dirs
<1>3. /\ f \in Entry({Email}) /\ GoodEntry(f) /\ ~f.deleted /\ f.current = kernel[k]
      /\ \A d \in Dirs :
           /\ Pending(f, d) <= Pending(stats[k], d) + kernel[k][d]
           /\ stats[k] # NoEntry /\ ~stats[k].deleted
                /\ (\A c \in Dirs : stats[k].current[c] <= kernel[k][c]) =>
                Pending(f, d) = Pending(stats[k], d) + kernel[k][d] - stats[k].current[d]
  BY <1>2, Sample
<1> HIDE DEF f
<1>4. ASSUME NEW d \in Dirs
      PROVE  Pending(f, d) \in Int /\ billed[k][d] + Pending(f, d) <= moved[k][d]
  <2>1. Pending(f, d) \in Int
    BY <1>3 DEF Pending, Entry, Counters
  <2>2. Pending(f, d) <= Pending(stats[k], d) + Owed(k, d) /\ Owed(k, d) \in Int
    BY <1>1, <1>3, Types DEF Owed, PeerInv
  <2> QED BY <1>1, <2>1, <2>2, Types DEF PeerInv
<1> QED BY <1>3, <1>4 DEF f

LEMMA UpdateStep == ASSUME TrackerInv, UpdateStatsBatch PROVE TrackerInv'
<1>1. \A k \in Keys : stats'[k] = IF k \in present
                                  THEN ApplySample(stats[k], Email, kernel[k]) ELSE stats[k]
  BY DEF UpdateStatsBatch
<1>2. \A k \in Keys : stats'[k] \in Entries
  BY <1>1, SampleOwed DEF TrackerInv, TypeOK, Entries
<1>3. TypeOK'
  BY <1>2 DEF TrackerInv, TypeOK, UpdateStatsBatch, Entries
<1>4. ASSUME NEW k \in Keys PROVE PeerInv(k)'
  <2>1. CASE k \in present
    <3> DEFINE f == ApplySample(stats[k], Email, kernel[k])
    <3>1. /\ f \in Entry({Email}) /\ GoodEntry(f) /\ ~f.deleted /\ f.current = kernel[k]
          /\ \A d \in Dirs : Pending(f, d) \in Int /\ billed[k][d] + Pending(f, d) <= moved[k][d]
      BY <2>1, SampleOwed
    <3>2. stats'[k] = f /\ k \in sampled' /\ kernel' = kernel /\ moved' = moved /\ billed' = billed
      BY <1>1, <2>1 DEF UpdateStatsBatch
    <3>3. f # NoEntry
      BY <3>1, EntryIsNotNoEntry
    <3> HIDE DEF f
    <3>4. \A d \in Dirs : kernel[k][d] \in Nat /\ billed[k][d] \in Nat
      BY Types DEF TrackerInv
    <3>5. \A d \in Dirs : Owed(k, d)' = 0
      BY <3>1, <3>2, <3>4 DEF Owed
    <3> QED BY <3>1, <3>2, <3>3, <3>4, <3>5 DEF PeerInv
  <2>2. CASE k \notin present
    BY <1>1, <2>2, Untouched DEF TrackerInv, TypeOK, UpdateStatsBatch
  <2> QED BY <2>1, <2>2
<1> QED BY <1>3, <1>4 DEF TrackerInv

LEMMA RemovePeerStep ==
    ASSUME TrackerInv, NEW k \in Keys, NEW lastSample \in BOOLEAN, RemovePeer(k, lastSample)
    PROVE  TrackerInv' /\ \A d \in Dirs : Pending(stats'[k], d) >= Pending(stats[k], d)
<1> DEFINE e == IF lastSample THEN ApplySample(stats[k], Email, kernel[k]) ELSE stats[k]
<1>1. k \in present /\ PeerInv(k) /\ TypeOK
  BY DEF TrackerInv, RemovePeer
<1>2. stats[k] \in Entries /\ kernel[k] \in Counters /\ GoodEntry(stats[k])
  BY <1>1, Types DEF PeerInv, Dirs
<1>3. /\ e \in Entries /\ GoodEntry(e)
      /\ \A d \in Dirs : /\ Pending(e, d) \in Int /\ billed[k][d] + Pending(e, d) <= moved[k][d]
                         /\ Pending(e, d) >= Pending(stats[k], d)
  <2>1. CASE lastSample
    <3>1. e = ApplySample(stats[k], Email, kernel[k])
      BY <2>1
    <3>2. \A d \in Dirs : Pending(e, d) >= Pending(stats[k], d)
      BY <1>2, <3>1, Sample
    <3> QED BY <1>1, <3>1, <3>2, SampleOwed DEF Entries
  <2>2. CASE ~lastSample
    <3>1. e = stats[k]
      BY <2>2
    <3>2. \A d \in Dirs : Owed(k, d) \in Nat
      BY OwedIsNatural
    <3> QED BY <1>1, <1>2, <3>1, <3>2, Types DEF PeerInv
  <2> QED BY <2>1, <2>2
<1>4. stats'[k] = AfterRemove(e) /\ \A j \in Keys \ {k} : stats'[j] = stats[j]
  BY <1>1 DEF RemovePeer, TypeOK
<1> HIDE DEF e
<1>5. /\ stats'[k] \in Entries /\ GoodEntry(stats'[k])
      /\ \A d \in Dirs : Pending(stats'[k], d) = Pending(e, d)
  BY <1>3, <1>4, Remove
<1>6. TypeOK'
  <2>1. stats' \in [Keys -> Entries]
    BY <1>1, <1>4, <1>5 DEF RemovePeer, TypeOK, Entries
  <2> QED BY <1>1, <2>1 DEF RemovePeer, TypeOK, Entries, Counters, Zero
<1>7. ASSUME NEW j \in Keys PROVE PeerInv(j)'
  <2>1. CASE j = k
    <3>1. k \notin sampled' /\ k \notin present' /\ billed' = billed /\ moved' = moved
      BY DEF RemovePeer
    <3>2. \A d \in Dirs : Owed(k, d)' = 0 /\ billed[k][d] \in Nat
      BY <1>1, <3>1, Types DEF Owed
    <3> QED BY <1>3, <1>5, <2>1, <3>1, <3>2 DEF PeerInv
  <2>2. CASE j # k
    BY <1>1, <1>4, <2>2, Untouched DEF TrackerInv, TypeOK, RemovePeer
  <2> QED BY <2>1, <2>2
<1> QED BY <1>3, <1>5, <1>6, <1>7 DEF TrackerInv

LEMMA ReportStep ==
    ASSUME TrackerInv, NEW K \in SUBSET Keys, Report(K)
    PROVE  /\ TrackerInv'
           /\ \A k \in Keys, d \in Dirs :
                billed'[k][d] + Pending(stats'[k], d) = billed[k][d] + Pending(stats[k], d)
<1>1. ASSUME NEW k \in Keys, NEW d \in Dirs
      PROVE  /\ stats[k] \in Entries /\ GoodEntry(stats[k]) /\ PeerInv(k)
             /\ Pending(stats[k], d) \in Nat /\ billed[k][d] \in Nat
             /\ stats'[k] = IF k \in K THEN AfterReport(stats[k]) ELSE stats[k]
             /\ billed'[k][d] = IF k \in K THEN billed[k][d] + Pending(stats[k], d)
                                ELSE billed[k][d]
             /\ kernel' = kernel /\ moved' = moved /\ sampled' = sampled /\ present' = present
  <2>1. stats[k] \in Entries /\ GoodEntry(stats[k]) /\ PeerInv(k) /\ billed[k][d] \in Nat
    BY Types DEF TrackerInv, PeerInv
  <2>2. Pending(stats[k], d) \in Nat /\ Reported(stats[k], d) = Pending(stats[k], d)
    BY <2>1, ReportEntry
  <2> QED BY <2>1, <2>2 DEF Report
<1>2. ASSUME NEW k \in Keys
      PROVE  stats'[k] \in Entries /\ GoodEntry(stats'[k])
  BY <1>1, ReportEntry DEF Dirs
<1>3. \A k \in Keys, d \in Dirs :
         billed'[k][d] + Pending(stats'[k], d) = billed[k][d] + Pending(stats[k], d)
  BY <1>1, ReportEntry
<1>4. TypeOK'
  <2>1. stats' \in [Keys -> Entries]
    BY <1>2 DEF Report
  <2>2. billed' \in [Keys -> Counters]
    <3>1. ASSUME NEW k \in Keys PROVE billed'[k] \in Counters
      BY <1>1 DEF Report, Counters
    <3> QED BY <3>1 DEF Report
  <2> QED BY <2>1, <2>2 DEF TrackerInv, TypeOK, Report, Entries
<1>5. ASSUME NEW k \in Keys PROVE PeerInv(k)'
  <2>1. k \in sampled => /\ stats'[k] # NoEntry /\ ~stats'[k].deleted
                         /\ stats'[k].current = stats[k].current
    BY <1>1, ReportEntry DEF PeerInv, Dirs
  <2>2. \A d \in Dirs : Owed(k, d)' = Owed(k, d) /\ Owed(k, d) \in Int
    BY <1>1, <2>1, Types DEF Owed, TrackerInv, PeerInv
  <2>3. \A d \in Dirs : billed'[k][d] + Pending(stats'[k], d) + Owed(k, d)' <= moved'[k][d]
    BY <1>1, <1>3, <2>2 DEF PeerInv
  <2> QED BY <1>1, <1>2, <2>1, <2>3 DEF PeerInv, Dirs
<1> QED BY <1>3, <1>4, <1>5 DEF TrackerInv

LEMMA CleanupStep ==
    ASSUME TrackerInv, CleanupDeletedEntries
    PROVE  TrackerInv' /\ \A k \in Keys, d \in Dirs : Pending(stats'[k], d) = Pending(stats[k], d)
<1>1. ASSUME NEW k \in Keys, NEW d \in Dirs
      PROVE  /\ stats[k] \in Entries /\ GoodEntry(stats[k]) /\ PeerInv(k)
             /\ stats'[k] \in Entries /\ GoodEntry(stats'[k])
             /\ Pending(stats'[k], d) = Pending(stats[k], d)
             /\ k \in sampled => stats'[k] = stats[k]
             /\ kernel' = kernel /\ moved' = moved /\ sampled' = sampled /\ present' = present
             /\ billed' = billed
  BY Types, CleanupEntry DEF TrackerInv, PeerInv, CleanupDeletedEntries
<1>2. TypeOK'
  <2>1. stats' \in [Keys -> Entries]
    BY <1>1 DEF CleanupDeletedEntries, Dirs
  <2> QED BY <2>1 DEF TrackerInv, TypeOK, CleanupDeletedEntries, Entries
<1>3. ASSUME NEW k \in Keys PROVE PeerInv(k)'
  <2>1. \A d \in Dirs : Owed(k, d)' = Owed(k, d)
    BY <1>1 DEF Owed
  <2> QED BY <1>1, <2>1 DEF PeerInv, Dirs
<1> QED BY <1>1, <1>2, <1>3 DEF TrackerInv
-----------------------------------------------------------------------------
LEMMA InvInit == TrackerInit => TrackerInv
<1> SUFFICES ASSUME TrackerInit PROVE TrackerInv
  OBVIOUS
<1>1. TypeOK
  BY DEF TrackerInit, TypeOK, Counters, Zero
<1>2. ASSUME NEW k \in Keys PROVE PeerInv(k)
  BY DEF TrackerInit, PeerInv, GoodEntry, Owed, Pending, Zero
<1> QED BY <1>1, <1>2 DEF TrackerInv

LEMMA InvStep == TrackerInv /\ [TrackerNext]_trackerVars => TrackerInv'
<1> SUFFICES ASSUME TrackerInv, [TrackerNext]_trackerVars PROVE TrackerInv'
  OBVIOUS
<1>1. ASSUME NEW k \in Keys, AddPeer(k) \/ CounterReset(k) PROVE TrackerInv'
  BY <1>1, AddPeerStep, CounterResetStep
<1>2. ASSUME NEW k \in Keys, NEW d \in Dirs, Traffic(k, d) PROVE TrackerInv'
  BY <1>2, TrafficStep
<1>3. ASSUME NEW k \in Keys, NEW lastSample \in BOOLEAN, RemovePeer(k, lastSample) PROVE TrackerInv'
  BY <1>3, RemovePeerStep
<1>4. ASSUME NEW k \in Keys, Report({k}) PROVE TrackerInv'
  BY <1>4, ReportStep
<1>5. CASE Report(Keys)
  BY <1>5, ReportStep
<1>6. CASE UpdateStatsBatch \/ CleanupDeletedEntries
  BY <1>6, UpdateStep, CleanupStep
<1>7. CASE UNCHANGED trackerVars
  BY <1>7 DEF trackerVars, TrackerInv, TypeOK, PeerInv, Owed, Pending
<1> QED BY <1>1, <1>2, <1>3, <1>4, <1>5, <1>6, <1>7 DEF TrackerNext

(* Every peer keeps what its entry, the kernel and the bill have to agree  *)
(* on.                                                                     *)
THEOREM TrackerInvariance == TrackerSpec => []TrackerInv
BY InvInit, InvStep, PTL DEF TrackerSpec

(* Whatever peers come, go, come back and lose their counters, and         *)
(* whenever the panel collects: no byte is reported twice.                 *)
THEOREM NoOverbilling == TrackerSpec => []NeverOverbilled
<1>1. ASSUME TrackerInv, NEW k \in Keys, NEW d \in Dirs
      PROVE  billed[k][d] + Pending(stats[k], d) <= moved[k][d]
  <2>1. Owed(k, d) \in Nat
    BY <1>1, OwedIsNatural
  <2> QED BY <1>1, <2>1, Types DEF TrackerInv, PeerInv
<1>2. TrackerInv => NeverOverbilled
  BY <1>1 DEF NeverOverbilled
<1> QED BY <1>2, TrackerInvariance, PTL

(* No entry ever owes a negative count.                                    *)
THEOREM NaturalPending == TrackerSpec => []PendingIsNatural
<1>1. ASSUME TrackerInv, NEW k \in Keys, NEW d \in Dirs PROVE Pending(stats[k], d) >= 0
  BY <1>1, Types DEF TrackerInv, PeerInv, GoodEntry, Pending
<1>2. TrackerInv => PendingIsNatural
  BY <1>1 DEF PendingIsNatural
<1> QED BY <1>2, TrackerInvariance, PTL

LEMMA KeptStep ==
    ASSUME TrackerInv, [TrackerNext]_trackerVars, NEW k \in Keys, NEW d \in Dirs
    PROVE  billed'[k][d] + Pending(stats'[k], d) >= billed[k][d] + Pending(stats[k], d)
<1>0. billed[k][d] \in Nat /\ Pending(stats[k], d) \in Int /\ TypeOK'
      /\ billed'[k][d] \in Nat /\ Pending(stats'[k], d) \in Int
  <2>1. TypeOK' /\ TypeOK
    BY InvStep DEF TrackerInv
  <2>2. stats[k] \in Entries /\ stats'[k] \in Entries
        /\ billed[k][d] \in Nat /\ billed'[k][d] \in Nat
    BY <2>1 DEF TypeOK, Entries, Counters
  <2>3. Pending(stats[k], d) \in Int
    BY <2>2, PendingIsInt
  <2>4. Pending(stats'[k], d) \in Int
    BY <2>2, PendingIsInt
  <2> QED BY <2>1, <2>2, <2>3, <2>4
<1> DEFINE Kept ==
      billed'[k][d] + Pending(stats'[k], d) >= billed[k][d] + Pending(stats[k], d)
<1>1. ASSUME NEW j \in Keys, AddPeer(j) \/ CounterReset(j) PROVE Kept
  BY <1>0, <1>1 DEF AddPeer, CounterReset
<1>2. ASSUME NEW j \in Keys, NEW c \in Dirs, Traffic(j, c) PROVE Kept
  BY <1>0, <1>2 DEF Traffic
<1>3. ASSUME NEW j \in Keys, NEW lastSample \in BOOLEAN, RemovePeer(j, lastSample) PROVE Kept
  <2>0. billed' = billed
    BY <1>3 DEF RemovePeer
  <2>1. CASE j = k
    <3>1. Pending(stats'[k], d) >= Pending(stats[k], d)
      BY <1>3, <2>1, RemovePeerStep
    <3> QED BY <1>0, <2>0, <3>1
  <2>2. CASE j # k
    <3>1. stats'[k] = stats[k]
      BY <1>3, <2>2 DEF RemovePeer, TrackerInv, TypeOK
    <3> QED BY <1>0, <2>0, <3>1
  <2> QED BY <2>1, <2>2
<1>4. ASSUME NEW K \in SUBSET Keys, Report(K) PROVE Kept
  <2>1. billed'[k][d] + Pending(stats'[k], d) = billed[k][d] + Pending(stats[k], d)
    BY <1>4, ReportStep
  <2> QED BY <1>0, <2>1
<1>5. CASE UpdateStatsBatch
  <2>1. billed' = billed /\ stats'[k] = IF k \in present
                                THEN ApplySample(stats[k], Email, kernel[k]) ELSE stats[k]
    BY <1>5 DEF UpdateStatsBatch
  <2>2. stats[k] \in Entries /\ GoodEntry(stats[k]) /\ kernel[k] \in Counters
    BY Types DEF TrackerInv, PeerInv
  <2>3. Pending(ApplySample(stats[k], Email, kernel[k]), d) >= Pending(stats[k], d)
    BY <2>2, Sample
  <2> QED BY <1>0, <2>1, <2>3
<1>6. CASE CleanupDeletedEntries
  <2>1. billed' = billed /\ Pending(stats'[k], d) = Pending(stats[k], d)
    BY <1>6, CleanupStep DEF CleanupDeletedEntries
  <2> QED BY <1>0, <2>1
<1>7. CASE UNCHANGED trackerVars
  BY <1>0, <1>7 DEF trackerVars
<1>8. ASSUME NEW j \in Keys, Report({j}) PROVE Kept
  BY <1>4, <1>8
<1>9. CASE Report(Keys)
  BY <1>4, <1>9
<1> QED BY <1>1, <1>2, <1>3, <1>5, <1>6, <1>7, <1>8, <1>9 DEF TrackerNext

(* A byte that has been counted is reported or pending for ever after:     *)
(* samples, removals, cleanups and resets lose none.                       *)
THEOREM NothingCountedIsLost == TrackerSpec => CountedBytesAreKept
<1>1. TrackerInv /\ [TrackerNext]_trackerVars =>
        [\A k \in Keys, d \in Dirs :
            billed'[k][d] + Pending(stats'[k], d) >= billed[k][d] + Pending(stats[k], d)]_trackerVars
  BY KeptStep
<1> QED BY <1>1, TrackerInvariance, PTL DEF TrackerSpec, CountedBytesAreKept
=============================================================================
