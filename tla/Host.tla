-------------------------------- MODULE Host --------------------------------
(***************************************************************************)
(* What the cores of one node share on its host: the chap-secrets file,    *)
(* the counted charon daemon, the firewall's masquerade, forward and MSS   *)
(* rules, and the policy routing tables. A core adds its part when it      *)
(* starts and takes it back when it shuts down, while other cores do the   *)
(* same, syncs rewrite chap-secrets and refreshers rewrite the MSS rules.  *)
(*                                                                         *)
(* The rules of one core are one element of a set: they are tagged with    *)
(* its pool or owner. The nft chain of the MSS rules exists once a clamp   *)
(* is cached, as nothing deletes it.                                       *)
(***************************************************************************)
EXTENDS Integers, FiniteSets

CONSTANTS
    Cores,
    Tables,
    Users,      \* CHAP user names
    MTUs,       \* of the narrowest interface that forwards
    MaxMTUs,    \* bound on its changes
    MaxStarts,  \* bound on the starts of all cores, the ones of Restart too
    MaxSyncs,
    MaxTicks,   \* bound on the ticks of all refreshers
    MaxFaults   \* bound on daemons that fail to start and on crashes of charon

ASSUME HostAssumption == MTUs \subseteq Nat

VARIABLES
    kind,       \* of every core: "l2tp", "openvpn" or "wireguard"
    table,      \* its table: of an l2tp core by its pool, of wireguard the node's one
    pc,         \* where the core's start or shutdown is
    again,      \* the shutdown is a Restart's
    starts,
    users,      \* the core's user store
    secrets,    \* the lines of every core in chap-secrets
    kept,       \* the lines that start or shutdown to write them back
    sync,       \* the lines that the core's sync read; NoSync when there is none
    syncs,
    refs, charon,           \* manager.refs and its process: "up", "down" or "dead"
    masq, forward,          \* cores with masquerade and accept rules
    rule, route,            \* cores with an ip rule; tables with a default route
    mtu, changes, ticks, faults,
    clamp,      \* the values of a core's MSS rules
    applied,    \* appliedMSS, 0 for no entry
    tick,       \* the refresher: Stopped, Waiting or the value it has read
    orphan,     \* cores with the refresher of a start that failed
    stray,      \* values read by refreshers stopped or orphaned since
    held,       \* cores that hold a reference to charon
    surplus,    \* a reference was released that the core did not hold
    stale,      \* cores whose lines were overwritten by older ones
    leaked,     \* cores of which a failed start left its part on the host
    flushed,    \* cores whose table another core's cleanup has emptied
    overtaken   \* cores whose stopped refresher wrote its rules again

coreVars == <<kind, table, pc, again, starts>>
secretVars == <<users, secrets, kept, sync, syncs, stale>>
charonVars == <<refs, charon, held, surplus>>
routeVars == <<masq, forward, rule, route, flushed>>
mssVars == <<mtu, changes, ticks, clamp, applied, tick, orphan, stray, overtaken>>
failVars == <<leaked, faults>>
vars == <<coreVars, secretVars, charonVars, routeVars, mssVars, failVars>>

Stopped == 0
Waiting == 1
NoSync == <<>>
Kinds == {"l2tp", "openvpn", "wireguard"}

NoLines == [c \in Cores |-> {}]

Init ==
    /\ kind \in [Cores -> Kinds] /\ table \in [Cores -> Tables]
    /\ \A c, d \in Cores : kind[c] = "wireguard" /\ kind[d] = "wireguard" => table[c] = table[d]
    /\ pc = [c \in Cores |-> "off"] /\ again = {} /\ starts = 0
    /\ users = [c \in Cores |-> Users]
    /\ secrets = NoLines /\ kept = [c \in Cores |-> NoLines]
    /\ sync = [c \in Cores |-> NoSync] /\ syncs = 0
    /\ refs = 0 /\ charon = "down"
    /\ masq = {} /\ forward = {} /\ rule = {} /\ route = {}
    /\ mtu \in MTUs /\ changes = 0 /\ ticks = 0 /\ faults = 0
    /\ clamp = [c \in Cores |-> {}] /\ applied = [c \in Cores |-> 0]
    /\ tick = [c \in Cores |-> Stopped] /\ orphan = {} /\ stray = [c \in Cores |-> {}]
    /\ held = {} /\ surplus = FALSE /\ stale = {} /\ leaked = {} /\ flushed = {} /\ overtaken = {}

Goto(c, from, next) ==
    /\ pc[c] = from /\ pc' = [pc EXCEPT ![c] = next]
    /\ UNCHANGED <<kind, table, starts>>
-----------------------------------------------------------------------------
(***************************************************************************)
(* chap-secrets: read, changed and written back without a lock.            *)
(***************************************************************************)
(* The others' lines as they were read, and the core's own.                *)
Write(c, others, own) == secrets' = [d \in Cores |-> IF d = c THEN own ELSE others[d]]
Reverted(c, others) == {d \in Cores \ {c} : others[d] # secrets[d]}

(* writeChapSecrets in start.                                              *)
ReadSecrets(c) ==
    /\ kept' = [kept EXCEPT ![c] = secrets]
    /\ UNCHANGED <<users, secrets, sync, syncs, stale>>
WriteChapSecrets(c) ==
    /\ Goto(c, "secrets", "nat")
    /\ Write(c, kept[c], users[c])
    /\ stale' = (stale \cup Reverted(c, kept[c])) \ {c}
    /\ kept' = [kept EXCEPT ![c] = NoLines]
    /\ UNCHANGED <<users, sync, syncs, again, charonVars, routeVars, mssVars, failVars>>

(* removeChapSecrets in Shutdown.                                          *)
RemoveChapSecrets(c) ==
    /\ Goto(c, "drop", "release")
    /\ Write(c, kept[c], {})
    /\ stale' = (stale \cup Reverted(c, kept[c])) \ {c}
    /\ kept' = [kept EXCEPT ![c] = NoLines]
    /\ UNCHANGED <<users, sync, syncs, again, charonVars, routeVars, mssVars, failVars>>

(* A sync of a running core. It ends after the core's shutdown maybe, and  *)
(* writes the lines all the same.                                          *)
SyncUsers(c, new) ==
    /\ kind[c] = "l2tp" /\ pc[c] = "up" /\ sync[c] = NoSync /\ syncs < MaxSyncs
    /\ users' = [users EXCEPT ![c] = new]
    /\ sync' = [sync EXCEPT ![c] = secrets] /\ syncs' = syncs + 1
    /\ UNCHANGED <<secrets, kept, stale, coreVars, charonVars, routeVars, mssVars, failVars>>
HasLines == {"nat", "acquire", "load", "giveup", "up"}
SyncWrites(c) ==
    /\ sync[c] # NoSync
    /\ Write(c, sync[c], users[c])
    /\ LET reverted == stale \cup Reverted(c, sync[c])
       IN  stale' = IF pc[c] \in HasLines THEN reverted \ {c} ELSE reverted \cup {c}
    /\ sync' = [sync EXCEPT ![c] = NoSync]
    /\ UNCHANGED <<users, kept, syncs, coreVars, charonVars, routeVars, mssVars, failVars>>
-----------------------------------------------------------------------------
(***************************************************************************)
(* charon, which the l2tp cores share by counting.                         *)
(***************************************************************************)
Fault == faults < MaxFaults /\ faults' = faults + 1

(* The start fails. A New that fails leaves no object to shut down: its    *)
(* rules, lines and refresher stay. After a Restart the object is kept.    *)
InFlight(c) == IF tick[c] \in {Stopped, Waiting} THEN {} ELSE {tick[c]}
Fail(c, from) ==
    /\ Goto(c, from, IF c \in again THEN "failed" ELSE "off")
    /\ again' = again \ {c}
    /\ IF c \in again THEN UNCHANGED <<leaked, tick, orphan, stray>>
       ELSE /\ leaked' = leaked \cup {c} /\ orphan' = orphan \cup {c}
            /\ tick' = [tick EXCEPT ![c] = Stopped]
            /\ stray' = [stray EXCEPT ![c] = @ \cup InFlight(c)]
    /\ UNCHANGED <<secretVars, routeVars, mtu, changes, ticks, clamp, applied, overtaken>>

(* acquire: with a reference out the daemon is taken to run.               *)
Acquire(c) ==
    /\ Goto(c, "acquire", "load")
    /\ charon' = IF refs = 0 THEN "up" ELSE charon
    /\ refs' = refs + 1 /\ held' = held \cup {c}
    /\ UNCHANGED <<again, surplus, secretVars, routeVars, mssVars, failVars>>
AcquireFail(c) ==
    /\ refs = 0 /\ Fault
    /\ Fail(c, "acquire") /\ UNCHANGED charonVars

(* loadAll, which reaches no charon that is dead, and then xl2tpd.         *)
Launch(c) ==
    /\ charon = "up"
    /\ Goto(c, "load", "up")
    /\ again' = again \ {c} /\ leaked' = leaked \ {c}
    /\ UNCHANGED <<faults, charonVars, secretVars, routeVars, mssVars>>
LaunchFail(c) ==
    /\ IF charon = "up" THEN Fault ELSE UNCHANGED faults
    /\ Goto(c, "load", "giveup")
    /\ UNCHANGED <<again, charonVars, secretVars, routeVars, mssVars, leaked>>

(* release: the last reference stops the daemon. The mutant stops it at    *)
(* every release.                                                          *)
ReleaseAtOnce(c) ==
    /\ refs' = IF refs = 0 THEN 0 ELSE refs - 1
    /\ charon' = "down"
    /\ held' = held \ {c} /\ surplus' = (surplus \/ c \notin held)
Release(c) ==
    /\ refs' = IF refs = 0 THEN 0 ELSE refs - 1
    /\ charon' = IF refs = 1 THEN "down" ELSE charon
    /\ held' = held \ {c} /\ surplus' = (surplus \/ c \notin held)
GiveUp(c) == Release(c) /\ Fail(c, "giveup") /\ UNCHANGED faults
ShutdownReleases(c) ==
    /\ Goto(c, "release", "unroute")
    /\ Release(c)
    /\ UNCHANGED <<again, secretVars, routeVars, mssVars, failVars>>

(* Nothing starts a charon again that dies while references are out.       *)
CharonDies ==
    /\ charon = "up" /\ Fault
    /\ charon' = "dead"
    /\ UNCHANGED <<refs, held, surplus, coreVars, secretVars, routeVars, mssVars, leaked>>
-----------------------------------------------------------------------------
(***************************************************************************)
(* The MSS clamp of an l2tp core.                                          *)
(***************************************************************************)
MSSForMTU(m) ==
    LET mss == (IF m > 1500 THEN 1500 ELSE m) - 160
    IN  IF mss < 536 THEN 536 ELSE mss
PathMSS == MSSForMTU(mtu)

(* Under appliedMu: the rules are replaced unless the cache has the value. *)
EnsureMSSClamp(c, mss) ==
    /\ clamp' = IF applied[c] = mss THEN clamp ELSE [clamp EXCEPT ![c] = {mss}]
    /\ applied' = [applied EXCEPT ![c] = mss]

MTUChanges(m) ==
    /\ m # mtu /\ changes < MaxMTUs
    /\ mtu' = m /\ changes' = changes + 1
    /\ UNCHANGED <<ticks, clamp, applied, tick, orphan, stray, overtaken,
                   coreVars, secretVars, charonVars, routeVars, failVars>>

Ticks == ticks < MaxTicks /\ ticks' = ticks + 1

(* The refresher reads the interfaces, and applies what it has read.       *)
TickReads(c) ==
    /\ tick[c] = Waiting /\ Ticks
    /\ tick' = [tick EXCEPT ![c] = PathMSS]
    /\ UNCHANGED <<mtu, changes, clamp, applied, orphan, stray, overtaken,
                   coreVars, secretVars, charonVars, routeVars, failVars>>
TickApplies(c) ==
    /\ tick[c] \notin {Stopped, Waiting}
    /\ EnsureMSSClamp(c, tick[c])
    /\ tick' = [tick EXCEPT ![c] = Waiting]
    /\ UNCHANGED <<mtu, changes, ticks, orphan, stray, overtaken,
                   coreVars, secretVars, charonVars, routeVars, failVars>>

(* The same of a refresher that no one stops, and of one stopped between   *)
(* the two: closing done does not wait for it.                             *)
OrphanReads(c) ==
    /\ c \in orphan /\ stray[c] = {} /\ Ticks
    /\ stray' = [stray EXCEPT ![c] = {PathMSS}]
    /\ UNCHANGED <<mtu, changes, clamp, applied, tick, orphan, overtaken,
                   coreVars, secretVars, charonVars, routeVars, failVars>>
StrayApplies(c, mss) ==
    /\ mss \in stray[c]
    /\ EnsureMSSClamp(c, mss)
    /\ stray' = [stray EXCEPT ![c] = @ \ {mss}]
    /\ overtaken' = IF tick[c] = Stopped THEN overtaken \cup {c} ELSE overtaken
    /\ UNCHANGED <<mtu, changes, ticks, tick, orphan,
                   coreVars, secretVars, charonVars, routeVars, failVars>>
-----------------------------------------------------------------------------
(***************************************************************************)
(* Masquerade, forward rules and policy routing. The egress of all cores   *)
(* is one interface, so a table that cores share has one route.            *)
(***************************************************************************)
Sharers(c) == {d \in Cores : kind[d] # "openvpn" /\ table[d] = table[c]}

EnsureMasquerade(c) == masq' = masq \cup {c}
EnsureForwardAccept(c) == forward' = forward \cup {c}
RemoveForwardRules(c) == forward' = forward \ {c}

(* egress.Apply and policyRoute.apply, and their cleanups, which flush the *)
(* whole table or delete its one route.                                    *)
ApplyEgress(c) ==
    IF kind[c] = "openvpn" THEN UNCHANGED <<rule, route, flushed>>
    ELSE rule' = rule \cup {c} /\ route' = route \cup {table[c]} /\ flushed' = flushed \ Sharers(c)
CleanupEgress(c) ==
    IF kind[c] = "openvpn" THEN UNCHANGED <<rule, route, flushed>>
    ELSE /\ rule' = rule \ {c} /\ route' = route \ {table[c]}
         /\ flushed' = (flushed \cup (rule \cap Sharers(c))) \ {c}

ApplyHostRouting(c) == ApplyEgress(c) /\ EnsureMasquerade(c) /\ EnsureForwardAccept(c)
CleanupHostRouting(c) == CleanupEgress(c) /\ masq' = masq \ {c} /\ RemoveForwardRules(c)

(* l2tp: setupNAT before charon and xl2tpd.                                *)
SetupNAT(c) ==
    /\ Goto(c, "nat", "acquire")
    /\ ApplyHostRouting(c)
    /\ EnsureMSSClamp(c, PathMSS)
    /\ overtaken' = IF applied[c] = PathMSS THEN overtaken ELSE overtaken \ {c}
    /\ tick' = [tick EXCEPT ![c] = Waiting]
    /\ UNCHANGED <<again, mtu, changes, ticks, orphan, stray, secretVars, charonVars, failVars>>

(* The closure Shutdown calls. RemoveMSSClamp drops the cache entry under  *)
(* the lock and the rules after it. The mutant leaves the rules.           *)
Cleanup(c) ==
    /\ Goto(c, "unroute", "unclamp")
    /\ CleanupHostRouting(c)
    /\ tick' = [tick EXCEPT ![c] = Stopped]
    /\ stray' = [stray EXCEPT ![c] = @ \cup InFlight(c)]
    /\ applied' = [applied EXCEPT ![c] = 0]
    /\ UNCHANGED <<again, mtu, changes, ticks, clamp, orphan, overtaken, secretVars, charonVars, failVars>>
Removed(c) == IF c \in again THEN "begin" ELSE "off"
RemoveMSSClampCacheOnly(c) ==
    /\ Goto(c, "unclamp", Removed(c))
    /\ UNCHANGED <<again, secretVars, charonVars, routeVars, mssVars, failVars>>
RemoveMSSClamp(c) ==
    /\ Goto(c, "unclamp", Removed(c))
    /\ clamp' = [clamp EXCEPT ![c] = {}]
    /\ UNCHANGED <<again, mtu, changes, ticks, applied, tick, orphan, stray, overtaken,
                   secretVars, charonVars, routeVars, failVars>>
-----------------------------------------------------------------------------
(***************************************************************************)
(* Start, Shutdown and Restart of a core. openvpn and wireguard route when *)
(* everything that can fail is done.                                       *)
(***************************************************************************)
Counted == starts < MaxStarts /\ starts' = starts + 1
Begin(c) ==
    /\ kind[c] = "l2tp"
    /\ \/ pc[c] = "off" /\ Counted
       \/ pc[c] = "begin" /\ UNCHANGED starts
    /\ pc' = [pc EXCEPT ![c] = "secrets"]
    /\ ReadSecrets(c)
    /\ UNCHANGED <<kind, table, again, charonVars, routeVars, mssVars, failVars>>
BeginDirect(c) ==
    /\ kind[c] # "l2tp" /\ pc[c] = "off" /\ Counted
    /\ pc' = [pc EXCEPT ![c] = "up"]
    /\ ApplyHostRouting(c)
    /\ UNCHANGED <<kind, table, again, secretVars, charonVars, mssVars, failVars>>

Shutdown(c) ==
    /\ kind[c] = "l2tp" /\ pc[c] \in {"up", "failed"}
    /\ Goto(c, pc[c], "drop")
    /\ ReadSecrets(c)
    /\ UNCHANGED <<again, charonVars, routeVars, mssVars, failVars>>
ShutdownDirect(c) ==
    /\ kind[c] # "l2tp"
    /\ Goto(c, "up", "off")
    /\ CleanupHostRouting(c)
    /\ UNCHANGED <<again, secretVars, charonVars, mssVars, failVars>>

(* UpdateUsersAndRestart of l2tp; the other kinds restart without touching *)
(* the host.                                                               *)
Restart(c, new) ==
    /\ kind[c] = "l2tp" /\ pc[c] \in {"up", "failed"} /\ Counted
    /\ pc' = [pc EXCEPT ![c] = "drop"] /\ again' = again \cup {c}
    /\ users' = [users EXCEPT ![c] = new]
    /\ kept' = [kept EXCEPT ![c] = secrets]
    /\ UNCHANGED <<kind, table, secrets, sync, syncs, stale, charonVars, routeVars, mssVars, failVars>>
-----------------------------------------------------------------------------
Next ==
    \/ \E c \in Cores :
        \/ Begin(c) \/ BeginDirect(c) \/ Shutdown(c) \/ ShutdownDirect(c)
        \/ \E new \in SUBSET Users : Restart(c, new) \/ SyncUsers(c, new)
        \/ SyncWrites(c) \/ WriteChapSecrets(c) \/ RemoveChapSecrets(c)
        \/ SetupNAT(c) \/ Cleanup(c) \/ RemoveMSSClamp(c)
        \/ Acquire(c) \/ AcquireFail(c) \/ Launch(c) \/ LaunchFail(c)
        \/ GiveUp(c) \/ ShutdownReleases(c)
        \/ TickReads(c) \/ TickApplies(c) \/ OrphanReads(c)
        \/ \E mss \in {MSSForMTU(m) : m \in MTUs} : StrayApplies(c, mss)
    \/ CharonDies
    \/ \E m \in MTUs : MTUChanges(m)

Spec == Init /\ [][Next]_vars
-----------------------------------------------------------------------------
(* A core that is up has on the host what it needs, whatever other cores   *)
(* do: masquerade and forward rules, its policy route, the MSS rules the   *)
(* cache says it has, a charon that no release has stopped under it, and   *)
(* its users in chap-secrets. Excepted is what goes wrong without a lock:  *)
(* older lines written over newer ones, a table that another core empties, *)
(* rules of a refresher that outlived its core, and a release too many     *)
(* after a Restart that failed.                                            *)
Served(c) ==
    /\ c \in masq \cap forward
    /\ kind[c] # "openvpn" => c \in rule /\ (table[c] \in route \/ c \in flushed)
    /\ kind[c] = "l2tp" =>
        /\ clamp[c] = {applied[c]} \/ c \in overtaken
        /\ charon # "down" \/ surplus
        /\ secrets[c] = users[c] \/ sync[c] # NoSync \/ c \in stale
RunningCoreIsServed == \A c \in Cores : pc[c] = "up" => Served(c)

(* A core that is shut down leaves nothing on the host, and charon runs as *)
(* long as a core holds a reference, no longer. Excepted are a start that  *)
(* failed, which nobody cleans up after, a refresher that writes once more *)
(* after it was stopped, and a sync that writes after the shutdown.        *)
Clean(c) ==
    /\ c \notin masq \cup forward \cup rule
    /\ clamp[c] = {} \/ c \in overtaken
    /\ secrets[c] = {} \/ c \in stale
NothingLeftBehind ==
    /\ \A c \in Cores \ leaked : pc[c] = "off" => Clean(c)
    /\ ~surplus => refs = Cardinality(held) /\ (refs = 0 <=> charon = "down")
=============================================================================
