# A TLA+ verification of PasarGuard Node

PasarGuard Node is the daemon a panel talks to, over gRPC or REST, to run VPN
cores on a host: Xray, WireGuard, OpenVPN, L2TP and sing-box. This directory
models the parts of it whose correctness depends on the order of events, checks
them with TLC on small instances, and proves the most important results with
TLAPS for every size.

## The system

| Part | State | Operations | Talks to |
|---|---|---|---|
| Control plane (`controller/`) | map of cores, current client, cancel function, time of the last request, two mutexes | Start (plain, additive), Stop, user syncs, info, keep-alive tracker, signal | cores, through `backend.Backend` |
| Composite (`backend/composite.go`) | none: a snapshot of the cores | fans a call out | cores |
| Statistics tracker (`pkg/stats`) | one entry per peer or user | sample, report, remove, clean up | fed by WireGuard, OpenVPN, L2TP |
| WireGuard (`backend/wireguard`) | peer store, manager, tracker | syncs, restart, poll, shutdown | kernel |
| sing-box (`backend/singbox`) | process, supervisor flags, users, slots, debounce timer, counters' baselines | start, restart, shutdown, supervise, push, report | process, `clash_api`, `v2ray_api` |
| Xray (`backend/xray`) | core process, configuration object, health count | syncs by API or by restart, restore, health checks | process, its API |
| OpenVPN (`backend/openvpn`) | allow-list, counters by client id, management socket | admit, kill, poll status, restart | openvpn daemon |
| L2TP (`backend/l2tp`) | users, interface baselines, files | syncs, poll, settle ended sessions, `chap-secrets` | xl2tpd, pppd hooks |
| charon, egress, hostroute, host routing | reference count; rules and tables; nftables; MSS cache | acquire, release; apply, clean up; ensure, refresh | host, shared by all cores |

What is hard: every request is a goroutine; the keep-alive tracker and the
signal handler disconnect outside the lock the requests hold; polls read a
kernel, a daemon or a directory that syncs and clients are changing; a crashed
process is restarted by a goroutine that races with syncs and Shutdown; payloads
are built under a lock and sent outside it; identifiers (interfaces, client ids,
positions) are handed on while counters are held under them; cores share files,
tables and a daemon without knowing of each other. `PROJECT.json` lists these as
hazards, each at its line, with the property that would catch it.

## Modules

| Module | Models | Used by |
|---|---|---|
| `Controller` | `controller.Controller` and the handlers and middleware around it | `MCController`, `ControllerProofs` |
| `StatsEntry` | one entry of `stats.Tracker` as pure operators | `StatsTracker`, `WireGuard` |
| `StatsTracker` | the tracker fed by a kernel's counters | `MCStatsTracker`, `SharedProofs` |
| `Peers` | peers of an interface as values | `PeerMap`, `PeerStore`, `WireGuard` |
| `PeerMap` | the abstract peer store: one map, atomic calls | refined by `PeerStore` |
| `PeerStore` | `wireguard.PeerStore`, iteration by iteration | `MCPeerStore`, `WireGuardProofs` |
| `WireGuard` | syncs, poll, reports and shutdown against the kernel | `MCWireGuard`, `WireGuardProofs` |
| `SingBoxProcess` | start, restart, shutdown, watcher, supervisor | `MCSingBoxProcess`, `SingBoxProcessProofs` |
| `SingBoxUsers` | users, slots, timer, pushes, sessions | `MCSingBoxUsers`, `SingBoxUsersProofs` |
| `SingBoxStats` | readings, baselines and pending counters | `Sessions`, `SessionsProofs` |
| `Xray` | core process, health goroutine, syncs, restore, Shutdown | `MCXray`, `XrayProofs` |
| `XrayConfig` | clients of the inbounds, accounts sent to the core, `ApplyAPI` | `MCXrayConfig`, `XrayProofs` |
| `OpenVPN` | allow-list, management connection, poll, Restart | `Sessions`, `OpenVPNProofs` |
| `L2TP` | syncs, hooks, session files, poll of one core | `Sessions`, `SessionsProofs` |
| `Sessions` | one core of any of the three kinds: `OpenVPN`, `L2TP` or `SingBoxStats` | `MCSessions`, `SessionsProofs` |
| `Host` | what the cores of a node share on its host | `MCHost`, `SharedProofs` |

The `MC` modules add symmetry, search constraints and the definitions a
configuration cannot write; the `Proofs` modules hold inductive invariants,
lemmas and theorems. A definition named like another with a suffix
(`RetiredNone` beside `Retired`) is a deliberate mistake in it, kept to show
that a property notices; no next-state relation uses one. Modules that are
proved about together have specifications of different names: `StoreSpec` of
`PeerStore`, `TrackerSpec` of `StatsTracker`, `ConfigSpec` of `XrayConfig` and
`CoreSpec` of `Sessions`. In `Sessions` the definitions of `OpenVPN` are the
module's own and those of `L2TP` and `SingBoxStats` are instances
(`SB!BooksBalance`), since the three share variables and names.

### Controller

A request is a process that runs once; it names the core it launches and the
connection it opens. A step is one critical section of `c.mu` or one call made
outside it. `controlMu` is held by a Start or a Stop from its first step to its
last. A Start goes `check`, (`cancel`, `snapshot`, `shutdown`,) `retire`,
`retiring`, `install`, `finish`; the part in brackets is Disconnect, which the
keep-alive tracker and `main` also run, without `controlMu`. A sync passes the
two middleware checks as steps of their own. REST makes the same two checks in
the other order; neither changes state, so one order stands for both. `idle` is
the time since the last request, saturating at `MaxIdle`. Config contents are
not modelled: a constructor succeeds or fails.

### StatsEntry, StatsTracker

The entry's operations are translated line by line; activity times and endpoint
addresses are left out. `StatsTracker` runs them against a kernel whose
counters restart when a peer is added or the device is set up again.
`moved` and `billed` are histories for the properties.

### Peers, PeerMap, PeerStore

`PeerStore` takes the store's lock, runs the loops of Init, ApplyChanges and
ReplaceAll one iteration per step, in any order, and unlocks. `PeerMap` is what
the callers rely on. The refinement mapping shows readers the map as it was
when the lock was taken, which is what the lock guarantees.

### WireGuard

The kernel is external and modelled from its use: an address has one peer,
ReplacePeers restarts the counters, a failing call may stop half-way, and an
interface may refuse to be deleted (`left` are the peers it keeps then). A sync
holds `syncMu` and goes from its diff to the departing peers' last sample, the
configure call, the store and the tracker. The poll reads the device, then the
emails, then applies. Users the panel puts off the interface, and users whose
key or addresses are quarantined, have `on = FALSE`.

### SingBoxProcess, SingBoxUsers, SingBoxStats

Processes are numbered; a number also names the process's context, its `done`
channel and the supervisor its exit may start. `holder` is the process that has
the ports, and with them `clash_api`. In `SingBoxUsers` a pusher is a request,
a timer callback or the start of the process; a list is rendered in one step
and sent to each inbound in another, by a call that may fail (`SendFail`):
`refused` are the inbounds whose last call did. `Overlap` says which pushes may overlap,
so that the runs can tell which overlap breaks what. In `SingBoxStats` a request
reads, folds and takes in three steps; `readings` keeps the order in which the
process answered, which the code does not see.

### Xray, XrayConfig

A configuration is an object in `heap`: single updates change the one
`x.config` points to, full syncs build a candidate, restart with it and then
move the pointer, or restore. `Core.Stop` kills (`Kill`) and waits (`StopWait`);
after 5 s it forgets a process that has not gone yet (the fault `linger`), which
then lives on beside its successor until it exits. Process ids are used again,
and a process that finds the port taken, by one that was killed too, exits by
itself. `served` and `from` are about the child the core keeps and are cleared
with it. One
step is one section of `x.mu` or one call made outside it. The watcher of a
process is seen as it happens. In `XrayConfig` a step is one of the three ways
the code changes users (`syncUsers`, `updateUsers`, `updateUser`/`removeUser`),
for the clients of every inbound and for the accounts the API calls leave in the
core; a restart loads the serialised clients. A call sends `AccountForAPI`, which
gives a VLESS account the flow of its inbound; the serialised client has the
user's own. `ApplyAPI` makes the routing the
core runs with from the panel's; its loop over the rules is a recursive
function. A secret is a form, a length and an origin, so encoding it twice is
visible.

### OpenVPN, L2TP

Both modules hold the external daemon with its clients next to the node, since
what matters is who learns of an event when. In `OpenVPN` events queue up for
the reader goroutine; the daemon carries out a command as it is sent. A verdict
is taken under the store's lock and sent outside it. In `L2TP` the node sees
files only: the ip-up hook writes one, the ip-down hook writes the final record
and removes it, in steps of their own; a torn record can be read. `owed` is what
a user has moved, less what nobody could report, and `BooksBalance` compares it
with what is counted and what is still to be counted: in `OpenVPN` of the
clients (`OfClients`), of the ends the node has read (`OfEnded`) and of those it
has not (`OfUnread`), in `L2TP` of the sessions up and the records waiting
(`Owing`). `disturbed`, `spared`,
`missed`, `outdated` and `torn` name the exceptions below.

### Host

Every core is of one kind; an L2TP core's start and shutdown go step by step
through `chap-secrets`, rules, charon and xl2tpd, the other kinds touch the host
in one step when nothing can fail any more. All rules of a core are one element
of a set because they carry its tag. All cores egress through one interface.
The chain of the clamp rules, once made, is never deleted by the code.

## Runs

| Run | Bound | Shows |
|---|---|---|
| `ctl_sessions` | 3 requests of every kind, 2 clients, 2 keys, no keep-alive, graceful signal | no core is lost or doubled, a serving node has an owner, exit stops all cores |
| `ctl_live` | fair; 2 requests, 2 clients, keep-alives off and on, graceful signal | the map holds only the client's cores and no dead one on a settled node; a silent client is disconnected, every request returns |
| `stats_tracker` | 1 peer, 3 bytes per direction | no overbilling, no negative count, no lost count |
| `peer_store` | 3 keys, 3 users, addresses left out | one-to-one after every iteration; implements `PeerMap` |
| `wg_sync` | 2 keys, 2 users with addresses of their own, failing reads, configure calls and deletions, 2 bytes of one user (`TrafficOfOneUser`) | kernel and store agree, syncs deliver, nothing brings a peer back after Shutdown, counted bytes survive races of poll and sync |
| `sb_process` | fair; 2 launches, 2 callers, every fault but a start that times out | no channel is closed twice, one supervisor, Shutdown returns and leaves down what was published (unless a teardown gave up or a Restart was called), a crash is repaired |
| `sb_slots` | 2 users, 2 inbounds, 2 requests, a restart, one session at a time, pushes overlap | positions never change hands under a session and mean one user on both inbounds |
| `sb_push` | fair; 2 users, 2 requests of every kind, a restart, pushes one at a time, every call may fail | every change reaches every inbound whose last call did not fail |
| `xray` | fair; 1 user, 2 syncs of every kind, 2 process ids, one caller of Shutdown, a restart after one failed probe, every fault | every process is the core's own or killed, the committed configuration runs and is served, a failed sync changes nothing, an outage is repaired, syncs return |
| `xray_config` | VLESS with and without a flow of the inbound's, Shadowsocks-2022, an excluded inbound and one without users, 2 emails, 5 kinds of user | all sync paths agree, the core agrees with the configuration but for flows, `ApplyAPI` is idempotent |
| `sessions` | one core: OpenVPN or L2TP with traffic of two users, or with two overlapping syncs of one (`concern`, `OneConcern`); sing-box with two counters and two requests; a restart, every fault; requests are symmetric | a removed user's session is being ended; every byte is counted once |
| `host` | 2 cores of any two kinds, 2 tables, 3 starts, 1 fault, a sync or 2 ticks and a change of the MTU (`OneConcern`) | a running core keeps its part of the host, a stopped one leaves none |

Three requests are enough for a session, a second one that overlaps its end and
a third that overlaps both; two keys for a core that is replaced beside one
that stays. With trackers, two requests and the trackers they start give a
Start or Stop that races with a disconnection. Two users and two keys give
every swap of an interface, three the chains of the store. One peer is enough
for the tracker because entries do not interact. Two launches with two callers
give a crash, a restart that fails to launch any number of times before it
succeeds, and calls that overlap both. One session at a time is enough for what
is said of each session; two requests remove a user and add another. Inbounds
of Xray do not interact, so one user's account on one of them stands for all;
two syncs give one that fails and one that follows it, and two process ids an
old process that lingers beside the new one (a third could only linger as
well). Two clients of a daemon, or two
sessions of one interface, give an identifier that is handed on. Two cores are
the least that can disturb each other, and a third start brings one back.

`InService` of `MCSessions` cuts the search where a core has stopped or where
`BooksBalance` says nothing any more, and `OneConcern` where a behaviour about
traffic starts a sync or one about users moves a byte: together they are out of
TLC's reach, and the theorems cover them. `OneConcern` of `MCHost` leaves out
behaviours with both syncs and refreshers, which touch nothing in common.
Deadlock is not checked where requests, launches and exits are bounded and every
behaviour stops when the bounds are used up.

## What does not hold, and is excepted

Each exception is the narrowest found: without it TLC has a counterexample.

Control plane and WireGuard
- `NoLostCore` is checked without keep-alives. A tracker's Disconnect resets the
  map that a Start has just added a core to, and the core runs untracked.
- A poll's old reading of a peer that was removed and reported since is billed
  again; `wg_sync` checks that no counted byte is lost.
- With shared addresses a partial sync can move an address in the kernel that
  the store then lists twice; `wg_sync` gives users addresses of their own.
- `KernelMatchesStore` says nothing between a configure call that failed and the
  next SyncUsers or Restart that reaches the kernel (`drift`).
- An interface that Shutdown cannot delete keeps the peers it had (`left`).

sing-box
- A supervisor past its last check starts the core after Shutdown.
- A killed process that outlives the 10 s teardown waits for it (`lingered`)
  breaks `StoppedMeansDown` later on: its late exit finds the flags of its
  successor and counts as a crash of it, a supervisor replaces the successor
  while it runs, and no Shutdown has its cancel function any more. It takes four
  launches, so `sb_process` alone, with two, could not show it: the attempt to
  prove the property did. A Restart that starts the core beside a supervisor
  which was woken for the same outage loses one of the two processes in the same
  way (three launches), so the property is about cores that are only shut down.
- A process that dies after it answered, while its supervisor has yet to release
  the flag, is not brought back; `CrashIsRepaired` starts from other crashes.
- A push that fails is reported or logged and not repeated: what it was to change
  waits for the next push (`refused`).
- Of overlapping pushes the older list can win (`sb_push`), and a push between a
  new process's first answer and the compaction of the table can move a
  session's position (`sb_slots`).
- Of overlapping statistics requests, an older reading folded last looks like a
  restart and is billed in full. A counter that passes the old baseline before
  it is read loses what the baseline held.

Xray
- The health goroutine can restart the core with the configuration a sync is
  replacing (`overtaken`), and can start a core that Shutdown has stopped.
- A removal whose call fails is not reported (`missed`).
- A killed process that outlives the 5 s of `Core.Stop` is forgotten and lives
  on: `NoOrphan` is about processes that nobody has killed.
- A VLESS account on an inbound that has a flow of its own has that flow when a
  call added it and the user's own after a restart, as `user_test.go` expects
  (`AgreeUpToFlow`).
- Shutdown closes the handler under a probe, which then dereferences nil
  (`panicked`); the model ends there.

OpenVPN
- A full sync that changes a serial ends no session (`spared`).
- A snapshot returned after a timeout can list a session already settled, and a
  restarted daemon gives out ids the node holds counters of (`disturbed`).

L2TP
- A session authenticated before `chap-secrets` changes and recorded after the
  kill escapes (`missed`); an older snapshot of the users can be written last,
  and a write that fails leaves the users it was to take out (`outdated`).
- A session that ends while a poll reads, records of one interface settled in
  the wrong order, and a killed pppd's baseline are set off against another
  session's bytes (`disturbed`).

Host
- `chap-secrets` is rewritten without a lock: older lines win (`stale`).
- A start that fails leaves its part behind (`leaked`, `orphan`); a Shutdown
  after a failed Restart gives back a reference it does not hold (`surplus`).
- A refresher stopped in the middle of a tick writes its rules once more
  (`overtaken`); a cleanup empties a table that another core shares (`flushed`).

## Fairness

Weak fairness of every goroutine's steps: the Go scheduler runs what can run,
and no modelled step waits for anything but the locks and channels in it. Strong
fairness where a lock is shared: Go's mutexes hand over to a waiter that has
starved. Strong fairness of a tracker's exit: its `select` sees both a tick and a
cancelled context again and again, and Go picks among ready cases at random. A
killed process exits, unless the run lets it linger, and one that is neither
killed nor broken comes to answer. A launch, tried again and again, does not
fail for ever (strong fairness): without that no retry could be said to
succeed. Requests, signals, crashes and traffic have no fairness, nor has a
caller of Xray's Shutdown: the liveness properties say nothing from its call on.

## Proofs

| Theorem | Module | Says |
|---|---|---|
| `TypeCorrect` | `ControllerProofs` | the control plane keeps its types |
| `Ownership` | `ControllerProofs` | `CoresBelongToClient` always holds |
| `TrackedCores` | `ControllerProofs` | `TrackedCoreIsUp` always holds |
| `NoCoreIsLost`, `KeysAreExclusive`, `NothingOutlivesMain` | `ControllerProofs` | `NoLostCore`, `OneCorePerKey` and `ExitStopsCores` hold while no keep-alive runs out and no exit is forced |
| `SettledNodeIsOwned` | `ControllerProofs` | `ServingNodeHasOwner` holds while no keep-alive runs out |
| `ConditionsAreMet` | `ControllerProofs` | both conditions hold without keep-alives and forced exits |
| `NoOverbilling`, `NaturalPending` | `SharedProofs` | billed and pending never exceed moved; pending is never negative |
| `NothingCountedIsLost` | `SharedProofs` | no step loses counted bytes |
| `OneToOneAlways` | `WireGuardProofs` | the store's maps agree after every iteration |
| `Refinement` | `WireGuardProofs` | the store implements `PeerMap` |
| `SyncsDeliver` | `WireGuardProofs` | a committed sync has given every user it names what was asked for |
| `TheKernelFollowsTheStore` | `WireGuardProofs` | `KernelMatchesStore`, if no address belongs to two users |
| `StoppedInterfacesStayEmpty` | `WireGuardProofs` | nothing brings a peer up after Shutdown, on an interface that was not deleted either |
| `OthersAreLeftAlone` | `WireGuardProofs` | a partial sync changes no peer of a user it does not name |
| `CountedBytesStay` | `WireGuardProofs` | no poll, sync or report loses counted bytes |
| `OneSupervisorAlways` | `SingBoxProcessProofs` | at most one supervisor |
| `NeverPanicsAlways` | `SingBoxProcessProofs` | no channel is closed twice |
| `StoppedMeansDownAlways` | `SingBoxProcessProofs` | when all calls were Shutdowns and have returned, nothing that was published runs |
| `SessionsKeepTheirPosition`, `InboundsAgree` | `SingBoxUsersProofs` | `NeverMisbilled` and `PositionsAgree`, if no other push overlaps a start |
| `NoProcessIsOrphaned` | `XrayProofs` | every live process is the child the core keeps or was sent a kill, lingering ones included |
| `TheCommittedConfigRuns`, `TheCommittedConfigIsServed` | `XrayProofs` | the core at rest runs the committed configuration and serves its accounts |
| `AckedUsersAreServed`, `FailedSyncsKeepUsers` | `XrayProofs` | an acknowledged addition arrived; a failed full sync changes no user |
| `ThreeWaysOneResult` | `XrayProofs` | full syncs, batches and single users in any mix leave what one full sync would (`PartialEqualsFull`) |
| `RestartsChangeFlowsOnly` | `XrayProofs` | the core told by calls has a restarted one's users and secrets, and its flows where the inbound has none (`CoreAgrees`) |
| `AppliedOnceIsEnough` | `XrayProofs` | `ApplyAPI` leaves its own result as it is, for rules and outbounds of any number |
| `OpenVPNCutsOff`; `L2TPCutsOff` | `OpenVPNProofs`; `SessionsProofs` | the session of a user who was removed is being ended (`CutOff` of either module) |
| `OpenVPNBalances`; `L2TPBalances`, `SingBoxBalances` | `OpenVPNProofs`; `SessionsProofs` | every byte is counted once or still to be counted (`BooksBalance` of each module) |
| `CoresCutOff`, `CoresBalance` | `SessionsProofs` | the same of a core of any of the kinds (`RemovedUsersAreCutOff`, `BytesCountOnce`) |
| `RunningCoresAreServed`, `NothingIsLeftBehind` | `SharedProofs` | a running core keeps its part of the host, a stopped one leaves none |

They hold for all values of the constants that satisfy the named assumptions of
the modules. The assumptions say only what a name, a count or a set is: that
absent values differ from present ones, that bounds and MTUs are natural numbers
(`HostAssumption`), that goroutines have names of their own
(`GoroutineAssumption`), that users and inbounds are finitely many, and that the
API's own outbound is among the outbounds (`XrayConfigAssumption`). Nothing is
assumed of the bounds on traffic, sessions and restarts. Every inductive
invariant was first checked with TLC on a small instance.

Some theorems have a hypothesis, which is the condition of the run that checks
the property; without it TLC has a counterexample.

- `NoTimeout` and `Graceful`: no tracker disconnects, and main exits when the
  handlers are through. Both are assumed of the behaviour, so the theorems cover
  keep-alives whose client is never silent. They exclude the Disconnects that
  run beside a Start without its `controlMu`, named above.
- `OwnAddresses`: the panel gives no address to two users. The kernel moves an
  address to the peer that claims it last.
- `StartIsAlone`: no push of a request or a timer overlaps the time from a new
  process's first answer to the end of its first push.

How the arguments go:

- *Ownership* is not inductive: it must know that control handlers exclude one
  another (`ControlInv`), that only cores whose Start has installed them are in
  the map (`InstalledInv`), and what a Start in progress may rely on
  (`StartInv`): a plain one has the node to itself, an additive one is still the
  owner's, whatever trackers disconnect. *TrackedCores* adds that a core is shut
  down by a process that took it off the map or is about to (`UpInv`);
  *NoCoreIsLost* and its companions that a Disconnect's list covers the cores
  of the map that are up (`CoverInv`), which needs one process at most to be at
  work on the map: that is what the two conditions give. *SettledNodeIsOwned*
  follows what an additive Start finds when it arrives (`OwnedInv`).
- *NoOverbilling* needs the bytes the kernel still shows to be tied to the
  entry: what is billed, pending and not yet sampled adds up to at most what was
  moved, with a case each for a live, a removed and a re-added entry.
- *Refinement* rests on a loop invariant (`LoopInv`, `AppliedSoFar`): after any
  subset of the iterations the map is what was there when the lock was taken,
  changed for exactly that subset.
- *WireGuard*: a sync's diff fits the store until it is committed (`Plan`),
  because nobody else writes to the store; from it follows what the commit makes
  of the store (`Final`). `Device` says that the interface matches the store,
  or `Final` between the configure call and the commit. `Books` says that a
  removed entry remembers what it owes and that readings on their way are
  counters, nothing about their age: `applySampleLocked` loses nothing whatever
  the reading is.
- *OneSupervisorAlways* needs the flag to be held while a supervisor exists, and
  that a process number is launched, published and watched once.
  *NeverPanicsAlways* adds who may still close which channel (`ClosedOnce`).
  *StoppedMeansDownAlways* adds, for the histories it is about (`Undisturbed`:
  New succeeded, every call is a Shutdown, and no teardown has given up), that
  processes succeed one another, each launched when its predecessor's watcher
  is through (`Succession`), and that a core that is to stop has a Shutdown that
  waits for the process on the struct (`Waited`).
- *SessionsKeepTheirPosition*: all lists rendered since the process started, in
  the core or on their way to it (`Copies`), agree pairwise on who has a
  position, and the table is at least as long as each of them, so a new position
  is new to all (`Positions`). The table is emptied only when no list and no
  session is left (`Beginning`), which is where `StartIsAlone` is needed.
- *Xray*: nine conjuncts, one per concern. `Exclusion` says that stop to launch
  and stop to close are one section of `x.mu`, `Children` that the one process
  without a kill is the core's, and that there is none between a stop and a
  launch. `FullSync` says that a full sync leaves the committed configuration
  alone and goes back to it once it has failed. `Delivery` and `Answering` follow
  the changes and calls still due; `Serving` says that the live process, and the
  bytes the next one will read, agree with their configuration about every user
  with no call due or missed, and `Running` which configuration that is.
- *Host*: what a core's start or shutdown has done at each of its steps
  (`Routing`, `Clamping`, `Listing`), and that the reference count of charon is
  the number of the cores between acquire and release (`Counting`). A core's
  steps touch only what carries its tag, except for the table and charon.

- *XrayConfig*: the accounts of an inbound are a function of what the panel last
  said of each user (`AccountsAgree`); a batch, and a batch of one, overlay that
  function just as a full sync of the overlaid users builds it
  (`BatchIsPartOfSync`, `OneUserIsABatch`), which needs that the 2022 check does
  nothing to a key that passed it (`AccountIsChecked`). For `ApplyAPI`, the loop
  of `filterRules` passes over the rules the node put in front and keeps the
  others as they are (`FilterDropsPrefix`).
- *Sums*: the library adds up a function by choosing an order of its arguments.
  `OpenVPNProofs` first proves, for every function of finite domain, that the
  sum is there and does not depend on the order (`FoldIsSum`), that sums add
  (`SumAdd`) and that terms may be renamed and zeros left out (`SumVia`). The
  induction is first-order: the subsets for which a fact fails, if there were
  any, would have a smallest one, and the set of them stands in for the
  predicate that the library's induction rules would take.
- *CutOff* needs to know what a verdict under way was given on and what the
  reader of events still has to learn (`Verdict`, `Queued`) for OpenVPN; that a
  file names the session of its interface and `chap-secrets` nobody the store
  lacks unless a sync is on its way to rewrite it or has left it out of date
  (`FilesMatch`, `SecretsMatch`) for L2TP.
- *OpenVPNBalances*: the invariant is about a list `I` of the sessions not
  settled, which no variable holds: some `I` exists (`Books`) that names each
  session once (`Tells`). The snapshots on their way show less than its totals
  and never run back (`Listed`, `Chain`), a base is below every snapshot and
  total still to come (`Bases`), and a poll that answers late lists no session
  of the new connection (`Late`). Then every difference the poll takes is one a
  session still owes, and the sum over `I` stays what is owed.
- *L2TPBalances*: sessions are numbered, so sums over interfaces, records and
  live sessions all become sums over `1..sessions`, compared term by term.
  `Stages` and `Records` say which files a session has at each stage of its
  hooks, so that it owes once; `ReadLive` and `ReadRecs` that what a poll has
  read still names the right sessions though they have gone on since;
  `ReadCounted` that a session of which something was counted is among those
  the poll has read; `NotTooMuch` that none is ahead of its counter, which is
  what makes the poll's differences natural numbers. A settling that `SetOff`
  does not name adds for each session what it stops owing (`SessionSettled`).
- *SingBoxBalances*: what a reading adds depends on the readings before it, so
  folding one moves bytes from one term to the next (`KnownIn`, `SumIn`); folded
  in the order they were taken the sum telescopes, and in another order the
  exception of the property is set.

Only model-checked are the liveness properties (`SilentClientIsDisconnected`,
`RequestsReturn`, `CrashIsRepaired`, `ShutdownReturns`, `ChangesReachTheCore`,
`OutageIsRepaired`, `SyncReturns`): fairness and ENABLED are out of the prover's
reach. Every invariant and action property of the runs is a theorem, under the
conditions named above.

## Not modelled

- Generated code, parsing and writing of configuration, logging, system
  statistics, TLS and files: no state of the program's own, or formatting.
- Chunked updates: a loop that concatenates by index is its own definition.
- Interface creation, and interface totals (`InterfaceCountersTracker.Delta`):
  one goroutine, and nobody is billed by them.
- The command lines of `ip`, `nft` and `swanctl` are reduced to the rules they
  leave behind; a command that fails in the middle of a core's rules, which the
  code logs and passes over, is left out.
- Restart and Shutdown of one OpenVPN core at the same time, or two Restarts:
  the core has no lock against it. Restart is reached through
  UpdateUsersAndRestart only, which no request handler calls.
- Lines the reader of an OpenVPN management connection has buffered when Restart
  closes it: in the model it has settled them before that, or never does; in the
  code it may settle them a moment later.
- A call to `clash_api` that times out and is carried out later than its answer
  was given up on: in the model it is carried out at once or not at all.
- What Xray itself makes of a client without a flow in an inbound that has one.
- A killed openvpn or xl2tpd that outlives the 5 s its Shutdown waits, and the
  channel that its late exit closes a second time.
- Log channels, which a line may be sent to after Shutdown has closed them, and
  the closure of an L2TP core that a failed Restart leaves to be called twice.
- L2TP users whose email and CHAP name differ: a removal is keyed by the one, an
  addition by the other.
- What WireGuard peers moved between the last poll and a ReplacePeers that
  restarts their counters: nothing read it, so nothing can be said of it.
- Counters of an Xray core that restarts before they are read, and statistics
  requests in general: they pass through to the core.
