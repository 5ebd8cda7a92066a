------------------------------- MODULE OpenVPN -------------------------------
(***************************************************************************)
(* One OpenVPN server of the node: the allow-list a sync changes, the      *)
(* management connection over which the node admits and kills clients, the *)
(* poll that turns the daemon's per-client counters into per-user totals,  *)
(* and Restart, which replaces daemon and connection.                      *)
(*                                                                         *)
(* The reader goroutine, the poll and the syncs interleave at every lock   *)
(* and every send. The daemon carries out a command as it is sent: its     *)
(* events queue up for the reader, so a longer way of the command would    *)
(* only make the events later. rx and tx are treated alike, one counter    *)
(* stands for both. The sessions map of userStore is written and never     *)
(* read, and is left out.                                                  *)
(***************************************************************************)
EXTENDS Integers, FiniteSets, SequencesExt

CONSTANTS
    Users,      \* common names
    Certs,      \* serials of the clients' certificates
    Pins,       \* what the panel sends for a user: a serial, AnySerial or Denied
    AnySerial,  \* an entry that pins no serial
    Denied,     \* not in the allow-list
    Cids,       \* 0..n: client ids, given out anew by every daemon
    MaxClients, \* bound on the clients that ever connect
    Requests,   \* concurrent syncs
    MaxBytes,   \* bound on a client's counter
    MaxQueue,   \* bound on the events unread when a sync, a poll or a renegotiation begins
    MaxRestarts,
    Faults      \* "timeout", "crash", "launch", "connect", "kill"

VARIABLES
    allow,      \* users.users: the pinned serial of every user let in
    daemon,     \* the openvpn process: "up" or "down"
    client,     \* its clients by id
    nextCid,
    connects,   \* clients so far
    link,       \* o.mgmt is connected to a live daemon
    toNode,     \* events the reader has not read
    reader,     \* the reader's verdict on its way to send
    kills,      \* for every sync the users it still has to kill
    lastStatus, \* m.lastStatus: the last complete snapshot, id to user and bytes
    ready,      \* m.statusReady
    poll,       \* collectStats: "idle", "wait" or, with its client closed, "late"
    snap,       \* the snapshot of a closed client, which a late poll returns
    seen,       \* o.sessionSeen: the bytes counted of every client id
    ended,      \* o.endedSessions
    cum,        \* o.cnCumulative
    restart,    \* where Restart is
    restarts,
    life,       \* o.state
    owed,       \* what each user has moved, less what a dying daemon took with it
    spared,     \* users whose serial a full sync changed, which kills nobody
    disturbed   \* an id was counted under after its session was settled

daemonVars == <<daemon, client, nextCid, connects>>
mgmtVars == <<link, toNode, reader, lastStatus, ready>>
bookVars == <<poll, snap, seen, ended, cum>>
lifeVars == <<restart, restarts, life>>
ghosts == <<owed, disturbed>>
vars == <<allow, kills, spared, daemonVars, mgmtVars, bookVars, lifeVars, ghosts>>

None == <<>>
NoClients == [c \in {} |-> 0]
Without(f, S) == [x \in DOMAIN f \ S |-> f[x]]
With(f, x, v) == [y \in DOMAIN f \cup {x} |-> IF y = x THEN v ELSE f[y]]
Zero == [u \in Users |-> 0]

(* New: the allow-list is seeded before the daemon takes clients; the      *)
(* management connection stands and the poll loop runs when it returns.    *)
Init ==
    /\ allow \in [Users -> Pins]
    /\ daemon = "up" /\ client = NoClients /\ nextCid = 0 /\ connects = 0
    /\ link = TRUE /\ toNode = <<>> /\ reader = None
    /\ kills = [r \in Requests |-> {}]
    /\ lastStatus = NoClients /\ ready = FALSE
    /\ poll = "idle" /\ snap = NoClients
    /\ seen = NoClients /\ ended = <<>> /\ cum = Zero
    /\ restart = "no" /\ restarts = 0 /\ life = "running"
    /\ owed = Zero /\ spared = {} /\ disturbed = FALSE
-----------------------------------------------------------------------------
(***************************************************************************)
(* The allow-list and the syncs. The store changes first, the kills follow *)
(* one by one.                                                             *)
(***************************************************************************)
(* authorizedLocked.                                                       *)
Authorized(u, serial) == allow[u] # Denied /\ allow[u] \in {AnySerial, serial}

(* send: what is written to a closed or dead connection goes nowhere.      *)
Heard == link /\ daemon = "up"

(* Clients go, with their totals in the event.                             *)
Closing(S) == LET ids == SetToSeq(S)
              IN  [k \in DOMAIN ids |-> [type |-> "disconnect", cid |-> ids[k],
                                         cn |-> client[ids[k]].cn, bytes |-> client[ids[k]].bytes]]
Gone(S) ==
    /\ client' = Without(client, S)
    /\ toNode' = toNode \o Closing(S)

Room == Len(toNode) < MaxQueue
Idle(r) == kills[r] = {} /\ life = "running" /\ Room

(* applyUser: a removed user, and one whose serial changed, is killed. The *)
(* mutant kills the removed one only.                                      *)
Evicted(u, pin) == allow[u] # Denied /\ allow[u] # pin
EvictedRemovedOnly(u, pin) == allow[u] # Denied /\ pin = Denied
ApplyUserRemovedOnly(r, u, pin) ==
    /\ Idle(r)
    /\ allow' = [allow EXCEPT ![u] = pin]
    /\ kills' = [kills EXCEPT ![r] = IF EvictedRemovedOnly(u, pin) THEN {u} ELSE {}]
    /\ UNCHANGED <<spared, daemonVars, mgmtVars, bookVars, lifeVars, ghosts>>
ApplyUser(r, u, pin) ==
    /\ Idle(r)
    /\ allow' = [allow EXCEPT ![u] = pin]
    /\ kills' = [kills EXCEPT ![r] = IF Evicted(u, pin) THEN {u} ELSE {}]
    /\ spared' = IF Evicted(u, pin) THEN spared \ {u} ELSE spared
    /\ UNCHANGED <<daemonVars, mgmtVars, bookVars, lifeVars, ghosts>>

(* replaceAll returns the users that are gone, and those only.             *)
Removed(new) == {u \in Users : allow[u] # Denied /\ new[u] = Denied}
Reissued(new) == {u \in Users : Denied \notin {allow[u], new[u]} /\ allow[u] # new[u]}

SyncUsers(r, new) ==
    /\ Idle(r)
    /\ allow' = new
    /\ kills' = [kills EXCEPT ![r] = Removed(new)]
    /\ spared' = (spared \cup Reissued(new)) \ Removed(new)
    /\ UNCHANGED <<daemonVars, mgmtVars, bookVars, lifeVars, ghosts>>

(* kill ends every client of the name, the ones not yet admitted too.      *)
Kill(r, u) ==
    /\ u \in kills[r]
    /\ kills' = [kills EXCEPT ![r] = @ \ {u}]
    /\ Gone({c \in DOMAIN client : Heard /\ client[c].cn = u})
    /\ UNCHANGED <<allow, spared, daemon, nextCid, connects, link, reader, lastStatus, ready,
                   bookVars, lifeVars, ghosts>>
-----------------------------------------------------------------------------
(***************************************************************************)
(* The reader goroutine: handleLine, one complete event at a time.         *)
(***************************************************************************)
Event(type) == reader = None /\ toNode # <<>> /\ Head(toNode).type = type

(* finishConnect: the verdict is taken under the store's lock and sent     *)
(* after it, for a new client and for a renegotiation alike.               *)
FinishConnect ==
    /\ Event("connect")
    /\ LET e == Head(toNode)
       IN  reader' = [type |-> IF Authorized(e.cn, e.serial) THEN "auth" ELSE "deny", cid |-> e.cid]
    /\ toNode' = Tail(toNode)
    /\ UNCHANGED <<allow, kills, spared, daemonVars, link, lastStatus, ready,
                   bookVars, lifeVars, ghosts>>

(* client-auth-nt and client-deny, of a client that may be gone by now.    *)
Admitted(id) == [c \in DOMAIN client |-> IF c = id THEN [client[c] EXCEPT !.st = "up"] ELSE client[c]]
SendVerdict ==
    /\ reader # None
    /\ IF reader.type = "deny"
       THEN Gone({c \in DOMAIN client : Heard /\ c = reader.cid})
       ELSE client' = (IF Heard THEN Admitted(reader.cid) ELSE client) /\ UNCHANGED toNode
    /\ reader' = None
    /\ UNCHANGED <<allow, kills, spared, daemon, nextCid, connects, link, lastStatus, ready,
                   bookVars, lifeVars, ghosts>>

(* finishDisconnect queues the final totals (recordSessionEnd).            *)
FinishDisconnect ==
    /\ Event("disconnect")
    /\ ended' = Append(ended, Head(toNode))
    /\ toNode' = Tail(toNode)
    /\ UNCHANGED <<allow, kills, spared, daemonVars, link, reader, lastStatus, ready,
                   poll, snap, seen, cum, lifeVars, ghosts>>

PublishStatus ==
    /\ Event("status")
    /\ lastStatus' = Head(toNode).rows
    /\ ready' = TRUE
    /\ toNode' = Tail(toNode)
    /\ UNCHANGED <<allow, kills, spared, daemonVars, link, reader, bookVars, lifeVars, ghosts>>
-----------------------------------------------------------------------------
(***************************************************************************)
(* collectStats.                                                           *)
(***************************************************************************)
(* requestStatus drains the signal and asks; the reply lists the clients   *)
(* admitted.                                                               *)
Rows == LET up == {c \in DOMAIN client : client[c].st = "up"}
        IN  [c \in up |-> [cn |-> client[c].cn, bytes |-> client[c].bytes]]
RequestStatus ==
    /\ poll = "idle" /\ life = "running" /\ Room
    /\ ready' = FALSE
    /\ toNode' = IF Heard THEN Append(toNode, [type |-> "status", rows |-> Rows]) ELSE toNode
    /\ poll' = "wait"
    /\ UNCHANGED <<allow, kills, spared, daemonVars, link, reader, lastStatus,
                   snap, seen, ended, cum, lifeVars, ghosts>>

(* The growth of a row: all of it for a new id, and for one that runs back. *)
RowGrowth(rows, c) ==
    LET b == rows[c].bytes
    IN  IF c \in DOMAIN seen /\ seen[c] <= b THEN b - seen[c] ELSE b

Based(rows) == [c \in DOMAIN seen \cup DOMAIN rows |->
                   IF c \in DOMAIN rows THEN rows[c].bytes ELSE seen[c]]

(* foldEndedSessionsLocked: an ended session against the base its id has   *)
(* after the rows; the base is deleted, so a second session of the same id *)
(* in the queue counts in full. A negative growth bills nothing.           *)
FinalGrowth(base, k) ==
    LET fin == ended[k]
        first == \A j \in 1..k-1 : ended[j].cid # fin.cid
    IN  IF first /\ fin.cid \in DOMAIN base
        THEN IF fin.bytes < base[fin.cid] THEN 0 ELSE fin.bytes - base[fin.cid]
        ELSE fin.bytes
FoldEnded(rows) == [k \in DOMAIN ended |-> FinalGrowth(Based(rows), k)]

Growth(rows, u) ==
    LET fin == FoldEnded(rows)
    IN  SumFunction([c \in DOMAIN rows |-> IF rows[c].cn = u THEN RowGrowth(rows, c) ELSE 0])
        + SumFunction([k \in DOMAIN ended |-> IF ended[k].cn = u THEN fin[k] ELSE 0])

EndedCids == {ended[k].cid : k \in DOMAIN ended}
Unread == {k \in DOMAIN toNode : toNode[k].type = "disconnect"}
Open == DOMAIN client \cup EndedCids \cup {toNode[k].cid : k \in Unread}

(* The rows are the fresh reply's or, after 5 s, those of the reply before; *)
(* bases without a row are dropped, and the queue is empty afterwards.     *)
Collect ==
    /\ poll \in {"wait", "late"}
    /\ poll = "wait" /\ link /\ daemon = "up" /\ "timeout" \notin Faults => ready
    /\ LET rows == IF poll = "late" THEN snap ELSE lastStatus
       IN  /\ cum' = [u \in Users |-> cum[u] + Growth(rows, u)]
           /\ seen' = [c \in DOMAIN rows \ EndedCids |-> rows[c].bytes]
           /\ disturbed' = (disturbed \/ ~(DOMAIN rows \subseteq Open))
    /\ ended' = <<>>
    /\ ready' = IF poll = "late" THEN ready ELSE FALSE
    /\ poll' = "idle" /\ snap' = NoClients
    /\ UNCHANGED <<allow, kills, spared, daemonVars, link, toNode, reader, lastStatus,
                   lifeVars, owed>>
-----------------------------------------------------------------------------
(***************************************************************************)
(* Restart and Shutdown.                                                   *)
(***************************************************************************)
(* What is still to be counted of the sessions: of the daemon's clients,   *)
(* of those whose end the node has heard of, and whose end it will hear of. *)
Base(c) == IF c \in DOMAIN seen THEN seen[c] ELSE 0
OfClients(u) ==
    SumFunction([c \in DOMAIN client |-> IF client[c].cn = u THEN client[c].bytes - Base(c) ELSE 0])
OfEnded(u) ==
    SumFunction([k \in DOMAIN ended |-> IF ended[k].cn = u THEN ended[k].bytes - Base(ended[k].cid) ELSE 0])
OfUnread(u) ==
    SumFunction([k \in Unread |-> IF toNode[k].cn = u THEN toNode[k].bytes - Base(toNode[k].cid) ELSE 0])

(* A process that ends of SIGTERM reports its clients; one that is killed  *)
(* or crashes does not.                                                    *)
DaemonEnds(reports) ==
    /\ daemon' = "down" /\ client' = NoClients
    /\ IF reports /\ link
       THEN toNode' = toNode \o Closing(DOMAIN client) /\ UNCHANGED owed
       ELSE owed' = [u \in Users |-> owed[u] - OfClients(u)] /\ UNCHANGED toNode
    /\ UNCHANGED <<nextCid, connects>>

UpdateUsersAndRestart(new) ==
    /\ restart = "no" /\ life = "running" /\ restarts < MaxRestarts
    /\ allow' = new
    /\ restart' = "stop" /\ restarts' = restarts + 1
    /\ UNCHANGED <<kills, spared, daemonVars, mgmtVars, bookVars, life, ghosts>>

StopProcess(reports) ==
    /\ restart = "stop"
    /\ reports \/ "kill" \in Faults
    /\ DaemonEnds(reports)
    /\ spared' = {}
    /\ restart' = "start"
    /\ UNCHANGED <<allow, kills, link, reader, lastStatus, ready, bookVars, restarts, life, disturbed>>

(* startProcess. When it fails Restart returns, and the old management     *)
(* client stays.                                                           *)
StartProcess(ok) ==
    /\ restart = "start"
    /\ ok \/ "launch" \in Faults
    /\ IF ok THEN daemon' = "up" /\ nextCid' = 0 /\ restart' = "connect" ELSE restart' = "no" /\ UNCHANGED <<daemon, nextCid>>
    /\ link' = FALSE
    /\ UNCHANGED <<allow, kills, spared, client, connects, toNode, reader, lastStatus, ready,
                   bookVars, restarts, life, ghosts>>

(* The old client is closed with what it has not read, a poll that waits   *)
(* on it will time out, and the new client starts with no snapshot.        *)
Reconnect(ok) ==
    /\ restart = "connect"
    /\ ok \/ "connect" \in Faults
    /\ link' = ok /\ toNode' = <<>> /\ reader' = None
    /\ lastStatus' = NoClients /\ ready' = FALSE
    /\ poll' = IF poll = "wait" THEN "late" ELSE poll
    /\ snap' = IF poll = "wait" THEN lastStatus ELSE snap
    /\ owed' = [u \in Users |-> owed[u] - OfUnread(u)]
    /\ restart' = "no"
    /\ UNCHANGED <<allow, kills, spared, daemonVars, seen, ended, cum, restarts, life,
                   disturbed>>

(* Shutdown stops the poll loop, closes the connection and ends the daemon; *)
(* the controller then drops the object, and its fields with it.           *)
Shutdown ==
    /\ life = "running" /\ restart = "no"
    /\ life' = "stopped"
    /\ daemon' = "down" /\ client' = NoClients /\ link' = FALSE
    /\ toNode' = <<>> /\ reader' = None
    /\ kills' = [r \in Requests |-> {}] /\ spared' = {}
    /\ lastStatus' = NoClients /\ ready' = FALSE /\ poll' = "idle" /\ snap' = NoClients
    /\ seen' = NoClients /\ ended' = <<>>
    /\ UNCHANGED <<allow, nextCid, connects, cum, restart, restarts, ghosts>>
-----------------------------------------------------------------------------
(***************************************************************************)
(* The daemon and its clients. A client is pending until it is admitted.   *)
(***************************************************************************)
Free == UNCHANGED <<allow, kills, spared, lifeVars, bookVars>>

(* A client completes its handshake and is announced. An id that a daemon  *)
(* before gave out may still have a base or a final total on the node.     *)
ClientConnects(u, serial) ==
    /\ daemon = "up" /\ link /\ nextCid \in Cids /\ connects < MaxClients
    /\ client' = With(client, nextCid, [cn |-> u, serial |-> serial, st |-> "pending", bytes |-> 0])
    /\ toNode' = Append(toNode, [type |-> "connect", cid |-> nextCid, cn |-> u, serial |-> serial])
    /\ nextCid' = nextCid + 1 /\ connects' = connects + 1
    /\ disturbed' = (disturbed \/ nextCid \in DOMAIN seen \cup EndedCids \cup DOMAIN snap)
    /\ UNCHANGED <<daemon, link, reader, lastStatus, ready, owed>> /\ Free

(* REAUTH: a renegotiation asks again.                                     *)
ClientReauths(c) ==
    /\ c \in DOMAIN client /\ client[c].st = "up" /\ Room
    /\ ~\E k \in DOMAIN toNode : toNode[k].type = "connect" /\ toNode[k].cid = c
    /\ toNode' = Append(toNode, [type |-> "connect", cid |-> c, cn |-> client[c].cn, serial |-> client[c].serial])
    /\ UNCHANGED <<daemonVars, link, reader, lastStatus, ready, ghosts>> /\ Free

ClientMoves(c) ==
    /\ c \in DOMAIN client /\ client[c].st = "up" /\ client[c].bytes < MaxBytes
    /\ client' = [client EXCEPT ![c].bytes = @ + 1]
    /\ owed' = [owed EXCEPT ![client[c].cn] = @ + 1]
    /\ UNCHANGED <<daemon, nextCid, connects, mgmtVars, disturbed>> /\ Free

ClientLeaves(c) ==
    /\ c \in DOMAIN client /\ link
    /\ Gone({c})
    /\ UNCHANGED <<daemon, nextCid, connects, link, reader, lastStatus, ready, ghosts>> /\ Free

(* The daemon dies. Nothing starts it again but Restart.                   *)
Crash ==
    /\ daemon = "up" /\ "crash" \in Faults /\ restart = "no"
    /\ DaemonEnds(FALSE)
    /\ UNCHANGED <<link, reader, lastStatus, ready, disturbed>> /\ Free
-----------------------------------------------------------------------------
Next ==
    \/ \E r \in Requests : \/ \E u \in Users, pin \in Pins : ApplyUser(r, u, pin)
                           \/ \E new \in [Users -> Pins] : SyncUsers(r, new)
                           \/ \E u \in Users : Kill(r, u)
    \/ FinishConnect \/ SendVerdict \/ FinishDisconnect \/ PublishStatus
    \/ RequestStatus \/ Collect
    \/ \E new \in [Users -> Pins] : UpdateUsersAndRestart(new)
    \/ \E ok \in BOOLEAN : StopProcess(ok) \/ StartProcess(ok) \/ Reconnect(ok)
    \/ Shutdown
    \/ \E u \in Users, serial \in Certs : ClientConnects(u, serial)
    \/ \E c \in Cids : ClientReauths(c) \/ ClientMoves(c) \/ ClientLeaves(c)
    \/ Crash

Spec == Init /\ [][Next]_vars
-----------------------------------------------------------------------------
(* A session the allow-list no longer covers is being ended: a sync is yet *)
(* to kill it, or the daemon is about to be stopped. This is so though a   *)
(* verdict may be overtaken by the removal of its user, and though what is *)
(* sent to a connection that Restart closes is lost. A serial changed by a *)
(* full sync is the exception: the old session lives until it renegotiates. *)
CutOff ==
    \A c \in DOMAIN client :
        LET u == client[c].cn
        IN  client[c].st = "up" /\ ~Authorized(u, client[c].serial) =>
                (\E r \in Requests : u \in kills[r]) \/ restart = "stop" \/ u \in spared

(* Every byte is counted once: what a user has moved is counted, still to  *)
(* be counted, or was lost with a daemon that could not report it. Rows    *)
(* and final totals of one session overlap in any order, polls time out,   *)
(* sessions end between request and reply. The exceptions are an old       *)
(* snapshot that lists a session already settled and a new daemon that     *)
(* gives out an id the node still holds counters of.                       *)
BooksBalance ==
    life = "running" /\ ~disturbed =>
        \A u \in Users : cum[u] + OfClients(u) + OfEnded(u) + OfUnread(u) = owed[u]
=============================================================================
