-------------------------------- MODULE L2TP --------------------------------
(***************************************************************************)
(* One L2TP core of the node. xl2tpd starts a pppd for every client; its   *)
(* ip-up and ip-down hooks leave files, and the node knows of sessions by  *)
(* these files alone: a poll bills from them, a sync kills by them. The    *)
(* interface name that keys everything is handed on to the next client.    *)
(*                                                                         *)
(* One counter stands for rx and tx. A session's number n tells sessions   *)
(* of one interface apart; the code does not see it.                       *)
(***************************************************************************)
EXTENDS Integers, FiniteSets, SequencesExt

CONSTANTS
    Users,        \* CHAP user names
    Ifs,          \* 0..n: ppp interfaces
    Requests,     \* concurrent syncs
    MaxSessions,  \* bound on the sessions ever
    MaxBytes,     \* bound on a session's counter
    MaxRestarts,
    Faults        \* "kill": a pppd dies without its hook; "launch": start fails;
                  \* "write": a sync cannot write chap-secrets

VARIABLES
    allow,        \* o.users: the names with credentials for this core
    secrets,      \* the core's lines in chap-secrets
    ppp,          \* the pppd of every interface, NoPPP when there is none
    sessions,     \* sessions so far
    file,         \* sessionStateDir: what the ip-up hook wrote
    finals,       \* sessionFinalDir: the records of ended sessions
    job,          \* the syncs
    poll,         \* the poll: "idle", "sessions" or "finals"
    live,         \* the sessions it has read
    recs,         \* the final records it has read, in the order it settles them
    ifSeen,       \* o.ifSeen: the bytes counted of every interface
    cum,          \* o.cumRx and o.cumTx
    life,         \* o.state, or "restart" between Shutdown and start
    restarts,
    owed,         \* what each user has moved, less what a killed pppd took along
    torn,         \* sessions whose final record was deleted half-written
    missed,       \* sessions a sync could not kill: they had no file yet
    outdated,     \* users an overtaken or failed sync left in chap-secrets
    disturbed     \* bytes were set off against another session's

pppVars == <<ppp, sessions, file, finals>>
pollVars == <<poll, live, recs, ifSeen, cum>>
lifeVars == <<life, restarts>>
vars == <<allow, secrets, job, pppVars, pollVars, lifeVars, owed, torn, missed, outdated, disturbed>>

NoPPP == [st |-> "none", user |-> "", n |-> 0, bytes |-> 0, dev |-> FALSE]
NoFile == [user |-> "", n |-> 0]
NoJob == [pc |-> "idle", new |-> {}, revoked |-> {}]
Nothing == [i \in {} |-> 0]

(* New: the store is seeded and chap-secrets written before xl2tpd runs.   *)
Init ==
    /\ allow \in SUBSET Users /\ secrets = allow
    /\ ppp = [i \in Ifs |-> NoPPP] /\ sessions = 0
    /\ file = [i \in Ifs |-> NoFile] /\ finals = {}
    /\ job = [r \in Requests |-> NoJob]
    /\ poll = "idle" /\ live = {} /\ recs = <<>> /\ ifSeen = Nothing
    /\ cum = [u \in Users |-> 0]
    /\ life = "running" /\ restarts = 0
    /\ owed = [u \in Users |-> 0] /\ torn = {} /\ missed = {} /\ outdated = {} /\ disturbed = FALSE
-----------------------------------------------------------------------------
(***************************************************************************)
(* The session files. readSessions leaves out, and deletes, the files of   *)
(* pppds that are gone.                                                    *)
(***************************************************************************)
SessionIsAlive(i) == file[i] # NoFile /\ ppp[i].n = file[i].n
ReadSessions == {i \in Ifs : SessionIsAlive(i)}
Swept == [i \in Ifs |-> IF SessionIsAlive(i) THEN file[i] ELSE NoFile]
-----------------------------------------------------------------------------
(***************************************************************************)
(* The syncs: the store, then chap-secrets, then the sessions of those who *)
(* are gone from the store.                                                *)
(***************************************************************************)
Change(r, new) ==
    /\ job[r].pc = "idle" /\ life = "running"
    /\ allow' = new
    /\ job' = [job EXCEPT ![r] = [pc |-> "snapshot", new |-> {}, revoked |-> allow \ new]]
    /\ UNCHANGED <<secrets, pppVars, pollVars, lifeVars, owed, torn, missed, outdated, disturbed>>

(* applyUsers and SyncUsers                                                *)
ApplyUser(r, u, add) == Change(r, IF add THEN allow \cup {u} ELSE allow \ {u})
SyncUsers(r, new) == Change(r, new)

(* writeChapSecrets takes a snapshot of the store under its lock and       *)
(* writes the file without it.                                             *)
Snapshot(r) ==
    /\ job[r].pc = "snapshot"
    /\ job' = [job EXCEPT ![r].pc = "write", ![r].new = allow]
    /\ UNCHANGED <<allow, secrets, pppVars, pollVars, lifeVars, owed, torn, missed, outdated, disturbed>>

(* A write that fails leaves the file as it was or cut short; the sync     *)
(* kills all the same, and returns the error after it.                     *)
WriteChapSecrets(r) ==
    /\ job[r].pc = "write"
    /\ \/ secrets' = job[r].new
       \/ "write" \in Faults /\ secrets' \in {secrets} \cup SUBSET job[r].new
    /\ outdated' = secrets' \ allow
    /\ job' = [job EXCEPT ![r].pc = "kill"]
    /\ UNCHANGED <<allow, pppVars, pollVars, lifeVars, owed, torn, missed, disturbed>>

(* killSessions signals the pppds whose files name a revoked user.         *)
KillSessions(r) ==
    /\ job[r].pc = "kill"
    /\ LET of == {i \in Ifs : ppp[i].st # "none" /\ ppp[i].user \in job[r].revoked}
           hit == {i \in ReadSessions : file[i].user \in job[r].revoked}
       IN  /\ ppp' = [i \in Ifs |-> IF i \in hit /\ ppp[i].st = "up"
                                    THEN [ppp[i] EXCEPT !.st = "term"] ELSE ppp[i]]
           /\ missed' = missed \cup {ppp[i].n : i \in of \ hit}
    /\ file' = IF job[r].revoked = {} THEN file ELSE Swept
    /\ job' = [job EXCEPT ![r] = NoJob]
    /\ UNCHANGED <<allow, secrets, sessions, finals, pollVars, lifeVars, owed, torn, outdated, disturbed>>
-----------------------------------------------------------------------------
(***************************************************************************)
(* The poll. Files, final records and counters are read one after another  *)
(* while sessions come and go.                                             *)
(***************************************************************************)
PollSessions ==
    /\ poll = "idle" /\ life = "running"
    /\ live' = {[if |-> i, user |-> file[i].user, n |-> file[i].n] : i \in ReadSessions}
    /\ file' = Swept
    /\ poll' = "sessions"
    /\ UNCHANGED <<allow, secrets, ppp, sessions, finals, job, recs, ifSeen, cum, lifeVars,
                   owed, torn, missed, outdated, disturbed>>

(* What the node has counted of session n on interface i.                  *)
Counted(i, n) == IF i \in DOMAIN ifSeen /\ ifSeen[i].n = n THEN ifSeen[i].bytes ELSE 0

(* readFinalRecords: a record the hook is still writing is deleted as      *)
(* truncated. Paths sort as text, which puts the records of an interface   *)
(* in any order of their sessions.                                         *)
Orders(S) == {f \in [1..Cardinality(S) -> S] : \A x \in S : \E k \in DOMAIN f : f[k] = x}
PollFinals ==
    /\ poll = "sessions"
    /\ finals' = {x \in finals : x.whole}
    /\ torn' = torn \cup {x.n : x \in finals \ finals'}
    /\ recs' \in Orders(finals')
    /\ poll' = "finals"
    /\ UNCHANGED <<allow, secrets, ppp, sessions, file, job, live, ifSeen, cum, lifeVars,
                   owed, missed, outdated, disturbed>>

(* A final record counts against the interface's baseline, the first of an *)
(* interface only: the baseline is deleted with it. The mutant counts the  *)
(* record in full.                                                         *)
First(k) == \A j \in 1..k-1 : recs[j].if # recs[k].if
FinalGrowthInFull(k) == recs[k].bytes
FinalGrowth(k) ==
    LET x == recs[k]
    IN  IF First(k) /\ x.if \in DOMAIN ifSeen
        THEN IF x.bytes < ifSeen[x.if].bytes THEN 0 ELSE x.bytes - ifSeen[x.if].bytes
        ELSE x.bytes

(* Live sessions are measured after that, against a baseline the finals    *)
(* may have deleted; an interface that is gone reads as zero, and a        *)
(* counter that ran back counts in full.                                   *)
IfaceBytes(i) == IF ppp[i].dev THEN ppp[i].bytes ELSE 0
RecIfs == {recs[k].if : k \in DOMAIN recs}
Baseline(i) == IF i \in DOMAIN ifSeen /\ i \notin RecIfs THEN ifSeen[i].bytes ELSE 0
LiveGrowth(s) ==
    LET b == IfaceBytes(s.if)
    IN  IF b < Baseline(s.if) THEN b ELSE b - Baseline(s.if)

Growth(u) ==
    SumFunction([k \in {k \in DOMAIN recs : recs[k].user = u} |-> FinalGrowth(k)])
    + SumFunction([s \in {s \in live : s.user = u} |-> LiveGrowth(s)])

(* The baselines afterwards: those of the live sessions only.              *)
Session(i) == CHOOSE s \in live : s.if = i
Seen == [i \in {s.if : s \in live} |-> [n |-> Session(i).n, bytes |-> IfaceBytes(i)]]

(* A final record is set off against another session's baseline; a live    *)
(* session is, or its record has been settled, or its interface is the     *)
(* next one's already; or its interface is gone, so that its baseline is   *)
(* zero when the record comes.                                             *)
Stranger(i, n) == i \in DOMAIN ifSeen /\ ifSeen[i].bytes > 0 /\ ifSeen[i].n # n
Settled == {recs[k] : k \in DOMAIN recs}
Due == torn \cup {x.n : x \in finals \ Settled}
SetOff ==
    \/ \E k \in DOMAIN recs : First(k) /\ Stranger(recs[k].if, recs[k].n)
    \/ \E s \in live :
        \/ s.if \notin RecIfs /\ Stranger(s.if, s.n)
        \/ ppp[s.if].dev /\ (ppp[s.if].n = s.n => ppp[s.if].st = "gone" /\ s.n \notin Due)
        \/ ~ppp[s.if].dev /\ s.n \in Due

(* The settled records are deleted.                                        *)
PollSettle ==
    /\ poll = "finals"
    /\ cum' = [u \in Users |-> cum[u] + Growth(u)]
    /\ ifSeen' = Seen
    /\ finals' = finals \ Settled
    /\ disturbed' = (disturbed \/ SetOff)
    /\ poll' = "idle" /\ live' = {} /\ recs' = <<>>
    /\ UNCHANGED <<allow, secrets, ppp, sessions, file, job, lifeVars, owed, torn, missed, outdated>>
-----------------------------------------------------------------------------
(***************************************************************************)
(* Shutdown and start, as UpdateUsersAndRestart and Shutdown call them.    *)
(***************************************************************************)
(* Shutdown kills xl2tpd, and the pppds it leaves hang up; the core's lines *)
(* are taken out of chap-secrets.                                          *)
HungUp == [i \in Ifs |-> IF ppp[i].st \in {"auth", "up"} THEN [ppp[i] EXCEPT !.st = "term"] ELSE ppp[i]]
Stop(new, next) ==
    /\ life = "running"
    /\ allow' = new
    /\ ppp' = HungUp
    /\ secrets' = {} /\ outdated' = {}
    /\ life' = next
    /\ UNCHANGED <<sessions, file, finals, job, pollVars, owed, torn, missed, disturbed>>
UpdateUsersAndRestart(new) ==
    /\ restarts < MaxRestarts
    /\ Stop(new, "restart") /\ restarts' = restarts + 1
Shutdown == Stop(allow, "stopped") /\ UNCHANGED restarts

(* start writes chap-secrets before anything that can fail.                *)
Start(ok) ==
    /\ life = "restart" /\ (~ok => "launch" \in Faults)
    /\ secrets' = allow
    /\ life' = IF ok THEN "running" ELSE "stopped"
    /\ outdated' = {}
    /\ UNCHANGED <<allow, job, pppVars, pollVars, restarts, owed, torn, missed, disturbed>>
-----------------------------------------------------------------------------
(***************************************************************************)
(* pppd and its hooks.                                                     *)
(***************************************************************************)
PPPStep == UNCHANGED <<allow, secrets, job, pollVars, lifeVars, torn, missed, outdated, disturbed>>
Put(i, p) == ppp' = [ppp EXCEPT ![i] = p]

WrittenOff(i) == [owed EXCEPT ![ppp[i].user] = @ - (ppp[i].bytes - Counted(i, ppp[i].n))]

(* A client authenticates against chap-secrets on the lowest free unit.    *)
Authenticate(i, u) ==
    /\ life = "running" /\ u \in secrets /\ sessions < MaxSessions
    /\ ppp[i] = NoPPP /\ \A j \in Ifs : j < i => ppp[j] # NoPPP
    /\ sessions' = sessions + 1
    /\ Put(i, [st |-> "auth", user |-> u, n |-> sessions + 1, bytes |-> 0, dev |-> TRUE])
    /\ missed' = IF u \in outdated THEN missed \cup {sessions + 1} ELSE missed
    /\ UNCHANGED <<allow, secrets, file, finals, job, pollVars, lifeVars, owed, torn, outdated, disturbed>>

(* The ip-up hook, which pppd runs once the link has an address.           *)
IpUp(i) ==
    /\ ppp[i].st = "auth"
    /\ file' = [file EXCEPT ![i] = [user |-> ppp[i].user, n |-> ppp[i].n]]
    /\ Put(i, [ppp[i] EXCEPT !.st = "up"])
    /\ UNCHANGED <<sessions, finals, owed>> /\ PPPStep

Moves(i) ==
    /\ ppp[i].st = "up" /\ ppp[i].bytes < MaxBytes
    /\ Put(i, [ppp[i] EXCEPT !.bytes = @ + 1])
    /\ owed' = [owed EXCEPT ![ppp[i].user] = @ + 1]
    /\ UNCHANGED <<sessions, file, finals>> /\ PPPStep

Leaves(i) ==
    /\ ppp[i].st \in {"auth", "up"}
    /\ Put(i, [ppp[i] EXCEPT !.st = "term"])
    /\ UNCHANGED <<sessions, file, finals, owed>> /\ PPPStep

(* The ip-down hook: the final record is created and then filled, the      *)
(* session file goes last. The interface may be gone by then, and the hook *)
(* takes pppd's totals. A session without a file leaves no record.         *)
Record(i, whole) == [if |-> i, user |-> ppp[i].user, n |-> ppp[i].n, bytes |-> ppp[i].bytes, whole |-> whole]
IpDown(i) ==
    /\ ppp[i].st = "term"
    /\ IF file[i].n = ppp[i].n
       THEN /\ finals' = finals \cup {Record(i, FALSE)}
            /\ \E dev \in BOOLEAN : Put(i, [ppp[i] EXCEPT !.st = "hook", !.dev = dev])
       ELSE Put(i, NoPPP) /\ UNCHANGED finals
    /\ UNCHANGED <<sessions, file, owed>> /\ PPPStep

(* A record the poll has deleted meanwhile is written to no one, and what  *)
(* no poll has read by the end is lost.                                    *)
IpDownWrites(i) ==
    /\ ppp[i].st = "hook"
    /\ finals' = IF Record(i, FALSE) \in finals
                 THEN (finals \ {Record(i, FALSE)}) \cup {Record(i, TRUE)} ELSE finals
    /\ Put(i, [ppp[i] EXCEPT !.st = "gone"])
    /\ UNCHANGED <<sessions, file, owed>> /\ PPPStep

IpDownCleans(i) ==
    /\ ppp[i].st = "gone"
    /\ file' = [file EXCEPT ![i] = NoFile]
    /\ owed' = IF ppp[i].n \in torn THEN WrittenOff(i) ELSE owed
    /\ Put(i, NoPPP)
    /\ UNCHANGED <<sessions, finals>> /\ PPPStep

(* A pppd dies at once, out of memory say: no hook runs, its file stays.   *)
Killed(i) ==
    /\ "kill" \in Faults /\ ppp[i].st = "up"
    /\ owed' = WrittenOff(i)
    /\ Put(i, NoPPP)
    /\ UNCHANGED <<sessions, file, finals>> /\ PPPStep
-----------------------------------------------------------------------------
Next ==
    \/ \E r \in Requests : \/ \E u \in Users, add \in BOOLEAN : ApplyUser(r, u, add)
                           \/ \E new \in SUBSET Users : SyncUsers(r, new)
                           \/ Snapshot(r) \/ WriteChapSecrets(r) \/ KillSessions(r)
    \/ PollSessions \/ PollFinals \/ PollSettle
    \/ \E new \in SUBSET Users : UpdateUsersAndRestart(new)
    \/ \E ok \in BOOLEAN : Start(ok)
    \/ Shutdown
    \/ \E i \in Ifs : \/ \E u \in Users : Authenticate(i, u)
                      \/ IpUp(i) \/ Moves(i) \/ Leaves(i) \/ Killed(i)
                      \/ IpDown(i) \/ IpDownWrites(i) \/ IpDownCleans(i)

Spec == Init /\ [][Next]_vars
-----------------------------------------------------------------------------
(* A session of a user who is gone from the store is being ended: a sync   *)
(* is yet to kill it, or its pppd is on its way down. chap-secrets has to  *)
(* change before the sessions are killed, or a client authenticates in     *)
(* between. Two windows are left: a session authenticated before the       *)
(* change and recorded after the kill, and one authenticated from a file   *)
(* a sync left out of date: its write failed, or it wrote an older         *)
(* snapshot over a newer one.                                              *)
CutOff ==
    \A i \in Ifs :
        ppp[i].st \in {"auth", "up"} /\ ppp[i].user \notin allow =>
            (\E r \in Requests : ppp[i].user \in job[r].revoked) \/ ppp[i].n \in missed

(* What is still to be counted of the sessions up, and of the ended ones   *)
(* whose record is waiting.                                                *)
Open == {i \in Ifs : ppp[i].st \in {"auth", "up", "term"} \/ ppp[i].n \in torn}
Owing == {Record(i, FALSE) : i \in Open} \cup finals
Uncounted(u) == SumFunction([x \in {x \in Owing : x.user = u} |-> x.bytes - Counted(x.if, x.n)])

(* Every byte is counted once: what a user has moved is counted, still to  *)
(* be counted, or lost with a pppd that could not report it, though        *)
(* interfaces are handed on and sessions end between any two polls. The    *)
(* exceptions are a session that ends while a poll reads, records of one   *)
(* interface that are settled in the wrong order, and an interface handed  *)
(* on by a killed pppd before a poll has forgotten its baseline.           *)
BooksBalance ==
    ~disturbed => \A u \in Users : cum[u] + Uncounted(u) = owed[u]
=============================================================================
