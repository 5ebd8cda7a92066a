--------------------------- MODULE SessionsProofs ---------------------------
(***************************************************************************)
(* Proofs about the backends that bill from the counters of a program      *)
(* beside them, for any users, sessions, bounds and faults: L2TP, the      *)
(* statistics of sing-box, and with OpenVPNProofs any one of the three.    *)
(***************************************************************************)
EXTENDS Sessions, OpenVPNProofs
-----------------------------------------------------------------------------
(***************************************************************************)
(* L2TP: who is cut off, and what is counted.                              *)
(***************************************************************************)
States == {"auth", "up", "term", "hook", "gone"}
PPPs == [st : States, user : Users, n : Nat \ {0}, bytes : Nat, dev : BOOLEAN]
Files == [user : Users, n : Nat \ {0}]
Jobs == [pc : {"idle", "snapshot", "write", "kill"}, new : SUBSET Users, revoked : SUBSET Users]

L2TPTypes ==
    /\ allow \in SUBSET Users
    /\ ppp \in [Ifs -> PPPs \cup {L2!NoPPP}]
    /\ sessions \in Nat
    /\ file \in [Ifs -> Files \cup {L2!NoFile}]
    /\ job \in [Requests -> Jobs]

(* A session's file names its user and is there no sooner than the ip-up   *)
(* hook has run; the number of a session is its own.                       *)
FilesMatch ==
    \A i \in Ifs :
        /\ file[i].n <= sessions /\ ppp[i].n <= sessions
        /\ file[i] # L2!NoFile /\ file[i].n = ppp[i].n => file[i].user = ppp[i].user /\ ppp[i].st # "auth"

(* Who can authenticate is in the store, or a sync that has taken them out *)
(* is yet to write chap-secrets, or one has left them in it.               *)
Writing == {r \in Requests : job[r].pc \in {"snapshot", "write"}}
SecretsMatch ==
    /\ \A u \in secrets : u \in allow \cup outdated \/ \E r \in Writing : u \in job[r].revoked
    /\ \A r \in Requests : job[r].pc = "idle" => job[r].revoked = {}

L2TPUsers == L2TPTypes /\ FilesMatch /\ SecretsMatch /\ L2!CutOff

LEMMA NoSession == L2!NoPPP.st = "none" /\ L2!NoPPP.n = 0 /\ L2!NoFile.n = 0 /\ L2!NoJob \in Jobs /\ L2!NoJob.revoked = {} /\ L2!NoJob.pc = "idle"
BY DEF L2!NoPPP, L2!NoFile, L2!NoJob, Jobs

LEMMA FieldTypes ==
    ASSUME L2TPTypes
    PROVE  /\ \A i \in Ifs : /\ ppp[i] \in PPPs \/ ppp[i] = L2!NoPPP
                             /\ ppp[i].n \in Nat /\ file[i].n \in Nat
                             /\ ppp[i] # L2!NoPPP => ppp[i].user \in Users /\ ppp[i].n > 0
                             /\ ppp[i].st # "none" => ppp[i] \in PPPs
                             /\ file[i] # L2!NoFile => file[i] \in Files /\ file[i].n > 0
           /\ \A r \in Requests : job[r] \in Jobs
<1>1. ASSUME NEW i \in Ifs
      PROVE  /\ ppp[i] \in PPPs \/ ppp[i] = L2!NoPPP
             /\ ppp[i].n \in Nat
             /\ ppp[i] # L2!NoPPP => ppp[i].user \in Users /\ ppp[i].n > 0
             /\ ppp[i].st # "none" => ppp[i] \in PPPs
  <2>1. ppp[i] \in PPPs \/ ppp[i] = L2!NoPPP
    BY DEF L2TPTypes
  <2> QED
    BY <2>1, NoSession DEF PPPs
<1>2. ASSUME NEW i \in Ifs
      PROVE  file[i].n \in Nat /\ (file[i] # L2!NoFile => file[i] \in Files /\ file[i].n > 0)
  <2>1. file[i] \in Files \/ file[i] = L2!NoFile
    BY DEF L2TPTypes
  <2> QED
    BY <2>1, NoSession DEF Files
<1> QED
  BY <1>1, <1>2 DEF L2TPTypes

(* A sync begins.                                                          *)
LEMMA ChangeStep ==
    ASSUME L2TPUsers, NEW r \in Requests, NEW new \in SUBSET Users, L2!Change(r, new)
    PROVE  L2TPUsers'
<1> DEFINE j == [pc |-> "snapshot", new |-> {}, revoked |-> allow \ new]
<1>1. /\ job[r].pc = "idle" /\ allow' = new /\ job' = [job EXCEPT ![r] = j]
      /\ UNCHANGED <<secrets, ppp, sessions, file, missed, outdated>>
  BY DEF L2!Change, L2!pppVars
<1>2. j \in Jobs /\ j.pc = "snapshot" /\ j.revoked = allow \ new
  BY DEF Jobs, L2TPUsers, L2TPTypes
<1> HIDE DEF j
<1>3. /\ job' \in [Requests -> Jobs] /\ job'[r] = j
      /\ \A q \in Requests \ {r} : job'[q] = job[q]
      /\ job[r].revoked = {}
  BY <1>1, <1>2 DEF L2TPUsers, L2TPTypes, SecretsMatch
<1>4. L2TPTypes' /\ FilesMatch'
  BY <1>1, <1>3 DEF L2TPUsers, L2TPTypes, FilesMatch
<1>5. SecretsMatch'
  BY <1>1, <1>2, <1>3 DEF L2TPUsers, SecretsMatch, Writing
<1>6. L2!CutOff'
  BY <1>1, <1>2, <1>3 DEF L2TPUsers, L2!CutOff
<1> QED
  BY <1>4, <1>5, <1>6 DEF L2TPUsers

LEMMA WriteStep ==
    ASSUME L2TPUsers, NEW r \in Requests, L2!Snapshot(r) \/ L2!WriteChapSecrets(r)
    PROVE  L2TPUsers'
<1>1. CASE L2!Snapshot(r)
  <2> DEFINE j == [job[r] EXCEPT !.pc = "write", !.new = allow]
  <2>1. /\ job' = [job EXCEPT ![r] = j] /\ job[r].pc = "snapshot"
        /\ UNCHANGED <<allow, secrets, ppp, sessions, file, missed, outdated>>
    BY <1>1 DEF L2!Snapshot, L2!pppVars
  <2>2. j \in Jobs /\ j.pc = "write" /\ j.revoked = job[r].revoked
    BY DEF Jobs, L2TPUsers, L2TPTypes
  <2> HIDE DEF j
  <2>3. /\ job' \in [Requests -> Jobs] /\ job'[r] = j
        /\ \A q \in Requests \ {r} : job'[q] = job[q]
    BY <2>1, <2>2 DEF L2TPUsers, L2TPTypes
  <2>4. L2TPTypes' /\ FilesMatch'
    BY <2>1, <2>3 DEF L2TPUsers, L2TPTypes, FilesMatch
  <2>5. SecretsMatch'
    BY <2>1, <2>2, <2>3 DEF L2TPUsers, SecretsMatch, Writing
  <2>6. L2!CutOff'
    BY <2>1, <2>2, <2>3 DEF L2TPUsers, L2!CutOff
  <2> QED
    BY <2>4, <2>5, <2>6 DEF L2TPUsers
<1>2. CASE L2!WriteChapSecrets(r)
  <2> DEFINE j == [job[r] EXCEPT !.pc = "kill"]
  <2>1. /\ job' = [job EXCEPT ![r] = j] /\ secrets' \in {secrets} \cup SUBSET job[r].new /\ outdated' = secrets' \ allow
        /\ UNCHANGED <<allow, ppp, sessions, file, missed>>
    BY <1>2 DEF L2!WriteChapSecrets, L2!pppVars
  <2>2. j \in Jobs /\ j.pc = "kill" /\ j.revoked = job[r].revoked
    BY DEF Jobs, L2TPUsers, L2TPTypes
  <2> HIDE DEF j
  <2>3. /\ job' \in [Requests -> Jobs] /\ job'[r] = j
        /\ \A q \in Requests \ {r} : job'[q] = job[q]
    BY <2>1, <2>2 DEF L2TPUsers, L2TPTypes
  <2>4. L2TPTypes' /\ FilesMatch'
    BY <2>1, <2>3 DEF L2TPUsers, L2TPTypes, FilesMatch
  <2>5. SecretsMatch'
    BY <2>1, <2>2, <2>3 DEF L2TPUsers, SecretsMatch
  <2>6. L2!CutOff'
    BY <2>1, <2>2, <2>3 DEF L2TPUsers, L2!CutOff
  <2> QED
    BY <2>4, <2>5, <2>6 DEF L2TPUsers
<1> QED
  BY <1>1, <1>2

(* Every session of a revoked user is on its way down, or was missed.      *)
LEMMA KillSessionsStep ==
    ASSUME L2TPUsers, NEW r \in Requests, L2!KillSessions(r)
    PROVE  L2TPUsers'
<1> DEFINE of == {i \in Ifs : ppp[i].st # "none" /\ ppp[i].user \in job[r].revoked}
           hit == {i \in L2!ReadSessions : file[i].user \in job[r].revoked}
<1>1. /\ job[r].pc = "kill" /\ job' = [job EXCEPT ![r] = L2!NoJob]
      /\ ppp' = [i \in Ifs |-> IF i \in hit /\ ppp[i].st = "up" THEN [ppp[i] EXCEPT !.st = "term"] ELSE ppp[i]]
      /\ missed' = missed \cup {ppp[i].n : i \in of \ hit}
      /\ file' \in {file, L2!Swept}
      /\ UNCHANGED <<allow, secrets, sessions, outdated>>
  BY DEF L2!KillSessions
<1>2. /\ job' \in [Requests -> Jobs] /\ job'[r] = L2!NoJob
      /\ \A q \in Requests \ {r} : job'[q] = job[q]
  BY <1>1, NoSession DEF L2TPUsers, L2TPTypes
<1>3. \A i \in Ifs : /\ ppp'[i].n = ppp[i].n /\ ppp'[i].user = ppp[i].user
                     /\ ppp'[i] \in PPPs \cup {L2!NoPPP}
                     /\ ppp'[i].st \in {"auth", "up"} => ppp'[i] = ppp[i] /\ (i \in hit => ppp[i].st = "auth")
                     /\ ppp'[i].st = "auth" <=> ppp[i].st = "auth"
  <2> SUFFICES ASSUME NEW i \in Ifs
               PROVE  /\ ppp'[i].n = ppp[i].n /\ ppp'[i].user = ppp[i].user
                      /\ ppp'[i] \in PPPs \cup {L2!NoPPP}
                      /\ ppp'[i].st \in {"auth", "up"} => ppp'[i] = ppp[i] /\ (i \in hit => ppp[i].st = "auth")
                      /\ ppp'[i].st = "auth" <=> ppp[i].st = "auth"
    OBVIOUS
  <2>1. ppp[i].st = "up" => ppp[i] \in PPPs
    BY FieldTypes DEF L2TPUsers
  <2>2. CASE i \in hit /\ ppp[i].st = "up"
    <3>1. ppp'[i] = [ppp[i] EXCEPT !.st = "term"]
      BY <1>1, <2>2
    <3> QED
      BY <2>1, <2>2, <3>1 DEF PPPs, States
  <2>3. CASE ~(i \in hit /\ ppp[i].st = "up")
    <3>1. ppp'[i] = ppp[i]
      BY <1>1, <2>3
    <3>2. ppp[i] \in PPPs \cup {L2!NoPPP}
      BY FieldTypes DEF L2TPUsers
    <3> HIDE DEF hit
    <3> QED
      BY <2>3, <3>1, <3>2
  <2> QED
    BY <2>2, <2>3
<1>4. \A i \in Ifs : file'[i] = file[i] \/ file'[i] = L2!NoFile
  BY <1>1 DEF L2!Swept
<1>5. file' \in [Ifs -> Files \cup {L2!NoFile}] /\ ppp' \in [Ifs -> PPPs \cup {L2!NoPPP}]
  <2>1. ppp' = [i \in Ifs |-> ppp'[i]]
    BY <1>1
  <2>2. file' = [i \in Ifs |-> file'[i]]
    BY <1>1 DEF L2!Swept, L2TPUsers, L2TPTypes
  <2> QED
    BY <1>3, <1>4, <2>1, <2>2 DEF L2TPUsers, L2TPTypes
<1>6. L2TPTypes'
  BY <1>1, <1>2, <1>5 DEF L2TPUsers, L2TPTypes
<1>7. FilesMatch'
  BY <1>1, <1>3, <1>4, NoSession DEF L2TPUsers, L2TPTypes, FilesMatch
<1>8. SecretsMatch'
  BY <1>1, <1>2, NoSession DEF L2TPUsers, SecretsMatch, Writing
<1>9. L2!CutOff'
  <2> SUFFICES ASSUME NEW i \in Ifs, ppp'[i].st \in {"auth", "up"}, ppp'[i].user \notin allow'
               PROVE  (\E q \in Requests : ppp'[i].user \in job'[q].revoked) \/ ppp'[i].n \in missed'
    BY DEF L2!CutOff
  <2>1. ppp'[i] = ppp[i] /\ (i \in hit => ppp[i].st = "auth")
    BY <1>3
  <2>2. i \notin hit
    BY <2>1 DEF L2TPUsers, FilesMatch, L2!ReadSessions, L2!SessionIsAlive
  <2>3. CASE ppp[i].user \in job[r].revoked
    <3>1. i \in of \ hit
      BY <2>1, <2>2, <2>3
    <3> QED
      BY <1>1, <2>1, <3>1
  <2>4. CASE ppp[i].user \notin job[r].revoked
    <3>1. (\E q \in Requests : ppp[i].user \in job[q].revoked) \/ ppp[i].n \in missed
      BY <1>1, <2>1 DEF L2TPUsers, L2!CutOff
    <3> QED
      BY <1>1, <1>2, <2>1, <2>4, <3>1
  <2> QED
    BY <2>3, <2>4
<1> QED
  BY <1>6, <1>7, <1>8, <1>9 DEF L2TPUsers

(* A step of one session's, after which it is up only if it was.           *)
LEMMA SessionStep ==
    ASSUME L2TPUsers, NEW i \in Ifs, NEW p \in PPPs \cup {L2!NoPPP}, L2!Put(i, p),
           p.st \in {"auth", "up"} => p.user = ppp[i].user /\ p.n = ppp[i].n /\ ppp[i].st \in {"auth", "up"},
           p.st = "auth" => ppp[i].st = "auth",
           p.n = 0 \/ (p.n = ppp[i].n /\ p.user = ppp[i].user),
           \/ file' = file
           \/ file' = [file EXCEPT ![i] = L2!NoFile]
           \/ /\ file' = [file EXCEPT ![i] = [user |-> p.user, n |-> p.n]]
              /\ p \in PPPs /\ p.st # "auth"
           \/ file' = L2!Swept,
           UNCHANGED <<allow, secrets, sessions, job, missed, outdated>>
    PROVE  L2TPUsers'
<1>1. /\ ppp' \in [Ifs -> PPPs \cup {L2!NoPPP}] /\ ppp'[i] = p
      /\ \A k \in Ifs \ {i} : ppp'[k] = ppp[k]
  BY DEF L2!Put, L2TPUsers, L2TPTypes
<1>2. file' \in [Ifs -> Files \cup {L2!NoFile}]
  <2>1. p \in PPPs => [user |-> p.user, n |-> p.n] \in Files
    BY DEF PPPs, Files
  <2> QED
    BY <2>1 DEF L2TPUsers, L2TPTypes, L2!Swept
<1>3. \A k \in Ifs : \/ file'[k] = file[k] \/ file'[k] = L2!NoFile
                     \/ k = i /\ file'[k].n = p.n /\ file'[k].user = p.user /\ p.st # "auth"
  BY DEF L2TPUsers, L2TPTypes, L2!Swept
<1>4. L2TPTypes'
  BY <1>1, <1>2 DEF L2TPUsers, L2TPTypes
<1>5. FilesMatch'
  <2>1. \A k \in Ifs : file[k].n <= sessions /\ ppp[k].n <= sessions
    BY DEF L2TPUsers, FilesMatch
  <2>2. p.n <= sessions
    BY <2>1 DEF L2TPUsers, L2TPTypes
  <2>3. ASSUME NEW k \in Ifs PROVE file'[k].n <= sessions' /\ ppp'[k].n <= sessions'
    <3>1. CASE k = i
      BY <1>1, <1>3, <2>1, <2>2, <3>1, NoSession DEF L2TPUsers, L2TPTypes
    <3>2. CASE k # i
      BY <1>1, <1>3, <2>1, <3>2, NoSession DEF L2TPUsers, L2TPTypes
    <3> QED
      BY <3>1, <3>2
  <2>4. ASSUME NEW k \in Ifs, file'[k] # L2!NoFile, file'[k].n = ppp'[k].n
        PROVE  file'[k].user = ppp'[k].user /\ ppp'[k].st # "auth"
    <3>1. CASE k # i
      BY <1>1, <1>3, <2>4, <3>1 DEF L2TPUsers, FilesMatch
    <3>2. CASE k = i /\ file'[k].n = p.n /\ file'[k].user = p.user /\ p.st # "auth"
      BY <1>1, <3>2
    <3>3. CASE k = i /\ file'[k] = file[k]
      <4>1. file[k] # L2!NoFile /\ file[k].n > 0 /\ p.n # 0
        BY <1>1, <2>4, <3>3, FieldTypes DEF L2TPUsers
      <4> QED
        BY <1>1, <2>4, <3>3, <4>1 DEF L2TPUsers, FilesMatch
    <3> QED
      BY <1>3, <2>4, <3>1, <3>2, <3>3
  <2> QED
    BY <2>3, <2>4 DEF FilesMatch
<1>6. SecretsMatch'
  BY DEF L2TPUsers, SecretsMatch, Writing
<1>7. L2!CutOff'
  <2> SUFFICES ASSUME NEW k \in Ifs, ppp'[k].st \in {"auth", "up"}, ppp'[k].user \notin allow'
               PROVE  (\E q \in Requests : ppp'[k].user \in job'[q].revoked) \/ ppp'[k].n \in missed'
    BY DEF L2!CutOff
  <2>1. ppp[k].st \in {"auth", "up"} /\ ppp[k].user = ppp'[k].user /\ ppp[k].n = ppp'[k].n
    BY <1>1
  <2> QED
    BY <2>1 DEF L2TPUsers, L2!CutOff
<1> QED
  BY <1>4, <1>5, <1>6, <1>7 DEF L2TPUsers

LEMMA HookStep ==
    ASSUME L2TPUsers, NEW i \in Ifs,
           \/ L2!IpUp(i) \/ L2!Moves(i) \/ L2!Leaves(i) \/ L2!Killed(i)
           \/ L2!IpDown(i) \/ L2!IpDownWrites(i) \/ L2!IpDownCleans(i)
    PROVE  L2TPUsers'
<1>1. UNCHANGED <<allow, secrets, sessions, job, missed, outdated>>
  BY DEF L2!IpUp, L2!Moves, L2!Leaves, L2!Killed, L2!IpDown, L2!IpDownWrites, L2!IpDownCleans, L2!PPPStep
<1>2. ppp[i] \in PPPs
  BY FieldTypes DEF L2TPUsers, L2!IpUp, L2!Moves, L2!Leaves, L2!Killed, L2!IpDown, L2!IpDownWrites, L2!IpDownCleans
<1>3. L2!NoPPP \in PPPs \cup {L2!NoPPP} /\ L2!NoPPP.n = 0 /\ L2!NoPPP.st = "none"
  BY NoSession
<1>4. ASSUME L2!Put(i, L2!NoPPP), file' \in {file, [file EXCEPT ![i] = L2!NoFile]} PROVE L2TPUsers'
  BY <1>1, <1>3, <1>4, SessionStep
<1>5. ASSUME NEW p \in PPPs, L2!Put(i, p), p.user = ppp[i].user, p.n = ppp[i].n,
             p.st \in {"auth", "up"} => ppp[i].st \in {"auth", "up"}, p.st # "auth",
             file' \in {file, [file EXCEPT ![i] = [user |-> p.user, n |-> p.n]]}
      PROVE  L2TPUsers'
  <2>1. \/ file' = file
        \/ /\ file' = [file EXCEPT ![i] = [user |-> p.user, n |-> p.n]]
           /\ p \in PPPs /\ p.st # "auth"
    BY <1>5
  <2> QED
    BY <1>1, <1>5, <2>1, SessionStep
<1>6. CASE L2!IpUp(i)
  <2> DEFINE p == [ppp[i] EXCEPT !.st = "up"]
  <2>1. /\ L2!Put(i, p) /\ ppp[i].st = "auth"
        /\ file' = [file EXCEPT ![i] = [user |-> ppp[i].user, n |-> ppp[i].n]]
    BY <1>6 DEF L2!IpUp
  <2>2. p \in PPPs /\ p.user = ppp[i].user /\ p.n = ppp[i].n /\ p.st = "up"
    BY <1>2 DEF PPPs, States
  <2> HIDE DEF p
  <2> QED
    BY <1>5, <2>1, <2>2
<1>7. CASE L2!Moves(i)
  <2> DEFINE p == [ppp[i] EXCEPT !.bytes = ppp[i].bytes + 1]
  <2>1. L2!Put(i, p) /\ ppp[i].st = "up" /\ file' = file
    BY <1>7 DEF L2!Moves
  <2>2. p \in PPPs /\ p.user = ppp[i].user /\ p.n = ppp[i].n /\ p.st = "up"
    BY <1>2, <2>1 DEF PPPs, States
  <2> HIDE DEF p
  <2> QED
    BY <1>5, <2>1, <2>2
<1>8. CASE L2!Leaves(i)
  <2> DEFINE p == [ppp[i] EXCEPT !.st = "term"]
  <2>1. L2!Put(i, p) /\ file' = file
    BY <1>8 DEF L2!Leaves
  <2>2. p \in PPPs /\ p.user = ppp[i].user /\ p.n = ppp[i].n /\ p.st = "term"
    BY <1>2, <2>1 DEF PPPs, States
  <2> HIDE DEF p
  <2> QED
    BY <1>5, <2>1, <2>2
<1>9. CASE L2!Killed(i) \/ L2!IpDownCleans(i)
  BY <1>4, <1>9 DEF L2!Killed, L2!IpDownCleans
<1>10. CASE L2!IpDown(i)
  <2>1. file' = file
    BY <1>10 DEF L2!IpDown
  <2>2. CASE L2!Put(i, L2!NoPPP)
    BY <1>4, <2>1, <2>2
  <2>3. ASSUME NEW dev \in BOOLEAN, L2!Put(i, [ppp[i] EXCEPT !.st = "hook", !.dev = dev]) PROVE L2TPUsers'
    <3> DEFINE p == [ppp[i] EXCEPT !.st = "hook", !.dev = dev]
    <3>1. p \in PPPs /\ p.user = ppp[i].user /\ p.n = ppp[i].n /\ p.st = "hook" /\ L2!Put(i, p)
      BY <1>2, <2>3 DEF PPPs, States
    <3> HIDE DEF p
    <3> QED
      BY <1>5, <2>1, <3>1
  <2> QED
    BY <1>10, <2>2, <2>3 DEF L2!IpDown
<1>11. CASE L2!IpDownWrites(i)
  <2> DEFINE p == [ppp[i] EXCEPT !.st = "gone"]
  <2>1. L2!Put(i, p) /\ file' = file
    BY <1>11 DEF L2!IpDownWrites
  <2>2. p \in PPPs /\ p.user = ppp[i].user /\ p.n = ppp[i].n /\ p.st = "gone"
    BY <1>2, <2>1 DEF PPPs, States
  <2> HIDE DEF p
  <2> QED
    BY <1>5, <2>1, <2>2
<1> QED
  BY <1>6, <1>7, <1>8, <1>9, <1>10, <1>11

LEMMA PollStep == ASSUME L2TPUsers, L2!PollSessions \/ L2!PollFinals \/ L2!PollSettle PROVE L2TPUsers'
<1>1. /\ file' \in {file, L2!Swept}
      /\ UNCHANGED <<allow, secrets, ppp, sessions, job, missed, outdated>>
  BY DEF L2!PollSessions, L2!PollFinals, L2!PollSettle, L2!lifeVars
<1>2. \A i \in Ifs : file'[i] = file[i] \/ file'[i] = L2!NoFile
  BY <1>1 DEF L2!Swept
<1>3. L2TPTypes'
  BY <1>1, <1>2 DEF L2TPUsers, L2TPTypes, L2!Swept
<1>4. FilesMatch'
  BY <1>1, <1>2, NoSession DEF L2TPUsers, L2TPTypes, FilesMatch
<1>5. SecretsMatch' /\ L2!CutOff'
  BY <1>1 DEF L2TPUsers, SecretsMatch, L2!CutOff, Writing
<1> QED
  BY <1>3, <1>4, <1>5 DEF L2TPUsers

LEMMA StopStep ==
    ASSUME L2TPUsers, (\E new \in SUBSET Users : L2!UpdateUsersAndRestart(new)) \/ L2!Shutdown
    PROVE  L2TPUsers'
<1>1. /\ allow' \in SUBSET Users /\ ppp' = L2!HungUp /\ secrets' = {}
      /\ UNCHANGED <<sessions, file, job, missed>>
  BY DEF L2!UpdateUsersAndRestart, L2!Shutdown, L2!Stop, L2TPUsers, L2TPTypes
<1>2. \A i \in Ifs : /\ ppp'[i].n = ppp[i].n /\ ppp'[i].user = ppp[i].user
                     /\ ppp'[i] \in PPPs \cup {L2!NoPPP}
                     /\ ppp'[i].st \notin {"auth", "up"}
  <2> TAKE i \in Ifs
  <2>1. ppp[i] \in PPPs \cup {L2!NoPPP}
    BY DEF L2TPUsers, L2TPTypes
  <2>2. CASE ppp[i].st \in {"auth", "up"}
    <3>1. ppp'[i] = [ppp[i] EXCEPT !.st = "term"] /\ ppp[i] \in PPPs
      BY <1>1, <2>2, FieldTypes DEF L2!HungUp, L2TPUsers
    <3> QED
      BY <3>1 DEF PPPs, States
  <2>3. CASE ppp[i].st \notin {"auth", "up"}
    <3>1. ppp'[i] = ppp[i]
      BY <1>1, <2>3 DEF L2!HungUp
    <3> QED
      BY <2>1, <2>3, <3>1
  <2> QED
    BY <2>2, <2>3
<1>3. L2TPTypes'
  <2>1. ppp' \in [Ifs -> PPPs \cup {L2!NoPPP}]
    <3>1. ppp' = [i \in Ifs |-> ppp'[i]]
      BY <1>1 DEF L2!HungUp
    <3> QED
      BY <1>2, <3>1
  <2> QED
    BY <1>1, <2>1 DEF L2TPUsers, L2TPTypes
<1>4. FilesMatch' /\ SecretsMatch' /\ L2!CutOff'
  BY <1>1, <1>2 DEF L2TPUsers, FilesMatch, SecretsMatch, L2!CutOff
<1> QED
  BY <1>3, <1>4 DEF L2TPUsers

LEMMA StartStep == ASSUME L2TPUsers, NEW ok \in BOOLEAN, L2!Start(ok) PROVE L2TPUsers'
<1>1. /\ secrets' = allow /\ outdated' = {}
      /\ UNCHANGED <<allow, ppp, sessions, file, job, missed>>
  BY DEF L2!Start, L2!pppVars
<1> QED
  BY <1>1 DEF L2TPUsers, L2TPTypes, FilesMatch, SecretsMatch, L2!CutOff

(* Whoever authenticates is in the store, or a sync that has not written   *)
(* chap-secrets yet is to kill the session, or the sync that put the user  *)
(* back has let it through.                                                *)
LEMMA AuthenticateStep ==
    ASSUME L2TPUsers, NEW i \in Ifs, NEW u \in Users, L2!Authenticate(i, u)
    PROVE  L2TPUsers'
<1> DEFINE p == [st |-> "auth", user |-> u, n |-> sessions + 1, bytes |-> 0, dev |-> TRUE]
<1>1. /\ L2!Put(i, p) /\ u \in secrets /\ sessions' = sessions + 1 /\ sessions \in Nat
      /\ missed' = IF u \in outdated THEN missed \cup {sessions + 1} ELSE missed
      /\ UNCHANGED <<allow, secrets, file, job, outdated>>
  BY DEF L2!Authenticate, L2TPUsers, L2TPTypes
<1>2. p \in PPPs /\ p.st = "auth" /\ p.user = u /\ p.n = sessions + 1
  BY <1>1 DEF PPPs, States
<1> HIDE DEF p
<1>3. /\ ppp' \in [Ifs -> PPPs \cup {L2!NoPPP}] /\ ppp'[i] = p
      /\ \A k \in Ifs \ {i} : ppp'[k] = ppp[k]
  BY <1>1, <1>2 DEF L2!Put, L2TPUsers, L2TPTypes
<1>4. L2TPTypes'
  BY <1>1, <1>3 DEF L2TPUsers, L2TPTypes
<1>5. FilesMatch'
  <2>1. \A k \in Ifs : file[k].n <= sessions /\ ppp[k].n <= sessions /\ ppp[k].n \in Nat /\ file[k].n \in Nat
    BY FieldTypes DEF L2TPUsers, FilesMatch
  <2>2. \A k \in Ifs : file'[k].n <= sessions' /\ ppp'[k].n <= sessions'
    BY <1>1, <1>2, <1>3, <2>1
  <2>3. \A k \in Ifs : file'[k] # L2!NoFile /\ file'[k].n = ppp'[k].n => k # i
    BY <1>1, <1>2, <1>3, <2>1
  <2> QED
    BY <1>1, <1>3, <2>2, <2>3 DEF L2TPUsers, FilesMatch
<1>6. SecretsMatch'
  BY <1>1 DEF L2TPUsers, SecretsMatch, Writing
<1>7. L2!CutOff'
  <2>1. u \in allow \/ (\E r \in Requests : u \in job[r].revoked) \/ sessions + 1 \in missed'
    BY <1>1 DEF L2TPUsers, SecretsMatch, Writing
  <2>2. missed \subseteq missed'
    BY <1>1
  <2> QED
    BY <1>1, <1>2, <1>3, <2>1, <2>2 DEF L2TPUsers, L2!CutOff
<1> QED
  BY <1>4, <1>5, <1>6, <1>7 DEF L2TPUsers

LEMMA L2TPUsersInit == L2!Init => L2TPUsers
BY NoSession DEF L2!Init, L2TPUsers, L2TPTypes, FilesMatch, SecretsMatch, L2!CutOff, Writing

LEMMA L2TPUsersStep == L2TPUsers /\ [L2!Next]_L2!vars => L2TPUsers'
<1> SUFFICES ASSUME L2TPUsers, [L2!Next]_L2!vars PROVE L2TPUsers'
  OBVIOUS
<1>1. ASSUME NEW r \in Requests, NEW u \in Users, NEW add \in BOOLEAN, L2!ApplyUser(r, u, add) PROVE L2TPUsers'
  <2>1. allow \in SUBSET Users
    BY DEF L2TPUsers, L2TPTypes
  <2> QED
    BY <1>1, <2>1, ChangeStep DEF L2!ApplyUser
<1>2. ASSUME NEW r \in Requests, NEW new \in SUBSET Users, L2!SyncUsers(r, new) PROVE L2TPUsers'
  BY <1>2, ChangeStep DEF L2!SyncUsers
<1>3. CASE UNCHANGED L2!vars
  BY <1>3 DEF L2!vars, L2!pppVars, L2TPUsers, L2TPTypes, FilesMatch, SecretsMatch, L2!CutOff, Writing
<1> QED
  BY <1>1, <1>2, <1>3, WriteStep, KillSessionsStep, PollStep, StopStep, StartStep, AuthenticateStep,
     HookStep DEF L2!Next

(***************************************************************************)
(* CutOff: a session of a user gone from the store is one a sync is yet to *)
(* kill, or is in one of the two windows syncUsers leaves open, however    *)
(* many syncs write chap-secrets and kill sessions at once.                *)
(***************************************************************************)
THEOREM L2TPCutsOff == L2!Spec => []L2!CutOff
<1>1. L2TPUsers => L2!CutOff
  BY DEF L2TPUsers
<1> QED
  BY <1>1, L2TPUsersInit, L2TPUsersStep, PTL DEF L2!Spec

(* Sums over numbered terms, which are finitely many.                      *)
Renumbers(g, f, num, N) ==
    /\ N \in Nat /\ f \in [1..N -> Int] /\ num \in [DOMAIN g -> 1..N]
    /\ \A x, y \in DOMAIN g : num[x] = num[y] => x = y
    /\ \A x \in DOMAIN g : g[x] \in Int /\ g[x] = f[num[x]]
    /\ \A m \in 1..N : (\A x \in DOMAIN g : num[x] # m) => f[m] = 0

LEMMA NumberedSum ==
    ASSUME NEW g, NEW f, NEW num, NEW N, Renumbers(g, f, num, N)
    PROVE  SumFunction(g) = SumFunction(f)
<1>1. IsFiniteSet(1..N) /\ DOMAIN f = 1..N
  BY FS_Interval DEF Renumbers
<1>2. IsFiniteSet(DOMAIN g)
  <2>1. num \in Injection(DOMAIN g, 1..N)
    BY DEF Renumbers, Injection, IsInjective
  <2> QED
    BY <1>1, <2>1, FS_Injection
<1>3. Summable(f) /\ Summable(g)
  BY <1>1, <1>2 DEF Summable, Renumbers
<1>4. num \in [DOMAIN g -> DOMAIN f] /\ \A y \in DOMAIN f : (\A x \in DOMAIN g : num[x] # y) => f[y] = 0
  BY <1>1 DEF Renumbers
<1>5. \A x, y \in DOMAIN g : num[x] = num[y] => x = y
  BY DEF Renumbers
<1>6. \A x \in DOMAIN g : g[x] = f[num[x]]
  BY DEF Renumbers
<1> QED
  BY ONLY <1>3, <1>4, <1>5, <1>6, SumVia

LEMMA NumberedSummable ==
    ASSUME NEW N \in Nat, NEW f, f \in [1..N -> Int]
    PROVE  Summable(f) /\ DOMAIN f = 1..N /\ SumFunction(f) \in Int
<1>1. Summable(f) /\ DOMAIN f = 1..N
  BY FS_Interval DEF Summable
<1> QED
  BY <1>1, SumType

(* A sum of which one term changes.                                        *)
LEMMA SumChange ==
    ASSUME NEW N \in Nat, NEW f, f \in [1..N -> Int], NEW g, g \in [1..N -> Int], NEW n \in 1..N,
           \A m \in 1..N : m # n => g[m] = f[m]
    PROVE  SumFunction(g) = SumFunction(f) + (g[n] - f[n])
<1> DEFINE d == [m \in 1..N |-> IF m = n THEN g[n] - f[n] ELSE 0]
<1>1. d \in [1..N -> Int] /\ d[n] = g[n] - f[n] /\ \A m \in 1..N : m # n => d[m] = 0
  OBVIOUS
<1> HIDE DEF d
<1>2. Summable(f) /\ Summable(g) /\ Summable(d) /\ DOMAIN f = 1..N /\ DOMAIN g = 1..N /\ DOMAIN d = 1..N
  BY <1>1, NumberedSummable
<1>3. \A m \in 1..N : g[m] = f[m] + d[m]
  BY <1>1
<1>4. SumFunction(g) = SumFunction(f) + SumFunction(d)
  BY ONLY <1>2, <1>3, SumAdd
<1>5. SumFunction(d) = d[n]
  BY <1>1, <1>2, SumSingle
<1> QED
  BY <1>1, <1>4, <1>5

(* Sums of which one is, term by term, what another two leave of it.       *)
Adds(f, g, h, k, N) ==
    /\ N \in Nat /\ f \in [1..N -> Int] /\ g \in [1..N -> Int]
    /\ h \in [1..N -> Int] /\ k \in [1..N -> Int]
    /\ \A m \in 1..N : f[m] = g[m] + h[m] + k[m]
LEMMA SumLess ==
    ASSUME NEW N, NEW f, NEW g, NEW h, NEW k, Adds(f, g, h, k, N)
    PROVE  SumFunction(f) = SumFunction(g) + SumFunction(h) + SumFunction(k)
<1> DEFINE d == [m \in 1..N |-> g[m] + h[m]]
<1>1. d \in [1..N -> Int] /\ \A m \in 1..N : d[m] = g[m] + h[m]
  BY DEF Adds
<1> HIDE DEF d
<1>2. /\ Summable(f) /\ Summable(g) /\ Summable(h) /\ Summable(k) /\ Summable(d)
      /\ DOMAIN f = 1..N /\ DOMAIN g = 1..N /\ DOMAIN h = 1..N /\ DOMAIN k = 1..N /\ DOMAIN d = 1..N
  BY <1>1, NumberedSummable DEF Adds
<1>3. \A m \in 1..N : f[m] = d[m] + k[m]
  BY <1>1 DEF Adds
<1>4. SumFunction(d) = SumFunction(g) + SumFunction(h)
  BY ONLY <1>1, <1>2, SumAdd
<1>5. SumFunction(f) = SumFunction(d) + SumFunction(k)
  BY ONLY <1>2, <1>3, SumAdd
<1> QED
  BY <1>4, <1>5

(***************************************************************************)
(* What holds of the sessions, their files and their records while a poll  *)
(* is under way. Sessions are numbered from 1 to sessions, so that sums    *)
(* over rows, records and files all become sums over these numbers.        *)
(***************************************************************************)
Finals == [if : Ifs, user : Users, n : Nat \ {0}, bytes : Nat, whole : BOOLEAN]
Lives == [if : Ifs, user : Users, n : Nat \ {0}]
L2TPBookTypes ==
    /\ finals \in SUBSET Finals /\ torn \in SUBSET (Nat \ {0})
    /\ live \in SUBSET Lives /\ recs \in Seq(Finals)
    /\ DOMAIN ifSeen \in SUBSET Ifs
    /\ \A i \in DOMAIN ifSeen : ifSeen[i] \in [n : Nat \ {0}, bytes : Nat]
    /\ cum \in [Users -> Int] /\ owed \in [Users -> Int]
    /\ poll \in {"idle", "sessions", "finals"} /\ disturbed \in BOOLEAN

(* The numbers of sessions are their own.                                  *)
Numbered ==
    /\ \A x \in finals : x.n <= sessions
    /\ \A n \in torn : n <= sessions
    /\ \A i \in DOMAIN ifSeen : ifSeen[i].n <= sessions
    /\ \A i, j \in Ifs : ppp[i].n = ppp[j].n /\ ppp[i].n # 0 => i = j

(* What the ip-up and ip-down hooks have left behind at every stage.       *)
Stage(i) ==
    /\ ppp[i].st # "none" /\ file[i].n # ppp[i].n => ppp[i].bytes = 0 /\ ppp[i].st \in {"auth", "term"}
    /\ ppp[i].st \in {"auth", "up", "term"} =>
           ppp[i].dev /\ ppp[i].n \notin torn /\ \A x \in finals : x.n # ppp[i].n
    /\ ppp[i].st = "hook" => L2!Record(i, FALSE) \in finals \/ ppp[i].n \in torn
Stages == \A i \in Ifs : Stage(i)

(* A session has one record; a record that is whole belongs to a pppd on   *)
(* its way out, or to none any more.                                       *)
Records ==
    \A x \in finals :
        /\ x.n \notin torn
        /\ \A y \in finals : x.n = y.n => x = y
        /\ \A j \in Ifs : ppp[j].n = x.n => x = L2!Record(j, x.whole) /\ ppp[j].st = IF x.whole THEN "gone" ELSE "hook"
        /\ ~x.whole => ppp[x.if].n = x.n

(* What a poll has read as live or as a record names sessions rightly.     *)
ReadLive ==
    /\ poll = "idle" => live = {}
    /\ \A s \in live :
        /\ s.n <= sessions
        /\ \A t \in live : s.if = t.if \/ s.n = t.n => s = t
        /\ \A j \in Ifs : ppp[j].n = s.n => j = s.if /\ ppp[j].user = s.user
        /\ \A x \in finals : x.n = s.n => x.if = s.if /\ x.user = s.user

ReadRecs ==
    /\ poll # "finals" => recs = <<>>
    /\ \A k \in DOMAIN recs : recs[k] \in finals /\ recs[k].whole
    /\ \A j, k \in DOMAIN recs : recs[j] = recs[k] => j = k

(* A poll has read every session of which something was counted.           *)
ReadCounted ==
    ~disturbed => \A x \in L2!Owing : L2!Counted(x.if, x.n) > 0 =>
        /\ poll = "sessions" => (\E s \in live : s.n = x.n) \/ (x \in finals /\ x.whole)
        /\ poll = "finals" => (\E s \in live : s.n = x.n) \/ \E k \in DOMAIN recs : recs[k] = x

(* No session is ahead in the node's books of what it has moved.           *)
NotTooMuch == ~disturbed => \A x \in L2!Owing : L2!Counted(x.if, x.n) <= x.bytes

Shape == L2TPUsers /\ L2TPBookTypes /\ Numbered /\ Stages /\ Records
L2TPBooks == Shape /\ ReadLive /\ ReadRecs /\ ReadCounted /\ NotTooMuch /\ L2!BooksBalance

(* What is owed of rows O against baselines c, and the part of session m.  *)
CountedIn(c, i, n) == IF i \in DOMAIN c /\ c[i].n = n THEN c[i].bytes ELSE 0
OwedIn(O, c, u) == SumFunction([x \in {x \in O : x.user = u} |-> x.bytes - CountedIn(c, x.if, x.n)])
RowOf(O, m) == CHOOSE x \in O : x.n = m
DebtIn(O, c, u, m) ==
    IF \E x \in O : x.n = m /\ x.user = u
    THEN RowOf(O, m).bytes - CountedIn(c, RowOf(O, m).if, m) ELSE 0
RowsIn(O, N) ==
    /\ N \in Nat
    /\ \A x \in O : x.n \in 1..N /\ x.bytes \in Nat /\ x.if \in Ifs /\ x.user \in Users
    /\ \A x, y \in O : x.n = y.n => x = y
CountsIn(c) == \A i \in DOMAIN c : c[i].bytes \in Nat

LEMMA DebtFacts ==
    ASSUME NEW O, NEW c, NEW N, RowsIn(O, N), CountsIn(c), NEW u
    PROVE  /\ \A i, n : CountedIn(c, i, n) \in Nat
           /\ \A m : DebtIn(O, c, u, m) \in Int
           /\ \A x \in O : DebtIn(O, c, u, x.n) = IF x.user = u THEN x.bytes - CountedIn(c, x.if, x.n) ELSE 0
           /\ \A m : (\A x \in O : x.n # m) => DebtIn(O, c, u, m) = 0
<1>1. \A i, n : CountedIn(c, i, n) \in Nat
  BY DEF CountsIn, CountedIn
<1>2. \A x \in O : RowOf(O, x.n) = x
  BY DEF RowsIn, RowOf
<1>3. ASSUME NEW x \in O
      PROVE  DebtIn(O, c, u, x.n) = IF x.user = u THEN x.bytes - CountedIn(c, x.if, x.n) ELSE 0
  BY <1>2 DEF DebtIn, RowsIn
<1>4. \A m : (\A x \in O : x.n # m) => DebtIn(O, c, u, m) = 0
  BY DEF DebtIn
<1>5. ASSUME NEW m PROVE DebtIn(O, c, u, m) \in Int
  <2>1. CASE \A x \in O : x.n # m
    BY <1>4, <2>1
  <2>2. ASSUME NEW x \in O, x.n = m PROVE DebtIn(O, c, u, m) \in Int
    BY <1>1, <1>3, <2>2 DEF RowsIn
  <2> QED
    BY <2>1, <2>2
<1> QED
  BY <1>1, <1>3, <1>4, <1>5

Debts(O, c, u, N) == [m \in 1..N |-> DebtIn(O, c, u, m)]

LEMMA OwedIsDebts ==
    ASSUME NEW O, NEW c, NEW N, RowsIn(O, N), CountsIn(c), NEW u
    PROVE  /\ Debts(O, c, u, N) \in [1..N -> Int]
           /\ \A m \in 1..N : Debts(O, c, u, N)[m] = DebtIn(O, c, u, m)
           /\ OwedIn(O, c, u) = SumFunction(Debts(O, c, u, N))
<1> DEFINE S == {x \in O : x.user = u}
           g == [x \in S |-> x.bytes - CountedIn(c, x.if, x.n)]
           num == [x \in S |-> x.n]
           f == Debts(O, c, u, N)
<1>1. /\ \A m : DebtIn(O, c, u, m) \in Int
      /\ \A x \in O : DebtIn(O, c, u, x.n) = IF x.user = u THEN x.bytes - CountedIn(c, x.if, x.n) ELSE 0
      /\ \A m : (\A x \in O : x.n # m) => DebtIn(O, c, u, m) = 0
      /\ \A i, n : CountedIn(c, i, n) \in Nat
  BY DebtFacts
<1>2. f \in [1..N -> Int] /\ \A m \in 1..N : f[m] = DebtIn(O, c, u, m)
  BY <1>1 DEF Debts
<1>3. /\ \A x \in S : x \in O /\ x.user = u /\ x.n \in 1..N /\ x.bytes \in Nat
      /\ \A x \in O : x.user = u => x \in S
      /\ \A x, y \in S : x.n = y.n => x = y
      /\ N \in Nat
  BY DEF RowsIn
<1>4. DOMAIN g = S /\ \A x \in S : g[x] = x.bytes - CountedIn(c, x.if, x.n)
  OBVIOUS
<1>5. num \in [S -> 1..N] /\ \A x \in S : num[x] = x.n
  BY <1>3
<1>6. OwedIn(O, c, u) = SumFunction(g)
  BY DEF OwedIn
<1> HIDE DEF S, g, num, f
<1>7. \A x \in S : g[x] \in Int /\ g[x] = f[num[x]]
  BY <1>1, <1>2, <1>3, <1>4, <1>5
<1>8. \A x, y \in S : num[x] = num[y] => x = y
  BY <1>3, <1>5
<1>9. ASSUME NEW m \in 1..N, \A x \in S : num[x] # m PROVE f[m] = 0
  <2>1. \A x \in O : x.n = m => x.user # u
    BY <1>3, <1>5, <1>9
  <2>2. CASE \E x \in O : x.n = m
    BY <1>1, <1>2, <2>1, <2>2
  <2>3. CASE \A x \in O : x.n # m
    BY <1>1, <1>2, <2>3
  <2> QED
    BY <2>2, <2>3
<1>10. SumFunction(g) = SumFunction(f)
  <2>1. N \in Nat /\ f \in [1..N -> Int] /\ num \in [DOMAIN g -> 1..N]
    BY <1>2, <1>3, <1>4, <1>5
  <2>2. \A x, y \in DOMAIN g : num[x] = num[y] => x = y
    BY <1>4, <1>8
  <2>3. /\ \A x \in DOMAIN g : g[x] \in Int
        /\ \A x \in DOMAIN g : g[x] = f[num[x]]
    BY <1>4, <1>7
  <2>4. \A m \in 1..N : (\A x \in DOMAIN g : num[x] # m) => f[m] = 0
    BY <1>4, <1>9
  <2>5. Renumbers(g, f, num, N)
    BY ONLY <2>1, <2>2, <2>3, <2>4 DEF Renumbers
  <2> QED
    BY <2>5, NumberedSum
<1> QED
  BY <1>2, <1>6, <1>10 DEF f

LEMMA OwedType ==
    ASSUME NEW O, NEW c, NEW N, RowsIn(O, N), CountsIn(c), NEW u
    PROVE  OwedIn(O, c, u) \in Int
<1>1. /\ Debts(O, c, u, N) \in [1..N -> Int]
      /\ OwedIn(O, c, u) = SumFunction(Debts(O, c, u, N))
  BY OwedIsDebts
<1>2. N \in Nat
  BY DEF RowsIn
<1> QED
  BY <1>1, <1>2, NumberedSummable

(* Nothing but the debt of session n changes.                              *)
LEMMA OneDebtChanges ==
    ASSUME NEW O, NEW c, NEW N, RowsIn(O, N), CountsIn(c), NEW u,
           NEW P, NEW d, RowsIn(P, N), CountsIn(d), NEW n \in 1..N,
           \A m \in 1..N : m # n => DebtIn(P, d, u, m) = DebtIn(O, c, u, m)
    PROVE  OwedIn(P, d, u) = OwedIn(O, c, u) + (DebtIn(P, d, u, n) - DebtIn(O, c, u, n))
<1>1. /\ Debts(O, c, u, N) \in [1..N -> Int] /\ \A m \in 1..N : Debts(O, c, u, N)[m] = DebtIn(O, c, u, m)
      /\ OwedIn(O, c, u) = SumFunction(Debts(O, c, u, N))
  BY OwedIsDebts
<1>2. /\ Debts(P, d, u, N) \in [1..N -> Int] /\ \A m \in 1..N : Debts(P, d, u, N)[m] = DebtIn(P, d, u, m)
      /\ OwedIn(P, d, u) = SumFunction(Debts(P, d, u, N))
  BY OwedIsDebts
<1>3. N \in Nat
  BY DEF RowsIn
<1> DEFINE f == Debts(O, c, u, N)
           g == Debts(P, d, u, N)
<1>4. f \in [1..N -> Int] /\ g \in [1..N -> Int]
  BY <1>1, <1>2
<1>5. \A m \in 1..N : m # n => g[m] = f[m]
  BY <1>1, <1>2
<1> HIDE DEF f, g
<1>6. SumFunction(g) = SumFunction(f) + (g[n] - f[n])
  BY <1>3, <1>4, <1>5, SumChange, ZenonT(30)
<1> USE DEF f, g
<1> QED
  BY <1>1, <1>2, <1>6

LEMMA OpenSession ==
    ASSUME L2TPTypes, L2TPBookTypes, NEW i \in L2!Open
    PROVE  ppp[i] \in PPPs /\ i \in Ifs
           /\ L2!Record(i, FALSE) \in Finals
           /\ L2!Record(i, FALSE).if = i /\ L2!Record(i, FALSE).n = ppp[i].n /\ L2!Record(i, FALSE).user = ppp[i].user
           /\ L2!Record(i, FALSE).bytes = ppp[i].bytes
<1>1. i \in Ifs /\ ppp[i].n \in Nat /\ (ppp[i].st # "none" => ppp[i] \in PPPs)
      /\ (ppp[i] \in PPPs \/ ppp[i] = L2!NoPPP)
  BY FieldTypes DEF L2!Open
<1>2. ppp[i] # L2!NoPPP
  BY NoSession DEF L2!Open, L2TPBookTypes
<1> QED
  BY <1>1, <1>2 DEF L2!Record, Finals, PPPs

LEMMA OwingFacts == Shape => RowsIn(L2!Owing, sessions) /\ CountsIn(ifSeen)
<1> SUFFICES ASSUME Shape PROVE RowsIn(L2!Owing, sessions) /\ CountsIn(ifSeen)
  OBVIOUS
<1>1. L2TPTypes /\ L2TPBookTypes /\ FilesMatch
  BY DEF Shape, L2TPUsers
<1>2. ASSUME NEW x \in L2!Owing PROVE x \in Finals /\ x.n <= sessions
  <2>1. CASE x \in finals
    BY <1>1, <2>1 DEF Shape, Numbered, L2TPBookTypes
  <2>2. ASSUME NEW i \in L2!Open, x = L2!Record(i, FALSE) PROVE x \in Finals /\ x.n <= sessions
    BY <1>1, <2>2, OpenSession DEF FilesMatch
  <2> QED
    BY <2>1, <2>2 DEF L2!Owing
<1>3. ASSUME NEW i \in L2!Open, NEW y \in finals PROVE y.n # ppp[i].n
  BY <1>1, <1>3, OpenSession DEF Shape, Records, Stages, Stage, L2!Open
<1>4. ASSUME NEW x \in L2!Owing, NEW y \in L2!Owing, x.n = y.n PROVE x = y
  <2>1. CASE x \in finals /\ y \in finals
    BY <1>4, <2>1 DEF Shape, Records
  <2>2. ASSUME NEW i \in L2!Open, x = L2!Record(i, FALSE), NEW j \in L2!Open, y = L2!Record(j, FALSE) PROVE x = y
    <3>1. ppp[i].n = ppp[j].n /\ ppp[i].n # 0 /\ i \in Ifs /\ j \in Ifs
      BY <1>1, <1>4, <2>2, OpenSession DEF PPPs
    <3> QED
      BY <2>2, <3>1 DEF Shape, Numbered
  <2>3. ASSUME NEW i \in L2!Open, x = L2!Record(i, FALSE), y \in finals PROVE x = y
    <3>1. x.n = ppp[i].n
      BY <1>1, <2>3, OpenSession
    <3> QED
      BY <1>3, <1>4, <2>3, <3>1
  <2>4. ASSUME x \in finals, NEW j \in L2!Open, y = L2!Record(j, FALSE) PROVE x = y
    <3>1. y.n = ppp[j].n
      BY <1>1, <2>4, OpenSession
    <3> QED
      BY <1>3, <1>4, <2>4, <3>1
  <2>5. /\ x \in finals \/ \E i \in L2!Open : x = L2!Record(i, FALSE)
        /\ y \in finals \/ \E i \in L2!Open : y = L2!Record(i, FALSE)
    BY DEF L2!Owing
  <2> QED
    BY ONLY <2>1, <2>2, <2>3, <2>4, <2>5
<1>5. sessions \in Nat
  BY <1>1 DEF L2TPTypes
<1>6. \A x \in L2!Owing : x.n \in 1..sessions /\ x.bytes \in Nat /\ x.if \in Ifs /\ x.user \in Users
  BY <1>2, <1>5 DEF Finals
<1>7. RowsIn(L2!Owing, sessions)
  BY <1>4, <1>5, <1>6 DEF RowsIn
<1>8. CountsIn(ifSeen)
  BY <1>1 DEF L2TPBookTypes, CountsIn
<1> QED
  BY <1>7, <1>8

LEMMA OwingFactsNext == Shape' => RowsIn(L2!Owing, sessions)' /\ CountsIn(ifSeen)'
BY OwingFacts, PTL

(* The sums and sizes of the instance are those of this module.            *)
LEMMA SameL2TPSum == ASSUME NEW f PROVE L2!SumFunction(f) = SumFunction(f)
BY DEF L2!SumFunction, L2!SumFunctionOnSet, L2!FoldFunctionOnSet, L2!MapThenFoldSet,
       SumFunction, SumFunctionOnSet, FoldFunctionOnSet, MapThenFoldSet

LEMMA SameCardinality == ASSUME NEW S PROVE L2!Cardinality(S) = Cardinality(S)
BY DEF L2!Cardinality, Cardinality

LEMMA UncountedIs ==
    ASSUME NEW u
    PROVE  /\ L2!Uncounted(u) = OwedIn(L2!Owing, ifSeen, u)
           /\ L2!Uncounted(u)' = OwedIn(L2!Owing', ifSeen', u)
           /\ \A i, n : L2!Counted(i, n) = CountedIn(ifSeen, i, n) /\ L2!Counted(i, n)' = CountedIn(ifSeen', i, n)
BY SameL2TPSum DEF L2!Uncounted, OwedIn, L2!Counted, CountedIn

(* A step after which some sessions are recorded, going down or gone       *)
(* without a record, and files of some that are not there are deleted.     *)
Same(p, q) == p.user = q.user /\ p.n = q.n /\ p.bytes = q.bytes /\ p.dev = q.dev
Shift ==
    /\ \A i \in Ifs : \/ ppp'[i] = ppp[i]
                      \/ ppp[i].st \in {"auth", "up"} /\ ppp'[i].st = "term" /\ Same(ppp'[i], ppp[i])
                      \/ ppp[i].st = "auth" /\ ppp'[i].st = "up" /\ Same(ppp'[i], ppp[i]) /\ file'[i].n = ppp[i].n
                      \/ ppp[i].st = "hook" /\ ppp'[i].st = "gone" /\ Same(ppp'[i], ppp[i]) /\ ppp[i].n \in torn
    /\ \A i \in Ifs : file'[i] = file[i] \/ (~L2!SessionIsAlive(i) /\ file'[i] = L2!NoFile) \/ file'[i].n = ppp[i].n
    /\ UNCHANGED <<sessions, finals, torn, ifSeen>>

LEMMA ShiftShape ==
    ASSUME Shape, L2TPUsers', L2TPBookTypes', Shift
    PROVE  Shape' /\ L2!Owing' = L2!Owing
<1> DEFINE Downs(i) == ppp[i].st \in {"auth", "up"} /\ ppp'[i].st = "term"
           Ends(i) == ppp[i].st = "hook" /\ ppp'[i].st = "gone" /\ ppp[i].n \in torn
           Ups(i) == ppp[i].st = "auth" /\ ppp'[i].st = "up" /\ file'[i].n = ppp[i].n
<1>1. /\ \A i \in Ifs : /\ Same(ppp'[i], ppp[i])
                        /\ ppp'[i].st = ppp[i].st \/ Downs(i) \/ Ups(i) \/ Ends(i)
      /\ sessions' = sessions /\ finals' = finals /\ torn' = torn /\ ifSeen' = ifSeen
  <2>1. sessions' = sessions /\ finals' = finals /\ torn' = torn /\ ifSeen' = ifSeen
    BY DEF Shift
  <2>2. ASSUME NEW i \in Ifs
        PROVE  /\ Same(ppp'[i], ppp[i])
               /\ ppp'[i].st = ppp[i].st \/ Downs(i) \/ Ups(i) \/ Ends(i)
    <3>1. \/ ppp'[i] = ppp[i]
          \/ ppp[i].st \in {"auth", "up"} /\ ppp'[i].st = "term" /\ Same(ppp'[i], ppp[i])
          \/ ppp[i].st = "auth" /\ ppp'[i].st = "up" /\ Same(ppp'[i], ppp[i]) /\ file'[i].n = ppp[i].n
          \/ ppp[i].st = "hook" /\ ppp'[i].st = "gone" /\ Same(ppp'[i], ppp[i]) /\ ppp[i].n \in torn
      BY DEF Shift
    <3> QED
      BY <3>1 DEF Same
  <2> QED
    BY <2>1, <2>2
<1>2. \A i \in Ifs : \A w : L2!Record(i, w)' = L2!Record(i, w)
  BY <1>1 DEF L2!Record, Same
<1>3. Numbered'
  BY <1>1 DEF Shape, Numbered, Same
<1>4. Stages'
  <2> SUFFICES ASSUME NEW i \in Ifs
               PROVE  /\ ppp'[i].st # "none" /\ file'[i].n # ppp'[i].n => ppp'[i].bytes = 0 /\ ppp'[i].st \in {"auth", "term"}
                      /\ ppp'[i].st \in {"auth", "up", "term"} =>
                             ppp'[i].dev /\ ppp'[i].n \notin torn /\ \A x \in finals : x.n # ppp'[i].n
                      /\ ppp'[i].st = "hook" => L2!Record(i, FALSE)' \in finals \/ ppp'[i].n \in torn
    BY <1>1 DEF Stages, Stage
  <2>1. /\ ppp[i].st # "none" /\ file[i].n # ppp[i].n => ppp[i].bytes = 0 /\ ppp[i].st \in {"auth", "term"}
        /\ ppp[i].st \in {"auth", "up", "term"} =>
               ppp[i].dev /\ ppp[i].n \notin torn /\ \A x \in finals : x.n # ppp[i].n
        /\ ppp[i].st = "hook" => L2!Record(i, FALSE) \in finals \/ ppp[i].n \in torn
    BY DEF Shape, Stages, Stage
  <2>2. file'[i].n = ppp[i].n \/ file[i].n # ppp[i].n \/ ppp[i].st = "none"
    <3>1. file[i] = L2!NoFile => file[i].n = 0
      BY NoSession
    <3>2. ppp[i].st # "none" => ppp[i].n > 0
      BY FieldTypes DEF Shape, L2TPUsers, PPPs
    <3> QED
      BY <3>1, <3>2 DEF Shift, L2!SessionIsAlive
  <2>3. Same(ppp'[i], ppp[i]) /\ L2!Record(i, FALSE)' = L2!Record(i, FALSE)
        /\ (ppp'[i].st = ppp[i].st \/ Downs(i) \/ Ups(i) \/ Ends(i))
    BY <1>1, <1>2
  <2> QED
    BY <2>1, <2>2, <2>3 DEF Same
<1>5. Records'
  <2>1. ASSUME NEW x \in finals, NEW j \in Ifs, ppp'[j].n = x.n
        PROVE  x = L2!Record(j, x.whole)' /\ ppp'[j].st = IF x.whole THEN "gone" ELSE "hook"
    BY <1>1, <1>2, <2>1 DEF Shape, Records, Same
  <2>2. \A x \in finals : ~x.whole => ppp'[x.if].n = x.n
    <3>1. \A x \in finals : x.if \in Ifs
      BY DEF Shape, L2TPBookTypes, Finals
    <3> QED
      BY <1>1, <3>1 DEF Shape, Records, Same
  <2>3. \A x \in finals : x.n \notin torn /\ \A y \in finals : x.n = y.n => x = y
    BY DEF Shape, Records
  <2> QED
    BY <1>1, <2>1, <2>2, <2>3 DEF Records
<1>6. L2!Owing' = L2!Owing
  <2>1. L2!Open' = L2!Open
    BY <1>1 DEF L2!Open, Same
  <2>2. finals' = finals /\ L2!Open \subseteq Ifs
    BY <1>1 DEF L2!Open
  <2> QED
    BY ONLY <1>2, <2>1, <2>2 DEF L2!Owing
<1> QED
  BY <1>3, <1>4, <1>5, <1>6 DEF Shape

LEMMA ShiftStep ==
    ASSUME L2TPBooks, L2TPUsers', Shift,
           UNCHANGED <<poll, live, recs, cum, owed, disturbed>>
    PROVE  L2TPBooks'
<1>1. L2TPBookTypes'
  BY DEF Shift, L2TPBooks, Shape, L2TPBookTypes
<1>2. Shape' /\ L2!Owing' = L2!Owing
  BY <1>1, ShiftShape DEF L2TPBooks
<1>3. \A i \in Ifs : Same(ppp'[i], ppp[i])
  BY DEF Shift, Same
<1>4. /\ sessions' = sessions /\ finals' = finals /\ ifSeen' = ifSeen
      /\ poll' = poll /\ live' = live /\ recs' = recs /\ cum' = cum /\ owed' = owed /\ disturbed' = disturbed
  BY DEF Shift
<1>5. ReadLive' /\ ReadRecs'
  BY <1>3, <1>4 DEF L2TPBooks, ReadLive, ReadRecs, Same
<1>6. \A i, n : L2!Counted(i, n)' = L2!Counted(i, n)
  BY <1>4 DEF L2!Counted
<1>7. ReadCounted' /\ NotTooMuch'
  BY <1>2, <1>4, <1>6 DEF L2TPBooks, ReadCounted, NotTooMuch
<1>8. L2!BooksBalance'
  BY <1>2, <1>4, UncountedIs DEF L2TPBooks, L2!BooksBalance
<1> QED
  BY <1>2, <1>5, <1>7, <1>8 DEF L2TPBooks

LEMMA QuietStep ==
    ASSUME L2TPBooks, L2TPUsers',
           \/ \E r \in Requests : \/ \E u \in Users, add \in BOOLEAN : L2!ApplyUser(r, u, add)
                                  \/ \E new \in SUBSET Users : L2!SyncUsers(r, new)
                                  \/ L2!Snapshot(r) \/ L2!WriteChapSecrets(r) \/ L2!KillSessions(r)
           \/ (\E new \in SUBSET Users : L2!UpdateUsersAndRestart(new)) \/ L2!Shutdown
           \/ \E ok \in BOOLEAN : L2!Start(ok)
           \/ \E i \in Ifs : L2!IpUp(i) \/ L2!Leaves(i) \/ (L2!IpDownWrites(i) /\ L2!Record(i, FALSE) \notin finals)
           \/ UNCHANGED L2!vars
    PROVE  L2TPBooks'
<1>1. UNCHANGED <<sessions, finals, torn, ifSeen, poll, live, recs, cum, owed, disturbed>>
  BY DEF L2!ApplyUser, L2!SyncUsers, L2!Change, L2!Snapshot, L2!WriteChapSecrets, L2!KillSessions, L2!UpdateUsersAndRestart,
         L2!Shutdown, L2!Stop, L2!Start, L2!IpUp, L2!Leaves, L2!IpDownWrites, L2!PPPStep, L2!vars, L2!pppVars, L2!pollVars, L2!lifeVars
<1>2. ASSUME UNCHANGED <<ppp, file>> PROVE Shift
  BY <1>1, <1>2 DEF Shift
<1>3. L2TPTypes
  BY DEF L2TPBooks, Shape, L2TPUsers
<1>4. ASSUME NEW r \in Requests, L2!KillSessions(r) PROVE Shift
  <2> DEFINE hit == {i \in L2!ReadSessions : file[i].user \in job[r].revoked}
  <2>1. /\ ppp' = [i \in Ifs |-> IF i \in hit /\ ppp[i].st = "up" THEN [ppp[i] EXCEPT !.st = "term"] ELSE ppp[i]]
        /\ file' = file \/ file' = L2!Swept
    BY <1>4 DEF L2!KillSessions
  <2>2. \A i \in Ifs : ppp'[i] = ppp[i] \/ (ppp[i].st = "up" /\ ppp'[i] = [ppp[i] EXCEPT !.st = "term"])
    BY <2>1
  <2>3. \A i \in Ifs : ppp[i].st = "up" => ppp[i] \in PPPs
    BY <1>3, FieldTypes
  <2>4. \A i \in Ifs : ppp'[i] = ppp[i] \/ (ppp[i].st = "up" /\ ppp'[i].st = "term" /\ Same(ppp'[i], ppp[i]))
    BY <2>2, <2>3 DEF PPPs, Same
  <2>5. \A i \in Ifs : file'[i] = file[i] \/ (~L2!SessionIsAlive(i) /\ file'[i] = L2!NoFile)
    BY <2>1 DEF L2!Swept
  <2> QED
    BY <1>1, <2>4, <2>5 DEF Shift
<1>5. ASSUME ppp' = L2!HungUp, file' = file PROVE Shift
  <2>1. \A i \in Ifs : ppp[i].st \in {"auth", "up"} => ppp[i] \in PPPs
    BY <1>3, FieldTypes
  <2>2. \A i \in Ifs : ppp'[i] = IF ppp[i].st \in {"auth", "up"} THEN [ppp[i] EXCEPT !.st = "term"] ELSE ppp[i]
    BY <1>5 DEF L2!HungUp
  <2>3. \A i \in Ifs : ppp'[i] = ppp[i] \/ (ppp[i].st \in {"auth", "up"} /\ ppp'[i].st = "term" /\ Same(ppp'[i], ppp[i]))
    BY <2>1, <2>2 DEF PPPs, Same
  <2> QED
    BY <1>1, <1>5, <2>3 DEF Shift
<1>6. ASSUME NEW i \in Ifs, L2!IpUp(i) \/ L2!Leaves(i) \/ (L2!IpDownWrites(i) /\ L2!Record(i, FALSE) \notin finals) PROVE Shift
  <2>1. ppp[i] \in PPPs
    BY <1>3, <1>6, FieldTypes DEF L2!IpUp, L2!Leaves, L2!IpDownWrites
  <2>2. DOMAIN ppp = Ifs /\ DOMAIN file = Ifs
    BY <1>3 DEF L2TPTypes
  <2>3. CASE L2!IpUp(i)
    <3>1. /\ ppp[i].st = "auth" /\ ppp'[i] = [ppp[i] EXCEPT !.st = "up"]
          /\ file'[i] = [user |-> ppp[i].user, n |-> ppp[i].n]
          /\ \A j \in Ifs : j # i => ppp'[j] = ppp[j] /\ file'[j] = file[j]
      BY <2>2, <2>3 DEF L2!IpUp, L2!Put
    <3>2. ppp'[i].st = "up" /\ Same(ppp'[i], ppp[i]) /\ file'[i].n = ppp[i].n
      BY <2>1, <3>1 DEF PPPs, Same
    <3> QED
      BY <1>1, <3>1, <3>2 DEF Shift
  <2>4. CASE L2!Leaves(i)
    <3>1. /\ ppp[i].st \in {"auth", "up"} /\ ppp'[i] = [ppp[i] EXCEPT !.st = "term"] /\ file' = file
          /\ \A j \in Ifs : j # i => ppp'[j] = ppp[j]
      BY <2>2, <2>4 DEF L2!Leaves, L2!Put
    <3>2. ppp'[i].st = "term" /\ Same(ppp'[i], ppp[i])
      BY <2>1, <3>1 DEF PPPs, Same
    <3> QED
      BY <1>1, <3>1, <3>2 DEF Shift
  <2>5. CASE L2!IpDownWrites(i) /\ L2!Record(i, FALSE) \notin finals
    <3>1. /\ ppp[i].st = "hook" /\ ppp'[i] = [ppp[i] EXCEPT !.st = "gone"] /\ file' = file
          /\ \A j \in Ifs : j # i => ppp'[j] = ppp[j]
      BY <2>2, <2>5 DEF L2!IpDownWrites, L2!Put
    <3>2. ppp'[i].st = "gone" /\ Same(ppp'[i], ppp[i])
      BY <2>1, <3>1 DEF PPPs, Same
    <3>3. ppp[i].n \in torn
      BY <2>5, <3>1 DEF L2TPBooks, Shape, Stages, Stage
    <3> QED
      BY <1>1, <3>1, <3>2, <3>3 DEF Shift
  <2> QED
    BY <1>6, <2>3, <2>4, <2>5
<1>7. Shift
  BY <1>2, <1>4, <1>5, <1>6 DEF L2!ApplyUser, L2!SyncUsers, L2!Change, L2!Snapshot, L2!WriteChapSecrets, L2!UpdateUsersAndRestart,
         L2!Shutdown, L2!Stop, L2!Start, L2!vars, L2!pppVars
<1> QED
  BY <1>1, <1>7, ShiftStep

(* No row but that of session n changes.                                   *)
LEMMA RowChanges ==
    ASSUME NEW O, NEW P, NEW c, NEW N, RowsIn(O, N), RowsIn(P, N), CountsIn(c), NEW u, NEW n \in 1..N,
           \A x \in O : x.n # n => x \in P, \A x \in P : x.n # n => x \in O
    PROVE  OwedIn(P, c, u) = OwedIn(O, c, u) + (DebtIn(P, c, u, n) - DebtIn(O, c, u, n))
<1>1. ASSUME NEW m \in 1..N, m # n PROVE DebtIn(P, c, u, m) = DebtIn(O, c, u, m)
  <2>1. CASE \A x \in O : x.n # m
    <3>1. \A x \in P : x.n # m
      BY <1>1, <2>1
    <3> QED
      BY <2>1, <3>1, DebtFacts
  <2>2. ASSUME NEW x \in O, x.n = m PROVE DebtIn(P, c, u, m) = DebtIn(O, c, u, m)
    <3>1. x \in P
      BY <1>1, <2>2
    <3> QED
      BY <2>2, <3>1, DebtFacts
  <2> QED
    BY <2>1, <2>2
<1> QED
  BY <1>1, OneDebtChanges

(* Interface i alone is touched.                                           *)
At(i) == \A j \in Ifs : j # i => ppp'[j] = ppp[j] /\ file'[j] = file[j]

LEMMA AuthenticateBooks ==
    ASSUME L2TPBooks, L2TPUsers', NEW i \in Ifs, NEW v \in Users, L2!Authenticate(i, v)
    PROVE  L2TPBooks'
<1> DEFINE n == sessions + 1
           p == [st |-> "auth", user |-> v, n |-> n, bytes |-> 0, dev |-> TRUE]
           q == [if |-> i, user |-> v, n |-> n, bytes |-> 0, whole |-> FALSE]
<1>1. /\ ppp[i] = L2!NoPPP /\ ppp'[i] = p /\ At(i) /\ sessions' = n /\ file' = file /\ sessions \in Nat
      /\ UNCHANGED <<finals, torn, poll, live, recs, ifSeen, cum, owed, disturbed>>
  <2>1. DOMAIN ppp = Ifs /\ sessions \in Nat
    BY DEF L2TPBooks, Shape, L2TPUsers, L2TPTypes
  <2> QED
    BY <2>1 DEF L2!Authenticate, L2!Put, At, L2!pollVars
<1>2. /\ ppp'[i].st = "auth" /\ ppp'[i].user = v /\ ppp'[i].n = n /\ ppp'[i].bytes = 0 /\ ppp'[i].dev
      /\ ppp[i].n = 0 /\ ppp[i].st = "none" /\ n \in Nat /\ n > sessions /\ n # 0
      /\ \A j \in Ifs : j # i => ppp'[j] = ppp[j] /\ file'[j] = file[j] /\ \A w : L2!Record(j, w)' = L2!Record(j, w)
      /\ L2!Record(i, FALSE)' = q /\ q.n = n /\ q.bytes = 0 /\ q.if = i /\ q.user = v
  BY <1>1, NoSession DEF At, L2!Record
<1>3. /\ \A j \in Ifs : ppp[j].n <= sessions /\ file[j].n <= sessions /\ ppp[j].n \in Nat /\ file[j].n \in Nat
      /\ \A x \in finals : x.n <= sessions /\ x.n \in Nat /\ x.n # 0 /\ x.if \in Ifs
      /\ \A m \in torn : m <= sessions /\ m \in Nat
      /\ \A s \in live : s.n <= sessions /\ s.n \in Nat
      /\ \A j \in DOMAIN ifSeen : ifSeen[j].n <= sessions /\ ifSeen[j].n \in Nat
  <2>1. \A j \in Ifs : ppp[j].n <= sessions /\ file[j].n <= sessions /\ ppp[j].n \in Nat /\ file[j].n \in Nat
    BY FieldTypes DEF L2TPBooks, Shape, L2TPUsers, FilesMatch
  <2>2. \A x \in finals : x.n <= sessions /\ x.n \in Nat /\ x.n # 0 /\ x.if \in Ifs
    BY DEF L2TPBooks, Shape, Numbered, L2TPBookTypes, Finals
  <2>3. \A s \in live : s.n <= sessions /\ s.n \in Nat
    BY DEF L2TPBooks, Shape, ReadLive, L2TPBookTypes, Lives
  <2>4. /\ \A m \in torn : m <= sessions /\ m \in Nat
        /\ \A j \in DOMAIN ifSeen : ifSeen[j].n <= sessions /\ ifSeen[j].n \in Nat
    BY DEF L2TPBooks, Shape, Numbered, L2TPBookTypes
  <2> QED
    BY <2>1, <2>2, <2>3, <2>4
<1> HIDE DEF n, p, q
<1>4. /\ n \notin torn /\ \A x \in finals : x.n # n
      /\ \A s \in live : s.n # n
      /\ \A j \in Ifs : ppp[j].n # n /\ file[j].n # n
      /\ \A j \in DOMAIN ifSeen : ifSeen[j].n # n
      /\ \A k \in Nat : k <= sessions => k <= n
  BY <1>1, <1>2, <1>3
<1>5. L2TPBookTypes'
  BY <1>1 DEF L2TPBooks, Shape, L2TPBookTypes
<1>6. Numbered'
  <2>1. \A j, k \in Ifs : ppp'[j].n = ppp'[k].n /\ ppp'[j].n # 0 => j = k
    BY <1>2, <1>4 DEF L2TPBooks, Shape, Numbered
  <2> QED
    BY <1>1, <1>3, <1>4, <2>1 DEF Numbered
<1>7. Stages'
  <2>1. ASSUME NEW j \in Ifs, j # i
        PROVE  /\ ppp'[j].st # "none" /\ file'[j].n # ppp'[j].n => ppp'[j].bytes = 0 /\ ppp'[j].st \in {"auth", "term"}
               /\ ppp'[j].st \in {"auth", "up", "term"} =>
                      ppp'[j].dev /\ ppp'[j].n \notin torn /\ \A x \in finals : x.n # ppp'[j].n
               /\ ppp'[j].st = "hook" => L2!Record(j, FALSE)' \in finals \/ ppp'[j].n \in torn
    <3>1. /\ ppp[j].st # "none" /\ file[j].n # ppp[j].n => ppp[j].bytes = 0 /\ ppp[j].st \in {"auth", "term"}
          /\ ppp[j].st \in {"auth", "up", "term"} =>
                 ppp[j].dev /\ ppp[j].n \notin torn /\ \A x \in finals : x.n # ppp[j].n
          /\ ppp[j].st = "hook" => L2!Record(j, FALSE) \in finals \/ ppp[j].n \in torn
      BY DEF L2TPBooks, Shape, Stages, Stage
    <3>2. ppp'[j] = ppp[j] /\ file'[j] = file[j] /\ L2!Record(j, FALSE)' = L2!Record(j, FALSE)
      BY <1>2, <2>1
    <3> QED
      BY <3>1, <3>2
  <2>2. /\ ppp'[i].bytes = 0 /\ ppp'[i].st = "auth" /\ ppp'[i].dev /\ ppp'[i].n \notin torn
        /\ \A x \in finals : x.n # ppp'[i].n
    BY <1>2, <1>4
  <2> QED
    BY <1>1, <2>1, <2>2 DEF Stages, Stage
<1>8. Records'
  <2>1. ASSUME NEW x \in finals, NEW j \in Ifs, ppp'[j].n = x.n
        PROVE  x = L2!Record(j, x.whole)' /\ ppp'[j].st = IF x.whole THEN "gone" ELSE "hook"
    BY <1>2, <1>4, <2>1 DEF L2TPBooks, Shape, Records
  <2>2. \A x \in finals : ~x.whole => ppp'[x.if].n = x.n
    BY <1>2, <1>3 DEF L2TPBooks, Shape, Records
  <2>3. \A x \in finals : x.n \notin torn /\ \A y \in finals : x.n = y.n => x = y
    BY DEF L2TPBooks, Shape, Records
  <2> QED
    BY <1>1, <2>1, <2>2, <2>3 DEF Records
<1>9. Shape'
  BY <1>5, <1>6, <1>7, <1>8 DEF Shape
<1>10. ReadLive' /\ ReadRecs'
  <2>1. ASSUME NEW s \in live
        PROVE  s.n <= n /\ \A j \in Ifs : ppp'[j].n = s.n => j = s.if /\ ppp'[j].user = s.user
    BY <1>2, <1>3, <1>4 DEF L2TPBooks, ReadLive
  <2> QED
    BY <1>1, <2>1 DEF L2TPBooks, ReadLive, ReadRecs
<1>11. L2!Owing' = L2!Owing \cup {q}
  <2>1. L2!Open' = L2!Open \cup {i} /\ i \notin L2!Open
    <3>1. 0 \notin torn
      BY DEF L2TPBooks, Shape, L2TPBookTypes
    <3> QED
      BY <1>1, <1>2, <3>1 DEF L2!Open
  <2>2. \A j \in L2!Open : L2!Record(j, FALSE)' = L2!Record(j, FALSE)
    BY <1>2, <2>1 DEF L2!Open
  <2>3. finals' = finals /\ L2!Record(i, FALSE)' = q
    BY <1>1, <1>2
  <2> QED
    BY ONLY <2>1, <2>2, <2>3 DEF L2!Owing
<1>12. \A j, m : L2!Counted(j, m)' = L2!Counted(j, m)
  BY <1>1 DEF L2!Counted
<1>13. L2!Counted(q.if, q.n) = 0
  BY <1>2, <1>4 DEF L2!Counted
<1>14. ReadCounted' /\ NotTooMuch'
  <2>1. ASSUME NEW x \in L2!Owing', L2!Counted(x.if, x.n)' > 0 PROVE x \in L2!Owing
    BY <1>11, <1>12, <1>13, <2>1
  <2>2. finals' = finals /\ live' = live /\ recs' = recs /\ poll' = poll /\ disturbed' = disturbed
    BY <1>1
  <2>3. ReadCounted'
    BY <1>12, <2>1, <2>2 DEF L2TPBooks, ReadCounted
  <2>4. NotTooMuch'
    BY <1>2, <1>11, <1>12, <1>13, <2>2 DEF L2TPBooks, NotTooMuch
  <2> QED
    BY <2>3, <2>4
<1>15. L2!BooksBalance'
  <2>1. RowsIn(L2!Owing, sessions) /\ RowsIn(L2!Owing', sessions') /\ CountsIn(ifSeen)
    BY <1>9, OwingFacts, OwingFactsNext DEF L2TPBooks
  <2>2. RowsIn(L2!Owing, n) /\ RowsIn(L2!Owing', n) /\ n \in 1..n
    BY <1>1, <1>2, <2>1 DEF RowsIn
  <2>3. ASSUME NEW u \in Users PROVE OwedIn(L2!Owing', ifSeen, u) = OwedIn(L2!Owing, ifSeen, u)
    <3>1. \A x \in L2!Owing : x.n # n
      BY <1>1, <1>2, <2>1 DEF RowsIn, n
    <3>2. DebtIn(L2!Owing, ifSeen, u, n) = 0
      BY <2>1, <3>1, DebtFacts
    <3>3. DebtIn(L2!Owing', ifSeen, u, n) = 0
      <4>1. q \in L2!Owing' /\ q.bytes = 0 /\ q.n = n /\ CountedIn(ifSeen, q.if, q.n) = 0
        BY <1>2, <1>11, <1>13, UncountedIs
      <4> QED
        BY <2>1, <4>1, DebtFacts
    <3>4. /\ \A x \in L2!Owing : x.n # n => x \in L2!Owing'
          /\ \A x \in L2!Owing' : x.n # n => x \in L2!Owing
      BY <1>2, <1>11
    <3>5. OwedIn(L2!Owing', ifSeen, u) = OwedIn(L2!Owing, ifSeen, u) + (DebtIn(L2!Owing', ifSeen, u, n) - DebtIn(L2!Owing, ifSeen, u, n))
      BY <2>1, <2>2, <3>4, RowChanges
    <3>6. OwedIn(L2!Owing, ifSeen, u) \in Int
      BY <2>1, OwedType
    <3> QED
      BY <3>2, <3>3, <3>5, <3>6
  <2> QED
    BY <1>1, <2>3, UncountedIs DEF L2TPBooks, L2!BooksBalance
<1> QED
  BY <1>9, <1>10, <1>14, <1>15 DEF L2TPBooks

(* The structure of the books after a step at interface i that creates no  *)
(* record: sessions elsewhere are as they were.                            *)
LEMMA AtShape ==
    ASSUME Shape, L2TPUsers', L2TPBookTypes', NEW i \in Ifs, At(i), Stage(i)',
           UNCHANGED <<sessions, finals, torn, ifSeen>>,
           ppp'[i].n \in {0, ppp[i].n}, ppp[i].n # 0,
           ppp'[i].n # 0 => \A x \in finals : x.n # ppp[i].n,
           \A x \in finals : ~x.whole => x.if # i
    PROVE  Shape'
<1>1. /\ sessions' = sessions /\ finals' = finals /\ torn' = torn /\ ifSeen' = ifSeen
      /\ \A j \in Ifs : j # i => ppp'[j] = ppp[j] /\ file'[j] = file[j] /\ \A w : L2!Record(j, w)' = L2!Record(j, w)
  BY DEF At, L2!Record
<1>2. Numbered'
  <2>1. \A j, k \in Ifs : ppp'[j].n = ppp'[k].n /\ ppp'[j].n # 0 => j = k
    BY <1>1 DEF Shape, Numbered
  <2> QED
    BY <1>1, <2>1 DEF Shape, Numbered
<1>3. Stages'
  <2>1. ASSUME NEW j \in Ifs, j # i PROVE Stage(j)'
    <3>1. Stage(j)
      BY DEF Shape, Stages
    <3> QED
      BY <1>1, <2>1, <3>1 DEF Stage
  <2> QED
    BY <2>1 DEF Stages
<1>4. Records'
  <2>1. ASSUME NEW x \in finals, NEW j \in Ifs, ppp'[j].n = x.n
        PROVE  x = L2!Record(j, x.whole)' /\ ppp'[j].st = IF x.whole THEN "gone" ELSE "hook"
    <3>1. x.n # 0
      BY DEF Shape, L2TPBookTypes, Finals
    <3>2. j # i
      BY <2>1, <3>1
    <3> QED
      BY <1>1, <2>1, <3>2 DEF Shape, Records
  <2>2. \A x \in finals : ~x.whole => ppp'[x.if].n = x.n
    <3>1. \A x \in finals : x.if \in Ifs
      BY DEF Shape, L2TPBookTypes, Finals
    <3> QED
      BY <1>1, <3>1 DEF Shape, Records
  <2>3. \A x \in finals : x.n \notin torn /\ \A y \in finals : x.n = y.n => x = y
    BY DEF Shape, Records
  <2> QED
    BY <1>1, <2>1, <2>2, <2>3 DEF Records
<1> QED
  BY <1>2, <1>3, <1>4 DEF Shape

LEMMA AtLive ==
    ASSUME L2TPBooks, NEW i \in Ifs, At(i), UNCHANGED <<sessions, finals, poll, live, recs>>,
           ppp'[i].n \in {0, ppp[i].n}, ppp'[i].n # 0 => ppp'[i].user = ppp[i].user
    PROVE  ReadLive' /\ ReadRecs'
<1>1. ASSUME NEW s \in live, NEW j \in Ifs, ppp'[j].n = s.n PROVE j = s.if /\ ppp'[j].user = s.user
  <2>1. s.n # 0
    BY DEF L2TPBooks, Shape, L2TPBookTypes, Lives
  <2>2. ppp[j].n = s.n /\ ppp'[j].user = ppp[j].user
    BY <1>1, <2>1 DEF At
  <2> QED
    BY <2>2 DEF L2TPBooks, ReadLive
<1> QED
  BY <1>1 DEF L2TPBooks, ReadLive, ReadRecs

LEMMA MovesBooks ==
    ASSUME L2TPBooks, L2TPUsers', NEW i \in Ifs, L2!Moves(i)
    PROVE  L2TPBooks'
<1> DEFINE n == ppp[i].n
           a == L2!Record(i, FALSE)
           b == [if |-> i, user |-> ppp[i].user, n |-> ppp[i].n, bytes |-> ppp[i].bytes + 1, whole |-> FALSE]
<1>1. /\ ppp[i].st = "up" /\ ppp'[i] = [ppp[i] EXCEPT !.bytes = ppp[i].bytes + 1] /\ At(i) /\ file' = file
      /\ owed' = [owed EXCEPT ![ppp[i].user] = owed[ppp[i].user] + 1]
      /\ UNCHANGED <<sessions, finals, torn, poll, live, recs, ifSeen, cum, disturbed>>
  <2>1. DOMAIN ppp = Ifs
    BY DEF L2TPBooks, Shape, L2TPUsers, L2TPTypes
  <2> QED
    BY <2>1 DEF L2!Moves, L2!PPPStep, L2!Put, At, L2!pollVars
<1>2. ppp[i] \in PPPs
  BY <1>1, FieldTypes DEF L2TPBooks, Shape, L2TPUsers
<1>3. /\ ppp'[i].st = "up" /\ ppp'[i].user = ppp[i].user /\ ppp'[i].n = n /\ ppp'[i].bytes = ppp[i].bytes + 1
      /\ ppp'[i].dev = ppp[i].dev /\ n \in Nat /\ n # 0 /\ ppp[i].user \in Users /\ ppp[i].bytes \in Nat
  BY <1>1, <1>2 DEF PPPs
<1>4. /\ a.n = n /\ a.if = i /\ a.user = ppp[i].user /\ a.bytes = ppp[i].bytes
      /\ b.n = n /\ b.if = i /\ b.user = ppp[i].user /\ b.bytes = ppp[i].bytes + 1
      /\ L2!Record(i, FALSE)' = b
  BY <1>3 DEF L2!Record
<1>5. Stage(i)
  BY DEF L2TPBooks, Shape, Stages
<1>6. L2TPBookTypes'
  <2>1. owed' \in [Users -> Int]
    BY <1>1, <1>3 DEF L2TPBooks, Shape, L2TPBookTypes
  <2> QED
    BY <1>1, <2>1 DEF L2TPBooks, Shape, L2TPBookTypes
<1>7. Stage(i)' /\ n \notin torn /\ \A x \in finals : x.n # n
  BY <1>1, <1>3, <1>5 DEF Stage
<1>8. \A x \in finals : ~x.whole => x.if # i
  <2>1. \A x \in finals : ~x.whole => ppp[x.if].n = x.n
    BY DEF L2TPBooks, Shape, Records
  <2> QED
    BY <1>7, <2>1
<1>9. Shape'
  BY <1>1, <1>3, <1>6, <1>7, <1>8, AtShape DEF L2TPBooks
<1>10. ReadLive' /\ ReadRecs'
  BY <1>1, <1>3, AtLive
<1> HIDE DEF n, a, b
<1>11. /\ a \in L2!Owing /\ b \in L2!Owing'
       /\ \A x \in L2!Owing : x.n # n => x \in L2!Owing'
       /\ \A x \in L2!Owing' : x.n # n => x \in L2!Owing
  <2>1. L2!Open' = L2!Open /\ i \in L2!Open /\ L2!Open \subseteq Ifs
    BY <1>1, <1>3 DEF L2!Open, At
  <2>2. \A j \in Ifs : j # i => L2!Record(j, FALSE)' = L2!Record(j, FALSE)
    BY <1>1 DEF At, L2!Record
  <2>3. a = L2!Record(i, FALSE) /\ L2!Record(i, FALSE)' = b /\ a.n = n /\ b.n = n /\ finals' = finals
    BY <1>1, <1>4 DEF a
  <2> QED
    BY ONLY <2>1, <2>2, <2>3 DEF L2!Owing
<1>12. \A j, m : L2!Counted(j, m)' = L2!Counted(j, m)
  BY <1>1 DEF L2!Counted
<1>13. /\ RowsIn(L2!Owing, sessions) /\ RowsIn(L2!Owing', sessions) /\ CountsIn(ifSeen)
  BY <1>1, <1>9, OwingFacts, OwingFactsNext DEF L2TPBooks
<1>14. n \in 1..sessions /\ \A x \in L2!Owing : x.n = n => x = a
  BY <1>4, <1>11, <1>13 DEF RowsIn
<1>15. \A x \in L2!Owing' : x.n = n => x = b
  BY <1>4, <1>11, <1>13 DEF RowsIn
<1>16. ReadCounted' /\ NotTooMuch'
  <2>1. finals' = finals /\ live' = live /\ recs' = recs /\ poll' = poll /\ disturbed' = disturbed
    BY <1>1
  <2>2. ASSUME NEW x \in L2!Owing' PROVE \/ x \in L2!Owing
                                         \/ x = b /\ x.n = n
    BY <1>11, <1>15
  <2>3. ASSUME ~disturbed, L2!Counted(i, n) > 0, poll \in {"sessions", "finals"} PROVE \E s \in live : s.n = n
    <3>1. a \in L2!Owing /\ L2!Counted(a.if, a.n) > 0 /\ a \notin finals
      BY <1>4, <1>7, <1>11, <2>3 DEF n
    <3>2. \A k \in DOMAIN recs : recs[k] \in finals
      BY DEF L2TPBooks, ReadRecs
    <3> QED
      BY <1>4, <2>3, <3>1, <3>2 DEF L2TPBooks, ReadCounted
  <2>4. ReadCounted'
    BY <1>4, <1>12, <2>1, <2>2, <2>3 DEF L2TPBooks, ReadCounted
  <2>5. ~disturbed => L2!Counted(i, n) <= ppp[i].bytes
    BY <1>4, <1>11 DEF L2TPBooks, NotTooMuch
  <2>6. L2!Counted(i, n) \in Nat
    BY <1>13, DebtFacts, UncountedIs
  <2>7. NotTooMuch'
    BY <1>3, <1>4, <1>12, <2>1, <2>2, <2>5, <2>6 DEF L2TPBooks, NotTooMuch
  <2> QED
    BY <2>4, <2>7
<1>17. L2!BooksBalance'
  <2>1. ASSUME NEW u \in Users
        PROVE  OwedIn(L2!Owing', ifSeen, u) = OwedIn(L2!Owing, ifSeen, u) + (owed'[u] - owed[u])
    <3>1. OwedIn(L2!Owing', ifSeen, u) = OwedIn(L2!Owing, ifSeen, u) + (DebtIn(L2!Owing', ifSeen, u, n) - DebtIn(L2!Owing, ifSeen, u, n))
      BY <1>11, <1>13, <1>14, RowChanges
    <3>2. /\ DebtIn(L2!Owing, ifSeen, u, n) = IF ppp[i].user = u THEN ppp[i].bytes - CountedIn(ifSeen, i, n) ELSE 0
          /\ CountedIn(ifSeen, i, n) \in Nat
      BY <1>4, <1>11, <1>13, DebtFacts
    <3>3. DebtIn(L2!Owing', ifSeen, u, n) = IF ppp[i].user = u THEN (ppp[i].bytes + 1) - CountedIn(ifSeen, i, n) ELSE 0
      <4>1. DebtIn(L2!Owing', ifSeen, u, b.n) = IF b.user = u THEN b.bytes - CountedIn(ifSeen, b.if, b.n) ELSE 0
        BY <1>11, <1>13, DebtFacts
      <4> QED
        BY <1>4, <4>1
    <3>4. owed'[u] - owed[u] = IF ppp[i].user = u THEN 1 ELSE 0
      BY <1>1 DEF L2TPBooks, Shape, L2TPBookTypes
    <3> QED
      BY <1>3, <3>1, <3>2, <3>3, <3>4
  <2>2. ASSUME NEW u \in Users PROVE OwedIn(L2!Owing, ifSeen, u) \in Int /\ cum[u] \in Int /\ owed[u] \in Int /\ owed'[u] \in Int
    BY <1>6, <1>13, OwedType DEF L2TPBooks, Shape, L2TPBookTypes
  <2>3. \A u \in Users : /\ L2!Uncounted(u) = OwedIn(L2!Owing, ifSeen, u)
                         /\ L2!Uncounted(u)' = OwedIn(L2!Owing', ifSeen, u)
    BY <1>1, UncountedIs
  <2> QED
    BY <1>1, <2>1, <2>2, <2>3 DEF L2TPBooks, L2!BooksBalance
<1> QED
  BY <1>9, <1>10, <1>16, <1>17 DEF L2TPBooks

LEMMA StillBalanced ==
    ASSUME L2TPBooks, Shape', UNCHANGED <<ifSeen, cum, disturbed>>,
           ~disturbed => \A u \in Users : OwedIn(L2!Owing', ifSeen, u) = OwedIn(L2!Owing, ifSeen, u) + (owed'[u] - owed[u])
    PROVE  L2!BooksBalance'
<1>1. /\ RowsIn(L2!Owing, sessions) /\ CountsIn(ifSeen)
  BY OwingFacts DEF L2TPBooks
<1>2. ASSUME NEW u \in Users PROVE OwedIn(L2!Owing, ifSeen, u) \in Int /\ cum[u] \in Int /\ owed[u] \in Int /\ owed'[u] \in Int
  BY <1>1, OwedType DEF L2TPBooks, Shape, L2TPBookTypes
<1>3. \A u \in Users : /\ L2!Uncounted(u) = OwedIn(L2!Owing, ifSeen, u)
                       /\ L2!Uncounted(u)' = OwedIn(L2!Owing', ifSeen, u)
  BY UncountedIs
<1> QED
  BY <1>2, <1>3 DEF L2TPBooks, L2!BooksBalance

(* A pppd is gone: with it goes what was not counted, unless its record    *)
(* stays behind.                                                           *)
LEMMA PppGoneBooks ==
    ASSUME L2TPBooks, L2TPUsers', NEW i \in Ifs, At(i), ppp[i].st \in {"up", "term", "gone"}, ppp'[i] = L2!NoPPP,
           UNCHANGED <<sessions, finals, torn, poll, live, recs, ifSeen, cum, disturbed>>,
           owed' \in [Users -> Int],
           ~disturbed => owed' = IF i \in L2!Open THEN L2!WrittenOff(i) ELSE owed
    PROVE  L2TPBooks'
<1> DEFINE n == ppp[i].n
           a == L2!Record(i, FALSE)
<1>1. ppp[i] \in PPPs
  BY FieldTypes DEF L2TPBooks, Shape, L2TPUsers
<1>2. /\ n \in Nat /\ n # 0 /\ ppp[i].user \in Users /\ ppp[i].bytes \in Nat
      /\ ppp'[i].st = "none" /\ ppp'[i].n = 0
      /\ a.n = n /\ a.if = i /\ a.user = ppp[i].user /\ a.bytes = ppp[i].bytes
  BY <1>1, NoSession DEF PPPs, L2!Record
<1>3. L2TPBookTypes'
  BY DEF L2TPBooks, Shape, L2TPBookTypes
<1>4. Stage(i)'
  BY <1>2 DEF Stage
<1>5. \A x \in finals : ~x.whole => x.if # i
  <2>1. \A x \in finals : ~x.whole => ppp[x.if].n = x.n /\ x.if \in Ifs
    BY DEF L2TPBooks, Shape, Records, L2TPBookTypes, Finals
  <2>2. \A x \in finals : \A j \in Ifs : ppp[j].n = x.n => ppp[j].st = IF x.whole THEN "gone" ELSE "hook"
    BY DEF L2TPBooks, Shape, Records
  <2> QED
    BY <2>1, <2>2
<1>6. Shape'
  BY <1>2, <1>3, <1>4, <1>5, AtShape DEF L2TPBooks
<1>7. ReadLive' /\ ReadRecs'
  BY <1>2, AtLive
<1> HIDE DEF n, a
<1>8. /\ RowsIn(L2!Owing, sessions) /\ RowsIn(L2!Owing', sessions) /\ CountsIn(ifSeen)
  BY <1>6, OwingFacts, OwingFactsNext DEF L2TPBooks
<1>9. /\ L2!Open' = L2!Open \ {i} /\ L2!Open \subseteq Ifs
      /\ \A j \in Ifs : j # i => L2!Record(j, FALSE)' = L2!Record(j, FALSE)
      /\ finals' = finals
  <2>1. 0 \notin torn
    BY DEF L2TPBooks, Shape, L2TPBookTypes
  <2> QED
    BY <1>2, <2>1 DEF L2!Open, At, L2!Record
<1>10. /\ i \notin L2!Open => L2!Owing' = L2!Owing
       /\ i \in L2!Open => a \in L2!Owing
       /\ \A x \in L2!Owing' : x \in L2!Owing
       /\ \A x \in L2!Owing : x # a => x \in L2!Owing'
  BY ONLY <1>9 DEF L2!Owing, a
<1>11. ASSUME i \in L2!Open PROVE a \notin L2!Owing'
  <2>1. n \notin {x.n : x \in finals}
    <3>1. Stage(i) /\ \A x \in finals : x.n \notin torn
      BY DEF L2TPBooks, Shape, Stages, Records
    <3>2. ppp[i].st \in {"auth", "up", "term"} \/ n \in torn
      BY <1>11 DEF L2!Open, n
    <3> QED
      BY <3>1, <3>2 DEF Stage, n
  <2>2. \A j \in Ifs : j # i => ppp[j].n # n
    BY <1>2 DEF L2TPBooks, Shape, Numbered, n
  <2>3. \A j \in Ifs : L2!Record(j, FALSE).n = ppp[j].n
    BY DEF L2!Record
  <2>4. a \notin finals /\ \A j \in L2!Open' : L2!Record(j, FALSE)' # a
    BY <1>2, <1>9, <2>1, <2>2, <2>3
  <2> QED
    BY ONLY <1>9, <2>4 DEF L2!Owing
<1>12. \A j, m : L2!Counted(j, m)' = L2!Counted(j, m)
  BY DEF L2!Counted
<1>13. ReadCounted' /\ NotTooMuch'
  BY <1>10, <1>12 DEF L2TPBooks, ReadCounted, NotTooMuch
<1>14. L2!BooksBalance'
  <2>1. ASSUME ~disturbed, NEW u \in Users
        PROVE  OwedIn(L2!Owing', ifSeen, u) = OwedIn(L2!Owing, ifSeen, u) + (owed'[u] - owed[u])
    <3>1. owed[u] \in Int /\ OwedIn(L2!Owing, ifSeen, u) \in Int
      BY <1>8, OwedType DEF L2TPBooks, Shape, L2TPBookTypes
    <3>2. CASE i \notin L2!Open
      BY <1>10, <2>1, <3>1, <3>2
    <3>3. CASE i \in L2!Open
      <4>1. /\ DebtIn(L2!Owing, ifSeen, u, n) = IF ppp[i].user = u THEN ppp[i].bytes - CountedIn(ifSeen, i, n) ELSE 0
            /\ CountedIn(ifSeen, i, n) \in Nat
        BY <1>2, <1>8, <1>10, <3>3, DebtFacts
      <4>2. \A x \in L2!Owing' : x.n # n
        BY <1>2, <1>8, <1>10, <1>11, <3>3 DEF RowsIn
      <4>3. DebtIn(L2!Owing', ifSeen, u, n) = 0
        BY <1>8, <4>2, DebtFacts
      <4>4. n \in 1..sessions
        BY <1>2, <1>8, <1>10, <3>3 DEF RowsIn
      <4>5. /\ \A x \in L2!Owing : x.n # n => x \in L2!Owing'
            /\ \A x \in L2!Owing' : x.n # n => x \in L2!Owing
        BY <1>2, <1>10
      <4>6. OwedIn(L2!Owing', ifSeen, u) = OwedIn(L2!Owing, ifSeen, u) + (DebtIn(L2!Owing', ifSeen, u, n) - DebtIn(L2!Owing, ifSeen, u, n))
        BY <1>8, <4>4, <4>5, RowChanges
      <4>7. owed' = [owed EXCEPT ![ppp[i].user] = owed[ppp[i].user] - (ppp[i].bytes - CountedIn(ifSeen, i, n))]
        BY <2>1, <3>3, UncountedIs DEF L2!WrittenOff, n
      <4>8. owed'[u] = IF ppp[i].user = u THEN owed[u] - (ppp[i].bytes - CountedIn(ifSeen, i, n)) ELSE owed[u]
        BY <4>7 DEF L2TPBooks, Shape, L2TPBookTypes
      <4> QED
        BY <1>2, <3>1, <4>1, <4>3, <4>6, <4>8
    <3> QED
      BY <3>2, <3>3
  <2> QED
    BY <1>6, <2>1, StillBalanced
<1> QED
  BY <1>6, <1>7, <1>13, <1>14 DEF L2TPBooks

LEMMA LeavingBooks ==
    ASSUME L2TPBooks, L2TPUsers', NEW i \in Ifs,
           \/ L2!Killed(i) \/ L2!IpDownCleans(i)
           \/ L2!IpDown(i) /\ file[i].n # ppp[i].n
    PROVE  L2TPBooks'
<1>1. /\ UNCHANGED <<sessions, finals, torn, poll, live, recs, ifSeen, cum, disturbed>>
      /\ ppp' = [ppp EXCEPT ![i] = L2!NoPPP] /\ ppp[i].st \in {"up", "term", "gone"}
      /\ file' = file \/ file' = [file EXCEPT ![i] = L2!NoFile]
  BY DEF L2!Killed, L2!IpDown, L2!IpDownCleans, L2!PPPStep, L2!Put, L2!pollVars
<1>2. DOMAIN ppp = Ifs /\ DOMAIN file = Ifs /\ ppp[i] \in PPPs
  BY <1>1, FieldTypes DEF L2TPBooks, Shape, L2TPUsers, L2TPTypes
<1>3. At(i) /\ ppp'[i] = L2!NoPPP
  BY <1>1, <1>2 DEF At
<1>4. RowsIn(L2!Owing, sessions) /\ CountsIn(ifSeen) /\ owed \in [Users -> Int] /\ L2!Counted(i, ppp[i].n) \in Nat
      /\ ppp[i].user \in Users /\ ppp[i].bytes \in Nat
  <2>1. RowsIn(L2!Owing, sessions) /\ CountsIn(ifSeen) /\ owed \in [Users -> Int]
    BY OwingFacts DEF L2TPBooks, Shape, L2TPBookTypes
  <2> QED
    BY <1>2, <2>1, DebtFacts, UncountedIs DEF PPPs
<1>5. L2!WrittenOff(i) \in [Users -> Int]
  BY <1>4 DEF L2!WrittenOff
<1>6. CASE L2!Killed(i)
  <2>1. owed' = L2!WrittenOff(i) /\ i \in L2!Open
    BY <1>6 DEF L2!Killed, L2!Open
  <2> QED
    BY <1>1, <1>3, <1>5, <2>1, PppGoneBooks
<1>7. CASE L2!IpDownCleans(i)
  <2>1. ppp[i].st = "gone" /\ owed' = IF ppp[i].n \in torn THEN L2!WrittenOff(i) ELSE owed
    BY <1>7 DEF L2!IpDownCleans
  <2>2. owed' = IF i \in L2!Open THEN L2!WrittenOff(i) ELSE owed
    BY <2>1 DEF L2!Open
  <2>3. owed' \in [Users -> Int]
    BY <1>4, <1>5, <2>2
  <2> QED
    BY <1>1, <1>3, <2>2, <2>3, PppGoneBooks
<1>8. CASE L2!IpDown(i) /\ file[i].n # ppp[i].n
  <2>1. ppp[i].st = "term" /\ owed' = owed /\ i \in L2!Open
    BY <1>8 DEF L2!IpDown, L2!Open
  <2>2. ppp[i].bytes = 0
    BY <1>8, <2>1 DEF L2TPBooks, Shape, Stages, Stage
  <2>3. ~disturbed => L2!Counted(i, ppp[i].n) = 0
    <3>1. L2!Record(i, FALSE) \in L2!Owing /\ L2!Record(i, FALSE).bytes = 0 /\ L2!Record(i, FALSE).if = i
          /\ L2!Record(i, FALSE).n = ppp[i].n
      BY <2>1, <2>2 DEF L2!Owing, L2!Record
    <3>2. ~disturbed => L2!Counted(i, ppp[i].n) <= 0
      BY <3>1 DEF L2TPBooks, NotTooMuch
    <3> QED
      BY <1>4, <3>2
  <2>4. ~disturbed => L2!WrittenOff(i) = owed
    BY <1>4, <2>2, <2>3 DEF L2!WrittenOff
  <2>5. owed' \in [Users -> Int]
    BY <1>4, <2>1
  <2>6. ~disturbed => owed' = IF i \in L2!Open THEN L2!WrittenOff(i) ELSE owed
    BY <2>1, <2>4
  <2> QED
    BY <1>1, <1>3, <2>5, <2>6, PppGoneBooks
<1> QED
  BY <1>6, <1>7, <1>8

(* The hook creates the record.                                            *)
LEMMA IpDownBooks ==
    ASSUME L2TPBooks, L2TPUsers', NEW i \in Ifs, L2!IpDown(i), file[i].n = ppp[i].n
    PROVE  L2TPBooks'
<1>0. PICK n, a : n = ppp[i].n /\ a = L2!Record(i, FALSE)
  OBVIOUS
<1>1. /\ UNCHANGED <<sessions, file, torn, poll, live, recs, ifSeen, cum, owed, disturbed>>
      /\ ppp[i].st = "term" /\ finals' = finals \cup {a}
  BY <1>0 DEF L2!IpDown, L2!PPPStep, L2!pollVars
<1>2. PICK dev \in BOOLEAN : ppp' = [ppp EXCEPT ![i] = [ppp[i] EXCEPT !.st = "hook", !.dev = dev]]
  BY DEF L2!IpDown, L2!Put
<1>3. DOMAIN ppp = Ifs /\ ppp[i] \in PPPs
  BY <1>1, FieldTypes DEF L2TPBooks, Shape, L2TPUsers, L2TPTypes
<1>4. /\ At(i) /\ ppp'[i].st = "hook" /\ ppp'[i].n = n /\ ppp'[i].user = ppp[i].user /\ ppp'[i].bytes = ppp[i].bytes
      /\ n \in Nat /\ n # 0
  BY <1>0, <1>1, <1>2, <1>3 DEF At, PPPs
<1>5. /\ \A j \in Ifs : \A w : L2!Record(j, w)' = L2!Record(j, w)
      /\ \A j \in Ifs : ppp'[j].n = ppp[j].n /\ ppp'[j].user = ppp[j].user
      /\ a.n = n /\ a.if = i /\ a.user = ppp[i].user /\ a.bytes = ppp[i].bytes /\ ~a.whole /\ a.whole = FALSE
      /\ a \in Finals
  BY <1>0, <1>3, <1>4 DEF At, L2!Record, PPPs, Finals
<1>6. /\ n \notin torn /\ (\A x \in finals : x.n # n) /\ n <= sessions
      /\ \A j \in Ifs : ppp[j].n = n => j = i
  <2>1. Stage(i)
    BY DEF L2TPBooks, Shape, Stages
  <2>2. n <= sessions /\ \A j \in Ifs : ppp[j].n = n => j = i
    BY <1>0, <1>4 DEF L2TPBooks, Shape, L2TPUsers, FilesMatch, Numbered
  <2> QED
    BY <1>0, <1>1, <2>1, <2>2 DEF Stage
<1>7. a = L2!Record(i, FALSE) /\ a = L2!Record(i, FALSE)'
  BY <1>0, <1>5
<1>8. L2TPBookTypes'
  BY <1>1, <1>5 DEF L2TPBooks, Shape, L2TPBookTypes
<1>9. Numbered'
  BY <1>1, <1>5, <1>6 DEF L2TPBooks, Shape, Numbered
<1>10. Stages'
  <2>1. ASSUME NEW j \in Ifs, j # i PROVE Stage(j)'
    <3>1. Stage(j)
      BY DEF L2TPBooks, Shape, Stages
    <3>2. ppp'[j] = ppp[j] /\ file'[j] = file[j] /\ L2!Record(j, FALSE)' = L2!Record(j, FALSE) /\ ppp[j].n # a.n
      BY <1>1, <1>4, <1>5, <1>6, <2>1 DEF At
    <3> QED
      BY <1>1, <3>1, <3>2 DEF Stage
  <2>2. Stage(i)'
    BY <1>0, <1>1, <1>4, <1>7 DEF Stage
  <2> QED
    BY <2>1, <2>2 DEF Stages
<1>11. Records'
  <2>1. ASSUME NEW x \in finals, NEW j \in Ifs, ppp'[j].n = x.n
        PROVE  x = L2!Record(j, x.whole)' /\ ppp'[j].st = IF x.whole THEN "gone" ELSE "hook"
    <3>1. j # i /\ ppp[j].n = x.n
      BY <1>4, <1>5, <1>6, <2>1
    <3> QED
      BY <1>4, <1>5, <2>1, <3>1 DEF L2TPBooks, Shape, Records, At
  <2>2. ASSUME NEW j \in Ifs, ppp'[j].n = a.n
        PROVE  a = L2!Record(j, a.whole)' /\ ppp'[j].st = IF a.whole THEN "gone" ELSE "hook"
    <3>1. j = i
      BY <1>5, <1>6, <2>2
    <3> QED
      BY <1>4, <1>5, <1>7, <3>1
  <2>3. \A x \in finals' : ~x.whole => ppp'[x.if].n = x.n
    <3>1. \A x \in finals : x.if \in Ifs
      BY DEF L2TPBooks, Shape, L2TPBookTypes, Finals
    <3> QED
      BY <1>1, <1>4, <1>5, <3>1 DEF L2TPBooks, Shape, Records
  <2>4. \A x \in finals' : x.n \notin torn /\ \A y \in finals' : x.n = y.n => x = y
    BY <1>1, <1>5, <1>6 DEF L2TPBooks, Shape, Records
  <2>5. ASSUME NEW x \in finals', NEW j \in Ifs, ppp'[j].n = x.n
        PROVE  x = L2!Record(j, x.whole)' /\ ppp'[j].st = IF x.whole THEN "gone" ELSE "hook"
    BY <1>1, <2>1, <2>2, <2>5
  <2> QED
    BY <1>1, <2>3, <2>4, <2>5 DEF Records
<1>12. Shape'
  BY <1>8, <1>9, <1>10, <1>11 DEF Shape
<1>13. ReadLive' /\ ReadRecs'
  <2>1. \A s \in live : a.n = s.n => a.if = s.if /\ a.user = s.user
    <3> SUFFICES ASSUME NEW s \in live, a.n = s.n PROVE a.if = s.if /\ a.user = s.user
      OBVIOUS
    <3>1. ppp[i].n = s.n => i = s.if /\ ppp[i].user = s.user
      BY DEF L2TPBooks, ReadLive
    <3> QED
      BY <1>0, <1>5, <3>1
  <2>2. ReadLive'
    BY <1>1, <1>5, <2>1 DEF L2TPBooks, ReadLive
  <2>3. ReadRecs'
    BY <1>1 DEF L2TPBooks, ReadRecs
  <2> QED
    BY <2>2, <2>3
<1>14. L2!Owing' = L2!Owing
  <2>1. L2!Open' = L2!Open \ {i} /\ i \in L2!Open /\ L2!Open \subseteq Ifs
    BY <1>1, <1>4, <1>6 DEF L2!Open, At
  <2> QED
    <3>1. {L2!Record(j, FALSE) : j \in L2!Open} = {L2!Record(j, FALSE) : j \in L2!Open \ {i}} \cup {a}
      BY <1>7, <2>1
    <3>2. {L2!Record(j, FALSE)' : j \in L2!Open'} = {L2!Record(j, FALSE) : j \in L2!Open \ {i}}
      <4>1. \A j \in L2!Open' : L2!Record(j, FALSE)' = L2!Record(j, FALSE)
        BY <1>5, <2>1
      <4> QED
        BY ONLY <2>1, <4>1
    <3> QED
      BY ONLY <1>1, <3>1, <3>2 DEF L2!Owing
<1>15. \A j, m : L2!Counted(j, m)' = L2!Counted(j, m)
  BY <1>1 DEF L2!Counted
<1>16. ReadCounted' /\ NotTooMuch'
  <2>1. finals \subseteq finals' /\ live' = live /\ recs' = recs /\ poll' = poll /\ disturbed' = disturbed
    BY <1>1
  <2> QED
    BY <1>14, <1>15, <2>1 DEF L2TPBooks, ReadCounted, NotTooMuch
<1>17. L2!BooksBalance'
  BY <1>1, <1>14, UncountedIs DEF L2TPBooks, L2!BooksBalance
<1> QED
  BY <1>12, <1>13, <1>16, <1>17 DEF L2TPBooks

(* The hook fills its record.                                              *)
LEMMA IpDownWritesBooks ==
    ASSUME L2TPBooks, L2TPUsers', NEW i \in Ifs, L2!IpDownWrites(i), L2!Record(i, FALSE) \in finals
    PROVE  L2TPBooks'
<1>0. PICK n, a, b : n = ppp[i].n /\ a = L2!Record(i, FALSE) /\ b = L2!Record(i, TRUE)
  OBVIOUS
<1>1. /\ UNCHANGED <<sessions, file, torn, poll, live, recs, ifSeen, cum, owed, disturbed>>
      /\ ppp[i].st = "hook" /\ a \in finals /\ finals' = (finals \ {a}) \cup {b}
      /\ ppp' = [ppp EXCEPT ![i] = [ppp[i] EXCEPT !.st = "gone"]]
  BY <1>0 DEF L2!IpDownWrites, L2!PPPStep, L2!Put, L2!pollVars
<1>2. DOMAIN ppp = Ifs /\ ppp[i] \in PPPs
  BY <1>1, FieldTypes DEF L2TPBooks, Shape, L2TPUsers, L2TPTypes
<1>3. /\ At(i) /\ ppp'[i].st = "gone" /\ Same(ppp'[i], ppp[i]) /\ n \in Nat /\ n # 0
  BY <1>0, <1>1, <1>2 DEF At, PPPs, Same
<1>4. /\ \A j \in Ifs : \A w : L2!Record(j, w)' = L2!Record(j, w)
      /\ \A j \in Ifs : ppp'[j].n = ppp[j].n /\ ppp'[j].user = ppp[j].user
      /\ b = L2!Record(i, TRUE)'
  BY <1>0, <1>3 DEF At, L2!Record, Same
<1>5. /\ a.n = n /\ a.if = i /\ a.user = ppp[i].user /\ a.bytes = ppp[i].bytes /\ ~a.whole /\ a.whole = FALSE
      /\ b.n = n /\ b.if = i /\ b.user = ppp[i].user /\ b.bytes = ppp[i].bytes /\ b.whole /\ b.whole = TRUE
      /\ b \in Finals
  BY <1>0, <1>2 DEF L2!Record, PPPs, Finals
<1>6. /\ n \notin torn /\ (\A x \in finals : x.n = n => x = a) /\ n <= sessions
      /\ \A j \in Ifs : ppp[j].n = n => j = i
  <2>1. n \notin torn /\ \A x \in finals : x.n = n => x = a
    BY <1>1, <1>5 DEF L2TPBooks, Shape, Records
  <2>2. n <= sessions /\ \A j \in Ifs : ppp[j].n = n => j = i
    BY <1>0, <1>3 DEF L2TPBooks, Shape, L2TPUsers, FilesMatch, Numbered
  <2> QED
    BY <2>1, <2>2
<1>7. L2TPBookTypes'
  BY <1>1, <1>5 DEF L2TPBooks, Shape, L2TPBookTypes
<1>8. Numbered'
  <2>1. \A x \in finals' : x.n <= sessions
    BY <1>1, <1>5, <1>6 DEF L2TPBooks, Shape, Numbered
  <2>2. \A j, k \in Ifs : ppp'[j].n = ppp'[k].n /\ ppp'[j].n # 0 => j = k
    BY <1>4 DEF L2TPBooks, Shape, Numbered
  <2> QED
    BY <1>1, <2>1, <2>2 DEF L2TPBooks, Shape, Numbered
<1>9. Stages'
  <2>1. ASSUME NEW j \in Ifs, j # i PROVE Stage(j)'
    <3>1. Stage(j)
      BY DEF L2TPBooks, Shape, Stages
    <3>2. ppp'[j] = ppp[j] /\ file'[j] = file[j] /\ L2!Record(j, FALSE)' = L2!Record(j, FALSE) /\ ppp[j].n # n
      BY <1>1, <1>3, <1>4, <1>6, <2>1 DEF At
    <3>3. L2!Record(j, FALSE) # a
      BY <1>5, <2>1 DEF L2!Record
    <3>4. ppp[j].st = "hook" => L2!Record(j, FALSE) \in finals' \/ ppp[j].n \in torn'
      BY <1>1, <3>1, <3>3 DEF Stage
    <3>5. (\A x \in finals : x.n # ppp[j].n) => \A x \in finals' : x.n # ppp[j].n
      BY <1>1, <1>5, <3>2
    <3>6. torn' = torn
      BY <1>1
    <3> QED
      BY <3>1, <3>2, <3>4, <3>5, <3>6 DEF Stage
  <2>2. Stage(i)'
    <3>1. Stage(i)
      BY DEF L2TPBooks, Shape, Stages
    <3> QED
      BY <1>1, <1>3, <3>1 DEF Stage, Same
  <2> QED
    BY <2>1, <2>2 DEF Stages
<1>10. Records'
  <2>1. ASSUME NEW x \in finals, x # a, NEW j \in Ifs, ppp'[j].n = x.n
        PROVE  x = L2!Record(j, x.whole)' /\ ppp'[j].st = IF x.whole THEN "gone" ELSE "hook"
    <3>1. j # i /\ ppp[j].n = x.n
      BY <1>0, <1>4, <1>6, <2>1
    <3>2. x = L2!Record(j, x.whole) /\ ppp[j].st = IF x.whole THEN "gone" ELSE "hook"
      BY <3>1 DEF L2TPBooks, Shape, Records
    <3> QED
      BY <1>3, <1>4, <3>1, <3>2 DEF At
  <2>2. ASSUME NEW j \in Ifs, ppp'[j].n = b.n
        PROVE  b = L2!Record(j, b.whole)' /\ ppp'[j].st = IF b.whole THEN "gone" ELSE "hook"
    <3>1. j = i
      BY <1>4, <1>5, <1>6, <2>2
    <3> QED
      BY <1>3, <1>4, <1>5, <3>1
  <2>3. \A x \in finals' : ~x.whole => ppp'[x.if].n = x.n
    <3>1. \A x \in finals : x.if \in Ifs
      BY DEF L2TPBooks, Shape, L2TPBookTypes, Finals
    <3>2. \A x \in finals : ~x.whole => ppp[x.if].n = x.n
      BY DEF L2TPBooks, Shape, Records
    <3>3. \A x \in finals : ~x.whole => ppp'[x.if].n = x.n
      BY <1>4, <3>1, <3>2
    <3> QED
      BY <1>1, <1>5, <3>3
  <2>4. \A x \in finals' : x.n \notin torn /\ \A y \in finals' : x.n = y.n => x = y
    <3>1. \A x \in finals : x.n \notin torn /\ \A y \in finals : x.n = y.n => x = y
      BY DEF L2TPBooks, Shape, Records
    <3> QED
      BY <1>1, <1>5, <1>6, <3>1
  <2>5. ASSUME NEW x \in finals', NEW j \in Ifs, ppp'[j].n = x.n
        PROVE  x = L2!Record(j, x.whole)' /\ ppp'[j].st = IF x.whole THEN "gone" ELSE "hook"
    BY <1>1, <2>1, <2>2, <2>5
  <2> QED
    BY <1>1, <2>3, <2>4, <2>5 DEF Records
<1>11. Shape'
  BY <1>7, <1>8, <1>9, <1>10 DEF Shape
<1>12. ReadLive' /\ ReadRecs'
  <2>1. \A s \in live : b.n = s.n => b.if = s.if /\ b.user = s.user
    BY <1>1, <1>5 DEF L2TPBooks, ReadLive
  <2>2. ReadLive'
    <3>1. ASSUME NEW s \in live, NEW x \in finals', x.n = s.n PROVE x.if = s.if /\ x.user = s.user
      BY <1>1, <2>1, <3>1 DEF L2TPBooks, ReadLive
    <3>2. ASSUME NEW s \in live, NEW j \in Ifs, ppp'[j].n = s.n PROVE j = s.if /\ ppp'[j].user = s.user
      BY <1>4, <3>2 DEF L2TPBooks, ReadLive
    <3> QED
      BY <1>1, <3>1, <3>2 DEF L2TPBooks, ReadLive
  <2>3. ReadRecs'
    BY <1>1, <1>5 DEF L2TPBooks, ReadRecs
  <2> QED
    BY <2>2, <2>3
<1>13. L2!Owing' = (L2!Owing \ {a}) \cup {b}
  <2>1. L2!Open' = L2!Open /\ i \notin L2!Open /\ L2!Open \subseteq Ifs
    BY <1>0, <1>1, <1>3, <1>6 DEF L2!Open, At, Same
  <2>2. \A j \in L2!Open : L2!Record(j, FALSE)' = L2!Record(j, FALSE) /\ L2!Record(j, FALSE) # a
    <3>1. \A j \in Ifs : L2!Record(j, FALSE).if = j
      BY DEF L2!Record
    <3>2. \A j \in L2!Open : j # i /\ j \in Ifs
      BY <2>1
    <3>3. \A j \in L2!Open : L2!Record(j, FALSE)' = L2!Record(j, FALSE)
      BY <1>4, <3>2
    <3>4. ASSUME NEW j \in L2!Open PROVE L2!Record(j, FALSE) # a
      <4>1. L2!Record(j, FALSE).if # a.if
        BY <1>5, <3>1, <3>2
      <4> QED
        BY <4>1
    <3> QED
      BY <3>3, <3>4
  <2>3. finals' = (finals \ {a}) \cup {b}
    BY <1>1
  <2> QED
    BY ONLY <2>1, <2>2, <2>3 DEF L2!Owing
<1>14. a \in L2!Owing /\ b \in L2!Owing' /\ \A j, m : L2!Counted(j, m)' = L2!Counted(j, m)
  BY <1>1, <1>13 DEF L2!Owing, L2!Counted
<1>15. ReadCounted' /\ NotTooMuch'
  <2>1. live' = live /\ recs' = recs /\ poll' = poll /\ disturbed' = disturbed
    BY <1>1
  <2>2. \A x \in finals : x # a => x \in finals'
    BY <1>1
  <2>3. \A k \in DOMAIN recs : recs[k] # a
    BY <1>5 DEF L2TPBooks, ReadRecs
  <2>4. ASSUME ~disturbed, NEW x \in L2!Owing', L2!Counted(x.if, x.n)' > 0
        PROVE  /\ poll = "sessions" => (\E s \in live : s.n = x.n) \/ (x \in finals' /\ x.whole)
               /\ poll = "finals" => (\E s \in live : s.n = x.n) \/ \E k \in DOMAIN recs : recs[k] = x
    <3>1. CASE x \in L2!Owing /\ x # a
      BY <1>14, <2>2, <2>4, <3>1 DEF L2TPBooks, ReadCounted
    <3>2. CASE x = b
      <4>1. L2!Counted(a.if, a.n) > 0 /\ a.n = x.n
        BY <1>5, <1>14, <2>4, <3>2
      <4> QED
        BY <1>5, <1>14, <2>3, <2>4, <4>1 DEF L2TPBooks, ReadCounted
    <3> QED
      BY <1>13, <3>1, <3>2
  <2>5. ReadCounted'
    BY <2>1, <2>4 DEF ReadCounted
  <2>6. NotTooMuch'
    BY <1>5, <1>13, <1>14, <2>1 DEF L2TPBooks, NotTooMuch
  <2> QED
    BY <2>5, <2>6
<1>16. L2!BooksBalance'
  <2>1. RowsIn(L2!Owing, sessions) /\ RowsIn(L2!Owing', sessions) /\ CountsIn(ifSeen)
    BY <1>1, <1>11, OwingFacts, OwingFactsNext DEF L2TPBooks
  <2>2. ASSUME NEW u \in Users
        PROVE  OwedIn(L2!Owing', ifSeen, u) = OwedIn(L2!Owing, ifSeen, u) + (owed'[u] - owed[u])
    <3>1. DebtIn(L2!Owing, ifSeen, u, n) = DebtIn(L2!Owing', ifSeen, u, n) /\ DebtIn(L2!Owing, ifSeen, u, n) \in Int
      BY <1>5, <1>14, <2>1, DebtFacts
    <3>2. n \in 1..sessions
      BY <1>5, <1>14, <2>1 DEF RowsIn
    <3>3. OwedIn(L2!Owing', ifSeen, u) = OwedIn(L2!Owing, ifSeen, u) + (DebtIn(L2!Owing', ifSeen, u, n) - DebtIn(L2!Owing, ifSeen, u, n))
      <4>1. /\ \A x \in L2!Owing : x.n # n => x \in L2!Owing'
            /\ \A x \in L2!Owing' : x.n # n => x \in L2!Owing
        BY <1>5, <1>13
      <4> QED
        BY <2>1, <3>2, <4>1, RowChanges
    <3>4. owed'[u] - owed[u] = 0
      BY <1>1 DEF L2TPBooks, Shape, L2TPBookTypes
    <3> QED
      BY <3>1, <3>3, <3>4
  <2> QED
    BY <1>1, <1>11, <2>2, StillBalanced
<1> QED
  BY <1>11, <1>12, <1>15, <1>16 DEF L2TPBooks

LEMMA PollSessionsBooks == ASSUME L2TPBooks, L2TPUsers', L2!PollSessions PROVE L2TPBooks'
<1>1. /\ UNCHANGED <<ppp, sessions, finals, recs, ifSeen, cum, owed, torn, disturbed>>
      /\ poll = "idle" /\ poll' = "sessions" /\ file' = L2!Swept
      /\ live' = {[if |-> i, user |-> file[i].user, n |-> file[i].n] : i \in L2!ReadSessions}
  BY DEF L2!PollSessions
<1>2. Shift
  BY <1>1 DEF Shift, L2!Swept
<1>3. ASSUME NEW i \in L2!ReadSessions
      PROVE  i \in Ifs /\ file[i] \in Files /\ file[i].n = ppp[i].n /\ file[i].user = ppp[i].user /\ file[i].n <= sessions
  BY FieldTypes DEF L2TPBooks, Shape, L2TPUsers, FilesMatch, L2!ReadSessions, L2!SessionIsAlive
<1>4. ASSUME NEW s \in live'
      PROVE  s \in Lives /\ s.if \in Ifs /\ s.n = ppp[s.if].n /\ s.user = ppp[s.if].user /\ s.n <= sessions
             /\ s = [if |-> s.if, user |-> s.user, n |-> s.n] /\ s.n # 0
  <2>1. PICK i \in L2!ReadSessions : s = [if |-> i, user |-> file[i].user, n |-> file[i].n]
    BY <1>1
  <2> QED
    BY <1>3, <2>1 DEF Files, Lives
<1>5. L2TPBookTypes'
  BY <1>1, <1>4 DEF L2TPBooks, Shape, L2TPBookTypes
<1>6. Shape' /\ L2!Owing' = L2!Owing
  BY <1>2, <1>5, ShiftShape DEF L2TPBooks
<1>7. ReadLive'
  <2>1. ASSUME NEW s \in live', NEW j \in Ifs, ppp[j].n = s.n PROVE j = s.if /\ ppp[j].user = s.user
    BY <1>4, <2>1 DEF L2TPBooks, Shape, Numbered
  <2>2. ASSUME NEW s \in live', NEW t \in live', s.if = t.if \/ s.n = t.n PROVE s = t
    <3>1. s.if = t.if
      BY <1>4, <2>1, <2>2
    <3> QED
      BY <1>4, <3>1
  <2>3. ASSUME NEW s \in live', NEW x \in finals, x.n = s.n PROVE x.if = s.if /\ x.user = s.user
    <3>1. ppp[s.if].n = x.n /\ s.if \in Ifs
      BY <1>4, <2>3
    <3>2. x = L2!Record(s.if, x.whole)
      BY <3>1 DEF L2TPBooks, Shape, Records
    <3> QED
      BY <1>4, <3>2 DEF L2!Record
  <2> QED
    BY <1>1, <1>4, <2>1, <2>2, <2>3 DEF ReadLive
<1>8. ReadRecs'
  BY <1>1 DEF L2TPBooks, ReadRecs
<1>9. \A j, m : L2!Counted(j, m)' = L2!Counted(j, m)
  BY <1>1 DEF L2!Counted
<1>10. NotTooMuch'
  BY <1>1, <1>6, <1>9 DEF L2TPBooks, NotTooMuch
<1>11. ReadCounted'
  <2>1. ASSUME NEW i \in Ifs, ppp[i].n = file[i].n, ppp[i].n # 0 PROVE \E s \in live' : s.n = ppp[i].n
    <3>1. i \in L2!ReadSessions
      BY <2>1, NoSession DEF L2!ReadSessions, L2!SessionIsAlive
    <3>2. [if |-> i, user |-> file[i].user, n |-> file[i].n] \in live'
      BY <1>1, <3>1
    <3> QED
      BY <2>1, <3>2
  <2>2. ASSUME ~disturbed, NEW x \in L2!Owing, L2!Counted(x.if, x.n) > 0
        PROVE  (\E s \in live' : s.n = x.n) \/ (x \in finals /\ x.whole)
    <3>1. CASE x \in finals /\ ~x.whole
      <4>1. ppp[x.if].n = x.n /\ x.if \in Ifs /\ x.n # 0
        BY <3>1 DEF L2TPBooks, Shape, Records, L2TPBookTypes, Finals
      <4>2. ppp[x.if].st = "hook"
        BY <3>1, <4>1 DEF L2TPBooks, Shape, Records
      <4>3. file[x.if].n = ppp[x.if].n
        BY <4>1, <4>2 DEF L2TPBooks, Shape, Stages, Stage
      <4> QED
        BY <2>1, <4>1, <4>3
    <3>2. ASSUME NEW i \in L2!Open, x = L2!Record(i, FALSE) PROVE \E s \in live' : s.n = x.n
      <4>1. /\ ppp[i] \in PPPs /\ i \in Ifs /\ x.if = i /\ x.n = ppp[i].n /\ x.bytes = ppp[i].bytes
        BY <3>2, OpenSession DEF L2TPBooks, Shape, L2TPUsers
      <4>2. CASE file[i].n = ppp[i].n
        BY <2>1, <4>1, <4>2 DEF PPPs
      <4>3. CASE file[i].n # ppp[i].n
        <5>1. ppp[i].st # "none"
          BY <4>1 DEF PPPs, States
        <5>2. ppp[i].bytes = 0
          BY <4>1, <4>3, <5>1 DEF L2TPBooks, Shape, Stages, Stage
        <5>3. L2!Counted(x.if, x.n) <= x.bytes
          BY <2>2 DEF L2TPBooks, NotTooMuch
        <5>4. L2!Counted(x.if, x.n) \in Nat
          BY OwingFacts, DebtFacts, UncountedIs DEF L2TPBooks
        <5> QED
          BY <2>2, <4>1, <5>2, <5>3, <5>4
      <4> QED
        BY <4>2, <4>3
    <3> QED
      BY <3>1, <3>2 DEF L2!Owing
  <2> QED
    BY <1>1, <1>6, <1>9, <2>2 DEF ReadCounted
<1>12. L2!BooksBalance'
  BY <1>1, <1>6, UncountedIs DEF L2TPBooks, L2!BooksBalance
<1> QED
  BY <1>6, <1>7, <1>8, <1>10, <1>11, <1>12 DEF L2TPBooks

(* An order of a finite set names each of its elements once.               *)
LEMMA OrderFacts ==
    ASSUME NEW S, IsFiniteSet(S), NEW f \in L2!Orders(S)
    PROVE  /\ f \in Seq(S)
           /\ \A x \in S : \E k \in DOMAIN f : f[k] = x
           /\ \A k \in DOMAIN f : f[k] \in S
           /\ \A j, k \in DOMAIN f : f[j] = f[k] => j = k
<1>1. PICK c : c = Cardinality(S)
  OBVIOUS
<1>2. c \in Nat
  BY <1>1, FS_CardinalityType
<1>3. f \in [1..c -> S] /\ \A x \in S : \E k \in 1..c : f[k] = x
  BY <1>1, SameCardinality DEF L2!Orders
<1>4. IsFiniteSet(1..c) /\ Cardinality(1..c) = c
  BY <1>2, FS_Interval
<1>5. f \in Surjection(1..c, S)
  BY <1>3 DEF Surjection
<1>6. f \in Injection(1..c, S)
  BY <1>1, <1>4, <1>5, FS_SurjSameCardinalityImpliesInj
<1> QED
  BY <1>2, <1>3, <1>6 DEF Injection, IsInjective

LEMMA FinalsFinite == ASSUME Shape, NEW S \in SUBSET finals PROVE IsFiniteSet(S)
<1> DEFINE num == [x \in S |-> x.n]
<1>1. \A x \in S : x.n \in 1..sessions /\ sessions \in Nat
  BY DEF Shape, L2TPBookTypes, Finals, Numbered, L2TPUsers, L2TPTypes
<1>2. \A x, y \in S : x.n = y.n => x = y
  BY DEF Shape, Records
<1>3. num \in Injection(S, 1..sessions)
  BY <1>1, <1>2 DEF Injection, IsInjective
<1>4. sessions \in Nat
  BY DEF Shape, L2TPUsers, L2TPTypes
<1> QED
  BY <1>3, <1>4, FS_Interval, FS_Injection

LEMMA PollFinalsBooks == ASSUME L2TPBooks, L2TPUsers', L2!PollFinals PROVE L2TPBooks'
<1>1. /\ UNCHANGED <<ppp, sessions, file, live, ifSeen, cum, owed, disturbed>>
      /\ poll = "sessions" /\ poll' = "finals" /\ recs' \in L2!Orders(finals')
      /\ finals' = {x \in finals : x.whole}
      /\ torn' = torn \cup {x.n : x \in finals \ finals'}
  BY DEF L2!PollFinals
<1>2. /\ finals' \subseteq finals /\ (\A x \in finals' : x.whole) /\ (\A x \in finals : x.whole => x \in finals')
      /\ \A x \in finals : ~x.whole => x.n \in torn' /\ x.whole = FALSE
      /\ torn \subseteq torn'
      /\ \A n \in torn' : n \in torn \/ \E x \in finals : ~x.whole /\ x.n = n
  BY <1>1 DEF L2TPBooks, Shape, L2TPBookTypes, Finals
<1>3. IsFiniteSet(finals')
  BY <1>2, FinalsFinite DEF L2TPBooks
<1>4. /\ recs' \in Seq(finals')
      /\ \A x \in finals' : \E k \in DOMAIN recs' : recs'[k] = x
      /\ \A k \in DOMAIN recs' : recs'[k] \in finals'
      /\ \A j, k \in DOMAIN recs' : recs'[j] = recs'[k] => j = k
  BY <1>1, <1>3, OrderFacts
<1>5. L2TPBookTypes'
  <2>1. finals' \in SUBSET Finals /\ torn' \in SUBSET (Nat \ {0})
    <3>1. finals \in SUBSET Finals /\ torn \in SUBSET (Nat \ {0})
      BY DEF L2TPBooks, Shape, L2TPBookTypes
    <3>2. \A x \in finals : x.n \in Nat \ {0}
      BY <3>1 DEF Finals
    <3> QED
      BY ONLY <1>2, <3>1, <3>2
  <2>2. recs' \in Seq(Finals)
    BY <1>4, <2>1
  <2> QED
    BY <1>1, <2>1, <2>2 DEF L2TPBooks, Shape, L2TPBookTypes
<1>6. Numbered'
  BY <1>1, <1>2 DEF L2TPBooks, Shape, Numbered
<1>7. \A i \in Ifs : \A w : L2!Record(i, w)' = L2!Record(i, w)
  BY <1>1 DEF L2!Record
<1>8. Stages'
  <2>1. ASSUME NEW i \in Ifs PROVE Stage(i)'
    <3>1. Stage(i) /\ ppp' = ppp /\ file' = file /\ L2!Record(i, FALSE)' = L2!Record(i, FALSE)
      BY <1>1, <1>7 DEF L2TPBooks, Shape, Stages
    <3>2. ppp[i].st = "hook" => ppp[i].n \in torn'
      <4>1. L2!Record(i, FALSE).n = ppp[i].n /\ ~L2!Record(i, FALSE).whole
        BY DEF L2!Record
      <4> QED
        BY <1>2, <3>1, <4>1 DEF Stage
    <3>3. ppp[i].st \in {"auth", "up", "term"} => ppp[i].n \notin torn' /\ \A x \in finals' : x.n # ppp[i].n
      BY <1>2, <3>1 DEF Stage
    <3> QED
      BY <3>1, <3>2, <3>3 DEF Stage
  <2> QED
    BY <2>1 DEF Stages
<1>9. Records'
  <2>1. ASSUME NEW x \in finals'
        PROVE  /\ x \in finals /\ x.whole /\ x.n \notin torn'
               /\ \A y \in finals' : x.n = y.n => x = y
               /\ \A j \in Ifs : ppp[j].n = x.n => x = L2!Record(j, x.whole) /\ ppp[j].st = IF x.whole THEN "gone" ELSE "hook"
    BY <1>2 DEF L2TPBooks, Shape, Records
  <2>2. \A x : \A j \in Ifs : L2!Record(j, x.whole)' = L2!Record(j, x.whole)
    BY <1>7
  <2> QED
    BY <1>1, <1>7, <2>1, <2>2 DEF Records
<1>10. Shape'
  BY <1>5, <1>6, <1>8, <1>9 DEF Shape
<1>11. ReadLive' /\ ReadRecs'
  <2>1. ReadLive'
    BY <1>1, <1>2 DEF L2TPBooks, ReadLive
  <2>2. ReadRecs'
    BY <1>1, <1>2, <1>4 DEF ReadRecs
  <2> QED
    BY <2>1, <2>2
<1>12. L2!Owing' = L2!Owing
  <2>1. ASSUME NEW x \in finals, ~x.whole PROVE x.if \in L2!Open' /\ x = L2!Record(x.if, FALSE)
    <3>1. x.if \in Ifs /\ ppp[x.if].n = x.n
      BY <2>1 DEF L2TPBooks, Shape, L2TPBookTypes, Finals, Records
    <3>2. x = L2!Record(x.if, x.whole)
      BY <3>1 DEF L2TPBooks, Shape, Records
    <3> QED
      BY <1>1, <1>2, <2>1, <3>1, <3>2 DEF L2!Open
  <2>2. L2!Open \subseteq L2!Open' /\ L2!Open' \subseteq Ifs
    BY <1>1, <1>2 DEF L2!Open
  <2>3. ASSUME NEW i \in L2!Open', i \notin L2!Open PROVE L2!Record(i, FALSE) \in finals
    <3>1. i \in Ifs /\ ppp[i].n \in torn' /\ ppp[i].n \notin torn
      BY <1>1, <2>3 DEF L2!Open
    <3>2. PICK x \in finals : ~x.whole /\ x.n = ppp[i].n
      BY <1>2, <3>1
    <3>3. x = L2!Record(i, x.whole) /\ x.whole = FALSE
      BY <1>2, <3>1, <3>2 DEF L2TPBooks, Shape, Records
    <3> QED
      BY <3>3
  <2>4. \A i \in L2!Open' : L2!Record(i, FALSE)' = L2!Record(i, FALSE)
    BY <1>7, <2>2
  <2>5. \A x \in finals : x \in finals' \/ (x.if \in L2!Open' /\ x = L2!Record(x.if, FALSE))
    BY <1>2, <2>1
  <2>6. \A i \in L2!Open' : i \in L2!Open \/ L2!Record(i, FALSE) \in finals
    BY <2>3
  <2>7. finals' \subseteq finals
    BY <1>2
  <2>8. L2!Owing' = {L2!Record(i, FALSE) : i \in L2!Open'} \cup finals'
    BY ONLY <2>4 DEF L2!Owing
  <2> QED
    BY ONLY <2>2, <2>5, <2>6, <2>7, <2>8 DEF L2!Owing
<1>13. \A j, m : L2!Counted(j, m)' = L2!Counted(j, m)
  BY <1>1 DEF L2!Counted
<1>14. NotTooMuch'
  BY <1>1, <1>12, <1>13 DEF L2TPBooks, NotTooMuch
<1>15. ReadCounted'
  BY <1>1, <1>2, <1>4, <1>12, <1>13 DEF L2TPBooks, ReadCounted
<1>16. L2!BooksBalance'
  BY <1>1, <1>12, UncountedIs DEF L2TPBooks, L2!BooksBalance
<1> QED
  BY <1>10, <1>11, <1>14, <1>15, <1>16 DEF L2TPBooks

(* Of the records of an interface one is the first.                        *)
LEMMA FirstExists ==
    ASSUME recs \in Seq(Finals), NEW k \in DOMAIN recs
    PROVE  \E j \in DOMAIN recs : recs[j].if = recs[k].if /\ L2!First(j)
<1> DEFINE G == {n \in Nat : \A i \in DOMAIN recs : i <= n => \E j \in DOMAIN recs : recs[j].if = recs[i].if /\ L2!First(j)}
<1>1. DOMAIN recs = 1..Len(recs) /\ Len(recs) \in Nat
  OBVIOUS
<1>2. 0 \in G
  BY <1>1
<1>3. ASSUME NEW n \in Nat, n \in G PROVE n + 1 \in G
  <2>1. ASSUME NEW i \in DOMAIN recs, i <= n + 1 PROVE \E j \in DOMAIN recs : recs[j].if = recs[i].if /\ L2!First(j)
    <3>1. CASE L2!First(i)
      BY <3>1
    <3>2. CASE ~L2!First(i)
      <4>1. PICK j \in 1..i-1 : recs[j].if = recs[i].if
        BY <3>2 DEF L2!First
      <4>2. j \in DOMAIN recs /\ j <= n
        BY <1>1, <2>1, <4>1
      <4> QED
        BY <1>3, <4>1, <4>2
    <3> QED
      BY <3>1, <3>2
  <2> QED
    BY <1>3, <2>1
<1>4. k \in Nat /\ k <= k
  BY <1>1
<1> HIDE DEF G
<1>5. k \in G
  BY <1>2, <1>3, <1>4, Induction
<1> QED
  BY <1>4, <1>5 DEF G

(* Terms v over S that are numbered, of which those in U are summed as g.  *)
Terms(g, U, v, num, S, N) ==
    /\ N \in Nat /\ v \in [S -> Int] /\ num \in [S -> 1..N]
    /\ \A x, y \in S : num[x] = num[y] => x = y
    /\ U \subseteq S /\ DOMAIN g = U /\ \A x \in U : g[x] = v[x]
InOrder(f, g, U, v, num, S, N) ==
    /\ f \in [1..N -> Int] /\ SumFunction(g) = SumFunction(f)
    /\ \A x \in S : f[num[x]] = IF x \in U THEN v[x] ELSE 0
    /\ \A m \in 1..N : (\A x \in S : num[x] # m) => f[m] = 0

LEMMA SumOfSome ==
    ASSUME NEW g, NEW U, NEW v, NEW num, NEW S, NEW N, Terms(g, U, v, num, S, N)
    PROVE  \E f : InOrder(f, g, U, v, num, S, N)
<1> DEFINE Nth(m) == CHOOSE x \in U : num[x] = m
           f == [m \in 1..N |-> IF \E x \in U : num[x] = m THEN v[Nth(m)] ELSE 0]
           nu == [x \in U |-> num[x]]
<1>0. /\ N \in Nat /\ v \in [S -> Int] /\ num \in [S -> 1..N] /\ U \subseteq S
      /\ \A x, y \in S : num[x] = num[y] => x = y
  BY DEF Terms
<1>1. \A x \in U : Nth(num[x]) = x
  BY <1>0
<1>2. \A m \in 1..N : f[m] = IF \E x \in U : num[x] = m THEN v[Nth(m)] ELSE 0
  OBVIOUS
<1>3. /\ DOMAIN g = U /\ \A x \in U : g[x] = v[x]
      /\ nu \in [U -> 1..N] /\ \A x \in U : nu[x] = num[x]
  BY DEF Terms
<1>4. \A m : (\E x \in U : num[x] = m) => Nth(m) \in U
  OBVIOUS
<1> HIDE DEF Nth
<1>5. f \in [1..N -> Int]
  BY <1>0, <1>4
<1> HIDE DEF f, nu
<1>6. \A x \in S : f[num[x]] = IF x \in U THEN v[x] ELSE 0
  BY <1>0, <1>1, <1>2
<1>7. \A m \in 1..N : (\A x \in U : num[x] # m) => f[m] = 0
  BY <1>2
<1>8. Renumbers(g, f, nu, N)
  <2>1. N \in Nat /\ f \in [1..N -> Int] /\ nu \in [DOMAIN g -> 1..N]
    BY <1>0, <1>3, <1>5
  <2>2. \A x, y \in DOMAIN g : nu[x] = nu[y] => x = y
    BY <1>0, <1>3
  <2>3. \A x \in DOMAIN g : g[x] \in Int /\ g[x] = f[nu[x]]
    BY <1>0, <1>3, <1>6
  <2>4. \A m \in 1..N : (\A x \in DOMAIN g : nu[x] # m) => f[m] = 0
    BY <1>3, <1>7
  <2> QED
    BY ONLY <2>1, <2>2, <2>3, <2>4 DEF Renumbers
<1>9. SumFunction(g) = SumFunction(f)
  BY <1>8, NumberedSum
<1> QED
  BY <1>0, <1>5, <1>6, <1>7, <1>9 DEF InOrder

LEMMA PlainFacts ==
    ASSUME L2TPBooks
    PROVE  /\ \A i \in Ifs : L2!IfaceBytes(i) \in Nat
           /\ recs \in Seq(Finals) /\ sessions \in Nat
           /\ \A k \in DOMAIN recs : /\ recs[k] \in finals /\ recs[k] \in Finals /\ recs[k].whole
                                     /\ recs[k].n \in 1..sessions /\ recs[k].if \in Ifs
           /\ \A j, k \in DOMAIN recs : recs[j].n = recs[k].n => j = k
           /\ \A s \in live : s \in Lives /\ s.if \in Ifs /\ s.n \in 1..sessions /\ s.n # 0 /\ s.user \in Users
           /\ \A i \in DOMAIN ifSeen : ifSeen[i].bytes \in Nat
           /\ \A i, n : L2!Counted(i, n) \in Nat
           /\ \A i \in Ifs : L2!Baseline(i) \in Nat
<1>1. ASSUME NEW i \in Ifs PROVE L2!IfaceBytes(i) \in Nat
  <2>1. ppp[i] \in PPPs \/ ppp[i] = L2!NoPPP
    BY FieldTypes DEF L2TPBooks, Shape, L2TPUsers
  <2>2. ppp[i].bytes \in Nat
    <3>1. L2!NoPPP.bytes = 0
      BY DEF L2!NoPPP
    <3> QED
      BY <2>1, <3>1 DEF PPPs
  <2> QED
    BY <2>2 DEF L2!IfaceBytes
<1>2. recs \in Seq(Finals) /\ sessions \in Nat
  BY DEF L2TPBooks, Shape, L2TPBookTypes, L2TPUsers, L2TPTypes
<1>3. ASSUME NEW k \in DOMAIN recs
      PROVE  /\ recs[k] \in finals /\ recs[k] \in Finals /\ recs[k].whole
             /\ recs[k].n \in 1..sessions /\ recs[k].if \in Ifs
  <2>1. recs[k] \in finals /\ recs[k].whole
    BY DEF L2TPBooks, ReadRecs
  <2>2. recs[k] \in Finals /\ recs[k].n <= sessions
    BY <2>1 DEF L2TPBooks, Shape, L2TPBookTypes, Numbered
  <2> QED
    BY <1>2, <2>1, <2>2 DEF Finals
<1>4. ASSUME NEW j \in DOMAIN recs, NEW k \in DOMAIN recs, recs[j].n = recs[k].n PROVE j = k
  <2>1. recs[j] = recs[k]
    BY <1>3, <1>4 DEF L2TPBooks, Shape, Records
  <2> QED
    BY <2>1 DEF L2TPBooks, ReadRecs
<1>5. ASSUME NEW s \in live PROVE s \in Lives /\ s.if \in Ifs /\ s.n \in 1..sessions /\ s.n # 0 /\ s.user \in Users
  <2>1. s \in Lives /\ s.n <= sessions
    BY DEF L2TPBooks, Shape, L2TPBookTypes, ReadLive
  <2> QED
    BY <1>2, <2>1 DEF Lives
<1>6. \A i \in DOMAIN ifSeen : ifSeen[i].bytes \in Nat
  BY DEF L2TPBooks, Shape, L2TPBookTypes
<1>7. \A i, n : L2!Counted(i, n) \in Nat
  BY <1>6 DEF L2!Counted
<1>8. \A i \in Ifs : L2!Baseline(i) \in Nat
  BY <1>6 DEF L2!Baseline
<1> QED
  BY <1>1, <1>2, <1>3, <1>4, <1>5, <1>6, <1>7, <1>8

(* Where records are settled, nothing was counted of any other session.    *)
LEMMA FirstIsKnown ==
    ASSUME L2TPBooks, ~L2!SetOff, NEW k \in DOMAIN recs
    PROVE  \E j \in DOMAIN recs : /\ recs[j].if = recs[k].if /\ L2!First(j)
                                  /\ \A n : n # recs[j].n => L2!Counted(recs[k].if, n) = 0
<1>1. PICK j \in DOMAIN recs : recs[j].if = recs[k].if /\ L2!First(j)
  BY PlainFacts, FirstExists
<1>2. ~L2!Stranger(recs[j].if, recs[j].n)
  BY <1>1 DEF L2!SetOff
<1>3. \A i \in DOMAIN ifSeen : ifSeen[i].bytes \in Nat
  BY PlainFacts
<1>4. ASSUME NEW n, n # recs[j].n PROVE L2!Counted(recs[j].if, n) = 0
  BY <1>2, <1>3, <1>4 DEF L2!Stranger, L2!Counted
<1> QED
  BY <1>1, <1>4

LEMMA FinalSettled ==
    ASSUME L2TPBooks, ~disturbed, ~L2!SetOff, NEW k \in DOMAIN recs
    PROVE  /\ L2!FinalGrowth(k) = recs[k].bytes - L2!Counted(recs[k].if, recs[k].n)
           /\ recs[k] \in L2!Owing
<1>0. PICK x : x = recs[k]
  OBVIOUS
<1>1. x \in L2!Owing /\ x.bytes \in Nat /\ L2!Counted(x.if, x.n) \in Nat
  BY <1>0, PlainFacts DEF L2!Owing, Finals
<1>2. L2!Counted(x.if, x.n) <= x.bytes
  BY <1>1 DEF L2TPBooks, NotTooMuch
<1>3. CASE L2!First(k) /\ x.if \in DOMAIN ifSeen
  <2>1. ~L2!Stranger(x.if, x.n) /\ ifSeen[x.if].bytes \in Nat
    BY <1>0, <1>3, PlainFacts DEF L2!SetOff
  <2>2. ifSeen[x.if].bytes = L2!Counted(x.if, x.n)
    BY <1>3, <2>1 DEF L2!Stranger, L2!Counted
  <2>3. L2!FinalGrowth(k) = IF x.bytes < ifSeen[x.if].bytes THEN 0 ELSE x.bytes - ifSeen[x.if].bytes
    BY <1>0, <1>3 DEF L2!FinalGrowth
  <2> QED
    BY <1>0, <1>1, <1>2, <2>2, <2>3
<1>4. CASE ~(L2!First(k) /\ x.if \in DOMAIN ifSeen)
  <2>1. L2!FinalGrowth(k) = x.bytes
    BY <1>0, <1>4 DEF L2!FinalGrowth
  <2>2. L2!Counted(x.if, x.n) = 0
    <3>1. CASE x.if \notin DOMAIN ifSeen
      BY <3>1 DEF L2!Counted
    <3>2. CASE ~L2!First(k)
      <4>1. PICK j \in DOMAIN recs : /\ L2!First(j)
                                     /\ \A n : n # recs[j].n => L2!Counted(recs[k].if, n) = 0
        BY FirstIsKnown
      <4>2. recs[j].n # recs[k].n
        BY <3>2, <4>1, PlainFacts
      <4> QED
        BY <1>0, <4>1, <4>2
    <3> QED
      BY <1>4, <3>1, <3>2
  <2> QED
    BY <1>0, <1>1, <2>1, <2>2
<1> QED
  BY <1>0, <1>1, <1>3, <1>4

(* What a poll adds for a session it has read as live, which has no record *)
(* that is settled at the same time, is what was still to be counted.      *)
LEMMA LiveHasRow ==
    ASSUME L2TPBooks, ~L2!SetOff, NEW s \in live, ppp[s.if].dev
    PROVE  /\ ppp[s.if].n = s.n
           /\ \E x \in L2!Owing : x.if = s.if /\ x.n = s.n /\ x.user = s.user /\ x.bytes = ppp[s.if].bytes
<1>0. PICK i, p : i = s.if /\ p = ppp[i]
  OBVIOUS
<1>1. i \in Ifs /\ p = ppp[i] /\ p.dev /\ s.n # 0
  BY <1>0, PlainFacts
<1>2. p.n = s.n /\ ~(p.st = "gone" /\ s.n \notin L2!Due)
  BY <1>0, <1>1 DEF L2!SetOff
<1>3. p.user = s.user
  BY <1>0, <1>1, <1>2 DEF L2TPBooks, ReadLive
<1>4. /\ L2!Record(i, FALSE).if = i /\ L2!Record(i, FALSE).n = s.n /\ L2!Record(i, FALSE).user = s.user
      /\ L2!Record(i, FALSE).bytes = p.bytes
  BY <1>1, <1>2, <1>3 DEF L2!Record
<1>5. p.st \in States
  <2>1. p \in PPPs \/ p = L2!NoPPP
    BY <1>1, FieldTypes DEF L2TPBooks, Shape, L2TPUsers
  <2>2. p # L2!NoPPP
    BY <1>1, <1>2, NoSession
  <2> QED
    BY <2>1, <2>2 DEF PPPs
<1>6. ASSUME i \in L2!Open PROVE \E x \in L2!Owing : x.if = s.if /\ x.n = s.n /\ x.user = s.user /\ x.bytes = p.bytes
  <2>1. L2!Record(i, FALSE) \in L2!Owing
    BY <1>6 DEF L2!Owing
  <2> QED
    BY <1>0, <1>4, <2>1
<1>7. ASSUME NEW y \in finals, y.n = s.n PROVE \E x \in L2!Owing : x.if = s.if /\ x.n = s.n /\ x.user = s.user /\ x.bytes = p.bytes
  <2>1. y = L2!Record(i, y.whole)
    BY <1>1, <1>2, <1>7 DEF L2TPBooks, Shape, Records
  <2>2. y.if = i /\ y.user = p.user /\ y.bytes = p.bytes
    BY <1>1, <2>1 DEF L2!Record
  <2>3. y \in L2!Owing
    BY DEF L2!Owing
  <2> QED
    BY <1>0, <1>3, <1>7, <2>2, <2>3
<1>8. CASE p.st \in {"auth", "up", "term"}
  BY <1>1, <1>6, <1>8, <1>2, <1>0 DEF L2!Open
<1>9. CASE p.st = "hook"
  <2>1. L2!Record(i, FALSE) \in finals \/ p.n \in torn
    BY <1>1, <1>9 DEF L2TPBooks, Shape, Stages, Stage
  <2>2. CASE p.n \in torn
    <3>1. i \in L2!Open
      BY <1>1, <2>2 DEF L2!Open
    <3> QED
      BY <1>0, <1>2, <1>6, <3>1
  <2>3. CASE L2!Record(i, FALSE) \in finals
    BY <1>0, <1>2, <1>4, <1>7, <2>3
  <2> QED
    BY <2>1, <2>2, <2>3
<1>10. CASE p.st = "gone"
  <2>1. s.n \in L2!Due
    BY <1>2, <1>10
  <2>2. CASE s.n \in torn
    <3>1. i \in L2!Open
      BY <1>1, <1>2, <2>2 DEF L2!Open
    <3> QED
      BY <1>0, <1>2, <1>6, <3>1
  <2>3. CASE \E y \in finals : y.n = s.n
    BY <1>0, <1>2, <1>7, <2>3
  <2> QED
    BY <2>1, <2>2, <2>3 DEF L2!Due
<1> QED
  BY <1>0, <1>2, <1>5, <1>8, <1>9, <1>10 DEF States

LEMMA LiveSettled ==
    ASSUME L2TPBooks, ~disturbed, ~L2!SetOff, NEW s \in live, ppp[s.if].dev,
           \A k \in DOMAIN recs : recs[k].n # s.n
    PROVE  L2!LiveGrowth(s) = ppp[s.if].bytes - L2!Counted(s.if, s.n)
<1>0. PICK i, b : i = s.if /\ b = ppp[i].bytes
  OBVIOUS
<1>1. L2!IfaceBytes(i) = b /\ b \in Nat /\ i \in Ifs /\ L2!Counted(i, s.n) \in Nat
  BY <1>0, PlainFacts DEF L2!IfaceBytes
<1>2. L2!Counted(i, s.n) <= b
  BY <1>0, LiveHasRow DEF L2TPBooks, NotTooMuch
<1>3. L2!Baseline(i) = L2!Counted(i, s.n)
  <2>1. CASE i \in L2!RecIfs
    <3>1. PICK k \in DOMAIN recs : recs[k].if = i
      BY <2>1 DEF L2!RecIfs
    <3>2. PICK j \in DOMAIN recs : \A n : n # recs[j].n => L2!Counted(recs[k].if, n) = 0
      BY FirstIsKnown
    <3>3. L2!Counted(i, s.n) = 0
      BY <3>1, <3>2
    <3> QED
      BY <2>1, <3>3 DEF L2!Baseline
  <2>2. CASE i \notin L2!RecIfs
    <3>1. ~L2!Stranger(i, s.n)
      BY <1>0, <2>2 DEF L2!SetOff
    <3>2. \A j \in DOMAIN ifSeen : ifSeen[j].bytes \in Nat
      BY PlainFacts
    <3> QED
      BY <2>2, <3>1, <3>2 DEF L2!Stranger, L2!Counted, L2!Baseline
  <2> QED
    BY <2>1, <2>2
<1> QED
  BY <1>0, <1>1, <1>2, <1>3 DEF L2!LiveGrowth

(* A session whose interface is gone, or whose record is settled, adds     *)
(* nothing as a live one.                                                  *)
LEMMA LiveAddsNothing ==
    ASSUME L2TPBooks, ~L2!SetOff, NEW s \in live
    PROVE  /\ ~ppp[s.if].dev => L2!LiveGrowth(s) = 0
           /\ (\E k \in DOMAIN recs : recs[k].n = s.n) => L2!LiveGrowth(s) = 0
<1>1. ASSUME ~ppp[s.if].dev PROVE L2!LiveGrowth(s) = 0
  <2>1. L2!IfaceBytes(s.if) = 0 /\ L2!Baseline(s.if) \in Nat
    BY <1>1, PlainFacts DEF L2!IfaceBytes
  <2> QED
    BY <2>1 DEF L2!LiveGrowth
<1>2. ASSUME NEW k \in DOMAIN recs, recs[k].n = s.n PROVE ~ppp[s.if].dev
  <2>1. PICK x : x = recs[k]
    OBVIOUS
  <2>2. x \in finals /\ x.whole /\ x.n = s.n /\ s.if \in Ifs
    BY <1>2, <2>1, PlainFacts
  <2>3. ASSUME ppp[s.if].dev PROVE FALSE
    <3>1. ppp[s.if].n = s.n /\ ~(ppp[s.if].st = "gone" /\ s.n \notin L2!Due)
      BY <2>3 DEF L2!SetOff
    <3>2. ppp[s.if].st = "gone"
      BY <2>2, <3>1 DEF L2TPBooks, Shape, Records
    <3>3. x.n \notin torn /\ \A y \in finals : y.n = x.n => y = x
      BY <2>2 DEF L2TPBooks, Shape, Records
    <3>4. x \in L2!Settled
      BY <1>2, <2>1 DEF L2!Settled
    <3>5. s.n \notin L2!Due
      BY <2>2, <3>3, <3>4 DEF L2!Due
    <3> QED
      BY <3>1, <3>2, <3>5
  <2> QED
    BY <2>3
<1> QED
  BY <1>1, <1>2

(* A session whose interface is gone owes nothing any more.                *)
LEMMA GoneOwesNothing ==
    ASSUME L2TPBooks, ~L2!SetOff, NEW s \in live, ~ppp[s.if].dev, \A k \in DOMAIN recs : recs[k].n # s.n, NEW x \in L2!Owing
    PROVE  x.n # s.n
<1> SUFFICES ASSUME x.n = s.n PROVE FALSE
  OBVIOUS
<1>1. s.n \notin L2!Due
  BY DEF L2!SetOff
<1>2. CASE x \in finals
  <2>1. x \notin L2!Settled
    BY DEF L2!Settled
  <2> QED
    BY <1>1, <1>2, <2>1 DEF L2!Due
<1>3. ASSUME NEW j \in L2!Open, x = L2!Record(j, FALSE) PROVE FALSE
  <2>1. ppp[j].n = s.n /\ j \in Ifs
    BY <1>3 DEF L2!Record, L2!Open
  <2>2. j = s.if
    BY <2>1 DEF L2TPBooks, ReadLive
  <2>3. ppp[j].st \in {"auth", "up", "term"}
    BY <1>1, <2>1, <1>3 DEF L2!Open, L2!Due
  <2> QED
    BY <2>1, <2>2, <2>3 DEF L2TPBooks, Shape, Stages, Stage
<1> QED
  BY <1>2, <1>3 DEF L2!Owing

(* The books are in order after records are settled and baselines renewed. *)
LEMMA SettleShape ==
    ASSUME L2TPBooks, L2TPUsers', L2!PollSettle, cum' \in [Users -> Int]
    PROVE  /\ Shape' /\ ReadLive' /\ ReadRecs' /\ ReadCounted'
           /\ L2!Owing' \subseteq L2!Owing
           /\ \A x \in L2!Owing : (\A k \in DOMAIN recs : recs[k] # x) => x \in L2!Owing'
           /\ \A k \in DOMAIN recs : \A x \in L2!Owing' : x.n # recs[k].n
           /\ \A s \in live : ifSeen'[s.if].n = s.n /\ ifSeen'[s.if].bytes = L2!IfaceBytes(s.if) /\ s.if \in DOMAIN ifSeen'
           /\ \A i \in DOMAIN ifSeen' : \E s \in live : s.if = i
<1>1. /\ UNCHANGED <<ppp, sessions, file, owed, torn>>
      /\ poll = "finals" /\ poll' = "idle" /\ live' = {} /\ recs' = <<>>
      /\ finals' = finals \ L2!Settled /\ ifSeen' = L2!Seen
      /\ disturbed' = (disturbed \/ L2!SetOff)
  BY DEF L2!PollSettle
<1>2. /\ finals' \subseteq finals
      /\ \A x \in finals : (\A k \in DOMAIN recs : recs[k] # x) => x \in finals'
      /\ \A k \in DOMAIN recs : recs[k] \notin finals'
  BY <1>1 DEF L2!Settled
<1>3. \A s \in live : s \in Lives /\ s.if \in Ifs /\ s.n <= sessions
  BY PlainFacts DEF L2TPBooks, ReadLive
<1>4. \A s \in live : L2!Session(s.if) = s
  BY DEF L2!Session, L2TPBooks, ReadLive
<1>5. /\ DOMAIN ifSeen' = {s.if : s \in live}
      /\ \A s \in live : ifSeen'[s.if] = [n |-> s.n, bytes |-> L2!IfaceBytes(s.if)]
  BY <1>1, <1>4 DEF L2!Seen
<1>6. L2TPBookTypes'
  <2>1. DOMAIN ifSeen' \in SUBSET Ifs
    BY <1>3, <1>5
  <2>2. ASSUME NEW i \in DOMAIN ifSeen' PROVE ifSeen'[i] \in [n : Nat \ {0}, bytes : Nat]
    <3>1. PICK s \in live : s.if = i
      BY <1>5
    <3>2. PICK n, b : n = s.n /\ b = L2!IfaceBytes(s.if)
      OBVIOUS
    <3>3. n \in Nat \ {0} /\ b \in Nat
      BY <3>2, PlainFacts
    <3>4. ifSeen'[i] = [n |-> n, bytes |-> b]
      BY <1>5, <3>1, <3>2
    <3> QED
      BY ONLY <3>3, <3>4
  <2>3. finals' \in SUBSET Finals /\ torn' \in SUBSET (Nat \ {0}) /\ owed' \in [Users -> Int]
    BY <1>1, <1>2 DEF L2TPBooks, Shape, L2TPBookTypes
  <2>4. recs' \in Seq(Finals) /\ live' \in SUBSET Lives /\ poll' \in {"idle", "sessions", "finals"}
    BY <1>1
  <2>5. disturbed' \in BOOLEAN
    BY <1>1
  <2> QED
    BY <2>1, <2>2, <2>3, <2>4, <2>5 DEF L2TPBookTypes
<1>7. Numbered'
  <2>1. ASSUME NEW i \in DOMAIN ifSeen' PROVE ifSeen'[i].n <= sessions
    <3>1. PICK s \in live : s.if = i
      BY <1>5
    <3>2. ifSeen'[i] = [n |-> s.n, bytes |-> L2!IfaceBytes(s.if)]
      BY <1>5, <3>1
    <3>3. ifSeen'[i].n = s.n
      BY ONLY <3>2
    <3> QED
      BY <1>3, <3>3
  <2> QED
    BY <1>1, <1>2, <2>1 DEF L2TPBooks, Shape, Numbered
<1>8. \A i \in Ifs : \A w : L2!Record(i, w)' = L2!Record(i, w)
  BY <1>1 DEF L2!Record
<1>9. \A k \in DOMAIN recs : recs[k] \in finals /\ recs[k].whole
  BY PlainFacts
<1>10. Stages'
  <2>1. ASSUME NEW i \in Ifs PROVE Stage(i)'
    <3>1. Stage(i) /\ ppp' = ppp /\ file' = file /\ torn' = torn /\ L2!Record(i, FALSE)' = L2!Record(i, FALSE)
      BY <1>1, <1>8 DEF L2TPBooks, Shape, Stages
    <3>2. L2!Record(i, FALSE) \in finals => L2!Record(i, FALSE) \in finals'
      <4>1. ~L2!Record(i, FALSE).whole
        BY DEF L2!Record
      <4>2. \A k \in DOMAIN recs : recs[k] # L2!Record(i, FALSE)
        BY <1>9, <4>1
      <4> QED
        BY ONLY <1>2, <4>2
    <3> QED
      BY <1>2, <3>1, <3>2 DEF Stage
  <2> QED
    BY <2>1 DEF Stages
<1>11. Records'
  <2>1. \A x : \A j \in Ifs : L2!Record(j, x.whole)' = L2!Record(j, x.whole)
    BY <1>8
  <2>2. ASSUME NEW x \in finals'
        PROVE  /\ x.n \notin torn
               /\ \A y \in finals' : x.n = y.n => x = y
               /\ \A j \in Ifs : ppp[j].n = x.n => x = L2!Record(j, x.whole) /\ ppp[j].st = IF x.whole THEN "gone" ELSE "hook"
               /\ ~x.whole => ppp[x.if].n = x.n
    BY <1>2 DEF L2TPBooks, Shape, Records
  <2> QED
    BY <1>1, <2>1, <2>2 DEF Records
<1>12. Shape'
  BY <1>6, <1>7, <1>10, <1>11 DEF Shape
<1>13. ReadLive' /\ ReadRecs' /\ ReadCounted'
  BY <1>1 DEF ReadLive, ReadRecs, ReadCounted
<1>14. L2!Open' = L2!Open /\ L2!Open \subseteq Ifs /\ \A i \in L2!Open : L2!Record(i, FALSE)' = L2!Record(i, FALSE)
  BY <1>1, <1>8 DEF L2!Open
<1>15. L2!Owing' = {L2!Record(i, FALSE) : i \in L2!Open} \cup finals'
  BY ONLY <1>14 DEF L2!Owing
<1>16. L2!Owing' \subseteq L2!Owing /\ \A x \in L2!Owing : (\A k \in DOMAIN recs : recs[k] # x) => x \in L2!Owing'
  BY ONLY <1>2, <1>15 DEF L2!Owing
<1>17. ASSUME NEW k \in DOMAIN recs, NEW x \in L2!Owing' PROVE x.n # recs[k].n
  <2> SUFFICES ASSUME x.n = recs[k].n PROVE FALSE
    OBVIOUS
  <2>1. x \in L2!Owing /\ recs[k] \in L2!Owing
    BY <1>9, <1>16 DEF L2!Owing
  <2>2. x = recs[k]
    BY <2>1, OwingFacts DEF L2TPBooks, RowsIn
  <2>3. x \notin finals' /\ x.whole
    BY <1>2, <1>9, <2>2
  <2>4. \A i \in L2!Open : ~L2!Record(i, FALSE).whole
    BY DEF L2!Record
  <2> QED
    BY <1>15, <2>3, <2>4
<1>18. ASSUME NEW s \in live
       PROVE  ifSeen'[s.if].n = s.n /\ ifSeen'[s.if].bytes = L2!IfaceBytes(s.if) /\ s.if \in DOMAIN ifSeen'
  <2>1. ifSeen'[s.if] = [n |-> s.n, bytes |-> L2!IfaceBytes(s.if)] /\ s.if \in DOMAIN ifSeen'
    BY <1>5
  <2> QED
    BY ONLY <2>1
<1>19. \A i \in DOMAIN ifSeen' : \E s \in live : s.if = i
  BY <1>5
<1> QED
  BY ONLY <1>12, <1>13, <1>16, <1>17, <1>18, <1>19

(* What a poll adds for a user, session by session: f of the records that  *)
(* are settled, h of the sessions that were live.                          *)
Parts(u, f, h) ==
    /\ f \in [1..sessions -> Int] /\ h \in [1..sessions -> Int]
    /\ L2!Growth(u) = SumFunction(f) + SumFunction(h)
    /\ \A k \in DOMAIN recs : f[recs[k].n] = IF recs[k].user = u THEN L2!FinalGrowth(k) ELSE 0
    /\ \A m \in 1..sessions : (\A k \in DOMAIN recs : recs[k].n # m) => f[m] = 0
    /\ \A s \in live : h[s.n] = IF s.user = u THEN L2!LiveGrowth(s) ELSE 0
    /\ \A m \in 1..sessions : (\A s \in live : s.n # m) => h[m] = 0

LEMMA GrowthParts == ASSUME L2TPBooks, NEW u PROVE \E f, h : Parts(u, f, h)
<1> DEFINE v == [k \in DOMAIN recs |-> L2!FinalGrowth(k)]
           num == [k \in DOMAIN recs |-> recs[k].n]
           U == {k \in DOMAIN recs : recs[k].user = u}
           w == [s \in live |-> L2!LiveGrowth(s)]
           nam == [s \in live |-> s.n]
           W == {s \in live : s.user = u}
<1>1. \A k \in DOMAIN recs : recs[k].bytes \in Nat
  BY PlainFacts DEF Finals
<1>2. \A k \in DOMAIN recs : L2!FinalGrowth(k) \in Int
  BY <1>1, PlainFacts DEF L2!FinalGrowth
<1>3. \A s \in live : L2!LiveGrowth(s) \in Int
  BY PlainFacts DEF L2!LiveGrowth
<1>4. sessions \in Nat
  BY PlainFacts
<1>5. v \in [DOMAIN recs -> Int] /\ num \in [DOMAIN recs -> 1..sessions] /\ U \in SUBSET DOMAIN recs
  BY <1>2, PlainFacts
<1>6. w \in [live -> Int] /\ nam \in [live -> 1..sessions] /\ W \in SUBSET live
  BY <1>3, PlainFacts
<1>7. \A j, k \in DOMAIN recs : num[j] = num[k] => j = k
  BY PlainFacts
<1>8. \A s, t \in live : nam[s] = nam[t] => s = t
  BY DEF L2TPBooks, ReadLive
<1>9. PICK g, e : /\ g = [k \in {k \in DOMAIN recs : recs[k].user = u} |-> L2!FinalGrowth(k)]
                  /\ e = [s \in {s \in live : s.user = u} |-> L2!LiveGrowth(s)]
  OBVIOUS
<1>10. L2!Growth(u) = SumFunction(g) + SumFunction(e)
  BY <1>9, SameL2TPSum DEF L2!Growth
<1>11. /\ DOMAIN g = U /\ \A k \in U : g[k] = v[k]
       /\ DOMAIN e = W /\ \A s \in W : e[s] = w[s]
  BY <1>9
<1>12. /\ \A k \in DOMAIN recs : v[k] = L2!FinalGrowth(k) /\ num[k] = recs[k].n /\ (k \in U <=> recs[k].user = u)
       /\ \A s \in live : w[s] = L2!LiveGrowth(s) /\ nam[s] = s.n /\ (s \in W <=> s.user = u)
  OBVIOUS
<1> HIDE DEF v, num, U, w, nam, W
<1>13. PICK f : InOrder(f, g, U, v, num, DOMAIN recs, sessions)
  <2>1. Terms(g, U, v, num, DOMAIN recs, sessions)
    BY ONLY <1>4, <1>5, <1>7, <1>11 DEF Terms
  <2> QED
    BY ONLY <2>1, SumOfSome
<1>14. PICK h : InOrder(h, e, W, w, nam, live, sessions)
  <2>1. Terms(e, W, w, nam, live, sessions)
    BY ONLY <1>4, <1>6, <1>8, <1>11 DEF Terms
  <2> QED
    BY ONLY <2>1, SumOfSome
<1>15. L2!Growth(u) = SumFunction(f) + SumFunction(h)
  BY ONLY <1>10, <1>13, <1>14 DEF InOrder
<1>16. /\ \A k \in DOMAIN recs : f[recs[k].n] = IF recs[k].user = u THEN L2!FinalGrowth(k) ELSE 0
       /\ \A m \in 1..sessions : (\A k \in DOMAIN recs : recs[k].n # m) => f[m] = 0
  BY ONLY <1>12, <1>13 DEF InOrder
<1>17. /\ \A s \in live : h[s.n] = IF s.user = u THEN L2!LiveGrowth(s) ELSE 0
       /\ \A m \in 1..sessions : (\A s \in live : s.n # m) => h[m] = 0
  BY ONLY <1>12, <1>14 DEF InOrder
<1>18. Parts(u, f, h)
  BY ONLY <1>13, <1>14, <1>15, <1>16, <1>17 DEF Parts, InOrder
<1> QED
  BY <1>18

LEMMA GrowthType == ASSUME L2TPBooks, NEW u PROVE L2!Growth(u) \in Int
<1>1. PICK f, h : Parts(u, f, h)
  BY GrowthParts
<1>2. sessions \in Nat
  BY PlainFacts
<1> QED
  BY <1>1, <1>2, NumberedSummable DEF Parts

LEMMA SettleTypes == ASSUME L2TPBooks, L2!PollSettle PROVE cum' \in [Users -> Int]
<1>1. \A u \in Users : cum[u] \in Int /\ L2!Growth(u) \in Int
  BY GrowthType DEF L2TPBooks, Shape, L2TPBookTypes
<1>2. cum' = [u \in Users |-> cum[u] + L2!Growth(u)]
  BY DEF L2!PollSettle
<1> QED
  BY <1>1, <1>2

(* What a poll adds for a session is what it no longer owes.               *)
LEMMA SessionSettled ==
    ASSUME L2TPBooks, L2TPUsers', L2!PollSettle, ~disturbed, ~L2!SetOff, NEW u, NEW f, NEW h, Parts(u, f, h), NEW m \in 1..sessions
    PROVE  DebtIn(L2!Owing, ifSeen, u, m) = DebtIn(L2!Owing', ifSeen', u, m) + f[m] + h[m]
<1>0. PICK O, P, c, d : O = L2!Owing /\ P = L2!Owing' /\ c = ifSeen /\ d = ifSeen'
  OBVIOUS
<1>1. /\ Shape'
      /\ P \subseteq O
      /\ \A x \in O : (\A k \in DOMAIN recs : recs[k] # x) => x \in P
      /\ \A k \in DOMAIN recs : \A x \in P : x.n # recs[k].n
      /\ \A s \in live : d[s.if].n = s.n /\ d[s.if].bytes = L2!IfaceBytes(s.if) /\ s.if \in DOMAIN d
      /\ \A i \in DOMAIN d : \E s \in live : s.if = i
  BY <1>0, SettleShape, SettleTypes
<1>2. RowsIn(O, sessions) /\ CountsIn(c)
  BY <1>0, OwingFacts DEF L2TPBooks
<1>3. RowsIn(P, sessions) /\ CountsIn(d)
  <2>1. sessions' = sessions
    BY DEF L2!PollSettle
  <2> QED
    BY <1>0, <1>1, <2>1, OwingFactsNext
<1>4. /\ \A i, n : L2!Counted(i, n) = CountedIn(c, i, n) /\ CountedIn(c, i, n) \in Nat
      /\ \A x \in O : DebtIn(O, c, u, x.n) = IF x.user = u THEN x.bytes - CountedIn(c, x.if, x.n) ELSE 0
      /\ (\A x \in O : x.n # m) => DebtIn(O, c, u, m) = 0
  BY <1>0, <1>2, DebtFacts, UncountedIs
<1>5. /\ \A x \in P : DebtIn(P, d, u, x.n) = IF x.user = u THEN x.bytes - CountedIn(d, x.if, x.n) ELSE 0
      /\ (\A x \in P : x.n # m) => DebtIn(P, d, u, m) = 0
  BY <1>3, DebtFacts
<1>6. \A x \in O : x.bytes \in Nat
  BY <1>2 DEF RowsIn
<1>7. ASSUME NEW k \in DOMAIN recs, recs[k].n = m
      PROVE  DebtIn(O, c, u, m) = DebtIn(P, d, u, m) + f[m] + h[m]
  <2>0. PICK x : x = recs[k]
    OBVIOUS
  <2>1. L2!FinalGrowth(k) = x.bytes - CountedIn(c, x.if, x.n) /\ x \in O /\ x.n = m
    BY <1>0, <1>4, <1>7, <2>0, FinalSettled
  <2>2. DebtIn(P, d, u, m) = 0
    BY <1>1, <1>5, <1>7
  <2>3. f[m] = IF x.user = u THEN L2!FinalGrowth(k) ELSE 0
    BY <1>7, <2>0 DEF Parts
  <2>4. h[m] = 0
    <3>1. ASSUME NEW s \in live, s.n = m PROVE h[m] = 0
      <4>1. L2!LiveGrowth(s) = 0
        BY <1>7, <3>1, LiveAddsNothing
      <4> QED
        BY <3>1, <4>1 DEF Parts
    <3> QED
      BY <3>1 DEF Parts
  <2> QED
    BY <1>4, <1>6, <2>1, <2>2, <2>3, <2>4
<1>8. ASSUME \A k \in DOMAIN recs : recs[k].n # m, NEW s \in live, s.n = m
      PROVE  DebtIn(O, c, u, m) = DebtIn(P, d, u, m) + f[m] + h[m]
  <2>1. f[m] = 0
    BY <1>8 DEF Parts
  <2>2. h[m] = IF s.user = u THEN L2!LiveGrowth(s) ELSE 0
    BY <1>8 DEF Parts
  <2>3. CASE ppp[s.if].dev
    <3>1. PICK x \in O : x.if = s.if /\ x.n = m /\ x.user = s.user /\ x.bytes = ppp[s.if].bytes
      BY <1>0, <1>8, <2>3, LiveHasRow
    <3>2. L2!LiveGrowth(s) = x.bytes - CountedIn(c, x.if, m)
      BY <1>4, <1>8, <2>3, <3>1, LiveSettled
    <3>3. x \in P
      BY <1>1, <1>8, <3>1
    <3>4. CountedIn(d, x.if, m) = x.bytes
      BY <1>1, <1>8, <2>3, <3>1 DEF CountedIn, L2!IfaceBytes
    <3>5. DebtIn(P, d, u, m) = 0
      BY <1>5, <1>6, <3>1, <3>3, <3>4
    <3>6. DebtIn(O, c, u, m) = IF x.user = u THEN x.bytes - CountedIn(c, x.if, m) ELSE 0
      BY <1>4, <3>1
    <3> QED
      BY <1>4, <1>6, <2>1, <2>2, <3>1, <3>2, <3>5, <3>6
  <2>4. CASE ~ppp[s.if].dev
    <3>1. L2!LiveGrowth(s) = 0
      BY <2>4, LiveAddsNothing
    <3>2. \A x \in O : x.n # m
      BY <1>0, <1>8, <2>4, GoneOwesNothing
    <3>3. \A x \in P : x.n # m
      BY <1>1, <3>2
    <3> QED
      BY <1>4, <1>5, <2>1, <2>2, <3>1, <3>2, <3>3
  <2> QED
    BY <2>3, <2>4
<1>9. ASSUME \A k \in DOMAIN recs : recs[k].n # m, \A s \in live : s.n # m
      PROVE  DebtIn(O, c, u, m) = DebtIn(P, d, u, m) + f[m] + h[m]
  <2>1. f[m] = 0 /\ h[m] = 0
    BY <1>9 DEF Parts
  <2>2. CASE \A x \in O : x.n # m
    BY <1>1, <1>4, <1>5, <2>1, <2>2
  <2>3. ASSUME NEW x \in O, x.n = m PROVE DebtIn(O, c, u, m) = DebtIn(P, d, u, m) + f[m] + h[m]
    <3>1. x \in P
      BY <1>1, <1>9, <2>3
    <3>2. CountedIn(c, x.if, m) = 0
      <4>1. ~(L2!Counted(x.if, x.n) > 0)
        <5>1. poll = "finals"
          BY DEF L2!PollSettle
        <5>2. \A k \in DOMAIN recs : recs[k] # x
          BY <1>9, <2>3
        <5>3. x \in L2!Owing
          BY <1>0
        <5> QED
          BY <1>9, <2>3, <5>1, <5>2, <5>3 DEF L2TPBooks, ReadCounted
      <4> QED
        BY <1>4, <2>3, <4>1
    <3>3. CountedIn(d, x.if, m) = 0
      <4>1. ASSUME x.if \in DOMAIN d PROVE d[x.if].n # m
        BY <1>1, <1>9, <4>1
      <4> QED
        BY <4>1 DEF CountedIn
    <3> QED
      BY <1>4, <1>5, <1>6, <2>1, <2>3, <3>1, <3>2, <3>3
  <2> QED
    BY <2>2, <2>3
<1> QED
  BY <1>0, <1>7, <1>8, <1>9

LEMMA PollSettleBooks == ASSUME L2TPBooks, L2TPUsers', L2!PollSettle PROVE L2TPBooks'
<1>1. /\ Shape' /\ ReadLive' /\ ReadRecs' /\ ReadCounted'
      /\ L2!Owing' \subseteq L2!Owing
      /\ \A k \in DOMAIN recs : \A x \in L2!Owing' : x.n # recs[k].n
      /\ \A s \in live : ifSeen'[s.if].n = s.n /\ ifSeen'[s.if].bytes = L2!IfaceBytes(s.if) /\ s.if \in DOMAIN ifSeen'
      /\ \A i \in DOMAIN ifSeen' : \E s \in live : s.if = i
  BY SettleShape, SettleTypes
<1>2. /\ sessions' = sessions /\ owed' = owed /\ disturbed' = (disturbed \/ L2!SetOff)
      /\ cum' = [u \in Users |-> cum[u] + L2!Growth(u)]
  BY DEF L2!PollSettle
<1>3. RowsIn(L2!Owing, sessions) /\ CountsIn(ifSeen) /\ RowsIn(L2!Owing', sessions) /\ CountsIn(ifSeen')
  BY <1>1, <1>2, OwingFacts, OwingFactsNext DEF L2TPBooks
<1>4. NotTooMuch'
  <2> SUFFICES ASSUME ~disturbed', NEW x \in L2!Owing' PROVE L2!Counted(x.if, x.n)' <= x.bytes
    BY DEF NotTooMuch
  <2>1. ~disturbed /\ ~L2!SetOff
    BY <1>2
  <2>2. x.bytes \in Nat /\ x \in L2!Owing
    BY <1>1, <1>3 DEF RowsIn
  <2>3. CASE x.if \in DOMAIN ifSeen' /\ ifSeen'[x.if].n = x.n
    <3>1. PICK s \in live : s.if = x.if
      BY <1>1, <2>3
    <3>2. s.n = x.n /\ L2!Counted(x.if, x.n)' = L2!IfaceBytes(s.if)
      BY <1>1, <2>3, <3>1 DEF L2!Counted
    <3>3. CASE ppp[s.if].dev
      <4>1. PICK y \in L2!Owing : y.n = s.n /\ y.bytes = ppp[s.if].bytes
        BY <2>1, <3>3, LiveHasRow
      <4>2. y = x
        BY <1>3, <2>2, <3>2, <4>1 DEF RowsIn
      <4> QED
        BY <2>2, <3>2, <3>3, <4>1, <4>2 DEF L2!IfaceBytes
    <3>4. CASE ~ppp[s.if].dev
      BY <2>2, <3>2, <3>4 DEF L2!IfaceBytes
    <3> QED
      BY <3>3, <3>4
  <2>4. CASE ~(x.if \in DOMAIN ifSeen' /\ ifSeen'[x.if].n = x.n)
    BY <2>2, <2>4 DEF L2!Counted
  <2> QED
    BY <2>3, <2>4
<1>5. L2!BooksBalance'
  <2> SUFFICES ASSUME ~disturbed', NEW u \in Users PROVE cum'[u] + L2!Uncounted(u)' = owed'[u]
    BY DEF L2!BooksBalance
  <2>1. ~disturbed /\ ~L2!SetOff
    BY <1>2
  <2>2. PICK f, h : Parts(u, f, h)
    BY GrowthParts
  <2>3. PICK N, a, b : N = sessions /\ a = Debts(L2!Owing, ifSeen, u, N) /\ b = Debts(L2!Owing', ifSeen', u, N)
    OBVIOUS
  <2>4. /\ a \in [1..N -> Int] /\ \A m \in 1..N : a[m] = DebtIn(L2!Owing, ifSeen, u, m)
        /\ OwedIn(L2!Owing, ifSeen, u) = SumFunction(a)
    BY <1>3, <2>3, OwedIsDebts
  <2>5. /\ b \in [1..N -> Int] /\ \A m \in 1..N : b[m] = DebtIn(L2!Owing', ifSeen', u, m)
        /\ OwedIn(L2!Owing', ifSeen', u) = SumFunction(b)
    BY <1>3, <2>3, OwedIsDebts
  <2>6. \A m \in 1..N : a[m] = b[m] + f[m] + h[m]
    BY <2>1, <2>2, <2>3, <2>4, <2>5, SessionSettled
  <2>7. N \in Nat /\ f \in [1..N -> Int] /\ h \in [1..N -> Int] /\ L2!Growth(u) = SumFunction(f) + SumFunction(h)
    BY <2>2, <2>3, PlainFacts DEF Parts
  <2>8. SumFunction(a) = SumFunction(b) + SumFunction(f) + SumFunction(h)
    <3>1. Adds(a, b, f, h, N)
      BY ONLY <2>4, <2>5, <2>6, <2>7 DEF Adds
    <3> QED
      BY ONLY <3>1, SumLess
  <2>9. SumFunction(a) \in Int /\ SumFunction(b) \in Int /\ SumFunction(f) \in Int /\ SumFunction(h) \in Int
    BY ONLY <2>4, <2>5, <2>7, NumberedSummable
  <2>10. cum[u] \in Int /\ cum[u] + SumFunction(a) = owed[u] /\ owed[u] \in Int
    <3>1. L2!Uncounted(u) = OwedIn(L2!Owing, ifSeen, u)
      BY UncountedIs
    <3> QED
      BY <2>1, <2>4, <3>1 DEF L2TPBooks, L2!BooksBalance, Shape, L2TPBookTypes
  <2>11. L2!Uncounted(u)' = SumFunction(b)
    BY <2>5, UncountedIs
  <2>12. cum'[u] = cum[u] + (SumFunction(f) + SumFunction(h))
    BY <1>2, <2>7
  <2> QED
    BY ONLY <1>2, <2>8, <2>9, <2>10, <2>11, <2>12
<1> QED
  BY <1>1, <1>4, <1>5 DEF L2TPBooks

(* The invariant holds at first, and every action keeps it.                *)
LEMMA L2TPBooksInit == L2!Init => L2TPBooks
<1> SUFFICES ASSUME L2!Init PROVE L2TPBooks
  OBVIOUS
<1>1. /\ sessions = 0 /\ finals = {} /\ torn = {} /\ live = {} /\ recs = <<>> /\ poll = "idle"
      /\ disturbed = FALSE
      /\ DOMAIN ifSeen = {} /\ cum = [u \in Users |-> 0] /\ owed = [u \in Users |-> 0]
      /\ \A i \in Ifs : ppp[i] = L2!NoPPP
  BY DEF L2!Init, L2!Nothing
<1>2. L2TPUsers
  BY L2TPUsersInit
<1>3. \A i \in Ifs : ppp[i].n = 0 /\ ppp[i].st = "none"
  <2>1. L2!NoPPP.n = 0 /\ L2!NoPPP.st = "none"
    BY DEF L2!NoPPP
  <2> QED
    BY <1>1, <2>1
<1>4. L2!Open = {}
  BY <1>1, <1>3 DEF L2!Open
<1>5. L2!Owing = {}
  BY <1>1, <1>4 DEF L2!Owing
<1>6. L2TPBookTypes
  <2>1. cum \in [Users -> Int] /\ owed \in [Users -> Int]
    BY <1>1
  <2>2. recs \in Seq(Finals)
    BY <1>1
  <2>3. \A i \in DOMAIN ifSeen : ifSeen[i] \in [n : Nat \ {0}, bytes : Nat]
    BY <1>1
  <2>4. finals \in SUBSET Finals /\ torn \in SUBSET (Nat \ {0}) /\ live \in SUBSET Lives
    BY <1>1
  <2>5. DOMAIN ifSeen \in SUBSET Ifs /\ poll \in {"idle", "sessions", "finals"} /\ disturbed \in BOOLEAN
    BY <1>1
  <2> QED
    BY <2>1, <2>2, <2>3, <2>4, <2>5 DEF L2TPBookTypes
<1>7. Numbered /\ Records
  BY <1>1, <1>3 DEF Numbered, Records
<1>8. Stages
  BY <1>3 DEF Stages, Stage
<1>9. Shape
  BY <1>2, <1>6, <1>7, <1>8 DEF Shape
<1>10. ReadLive /\ ReadRecs
  BY <1>1 DEF ReadLive, ReadRecs
<1>11. ReadCounted /\ NotTooMuch
  BY <1>5 DEF ReadCounted, NotTooMuch
<1>12. L2!BooksBalance
  <2>1. ASSUME NEW u \in Users PROVE L2!Uncounted(u) = 0
    <3>1. RowsIn(L2!Owing, 0) /\ CountsIn(ifSeen)
      BY <1>1, <1>5 DEF RowsIn, CountsIn
    <3>2. PICK f : f = Debts(L2!Owing, ifSeen, u, 0)
      OBVIOUS
    <3>3. f \in [1..0 -> Int] /\ OwedIn(L2!Owing, ifSeen, u) = SumFunction(f)
      BY <3>1, <3>2, OwedIsDebts
    <3>4. Summable(f) /\ DOMAIN f = 1..0
      BY <3>3, NumberedSummable
    <3>5. SumFunction(f) = 0
      BY <3>4, SumZero
    <3> QED
      BY <3>3, <3>5, UncountedIs
  <2> QED
    BY <1>1, <2>1 DEF L2!BooksBalance
<1> QED
  BY <1>9, <1>10, <1>11, <1>12 DEF L2TPBooks

LEMMA L2TPBooksStep == L2TPBooks /\ [L2!Next]_L2!vars => L2TPBooks'
<1> SUFFICES ASSUME L2TPBooks, [L2!Next]_L2!vars PROVE L2TPBooks'
  OBVIOUS
<1>1. L2TPUsers'
  BY L2TPUsersStep DEF L2TPBooks, Shape
<1>2. CASE \/ \E r \in Requests : \/ \E u \in Users, add \in BOOLEAN : L2!ApplyUser(r, u, add)
                                  \/ \E new \in SUBSET Users : L2!SyncUsers(r, new)
                                  \/ L2!Snapshot(r) \/ L2!WriteChapSecrets(r) \/ L2!KillSessions(r)
           \/ (\E new \in SUBSET Users : L2!UpdateUsersAndRestart(new)) \/ L2!Shutdown
           \/ \E ok \in BOOLEAN : L2!Start(ok)
           \/ \E i \in Ifs : L2!IpUp(i) \/ L2!Leaves(i) \/ (L2!IpDownWrites(i) /\ L2!Record(i, FALSE) \notin finals)
           \/ UNCHANGED L2!vars
  BY ONLY <1>1, <1>2, QuietStep, L2TPBooks
<1>3. CASE L2!PollSessions \/ L2!PollFinals \/ L2!PollSettle
  BY <1>1, <1>3, PollSessionsBooks, PollFinalsBooks, PollSettleBooks
<1>4. ASSUME NEW i \in Ifs, NEW u \in Users, L2!Authenticate(i, u) PROVE L2TPBooks'
  BY <1>1, <1>4, AuthenticateBooks
<1>5. ASSUME NEW i \in Ifs, L2!Moves(i) PROVE L2TPBooks'
  BY <1>1, <1>5, MovesBooks
<1>6. ASSUME NEW i \in Ifs, L2!Killed(i) \/ L2!IpDownCleans(i) PROVE L2TPBooks'
  BY <1>1, <1>6, LeavingBooks
<1>7. ASSUME NEW i \in Ifs, L2!IpDown(i) PROVE L2TPBooks'
  BY <1>1, <1>7, IpDownBooks, LeavingBooks
<1>8. ASSUME NEW i \in Ifs, L2!IpDownWrites(i), L2!Record(i, FALSE) \in finals PROVE L2TPBooks'
  BY <1>1, <1>8, IpDownWritesBooks
<1> QED
  BY <1>2, <1>3, <1>4, <1>5, <1>6, <1>7, <1>8 DEF L2!Next

(* Every byte a user moves is counted once, or is still to be counted of a *)
(* session up or of a record waiting, or went with a pppd that could not   *)
(* report it: readSessions, readFinalRecords and the settling of an L2TP   *)
(* poll keep the books, wherever sessions start and end between their      *)
(* steps, unless bytes were set off against another session's baseline.    *)
THEOREM L2TPBalances == L2!Spec => []L2!BooksBalance
<1>1. L2TPBooks => L2!BooksBalance
  BY DEF L2TPBooks
<1> QED
  BY <1>1, L2TPBooksInit, L2TPBooksStep, PTL DEF L2!Spec
-----------------------------------------------------------------------------
(***************************************************************************)
(* The statistics of sing-box.                                             *)
(***************************************************************************)
(* The largest member of a set of positions.                               *)
LEMMA MaxPosition ==
    ASSUME NEW n \in Nat, NEW S \in SUBSET (1..n), NEW m \in S, \A y \in S : y <= m
    PROVE  Max(S) = m
<1>1. \A x \in S : x \in Int
  OBVIOUS
<1>2. Max(S) \in S /\ \A y \in S : Max(S) >= y
  BY <1>1 DEF Max
<1>3. Max(S) \in Int /\ m \in Int /\ Max(S) <= m /\ Max(S) >= m
  BY <1>1, <1>2
<1> QED
  BY <1>3

Count == Nat \cup {SB!Absent}
Answer == [by : Requests, val : [Users -> Count]]
SingBoxTypes ==
    /\ counter \in [Users -> Count]
    /\ baseline \in [Users -> Count]
    /\ pending \in [Users -> Int] /\ cum \in [Users -> Int] /\ owed \in [Users -> Int]
    /\ readings \in Seq(Answer)

(* Known, Reading and ToFold of any list of readings and any baseline.     *)
ShownIn(r, u, k) == {j \in 1..k : r[j].val[u] # SB!Absent}
StartOf(b, u) == IF b[u] = SB!Absent THEN 0 ELSE b[u]
KnownIn(r, b, u, k) == IF ShownIn(r, u, k) # {} THEN r[Max(ShownIn(r, u, k))].val[u] ELSE StartOf(b, u)
ReadingIn(r, b, u, k) ==
    IF r[k].val[u] = SB!Absent THEN 0 ELSE SB!Grown(KnownIn(r, b, u, k - 1), r[k].val[u])
SumIn(r, b, u) == SumFunction([k \in DOMAIN r |-> ReadingIn(r, b, u, k)])
UnreadIn(r, b, c, u) == IF c[u] = SB!Absent THEN 0 ELSE SB!Grown(KnownIn(r, b, u, Len(r)), c[u])

(* The sums and sequences of the instance are those of this module.        *)
LEMMA SameSum == ASSUME NEW f PROVE SB!SumFunction(f) = SumFunction(f)
BY DEF SB!SumFunction, SB!SumFunctionOnSet, SB!FoldFunctionOnSet, SB!MapThenFoldSet,
       SumFunction, SumFunctionOnSet, FoldFunctionOnSet, MapThenFoldSet

LEMMA SameMax == ASSUME NEW s PROVE SB!Max(s) = Max(s)
BY DEF SB!Max, Max

LEMMA SameRemoveAt == ASSUME NEW s, NEW i PROVE SB!RemoveAt(s, i) = RemoveAt(s, i)
BY DEF SB!RemoveAt, RemoveAt

LEMMA ToFoldIs ==
    ASSUME NEW u
    PROVE  /\ SB!ToFold(u) = SumIn(readings, baseline, u) + UnreadIn(readings, baseline, counter, u)
           /\ SB!ToFold(u)' = SumIn(readings', baseline', u) + UnreadIn(readings', baseline', counter', u)
           /\ SB!Unread(u) = UnreadIn(readings, baseline, counter, u)
           /\ SB!Newest(u) = KnownIn(readings, baseline, u, Len(readings))
BY SameSum, SameMax DEF SB!ToFold, SB!Reading, SB!Unread, SB!Newest, SB!Known, SB!Shown, SumIn, ReadingIn, UnreadIn, KnownIn, ShownIn, StartOf

LEMMA KnownStep ==
    ASSUME NEW r \in Seq(Answer), NEW b, NEW u \in Users
    PROVE  /\ KnownIn(r, b, u, 0) = StartOf(b, u)
           /\ \A k \in 1..Len(r) :
                KnownIn(r, b, u, k) = IF r[k].val[u] = SB!Absent THEN KnownIn(r, b, u, k - 1) ELSE r[k].val[u]
<1>1. KnownIn(r, b, u, 0) = StartOf(b, u)
  BY DEF KnownIn, ShownIn
<1>2. ASSUME NEW k \in 1..Len(r)
      PROVE  KnownIn(r, b, u, k) = IF r[k].val[u] = SB!Absent THEN KnownIn(r, b, u, k - 1) ELSE r[k].val[u]
  <2>1. k \in Nat /\ k - 1 \in Nat
    OBVIOUS
  <2>2. CASE r[k].val[u] = SB!Absent
    <3>1. ShownIn(r, u, k) = ShownIn(r, u, k - 1)
      BY <2>1, <2>2 DEF ShownIn
    <3> QED
      BY <2>2, <3>1 DEF KnownIn
  <2>3. CASE r[k].val[u] # SB!Absent
    <3>1. k \in ShownIn(r, u, k) /\ ShownIn(r, u, k) \in SUBSET (1..k) /\ \A y \in ShownIn(r, u, k) : y <= k
      BY <2>1, <2>3 DEF ShownIn
    <3>2. Max(ShownIn(r, u, k)) = k
      BY <2>1, <3>1, MaxPosition
    <3> QED
      BY <2>3, <3>1, <3>2 DEF KnownIn
  <2> QED
    BY <2>2, <2>3
<1> QED
  BY <1>1, <1>2

LEMMA CountIs ==
    ASSUME NEW r \in Seq(Answer), NEW k \in 1..Len(r), NEW u \in Users
    PROVE  r[k].val[u] \in Nat \cup {-1}
<1>1. r[k] \in Answer
  OBVIOUS
<1> QED
  BY <1>1 DEF Answer, Count, SB!Absent

LEMMA KnownType ==
    ASSUME NEW r \in Seq(Answer), NEW b \in [Users -> Count], NEW u \in Users
    PROVE  \A k \in 0..Len(r) : KnownIn(r, b, u, k) \in Nat
<1> DEFINE G == {n \in Nat : n <= Len(r) => KnownIn(r, b, u, n) \in Nat}
<1>1. 0 \in G
  BY KnownStep DEF StartOf, Count, SB!Absent
<1>2. ASSUME NEW n \in Nat, n \in G PROVE n + 1 \in G
  <2> SUFFICES ASSUME n + 1 <= Len(r) PROVE KnownIn(r, b, u, n + 1) \in Nat
    OBVIOUS
  <2>1. n + 1 \in 1..Len(r) /\ (n + 1) - 1 = n /\ n <= Len(r)
    OBVIOUS
  <2>2. KnownIn(r, b, u, n + 1) = IF r[n + 1].val[u] = SB!Absent THEN KnownIn(r, b, u, n) ELSE r[n + 1].val[u]
    BY <2>1, KnownStep
  <2>3. r[n + 1].val[u] \in Nat \cup {-1}
    BY <2>1, CountIs
  <2> QED
    BY <1>2, <2>1, <2>2, <2>3 DEF SB!Absent
<1>3. Nat \subseteq G
  <2> HIDE DEF G
  <2> QED
    BY <1>1, <1>2, Induction
<1> QED
  BY <1>3

LEMMA GrownType ==
    ASSUME NEW p \in Nat, NEW c \in Nat
    PROVE  SB!Grown(p, c) \in Nat
BY DEF SB!Grown

LEMMA ReadingType ==
    ASSUME NEW r \in Seq(Answer), NEW b \in [Users -> Count], NEW u \in Users, NEW k \in 1..Len(r)
    PROVE  ReadingIn(r, b, u, k) \in Nat
<1>1. KnownIn(r, b, u, k - 1) \in Nat
  BY KnownType
<1>2. r[k].val[u] \in Nat \cup {-1}
  BY CountIs
<1> QED
  BY <1>1, <1>2, GrownType DEF ReadingIn, SB!Absent

LEMMA SumInType ==
    ASSUME NEW r \in Seq(Answer), NEW b \in [Users -> Count], NEW u \in Users
    PROVE  Summable([k \in DOMAIN r |-> ReadingIn(r, b, u, k)]) /\ SumIn(r, b, u) \in Int
<1>1. DOMAIN r = 1..Len(r) /\ Len(r) \in Nat
  OBVIOUS
<1>2. IsFiniteSet(DOMAIN r)
  BY <1>1, FS_Interval
<1>3. Summable([k \in DOMAIN r |-> ReadingIn(r, b, u, k)])
  BY <1>1, <1>2, ReadingType DEF Summable
<1> QED
  BY <1>3, SumType DEF SumIn

LEMMA UnreadType ==
    ASSUME NEW r \in Seq(Answer), NEW b \in [Users -> Count], NEW c \in [Users -> Count], NEW u \in Users
    PROVE  UnreadIn(r, b, c, u) \in Nat
<1>1. KnownIn(r, b, u, Len(r)) \in Nat
  BY KnownType
<1>2. c[u] \in Nat \cup {-1}
  BY DEF Count, SB!Absent
<1> QED
  BY <1>1, <1>2, GrownType DEF UnreadIn, SB!Absent

(* A further reading takes over what was unread.                           *)
LEMMA KnownAppend ==
    ASSUME NEW r \in Seq(Answer), NEW b \in [Users -> Count], NEW u \in Users, NEW e \in Answer
    PROVE  \A k \in 0..Len(r) : KnownIn(Append(r, e), b, u, k) = KnownIn(r, b, u, k)
<1> DEFINE t == Append(r, e)
           G == {n \in Nat : n <= Len(r) => KnownIn(t, b, u, n) = KnownIn(r, b, u, n)}
<1>0. t \in Seq(Answer) /\ Len(t) = Len(r) + 1 /\ \A k \in 1..Len(r) : t[k] = r[k]
  OBVIOUS
<1> HIDE DEF t
<1>4. \A k \in 1..Len(t) :
        KnownIn(t, b, u, k) = IF t[k].val[u] = SB!Absent THEN KnownIn(t, b, u, k - 1) ELSE t[k].val[u]
  BY <1>0, KnownStep
<1>1. 0 \in G
  BY <1>0, KnownStep
<1>2. ASSUME NEW n \in Nat, n \in G PROVE n + 1 \in G
  <2> SUFFICES ASSUME n + 1 <= Len(r) PROVE KnownIn(t, b, u, n + 1) = KnownIn(r, b, u, n + 1)
    OBVIOUS
  <2>1. n + 1 \in 1..Len(r) /\ n + 1 \in 1..Len(t) /\ (n + 1) - 1 = n /\ n <= Len(r)
    BY <1>0
  <2>2. KnownIn(r, b, u, n + 1) = IF r[n + 1].val[u] = SB!Absent THEN KnownIn(r, b, u, n) ELSE r[n + 1].val[u]
    BY <2>1, KnownStep
  <2>3. KnownIn(t, b, u, n + 1) = IF t[n + 1].val[u] = SB!Absent THEN KnownIn(t, b, u, n) ELSE t[n + 1].val[u]
    BY <1>4, <2>1
  <2> QED
    BY <1>0, <1>2, <2>1, <2>2, <2>3
<1>3. Nat \subseteq G
  <2> HIDE DEF G
  <2> QED
    BY <1>1, <1>2, Induction
<1> QED
  BY <1>3 DEF t

LEMMA SumAppend ==
    ASSUME NEW r \in Seq(Answer), NEW b \in [Users -> Count], NEW c \in [Users -> Count],
           NEW u \in Users, NEW q \in Requests
    PROVE  LET t == Append(r, [by |-> q, val |-> c])
           IN  SumIn(t, b, u) + UnreadIn(t, b, c, u) = SumIn(r, b, u) + UnreadIn(r, b, c, u)
<1> DEFINE e == [by |-> q, val |-> c]
           t == Append(r, e)
           n == Len(r)
           g == [k \in DOMAIN r |-> ReadingIn(r, b, u, k)]
           f == [k \in 1..(n + 1) |-> IF k = n + 1 THEN 0 ELSE ReadingIn(r, b, u, k)]
           o == [k \in 1..(n + 1) |-> IF k = n + 1 THEN UnreadIn(r, b, c, u) ELSE 0]
           h == [k \in DOMAIN t |-> ReadingIn(t, b, u, k)]
<1>1. e \in Answer /\ e.val = c
  BY DEF Answer
<1>2. /\ t \in Seq(Answer) /\ n \in Nat /\ Len(t) = n + 1 /\ t[n + 1] = e /\ DOMAIN t = 1..(n + 1)
      /\ DOMAIN r = 1..n /\ \A k \in 1..n : t[k] = r[k]
  BY <1>1
<1>3. \A k \in 0..n : KnownIn(t, b, u, k) = KnownIn(r, b, u, k)
  BY <1>1, KnownAppend
<1>4. \A k \in 1..n : ReadingIn(t, b, u, k) = ReadingIn(r, b, u, k) /\ ReadingIn(r, b, u, k) \in Nat
  <2>1. \A k \in 1..n : ReadingIn(r, b, u, k) \in Nat
    BY ReadingType
  <2>2. \A k \in 1..n : t[k] = r[k] /\ KnownIn(t, b, u, k - 1) = KnownIn(r, b, u, k - 1)
    BY <1>2, <1>3
  <2> HIDE DEF t
  <2> QED
    BY <2>1, <2>2 DEF ReadingIn
<1>5. ReadingIn(t, b, u, n + 1) = UnreadIn(r, b, c, u) /\ UnreadIn(r, b, c, u) \in Nat
  <2>1. UnreadIn(r, b, c, u) \in Nat
    BY UnreadType
  <2>2. t[n + 1].val[u] = c[u] /\ KnownIn(t, b, u, (n + 1) - 1) = KnownIn(r, b, u, n)
    BY <1>1, <1>2, <1>3
  <2> HIDE DEF t
  <2> QED
    BY <2>1, <2>2 DEF ReadingIn, UnreadIn
<1>6. UnreadIn(t, b, c, u) = 0
  <2>1. c[u] \in Nat \cup {-1}
    BY DEF Count, SB!Absent
  <2>2. \A k \in 1..Len(t) :
          KnownIn(t, b, u, k) = IF t[k].val[u] = SB!Absent THEN KnownIn(t, b, u, k - 1) ELSE t[k].val[u]
    <3> HIDE DEF t
    <3> QED
      BY <1>2, KnownStep
  <2>3. c[u] # SB!Absent => KnownIn(t, b, u, Len(t)) = c[u]
    <3>1. n + 1 \in 1..Len(t) /\ Len(t) = n + 1 /\ t[n + 1].val[u] = c[u]
      BY <1>1, <1>2
    <3> HIDE DEF t, n
    <3> QED
      BY <2>2, <3>1
  <2> HIDE DEF t
  <2> QED
    BY <2>1, <2>3 DEF UnreadIn, SB!Grown, SB!Absent
<1>7. IsFiniteSet(1..n) /\ IsFiniteSet(1..(n + 1))
  BY <1>2, FS_Interval
<1> HIDE DEF t, n, e
<1>8. Summable(g) /\ Summable(f) /\ Summable(o) /\ Summable(h)
  BY <1>2, <1>4, <1>5, <1>7 DEF Summable
<1>9. SumFunction(g) = SumFunction(f)
  <2> DEFINE id == [k \in 1..n |-> k]
  <2>1. /\ id \in [DOMAIN g -> DOMAIN f]
        /\ \A x, y \in DOMAIN g : id[x] = id[y] => x = y
        /\ \A x \in DOMAIN g : g[x] = f[id[x]]
        /\ \A y \in DOMAIN f : (\A x \in DOMAIN g : id[x] # y) => f[y] = 0
    BY <1>2
  <2> HIDE DEF f, g, id
  <2> QED
    BY <1>8, <2>1, SumVia
<1>10. SumFunction(o) = UnreadIn(r, b, c, u)
  <2>1. n + 1 \in DOMAIN o /\ o[n + 1] = UnreadIn(r, b, c, u) /\ \A y \in DOMAIN o : y # n + 1 => o[y] = 0
    BY <1>2
  <2> HIDE DEF o
  <2> QED
    BY <1>8, <2>1, SumSingle
<1>11. SumFunction(h) = SumFunction(f) + SumFunction(o)
  <2>1. /\ DOMAIN f = DOMAIN h /\ DOMAIN o = DOMAIN h
        /\ \A x \in DOMAIN h : h[x] = f[x] + o[x]
    BY <1>2, <1>4, <1>5
  <2> HIDE DEF f, o, h
  <2> QED
    BY <1>8, <2>1, SumAdd
<1>12. SumIn(t, b, u) = SumFunction(h) /\ SumIn(r, b, u) = SumFunction(g)
  BY DEF SumIn
<1>13. SumFunction(h) \in Int
  BY <1>8, SumType
<1> HIDE DEF f, g, h, o
<1>14. SumIn(t, b, u) + UnreadIn(t, b, c, u) = SumIn(r, b, u) + UnreadIn(r, b, c, u)
  BY <1>6, <1>9, <1>10, <1>11, <1>12, <1>13
<1> QED
  BY <1>14 DEF t, e

(* The reading that is folded, and those before it are the same, is as the *)
(* oldest one.                                                             *)
LEMMA RemoveAtIs ==
    ASSUME NEW r \in Seq(Answer), NEW k \in 1..Len(r), \A j \in 1..(k - 1) : r[j].val = r[k].val
    PROVE  /\ RemoveAt(r, k) \in Seq(Answer) /\ Len(RemoveAt(r, k)) = Len(r) - 1
           /\ \A j \in 1..(Len(r) - 1) : RemoveAt(r, k)[j].val = r[j + 1].val
           /\ r[1].val = r[k].val
<1> DEFINE p == SubSeq(r, 1, k - 1)
           q == SubSeq(r, k + 1, Len(r))
<1>1. p \in Seq(Answer) /\ Len(p) = k - 1 /\ \A j \in 1..(k - 1) : p[j] = r[j]
  OBVIOUS
<1>2. q \in Seq(Answer) /\ Len(q) = Len(r) - k /\ \A j \in 1..(Len(r) - k) : q[j] = r[k + j]
  OBVIOUS
<1>3. RemoveAt(r, k) = p \o q
  BY DEF RemoveAt
<1> HIDE DEF p, q
<1>4. /\ p \o q \in Seq(Answer) /\ Len(p \o q) = Len(r) - 1
      /\ \A j \in 1..(Len(r) - 1) : (p \o q)[j] = IF j <= k - 1 THEN r[j] ELSE r[j + 1]
  <2>1. p \o q \in Seq(Answer) /\ Len(p \o q) = Len(p) + Len(q)
    BY <1>1, <1>2, ConcatProperties
  <2>2. \A j \in 1..(Len(p) + Len(q)) : (p \o q)[j] = IF j <= Len(p) THEN p[j] ELSE q[j - Len(p)]
    BY <1>1, <1>2, ConcatProperties
  <2>3. ASSUME NEW j \in 1..(Len(r) - 1) PROVE (p \o q)[j] = IF j <= k - 1 THEN r[j] ELSE r[j + 1]
    <3>1. CASE j <= k - 1
      BY <1>1, <1>2, <2>2, <3>1
    <3>2. CASE ~(j <= k - 1)
      <4>1. j - (k - 1) \in 1..(Len(r) - k) /\ k + (j - (k - 1)) = j + 1
        BY <3>2
      <4>2. (p \o q)[j] = q[j - (k - 1)]
        BY <1>1, <1>2, <2>2, <3>2
      <4>3. q[j - (k - 1)] = r[k + (j - (k - 1))]
        BY <1>2, <4>1
      <4> QED
        BY <3>2, <4>1, <4>2, <4>3
    <3> QED
      BY <3>1, <3>2
  <2> QED
    BY <1>1, <1>2, <2>1, <2>3
<1>5. \A j \in 1..(Len(r) - 1) : (p \o q)[j].val = r[j + 1].val
  <2> TAKE j \in 1..(Len(r) - 1)
  <2>1. CASE j <= k - 1
    <3>1. r[j].val = r[k].val
      BY <2>1
    <3>2. r[j + 1].val = r[k].val
      BY <2>1
    <3> QED
      BY <1>4, <2>1, <3>1, <3>2
  <2> QED
    BY <1>4, <2>1
<1>6. r[1].val = r[k].val
  OBVIOUS
<1> QED
  BY <1>3, <1>4, <1>5, <1>6

LEMMA SumRemove ==
    ASSUME NEW r \in Seq(Answer), NEW k \in 1..Len(r), \A j \in 1..(k - 1) : r[j].val = r[k].val,
           NEW b \in [Users -> Count], NEW bb \in [Users -> Count], NEW c \in [Users -> Count], NEW u \in Users,
           bb[u] = IF r[k].val[u] = SB!Absent THEN b[u] ELSE r[k].val[u]
    PROVE  /\ SumIn(r, b, u) = ReadingIn(r, b, u, 1) + SumIn(RemoveAt(r, k), bb, u)
           /\ UnreadIn(RemoveAt(r, k), bb, c, u) = UnreadIn(r, b, c, u)
<1> DEFINE t == RemoveAt(r, k)
           n == Len(t)
           h == [j \in DOMAIN r |-> ReadingIn(r, b, u, j)]
           f == [j \in 1..(n + 1) |-> IF j = 1 THEN 0 ELSE ReadingIn(r, b, u, j)]
           o == [j \in 1..(n + 1) |-> IF j = 1 THEN ReadingIn(r, b, u, 1) ELSE 0]
           g == [j \in DOMAIN t |-> ReadingIn(t, bb, u, j)]
<1>1. /\ t \in Seq(Answer) /\ n \in Nat /\ Len(r) = n + 1 /\ \A j \in 1..n : t[j].val = r[j + 1].val
      /\ r[1].val = r[k].val /\ DOMAIN r = 1..(n + 1) /\ DOMAIN t = 1..n
  <2>1. t \in Seq(Answer) /\ Len(t) = Len(r) - 1 /\ \A j \in 1..(Len(r) - 1) : t[j].val = r[j + 1].val /\ r[1].val = r[k].val
    BY RemoveAtIs
  <2>2. r[1].val = r[k].val
    BY RemoveAtIs
  <2> HIDE DEF t
  <2> QED
    BY <2>1, <2>2
<1> HIDE DEF t
<1>2. /\ KnownIn(t, bb, u, 0) = StartOf(bb, u)
      /\ \A j \in 1..n :
            KnownIn(t, bb, u, j) = IF t[j].val[u] = SB!Absent THEN KnownIn(t, bb, u, j - 1) ELSE t[j].val[u]
  BY <1>1, KnownStep
<1>3. /\ KnownIn(r, b, u, 0) = StartOf(b, u)
      /\ \A j \in 1..(n + 1) :
            KnownIn(r, b, u, j) = IF r[j].val[u] = SB!Absent THEN KnownIn(r, b, u, j - 1) ELSE r[j].val[u]
  <2> DEFINE z == Len(r)
  <2>1. /\ KnownIn(r, b, u, 0) = StartOf(b, u)
        /\ \A j \in 1..z :
              KnownIn(r, b, u, j) = IF r[j].val[u] = SB!Absent THEN KnownIn(r, b, u, j - 1) ELSE r[j].val[u]
    BY KnownStep
  <2>2. z = n + 1
    BY <1>1
  <2> HIDE DEF z, n
  <2> QED
    BY <2>1, <2>2
<1> DEFINE G == {j \in Nat : j <= n => KnownIn(t, bb, u, j) = KnownIn(r, b, u, j + 1)}
<1> HIDE DEF n
<1>4. 0 \in G
  <2>1. KnownIn(r, b, u, 1) = IF r[1].val[u] = SB!Absent THEN KnownIn(r, b, u, 0) ELSE r[1].val[u]
    BY <1>1, <1>3
  <2> QED
    BY <1>1, <1>2, <1>3, <2>1 DEF StartOf
<1>5. ASSUME NEW j \in Nat, j \in G PROVE j + 1 \in G
  <2> SUFFICES ASSUME j + 1 <= n PROVE KnownIn(t, bb, u, j + 1) = KnownIn(r, b, u, (j + 1) + 1)
    OBVIOUS
  <2>1. j + 1 \in 1..n /\ (j + 1) + 1 \in 1..(n + 1) /\ (j + 1) - 1 = j /\ ((j + 1) + 1) - 1 = j + 1 /\ j <= n
    BY <1>1
  <2>2. KnownIn(t, bb, u, j) = KnownIn(r, b, u, j + 1)
    BY <1>5, <2>1
  <2>3. KnownIn(t, bb, u, j + 1) = IF t[j + 1].val[u] = SB!Absent THEN KnownIn(t, bb, u, j) ELSE t[j + 1].val[u]
    BY <1>2, <2>1
  <2>4. KnownIn(r, b, u, (j + 1) + 1) = IF r[(j + 1) + 1].val[u] = SB!Absent THEN KnownIn(r, b, u, j + 1) ELSE r[(j + 1) + 1].val[u]
    BY <1>3, <2>1
  <2>5. t[j + 1].val = r[(j + 1) + 1].val
    BY <1>1, <2>1
  <2> QED
    BY <2>2, <2>3, <2>4, <2>5
<1>6. \A j \in 0..n : KnownIn(t, bb, u, j) = KnownIn(r, b, u, j + 1)
  <2>1. Nat \subseteq G
    <3> HIDE DEF G
    <3> QED
      BY <1>4, <1>5, Induction
  <2> QED
    BY <1>1, <2>1
<1> HIDE DEF G
<1>7. \A j \in 1..n : ReadingIn(t, bb, u, j) = ReadingIn(r, b, u, j + 1)
  <2> TAKE j \in 1..n
  <2>1. t[j].val = r[j + 1].val /\ (j - 1) + 1 = j /\ (j + 1) - 1 = j /\ KnownIn(t, bb, u, j - 1) = KnownIn(r, b, u, (j - 1) + 1)
    BY <1>1, <1>6
  <2> QED
    BY <2>1 DEF ReadingIn
<1>8. UnreadIn(t, bb, c, u) = UnreadIn(r, b, c, u)
  <2>1. Len(t) = n
    BY DEF n
  <2> QED
    BY <1>1, <1>6, <2>1 DEF UnreadIn
<1>9. \A j \in 1..(n + 1) : ReadingIn(r, b, u, j) \in Nat
  BY <1>1, ReadingType
<1>10. IsFiniteSet(1..n) /\ IsFiniteSet(1..(n + 1)) /\ 1 \in 1..(n + 1)
  BY <1>1, FS_Interval
<1>11. Summable(g) /\ Summable(f) /\ Summable(o) /\ Summable(h)
  BY <1>1, <1>7, <1>9, <1>10 DEF Summable
<1>12. SumFunction(g) = SumFunction(f)
  <2> DEFINE s == [j \in 1..n |-> j + 1]
  <2>1. /\ s \in [DOMAIN g -> DOMAIN f] /\ DOMAIN g = 1..n
        /\ \A x \in DOMAIN g : g[x] = f[s[x]] /\ s[x] = x + 1
    BY <1>1, <1>7
  <2>2. \A y \in DOMAIN f : (\A x \in DOMAIN g : s[x] # y) => f[y] = 0
    <3> SUFFICES ASSUME NEW y \in 1..(n + 1), y # 1 PROVE \E x \in 1..n : s[x] = y
      BY <2>1
    <3>1. y - 1 \in 1..n /\ (y - 1) + 1 = y
      BY <1>1
    <3> QED
      BY <3>1
  <2>3. \A x, y \in DOMAIN g : s[x] = s[y] => x = y
    BY <1>1, <2>1
  <2>4. s \in [DOMAIN g -> DOMAIN f] /\ \A x \in DOMAIN g : g[x] = f[s[x]]
    BY <2>1
  <2>5. Summable(f) /\ Summable(g)
    BY <1>11
  <2> HIDE DEF f, g, s
  <2> QED
    BY ONLY <2>2, <2>3, <2>4, <2>5, SumVia
<1>13. SumFunction(o) = ReadingIn(r, b, u, 1)
  <2>1. 1 \in DOMAIN o /\ o[1] = ReadingIn(r, b, u, 1) /\ \A y \in DOMAIN o : y # 1 => o[y] = 0
    BY <1>10
  <2> HIDE DEF o
  <2> QED
    BY <1>11, <2>1, SumSingle
<1>14. SumFunction(h) = SumFunction(o) + SumFunction(f)
  <2>1. /\ DOMAIN f = DOMAIN h /\ DOMAIN o = DOMAIN h
        /\ \A x \in DOMAIN h : h[x] = o[x] + f[x]
    BY <1>1, <1>9
  <2> HIDE DEF f, o, h
  <2> QED
    BY <1>11, <2>1, SumAdd
<1>15. SumIn(r, b, u) = ReadingIn(r, b, u, 1) + SumIn(t, bb, u)
  <2>1. SumIn(r, b, u) = SumFunction(h) /\ SumIn(t, bb, u) = SumFunction(g)
    BY DEF SumIn
  <2> HIDE DEF f, g, h, o
  <2> QED
    BY <1>12, <1>13, <1>14, <2>1
<1> QED
  BY <1>8, <1>15 DEF t

SingBoxBooks == SingBoxTypes /\ SB!BooksBalance

LEMMA SumTypes ==
    ASSUME SingBoxTypes, NEW u \in Users
    PROVE  /\ cum[u] \in Int /\ pending[u] \in Int /\ owed[u] \in Int
           /\ SumIn(readings, baseline, u) \in Int /\ UnreadIn(readings, baseline, counter, u) \in Nat
           /\ counter[u] \in Nat \cup {-1} /\ baseline[u] \in Nat \cup {-1}
<1>1. SumIn(readings, baseline, u) \in Int
  BY SumInType DEF SingBoxTypes
<1>2. UnreadIn(readings, baseline, counter, u) \in Nat
  BY UnreadType DEF SingBoxTypes
<1>3. counter[u] \in Count /\ baseline[u] \in Count
  BY DEF SingBoxTypes
<1> QED
  BY <1>1, <1>2, <1>3 DEF SingBoxTypes, Count, SB!Absent

LEMMA QueryStep ==
    ASSUME SingBoxBooks, NEW q \in Requests, SB!Query(q)
    PROVE  SingBoxBooks'
<1> DEFINE t == Append(readings, [by |-> q, val |-> counter])
<1>1. /\ readings' = t /\ counter' = counter /\ baseline' = baseline /\ pending' = pending
      /\ cum' = cum /\ owed' = owed /\ outgrown' = outgrown /\ disturbed' = disturbed
  BY DEF SB!Query
<1>2. SingBoxTypes'
  <2>1. [by |-> q, val |-> counter] \in Answer /\ readings \in Seq(Answer)
    BY DEF SingBoxBooks, SingBoxTypes, Answer
  <2>2. t \in Seq(Answer)
    BY <2>1
  <2> QED
    BY <1>1, <2>2 DEF SingBoxBooks, SingBoxTypes
<1>3. ASSUME NEW u \in Users PROVE SB!ToFold(u)' = SB!ToFold(u)
  <2>1. SumIn(t, baseline, u) + UnreadIn(t, baseline, counter, u)
            = SumIn(readings, baseline, u) + UnreadIn(readings, baseline, counter, u)
    BY SumAppend DEF SingBoxBooks, SingBoxTypes
  <2> HIDE DEF t
  <2> QED
    BY <1>1, <2>1, ToFoldIs
<1>4. SB!BooksBalance'
  BY <1>1, <1>3 DEF SingBoxBooks, SB!BooksBalance
<1> QED
  BY <1>2, <1>4 DEF SingBoxBooks

LEMMA FoldStep ==
    ASSUME SingBoxBooks, NEW k \in DOMAIN readings, SB!Fold(k)
    PROVE  SingBoxBooks'
<1> DEFINE cur == readings[k].val
<1>1. /\ readings \in Seq(Answer) /\ k \in 1..Len(readings) /\ cur \in [Users -> Count]
      /\ readings[k] \in Answer
  <2>1. readings \in Seq(Answer) /\ k \in 1..Len(readings)
    BY DEF SingBoxBooks, SingBoxTypes
  <2>2. readings[k] \in Answer
    BY <2>1
  <2> QED
    BY <2>1, <2>2 DEF Answer
<1>2. /\ pending' = [u \in Users |-> pending[u] + SB!Growth(u, cur[u])]
      /\ baseline' = [u \in Users |-> IF cur[u] = SB!Absent THEN baseline[u] ELSE cur[u]]
      /\ owed' = [u \in Users |-> owed[u] - IF SB!FirstSight(u, cur[u]) THEN cur[u] ELSE 0]
      /\ disturbed' = (disturbed \/ \E j \in 1..k-1 : readings[j].val # cur)
      /\ readings' = RemoveAt(readings, k)
      /\ counter' = counter /\ cum' = cum /\ outgrown' = outgrown
  BY SameRemoveAt DEF SB!Fold
<1>3. \A u \in Users : cur[u] \in Nat \cup {-1} /\ baseline[u] \in Nat \cup {-1} /\ pending[u] \in Int /\ owed[u] \in Int
  BY <1>1, SumTypes DEF Count, SB!Absent, SingBoxBooks
<1>4. SingBoxTypes'
  <2>1. RemoveAt(readings, k) \in Seq(Answer)
    <3> DEFINE p == SubSeq(readings, 1, k - 1)
               q == SubSeq(readings, k + 1, Len(readings))
    <3>1. p \in Seq(Answer)
      BY <1>1
    <3>2. q \in Seq(Answer)
      BY <1>1
    <3>3. RemoveAt(readings, k) = p \o q
      BY DEF RemoveAt
    <3> HIDE DEF p, q
    <3> QED
      BY <3>1, <3>2, <3>3, ConcatProperties
  <2>2. baseline' \in [Users -> Count]
    BY <1>1, <1>2 DEF SingBoxBooks, SingBoxTypes
  <2>3. \A u \in Users : SB!Growth(u, cur[u]) \in Int
    <3> HIDE DEF cur
    <3> QED
      BY <1>3 DEF SB!Growth, SB!Grown, SB!Absent
  <2>4. pending' \in [Users -> Int]
    BY <1>2, <1>3, <2>3
  <2>5. owed' \in [Users -> Int]
    <3> HIDE DEF cur
    <3> QED
      BY <1>2, <1>3 DEF SB!FirstSight, SB!Absent
  <2> QED
    BY <1>2, <2>1, <2>2, <2>4, <2>5 DEF SingBoxBooks, SingBoxTypes
<1>5. ASSUME NEW u \in Users, ~disturbed'
      PROVE  owed[u] - owed'[u] = (cum[u] + pending[u] + SB!ToFold(u)) - (cum'[u] + pending'[u] + SB!ToFold(u)')
  <2>1. \A j \in 1..(k - 1) : readings[j].val = readings[k].val
    BY <1>2, <1>5
  <2>2. baseline'[u] = IF readings[k].val[u] = SB!Absent THEN baseline[u] ELSE readings[k].val[u]
    BY <1>2
  <2>3. baseline \in [Users -> Count] /\ baseline' \in [Users -> Count] /\ counter \in [Users -> Count]
    BY <1>4 DEF SingBoxBooks, SingBoxTypes
  <2>4. /\ SumIn(readings, baseline, u) = ReadingIn(readings, baseline, u, 1) + SumIn(RemoveAt(readings, k), baseline', u)
        /\ UnreadIn(RemoveAt(readings, k), baseline', counter, u) = UnreadIn(readings, baseline, counter, u)
    <3> DEFINE bb == baseline'
    <3>1. bb \in [Users -> Count] /\ bb[u] = IF readings[k].val[u] = SB!Absent THEN baseline[u] ELSE readings[k].val[u]
      BY <2>2, <2>3
    <3> HIDE DEF bb
    <3>2. /\ SumIn(readings, baseline, u) = ReadingIn(readings, baseline, u, 1) + SumIn(RemoveAt(readings, k), bb, u)
          /\ UnreadIn(RemoveAt(readings, k), bb, counter, u) = UnreadIn(readings, baseline, counter, u)
      <4>1. readings \in Seq(Answer) /\ k \in 1..Len(readings)
        BY <1>1
      <4>2. ASSUME NEW x \in [Users -> Count], NEW y \in [Users -> Count], NEW z \in [Users -> Count],
                   x[u] = IF readings[k].val[u] = SB!Absent THEN y[u] ELSE readings[k].val[u]
            PROVE  /\ SumIn(readings, y, u) = ReadingIn(readings, y, u, 1) + SumIn(RemoveAt(readings, k), x, u)
                   /\ UnreadIn(RemoveAt(readings, k), x, z, u) = UnreadIn(readings, y, z, u)
        BY <2>1, <4>1, <4>2, SumRemove
      <4> HIDE DEF cur
      <4> QED
        BY <2>1, <2>3, <3>1, <4>1, <4>2
    <3> QED
      BY <3>2 DEF bb
  <2>5. readings[1].val = cur
    <3>1. readings[1].val = readings[k].val
      BY <1>1, <2>1, RemoveAtIs
    <3> QED
      BY <3>1
  <2>6. ReadingIn(readings, baseline, u, 1) = SB!Growth(u, cur[u]) + (owed[u] - owed'[u])
    <3>1. KnownIn(readings, baseline, u, 0) = StartOf(baseline, u) /\ 1 - 1 = 0
      BY <1>1, KnownStep
    <3>2. ReadingIn(readings, baseline, u, 1) = IF cur[u] = SB!Absent THEN 0 ELSE SB!Grown(StartOf(baseline, u), cur[u])
      BY <2>5, <3>1 DEF ReadingIn
    <3>3. owed'[u] = owed[u] - IF SB!FirstSight(u, cur[u]) THEN cur[u] ELSE 0
      BY <1>2
    <3> HIDE DEF cur
    <3> QED
      BY <1>3, <3>2, <3>3 DEF SB!Growth, SB!Grown, StartOf, SB!FirstSight, SB!Absent
  <2>7. pending'[u] = pending[u] + SB!Growth(u, cur[u]) /\ cum'[u] = cum[u]
    BY <1>2
  <2> DEFINE a == SumIn(readings, baseline, u)
             b == SumIn(readings', baseline', u)
             c == UnreadIn(readings, baseline, counter, u)
             d == SB!Growth(u, cur[u])
             e == owed[u]
             f == owed'[u]
             p == pending[u]
             q == cum[u]
  <2>8. /\ a \in Int /\ c \in Nat /\ e \in Int /\ p \in Int /\ q \in Int
        /\ b \in Int /\ f \in Int
    <3>1. a \in Int /\ c \in Nat /\ e \in Int /\ p \in Int /\ q \in Int
      BY SumTypes DEF SingBoxBooks
    <3>2. readings' \in Seq(Answer)
      BY <1>4 DEF SingBoxTypes
    <3>3. b \in Int
      <4> DEFINE rr == readings'
                 bb == baseline'
      <4>1. rr \in Seq(Answer) /\ bb \in [Users -> Count]
        BY <2>3, <3>2
      <4> HIDE DEF rr, bb
      <4>2. SumIn(rr, bb, u) \in Int
        BY <4>1, SumInType
      <4> QED
        BY <4>2 DEF rr, bb
    <3> QED
      BY <1>4, <3>1, <3>3 DEF SingBoxTypes
  <2>9. d \in Int
    <3> HIDE DEF cur
    <3> QED
      BY <1>3 DEF SB!Growth, SB!Grown, SB!Absent
  <2>10. /\ a = (d + (e - f)) + b
         /\ SB!ToFold(u) = a + c /\ SB!ToFold(u)' = b + c /\ pending'[u] = p + d /\ cum'[u] = q
    <3>1. a = (d + (e - f)) + b
      BY <1>2, <2>4, <2>6
    <3>2. SB!ToFold(u) = a + c /\ SB!ToFold(u)' = b + c
      BY <1>2, <2>4, ToFoldIs
    <3> QED
      BY <2>7, <3>1, <3>2
  <2>11. owed[u] - owed'[u] = e - f /\ cum[u] = q /\ pending[u] = p
    OBVIOUS
  <2> HIDE DEF a, b, c, d, e, f, p, q
  <2>12. e - f = (q + p + (a + c)) - (q + (p + d) + (b + c))
    BY <2>8, <2>9, <2>10
  <2> QED
    BY <2>10, <2>11, <2>12
<1>6. ASSUME NEW u \in Users PROVE /\ SB!ToFold(u) \in Int /\ SB!ToFold(u)' \in Int
                                   /\ cum[u] \in Int /\ pending[u] \in Int /\ owed[u] \in Int
                                   /\ cum'[u] \in Int /\ pending'[u] \in Int /\ owed'[u] \in Int
  <2>1. SB!ToFold(u) \in Int /\ cum[u] \in Int /\ pending[u] \in Int /\ owed[u] \in Int
    BY SumTypes, ToFoldIs DEF SingBoxBooks
  <2>2. SB!ToFold(u)' \in Int
    <3> DEFINE rr == readings'
               bb == baseline'
               cc == counter'
    <3>1. rr \in Seq(Answer) /\ bb \in [Users -> Count] /\ cc \in [Users -> Count]
      BY <1>4 DEF SingBoxTypes
    <3> HIDE DEF rr, bb, cc
    <3>2. SumIn(rr, bb, u) \in Int /\ UnreadIn(rr, bb, cc, u) \in Nat
      BY <3>1, SumInType, UnreadType
    <3> QED
      BY <3>2, ToFoldIs DEF rr, bb, cc
  <2> QED
    BY <1>4, <2>1, <2>2 DEF SingBoxTypes
<1>7. SB!BooksBalance'
  <2> SUFFICES ASSUME ~disturbed', NEW u \in Users
               PROVE  LET sum == cum'[u] + pending'[u] + SB!ToFold(u)'
                      IN  sum <= owed'[u] /\ (u \notin outgrown' => sum = owed'[u])
    BY DEF SB!BooksBalance
  <2>1. ~disturbed
    BY <1>2
  <2>2. /\ cum[u] + pending[u] + SB!ToFold(u) <= owed[u]
        /\ u \notin outgrown => cum[u] + pending[u] + SB!ToFold(u) = owed[u]
    BY <2>1 DEF SingBoxBooks, SB!BooksBalance
  <2> DEFINE a == cum[u] + pending[u] + SB!ToFold(u)
             b == cum'[u] + pending'[u] + SB!ToFold(u)'
             e == owed[u]
             f == owed'[u]
  <2>3. a \in Int /\ b \in Int /\ e \in Int /\ f \in Int /\ e - f = a - b /\ a <= e /\ (u \notin outgrown => a = e)
    BY <1>5, <1>6, <2>2
  <2> HIDE DEF a, b, e, f
  <2>4. b <= f /\ (u \notin outgrown => b = f)
    BY <2>3
  <2> QED
    BY <1>2, <2>4 DEF b, f
<1> QED
  BY <1>4, <1>7 DEF SingBoxBooks

LEMMA TakeStep ==
    ASSUME SingBoxBooks, NEW q \in Requests, NEW names, NEW consume \in BOOLEAN, SB!Take(q, names, consume)
    PROVE  SingBoxBooks'
<1>1. /\ readings' = readings /\ counter' = counter /\ baseline' = baseline
      /\ owed' = owed /\ outgrown' = outgrown /\ disturbed' = disturbed
  BY DEF SB!Take
<1>2. \A u \in Users : cum[u] \in Int /\ pending[u] \in Int
  BY SumTypes DEF SingBoxBooks
<1>3. /\ cum' \in [Users -> Int] /\ pending' \in [Users -> Int]
      /\ \A u \in Users : cum'[u] + pending'[u] = cum[u] + pending[u]
  <2>1. CASE consume
    <3>1. /\ pending' = [u \in Users |-> IF u \in names THEN 0 ELSE pending[u]]
          /\ cum' = [u \in Users |-> IF u \in names THEN cum[u] + pending[u] ELSE cum[u]]
      BY <2>1 DEF SB!Take
    <3> QED
      BY <1>2, <3>1
  <2>2. CASE ~consume
    BY <1>2, <2>2 DEF SB!Take, SingBoxBooks, SingBoxTypes
  <2> QED
    BY <2>1, <2>2
<1>4. SingBoxTypes'
  BY <1>1, <1>3 DEF SingBoxBooks, SingBoxTypes
<1>5. \A u \in Users : SB!ToFold(u)' = SB!ToFold(u)
  BY <1>1, ToFoldIs
<1>6. SB!BooksBalance'
  BY <1>1, <1>3, <1>5 DEF SingBoxBooks, SB!BooksBalance
<1> QED
  BY <1>4, <1>6 DEF SingBoxBooks

LEMMA CounterMoves ==
    ASSUME SingBoxBooks, NEW v \in Users, SB!Moves(v)
    PROVE  SingBoxBooks'
<1> DEFINE next == IF counter[v] = SB!Absent THEN 1 ELSE counter[v] + 1
<1>1. /\ counter' = [counter EXCEPT ![v] = next] /\ owed' = [owed EXCEPT ![v] = @ + 1]
      /\ outgrown' = IF next = SB!Newest(v) THEN outgrown \cup {v} ELSE outgrown
      /\ readings' = readings /\ baseline' = baseline /\ pending' = pending /\ cum' = cum
      /\ disturbed' = disturbed
  BY DEF SB!Moves, SB!clientVars
<1>2. counter[v] \in Nat \cup {-1} /\ next \in Nat
  BY SumTypes DEF SingBoxBooks, SB!Absent
<1>3. SingBoxTypes'
  BY <1>1, <1>2 DEF SingBoxBooks, SingBoxTypes, Count
<1> DEFINE N == KnownIn(readings, baseline, v, Len(readings))
<1>4. N \in Nat /\ SB!Newest(v) = N
  <2>1. readings \in Seq(Answer) /\ Len(readings) \in 0..Len(readings) /\ baseline \in [Users -> Count]
    BY DEF SingBoxBooks, SingBoxTypes
  <2> QED
    BY <2>1, KnownType, ToFoldIs
<1>5. ASSUME ~disturbed, NEW u \in Users
      PROVE  LET sum == cum'[u] + pending'[u] + SB!ToFold(u)'
             IN  sum <= owed'[u] /\ (u \notin outgrown' => sum = owed'[u])
  <2> DEFINE s == SumIn(readings, baseline, u)
             a == UnreadIn(readings, baseline, counter, u)
             b == UnreadIn(readings', baseline', counter', u)
             p == cum[u]
             q == pending[u]
             e == owed[u]
  <2>1. SB!ToFold(u) = s + a /\ SB!ToFold(u)' = s + b
    BY <1>1, ToFoldIs
  <2>2. s \in Int /\ a \in Nat /\ p \in Int /\ q \in Int /\ e \in Int
    BY SumTypes DEF SingBoxBooks
  <2>3. p + q + (s + a) <= e /\ (u \notin outgrown => p + q + (s + a) = e)
    BY <1>5, <2>1 DEF SingBoxBooks, SB!BooksBalance
  <2>4. cum'[u] = p /\ pending'[u] = q
    BY <1>1
  <2>5. CASE u # v
    <3>1. counter'[u] = counter[u] /\ owed'[u] = e /\ (u \notin outgrown' <=> u \notin outgrown)
      BY <1>1, <2>5 DEF SingBoxBooks, SingBoxTypes
    <3>2. b = a
      BY <1>1, <3>1 DEF UnreadIn
    <3> HIDE DEF s, a, b, p, q, e
    <3> QED
      BY <2>1, <2>2, <2>3, <2>4, <3>1, <3>2
  <2>6. CASE u = v
    <3>1. counter'[u] = next /\ owed'[u] = e + 1
      BY <1>1, <2>6 DEF SingBoxBooks, SingBoxTypes
    <3>2. a = (IF counter[v] = SB!Absent THEN 0 ELSE SB!Grown(N, counter[v])) /\ b = SB!Grown(N, next)
      <4>1. next # SB!Absent
        BY <1>2 DEF SB!Absent
      <4> HIDE DEF next
      <4> QED
        BY <1>1, <2>6, <3>1, <4>1 DEF UnreadIn
    <3>3. next # N => b = a + 1
      <4> HIDE DEF N, a, b
      <4> QED
        BY <1>2, <1>4, <3>2 DEF SB!Grown, SB!Absent
    <3>4. next = N => b = 0
      <4> HIDE DEF N, a, b
      <4> QED
        BY <1>2, <1>4, <3>2 DEF SB!Grown, SB!Absent
    <3>5. u \notin outgrown' => u \notin outgrown /\ next # N
      BY <1>1, <1>4, <2>6
    <3> HIDE DEF s, a, b, p, q, e, next, N
    <3>6. b \in Nat /\ b <= a + 1
      BY <2>2, <3>3, <3>4
    <3>7. p + q + (s + b) <= e + 1 /\ (b = a + 1 /\ u \notin outgrown => p + q + (s + b) = e + 1)
      BY <2>2, <2>3, <3>6
    <3>8. cum'[u] + pending'[u] + SB!ToFold(u)' = p + q + (s + b)
      BY <2>1, <2>4
    <3> QED
      BY <3>1, <3>3, <3>5, <3>7, <3>8
  <2> QED
    BY <2>5, <2>6
<1>6. SB!BooksBalance'
  BY <1>1, <1>5 DEF SB!BooksBalance
<1> QED
  BY <1>3, <1>6 DEF SingBoxBooks

LEMMA ProcessRestarts ==
    ASSUME SingBoxBooks, SB!ProcessRestarts
    PROVE  SingBoxBooks'
<1>1. /\ counter' = SB!Nowhere /\ owed' = [u \in Users |-> owed[u] - SB!Unread(u)]
      /\ readings' = readings /\ baseline' = baseline /\ pending' = pending /\ cum' = cum
      /\ outgrown' = outgrown /\ disturbed' = disturbed
  BY DEF SB!ProcessRestarts, SB!clientVars
<1>2. \A u \in Users : SB!Unread(u) = UnreadIn(readings, baseline, counter, u) /\ SB!Unread(u) \in Nat
  BY SumTypes, ToFoldIs DEF SingBoxBooks
<1>3. SingBoxTypes'
  BY <1>1, <1>2 DEF SingBoxBooks, SingBoxTypes, SB!Nowhere, Count
<1>4. ASSUME ~disturbed, NEW u \in Users
      PROVE  LET sum == cum'[u] + pending'[u] + SB!ToFold(u)'
             IN  sum <= owed'[u] /\ (u \notin outgrown' => sum = owed'[u])
  <2> DEFINE s == SumIn(readings, baseline, u)
             a == UnreadIn(readings, baseline, counter, u)
             p == cum[u]
             q == pending[u]
             e == owed[u]
  <2>1. SB!ToFold(u) = s + a /\ SB!ToFold(u)' = s + UnreadIn(readings, baseline, SB!Nowhere, u)
    BY <1>1, ToFoldIs
  <2>2. UnreadIn(readings, baseline, SB!Nowhere, u) = 0
    BY DEF UnreadIn, SB!Nowhere
  <2>3. s \in Int /\ a \in Nat /\ p \in Int /\ q \in Int /\ e \in Int
    BY SumTypes DEF SingBoxBooks
  <2>4. p + q + (s + a) <= e /\ (u \notin outgrown => p + q + (s + a) = e)
    BY <1>4, <2>1 DEF SingBoxBooks, SB!BooksBalance
  <2>5. cum'[u] = p /\ pending'[u] = q /\ owed'[u] = e - a
    BY <1>1, <1>2
  <2> HIDE DEF s, a, p, q, e
  <2> QED
    BY <1>1, <2>1, <2>2, <2>3, <2>4, <2>5
<1>5. SB!BooksBalance'
  BY <1>1, <1>4 DEF SB!BooksBalance
<1> QED
  BY <1>3, <1>5 DEF SingBoxBooks

LEMMA SingBoxBooksInit == SB!Init => SingBoxBooks
<1> SUFFICES ASSUME SB!Init PROVE SingBoxBooks
  OBVIOUS
<1>1. SingBoxTypes
  BY DEF SB!Init, SingBoxTypes, SB!Nowhere, SB!Zero, Count
<1>2. ASSUME NEW u \in Users PROVE SB!ToFold(u) = 0
  <2>1. UnreadIn(readings, baseline, counter, u) = 0
    BY DEF SB!Init, SB!Nowhere, UnreadIn
  <2> DEFINE f == [k \in DOMAIN readings |-> ReadingIn(readings, baseline, u, k)]
  <2>2. Summable(f)
    BY <1>1, SumInType DEF SingBoxTypes
  <2>3. DOMAIN f = {}
    BY DEF SB!Init
  <2>4. SumIn(readings, baseline, u) = SumFunction(f)
    BY DEF SumIn
  <2> HIDE DEF f
  <2>5. SumFunction(f) = 0
    BY <2>2, <2>3, SumZero
  <2> QED
    BY <2>1, <2>4, <2>5, ToFoldIs
<1>3. SB!BooksBalance
  BY <1>2 DEF SB!Init, SB!Zero, SB!BooksBalance
<1> QED
  BY <1>1, <1>3 DEF SingBoxBooks

LEMMA SingBoxBooksStep == SingBoxBooks /\ [SB!Next]_SB!vars => SingBoxBooks'
<1> SUFFICES ASSUME SingBoxBooks, [SB!Next]_SB!vars PROVE SingBoxBooks'
  OBVIOUS
<1>1. CASE UNCHANGED SB!vars
  <2>1. \A u \in Users : SB!ToFold(u)' = SB!ToFold(u)
    BY <1>1, ToFoldIs DEF SB!vars, SB!clientVars
  <2> QED
    BY <1>1, <2>1 DEF SB!vars, SB!clientVars, SingBoxBooks, SingBoxTypes, SB!BooksBalance
<1> QED
  BY <1>1, QueryStep, FoldStep, TakeStep, CounterMoves, ProcessRestarts DEF SB!Next

(***************************************************************************)
(* BooksBalance: what GetStats has handed out, what it holds pending and   *)
(* what is still to be folded in never exceeds what a user has moved, and  *)
(* equals it unless a restarted counter passed its baseline unread, short  *)
(* of a reading folded after a later one.                                  *)
(***************************************************************************)
THEOREM SingBoxBalances == SB!Spec => []SB!BooksBalance
<1>1. SingBoxBooks => SB!BooksBalance
  BY DEF SingBoxBooks
<1> QED
  BY <1>1, SingBoxBooksInit, SingBoxBooksStep, PTL DEF SB!Spec
-----------------------------------------------------------------------------
(***************************************************************************)
(* A core of any of the three kinds.                                       *)
(***************************************************************************)
CoreInv ==
    /\ core = "openvpn" => UsersInv /\ BooksInv
    /\ core = "l2tp" => L2TPBooks
    /\ core = "singbox" => SingBoxBooks

LEMMA CoreInvInit == CoreInit => CoreInv
BY UsersInit, BooksInit, L2TPBooksInit, SingBoxBooksInit DEF CoreInit, CoreInv

(* A step of the core is one of its kind, or leaves its kind's state.      *)
LEMMA CoreSteps ==
    ASSUME [CoreNext]_coreVars
    PROVE  /\ core' = core
           /\ core = "openvpn" => [Next]_vars
           /\ core = "l2tp" => [L2!Next]_L2!vars
           /\ core = "singbox" => [SB!Next]_SB!vars
<1>1. CASE CoreNext
  BY <1>1 DEF CoreNext
<1>2. CASE UNCHANGED coreVars
  <2>1. UNCHANGED core /\ UNCHANGED vars
    BY <1>2 DEF coreVars, vpnVars, openvpnVars, vars, daemonVars, mgmtVars, bookVars, lifeVars, ghosts
  <2>2. UNCHANGED L2!vars
    BY <1>2 DEF coreVars, vpnVars, l2tpVars, L2!vars, L2!pppVars, L2!pollVars, L2!lifeVars
  <2>3. UNCHANGED SB!vars
    BY <1>2 DEF coreVars, singboxVars, SB!vars, SB!clientVars
  <2> QED
    BY <2>1, <2>2, <2>3
<1> QED
  BY <1>1, <1>2

LEMMA CoreInvStep == CoreInv /\ [CoreNext]_coreVars => CoreInv'
<1> SUFFICES ASSUME CoreInv, [CoreNext]_coreVars PROVE CoreInv'
  OBVIOUS
<1>1. core' = core
  BY CoreSteps
<1>2. core = "openvpn" => UsersInv' /\ BooksInv'
  BY CoreSteps, UsersStep, BooksStep DEF CoreInv
<1>3. core = "l2tp" => L2TPBooks'
  BY CoreSteps, L2TPBooksStep DEF CoreInv
<1>4. core = "singbox" => SingBoxBooks'
  BY CoreSteps, SingBoxBooksStep DEF CoreInv
<1> QED
  BY <1>1, <1>2, <1>3, <1>4 DEF CoreInv

(***************************************************************************)
(* RemovedUsersAreCutOff: the session of a user the panel has removed, or  *)
(* whose certificate it no longer pins, is killed or is about to be, by    *)
(* OpenVPN and by L2TP, whatever requests overlap.                         *)
(***************************************************************************)
THEOREM CoresCutOff == CoreSpec => []RemovedUsersAreCutOff
<1>1. CoreInv => RemovedUsersAreCutOff
  BY DEF CoreInv, RemovedUsersAreCutOff, UsersInv, L2TPBooks, Shape, L2TPUsers
<1> QED
  BY <1>1, CoreInvInit, CoreInvStep, PTL DEF CoreSpec

(***************************************************************************)
(* BytesCountOnce: whatever the kind of the core, what its statistics have *)
(* reported and what they will still find adds up to what every user has   *)
(* moved, short of the orders each kind's BooksBalance excepts.            *)
(***************************************************************************)
THEOREM CoresBalance == CoreSpec => []BytesCountOnce
<1>1. CoreInv => BytesCountOnce
  BY BooksAdd DEF CoreInv, BytesCountOnce, L2TPBooks, SingBoxBooks
<1> QED
  BY <1>1, CoreInvInit, CoreInvStep, PTL DEF CoreSpec
=============================================================================
