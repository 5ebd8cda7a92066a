----------------------------- MODULE SingBoxUsers -----------------------------
(***************************************************************************)
(* The users of a sing-box core: the set the panel described, the slot     *)
(* table that gives each user a position, the pushes that replace an       *)
(* inbound's list whole, and the sessions, which sing-box identifies by    *)
(* the position they authenticated at. Billing follows the position, so a  *)
(* position must not change hands under a live session.                    *)
(*                                                                         *)
(* A pusher is a request, the timer callback a SyncUser request created,   *)
(* or the start of the process. A step is one critical section of usersMu  *)
(* or one call to clash_api. The process's own life is in SingBoxProcess.  *)
(***************************************************************************)
EXTENDS Integers, Sequences, FiniteSets

CONSTANTS
    Emails,
    Free,        \* freeSlotName: what a position without a usable user shows
    Inbounds,
    Requests,    \* the panel's requests
    NoReq,
    Kinds,       \* which requests: "SyncUser", "SyncUsers", "UpdateUsers"
    MaxExits,    \* bound on how often the process exits and is started again
    MaxSessions, \* bound on the sessions at any time
    Overlap      \* what overlaps: "push", pushes with one another; "start", other
                 \* pushes with the time from a new process's first answer to the
                 \* end of its first push

ASSUME SingBoxUsersAssumption ==
    /\ IsFiniteSet(Emails) /\ Free \notin Emails /\ NoReq \notin Requests
    /\ Kinds \subseteq {"SyncUser", "SyncUsers", "UpdateUsers"}
    /\ MaxExits \in Nat /\ MaxSessions \in Nat
    /\ Overlap \subseteq {"push", "start"}

VARIABLES
    users,      \* s.users: for each user the inbounds there is a secret for, none when absent
    slots,      \* s.slots
    pushTimer,  \* s.pushTimer: the request that created it
    armed,      \* timers that will fire
    pc,         \* where each pusher is
    payload,    \* what each is sending, to which inbounds still
    up,         \* the process answers
    lists,      \* sing-box: the list of each inbound
    sessions,   \* sing-box: who is connected, where, at which position
    exits,
    refused     \* inbounds the last call for which has failed

coreVars == <<up, lists, sessions, exits, refused>>
vars == <<users, slots, pushTimer, armed, pc, payload, coreVars>>

Req(r) == <<"request", r>>
Timer(r) == <<"timer", r>>
Start == <<"start", NoReq>>
Pushers == {Req(r) : r \in Requests} \cup {Timer(r) : r \in Requests} \cup {Start}

Names == Emails \cup {Free}
NoPayload == [list |-> [i \in Inbounds |-> <<>>], to |-> {}]
Secrets == SUBSET Inbounds
Goto(p, label) == pc' = [pc EXCEPT ![p] = label]

(* New has the first users and a process that has just answered.           *)
Init ==
    /\ users \in [Emails -> Secrets]
    /\ slots = <<>>
    /\ pushTimer = NoReq
    /\ armed = {}
    /\ pc = [p \in Pushers |-> IF p = Start THEN "compact" ELSE "idle"]
    /\ payload = [p \in Pushers |-> NoPayload]
    /\ up = TRUE
    /\ lists = [i \in Inbounds |-> <<>>]
    /\ sessions = {}
    /\ exits = 0
    /\ refused = {}

-----------------------------------------------------------------------------
(***************************************************************************)
(* The slot table and its rendering.                                       *)
(***************************************************************************)
Present == {e \in Emails : users[e] # {}}
Placed(s) == {s[k] : k \in DOMAIN s} \ {Free}
Orders(S) == {f \in [1..Cardinality(S) -> S] : \A e \in S : \E k \in DOMAIN f : f[k] = e}

(* reconcileSlotsLocked: departed users leave holes, new ones extend the   *)
(* list in any order. The mutant closes the holes up.                      *)
Held(s) == [k \in DOMAIN s |-> IF s[k] \in Present THEN s[k] ELSE Free]
ReconciledCompact(s) ==
    {SelectSeq(Held(s), LAMBDA e : e # Free) \o f : f \in Orders(Present \ Placed(s))}
Reconciled(s) == {Held(s) \o f : f \in Orders(Present \ Placed(s))}

(* payloadForLocked: a user without a secret for the inbound shows as a    *)
(* free slot. The mutant leaves the user out.                              *)
PayloadForDrops(s, i) ==
    SelectSeq(s, LAMBDA e : e # Free /\ i \in users[e])
PayloadFor(s, i) ==
    [k \in DOMAIN s |-> IF s[k] # Free /\ i \in users[s[k]] THEN s[k] ELSE Free]
-----------------------------------------------------------------------------
(***************************************************************************)
(* Requests.                                                               *)
(***************************************************************************)
Starting == up /\ pc[Start] # "idle"
MayOverlapStart == Starting => "start" \in Overlap

(* SyncUser changes one user, and pushSoon arms the timer or resets it.    *)
SyncUser(r, e, secrets) ==
    /\ pc[Req(r)] = "idle" /\ "SyncUser" \in Kinds
    /\ users' = [users EXCEPT ![e] = secrets]
    /\ Goto(Req(r), "pushSoon")
    /\ UNCHANGED <<slots, pushTimer, armed, payload, coreVars>>

PushSoon(r) ==
    /\ pc[Req(r)] = "pushSoon"
    /\ pushTimer' = IF pushTimer = NoReq THEN r ELSE pushTimer
    /\ armed' = armed \cup {pushTimer'}
    /\ Goto(Req(r), "done")
    /\ UNCHANGED <<users, slots, payload, coreVars>>

(* The callback takes the timer off the struct, whichever it is by then.   *)
Fire(t) ==
    /\ t \in armed /\ pc[Timer(t)] = "idle"
    /\ armed' = armed \ {t}
    /\ Goto(Timer(t), "clear")
    /\ UNCHANGED <<users, slots, pushTimer, payload, coreVars>>

ClearTimer(t) ==
    /\ pc[Timer(t)] = "clear"
    /\ pushTimer' = NoReq
    /\ Goto(Timer(t), "push")
    /\ UNCHANGED <<users, slots, armed, payload, coreVars>>

(* pushTimer.Stop and pushTimer = nil                                      *)
StopTimer ==
    /\ armed' = armed \ {pushTimer}
    /\ pushTimer' = NoReq

(* replaceUsers: the whole set. A user not in it is gone.              *)
SyncUsers(r, set) ==
    /\ pc[Req(r)] = "idle" /\ "SyncUsers" \in Kinds
    /\ users' = set
    /\ StopTimer
    /\ Goto(Req(r), "push")
    /\ UNCHANGED <<slots, payload, coreVars>>

(* mergeUsers, of UpdateUsers and UpdateUsersAndRestart: the users named.  *)
UpdateUsers(r, E, set) ==
    /\ pc[Req(r)] = "idle" /\ "UpdateUsers" \in Kinds
    /\ users' = [e \in Emails |-> IF e \in E THEN set[e] ELSE users[e]]
    /\ StopTimer
    /\ Goto(Req(r), "push")
    /\ UNCHANGED <<slots, payload, coreVars>>
-----------------------------------------------------------------------------
(***************************************************************************)
(* pushUsers: the lists are rendered under usersMu and sent outside it,    *)
(* one inbound after the other.                                            *)
(***************************************************************************)
Sending(p) == payload[p].to # {}
MayOverlapPush == (\E p \in Pushers : Sending(p)) => "push" \in Overlap

Render(p) ==
    /\ pc[p] = "push"
    /\ MayOverlapPush
    /\ p # Start => MayOverlapStart
    /\ \E s \in Reconciled(slots) :
          /\ slots' = s
          /\ payload' = [payload EXCEPT ![p] =
                            [list |-> [i \in Inbounds |-> PayloadFor(s, i)], to |-> Inbounds]]
    /\ Goto(p, "send")
    /\ UNCHANGED <<users, pushTimer, armed, coreVars>>

Replace(p, i) == lists' = [lists EXCEPT ![i] = payload[p].list[i]]

(* One call of the loop over the inbounds: the next follows whether it has *)
(* failed or not.                                                          *)
Call(p, i) ==
    /\ pc[p] = "send" /\ i \in payload[p].to
    /\ p # Start => MayOverlapStart
    /\ payload' = [payload EXCEPT ![p] =
                      IF @.to = {i} THEN NoPayload ELSE [payload[p] EXCEPT !.to = @ \ {i}]]
    /\ Goto(p, IF payload[p].to # {i} THEN "send"
               ELSE IF p[1] = "request" THEN "done" ELSE "idle")
    /\ UNCHANGED <<users, slots, pushTimer, armed, up, sessions, exits>>

(* replaceUsers of clash_api: the inbound's list is the payload from now   *)
(* on.                                                                     *)
Send(p, i) ==
    /\ up /\ Call(p, i)
    /\ Replace(p, i)
    /\ refused' = refused \ {i}

(* The call returns an error: the process is down or refuses the list, or  *)
(* has taken it and the answer is lost. A request reports it, the timer's  *)
(* callback and the supervisor log it, and nobody sends the list again.    *)
(* New gives the core up when its push fails, and hands none out.          *)
SendFail(p, i) ==
    /\ p = Start => exits > 0
    /\ Call(p, i)
    /\ UNCHANGED lists \/ (up /\ Replace(p, i))
    /\ refused' = refused \cup {i}
-----------------------------------------------------------------------------
(***************************************************************************)
(* The process and its sessions. A removal keeps new sessions out and      *)
(* leaves established ones alone.                                          *)
(***************************************************************************)
Connect(e, i, k) ==
    /\ up /\ k \in DOMAIN lists[i] /\ lists[i][k] = e
    /\ Cardinality(sessions) < MaxSessions
    /\ sessions' = sessions \cup {[email |-> e, inbound |-> i, slot |-> k]}
    /\ UNCHANGED <<users, slots, pushTimer, armed, pc, payload, up, lists, exits, refused>>

Disconnect(c) ==
    /\ c \in sessions
    /\ sessions' = sessions \ {c}
    /\ UNCHANGED <<users, slots, pushTimer, armed, pc, payload, up, lists, exits, refused>>

(* The process exits: on its own, or torn down, which stops the timer too. *)
Exit(torn) ==
    /\ up /\ pc[Start] = "idle" /\ exits < MaxExits
    /\ up' = FALSE
    /\ exits' = exits + 1
    /\ lists' = [i \in Inbounds |-> <<>>]
    /\ sessions' = {}
    /\ IF torn THEN StopTimer ELSE UNCHANGED <<pushTimer, armed>>
    /\ UNCHANGED <<users, slots, pc, payload, refused>>

(* A new process answers: start() will compact the table and push.         *)
Answer ==
    /\ ~up
    /\ (\E p \in Pushers : Sending(p)) => "start" \in Overlap
    /\ up' = TRUE
    /\ Goto(Start, "compact")
    /\ UNCHANGED <<users, slots, pushTimer, armed, payload, lists, sessions, exits, refused>>

(* After the answer the table starts afresh, and the caller of start()     *)
(* pushes. The mutant's caller does not.                                   *)
CompactSlotsNoPush ==
    /\ pc[Start] = "compact"
    /\ slots' = <<>>
    /\ Goto(Start, "idle")
    /\ UNCHANGED <<users, pushTimer, armed, payload, coreVars>>

CompactSlots ==
    /\ pc[Start] = "compact"
    /\ slots' = <<>>
    /\ Goto(Start, "push")
    /\ UNCHANGED <<users, pushTimer, armed, payload, coreVars>>
-----------------------------------------------------------------------------
Sync(r) ==
    \/ \E e \in Emails, secrets \in Secrets : SyncUser(r, e, secrets)
    \/ \E set \in [Emails -> Secrets] : SyncUsers(r, set)
    \/ \E E \in SUBSET Emails, set \in [Emails -> Secrets] :
          (\A e \in Emails \ E : set[e] = {}) /\ UpdateUsers(r, E, set)

Push(p) == Render(p) \/ \E i \in Inbounds : Send(p, i) \/ SendFail(p, i)

Next ==
    \/ \E r \in Requests : Sync(r) \/ PushSoon(r) \/ Fire(r) \/ ClearTimer(r)
    \/ \E p \in Pushers : Push(p)
    \/ \E e \in Emails, i \in Inbounds : \E k \in DOMAIN lists[i] : Connect(e, i, k)
    \/ \E c \in sessions : Disconnect(c)
    \/ \E torn \in BOOLEAN : Exit(torn)
    \/ Answer \/ CompactSlots

Spec == Init /\ [][Next]_vars

(* Goroutines and timers run, and the supervisor brings the process back.  *)
Fairness ==
    /\ \A r \in Requests : WF_vars(PushSoon(r)) /\ WF_vars(Fire(r)) /\ WF_vars(ClearTimer(r))
    /\ \A p \in Pushers : WF_vars(Push(p))
    /\ WF_vars(Answer) /\ WF_vars(CompactSlots)

FairSpec == Spec /\ Fairness
-----------------------------------------------------------------------------
(* A session is never billed to somebody else: its position is its own     *)
(* user's or a free slot's, though users come and go, pushes overtake one  *)
(* another and the process is restarted.                                   *)
NeverMisbilled ==
    \A c \in sessions : c.slot \in DOMAIN lists[c.inbound] =>
        lists[c.inbound][c.slot] \in {c.email, Free}

(* A position means the same user on every inbound, though one inbound may *)
(* have an older list than another.                                        *)
PositionsAgree ==
    \A i, j \in Inbounds : \A k \in DOMAIN lists[i] \cap DOMAIN lists[j] :
        \A e, f \in Emails : lists[i][k] = e /\ lists[j][k] = f => e = f

Served(i) == {lists[i][k] : k \in DOMAIN lists[i]} \ {Free}

(* Every change reaches the core: in the end each inbound lets in exactly  *)
(* the users with a secret for it, unless the last call for that inbound   *)
(* has failed. A failed push is not repeated, so there the change waits    *)
(* for the next one.                                                       *)
ChangesReachTheCore ==
    <>[](\A i \in Inbounds \ refused : Served(i) = {e \in Emails : i \in users[e]})
=============================================================================
