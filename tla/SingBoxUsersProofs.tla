-------------------------- MODULE SingBoxUsersProofs --------------------------
(***************************************************************************)
(* Proofs about SingBoxUsers, for any users, inbounds, requests and        *)
(* sessions, and pushes that overtake one another in any order, as long as *)
(* no push of another request overlaps the start of a process.             *)
(***************************************************************************)
EXTENDS SingBoxUsers, FiniteSetTheorems, SequenceTheorems, TLAPS

StartIsAlone == "start" \notin Overlap

(* Every list rendered since the process started, in the core or on its    *)
(* way there.                                                              *)
Copies ==
    {lists[i] : i \in Inbounds} \cup
    UNION {{payload[p].list[i] : i \in payload[p].to} : p \in Pushers}

(* Two lists give no position to two users.                                *)
Agree(s, t) ==
    \A k \in DOMAIN s \cap DOMAIN t : s[k] = Free \/ t[k] = Free \/ s[k] = t[k]
Seated(c, t) == c.slot \in DOMAIN t => t[c.slot] \in {c.email, Free}

Payloads == [list : [Inbounds -> Seq(Names)], to : SUBSET Inbounds]

Typed ==
    /\ slots \in Seq(Names)
    /\ lists \in [Inbounds -> Seq(Names)]
    /\ payload \in [Pushers -> Payloads]
    /\ DOMAIN pc = Pushers

(* Positions are given once: what any copy says of a position, the table   *)
(* says too or has forgotten, and the table is as long as any of them, so  *)
(* that a new user's position is new to all.                               *)
Positions ==
    /\ \A t \in Copies : DOMAIN t \subseteq DOMAIN slots /\ Agree(t, slots)
    /\ \A s, t \in Copies : Agree(s, t)
    /\ \A c \in sessions : /\ c.inbound \in Inbounds /\ c.slot \in DOMAIN slots
                           /\ \A t \in Copies \cup {slots} : Seated(c, t)

(* A process that is down, or has answered and not had its table compacted *)
(* yet, has no list and no session.                                        *)
Blank == sessions = {} /\ \A i \in Inbounds : lists[i] = <<>>
Beginning ==
    /\ ~up => Blank
    /\ pc[Start] # "idle" => up
    /\ pc[Start] = "compact" => Blank /\ \A p \in Pushers : payload[p].to = {}

Inv == Typed /\ Positions /\ Beginning
-----------------------------------------------------------------------------
(* reconcileSlotsLocked: the table only grows, and a position keeps its    *)
(* user or loses it.                                                       *)
LEMMA ReconciledTable ==
    ASSUME slots \in Seq(Names), NEW s \in Reconciled(slots)
    PROVE  /\ s \in Seq(Names) /\ DOMAIN slots \subseteq DOMAIN s
           /\ \A k \in DOMAIN slots : s[k] \in {slots[k], Free}
<1> DEFINE S == Present \ Placed(slots)
           h == Held(slots)
<1>1. PICK f \in Orders(S) : s = h \o f
  BY DEF Reconciled
<1>2. f \in Seq(Names)
  <2>1. IsFiniteSet(S) /\ S \subseteq Names
    BY SingBoxUsersAssumption, FS_Subset DEF Present, Names
  <2>2. Cardinality(S) \in Nat
    BY <2>1, FS_CardinalityType
  <2>3. f \in [1..Cardinality(S) -> Names]
    BY <2>1 DEF Orders
  <2> HIDE DEF S
  <2>4. \A n \in Nat : [1..n -> Names] \subseteq Seq(Names)
    OBVIOUS
  <2> QED
    BY <2>2, <2>3, <2>4
<1>3. /\ h \in Seq(Names) /\ Len(h) = Len(slots)
      /\ \A k \in DOMAIN slots : h[k] \in {slots[k], Free}
  BY DEF Held, Names
<1> HIDE DEF h, S
<1>4. s \in Seq(Names) /\ Len(s) = Len(slots) + Len(f) /\ Len(f) \in Nat
  BY <1>1, <1>2, <1>3, ConcatProperties
<1>5. DOMAIN slots \subseteq DOMAIN s
  BY <1>2, <1>4
<1>6. \A k \in DOMAIN slots : s[k] = h[k]
  BY <1>1, <1>2, <1>3
<1> QED
  BY <1>3, <1>4, <1>5, <1>6

(* payloadForLocked: a rendering has the table's positions.                *)
LEMMA Rendering ==
    ASSUME NEW s \in Seq(Names), NEW i \in Inbounds
    PROVE  /\ PayloadFor(s, i) \in Seq(Names) /\ DOMAIN PayloadFor(s, i) = DOMAIN s
           /\ \A k \in DOMAIN s : PayloadFor(s, i)[k] \in {s[k], Free}
BY DEF PayloadFor, Names

LEMMA CopyCases ==
    ASSUME NEW t \in Copies
    PROVE  \/ \E i \in Inbounds : t = lists[i]
           \/ \E p \in Pushers : \E i \in payload[p].to : t = payload[p].list[i]
BY DEF Copies

LEMMA CopyOf ==
    /\ \A i \in Inbounds : lists[i] \in Copies
    /\ \A p \in Pushers : \A i \in payload[p].to : payload[p].list[i] \in Copies
BY DEF Copies

(* A step that brings no new list and leaves the table.                    *)
LEMMA NothingNew ==
    ASSUME Positions, Copies' \subseteq Copies \cup {<<>>}, slots' = slots, sessions' \subseteq sessions
    PROVE  Positions'
<1>1. \A t \in Copies' : t \in Copies \/ t = <<>>
  OBVIOUS
<1>2. ASSUME NEW t \in Copies'
      PROVE  DOMAIN t \subseteq DOMAIN slots /\ Agree(t, slots)
  BY <1>1 DEF Positions, Agree
<1>3. ASSUME NEW s \in Copies', NEW t \in Copies'
      PROVE  Agree(s, t)
  BY <1>1 DEF Positions, Agree
<1>4. ASSUME NEW c \in sessions', NEW t \in Copies' \cup {slots}
      PROVE  Seated(c, t)
  BY <1>1 DEF Positions, Seated
<1> QED
  BY <1>2, <1>3, <1>4 DEF Positions, Agree, Seated

LEMMA RenderStep ==
    ASSUME Inv, StartIsAlone, NEW p \in Pushers, Render(p)
    PROVE  Inv'
<1>1. PICK s \in Reconciled(slots) :
          /\ slots' = s
          /\ payload' = [payload EXCEPT ![p] =
                            [list |-> [i \in Inbounds |-> PayloadFor(s, i)], to |-> Inbounds]]
  BY DEF Render
<1>2. /\ s \in Seq(Names) /\ DOMAIN slots \subseteq DOMAIN s
      /\ \A k \in DOMAIN slots : s[k] \in {slots[k], Free}
  BY ReconciledTable DEF Inv, Typed
<1>3. /\ UNCHANGED <<lists, sessions, up>> /\ pc' = [pc EXCEPT ![p] = "send"] /\ pc[p] = "push"
      /\ p # Start => ~(up /\ pc[Start] # "idle")
  BY DEF Render, coreVars, Goto, MayOverlapStart, Starting, StartIsAlone
<1>4. Typed'
  <2>1. [list |-> [i \in Inbounds |-> PayloadFor(s, i)], to |-> Inbounds] \in Payloads
    BY <1>2, Rendering DEF Payloads
  <2> QED
    BY <1>1, <1>2, <1>3, <2>1 DEF Inv, Typed
<1>5. ASSUME NEW t \in Copies'
      PROVE  t \in Copies \/ \E i \in Inbounds : t = PayloadFor(s, i)
  <2>1. payload \in [Pushers -> Payloads]
    BY DEF Inv, Typed
  <2>2. \A q \in Pushers \ {p} : payload'[q] = payload[q]
    BY <1>1, <2>1
  <2>3. payload'[p].to = Inbounds /\ \A i \in Inbounds : payload'[p].list[i] = PayloadFor(s, i)
    BY <1>1, <2>1
  <2> QED
    BY <1>3, <2>2, <2>3 DEF Copies
<1>6. ASSUME NEW t \in Copies'
      PROVE  DOMAIN t \subseteq DOMAIN s /\ Agree(t, s)
  BY <1>2, <1>5, Rendering DEF Inv, Positions, Agree
<1>7. ASSUME NEW t \in Copies', NEW u \in Copies'
      PROVE  Agree(t, u)
  <2>1. CASE t \in Copies /\ u \in Copies
    BY <2>1 DEF Inv, Positions
  <2>2. ASSUME NEW i \in Inbounds, NEW v \in Copies
        PROVE  Agree(v, PayloadFor(s, i)) /\ Agree(PayloadFor(s, i), v)
    BY <1>2, Rendering DEF Inv, Positions, Agree
  <2>3. ASSUME NEW i \in Inbounds, NEW j \in Inbounds
        PROVE  Agree(PayloadFor(s, i), PayloadFor(s, j))
    BY <1>2, Rendering DEF Agree
  <2> QED
    BY <1>5, <2>1, <2>2, <2>3
<1>8. ASSUME NEW c \in sessions
      PROVE  c.slot \in DOMAIN slots /\ Seated(c, slots) /\ Seated(c, s)
  BY <1>2 DEF Inv, Positions, Seated
<1>9. ASSUME NEW c \in sessions, NEW t \in Copies'
      PROVE  Seated(c, t)
  BY <1>2, <1>5, <1>8, Rendering DEF Inv, Positions, Seated
<1>10. Positions'
  <2>1. \A c \in sessions : c.inbound \in Inbounds /\ c.slot \in DOMAIN s
    BY <1>2, <1>8 DEF Inv, Positions
  <2> QED
    BY <1>1, <1>3, <1>6, <1>7, <1>8, <1>9, <2>1 DEF Positions, Agree, Seated
<1>11. Beginning'
  <2>1. pc'[Start] # "compact" /\ (pc'[Start] # "idle" => pc[Start] # "idle")
    BY <1>3 DEF Inv, Beginning, Typed, Pushers
  <2> QED
    BY <1>3, <2>1 DEF Inv, Beginning, Blank
<1> QED
  BY <1>4, <1>10, <1>11 DEF Inv

(* A pushed list leaves the payload for the core, or is lost.              *)
LEMMA SendStep ==
    ASSUME Inv, StartIsAlone, NEW p \in Pushers, NEW i \in Inbounds,
           Send(p, i) \/ SendFail(p, i)
    PROVE  Inv'
<1>0. Call(p, i)
  BY DEF Send, SendFail
<1>1. /\ payload \in [Pushers -> Payloads] /\ lists \in [Inbounds -> Seq(Names)]
      /\ i \in payload[p].to /\ pc[p] = "send" /\ UNCHANGED <<slots, sessions, up>>
      /\ p # Start => ~(up /\ pc[Start] # "idle")
  BY <1>0 DEF Inv, Typed, Call, MayOverlapStart, Starting, StartIsAlone
<1>2. lists' = lists \/ (up /\ lists' = [lists EXCEPT ![i] = payload[p].list[i]])
  BY DEF Send, SendFail, Replace
<1>3. PICK new \in Payloads : /\ payload' = [payload EXCEPT ![p] = new]
                              /\ new.to \subseteq payload[p].to
                              /\ new.to # {} => new.list = payload[p].list
  <2>1. CASE payload[p].to = {i}
    <3>1. NoPayload \in Payloads /\ NoPayload.to = {}
      BY DEF NoPayload, Payloads
    <3>2. payload' = [payload EXCEPT ![p] = NoPayload]
      BY <1>0, <1>1, <2>1 DEF Call
    <3> QED
      BY <3>1, <3>2
  <2>2. CASE payload[p].to # {i}
    <3> DEFINE n == [payload[p] EXCEPT !.to = payload[p].to \ {i}]
    <3>1. n \in Payloads /\ n.to \subseteq payload[p].to /\ n.list = payload[p].list
      BY <1>1 DEF Payloads
    <3>2. payload' = [payload EXCEPT ![p] = IF payload[p].to = {i} THEN NoPayload ELSE n]
      BY <1>0 DEF Call
    <3>3. payload' = [payload EXCEPT ![p] = n]
      BY <2>2, <3>2
    <3> QED
      BY <3>1, <3>3
  <2> QED
    BY <2>1, <2>2
<1>4. payload[p].list \in [Inbounds -> Seq(Names)]
  BY <1>1 DEF Payloads
<1>5. Typed'
  BY <1>0, <1>1, <1>2, <1>3, <1>4 DEF Inv, Typed, Call, Goto
<1>6. Copies' \subseteq Copies
  <2> SUFFICES ASSUME NEW t \in Copies'
               PROVE  t \in Copies
    OBVIOUS
  <2>1. \/ \E j \in Inbounds : t = lists'[j]
        \/ \E q \in Pushers : \E j \in payload'[q].to : t = payload'[q].list[j]
    BY DEF Copies
  <2>2. CASE \E j \in Inbounds : t = lists'[j]
    BY <1>1, <1>2, <2>2, CopyOf
  <2>3. ASSUME NEW q \in Pushers, NEW j \in payload'[q].to, t = payload'[q].list[j]
        PROVE  t \in Copies
    <3>1. j \in payload[q].to /\ payload'[q].list = payload[q].list
      BY <1>1, <1>3, <2>3
    <3> QED
      BY <2>3, <3>1, CopyOf
  <2> QED
    BY <2>1, <2>2, <2>3
<1>7. Positions'
  BY <1>1, <1>6, NothingNew DEF Inv
<1>8. Beginning'
  <2>1. pc[Start] # "compact"
    BY <1>1 DEF Inv, Beginning, Sending
  <2>2. pc'[Start] # "compact" /\ (pc'[Start] # "idle" => pc[Start] # "idle")
    <3>1. pc'[Start] = pc[Start] \/ (p = Start /\ pc'[Start] \in {"send", "idle", "done"})
      BY <1>0 DEF Inv, Typed, Call, Goto
    <3> QED
      BY <1>1, <2>1, <3>1
  <2>3. ~up => lists' = lists
    BY <1>2
  <2> QED
    BY <1>1, <2>2, <2>3 DEF Inv, Beginning, Blank
<1> QED
  BY <1>5, <1>7, <1>8 DEF Inv

LEMMA StartIsPusher ==
    /\ Start \in Pushers
    /\ \A r \in Requests : /\ Req(r) \in Pushers /\ Timer(r) \in Pushers
                           /\ Req(r) # Start /\ Timer(r) # Start
BY DEF Start, Pushers, Req, Timer

(* The requests and the timers change neither the table nor a list.        *)
LEMMA OtherPusherStep ==
    ASSUME Inv, UNCHANGED <<slots, payload, coreVars>>,
           NEW p \in Pushers, p # Start, NEW label, Goto(p, label)
    PROVE  Inv'
<1>1. UNCHANGED <<up, lists, sessions>> /\ Copies' = Copies
  BY DEF coreVars, Copies
<1>2. Typed'
  BY <1>1 DEF Inv, Typed, Goto
<1>3. Positions'
  BY <1>1, NothingNew DEF Inv
<1>4. pc'[Start] = pc[Start]
  BY StartIsPusher DEF Inv, Typed, Goto
<1> QED
  BY <1>1, <1>2, <1>3, <1>4 DEF Inv, Beginning, Blank

LEMMA ConnectStep ==
    ASSUME Inv, NEW e \in Emails, NEW i \in Inbounds, NEW k \in DOMAIN lists[i], Connect(e, i, k)
    PROVE  Inv'
<1> DEFINE c == [email |-> e, inbound |-> i, slot |-> k]
<1>1. /\ UNCHANGED <<slots, pc, payload, up, lists>> /\ up /\ lists[i][k] = e
      /\ sessions' = sessions \cup {c} /\ Copies' = Copies
  BY DEF Connect, Copies
<1>2. Typed'
  BY <1>1 DEF Inv, Typed
<1>3. lists[i] \in Copies /\ e # Free
  BY CopyOf, SingBoxUsersAssumption
<1>4. /\ DOMAIN lists[i] \subseteq DOMAIN slots /\ Agree(lists[i], slots)
      /\ \A t \in Copies : Agree(lists[i], t)
  BY <1>3 DEF Inv, Positions
<1>5. \A t \in Copies \cup {slots} : Seated(c, t)
  BY <1>1, <1>3, <1>4 DEF Agree, Seated
<1>6. Positions'
  <2>1. c.inbound \in Inbounds /\ c.slot \in DOMAIN slots
    BY <1>4
  <2> HIDE DEF c
  <2> QED
    BY <1>1, <1>5, <2>1 DEF Inv, Positions, Seated
<1>7. pc[Start] # "compact"
  <2>1. lists[i] # <<>>
    OBVIOUS
  <2> QED
    BY <2>1 DEF Inv, Beginning, Blank
<1> QED
  BY <1>1, <1>2, <1>6, <1>7 DEF Inv, Beginning

LEMMA DisconnectStep ==
    ASSUME Inv, NEW c \in sessions, Disconnect(c)
    PROVE  Inv'
<1>1. /\ UNCHANGED <<slots, pc, payload, up, lists>> /\ sessions' \subseteq sessions
      /\ Copies' = Copies
  BY DEF Disconnect, Copies
<1>2. Typed'
  BY <1>1 DEF Inv, Typed
<1>3. Positions'
  BY <1>1, NothingNew DEF Inv
<1> QED
  BY <1>1, <1>2, <1>3 DEF Inv, Beginning, Blank

LEMMA ExitStep ==
    ASSUME Inv, NEW torn \in BOOLEAN, Exit(torn)
    PROVE  Inv'
<1>1. /\ UNCHANGED <<slots, pc, payload>> /\ sessions' = {} /\ up' = FALSE /\ pc[Start] = "idle"
      /\ lists' = [i \in Inbounds |-> <<>>]
  BY DEF Exit
<1>2. Typed'
  <2>1. <<>> \in Seq(Names)
    OBVIOUS
  <2> QED
    BY <1>1, <2>1 DEF Inv, Typed
<1>3. Copies' \subseteq Copies \cup {<<>>}
  BY <1>1 DEF Copies
<1>4. Positions'
  BY <1>1, <1>3, NothingNew DEF Inv
<1> QED
  BY <1>1, <1>2, <1>4 DEF Inv, Beginning, Blank

LEMMA AnswerStep ==
    ASSUME Inv, StartIsAlone, Answer
    PROVE  Inv'
<1>1. /\ UNCHANGED <<slots, payload, lists, sessions>> /\ up' = TRUE /\ ~up
      /\ pc' = [pc EXCEPT ![Start] = "compact"] /\ Copies' = Copies
      /\ \A p \in Pushers : payload[p].to = {}
  BY DEF Answer, Goto, Copies, Sending, StartIsAlone
<1>2. Typed'
  BY <1>1 DEF Inv, Typed
<1>3. Positions'
  BY <1>1, NothingNew DEF Inv
<1> QED
  BY <1>1, <1>2, <1>3 DEF Inv, Beginning, Blank

(* The table starts afresh when no list and no session is left.            *)
LEMMA CompactStep ==
    ASSUME Inv, CompactSlots
    PROVE  Inv'
<1>1. /\ UNCHANGED <<payload, lists, sessions, up>> /\ slots' = <<>>
      /\ pc' = [pc EXCEPT ![Start] = "push"]
  BY DEF CompactSlots, Goto, coreVars
<1>2. Blank /\ up /\ \A p \in Pushers : payload[p].to = {}
  BY DEF CompactSlots, Inv, Beginning
<1>3. Typed'
  <2>1. <<>> \in Seq(Names)
    OBVIOUS
  <2> QED
    BY <1>1, <2>1 DEF Inv, Typed
<1>4. Copies' \subseteq {<<>>}
  BY <1>1, <1>2 DEF Copies, Blank
<1>5. Positions'
  BY <1>1, <1>2, <1>4 DEF Positions, Blank, Agree
<1>6. pc'[Start] = "push"
  BY <1>1, StartIsPusher DEF Inv, Typed
<1> QED
  BY <1>1, <1>2, <1>3, <1>5, <1>6 DEF Inv, Beginning

LEMMA InvInit == Init => Inv
<1> SUFFICES ASSUME Init
             PROVE  Inv
  OBVIOUS
<1>1. <<>> \in Seq(Names)
  OBVIOUS
<1>2. NoPayload \in Payloads /\ NoPayload.to = {}
  BY <1>1 DEF NoPayload, Payloads
<1>3. Typed
  BY <1>1, <1>2 DEF Init, Typed
<1>4. Blank /\ up /\ \A p \in Pushers : payload[p].to = {}
  BY <1>2 DEF Init, Blank
<1>5. Copies \subseteq {<<>>} /\ slots = <<>>
  BY <1>4 DEF Copies, Blank, Init
<1>6. Positions
  BY <1>4, <1>5 DEF Positions, Blank, Agree
<1> QED
  BY <1>3, <1>4, <1>6 DEF Inv, Beginning

LEMMA InvStep == ASSUME Inv, StartIsAlone, [Next]_vars PROVE Inv'
<1>1. CASE UNCHANGED vars
  <2>1. UNCHANGED <<slots, payload, up, lists, sessions, pc>> /\ Copies' = Copies
    BY <1>1 DEF vars, coreVars, Copies
  <2>2. Positions'
    BY <2>1, NothingNew DEF Inv
  <2> QED
    BY <2>1, <2>2 DEF Inv, Typed, Beginning, Blank
<1>2. ASSUME NEW r \in Requests, Sync(r) \/ PushSoon(r) \/ Fire(r) \/ ClearTimer(r)
      PROVE  Inv'
  <2>1. UNCHANGED <<slots, payload, coreVars>>
    BY <1>2 DEF Sync, SyncUser, SyncUsers, UpdateUsers, PushSoon, Fire, ClearTimer
  <2>2. \/ \E label \in {"pushSoon", "push", "done"} : Goto(Req(r), label)
        \/ \E label \in {"clear", "push"} : Goto(Timer(r), label)
    BY <1>2 DEF Sync, SyncUser, SyncUsers, UpdateUsers, PushSoon, Fire, ClearTimer
  <2> QED
    BY <2>1, <2>2, OtherPusherStep, StartIsPusher
<1>3. ASSUME NEW p \in Pushers, Push(p)
      PROVE  Inv'
  BY <1>3, RenderStep, SendStep DEF Push
<1> QED
  BY <1>1, <1>2, <1>3, ConnectStep, DisconnectStep, ExitStep, AnswerStep, CompactStep DEF Next

(* Within one life of the process a position is given to one user only.    *)
THEOREM Invariance == ASSUME StartIsAlone PROVE Spec => []Inv
<1>1. Inv /\ [Next]_vars => Inv'
  BY InvStep
<1> QED
  BY InvInit, <1>1, PTL DEF Spec

(* pushUsers and reconcileSlotsLocked: the position of a live session is   *)
(* its own user's or a free slot's, whichever pushes arrived in which      *)
(* order since the process started.                                        *)
THEOREM SessionsKeepTheirPosition == ASSUME StartIsAlone PROVE Spec => []NeverMisbilled
<1>1. Inv => NeverMisbilled
  BY CopyOf DEF Inv, Positions, Seated, NeverMisbilled
<1> QED
  BY Invariance, <1>1, PTL

(* payloadForLocked: two inbounds never give one position to two users,    *)
(* though their lists were rendered at different times.                    *)
THEOREM InboundsAgree == ASSUME StartIsAlone PROVE Spec => []PositionsAgree
<1>1. Inv => PositionsAgree
  BY CopyOf, SingBoxUsersAssumption DEF Inv, Positions, Agree, PositionsAgree
<1> QED
  BY Invariance, <1>1, PTL
=============================================================================
