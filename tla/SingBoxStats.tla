---------------------------- MODULE SingBoxStats ----------------------------
(***************************************************************************)
(* How usage of a sing-box core is billed: GetStats reads the counters of  *)
(* the process, folds their growth into pending and takes its share. The   *)
(* client object outlives the process, whose counters start again from     *)
(* zero, and requests overlap: the reading is taken outside pendingMu.     *)
(***************************************************************************)
EXTENDS Integers, SequencesExt, FiniteSetsExt

CONSTANTS
    Users,        \* names of counters
    Requests,     \* concurrent calls of GetStats
    MaxBytes,     \* bound on a counter
    MaxRestarts

VARIABLES
    counter,      \* what the process shows, Absent until a name has moved a byte
    restarts,
    baseline,     \* s.baseline, Absent for a name not seen
    pending,      \* s.pending
    readings,     \* answers not folded yet, oldest first
    taking,       \* requests that have folded and not taken
    cum,          \* what callers have consumed
    owed,         \* bytes moved, less what a first sight or an exit passes over
    outgrown,     \* names whose counter passed an older process's baseline unread
    disturbed     \* a reading was folded before an older, different one

clientVars == <<baseline, pending, readings, taking, cum>>
vars == <<counter, restarts, clientVars, owed, outgrown, disturbed>>

Absent == -1
Zero == [u \in Users |-> 0]
Nowhere == [u \in Users |-> Absent]

Init ==
    /\ counter = Nowhere /\ restarts = 0
    /\ baseline = Nowhere /\ pending = Zero /\ readings = <<>> /\ taking = {} /\ cum = Zero
    /\ owed = Zero /\ outgrown = {} /\ disturbed = FALSE
-----------------------------------------------------------------------------
(* A counter below its baseline belongs to a new process.                  *)
Grown(prev, cur) == IF cur < prev THEN cur ELSE cur - prev
Growth(u, cur) ==
    IF cur = Absent \/ baseline[u] = Absent THEN 0 ELSE Grown(baseline[u], cur)

(* collect: the answer to the query, which reads without resetting. A      *)
(* query that fails changes nothing.                                       *)
Query(r) ==
    /\ r \notin taking /\ ~\E k \in DOMAIN readings : readings[k].by = r
    /\ readings' = Append(readings, [by |-> r, val |-> counter])
    /\ UNCHANGED <<counter, restarts, baseline, pending, taking, cum, owed, outgrown, disturbed>>

(* fold, under pendingMu. First sight sets the baseline and bills nothing. *)
FirstSight(u, cur) == cur # Absent /\ baseline[u] = Absent
Fold(k) ==
    LET cur == readings[k].val
    IN  /\ pending' = [u \in Users |-> pending[u] + Growth(u, cur[u])]
        /\ baseline' = [u \in Users |-> IF cur[u] = Absent THEN baseline[u] ELSE cur[u]]
        /\ owed' = [u \in Users |-> owed[u] - IF FirstSight(u, cur[u]) THEN cur[u] ELSE 0]
        /\ disturbed' = (disturbed \/ \E j \in 1..k-1 : readings[j].val # cur)
        /\ readings' = RemoveAt(readings, k)
        /\ taking' = taking \cup {readings[k].by}
        /\ UNCHANGED <<counter, restarts, cum, outgrown>>

(* take: the names the pattern covers, kept if the caller only looks.      *)
Take(r, names, consume) ==
    /\ r \in taking
    /\ taking' = taking \ {r}
    /\ IF consume
       THEN /\ pending' = [u \in Users |-> IF u \in names THEN 0 ELSE pending[u]]
            /\ cum' = [u \in Users |-> IF u \in names THEN cum[u] + pending[u] ELSE cum[u]]
       ELSE UNCHANGED <<pending, cum>>
    /\ UNCHANGED <<counter, restarts, baseline, readings, owed, outgrown, disturbed>>
-----------------------------------------------------------------------------
(* What is known of a counter after k of the readings to be folded, oldest *)
(* first. A name not seen counts from zero.                                *)
Shown(u, k) == {j \in 1..k : readings[j].val[u] # Absent}
Known(u, k) ==
    IF Shown(u, k) # {} THEN readings[Max(Shown(u, k))].val[u]
    ELSE IF baseline[u] = Absent THEN 0 ELSE baseline[u]
Newest(u) == Known(u, Len(readings))
Unread(u) == IF counter[u] = Absent THEN 0 ELSE Grown(Newest(u), counter[u])

Moves(u) ==
    LET next == IF counter[u] = Absent THEN 1 ELSE counter[u] + 1
    IN  /\ next <= MaxBytes
        /\ counter' = [counter EXCEPT ![u] = next]
        /\ owed' = [owed EXCEPT ![u] = @ + 1]
        /\ outgrown' = IF next = Newest(u) THEN outgrown \cup {u} ELSE outgrown
        /\ UNCHANGED <<restarts, clientVars, disturbed>>

(* The process ends and another takes its place; unread bytes are lost.    *)
ProcessRestarts ==
    /\ restarts < MaxRestarts /\ restarts' = restarts + 1
    /\ owed' = [u \in Users |-> owed[u] - Unread(u)]
    /\ counter' = Nowhere
    /\ UNCHANGED <<clientVars, outgrown, disturbed>>
-----------------------------------------------------------------------------
Patterns == {Users} \cup {{u} : u \in Users}
Next ==
    \/ \E r \in Requests : \/ Query(r)
                           \/ \E names \in Patterns, consume \in BOOLEAN : Take(r, names, consume)
    \/ \E k \in DOMAIN readings : Fold(k)
    \/ \E u \in Users : Moves(u)
    \/ ProcessRestarts

Spec == Init /\ [][Next]_vars
-----------------------------------------------------------------------------
(* Consumed, pending and still to be folded add up to what is owed: no     *)
(* byte is billed twice, though requests overlap, look or consume, and the *)
(* process starts its counters again; none is lost either, unless the new  *)
(* counter passes the old baseline before anyone reads it. Excepted is a   *)
(* reading folded after a later one: it looks like a restart.              *)
Reading(u, k) ==
    LET cur == readings[k].val[u]
    IN  IF cur = Absent THEN 0 ELSE Grown(Known(u, k - 1), cur)
ToFold(u) == SumFunction([k \in DOMAIN readings |-> Reading(u, k)]) + Unread(u)
BooksBalance ==
    ~disturbed => \A u \in Users :
        LET sum == cum[u] + pending[u] + ToFold(u)
        IN  sum <= owed[u] /\ (u \notin outgrown => sum = owed[u])
=============================================================================
