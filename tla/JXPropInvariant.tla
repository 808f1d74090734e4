-------------------------- MODULE JXPropInvariant --------------------------
(***************************************************************************)
(* The inductive invariants behind the safety properties of JXProp: what   *)
(* is true of every stream of stanzas and of every replica, and what more  *)
(* of the steady ones, where no replica is replayed what it has applied;   *)
(* what every replica counts; the rounds of SYNC mode; and what a replica  *)
(* shows.  In the operators, l is the room's order, s a stream and b a     *)
(* buffer.                                                                 *)
(***************************************************************************)
EXTENDS JXProp

\* The server replays nothing, or nobody comes back to be replayed what it has
\* applied: history then goes to who enters for the first time.
ReplayedOnce == HistoryLen = 0 \/ MaxLosses = 0

IsOp(m) == m.type = "STATE_OPERATION"

\* Operation op stands at place n of the order; NoOp stands before the first.
At(l, op, n) == n \in 0..Len(l) /\ IF n = 0 THEN op = NoOp ELSE l[n] = op

\* The order holds no operation twice, and none that was not issued.
LogOK(l, max) ==
    /\ \A i \in 1..Len(l) : l[i] \in 1..max
    /\ \A i, j \in 1..Len(l) : l[i] = l[j] => i = j

\* An operation on its way carries the place it has in the order.
Placed(l, m) == m.slot \in 1..Len(l) /\ l[m.slot] = m.op

OpsPlaced(l, s) == \A k \in 1..Len(s) : IsOp(s[k]) => Placed(l, s[k])

\* A stream holds its operations in the order of the room.
OpsInOrder(s) ==
    \A i, j \in 1..Len(s) : i < j /\ IsOp(s[i]) /\ IsOp(s[j]) => s[i].slot < s[j].slot

\* The operations of s that follow its k-th stanza come after place n.
OpsAfter(s, k, n) == \A j \in 1..Len(s) : j > k /\ IsOp(s[j]) => s[j].slot > n

\* A last operation and a sequence number are no newer than the stream that
\* follows them: the number counts no more operations than the order has up to
\* that operation, and the stream brings later ones.
Current(l, op, seqNum, s, k) ==
    \E n \in 0..Len(l) : At(l, op, n) /\ seqNum \in 0..n /\ OpsAfter(s, k, n)

StatesCurrent(l, s) ==
    \A k \in 1..Len(s) : s[k].type = "STATE_SYNC" => Current(l, s[k].lastOp, s[k].seqNum, s, k)

HellosBounded(l, s) ==
    \A k \in 1..Len(s) : s[k].type = "HELLO" => s[k].localSeqNum <= Len(l)

StreamOK(l, s) ==
    OpsPlaced(l, s) /\ OpsInOrder(s) /\ StatesCurrent(l, s) /\ HellosBounded(l, s)

\* A buffer holds operations in the room's order, all of them before those
\* still in the stream.
BufferOK(l, b, s) ==
    /\ \A k \in 1..Len(b) : Placed(l, b[k]) /\ OpsAfter(s, 0, b[k].slot)
    /\ \A j, k \in 1..Len(b) : j <= k => b[k].slot >= b[j].slot + (k - j)

ObjectOK(l, p, s) ==
    /\ BufferOK(l, p.opsSYNC, s)
    /\ p.mode = "NORM" => Current(l, p.lastOp, p.seqNum, s, 0)
    /\ p.mode = "SYNC" => p.seqNum = -1

\* A stream brings the operation at place n before its k-th stanza.
Brings(s, k, n) == \E j \in 1..Len(s) : j < k /\ IsOp(s[j]) /\ s[j].slot = n

\* A steady replica's stream brings every operation it has not applied, and
\* before a HELLO every operation that HELLO counts.
SteadyObjectOK(l, p, s) ==
    /\ p.seqNum \in 0..Len(l)
    /\ p.clean = SubSeq(l, 1, p.seqNum)
    /\ OpsAfter(s, 0, p.seqNum)
    /\ \A n \in (p.seqNum + 1)..Len(l) : Brings(s, Len(s) + 1, n)
    /\ \A k \in 1..Len(s) : s[k].type = "HELLO" =>
          \A n \in (p.seqNum + 1)..s[k].localSeqNum : Brings(s, k, n)

\* Whoever has not entered yet has seen nothing, and takes what is replayed for
\* the beginning.
Fresh(p) == p.mode = "NORM" /\ p.lastOp = NoOp /\ p.seqNum = 0 /\ p.opsSYNC = <<>>

ReplicaOK(r) ==
    /\ StreamOK(log, inbox[r])
    /\ ObjectOK(log, prop[r], inbox[r])
    /\ status[r] = "out" => inbox[r] = <<>> /\ Fresh(prop[r])
    /\ status[r] = "cut" => MaxLosses # 0

NoState(s) == \A k \in 1..Len(s) : s[k].type # "STATE_SYNC"

\* The server replays a stretch of the stream of groupchat stanzas; a state is
\* handed over in private.
HistoryOK ==
    /\ StreamOK(log, history)
    /\ NoState(history)
    /\ HistoryLen = 0 => history = <<>>

SteadyOK(r) ==
    /\ status[r] \in {"in", "raised"}
    /\ prop[r].mode = "NORM"
    /\ status[r] = "in" => SteadyObjectOK(log, prop[r], inbox[r])

\* What every step keeps, from which SteadyFollows follows
\* (JXProp.m lines 175-216 and 267-273): the streams, the buffers and the states
\* handed over agree with the room's order about how far each replica has come.
OrderInvariant ==
    /\ LogOK(log, issued)
    /\ HistoryOK
    /\ \A r \in Replicas : ReplicaOK(r)
    /\ \A r \in Steady : SteadyOK(r)

\* c holds operations of the first n of the order, in its order.
Embeds(l, c, n) ==
    \E place \in [1..Len(c) -> 1..n] :
        /\ \A k \in 1..Len(c) : l[place[k]] = c[k]
        /\ \A j, k \in 1..Len(c) : j < k => place[j] < place[k]

\* A state is counted: its number is that of its operations, and these are of
\* the order up to the last of them.
CountedView(l, c, seqNum, op) ==
    seqNum = Len(c) /\ \E n \in 0..Len(l) : At(l, op, n) /\ Embeds(l, c, n)

StatesCounted(l, s) ==
    \A k \in 1..Len(s) : s[k].type = "STATE_SYNC" => CountedView(l, s[k].state, s[k].seqNum, s[k].lastOp)

ObjectCounted(l, p) == p.mode = "NORM" => CountedView(l, p.clean, p.seqNum, p.lastOp)

\* Every replica that is up to date, and every state on its way, is counted.
Counted == \A r \in Replicas : ObjectCounted(log, prop[r]) /\ StatesCounted(log, inbox[r])

AnyId == SyncIds \cup {NoSync}

\* A request for a state, or the state, of round id.
IsAnswer(m, id) == m.type \in {"SEND_ME_STATE", "STATE_SYNC"} /\ m.syncId = id

Silent(s, id) == \A k \in 1..Len(s) : ~IsAnswer(s[k], id)

AtMostOne(s, id) == \A j, k \in 1..Len(s) : IsAnswer(s[j], id) /\ IsAnswer(s[k], id) => j = k

OneAnswer(box, id) ==
    /\ \A q \in Replicas : AtMostOne(box[q], id)
    /\ \A p, q \in Replicas : p # q => Silent(box[p], id) \/ Silent(box[q], id)

\* Rounds do not mix: a replica in SYNC mode has an id of its own, of which one
\* request or answer at most is under way, and none before it accepted an offer
\* (JXProp.m lines 257-265, 294-314); what the server may replay is no answer.
SyncRounds ==
    /\ \A id \in AnyId : Silent(history, id) /\ OneAnswer(inbox, id)
    /\ \A r \in Replicas : prop[r].mode = "SYNC" =>
          /\ prop[r].syncId \in SyncIds
          /\ prop[r].waiting => \A q \in Replicas : Silent(inbox[q], prop[r].syncId)
    /\ \A q, r \in Replicas :
          q # r /\ prop[q].mode = "SYNC" /\ prop[r].mode = "SYNC" => prop[q].syncId # prop[r].syncId

Absent(r, s, op) == \A j \in OwnOps(r, s) : s[j].op # op

\* Replica r waits for an operation of its own that will not come back to it:
\* it was issued outside the room, or lost with a connection.
Stuck(r) ==
    \E k \in 1..Len(prop[r].pending) :
        prop[r].pending[k] \in 1..issued /\ Absent(r, inbox[r], prop[r].pending[k])

\* What r waits for is on its way to it, and it shows what that will make.
Trusted(r) == Awaits(r, prop[r].pending, inbox[r]) /\ Predicted(r)

Expected(r) == Stuck(r) \/ Trusted(r)

\* What q has received and not applied.
Held(q) ==
    {inbox[q][k] : k \in 1..Len(inbox[q])}
    \cup {prop[q].opsSYNC[k] : k \in 1..Len(prop[q].opsSYNC)}

\* What the server would replay.
Replayed == {history[k] : k \in 1..Len(history)}

\* All have the operation at a place of the order from the same replica.
OneSender ==
    \A p, q \in Replicas : \A m \in Held(p) \cup Replayed, n \in Held(q) \cup Replayed :
        IsOp(m) /\ IsOp(n) /\ m.slot = n.slot => m.from = n.from

\* No operation of a replica that has not entered the room is in its history.
Unheard == \A r \in Replicas : status[r] = "out" => \A m \in Replayed : IsOp(m) => m.from # r

\* Who is asked by r for its state in round id has r's operations before that.
AskedLast(r, id, s) ==
    \A k \in 1..Len(s) : s[k].type = "SEND_ME_STATE" /\ s[k].syncId = id =>
        \A j \in OwnOps(r, s) : j < k

\* The state m has in it whatever r issued and has not applied.
Whole(r, m) ==
    /\ At(log, m.lastOp, m.seqNum)
    /\ \A n \in Held(r) : IsOp(n) /\ n.from = r => n.slot <= m.seqNum

Resuming(r) ==
    /\ \A q \in Replicas : q # r => AskedLast(r, prop[r].syncId, inbox[q])
    /\ \A k \in 1..Len(inbox[r]) :
          inbox[r][k].type = "STATE_SYNC" /\ inbox[r][k].syncId = prop[r].syncId => Whole(r, inbox[r][k])

\* A replica is right about what it shows, or waits for ever, or is handed a
\* state that has its operations in it (JXProp.m lines 197-198, 323-355).
HashInvariant ==
    /\ OneSender
    /\ Unheard
    /\ \A r \in Replicas : IF prop[r].mode = "NORM" THEN Expected(r) ELSE Resuming(r)

=============================================================================
