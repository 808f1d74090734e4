------------------------------- MODULE JXProp -------------------------------
(***************************************************************************)
(* The replicated property of Classes/props/JXProp.m: every actor of an    *)
(* activity holds one replica of a state; operations are multicast through *)
(* the activity's chat room, whose server puts them in one order, and each *)
(* replica applies them in that order to `cleanState', while its own       *)
(* operations show at once in the predicted `state'.  A replica that       *)
(* learns from a HELLO that it is behind asks a peer for a whole state     *)
(* (SYNC mode).                                                            *)
(*                                                                         *)
(* An operation is the number it was issued under (its uuid); a state is   *)
(* the sequence of operations applied to it, so applyOperation: is Append  *)
(* and copy, toDictionary and _reifyState: keep the value.  NoOp in a      *)
(* state marks an operation that was counted but not applied to it.        *)
(*                                                                         *)
(* The room is the external XMPP server: it delivers to every occupant one *)
(* FIFO stream holding each groupchat stanza (the sender's own echo too)   *)
(* and the private stanzas addressed to that occupant, and replays its     *)
(* last HistoryLen groupchat stanzas to whoever (re)enters.  A stanza      *)
(* takes its place in the room's order when it is sent: what the sender    *)
(* does between sending it and its arrival at the server cannot be seen by *)
(* anyone earlier than the stanza, so the two moments commute.             *)
(***************************************************************************)
EXTENDS Integers, Sequences, FiniteSets

CONSTANTS
    Replicas,     \* one prop object per actor of the activity
    Founders,     \* those already in the room, active, when the run begins
    Churn,        \* those that may lose their connection or leave
    UnknownOp,    \* what the state class does with a dictionary that is no
                  \* operation: "raise" (JXArrayState) or "ignore" it
    HistoryLen,   \* groupchat stanzas the server replays on entering
    SyncIds,      \* bound: the sync ids in circulation at one time
    NoSync,       \* the empty sync id
    MaxChatter,   \* bound: replicas with a timer message under way
    MaxOps,       \* bound: operations issued in a run
    MaxLosses     \* bound: connections lost in a run

ASSUME ReplicasAssumption == Founders \subseteq Replicas /\ Churn \subseteq Replicas
ASSUME UnknownOpAssumption == UnknownOp \in {"raise", "ignore"}
ASSUME BoundsAssumption ==
    /\ HistoryLen \in Nat /\ MaxOps \in Nat /\ MaxChatter \in Nat /\ MaxLosses \in Nat
    /\ NoSync \notin SyncIds

VARIABLES
    prop,      \* the fields of each JXProp object
    status,    \* where each actor's process stands: not yet in the room,
               \* in it, in it with its handler registered, cut off, gone,
               \* or dead of an uncaught exception
    task,      \* what periodicTask: of each replica has decided to send
    inbox,     \* the stanzas on their way to each occupant
    history,   \* the groupchat stanzas the server would replay
    log,       \* the operations in the order of the room
    issued,    \* the operations issued so far
    losses     \* the connections lost so far

vars == <<prop, status, task, inbox, history, log, issued, losses>>

NoOp == 0
Ops == Nat

(***************************************************************************)
(* Messages.  `slot' is the place of an operation in the room's order: no  *)
(* code reads it, the properties and the proofs do.                        *)
(***************************************************************************)
OperationMsg == [type : {"STATE_OPERATION"}, from : Replicas, op : Ops, localSeqNum : Int, slot : Nat]
HelloMsg     == [type : {"HELLO"}, from : Replicas, localSeqNum : Int]
SyncMsg      == [type : {"WHO_HAS_STATE", "I_HAVE_STATE", "SEND_ME_STATE"},
                 from : Replicas, syncId : SyncIds \cup {NoSync}]
StateMsg     == [type : {"STATE_SYNC"}, from : Replicas, syncId : SyncIds \cup {NoSync},
                 state : Seq(Ops), seqNum : Int, lastOp : Ops]
Messages == OperationMsg \cup HelloMsg \cup SyncMsg \cup StateMsg

Hello(r) == [type |-> "HELLO", from |-> r, localSeqNum |-> prop[r].seqNum]
SyncRequest(type, r, id) == [type |-> type, from |-> r, syncId |-> id]
StateSync(r, id) ==
    [type |-> "STATE_SYNC", from |-> r, syncId |-> id, state |-> prop[r].clean,
     seqNum |-> prop[r].seqNum, lastOp |-> prop[r].lastOp]
StateOperation(r, op, slot) ==
    [type |-> "STATE_OPERATION", from |-> r, op |-> op,
     localSeqNum |-> prop[r].seqNum, slot |-> slot]

(***************************************************************************)
(* The object.                                                             *)
(***************************************************************************)
PropObject ==
    [mode : {"NORM", "SYNC"}, seqNum : Int, lastOp : Ops, staleness : Int,
     syncId : SyncIds \cup {NoSync}, waiting : BOOLEAN, opsSYNC : Seq(OperationMsg),
     pending : Seq(Ops), clean : Seq(Ops), state : Seq(Ops), active : BOOLEAN]

InitProp(active) ==
    [mode |-> "NORM", seqNum |-> 0, lastOp |-> NoOp, staleness |-> 0,
     syncId |-> NoSync, waiting |-> FALSE, opsSYNC |-> <<>>,
     pending |-> <<>>, clean |-> <<>>, state |-> <<>>, active |-> active]

\* The pending list without operation op (uuids are unique).
Without(pending, op) ==
    IF \E k \in 1..Len(pending) : pending[k] = op
    THEN LET k == CHOOSE i \in 1..Len(pending) : pending[i] = op
         IN  SubSeq(pending, 1, k - 1) \o SubSeq(pending, k + 1, Len(pending))
    ELSE pending

\* Mutant: every pending operation is dropped, not the one that came back.
HandleOwnOp_DropsAllPending(p, m) ==
    [p EXCEPT !.clean = Append(p.clean, m.op), !.pending = <<>>,
              !.lastOp = m.op, !.seqNum = p.seqNum + 1]

\* _handleReceivedOp: of an operation of this replica, back from the room.
HandleOwnOp(p, m) ==
    [p EXCEPT !.staleness = p.seqNum - m.localSeqNum,
              !.clean = Append(p.clean, m.op),
              !.pending = Without(p.pending, m.op),
              !.lastOp = m.op,
              !.seqNum = p.seqNum + 1]

\* Mutant: with nothing pending, the operation reaches the clean state only.
HandleRemoteOp_CleanOnly(p, m) ==
    [p EXCEPT !.clean = Append(p.clean, m.op), !.lastOp = m.op, !.seqNum = p.seqNum + 1]

\* _handleReceivedOp: of an operation of another replica.  With operations
\* pending, the state is a fresh copy of the clean one to which the pending
\* *messages*, not their operations, are applied (line 194): a class that
\* ignores them leaves the copy as it is.
HandleRemoteOp(p, m) ==
    [p EXCEPT !.clean = Append(p.clean, m.op),
              !.state = IF p.pending # <<>> THEN Append(p.clean, m.op)
                                            ELSE Append(p.state, m.op),
              !.lastOp = m.op,
              !.seqNum = p.seqNum + 1]

\* Mutant: an own operation is taken for applied when it was predicted.
HandleReceivedOp_OthersOnly(p, r, m) ==
    IF m.from = r THEN [p EXCEPT !.pending = Without(p.pending, m.op), !.seqNum = p.seqNum + 1]
                  ELSE HandleRemoteOp(p, m)

HandleReceivedOp(p, r, m) == IF m.from = r THEN HandleOwnOp(p, m) ELSE HandleRemoteOp(p, m)

\* ... and a class that expects an operation raises, which nobody catches.
Raises(p, r, m) == m.from # r /\ p.pending # <<>> /\ UnknownOp = "raise"

IsFirst(ops, op, k) == ops[k].op = op /\ \A j \in 1..(k - 1) : ops[j].op # op
\* Mutant: the last operation of the state itself is applied again.
After_Inclusive(ops, op) ==
    IF \E k \in 1..Len(ops) : IsFirst(ops, op, k)
    THEN SubSeq(ops, CHOOSE i \in 1..Len(ops) : IsFirst(ops, op, i), Len(ops))
    ELSE <<>>

\* The buffered operations that follow the first occurrence of op.
After(ops, op) ==
    IF \E k \in 1..Len(ops) : IsFirst(ops, op, k)
    THEN LET k == CHOOSE i \in 1..Len(ops) : IsFirst(ops, op, i)
         IN  SubSeq(ops, k + 1, Len(ops))
    ELSE <<>>

\* _enterSYNCMode, but for its broadcast
EnterSYNCMode(p, id) ==
    [p EXCEPT !.mode = "SYNC", !.syncId = id, !.seqNum = -1, !.opsSYNC = <<>>, !.waiting = TRUE]

\* Mutant: the state is installed and the mode forgotten.
ExitSYNCMode_StaysSync(p) == [p EXCEPT !.syncId = NoSync, !.waiting = FALSE]

ExitSYNCMode(p) == [p EXCEPT !.mode = "NORM", !.syncId = NoSync, !.waiting = FALSE]

\* Mutant: the predicted state is not refreshed from the installed one.
HandleStateSync_KeepsState(p, r, m) ==
    LET ops == After(p.opsSYNC, m.lastOp)
    IN  ExitSYNCMode(
        [p EXCEPT !.clean = m.state \o [k \in 1..Len(ops) |-> ops[k].op],
                  !.seqNum = m.seqNum + Len(ops),
                  !.lastOp = IF ops = <<>> THEN m.lastOp ELSE ops[Len(ops)].op,
                  !.pending = <<>>, !.opsSYNC = <<>>])

\* _handleStateSyncMsg: install the state and hand the buffered operations
\* after its last one to _handleReceivedOp:, which finds nothing pending: it
\* applies an own operation to the clean state only, another to both.
HandleStateSync(p, r, m) ==
    LET ops == After(p.opsSYNC, m.lastOp)
        own(k) == ops[k].from = r
        lastOwn(k) == own(k) /\ \A j \in (k + 1)..Len(ops) : ~own(j)
    IN ExitSYNCMode(
       [p EXCEPT !.clean = m.state \o [k \in 1..Len(ops) |-> ops[k].op],
                 !.state = m.state \o [k \in 1..Len(ops) |-> IF own(k) THEN NoOp ELSE ops[k].op],
                 !.seqNum = m.seqNum + Len(ops),
                 !.lastOp = IF ops = <<>> THEN m.lastOp ELSE ops[Len(ops)].op,
                 !.staleness =
                     IF \E k \in 1..Len(ops) : lastOwn(k)
                     THEN LET k == CHOOSE i \in 1..Len(ops) : lastOwn(i)
                          IN  m.seqNum + k - 1 - ops[k].localSeqNum
                     ELSE p.staleness,
                 !.pending = <<>>,
                 !.opsSYNC = <<>>])

(***************************************************************************)
(* The room.                                                               *)
(***************************************************************************)
Occupant(r) == status[r] \in {"entered", "in"}

\* A groupchat stanza of r: nothing leaves a replica that is not in the room.
Multicast(r, box, m) ==
    /\ inbox' = IF Occupant(r)
                THEN [q \in Replicas |-> IF Occupant(q) THEN Append(box[q], m) ELSE box[q]]
                ELSE box
    /\ history' = IF ~Occupant(r) \/ HistoryLen = 0 THEN history
                  ELSE IF Len(history) = HistoryLen THEN Append(Tail(history), m)
                  ELSE Append(history, m)

\* A private stanza of r to one occupant.
Unicast(r, box, to, m) ==
    /\ inbox' = IF Occupant(r) /\ Occupant(to) THEN [box EXCEPT ![to] = Append(box[to], m)] ELSE box
    /\ UNCHANGED history

Init ==
    /\ prop = [r \in Replicas |-> InitProp(r \in Founders)]
    /\ status = [r \in Replicas |-> IF r \in Founders THEN "in" ELSE "out"]
    /\ task = [r \in Replicas |-> "idle"]
    /\ inbox = [r \in Replicas |-> <<>>]
    /\ history = <<>>
    /\ log = <<>>
    /\ issued = 0
    /\ losses = 0

(***************************************************************************)
(* Calls of the application and of the timer.                              *)
(***************************************************************************)
Running(r) == status[r] \in {"out", "entered", "in", "cut"}

\* addOperation: in SYNC mode it returns having done nothing.
AddOperation(r) ==
    LET op == issued + 1
        m == StateOperation(r, op, Len(log) + 1)
    IN  /\ Running(r)
        /\ issued < MaxOps
        /\ prop[r].mode = "NORM"
        /\ prop' = [prop EXCEPT ![r].state = Append(@, op), ![r].pending = Append(@, op)]
        /\ issued' = op
        /\ log' = IF Occupant(r) THEN Append(log, op) ELSE log
        /\ Multicast(r, inbox, m)
        /\ UNCHANGED <<status, task, losses>>

\* periodicTask: reads the mode outside the lock and only then calls the
\* method that takes it.  Bounds: no earlier HELLO or WHO_HAS_STATE of r is
\* still on its way (a stanza takes less than the 3 or 5 s between two), and
\* fewer than MaxChatter replicas have one under way.
Quiet(r) ==
    /\ task[r] = "idle"
    /\ \A q \in Replicas : \A k \in 1..Len(inbox[q]) :
          inbox[q][k].from = r => inbox[q][k].type \notin {"HELLO", "WHO_HAS_STATE"}

PeriodicTask(r) ==
    /\ status[r] \in {"in", "cut"}
    /\ prop[r].active
    /\ Quiet(r)
    /\ Cardinality({q \in Replicas : ~Quiet(q)}) < MaxChatter
    /\ task' = [task EXCEPT ![r] = IF prop[r].mode = "NORM" THEN "hello" ELSE "request"]
    /\ UNCHANGED <<prop, status, inbox, history, log, issued, losses>>

SendHello(r) ==
    /\ status[r] \in {"in", "cut"}
    /\ task[r] = "hello"
    /\ task' = [task EXCEPT ![r] = "idle"]
    /\ Multicast(r, inbox, Hello(r))
    /\ UNCHANGED <<prop, status, log, issued, losses>>

BroadcastSyncRequest(r) ==
    /\ status[r] \in {"in", "cut"}
    /\ task[r] = "request"
    /\ task' = [task EXCEPT ![r] = "idle"]
    /\ Multicast(r, inbox, SyncRequest("WHO_HAS_STATE", r, prop[r].syncId))
    /\ UNCHANGED <<prop, status, log, issued, losses>>

(***************************************************************************)
(* _handleMessage: one action per mode and type; the replica's lock is     *)
(* held throughout.  What a cut off replica had received it still handles. *)
(***************************************************************************)
Handling(r, mode, type) ==
    /\ status[r] \in {"in", "cut"}
    /\ inbox[r] # <<>>
    /\ prop[r].mode = mode
    /\ Head(inbox[r]).type = type

Rest(r) == [inbox EXCEPT ![r] = Tail(inbox[r])]

ApplyOperation(r) ==
    LET m == Head(inbox[r]) IN
    /\ Handling(r, "NORM", "STATE_OPERATION")
    /\ ~Raises(prop[r], r, m)
    /\ prop' = [prop EXCEPT ![r] = HandleReceivedOp(prop[r], r, m)]
    /\ inbox' = Rest(r)
    /\ UNCHANGED <<status, task, history, log, issued, losses>>

\* The exception ends the process.
RaiseOnConflict(r) ==
    /\ Handling(r, "NORM", "STATE_OPERATION")
    /\ Raises(prop[r], r, Head(inbox[r]))
    /\ status' = [status EXCEPT ![r] = "raised"]
    /\ inbox' = [inbox EXCEPT ![r] = <<>>]
    /\ UNCHANGED <<prop, task, history, log, issued, losses>>

AnswerSendMeState(r) ==
    LET m == Head(inbox[r]) IN
    /\ Handling(r, "NORM", "SEND_ME_STATE")
    /\ m.from # r
    /\ Unicast(r, Rest(r), m.from, StateSync(r, m.syncId))
    /\ UNCHANGED <<prop, status, task, log, issued, losses>>

AnswerWhoHasState(r) ==
    LET m == Head(inbox[r]) IN
    /\ Handling(r, "NORM", "WHO_HAS_STATE")
    /\ m.from # r
    /\ Unicast(r, Rest(r), m.from, SyncRequest("I_HAVE_STATE", r, m.syncId))
    /\ UNCHANGED <<prop, status, task, log, issued, losses>>

\* A fresh sync id is one that no replica and no message carries.
FreshSyncIds ==
    {id \in SyncIds :
        \A q \in Replicas :
            /\ prop[q].syncId # id
            /\ \A k \in 1..Len(inbox[q]) :
                  inbox[q][k].type \in {"WHO_HAS_STATE", "I_HAVE_STATE", "SEND_ME_STATE", "STATE_SYNC"}
                      => inbox[q][k].syncId # id}

\* Mutant: a peer that is as far counts as ahead.
Behind_OrEqual(p, r, m) == m.from # r /\ m.localSeqNum >= p.seqNum

Behind(p, r, m) == m.from # r /\ m.localSeqNum > p.seqNum

EnterSync(r) ==
    /\ Handling(r, "NORM", "HELLO")
    /\ Behind(prop[r], r, Head(inbox[r]))
    /\ FreshSyncIds # {}
    /\ LET id == CHOOSE i \in FreshSyncIds : TRUE
       IN  /\ prop' = [prop EXCEPT ![r] = EnterSYNCMode(prop[r], id)]
           /\ Multicast(r, Rest(r), SyncRequest("WHO_HAS_STATE", r, id))
    /\ UNCHANGED <<status, task, log, issued, losses>>

\* Mutant: in SYNC mode everything is buffered, whatever its type.
BufferOperation_Anything(r) ==
    /\ status[r] \in {"in", "cut"} /\ inbox[r] # <<>> /\ prop[r].mode = "SYNC"
    /\ prop' = [prop EXCEPT ![r].opsSYNC = Append(prop[r].opsSYNC, Head(inbox[r]))]
    /\ inbox' = Rest(r)
    /\ UNCHANGED <<status, task, history, log, issued, losses>>

BufferOperation(r) ==
    /\ Handling(r, "SYNC", "STATE_OPERATION")
    /\ prop' = [prop EXCEPT ![r].opsSYNC = Append(prop[r].opsSYNC, Head(inbox[r]))]
    /\ inbox' = Rest(r)
    /\ UNCHANGED <<status, task, history, log, issued, losses>>

\* Mutant: every I_HAVE_STATE of the round is accepted.
Accepts_Again(p, r, m) == m.from # r /\ m.syncId = p.syncId

\* The first I_HAVE_STATE of this round is accepted, and no other ever after.
Accepts(p, r, m) == m.from # r /\ p.waiting /\ m.syncId = p.syncId

AcceptIHaveState(r) ==
    LET m == Head(inbox[r]) IN
    /\ Handling(r, "SYNC", "I_HAVE_STATE")
    /\ Accepts(prop[r], r, m)
    /\ prop' = [prop EXCEPT ![r].waiting = FALSE]
    /\ Unicast(r, Rest(r), m.from, SyncRequest("SEND_ME_STATE", r, m.syncId))
    /\ UNCHANGED <<status, task, log, issued, losses>>

InstallState(r) ==
    LET m == Head(inbox[r]) IN
    /\ Handling(r, "SYNC", "STATE_SYNC")
    /\ m.from # r
    /\ m.syncId = prop[r].syncId
    /\ prop' = [prop EXCEPT ![r] = HandleStateSync(prop[r], r, m)]
    /\ inbox' = Rest(r)
    /\ UNCHANGED <<status, task, history, log, issued, losses>>

\* Everything else is read and dropped.
Ignored(p, r, m) ==
    \/ p.mode = "NORM" /\ m.type \in {"SEND_ME_STATE", "WHO_HAS_STATE"} /\ m.from = r
    \/ p.mode = "NORM" /\ m.type = "HELLO" /\ ~Behind(p, r, m)
    \/ p.mode = "NORM" /\ m.type \in {"I_HAVE_STATE", "STATE_SYNC"}
    \/ p.mode = "SYNC" /\ m.type \in {"HELLO", "WHO_HAS_STATE", "SEND_ME_STATE"}
    \/ p.mode = "SYNC" /\ m.type = "I_HAVE_STATE" /\ ~Accepts(p, r, m)
    \/ p.mode = "SYNC" /\ m.type = "STATE_SYNC" /\ (m.from = r \/ m.syncId # p.syncId)

IgnoreMessage(r) ==
    /\ status[r] \in {"in", "cut"}
    /\ inbox[r] # <<>>
    /\ Ignored(prop[r], r, Head(inbox[r]))
    /\ inbox' = Rest(r)
    /\ UNCHANGED <<prop, status, task, history, log, issued, losses>>

(***************************************************************************)
(* Entering and losing the room.                                           *)
(***************************************************************************)

\* The room admits r and replays its history.
JoinRoom(r) ==
    /\ status[r] = "out"
    /\ status' = [status EXCEPT ![r] = "entered"]
    /\ inbox' = [inbox EXCEPT ![r] = history]
    /\ UNCHANGED <<prop, task, history, log, issued, losses>>

\* Until registerActor: registers the handler, what arrives is dropped.
DropUnhandled(r) ==
    /\ status[r] = "entered"
    /\ inbox[r] # <<>>
    /\ inbox' = Rest(r)
    /\ UNCHANGED <<prop, status, task, history, log, issued, losses>>

RegisterMessageHandler(r) ==
    /\ status[r] = "entered"
    /\ status' = [status EXCEPT ![r] = "in"]
    /\ UNCHANGED <<prop, task, inbox, history, log, issued, losses>>

AfterActivityJoin(r) ==
    /\ status[r] = "in"
    /\ ~prop[r].active
    /\ prop' = [prop EXCEPT ![r].active = TRUE]
    /\ UNCHANGED <<status, task, inbox, history, log, issued, losses>>

\* The connection breaks: the tail of the stream is lost.
LoseConnection(r) ==
    /\ r \in Churn
    /\ status[r] = "in"
    /\ losses < MaxLosses
    /\ losses' = losses + 1
    /\ status' = [status EXCEPT ![r] = "cut"]
    /\ \E k \in 0..Len(inbox[r]) : inbox' = [inbox EXCEPT ![r] = SubSeq(inbox[r], 1, k)]
    /\ UNCHANGED <<prop, task, history, log, issued>>

\* reconnect: the handlers stayed registered and the prop does not override
\* afterActivityRejoin, so it goes on from the state it had.
RejoinRoom(r) ==
    /\ status[r] = "cut"
    /\ status' = [status EXCEPT ![r] = "in"]
    /\ inbox' = [inbox EXCEPT ![r] = inbox[r] \o history]
    /\ UNCHANGED <<prop, task, history, log, issued, losses>>

LeaveRoom(r) ==
    /\ r \in Churn
    /\ status[r] = "in"
    /\ status' = [status EXCEPT ![r] = "gone"]
    /\ inbox' = [inbox EXCEPT ![r] = <<>>]
    /\ UNCHANGED <<prop, task, history, log, issued, losses>>

HandleMessage(r) ==
    \/ ApplyOperation(r)
    \/ RaiseOnConflict(r)
    \/ AnswerSendMeState(r)
    \/ AnswerWhoHasState(r)
    \/ EnterSync(r)
    \/ BufferOperation(r)
    \/ AcceptIHaveState(r)
    \/ InstallState(r)
    \/ IgnoreMessage(r)

Timer(r) == PeriodicTask(r) \/ SendHello(r) \/ BroadcastSyncRequest(r)

Joining(r) == JoinRoom(r) \/ RegisterMessageHandler(r) \/ AfterActivityJoin(r) \/ RejoinRoom(r)

Leaving(r) == LoseConnection(r) \/ LeaveRoom(r)

Next ==
    \E r \in Replicas :
        \/ AddOperation(r)
        \/ Timer(r)
        \/ HandleMessage(r)
        \/ DropUnhandled(r)
        \/ Joining(r)
        \/ Leaving(r)

Spec == Init /\ [][Next]_vars

\* The receiving thread, the timer and a join under way do not stop; nobody
\* has to issue an operation, no connection has to break or to come back.
Fairness ==
    \A r \in Replicas :
        /\ WF_vars(HandleMessage(r) \/ DropUnhandled(r))
        /\ WF_vars(PeriodicTask(r))
        /\ WF_vars(SendHello(r) \/ BroadcastSyncRequest(r))
        /\ WF_vars(JoinRoom(r)) /\ WF_vars(RegisterMessageHandler(r))
        /\ WF_vars(AfterActivityJoin(r))

FairSpec == Spec /\ Fairness

(***************************************************************************)
(* Properties.                                                             *)
(***************************************************************************)

\* Each variable keeps its type: the fields of the object, what periodicTask:
\* decided, the stanzas on their way.
TypeOK ==
    /\ prop \in [Replicas -> PropObject]
    /\ status \in [Replicas -> {"out", "entered", "in", "cut", "gone", "raised"}]
    /\ task \in [Replicas -> {"idle", "hello", "request"}]
    /\ inbox \in [Replicas -> Seq(Messages)]
    /\ history \in Seq(Messages)
    /\ log \in Seq(Ops)
    /\ issued \in 0..MaxOps
    /\ losses \in 0..MaxLosses

\* A founder whose connection holds.
Steady == Founders \ Churn

\* A steady replica's clean state is the room's operations up to the place its
\* sequence number names, whatever the others, joiners included, do: counting
\* the operations received (line 208) is knowing how far one has come.
SteadyPrefix ==
    \A r \in Steady : status[r] = "in" =>
        /\ prop[r].seqNum \in 0..Len(log)
        /\ prop[r].clean = SubSeq(log, 1, prop[r].seqNum)

\* No HELLO, not even one of a joiner that started from nothing or was handed
\* a peer's state, makes a steady replica drop to SYNC mode (lines 267-273),
\* where it would lose its pending operations.
SteadyStaysNormal == \A r \in Steady : prop[r].mode = "NORM"

\* A steady replica follows the room's order, operation by operation, and is never
\* thrown off it by a message of somebody who is behind.
SteadyFollows == SteadyPrefix /\ SteadyStaysNormal

\* Seen by the steady replicas alone, whatever joins, leaves or is resynchronised
\* beside them, the protocol is one ordered log that each of them reads forward.
Order == INSTANCE OrderedLog
    WITH Viewers <- Steady, Operations <- 1..MaxOps, log <- log,
         view <- [r \in Steady |-> prop[r].clean]
ImplementsOrderedLog == Order!Spec

\* A prediction is the clean state followed by the pending operations, in the
\* order they were issued, so that what the application sees is what it will
\* be left with (lines 175-204, 357-368).
Predicted(r) == prop[r].state = prop[r].clean \o prop[r].pending
StatePredicted ==
    \A r \in Steady : status[r] = "in" => Predicted(r)

\* A steady replica's pending operations are its own operations still to come
\* back to it, in that order (operations are numbered as they are issued): none
\* is forgotten, none waits for nothing.
OwnOps(r, s) == {k \in 1..Len(s) : s[k].type = "STATE_OPERATION" /\ s[k].from = r}
Awaits(r, pending, s) ==
    /\ {pending[k] : k \in 1..Len(pending)} = {s[k].op : k \in OwnOps(r, s)}
    /\ \A j, k \in 1..Len(pending) : j < k => pending[j] < pending[k]
    /\ \A j, k \in OwnOps(r, s) : j < k => s[j].op < s[k].op
PendingInFlight ==
    \A r \in Steady : status[r] = "in" => Awaits(r, prop[r].pending, inbox[r])

\* A replica in NORM mode has applied as many operations as its sequence number
\* says, each of them once and in the room's order, joiners and replicas that
\* missed messages included.  So whoever is not behind a steady replica that has
\* heard everything shows the same clean state: comparing sequence numbers (line
\* 270) finds every replica that lacks some operation.
Ordered(s) == \E place \in [1..Len(s) -> 1..Len(log)] :
    /\ \A k \in 1..Len(s) : log[place[k]] = s[k]
    /\ \A j, k \in 1..Len(s) : j < k => place[j] < place[k]
Abreast(r, f) == prop[r].mode = "NORM" /\ prop[r].seqNum >= prop[f].seqNum
CountedInOrder ==
    /\ \A r \in Replicas : prop[r].mode = "NORM" =>
          prop[r].seqNum = Len(prop[r].clean) /\ Ordered(prop[r].clean)
    /\ \A f \in Steady, r \in Replicas :
          status[f] = "in" /\ inbox[f] = <<>> /\ Abreast(r, f) => prop[r].clean = prop[f].clean

\* What a replica in SYNC mode asked for is answered once: as long as it waits
\* for an I_HAVE_STATE nobody was asked to send a state, and afterwards one
\* request or answer at most is under way (lines 294-314).
InFlight(types, id) ==
    UNION {{<<q, k>> : k \in {i \in DOMAIN inbox[q] : inbox[q][i].type \in types /\ inbox[q][i].syncId = id}}
               : q \in Replicas}
Answers(r) == InFlight({"SEND_ME_STATE", "STATE_SYNC"}, prop[r].syncId)
OneAnswerPerSync ==
    \A r \in Replicas : prop[r].mode = "SYNC" =>
        Cardinality(Answers(r)) <= (IF prop[r].waiting THEN 0 ELSE 1)

\* "If pending locals is empty, state hash and cleanState hash should be equal",
\* the assertion of lines 197-198.  The hash of JXArrayState is the exclusive or
\* of its items' hashes.
Hash(s) ==
    {x \in {s[k] : k \in 1..Len(s)} \ {NoOp} : Cardinality({k \in 1..Len(s) : s[k] = x}) % 2 = 1}
HashesAgree ==
    \A r \in Replicas : prop[r].mode = "NORM" /\ prop[r].pending = <<>> =>
        Hash(prop[r].state) = Hash(prop[r].clean)

\* A replica in SYNC mode whose only accepted answer is not under way any more.
Wedged(r) == prop[r].mode = "SYNC" /\ ~prop[r].waiting /\ Answers(r) = {}

\* A replica that lost its answer never leaves SYNC mode: the request it
\* repeats every 5 s (lines 104-107) is answered, and no answer is accepted.
WedgedForGood == [][\A r \in Replicas : Wedged(r) => Wedged(r)']_vars

\* Once operations stop, every replica in the room comes to hold all of them
\* (a late joiner by way of SYNC mode), unless an exception ends a process.
Converged(r) == status[r] = "in" => prop[r].mode = "NORM" /\ prop[r].clean = log
Converges ==
    [](\A r \in Replicas : status[r] # "raised") => \A r \in Replicas : <>[]Converged(r)

=============================================================================
