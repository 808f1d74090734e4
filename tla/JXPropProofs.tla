---------------------------- MODULE JXPropProofs ----------------------------
(***************************************************************************)
(* Proofs about JXProp: that its variables keep their types, that          *)
(* OrderInvariant is inductive, and what follows from it: the safety of    *)
(* the steady replicas, their refinement of OrderedLog, what they predict, *)
(* what every replica counts, the rounds of SYNC mode, and the hashes that *)
(* replicas in NORM mode compare, where at most one is not steady.         *)
(***************************************************************************)
EXTENDS JXPropInvariant, FiniteSetTheorems, SequenceTheorems, TLAPS

Boxes == [Replicas -> Seq(Messages)]

-----------------------------------------------------------------------------
(* What the operators return.                                              *)

LEMMA MessageKinds ==
    ASSUME NEW m \in Messages
    PROVE  /\ m.from \in Replicas
           /\ m.type = "STATE_OPERATION" => m \in OperationMsg
           /\ m.type = "HELLO" => m \in HelloMsg
           /\ m.type \in {"WHO_HAS_STATE", "I_HAVE_STATE", "SEND_ME_STATE"} => m \in SyncMsg
           /\ m.type = "STATE_SYNC" => m \in StateMsg
BY DEF Messages, OperationMsg, HelloMsg, SyncMsg, StateMsg

LEMMA TakenType ==
    ASSUME NEW box \in Boxes, NEW r \in Replicas, box[r] # <<>>
    PROVE  /\ Head(box[r]) \in Messages
           /\ [box EXCEPT ![r] = Tail(box[r])] \in Boxes
BY DEF Boxes

LEMMA MulticastType ==
    ASSUME history \in Seq(Messages), HistoryLen \in Nat, NEW r \in Replicas, NEW box \in Boxes, NEW m \in Messages,
           Multicast(r, box, m)
    PROVE  inbox' \in Boxes /\ history' \in Seq(Messages)
<1>1. inbox' \in Boxes
  BY DEF Multicast, Boxes
<1>2. history' \in Seq(Messages)
  BY DEF Multicast
<1> QED BY <1>1, <1>2

LEMMA UnicastType ==
    ASSUME NEW r \in Replicas, NEW to \in Replicas, NEW box \in Boxes, NEW m \in Messages,
           Unicast(r, box, to, m)
    PROVE  inbox' \in Boxes
BY DEF Unicast, Boxes

LEMMA SubSeqType ==
    ASSUME NEW S, NEW s \in Seq(S), NEW m \in Nat \ {0}, NEW n \in 0..Len(s)
    PROVE  SubSeq(s, m, n) \in Seq(S)
<1>1. \A i \in m..n : s[i] \in S
  BY ElementOfSeq
<1> QED BY <1>1, SubSeqProperties

LEMMA WithoutType ==
    ASSUME NEW s \in Seq(Ops), NEW op
    PROVE  Without(s, op) \in Seq(Ops)
<1>1. CASE \E k \in 1..Len(s) : s[k] = op
  <2> DEFINE k == CHOOSE i \in 1..Len(s) : s[i] = op
  <2>1. k \in 1..Len(s)
    BY <1>1
  <2> HIDE DEF k
  <2>2. SubSeq(s, 1, k - 1) \in Seq(Ops) /\ SubSeq(s, k + 1, Len(s)) \in Seq(Ops)
    BY <2>1, SubSeqType
  <2>3. SubSeq(s, 1, k - 1) \o SubSeq(s, k + 1, Len(s)) \in Seq(Ops)
    BY <2>2
  <2> QED BY <1>1, <2>3 DEF Without, k
<1>2. CASE ~ \E k \in 1..Len(s) : s[k] = op
  BY <1>2 DEF Without
<1> QED BY <1>1, <1>2

LEMMA AfterType ==
    ASSUME NEW s \in Seq(OperationMsg), NEW op
    PROVE  After(s, op) \in Seq(OperationMsg)
<1>1. CASE \E k \in 1..Len(s) : IsFirst(s, op, k)
  <2> DEFINE k == CHOOSE i \in 1..Len(s) : IsFirst(s, op, i)
  <2>1. k \in 1..Len(s)
    BY <1>1
  <2> HIDE DEF k
  <2>2. SubSeq(s, k + 1, Len(s)) \in Seq(OperationMsg)
    BY <2>1, SubSeqType
  <2> QED BY <1>1, <2>2 DEF After, k
<1>2. CASE ~ \E k \in 1..Len(s) : IsFirst(s, op, k)
  BY <1>2 DEF After
<1> QED BY <1>1, <1>2

LEMMA HandleReceivedOpType ==
    ASSUME NEW p \in PropObject, NEW r \in Replicas, NEW m \in OperationMsg
    PROVE  HandleReceivedOp(p, r, m) \in PropObject
<1>1. Without(p.pending, m.op) \in Seq(Ops)
  BY WithoutType DEF PropObject
<1>2. m.op \in Ops /\ p.seqNum - m.localSeqNum \in Int /\ p.seqNum + 1 \in Int
  BY DEF PropObject, OperationMsg
<1>3. Append(p.clean, m.op) \in Seq(Ops) /\ Append(p.state, m.op) \in Seq(Ops)
  BY <1>2, AppendProperties DEF PropObject
<1>4. HandleOwnOp(p, m) \in PropObject
  BY <1>1, <1>2, <1>3 DEF HandleOwnOp, PropObject
<1>5. HandleRemoteOp(p, m) \in PropObject
  BY <1>2, <1>3 DEF HandleRemoteOp, PropObject
<1> QED BY <1>4, <1>5 DEF HandleReceivedOp

LEMMA HandleStateSyncType ==
    ASSUME NEW p \in PropObject, NEW r \in Replicas, NEW m \in StateMsg
    PROVE  HandleStateSync(p, r, m) \in PropObject
<1> DEFINE ops == After(p.opsSYNC, m.lastOp)
           own(k) == ops[k].from = r
           lastOwn(k) == own(k) /\ \A j \in (k + 1)..Len(ops) : ~own(j)
           all == [k \in 1..Len(ops) |-> ops[k].op]
           others == [k \in 1..Len(ops) |-> IF own(k) THEN NoOp ELSE ops[k].op]
           last == IF ops = <<>> THEN m.lastOp ELSE ops[Len(ops)].op
           late == IF \E k \in 1..Len(ops) : lastOwn(k)
                   THEN LET k == CHOOSE i \in 1..Len(ops) : lastOwn(i)
                        IN  m.seqNum + k - 1 - ops[k].localSeqNum
                   ELSE p.staleness
<1>1. ops \in Seq(OperationMsg)
  BY AfterType DEF PropObject
<1> HIDE DEF ops
<1>2. \A k \in 1..Len(ops) : ops[k] \in OperationMsg
  BY <1>1
<1>3. all \in Seq(Ops) /\ others \in Seq(Ops)
  BY <1>1, <1>2, IsASeq, SMTT(30) DEF OperationMsg, NoOp, Ops
<1>4. m.state \o all \in Seq(Ops) /\ m.state \o others \in Seq(Ops)
  BY <1>3 DEF StateMsg
<1>5. last \in Ops
  BY <1>1, <1>2 DEF StateMsg, OperationMsg
<1>6. late \in Int
  <2>1. CASE \E k \in 1..Len(ops) : lastOwn(k)
    <3> DEFINE k == CHOOSE i \in 1..Len(ops) : lastOwn(i)
    <3>1. k \in 1..Len(ops)
      BY <2>1
    <3> HIDE DEF k
    <3>2. m.seqNum + k - 1 - ops[k].localSeqNum \in Int
      BY <1>1, <1>2, <3>1 DEF StateMsg, OperationMsg
    <3> QED BY <2>1, <3>2 DEF k
  <2>2. CASE ~ \E k \in 1..Len(ops) : lastOwn(k)
    BY <2>2 DEF PropObject
  <2> QED BY <2>1, <2>2
<1>7. m.seqNum + Len(ops) \in Int
  BY <1>1 DEF StateMsg
<1> DEFINE q == [p EXCEPT !.clean = m.state \o all, !.state = m.state \o others,
                          !.seqNum = m.seqNum + Len(ops), !.lastOp = last,
                          !.staleness = late, !.pending = <<>>, !.opsSYNC = <<>>]
<1>8. HandleStateSync(p, r, m) = ExitSYNCMode(q)
  BY DEF HandleStateSync, ops
<1> HIDE DEF all, others, last, late
<1>9. q \in PropObject
  <2> DEFINE c == m.state \o all
             t == m.state \o others
             n == m.seqNum + Len(ops)
  <2>1. <<>> \in Seq(Ops) /\ <<>> \in Seq(OperationMsg)
    BY EmptySeq
  <2> HIDE DEF c, t, n
  <2>2. \A u, v : u \in Seq(Ops) /\ v \in Seq(OperationMsg) =>
          [p EXCEPT !.clean = c, !.state = t, !.seqNum = n, !.lastOp = last,
                    !.staleness = late, !.pending = u, !.opsSYNC = v] \in PropObject
    BY <1>4, <1>5, <1>6, <1>7 DEF PropObject, c, t, n
  <2> QED BY <2>1, <2>2 DEF c, t, n
<1>10. ExitSYNCMode(q) \in PropObject
  BY <1>9 DEF ExitSYNCMode, PropObject
<1> QED BY <1>8, <1>10

-----------------------------------------------------------------------------
(* Type correctness.                                                       *)

LEMMA TypeInit == Init => TypeOK
<1> SUFFICES ASSUME Init PROVE TypeOK
  OBVIOUS
<1>1. \A r \in Replicas : InitProp(r \in Founders) \in PropObject
  BY EmptySeq DEF InitProp, PropObject, NoOp, Ops
<1>2. prop \in [Replicas -> PropObject]
  BY <1>1 DEF Init
<1>3. inbox \in [Replicas -> Seq(Messages)] /\ history \in Seq(Messages) /\ log \in Seq(Ops)
  BY EmptySeq DEF Init
<1>4. issued \in 0..MaxOps /\ losses \in 0..MaxLosses
  BY BoundsAssumption DEF Init
<1> QED BY <1>2, <1>3, <1>4 DEF Init, TypeOK

\* The messages a replica builds are messages.
LEMMA BuiltMessages ==
    ASSUME TypeOK, NEW r \in Replicas
    PROVE  /\ Hello(r) \in Messages
           /\ \A type \in {"WHO_HAS_STATE", "I_HAVE_STATE", "SEND_ME_STATE"},
                 id \in SyncIds \cup {NoSync} : SyncRequest(type, r, id) \in Messages
           /\ \A id \in SyncIds \cup {NoSync} : StateSync(r, id) \in Messages
           /\ \A op \in Ops, slot \in Nat : StateOperation(r, op, slot) \in Messages
<1>1. prop[r] \in PropObject
  BY DEF TypeOK
<1>2. Hello(r) \in HelloMsg
  BY <1>1 DEF Hello, HelloMsg, PropObject
<1>3. \A type \in {"WHO_HAS_STATE", "I_HAVE_STATE", "SEND_ME_STATE"},
         id \in SyncIds \cup {NoSync} : SyncRequest(type, r, id) \in SyncMsg
  BY DEF SyncRequest, SyncMsg
<1>4. \A id \in SyncIds \cup {NoSync} : StateSync(r, id) \in StateMsg
  BY <1>1 DEF StateSync, StateMsg, PropObject
<1>5. \A op \in Ops, slot \in Nat : StateOperation(r, op, slot) \in OperationMsg
  BY <1>1 DEF StateOperation, OperationMsg, PropObject
<1> QED BY <1>2, <1>3, <1>4, <1>5 DEF Messages

LEMMA TypeApplication ==
    ASSUME TypeOK, NEW r \in Replicas, AddOperation(r)
    PROVE  TypeOK'
<1> DEFINE op == issued + 1
           m == StateOperation(r, op, Len(log) + 1)
<1>1. op \in Ops /\ Len(log) + 1 \in Nat /\ issued' \in 0..MaxOps
  BY BoundsAssumption DEF AddOperation, TypeOK, Ops
<1>2. m \in Messages
  BY <1>1, BuiltMessages
<1>3. Multicast(r, inbox, m)
  BY DEF AddOperation
<1>4. inbox' \in Boxes /\ history' \in Seq(Messages)
  BY <1>2, <1>3, MulticastType, BoundsAssumption DEF TypeOK, Boxes
<1>5. log' \in Seq(Ops)
  BY <1>1, AppendProperties DEF AddOperation, TypeOK
<1>6. prop' \in [Replicas -> PropObject]
  <2>1. prop[r] \in PropObject
    BY DEF TypeOK
  <2>2. Append(prop[r].state, op) \in Seq(Ops) /\ Append(prop[r].pending, op) \in Seq(Ops)
    BY <1>1, <2>1, AppendProperties DEF PropObject
  <2>3. [prop[r] EXCEPT !.state = Append(prop[r].state, op), !.pending = Append(prop[r].pending, op)]
           \in PropObject
    BY <2>1, <2>2 DEF PropObject
  <2>4. prop' = [prop EXCEPT ![r] = [prop[r] EXCEPT !.state = Append(prop[r].state, op),
                                                    !.pending = Append(prop[r].pending, op)]]
    BY DEF AddOperation, TypeOK
  <2> QED BY <2>3, <2>4 DEF TypeOK
<1> QED BY <1>1, <1>4, <1>5, <1>6 DEF AddOperation, TypeOK, Boxes

LEMMA TypeTimer ==
    ASSUME TypeOK, NEW r \in Replicas, Timer(r)
    PROVE  TypeOK'
<1>1. CASE PeriodicTask(r)
  BY <1>1 DEF PeriodicTask, TypeOK
<1>2. CASE SendHello(r)
  <2>1. inbox' \in Boxes /\ history' \in Seq(Messages)
    BY <1>2, BuiltMessages, MulticastType, BoundsAssumption DEF SendHello, TypeOK, Boxes
  <2> QED BY <1>2, <2>1 DEF SendHello, TypeOK, Boxes
<1>3. CASE BroadcastSyncRequest(r)
  <2>1. prop[r].syncId \in SyncIds \cup {NoSync}
    BY DEF TypeOK, PropObject
  <2>2. inbox' \in Boxes /\ history' \in Seq(Messages)
    BY <1>3, <2>1, BuiltMessages, MulticastType, BoundsAssumption
       DEF BroadcastSyncRequest, TypeOK, Boxes
  <2> QED BY <1>3, <2>2 DEF BroadcastSyncRequest, TypeOK, Boxes
<1> QED BY <1>1, <1>2, <1>3 DEF Timer

LEMMA TypeHandling ==
    ASSUME TypeOK, NEW r \in Replicas, HandleMessage(r)
    PROVE  TypeOK'
<1> DEFINE m == Head(inbox[r])
<1>1. inbox[r] # <<>>
  BY DEF HandleMessage, ApplyOperation, RaiseOnConflict, AnswerSendMeState, AnswerWhoHasState, EnterSync,
         BufferOperation, AcceptIHaveState, InstallState, IgnoreMessage, Handling
<1>2. m \in Messages /\ Rest(r) \in Boxes /\ inbox \in Boxes
  BY <1>1, TakenType DEF TypeOK, Boxes, Rest
<1>3. prop[r] \in PropObject /\ m.from \in Replicas
  BY <1>2, MessageKinds DEF TypeOK
<1> HIDE DEF m
<1>4. CASE ApplyOperation(r)
  <2>1. m \in OperationMsg
    BY <1>2, <1>4, MessageKinds DEF ApplyOperation, Handling, m
  <2>2. HandleReceivedOp(prop[r], r, m) \in PropObject
    BY <1>3, <2>1, HandleReceivedOpType
  <2>3. prop' \in [Replicas -> PropObject]
    BY <1>4, <2>2 DEF ApplyOperation, TypeOK, m
  <2> QED BY <1>2, <1>4, <2>3 DEF ApplyOperation, TypeOK, Boxes
<1>5. CASE RaiseOnConflict(r)
  <2>1. <<>> \in Seq(Messages)
    BY EmptySeq
  <2> QED BY <1>5, <2>1 DEF RaiseOnConflict, TypeOK
<1>6. CASE AnswerSendMeState(r)
  <2>1. m \in SyncMsg
    BY <1>2, <1>6, MessageKinds DEF AnswerSendMeState, Handling, m
  <2>2. StateSync(r, m.syncId) \in Messages
    BY <2>1, BuiltMessages DEF SyncMsg
  <2>3. inbox' \in Boxes
    BY <1>2, <1>3, <1>6, <2>2, UnicastType DEF AnswerSendMeState, m
  <2> QED BY <1>6, <2>3 DEF AnswerSendMeState, Unicast, TypeOK, Boxes
<1>7. CASE AnswerWhoHasState(r)
  <2>1. m \in SyncMsg
    BY <1>2, <1>7, MessageKinds DEF AnswerWhoHasState, Handling, m
  <2>2. SyncRequest("I_HAVE_STATE", r, m.syncId) \in Messages
    BY <2>1, BuiltMessages DEF SyncMsg
  <2>3. inbox' \in Boxes
    BY <1>2, <1>3, <1>7, <2>2, UnicastType DEF AnswerWhoHasState, m
  <2> QED BY <1>7, <2>3 DEF AnswerWhoHasState, Unicast, TypeOK, Boxes
<1>8. CASE EnterSync(r)
  <2> DEFINE id == CHOOSE i \in FreshSyncIds : TRUE
  <2>1. id \in SyncIds
    <3>1. id \in FreshSyncIds
      BY <1>8 DEF EnterSync
    <3> QED BY <3>1 DEF FreshSyncIds
  <2> HIDE DEF id
  <2>2. /\ prop' = [prop EXCEPT ![r] = EnterSYNCMode(prop[r], id)]
        /\ Multicast(r, Rest(r), SyncRequest("WHO_HAS_STATE", r, id))
    BY <1>8 DEF EnterSync, id
  <2>3. SyncRequest("WHO_HAS_STATE", r, id) \in Messages
    BY <2>1, BuiltMessages
  <2>4. inbox' \in Boxes /\ history' \in Seq(Messages)
    BY <1>2, <2>2, <2>3, MulticastType, BoundsAssumption DEF TypeOK
  <2>5. <<>> \in Seq(OperationMsg)
    BY EmptySeq
  <2>6. EnterSYNCMode(prop[r], id) \in PropObject
    <3>1. \A p \in PropObject, n \in Int, b \in Seq(OperationMsg) :
            [p EXCEPT !.mode = "SYNC", !.syncId = id, !.seqNum = n, !.opsSYNC = b, !.waiting = TRUE]
              \in PropObject
      BY <2>1 DEF PropObject
    <3>2. -1 \in Int
      OBVIOUS
    <3> QED BY <1>3, <2>5, <3>1, <3>2 DEF EnterSYNCMode
  <2> QED BY <1>8, <2>2, <2>4, <2>6 DEF EnterSync, TypeOK, Boxes
<1>9. CASE BufferOperation(r)
  <2>1. m \in OperationMsg
    BY <1>2, <1>9, MessageKinds DEF BufferOperation, Handling, m
  <2>2. Append(prop[r].opsSYNC, m) \in Seq(OperationMsg)
    BY <1>3, <2>1, AppendProperties DEF PropObject
  <2>3. [prop[r] EXCEPT !.opsSYNC = Append(prop[r].opsSYNC, m)] \in PropObject
    BY <1>3, <2>2 DEF PropObject
  <2>4. prop' \in [Replicas -> PropObject]
    BY <1>9, <2>3 DEF BufferOperation, TypeOK, m
  <2> QED BY <1>2, <1>9, <2>4 DEF BufferOperation, TypeOK, Boxes
<1>10. CASE AcceptIHaveState(r)
  <2>1. m \in SyncMsg
    BY <1>2, <1>10, MessageKinds DEF AcceptIHaveState, Handling, m
  <2>2. SyncRequest("SEND_ME_STATE", r, m.syncId) \in Messages
    BY <2>1, BuiltMessages DEF SyncMsg
  <2>3. inbox' \in Boxes
    BY <1>2, <1>3, <1>10, <2>2, UnicastType DEF AcceptIHaveState, m
  <2>4. prop' \in [Replicas -> PropObject]
    <3>1. [prop[r] EXCEPT !.waiting = FALSE] \in PropObject
      BY <1>3 DEF PropObject
    <3> QED BY <1>10, <3>1 DEF AcceptIHaveState, TypeOK
  <2> QED BY <1>10, <2>3, <2>4 DEF AcceptIHaveState, Unicast, TypeOK, Boxes
<1>11. CASE InstallState(r)
  <2>1. m \in StateMsg
    BY <1>2, <1>11, MessageKinds DEF InstallState, Handling, m
  <2>2. HandleStateSync(prop[r], r, m) \in PropObject
    BY <1>3, <2>1, HandleStateSyncType
  <2>3. prop' \in [Replicas -> PropObject]
    BY <1>11, <2>2 DEF InstallState, TypeOK, m
  <2> QED BY <1>2, <1>11, <2>3 DEF InstallState, TypeOK, Boxes
<1>12. CASE IgnoreMessage(r)
  BY <1>2, <1>12 DEF IgnoreMessage, TypeOK, Boxes
<1> QED BY <1>4, <1>5, <1>6, <1>7, <1>8, <1>9, <1>10, <1>11, <1>12 DEF HandleMessage

LEMMA TypeRoom ==
    ASSUME TypeOK, NEW r \in Replicas, DropUnhandled(r) \/ Joining(r) \/ Leaving(r)
    PROVE  TypeOK'
<1>1. CASE DropUnhandled(r)
  BY <1>1, TakenType DEF DropUnhandled, Rest, TypeOK, Boxes
<1>2. CASE JoinRoom(r)
  BY <1>2 DEF JoinRoom, TypeOK
<1>3. CASE RegisterMessageHandler(r)
  BY <1>3 DEF RegisterMessageHandler, TypeOK
<1>4. CASE AfterActivityJoin(r)
  <2>1. prop' \in [Replicas -> PropObject]
    <3>1. [prop[r] EXCEPT !.active = TRUE] \in PropObject
      BY ZenonT(30) DEF PropObject, TypeOK
    <3> QED BY <1>4, <3>1 DEF AfterActivityJoin, TypeOK
  <2> QED BY <1>4, <2>1 DEF AfterActivityJoin, TypeOK
<1>5. CASE RejoinRoom(r)
  <2>1. inbox[r] \o history \in Seq(Messages)
    BY ConcatProperties DEF TypeOK
  <2> QED BY <1>5, <2>1 DEF RejoinRoom, TypeOK
<1>6. CASE LoseConnection(r)
  <2>1. PICK k \in 0..Len(inbox[r]) : inbox' = [inbox EXCEPT ![r] = SubSeq(inbox[r], 1, k)]
    BY <1>6 DEF LoseConnection
  <2>2. SubSeq(inbox[r], 1, k) \in Seq(Messages)
    BY SubSeqType DEF TypeOK
  <2>3. losses' \in 0..MaxLosses
    BY <1>6, BoundsAssumption DEF LoseConnection, TypeOK
  <2> QED BY <1>6, <2>1, <2>2, <2>3 DEF LoseConnection, TypeOK
<1>7. CASE LeaveRoom(r)
  BY <1>7, EmptySeq DEF LeaveRoom, TypeOK
<1> QED BY <1>1, <1>2, <1>3, <1>4, <1>5, <1>6, <1>7 DEF Joining, Leaving

LEMMA TypeNext == TypeOK /\ [Next]_vars => TypeOK'
<1> SUFFICES ASSUME TypeOK, [Next]_vars PROVE TypeOK'
  OBVIOUS
<1>1. CASE UNCHANGED vars
  BY <1>1 DEF vars, TypeOK
<1>2. CASE Next
  <2>1. PICK r \in Replicas :
          AddOperation(r) \/ Timer(r) \/ HandleMessage(r) \/ DropUnhandled(r) \/ Joining(r) \/ Leaving(r)
    BY <1>2 DEF Next
  <2> QED BY <2>1, TypeApplication, TypeTimer, TypeHandling, TypeRoom
<1> QED BY <1>1, <1>2

\* Every state the program reaches is one its declarations allow: each
\* message is of a kind the handlers expect, the buffers hold operations only.
THEOREM TypeCorrect == Spec => []TypeOK
BY TypeInit, TypeNext, PTL DEF Spec

-----------------------------------------------------------------------------
(* Streams and the order of the room.                                      *)

\* What a stream asks of a stanza that is no operation.
StanzaOK(l, m) ==
    /\ ~IsOp(m)
    /\ m.type = "STATE_SYNC" => \E n \in 0..Len(l) : At(l, m.lastOp, n) /\ m.seqNum \in 0..n
    /\ m.type = "HELLO" => m.localSeqNum <= Len(l)

-----------------------------------------------------------------------------
(* Streams.                                                                *)

LEMMA TailFacts ==
    ASSUME NEW s \in Seq(Messages), s # <<>>
    PROVE  /\ Len(s) \in Nat \ {0}
           /\ Tail(s) \in Seq(Messages)
           /\ Len(Tail(s)) = Len(s) - 1
           /\ \A i \in 1..(Len(s) - 1) : Tail(s)[i] = s[i + 1]
           /\ Head(s) = s[1]
BY HeadTailProperties, EmptySeq

LEMMA MessageFields ==
    ASSUME NEW m \in Messages
    PROVE  /\ IsOp(m) => m.slot \in Nat /\ m.op \in Nat
           /\ m.type = "HELLO" => m.localSeqNum \in Int
           /\ m.type = "STATE_SYNC" => m.seqNum \in Int /\ m.lastOp \in Nat
BY MessageKinds DEF IsOp, OperationMsg, HelloMsg, StateMsg, Ops

LEMMA OpsAfterTail ==
    ASSUME NEW s \in Seq(Messages), s # <<>>, NEW k \in Nat, NEW n
    PROVE  /\ OpsAfter(s, k + 1, n) => OpsAfter(Tail(s), k, n)
           /\ OpsAfter(s, 0, n) => OpsAfter(Tail(s), 0, n)
<1>1. ASSUME NEW j \in 1..Len(Tail(s)) PROVE j + 1 \in 1..Len(s) /\ Tail(s)[j] = s[j + 1]
  BY TailFacts
<1> QED BY <1>1, TailFacts DEF OpsAfter

LEMMA OpsAfterHead ==
    ASSUME NEW s \in Seq(Messages), s # <<>>, OpsInOrder(s), IsOp(Head(s))
    PROVE  OpsAfter(Tail(s), 0, Head(s).slot)
BY TailFacts DEF OpsAfter, OpsInOrder

LEMMA StreamTail ==
    ASSUME NEW l \in Seq(Ops), NEW s \in Seq(Messages), s # <<>>, StreamOK(l, s)
    PROVE  StreamOK(l, Tail(s))
<1> DEFINE t == Tail(s)
<1>1. /\ Len(t) \in Nat
      /\ \A k \in 1..Len(t) : k + 1 \in 1..Len(s) /\ t[k] = s[k + 1]
  <2>1. Len(s) \in Nat \ {0} /\ Len(t) = Len(s) - 1 /\ \A i \in 1..(Len(s) - 1) : t[i] = s[i + 1]
    <3>1. Len(s) \in Nat \ {0} /\ Len(Tail(s)) = Len(s) - 1
      BY TailFacts
    <3>2. \A i \in 1..(Len(s) - 1) : Tail(s)[i] = s[i + 1]
      BY TailFacts
    <3> QED BY <3>1, <3>2
  <2> HIDE DEF t
  <2> QED BY <2>1
<1> HIDE DEF t
<1>2. OpsPlaced(l, t)
  BY <1>1 DEF StreamOK, OpsPlaced
<1>3. OpsInOrder(t)
  <2> SUFFICES ASSUME NEW i \in 1..Len(t), NEW j \in 1..Len(t), i < j, IsOp(t[i]), IsOp(t[j])
               PROVE  t[i].slot < t[j].slot
    BY DEF OpsInOrder
  <2>1. i + 1 \in 1..Len(s) /\ j + 1 \in 1..Len(s) /\ t[i] = s[i + 1] /\ t[j] = s[j + 1] /\ i + 1 < j + 1
    BY <1>1
  <2> QED BY <2>1 DEF StreamOK, OpsInOrder
<1>4. StatesCurrent(l, t)
  <2> SUFFICES ASSUME NEW k \in 1..Len(t), t[k].type = "STATE_SYNC"
               PROVE  Current(l, t[k].lastOp, t[k].seqNum, t, k)
    BY DEF StatesCurrent
  <2>1. Current(l, t[k].lastOp, t[k].seqNum, s, k + 1)
    BY <1>1 DEF StreamOK, StatesCurrent
  <2>2. \A n : OpsAfter(s, k + 1, n) => OpsAfter(t, k, n)
    BY <1>1, OpsAfterTail DEF t
  <2> QED BY <2>1, <2>2 DEF Current
<1>5. HellosBounded(l, t)
  BY <1>1 DEF StreamOK, HellosBounded
<1> QED BY <1>2, <1>3, <1>4, <1>5 DEF StreamOK, t

LEMMA OpsAfterAppend ==
    ASSUME NEW s \in Seq(Messages), NEW m \in Messages, NEW k \in Nat, NEW n,
           IsOp(m) => m.slot > n, OpsAfter(s, k, n)
    PROVE  OpsAfter(Append(s, m), k, n)
BY AppendProperties DEF OpsAfter

LEMMA StreamAppend ==
    ASSUME NEW l \in Seq(Ops), NEW s \in Seq(Messages), NEW m \in Messages, StreamOK(l, s), StanzaOK(l, m)
    PROVE  StreamOK(l, Append(s, m))
<1> DEFINE t == Append(s, m)
<1>1. /\ Len(s) \in Nat
      /\ Len(t) = Len(s) + 1
      /\ \A k \in 1..Len(s) : t[k] = s[k]
      /\ t[Len(s) + 1] = m
  BY AppendProperties
<1>2. ~IsOp(m)
  BY DEF StanzaOK
<1> HIDE DEF t
<1>3. OpsPlaced(l, t)
  BY <1>1, <1>2 DEF StreamOK, OpsPlaced
<1>4. OpsInOrder(t)
  BY <1>1, <1>2 DEF StreamOK, OpsInOrder
<1>5. StatesCurrent(l, t)
  <2> SUFFICES ASSUME NEW k \in 1..Len(t), t[k].type = "STATE_SYNC"
               PROVE  Current(l, t[k].lastOp, t[k].seqNum, t, k)
    BY DEF StatesCurrent
  <2>1. CASE k \in 1..Len(s)
    <3>1. Current(l, t[k].lastOp, t[k].seqNum, s, k)
      BY <1>1, <2>1 DEF StreamOK, StatesCurrent
    <3>2. \A n : OpsAfter(s, k, n) => OpsAfter(t, k, n)
      BY <1>2, OpsAfterAppend DEF t
    <3> QED BY <3>1, <3>2 DEF Current
  <2>2. CASE k = Len(s) + 1
    <3>1. \A n : OpsAfter(t, k, n)
      BY <1>1, <2>2 DEF OpsAfter
    <3> QED BY <1>1, <2>2, <3>1 DEF StanzaOK, Current
  <2> QED BY <1>1, <2>1, <2>2
<1>6. HellosBounded(l, t)
  BY <1>1 DEF StreamOK, HellosBounded, StanzaOK
<1> QED BY <1>3, <1>4, <1>5, <1>6 DEF StreamOK, t

LEMMA AtGrow ==
    ASSUME NEW l \in Seq(Ops), NEW op \in Ops, NEW x, NEW n \in 0..Len(l), At(l, x, n)
    PROVE  At(Append(l, op), x, n) /\ n \in 0..Len(Append(l, op))
BY AppendProperties DEF At

LEMMA StreamGrow ==
    ASSUME NEW l \in Seq(Ops), NEW op \in Ops, NEW s \in Seq(Messages), StreamOK(l, s)
    PROVE  StreamOK(Append(l, op), s)
<1> DEFINE g == Append(l, op)
<1>1. /\ Len(l) \in Nat /\ Len(g) = Len(l) + 1
      /\ \A n \in 1..Len(l) : g[n] = l[n]
  BY AppendProperties
<1>2. OpsPlaced(g, s)
  BY <1>1 DEF StreamOK, OpsPlaced, Placed
<1>3. StatesCurrent(g, s)
  <2> SUFFICES ASSUME NEW k \in 1..Len(s), s[k].type = "STATE_SYNC"
               PROVE  Current(g, s[k].lastOp, s[k].seqNum, s, k)
    BY DEF StatesCurrent
  <2>1. PICK n \in 0..Len(l) :
          At(l, s[k].lastOp, n) /\ s[k].seqNum \in 0..n /\ OpsAfter(s, k, n)
    BY DEF StreamOK, StatesCurrent, Current
  <2>2. At(g, s[k].lastOp, n) /\ n \in 0..Len(g)
    BY <2>1, AtGrow
  <2> QED BY <2>1, <2>2 DEF Current
<1>4. HellosBounded(g, s)
  <2>1. \A k \in 1..Len(s) : s[k] \in Messages
    BY ElementOfSeq
  <2> QED BY <1>1, <2>1, MessageFields DEF StreamOK, HellosBounded
<1> QED BY <1>2, <1>3, <1>4 DEF StreamOK

LEMMA StreamAppendOp ==
    ASSUME NEW l \in Seq(Ops), NEW op \in Ops, NEW s \in Seq(Messages), NEW m \in Messages,
           StreamOK(l, s), IsOp(m), m.op = op, m.slot = Len(l) + 1
    PROVE  StreamOK(Append(l, op), Append(s, m))
<1> DEFINE g == Append(l, op)
           t == Append(s, m)
<1>1. /\ Len(s) \in Nat
      /\ Len(t) = Len(s) + 1
      /\ \A k \in 1..Len(s) : t[k] = s[k]
      /\ t[Len(s) + 1] = m
  BY AppendProperties
<1>2. /\ Len(l) \in Nat /\ Len(g) = Len(l) + 1
      /\ \A n \in 1..Len(l) : g[n] = l[n]
      /\ g[Len(l) + 1] = op
  BY AppendProperties
<1>3. StreamOK(g, s)
  BY StreamGrow
<1>4. \A k \in 1..Len(s) : IsOp(s[k]) => s[k].slot \in 1..Len(l)
  BY DEF StreamOK, OpsPlaced, Placed
<1>5. \A k \in 1..Len(s), n \in 0..Len(l) : OpsAfter(s, k, n) => OpsAfter(t, k, n)
  BY OpsAfterAppend, <1>2
<1> HIDE DEF t, g
<1>6. OpsPlaced(g, t)
  <2>1. \A k \in 1..Len(s) : IsOp(s[k]) => Placed(g, s[k])
    BY <1>3 DEF StreamOK, OpsPlaced
  <2>2. Placed(g, m)
    BY <1>2 DEF Placed
  <2> QED BY <1>1, <2>1, <2>2 DEF OpsPlaced
<1>7. OpsInOrder(t)
  <2> SUFFICES ASSUME NEW i \in 1..Len(t), NEW j \in 1..Len(t), i < j, IsOp(t[i]), IsOp(t[j])
               PROVE  t[i].slot < t[j].slot
    BY DEF OpsInOrder
  <2>1. i \in 1..Len(s) /\ t[i] = s[i]
    BY <1>1
  <2>2. CASE j \in 1..Len(s)
    <3>1. t[j] = s[j] /\ OpsInOrder(s)
      BY <1>1, <1>3, <2>2 DEF StreamOK
    <3> QED BY <2>1, <2>2, <3>1 DEF OpsInOrder
  <2>3. CASE j = Len(s) + 1
    <3>1. t[j].slot = Len(l) + 1
      BY <1>1, <2>3
    <3>2. t[i].slot \in 1..Len(l)
      BY <1>4, <2>1
    <3> QED BY <1>2, <3>1, <3>2
  <2> QED BY <1>1, <2>2, <2>3
<1>8. StatesCurrent(g, t)
  <2> SUFFICES ASSUME NEW k \in 1..Len(t), t[k].type = "STATE_SYNC"
               PROVE  Current(g, t[k].lastOp, t[k].seqNum, t, k)
    BY DEF StatesCurrent
  <2>1. k \in 1..Len(s)
    BY <1>1 DEF IsOp
  <2>2. PICK n \in 0..Len(l) :
          At(l, s[k].lastOp, n) /\ s[k].seqNum \in 0..n /\ OpsAfter(s, k, n)
    BY <1>1, <2>1 DEF StreamOK, StatesCurrent, Current
  <2>3. At(g, s[k].lastOp, n) /\ n \in 0..Len(g)
    BY <2>2, AtGrow DEF g
  <2> QED BY <1>1, <1>5, <2>1, <2>2, <2>3 DEF Current
<1>9. HellosBounded(g, t)
  BY <1>1, <1>3 DEF StreamOK, HellosBounded, IsOp
<1> QED BY <1>6, <1>7, <1>8, <1>9 DEF StreamOK, t, g

LEMMA StreamPrefix ==
    ASSUME NEW l \in Seq(Ops), NEW s \in Seq(Messages), NEW k \in 0..Len(s), StreamOK(l, s)
    PROVE  /\ StreamOK(l, SubSeq(s, 1, k))
           /\ \A n : OpsAfter(s, 0, n) => OpsAfter(SubSeq(s, 1, k), 0, n)
<1> DEFINE t == SubSeq(s, 1, k)
<1>1. Len(t) = k /\ \A i \in 1..k : t[i] = s[i] /\ i \in 1..Len(s)
  BY SubSeqProperties, ElementOfSeq
<1> HIDE DEF t
<1>2. \A n : \A i \in 0..k : OpsAfter(s, i, n) => OpsAfter(t, i, n)
  BY <1>1 DEF OpsAfter
<1>3. OpsPlaced(l, t) /\ OpsInOrder(t) /\ HellosBounded(l, t)
  BY <1>1 DEF StreamOK, OpsPlaced, OpsInOrder, HellosBounded
<1>4. StatesCurrent(l, t)
  BY <1>1, <1>2 DEF StreamOK, StatesCurrent, Current
<1> QED BY <1>2, <1>3, <1>4 DEF StreamOK, t

LEMMA StreamEmpty ==
    ASSUME NEW l \in Seq(Ops)
    PROVE  StreamOK(l, <<>>) /\ \A n : OpsAfter(<<>>, 0, n)
BY DEF StreamOK, OpsPlaced, OpsInOrder, StatesCurrent, HellosBounded, OpsAfter

-----------------------------------------------------------------------------
(* Replicas: what a change of the stream or of the order leaves true.      *)

LEMMA ObjectKept ==
    ASSUME NEW l \in Seq(Ops), NEW p \in PropObject, NEW s, NEW t,
           ObjectOK(l, p, s), \A n \in 0..Len(l) : OpsAfter(s, 0, n) => OpsAfter(t, 0, n)
    PROVE  ObjectOK(l, p, t)
<1>1. BufferOK(l, p.opsSYNC, t)
  BY DEF ObjectOK, BufferOK, Placed
<1>2. Current(l, p.lastOp, p.seqNum, s, 0) => Current(l, p.lastOp, p.seqNum, t, 0)
  BY DEF Current
<1> QED BY <1>1, <1>2 DEF ObjectOK

LEMMA ObjectGrow ==
    ASSUME NEW l \in Seq(Ops), NEW op \in Ops, NEW p \in PropObject, NEW s, ObjectOK(l, p, s)
    PROVE  ObjectOK(Append(l, op), p, s)
<1> DEFINE g == Append(l, op)
<1>1. /\ Len(l) \in Nat /\ Len(g) = Len(l) + 1
      /\ \A n \in 1..Len(l) : g[n] = l[n]
  BY AppendProperties
<1>2. BufferOK(g, p.opsSYNC, s)
  BY <1>1 DEF ObjectOK, BufferOK, Placed
<1>3. Current(l, p.lastOp, p.seqNum, s, 0) => Current(g, p.lastOp, p.seqNum, s, 0)
  <2> SUFFICES ASSUME Current(l, p.lastOp, p.seqNum, s, 0) PROVE Current(g, p.lastOp, p.seqNum, s, 0)
    OBVIOUS
  <2>1. PICK n \in 0..Len(l) : At(l, p.lastOp, n) /\ p.seqNum \in 0..n /\ OpsAfter(s, 0, n)
    BY DEF Current
  <2>2. At(g, p.lastOp, n) /\ n \in 0..Len(g)
    BY <2>1, AtGrow
  <2> QED BY <2>1, <2>2 DEF Current
<1> QED BY <1>2, <1>3 DEF ObjectOK

\* A field the invariant does not speak of may change.
LEMMA ObjectFields ==
    ASSUME NEW l, NEW p, NEW q, NEW s, ObjectOK(l, p, s),
           q.opsSYNC = p.opsSYNC, q.mode = p.mode, q.lastOp = p.lastOp, q.seqNum = p.seqNum
    PROVE  ObjectOK(l, q, s)
BY DEF ObjectOK

LEMMA SteadyFields ==
    ASSUME NEW l, NEW p, NEW q, NEW s, SteadyObjectOK(l, p, s),
           q.clean = p.clean, q.seqNum = p.seqNum
    PROVE  SteadyObjectOK(l, q, s)
BY DEF SteadyObjectOK

LEMMA BringsTail ==
    ASSUME NEW s \in Seq(Messages), s # <<>>, NEW k \in 1..Len(s), NEW n,
           Brings(s, k + 1, n), ~(IsOp(Head(s)) /\ Head(s).slot = n)
    PROVE  Brings(Tail(s), k, n)
<1>1. PICK j \in 1..Len(s) : j < k + 1 /\ IsOp(s[j]) /\ s[j].slot = n
  BY DEF Brings
<1>2. j # 1
  BY <1>1, TailFacts
<1>3. j - 1 \in 1..Len(Tail(s)) /\ Tail(s)[j - 1] = s[j] /\ j - 1 < k
  BY <1>1, <1>2, TailFacts
<1> QED BY <1>1, <1>3 DEF Brings

LEMMA SteadyTail ==
    ASSUME NEW l \in Seq(Ops), NEW p \in PropObject, NEW s \in Seq(Messages), s # <<>>,
           SteadyObjectOK(l, p, s), ~IsOp(Head(s))
    PROVE  SteadyObjectOK(l, p, Tail(s))
<1> DEFINE t == Tail(s)
<1>1. Len(s) \in Nat \ {0} /\ Len(t) = Len(s) - 1
  BY TailFacts
<1>2. OpsAfter(t, 0, p.seqNum)
  BY OpsAfterTail DEF SteadyObjectOK
<1>3. ASSUME NEW n \in (p.seqNum + 1)..Len(l) PROVE Brings(t, Len(t) + 1, n)
  <2>1. Brings(s, Len(s) + 1, n)
    BY DEF SteadyObjectOK
  <2>2. Len(s) \in 1..Len(s) /\ Len(t) + 1 = Len(s)
    BY <1>1
  <2>3. Brings(t, Len(s), n)
    BY <2>1, <2>2, BringsTail
  <2> QED BY <2>2, <2>3
<1>4. ASSUME NEW k \in 1..Len(t), t[k].type = "HELLO", NEW n \in (p.seqNum + 1)..t[k].localSeqNum
      PROVE  Brings(t, k, n)
  <2>1. k + 1 \in 1..Len(s) /\ t[k] = s[k + 1] /\ k \in 1..Len(s)
    BY <1>1, TailFacts
  <2>2. Brings(s, k + 1, n)
    BY <1>4, <2>1 DEF SteadyObjectOK
  <2> QED BY <2>1, <2>2, BringsTail
<1> HIDE DEF t
<1> QED BY <1>2, <1>3, <1>4 DEF SteadyObjectOK, t

LEMMA BringsAppend ==
    ASSUME NEW s \in Seq(Messages), NEW m \in Messages, NEW k \in 1..(Len(s) + 1), NEW n, Brings(s, k, n)
    PROVE  Brings(Append(s, m), k, n) /\ Brings(Append(s, m), Len(s) + 2, n)
BY AppendProperties DEF Brings

LEMMA SteadyAppend ==
    ASSUME NEW l \in Seq(Ops), NEW p \in PropObject, NEW s \in Seq(Messages), NEW m \in Messages,
           SteadyObjectOK(l, p, s), StanzaOK(l, m)
    PROVE  SteadyObjectOK(l, p, Append(s, m))
<1> DEFINE t == Append(s, m)
<1>1. /\ Len(s) \in Nat
      /\ Len(t) = Len(s) + 1
      /\ \A k \in 1..Len(s) : t[k] = s[k]
      /\ t[Len(s) + 1] = m
  BY AppendProperties
<1>2. OpsAfter(t, 0, p.seqNum)
  BY OpsAfterAppend DEF SteadyObjectOK, StanzaOK
<1>3. \A n : \A k \in 1..(Len(s) + 1) : Brings(s, k, n) => Brings(t, k, n) /\ Brings(t, Len(s) + 2, n)
  BY BringsAppend
<1> HIDE DEF t
<1>4. \A n \in (p.seqNum + 1)..Len(l) : Brings(t, Len(t) + 1, n)
  BY <1>1, <1>3 DEF SteadyObjectOK
<1>5. ASSUME NEW k \in 1..Len(t), t[k].type = "HELLO", NEW n \in (p.seqNum + 1)..t[k].localSeqNum
      PROVE  Brings(t, k, n)
  <2>1. CASE k \in 1..Len(s)
    BY <1>1, <1>3, <1>5, <2>1 DEF SteadyObjectOK
  <2>2. CASE k = Len(s) + 1
    <3>1. t[k].localSeqNum \in Int /\ p.seqNum \in Int /\ Len(l) \in Nat
      BY <1>1, <1>5, <2>2, MessageFields DEF PropObject
    <3>2. n \in (p.seqNum + 1)..Len(l)
      BY <1>1, <1>5, <2>2, <3>1 DEF StanzaOK
    <3>3. Brings(s, k, n)
      BY <2>2, <3>2 DEF SteadyObjectOK
    <3> QED BY <1>3, <2>2, <3>3
  <2> QED BY <1>1, <2>1, <2>2
<1> QED BY <1>2, <1>4, <1>5 DEF SteadyObjectOK, t

LEMMA SteadyAppendOp ==
    ASSUME NEW l \in Seq(Ops), NEW op \in Ops, NEW p \in PropObject, NEW s \in Seq(Messages), NEW m \in Messages,
           SteadyObjectOK(l, p, s), IsOp(m), m.slot = Len(l) + 1
    PROVE  SteadyObjectOK(Append(l, op), p, Append(s, m))
<1> DEFINE g == Append(l, op)
           t == Append(s, m)
<1>1. /\ Len(s) \in Nat
      /\ Len(t) = Len(s) + 1
      /\ \A k \in 1..Len(s) : t[k] = s[k]
      /\ t[Len(s) + 1] = m
  BY AppendProperties
<1>2. /\ Len(l) \in Nat /\ Len(g) = Len(l) + 1
      /\ \A n \in 1..Len(l) : g[n] = l[n]
  BY AppendProperties
<1>3. p.seqNum \in 0..Len(l) /\ p.seqNum \in 0..Len(g)
  BY <1>2 DEF SteadyObjectOK
<1>4. OpsAfter(t, 0, p.seqNum)
  BY <1>2, <1>3, OpsAfterAppend DEF SteadyObjectOK
<1>5. \A n : \A k \in 1..(Len(s) + 1) : Brings(s, k, n) => Brings(t, k, n) /\ Brings(t, Len(s) + 2, n)
  BY BringsAppend
<1>6. SubSeq(g, 1, p.seqNum) = SubSeq(l, 1, p.seqNum)
  <2>1. l \in Seq(Ops) /\ <<op>> \in Seq(Ops) /\ g = l \o <<op>>
    BY AppendIsConcat
  <2>2. CASE p.seqNum = 0
    BY <2>2, SubSeqEmpty
  <2>3. CASE p.seqNum # 0
    <3>1. p.seqNum \in 1..Len(l) /\ 1 \in 1..Len(l)
      BY <1>2, <1>3, <2>3
    <3> QED BY <2>1, <3>1, SubSeqOfConcat1
  <2> QED BY <2>2, <2>3
<1> HIDE DEF t, g
<1>7. ASSUME NEW n \in (p.seqNum + 1)..Len(g) PROVE Brings(t, Len(t) + 1, n)
  <2>1. CASE n \in (p.seqNum + 1)..Len(l)
    BY <1>1, <1>5, <2>1 DEF SteadyObjectOK
  <2>2. CASE n = Len(l) + 1
    BY <1>1, <2>2 DEF Brings
  <2> QED BY <1>2, <1>3, <1>7, <2>1, <2>2
<1>8. ASSUME NEW k \in 1..Len(t), t[k].type = "HELLO", NEW n \in (p.seqNum + 1)..t[k].localSeqNum
      PROVE  Brings(t, k, n)
  <2>1. k \in 1..Len(s)
    BY <1>1, <1>8 DEF IsOp
  <2> QED BY <1>1, <1>5, <1>8, <2>1 DEF SteadyObjectOK
<1>9. p.clean = SubSeq(g, 1, p.seqNum)
  BY <1>6 DEF SteadyObjectOK
<1> QED BY <1>3, <1>4, <1>7, <1>8, <1>9 DEF SteadyObjectOK, t, g

-----------------------------------------------------------------------------
(* Replicas: what the handlers do.                                         *)

\* The operation at the head of a steady replica's stream is the next one.
LEMMA SteadyNext ==
    ASSUME NEW l \in Seq(Ops), NEW p \in PropObject, NEW s \in Seq(Messages), s # <<>>,
           SteadyObjectOK(l, p, s), StreamOK(l, s), IsOp(Head(s))
    PROVE  /\ p.seqNum + 1 \in 1..Len(l)
           /\ Head(s).slot = p.seqNum + 1
           /\ Head(s).op = l[p.seqNum + 1]
<1>1. 1 \in 1..Len(s) /\ Head(s) = s[1] /\ p.seqNum \in 0..Len(l) /\ Len(l) \in Nat
  BY TailFacts DEF SteadyObjectOK
<1>2. s[1].slot \in 1..Len(l) /\ l[s[1].slot] = s[1].op /\ s[1].slot > p.seqNum
  BY <1>1 DEF StreamOK, OpsPlaced, Placed, SteadyObjectOK, OpsAfter
<1>3. p.seqNum + 1 \in 1..Len(l)
  BY <1>1, <1>2
<1>4. Brings(s, Len(s) + 1, p.seqNum + 1)
  BY <1>3 DEF SteadyObjectOK
<1>5. PICK j \in 1..Len(s) : IsOp(s[j]) /\ s[j].slot = p.seqNum + 1
  BY <1>4 DEF Brings
<1>6. j = 1
  BY <1>1, <1>2, <1>5 DEF StreamOK, OpsInOrder
<1> QED BY <1>1, <1>2, <1>3, <1>5, <1>6

LEMMA SteadyApply ==
    ASSUME NEW l \in Seq(Ops), NEW p \in PropObject, NEW s \in Seq(Messages), s # <<>>, NEW r,
           SteadyObjectOK(l, p, s), StreamOK(l, s), IsOp(Head(s))
    PROVE  SteadyObjectOK(l, HandleReceivedOp(p, r, Head(s)), Tail(s))
<1> DEFINE q == HandleReceivedOp(p, r, Head(s))
           t == Tail(s)
           n == p.seqNum + 1
<1>1. n \in 1..Len(l) /\ Head(s).slot = n /\ Head(s).op = l[n] /\ p.seqNum \in Int
  BY SteadyNext DEF PropObject
<1>2. q.seqNum = n /\ q.clean = Append(p.clean, l[n])
  BY <1>1 DEF HandleReceivedOp, HandleOwnOp, HandleRemoteOp, PropObject
<1>3. Len(s) \in Nat \ {0} /\ Len(t) = Len(s) - 1
  BY TailFacts
<1>4. OpsAfter(t, 0, n)
  BY <1>1, OpsAfterHead DEF StreamOK
<1>5. ASSUME NEW i \in (n + 1)..Len(l) PROVE Brings(t, Len(t) + 1, i)
  <2>1. Brings(s, Len(s) + 1, i)
    BY <1>1 DEF SteadyObjectOK
  <2>2. Len(s) \in 1..Len(s) /\ Len(t) + 1 = Len(s)
    BY <1>3
  <2>3. Brings(t, Len(s), i)
    BY <1>1, <2>1, <2>2, BringsTail
  <2> QED BY <2>2, <2>3
<1>6. ASSUME NEW k \in 1..Len(t), t[k].type = "HELLO", NEW i \in (n + 1)..t[k].localSeqNum
      PROVE  Brings(t, k, i)
  <2>1. k + 1 \in 1..Len(s) /\ t[k] = s[k + 1] /\ k \in 1..Len(s)
    BY <1>3, TailFacts
  <2>2. s[k + 1] \in Messages
    BY <2>1, ElementOfSeq
  <2>3. i \in (p.seqNum + 1)..s[k + 1].localSeqNum
    BY <1>1, <1>6, <2>1, <2>2, MessageFields
  <2>4. Brings(s, k + 1, i)
    BY <1>6, <2>1, <2>3 DEF SteadyObjectOK
  <2>5. Head(s).slot # i
    BY <1>1
  <2> QED BY <2>1, <2>4, <2>5, BringsTail
<1>7. q.clean = SubSeq(l, 1, n)
  <2>1. SubSeq(l, 1, n) = SubSeq(l, 1, p.seqNum) \o <<l[n]>>
    <3>1. 1 \in 1..Len(l) /\ n \in 1..Len(l) /\ n - 1 = p.seqNum
      BY <1>1
    <3> HIDE DEF n
    <3>2. SubSeq(l, 1, n) = SubSeq(l, 1, n - 1) \o <<l[n]>>
      BY <3>1, SubSeqRecursiveSecond
    <3> QED BY <3>1, <3>2
  <2>2. p.clean \in Seq(Ops) /\ l[n] \in Ops
    BY <1>1, ElementOfSeq DEF PropObject
  <2>3. Append(p.clean, l[n]) = p.clean \o <<l[n]>>
    BY <2>2, AppendIsConcat
  <2> QED BY <1>2, <2>1, <2>3 DEF SteadyObjectOK
<1> HIDE DEF q, t
<1>8. q.seqNum \in 0..Len(l)
  BY <1>1, <1>2
<1> QED BY <1>2, <1>4, <1>5, <1>6, <1>7, <1>8 DEF SteadyObjectOK, q, t

\* No HELLO a steady replica receives counts more operations than it has.
LEMMA SteadyNotBehind ==
    ASSUME NEW l \in Seq(Ops), NEW p \in PropObject, NEW s \in Seq(Messages), s # <<>>,
           SteadyObjectOK(l, p, s), Head(s).type = "HELLO"
    PROVE  ~(Head(s).localSeqNum > p.seqNum)
<1> SUFFICES ASSUME Head(s).localSeqNum > p.seqNum PROVE FALSE
  OBVIOUS
<1>1. 1 \in 1..Len(s) /\ Head(s) = s[1] /\ p.seqNum \in Int
  BY TailFacts DEF PropObject
<1>2. s[1].localSeqNum \in Int
  BY <1>1, ElementOfSeq, MessageFields
<1>3. p.seqNum + 1 \in (p.seqNum + 1)..s[1].localSeqNum
  BY <1>1, <1>2
<1>4. Brings(s, 1, p.seqNum + 1)
  BY <1>1, <1>3 DEF SteadyObjectOK
<1> QED BY <1>4 DEF Brings

LEMMA ObjectApply ==
    ASSUME NEW l \in Seq(Ops), NEW p \in PropObject, NEW s \in Seq(Messages), s # <<>>, NEW r,
           ObjectOK(l, p, s), StreamOK(l, s), p.mode = "NORM", IsOp(Head(s))
    PROVE  ObjectOK(l, HandleReceivedOp(p, r, Head(s)), Tail(s))
<1> DEFINE q == HandleReceivedOp(p, r, Head(s))
           t == Tail(s)
<1>1. 1 \in 1..Len(s) /\ Head(s) = s[1]
  BY TailFacts
<1>2. Placed(l, Head(s))
  BY <1>1 DEF StreamOK, OpsPlaced
<1>3. q.seqNum = p.seqNum + 1 /\ q.lastOp = Head(s).op /\ q.mode = "NORM" /\ q.opsSYNC = p.opsSYNC
  BY DEF HandleReceivedOp, HandleOwnOp, HandleRemoteOp, PropObject
<1>4. PICK n \in 0..Len(l) : p.seqNum \in 0..n /\ OpsAfter(s, 0, n)
  BY DEF ObjectOK, Current
<1>5. Head(s).slot > n
  BY <1>1, <1>4 DEF OpsAfter
<1>6. OpsAfter(t, 0, Head(s).slot)
  BY OpsAfterHead DEF StreamOK
<1>7. Current(l, q.lastOp, q.seqNum, t, 0)
  <2>1. Head(s).slot \in 1..Len(l) /\ Len(l) \in Nat
    BY <1>2 DEF Placed
  <2>2. At(l, q.lastOp, Head(s).slot)
    BY <1>2, <1>3, <2>1 DEF Placed, At
  <2>3. q.seqNum \in 0..Head(s).slot
    BY <1>3, <1>4, <1>5, <2>1
  <2> QED BY <1>6, <2>1, <2>2, <2>3 DEF Current
<1>8. BufferOK(l, q.opsSYNC, t)
  BY <1>3, OpsAfterTail DEF ObjectOK, BufferOK
<1> QED BY <1>3, <1>7, <1>8 DEF ObjectOK

LEMMA OneFurther ==
    ASSUME NEW first \in Nat, NEW last \in Nat, NEW next \in Nat, NEW j \in Int, NEW x \in Int, NEW k \in Int,
           k = x + 1, last >= first + (x - j), next > last
    PROVE  next >= first + (k - j)
OBVIOUS

LEMMA ObjectBuffer ==
    ASSUME NEW l \in Seq(Ops), NEW p \in PropObject, NEW s \in Seq(Messages), s # <<>>,
           ObjectOK(l, p, s), StreamOK(l, s), p.mode = "SYNC", IsOp(Head(s))
    PROVE  ObjectOK(l, [p EXCEPT !.opsSYNC = Append(p.opsSYNC, Head(s))], Tail(s))
<1> DEFINE b == p.opsSYNC
           c == Append(b, Head(s))
           t == Tail(s)
           m == Head(s)
<1>1. 1 \in 1..Len(s) /\ m = s[1] /\ m \in OperationMsg /\ b \in Seq(OperationMsg)
  BY TailFacts, HeadTailProperties, MessageKinds DEF IsOp, PropObject
<1>2. /\ Len(b) \in Nat /\ Len(c) = Len(b) + 1
      /\ \A k \in 1..Len(b) : c[k] = b[k]
      /\ c[Len(b) + 1] = m
  BY <1>1, AppendProperties
<1>3. Placed(l, m) /\ OpsAfter(t, 0, m.slot)
  BY <1>1, OpsAfterHead DEF StreamOK, OpsPlaced
<1>4. \A k \in 1..Len(b) : Placed(l, b[k]) /\ OpsAfter(t, 0, b[k].slot) /\ m.slot > b[k].slot
  <2>1. \A k \in 1..Len(b) : Placed(l, b[k]) /\ OpsAfter(s, 0, b[k].slot)
    BY DEF ObjectOK, BufferOK
  <2> QED BY <1>1, <2>1, OpsAfterTail DEF OpsAfter
<1>apart. \A j, k \in 1..Len(b) : j <= k => b[k].slot >= b[j].slot + (k - j)
  BY DEF ObjectOK, BufferOK
<1> HIDE DEF b, c, t, m
<1>5. \A k \in 1..Len(c) : Placed(l, c[k]) /\ OpsAfter(t, 0, c[k].slot)
  BY <1>2, <1>3, <1>4
<1>6. ASSUME NEW j \in 1..Len(c), NEW k \in 1..Len(c), j <= k
      PROVE  c[k].slot >= c[j].slot + (k - j)
  <2>1. \A x \in 1..Len(c) : c[x].slot \in Nat
    BY <1>5 DEF Placed
  <2>2. CASE k \in 1..Len(b)
    <3>1. j \in 1..Len(b)
      BY <1>2, <1>6, <2>2
    <3> QED BY <1>2, <1>6, <1>apart, <2>2, <3>1
  <2>3. CASE k = Len(b) + 1 /\ j = k
    BY <2>1, <2>3
  <2>4. CASE k = Len(b) + 1 /\ j \in 1..Len(b)
    <3> DEFINE x == Len(b)
    <3>1. x \in 1..Len(b) /\ b[x].slot >= b[j].slot + (x - j)
      BY <1>2, <1>apart, <2>4
    <3>2. m.slot > b[x].slot /\ b[x].slot \in Nat /\ b[j].slot \in Nat /\ m.slot \in Nat
      BY <1>3, <1>4, <2>4, <3>1, SMTT(30) DEF Placed
    <3>3. c[k] = m /\ c[j] = b[j]
      BY <1>2, <2>4
    <3>4. x \in Int /\ k \in Int /\ j \in Int /\ k = x + 1
      BY <1>2, <2>4
    <3> HIDE DEF x
    <3>5. m.slot >= b[j].slot + (k - j)
      BY <3>1, <3>2, <3>4, OneFurther
    <3> QED BY <3>3, <3>5
  <2> QED BY <1>2, <1>6, <2>2, <2>3, <2>4
<1> DEFINE q == [p EXCEPT !.opsSYNC = c]
<1>7. q.opsSYNC = c /\ q.mode = "SYNC" /\ q.seqNum = p.seqNum
  BY DEF PropObject
<1> HIDE DEF q
<1>8. BufferOK(l, q.opsSYNC, t)
  BY <1>5, <1>6, <1>7 DEF BufferOK
<1>9. ObjectOK(l, q, t)
  BY <1>7, <1>8 DEF ObjectOK
<1> QED BY <1>9 DEF b, c, t, m, q

\* The buffered operations after the last one of an installed state are those
\* the order has between it and the last one buffered, so that adding them to
\* the state's count stays within the order.
LEMMA AfterPlaces ==
    ASSUME NEW l \in Seq(Ops), NEW max \in Nat, LogOK(l, max), NEW b \in Seq(OperationMsg), NEW s, BufferOK(l, b, s),
           NEW op \in Ops, NEW n \in 0..Len(l), At(l, op, n), After(b, op) # <<>>
    PROVE  /\ Len(b) \in 1..Len(b)
           /\ After(b, op)[Len(After(b, op))] = b[Len(b)]
           /\ n + Len(After(b, op)) <= b[Len(b)].slot
<1> DEFINE k == CHOOSE i \in 1..Len(b) : IsFirst(b, op, i)
           a == After(b, op)
<1>1. \E i \in 1..Len(b) : IsFirst(b, op, i)
  BY DEF After
<1>2. k \in 1..Len(b) /\ IsFirst(b, op, k)
  BY <1>1
<1>3. a = SubSeq(b, k + 1, Len(b))
  BY <1>1 DEF After
<1> HIDE DEF k
<1>4. \A i \in (k + 1)..Len(b) : b[i] \in OperationMsg
  BY <1>2, ElementOfSeq
<1>5. k < Len(b)
  BY <1>2, <1>3, SubSeqEmpty
<1>6. Len(a) = Len(b) - k /\ \A i \in 1..Len(a) : a[i] = b[k + i]
  BY <1>2, <1>3, <1>4, <1>5, SubSeqProperties
<1> HIDE DEF a
<1>7. b[k].op = op /\ Placed(l, b[k]) /\ Placed(l, b[Len(b)])
  BY <1>2, <1>5 DEF IsFirst, BufferOK
<1>8. b[k].slot = n
  <2>1. b[k].slot \in 1..Len(l) /\ l[b[k].slot] = op
    BY <1>7 DEF Placed
  <2>2. op # NoOp
    BY <2>1 DEF LogOK, NoOp
  <2>3. n \in 1..Len(l) /\ l[n] = op
    BY <2>2 DEF At
  <2> QED BY <2>1, <2>3 DEF LogOK
<1>9. b[Len(b)].slot >= b[k].slot + (Len(b) - k)
  BY <1>2, <1>5 DEF BufferOK
<1>10. a[Len(a)] = b[Len(b)]
  <2>1. Len(a) \in 1..Len(a) /\ k + Len(a) = Len(b)
    BY <1>2, <1>5, <1>6
  <2> QED BY <1>6, <2>1
<1> QED BY <1>2, <1>5, <1>6, <1>8, <1>9, <1>10 DEF a

LEMMA InstalledFields ==
    ASSUME NEW p \in PropObject, NEW r, NEW m
    PROVE  LET q == HandleStateSync(p, r, m)
               a == After(p.opsSYNC, m.lastOp)
           IN  /\ q.mode = "NORM" /\ q.opsSYNC = <<>> /\ q.seqNum = m.seqNum + Len(a)
               /\ q.lastOp = IF a = <<>> THEN m.lastOp ELSE a[Len(a)].op
BY DEF HandleStateSync, ExitSYNCMode, PropObject

LEMMA ObjectInstall ==
    ASSUME NEW l \in Seq(Ops), NEW max \in Nat, LogOK(l, max),
           NEW p \in PropObject, NEW s \in Seq(Messages), s # <<>>, NEW r,
           ObjectOK(l, p, s), StreamOK(l, s), Head(s).type = "STATE_SYNC"
    PROVE  ObjectOK(l, HandleStateSync(p, r, Head(s)), Tail(s))
<1> DEFINE m == Head(s)
           t == Tail(s)
           b == p.opsSYNC
           a == After(b, m.lastOp)
           q == HandleStateSync(p, r, m)
<1>1. 1 \in 1..Len(s) /\ m = s[1] /\ m \in StateMsg /\ b \in Seq(OperationMsg)
  BY TailFacts, HeadTailProperties, MessageKinds DEF PropObject
<1>2. a \in Seq(OperationMsg) /\ m.seqNum \in Int /\ m.lastOp \in Ops
  BY <1>1, AfterType DEF StateMsg
<1>3. /\ q.mode = "NORM" /\ q.opsSYNC = <<>> /\ q.seqNum = m.seqNum + Len(a)
      /\ q.lastOp = IF a = <<>> THEN m.lastOp ELSE a[Len(a)].op
  BY InstalledFields
<1>4. PICK n \in 0..Len(l) : At(l, m.lastOp, n) /\ m.seqNum \in 0..n /\ OpsAfter(s, 1, n)
  <2>1. Current(l, m.lastOp, m.seqNum, s, 1)
    BY <1>1 DEF StreamOK, StatesCurrent
  <2> QED BY <2>1 DEF Current
<1>5. OpsAfter(t, 0, n)
  BY <1>4, OpsAfterTail
<1>6. BufferOK(l, b, s)
  BY DEF ObjectOK
<1> HIDE DEF m, t, b, a, q
<1>7. CASE a = <<>>
  <2>1. q.seqNum = m.seqNum /\ q.lastOp = m.lastOp
    BY <1>2, <1>3, <1>7
  <2>2. Current(l, q.lastOp, q.seqNum, t, 0)
    BY <1>4, <1>5, <2>1 DEF Current
  <2>3. BufferOK(l, q.opsSYNC, t)
    BY <1>3 DEF BufferOK
  <2> QED BY <1>3, <2>2, <2>3 DEF ObjectOK, q, t, m
<1>8. CASE a # <<>>
  <2> DEFINE x == b[Len(b)]
  <2>1. /\ Len(b) \in 1..Len(b) /\ a[Len(a)] = x
        /\ n + Len(a) <= x.slot
    BY <1>1, <1>2, <1>4, <1>6, <1>8, AfterPlaces DEF a
  <2>2. Placed(l, x) /\ OpsAfter(s, 0, x.slot)
    BY <1>6, <2>1 DEF BufferOK
  <2>3. x.slot \in 1..Len(l) /\ l[x.slot] = x.op
    BY <2>2 DEF Placed
  <2>4. OpsAfter(t, 0, x.slot)
    BY <2>2, OpsAfterTail DEF t
  <2>5. q.lastOp = x.op /\ q.seqNum = m.seqNum + Len(a)
    BY <1>3, <1>8, <2>1
  <2>6. Len(a) \in Nat /\ Len(l) \in Nat
    BY <1>2
  <2> HIDE DEF x
  <2>7. q.seqNum \in 0..x.slot
    BY <1>4, <2>1, <2>3, <2>5, <2>6, SMTT(30)
  <2>8. At(l, q.lastOp, x.slot) /\ x.slot \in 0..Len(l)
    BY <2>3, <2>5, <2>6 DEF At
  <2>9. Current(l, q.lastOp, q.seqNum, t, 0)
    BY <2>4, <2>7, <2>8 DEF Current
  <2>10. BufferOK(l, q.opsSYNC, t)
    BY <1>3 DEF BufferOK
  <2> QED BY <1>3, <2>9, <2>10 DEF ObjectOK, q, t, m
<1> QED BY <1>7, <1>8

\* Whoever enters takes what is replayed for the beginning.
LEMMA ObjectFresh ==
    ASSUME NEW l \in Seq(Ops), NEW p \in PropObject, Fresh(p), NEW s, StreamOK(l, s)
    PROVE  ObjectOK(l, p, s)
<1>1. Len(l) \in Nat /\ 0 \in 0..Len(l) /\ At(l, NoOp, 0)
  BY DEF At
<1>2. OpsAfter(s, 0, 0)
  BY DEF StreamOK, OpsPlaced, Placed, OpsAfter
<1>3. Current(l, p.lastOp, p.seqNum, s, 0)
  BY <1>1, <1>2 DEF Fresh, Current
<1>4. BufferOK(l, p.opsSYNC, s)
  BY EmptySeq DEF Fresh, BufferOK
<1> QED BY <1>3, <1>4 DEF Fresh, ObjectOK

LEMMA ObjectEnter ==
    ASSUME NEW l, NEW p \in PropObject, NEW id, NEW s
    PROVE  ObjectOK(l, EnterSYNCMode(p, id), s)
BY DEF ObjectOK, BufferOK, EnterSYNCMode, PropObject

-----------------------------------------------------------------------------
(* The room: what a stanza sent leaves true of every replica.              *)

\* A box is what inbox becomes once the stanza being handled is taken.
BoxOK(box) ==
    /\ box \in Boxes
    /\ \A q \in Replicas : StreamOK(log, box[q])

\* What every replica and every steady one had from its stream of box it has
\* from its stream of next.
Carries(box, next) ==
    \A q \in Replicas :
        /\ StreamOK(log, next[q])
        /\ \A n : OpsAfter(box[q], 0, n) => OpsAfter(next[q], 0, n)
        /\ \A p \in PropObject : SteadyObjectOK(log, p, box[q]) => SteadyObjectOK(log, p, next[q])
        /\ status[q] = "out" => next[q] = box[q]

LEMMA OneStanza ==
    ASSUME TypeOK, NEW box, BoxOK(box), NEW m \in Messages, StanzaOK(log, m), NEW next,
           \A q \in Replicas : next[q] = box[q] \/ (Occupant(q) /\ next[q] = Append(box[q], m))
    PROVE  Carries(box, next)
<1>1. ASSUME NEW q \in Replicas PROVE box[q] \in Seq(Messages) /\ StreamOK(log, box[q])
  BY DEF BoxOK, Boxes
<1>2. log \in Seq(Ops) /\ ~IsOp(m)
  BY DEF TypeOK, StanzaOK
<1>3. ASSUME NEW q \in Replicas
      PROVE  /\ StreamOK(log, next[q])
             /\ \A n : OpsAfter(box[q], 0, n) => OpsAfter(next[q], 0, n)
             /\ \A p \in PropObject : SteadyObjectOK(log, p, box[q]) => SteadyObjectOK(log, p, next[q])
             /\ status[q] = "out" => next[q] = box[q]
  <2>1. CASE next[q] = box[q]
    BY <1>1, <2>1
  <2>2. CASE Occupant(q) /\ next[q] = Append(box[q], m)
    <3>1. status[q] # "out"
      BY <2>2 DEF Occupant
    <3> QED BY <1>1, <1>2, <2>2, <3>1, StreamAppend, OpsAfterAppend, SteadyAppend
  <2> QED BY <2>1, <2>2
<1> QED BY <1>3 DEF Carries

\* What the server replays after a groupchat stanza.
LEMMA HistoryShape ==
    ASSUME TypeOK, HistoryOK, NEW r, NEW box, NEW m, Multicast(r, box, m)
    PROVE  \/ history' = history
           \/ /\ Occupant(r) /\ HistoryLen # 0
              /\ \E h \in Seq(Messages) :
                    /\ history' = Append(h, m) /\ StreamOK(log, h) /\ NoState(h)
                    /\ \A k \in 1..Len(h) : \E i \in 1..Len(history) : h[k] = history[i]
<1>1. history \in Seq(Messages) /\ log \in Seq(Ops) /\ StreamOK(log, history) /\ NoState(history)
  BY DEF TypeOK, HistoryOK
<1>2. CASE ~Occupant(r) \/ HistoryLen = 0
  BY <1>2 DEF Multicast
<1>3. CASE Occupant(r) /\ HistoryLen # 0 /\ Len(history) # HistoryLen
  <2>1. history' = Append(history, m)
    BY <1>3 DEF Multicast
  <2>2. \A k \in 1..Len(history) : \E i \in 1..Len(history) : history[k] = history[i]
    OBVIOUS
  <2> QED BY <1>1, <1>3, <2>1, <2>2
<1>4. CASE Occupant(r) /\ HistoryLen # 0 /\ Len(history) = HistoryLen
  <2> DEFINE h == Tail(history)
  <2>1. history' = Append(h, m)
    BY <1>4 DEF Multicast
  <2>2. history # <<>>
    BY <1>1, <1>4, EmptySeq
  <2>3. /\ h \in Seq(Messages) /\ Len(history) \in Nat /\ Len(h) = Len(history) - 1
        /\ \A k \in 1..(Len(history) - 1) : h[k] = history[k + 1]
    BY <1>1, <2>2, HeadTailProperties
  <2>4. StreamOK(log, h)
    BY <1>1, <2>2, StreamTail
  <2> HIDE DEF h
  <2>5. \A k \in 1..Len(h) : k + 1 \in 1..Len(history) /\ h[k] = history[k + 1]
    BY <2>3
  <2>6. NoState(h) /\ \A k \in 1..Len(h) : \E i \in 1..Len(history) : h[k] = history[i]
    BY <1>1, <2>5 DEF NoState
  <2> QED BY <1>4, <2>1, <2>3, <2>4, <2>6
<1> QED BY <1>2, <1>3, <1>4

LEMMA NoStateAppend ==
    ASSUME NEW h \in Seq(Messages), NoState(h), NEW m \in Messages, m.type # "STATE_SYNC"
    PROVE  NoState(Append(h, m))
<1>1. /\ Len(h) \in Nat /\ Len(Append(h, m)) = Len(h) + 1 /\ Append(h, m)[Len(h) + 1] = m
      /\ \A k \in 1..Len(h) : Append(h, m)[k] = h[k]
  BY AppendProperties
<1>2. ASSUME NEW k \in 1..Len(Append(h, m)) PROVE k \in 1..Len(h) \/ k = Len(h) + 1
  BY <1>1
<1> QED BY <1>1, <1>2 DEF NoState

LEMMA MulticastKeeps ==
    ASSUME TypeOK, OrderInvariant, log' = log, NEW r \in Replicas, NEW box, BoxOK(box), NEW m \in Messages,
           StanzaOK(log, m), m.type # "STATE_SYNC", Multicast(r, box, m)
    PROVE  HistoryOK' /\ Carries(box, inbox')
<1>1. \A q \in Replicas : inbox'[q] = box[q] \/ (Occupant(q) /\ inbox'[q] = Append(box[q], m))
  BY DEF Multicast
<1>2. HistoryOK /\ log \in Seq(Ops)
  BY DEF OrderInvariant, TypeOK
<1>3. HistoryOK'
  <2>1. CASE history' = history
    BY <1>2, <2>1 DEF HistoryOK
  <2>2. ASSUME HistoryLen # 0, NEW h \in Seq(Messages), history' = Append(h, m), StreamOK(log, h), NoState(h)
        PROVE  HistoryOK'
    <3>1. StreamOK(log, history') /\ NoState(history')
      BY <1>2, <2>2, StreamAppend, NoStateAppend
    <3> QED BY <2>2, <3>1 DEF HistoryOK
  <2> HIDE DEF Multicast
  <2> QED BY <1>2, <2>1, <2>2, HistoryShape
<1> HIDE DEF Multicast
<1>4. Carries(box, inbox')
  BY <1>1, OneStanza
<1> QED BY <1>3, <1>4

LEMMA UnicastKeeps ==
    ASSUME TypeOK, NEW r \in Replicas, NEW to \in Replicas, NEW box, BoxOK(box), NEW m \in Messages, StanzaOK(log, m),
           Unicast(r, box, to, m)
    PROVE  history' = history /\ Carries(box, inbox')
<1>1. \A q \in Replicas : inbox'[q] = box[q] \/ (Occupant(q) /\ inbox'[q] = Append(box[q], m))
  BY DEF Unicast, BoxOK, Boxes
<1>2. Carries(box, inbox')
  BY <1>1, OneStanza
<1> QED BY <1>2 DEF Unicast

LEMMA NothingSent ==
    ASSUME NEW box, BoxOK(box)
    PROVE  Carries(box, box)
BY DEF Carries, BoxOK

LEMMA InvariantBoxes ==
    ASSUME TypeOK, OrderInvariant
    PROVE  /\ BoxOK(inbox)
           /\ \A r \in Replicas : inbox[r] # <<>> => BoxOK(Rest(r)) /\ Rest(r)[r] = Tail(inbox[r])
<1>1. BoxOK(inbox)
  BY DEF TypeOK, Boxes, BoxOK, OrderInvariant, ReplicaOK
<1>2. ASSUME NEW r \in Replicas, inbox[r] # <<>>
      PROVE  BoxOK(Rest(r)) /\ Rest(r)[r] = Tail(inbox[r])
  <2>1. Rest(r) \in Boxes
    BY <1>1, <1>2, TakenType DEF BoxOK, Rest
  <2>2. inbox[r] \in Seq(Messages) /\ log \in Seq(Ops)
    BY DEF TypeOK
  <2>3. StreamOK(log, Tail(inbox[r]))
    BY <1>1, <1>2, <2>2, StreamTail DEF BoxOK
  <2>4. \A q \in Replicas : Rest(r)[q] = IF q = r THEN Tail(inbox[r]) ELSE inbox[q]
    BY DEF TypeOK, Rest
  <2> QED BY <1>1, <2>1, <2>3, <2>4 DEF BoxOK
<1> QED BY <1>1, <1>2

-----------------------------------------------------------------------------
(* The invariant, put together again after a step.                         *)

\* A step that leaves the order alone and disturbs some replicas.
LEMMA Reassemble ==
    ASSUME OrderInvariant, log' = log, issued' = issued, history' = history \/ HistoryOK',
           \A q \in Replicas :
               \/ inbox'[q] = inbox[q] /\ prop'[q] = prop[q] /\ status'[q] = status[q]
               \/ ReplicaOK(q)' /\ (q \in Steady => SteadyOK(q)')
    PROVE  OrderInvariant'
<1>1. LogOK(log, issued)' /\ HistoryOK'
  BY DEF OrderInvariant, LogOK, HistoryOK
<1>2. ASSUME NEW q \in Replicas PROVE ReplicaOK(q)' /\ (q \in Steady => SteadyOK(q)')
  BY <1>2 DEF OrderInvariant, ReplicaOK, SteadyOK
<1>3. Steady \subseteq Replicas
  BY ReplicasAssumption DEF Steady
<1> QED BY <1>1, <1>2, <1>3 DEF OrderInvariant

\* A replica takes the first stanza of its stream and becomes p.
LEMMA HandlingKeeps ==
    ASSUME TypeOK, OrderInvariant, NEW r \in Replicas, NEW p \in PropObject,
           inbox[r] # <<>>, prop' = [prop EXCEPT ![r] = p],
           status' = status, log' = log, issued' = issued, history' = history \/ HistoryOK',
           Carries(Rest(r), inbox'),
           ObjectOK(log, p, Tail(inbox[r])),
           r \in Steady => p.mode = "NORM" /\ (status[r] = "in" => SteadyObjectOK(log, p, Tail(inbox[r])))
    PROVE  OrderInvariant'
<1>1. ASSUME NEW q \in Replicas PROVE ReplicaOK(q)' /\ (q \in Steady => SteadyOK(q)')
  <2>1. /\ prop[q] \in PropObject /\ log \in Seq(Ops)
        /\ prop'[q] = IF q = r THEN p ELSE prop[q]
        /\ Rest(r)[q] = IF q = r THEN Tail(inbox[r]) ELSE inbox[q]
    BY DEF TypeOK, Rest
  <2>2. ObjectOK(log, prop'[q], Rest(r)[q])
    BY <2>1 DEF OrderInvariant, ReplicaOK
  <2>3. /\ StreamOK(log, inbox'[q])
        /\ \A n : OpsAfter(Rest(r)[q], 0, n) => OpsAfter(inbox'[q], 0, n)
        /\ \A x \in PropObject : SteadyObjectOK(log, x, Rest(r)[q]) => SteadyObjectOK(log, x, inbox'[q])
        /\ status[q] = "out" => inbox'[q] = Rest(r)[q]
    BY DEF Carries
  <2>4. prop'[q] \in PropObject
    BY <2>1
  <2>5. ObjectOK(log, prop'[q], inbox'[q])
    BY <2>1, <2>2, <2>3, <2>4, ObjectKept
  <2>6. /\ status'[q] = "out" => inbox'[q] = <<>> /\ Fresh(prop'[q])
        /\ status'[q] = "cut" => MaxLosses # 0
    BY <2>1, <2>3 DEF OrderInvariant, ReplicaOK
  <2>7. q \in Steady => SteadyOK(q)'
    BY <2>1, <2>3, <2>4 DEF OrderInvariant, SteadyOK
  <2> QED BY <2>3, <2>5, <2>6, <2>7 DEF ReplicaOK
<1> QED BY <1>1, Reassemble

\* A step that takes no stanza and changes no field the invariant speaks of.
LEMMA SendingKeeps ==
    ASSUME TypeOK, OrderInvariant, TypeOK',
           status' = status, log' = log, issued' = issued, history' = history \/ HistoryOK',
           Carries(inbox, inbox'),
           \A q \in Replicas :
               /\ prop'[q].opsSYNC = prop[q].opsSYNC /\ prop'[q].mode = prop[q].mode
               /\ prop'[q].lastOp = prop[q].lastOp /\ prop'[q].seqNum = prop[q].seqNum
               /\ prop'[q].clean = prop[q].clean
    PROVE  OrderInvariant'
<1>1. ASSUME NEW q \in Replicas PROVE ReplicaOK(q)' /\ (q \in Steady => SteadyOK(q)')
  <2>1. prop[q] \in PropObject /\ prop'[q] \in PropObject /\ log \in Seq(Ops)
    BY DEF TypeOK
  <2>2. /\ StreamOK(log, inbox'[q])
        /\ \A n : OpsAfter(inbox[q], 0, n) => OpsAfter(inbox'[q], 0, n)
        /\ \A x \in PropObject : SteadyObjectOK(log, x, inbox[q]) => SteadyObjectOK(log, x, inbox'[q])
        /\ status[q] = "out" => inbox'[q] = inbox[q]
    BY DEF Carries
  <2>3. ObjectOK(log, prop[q], inbox'[q])
    BY <2>1, <2>2, ObjectKept DEF OrderInvariant, ReplicaOK
  <2>4. ObjectOK(log, prop'[q], inbox'[q]) /\ (Fresh(prop[q]) => Fresh(prop'[q]))
    BY <2>3, ObjectFields DEF Fresh
  <2>5. ReplicaOK(q)'
    BY <2>2, <2>4 DEF OrderInvariant, ReplicaOK
  <2>6. ASSUME q \in Steady PROVE SteadyOK(q)'
    <3>1. SteadyOK(q)
      BY <2>6 DEF OrderInvariant
    <3>2. status[q] = "in" => SteadyObjectOK(log, prop[q], inbox'[q])
      BY <2>1, <2>2, <3>1 DEF SteadyOK
    <3>3. status[q] = "in" => SteadyObjectOK(log, prop'[q], inbox'[q])
      BY <3>2, SteadyFields
    <3> QED BY <3>1, <3>3 DEF SteadyOK
  <2> QED BY <2>5, <2>6
<1> QED BY <1>1, Reassemble

-----------------------------------------------------------------------------
(* One lemma per group of actions.                                         *)

LEMMA OrderInit ==
    ASSUME Init
    PROVE  OrderInvariant
<1>1. LogOK(log, issued) /\ history = <<>>
  BY DEF Init, LogOK
<1>2. log \in Seq(Ops) /\ Len(log) = 0 /\ 0 \in 0..Len(log)
  BY EmptySeq DEF Init
<1>6. HistoryOK
  <2>1. StreamOK(log, history)
    BY <1>1, <1>2, StreamEmpty
  <2>2. 1..Len(history) = {}
    BY <1>1, EmptySeq
  <2> QED BY <1>1, <2>1, <2>2 DEF HistoryOK, NoState
<1>3. ASSUME NEW r \in Replicas
      PROVE  /\ inbox[r] = <<>> /\ prop[r].opsSYNC = <<>> /\ prop[r].mode = "NORM"
             /\ prop[r].lastOp = NoOp /\ prop[r].seqNum = 0 /\ prop[r].clean = <<>>
  BY DEF Init, InitProp
<1>4. ASSUME NEW r \in Replicas PROVE ReplicaOK(r)
  <2>1. StreamOK(log, inbox[r]) /\ OpsAfter(inbox[r], 0, 0)
    BY <1>2, <1>3, StreamEmpty
  <2>2. BufferOK(log, prop[r].opsSYNC, inbox[r])
    BY <1>3 DEF BufferOK
  <2>3. Current(log, prop[r].lastOp, prop[r].seqNum, inbox[r], 0)
    BY <1>2, <1>3, <2>1 DEF Current, At
  <2>4. status[r] # "cut"
    BY DEF Init
  <2> QED BY <1>3, <2>1, <2>2, <2>3, <2>4 DEF ReplicaOK, ObjectOK, Fresh
<1>5. ASSUME NEW r \in Steady PROVE SteadyOK(r)
  <2>1. r \in Replicas /\ status[r] = "in"
    BY ReplicasAssumption DEF Init, Steady
  <2>2. SteadyObjectOK(log, prop[r], inbox[r])
    <3>1. inbox[r] = <<>> /\ prop[r].seqNum = 0 /\ prop[r].clean = <<>>
      BY <1>3, <2>1
    <3>2. SubSeq(log, 1, prop[r].seqNum) = <<>>
      BY <1>2, <3>1, SubSeqEmpty
    <3>3. Len(inbox[r]) = 0 /\ 1..Len(inbox[r]) = {} /\ (prop[r].seqNum + 1)..Len(log) = {}
      BY <1>2, <3>1, EmptySeq
    <3> QED BY <1>2, <3>1, <3>2, <3>3 DEF SteadyObjectOK, OpsAfter
  <2> QED BY <1>3, <2>1, <2>2 DEF SteadyOK
<1> QED BY <1>1, <1>4, <1>5, <1>6 DEF OrderInvariant

LEMMA SteadyReplicas == Steady \subseteq Replicas /\ Steady \cap Churn = {}
BY ReplicasAssumption DEF Steady

\* An operation enters the order and every stream at once.
LEMMA OrderApplication ==
    ASSUME TypeOK, TypeOK', OrderInvariant, NEW r \in Replicas, AddOperation(r)
    PROVE  OrderInvariant'
<1> DEFINE op == issued + 1
           m == StateOperation(r, op, Len(log) + 1)
<1>1. op \in Ops /\ issued \in Nat /\ issued' = op /\ Len(log) + 1 \in Nat
  BY BoundsAssumption DEF AddOperation, TypeOK, Ops
<1>2. m \in Messages /\ IsOp(m) /\ m.op = op /\ m.slot = Len(log) + 1
  BY <1>1, BuiltMessages DEF StateOperation, IsOp
<1>3. /\ Multicast(r, inbox, m)
      /\ \A q \in Replicas :
            inbox'[q] = IF Occupant(r) /\ Occupant(q) THEN Append(inbox[q], m) ELSE inbox[q]
  BY DEF AddOperation, Multicast, TypeOK
<1>4. /\ log' = IF Occupant(r) THEN Append(log, op) ELSE log
      /\ status' = status
  BY DEF AddOperation
<1>5. ASSUME NEW q \in Replicas
      PROVE  /\ prop[q] \in PropObject /\ prop'[q] \in PropObject
             /\ prop'[q].opsSYNC = prop[q].opsSYNC /\ prop'[q].mode = prop[q].mode
             /\ prop'[q].lastOp = prop[q].lastOp /\ prop'[q].seqNum = prop[q].seqNum
             /\ prop'[q].clean = prop[q].clean
  <2>1. prop[q] \in PropObject /\ prop'[q] \in PropObject
    BY DEF TypeOK
  <2>2. CASE q = r
    <3>1. prop' = [prop EXCEPT ![r].state = Append(@, op), ![r].pending = Append(@, op)]
      BY DEF AddOperation
    <3>2. prop \in [Replicas -> PropObject]
      BY DEF TypeOK
    <3>3. prop'[r] = [prop[r] EXCEPT !.state = Append(@, op), !.pending = Append(@, op)]
      BY <3>1, <3>2
    <3> HIDE DEF op
    <3> QED BY <2>1, <2>2, <3>3 DEF PropObject
  <2>3. CASE q # r
    <3>1. prop' = [prop EXCEPT ![r].state = Append(@, op), ![r].pending = Append(@, op)]
      BY DEF AddOperation
    <3>2. prop'[q] = prop[q]
      BY <2>3, <3>1 DEF TypeOK
    <3> QED BY <2>1, <3>2
  <2> QED BY <2>2, <2>3
<1>6. /\ log \in Seq(Ops) /\ Len(log) \in Nat
      /\ \A q \in Replicas : inbox[q] \in Seq(Messages)
  BY DEF TypeOK
<1> HIDE DEF m, op
<1>7. LogOK(log', issued')
  <2>1. LogOK(log, issued)
    BY DEF OrderInvariant
  <2>2. CASE Occupant(r)
    <3> DEFINE g == Append(log, op)
    <3>1. Len(g) = Len(log) + 1 /\ g[Len(log) + 1] = op /\ \A n \in 1..Len(log) : g[n] = log[n]
      BY <1>1, <1>6, AppendProperties
    <3>2. \A n \in 1..Len(log) : log[n] \in 1..issued /\ log[n] \in Nat
      BY <1>6, <2>1 DEF LogOK
    <3>3. op = issued + 1
      BY DEF op
    <3> HIDE DEF g
    <3>4. \A i \in 1..Len(g) : g[i] \in 1..op
      BY <1>1, <1>6, <3>1, <3>2, <3>3
    <3>5. \A i, j \in 1..Len(g) : g[i] = g[j] => i = j
      <4> SUFFICES ASSUME NEW i \in 1..Len(g), NEW j \in 1..Len(g), g[i] = g[j] PROVE i = j
        OBVIOUS
      <4>1. CASE i \in 1..Len(log) /\ j \in 1..Len(log)
        BY <2>1, <3>1, <4>1 DEF LogOK
      <4>2. CASE i = Len(log) + 1 \/ j = Len(log) + 1
        BY <1>1, <1>6, <3>1, <3>2, <3>3, <4>2
      <4> QED BY <1>6, <3>1, <4>1, <4>2
    <3> QED BY <1>1, <1>4, <2>2, <3>4, <3>5 DEF LogOK, g
  <2>3. CASE ~Occupant(r)
    <3>1. log' = log /\ op = issued + 1
      BY <1>4, <2>3 DEF op
    <3>2. \A i \in 1..Len(log) : log[i] \in 1..issued'
      BY <1>1, <2>1, <3>1 DEF LogOK
    <3> QED BY <2>1, <3>1, <3>2 DEF LogOK
  <2> QED BY <2>2, <2>3
<1>8. ASSUME NEW q \in Replicas PROVE ReplicaOK(q)'
  <2>1. /\ StreamOK(log, inbox[q]) /\ ObjectOK(log, prop[q], inbox[q])
        /\ status[q] = "out" => inbox[q] = <<>> /\ Fresh(prop'[q])
        /\ status'[q] = "cut" => MaxLosses # 0
    BY <1>4, <1>5 DEF OrderInvariant, ReplicaOK, Fresh
  <2>2. CASE ~Occupant(r)
    <3>1. ObjectOK(log, prop'[q], inbox[q])
      BY <1>5, <2>1, ObjectFields
    <3> QED BY <1>3, <1>4, <2>1, <2>2, <3>1 DEF ReplicaOK
  <2>3. CASE Occupant(r)
    <3>1. ObjectOK(log', prop[q], inbox[q]) /\ StreamOK(log', inbox[q]) /\ log' \in Seq(Ops)
      BY <1>1, <1>4, <1>5, <1>6, <2>1, <2>3, ObjectGrow, StreamGrow DEF TypeOK
    <3>2. CASE Occupant(q)
      <4>1. inbox'[q] = Append(inbox[q], m)
        BY <1>3, <2>3, <3>2
      <4>2. StreamOK(log', inbox'[q])
        BY <1>1, <1>2, <1>4, <1>6, <2>1, <2>3, <4>1, StreamAppendOp
      <4>3. \A n \in 0..Len(log) : OpsAfter(inbox[q], 0, n) => OpsAfter(inbox'[q], 0, n)
        BY <1>2, <1>6, <4>1, OpsAfterAppend
      <4>4. ObjectOK(log, prop[q], inbox'[q])
        BY <1>5, <1>6, <2>1, <4>3, ObjectKept
      <4>5. ObjectOK(log', prop'[q], inbox'[q])
        <5>1. ObjectOK(log', prop[q], inbox'[q])
          BY <1>1, <1>4, <1>5, <1>6, <2>3, <4>4, ObjectGrow
        <5> QED BY <1>5, <5>1, ObjectFields
      <4>6. status'[q] # "out"
        BY <1>4, <3>2 DEF Occupant
      <4> QED BY <2>1, <4>2, <4>5, <4>6 DEF ReplicaOK
    <3>3. CASE ~Occupant(q)
      <4>1. ObjectOK(log', prop'[q], inbox[q])
        BY <1>5, <3>1, ObjectFields
      <4> QED BY <1>3, <1>4, <2>1, <3>1, <3>3, <4>1 DEF ReplicaOK
    <3> QED BY <3>2, <3>3
  <2> QED BY <2>2, <2>3
<1>9. ASSUME NEW q \in Steady PROVE SteadyOK(q)'
  <2>1. q \in Replicas /\ SteadyOK(q)
    BY SteadyReplicas DEF OrderInvariant
  <2>2. ASSUME status[q] = "in" PROVE SteadyObjectOK(log', prop'[q], inbox'[q])
    <3>1. SteadyObjectOK(log, prop[q], inbox[q]) /\ Occupant(q)
      BY <2>1, <2>2 DEF SteadyOK, Occupant
    <3>2. CASE Occupant(r)
      <4>1. inbox'[q] = Append(inbox[q], m) /\ log' = Append(log, op)
        BY <1>3, <1>4, <2>1, <3>1, <3>2
      <4>2. SteadyObjectOK(log', prop[q], inbox'[q])
        BY <1>1, <1>2, <1>5, <1>6, <2>1, <3>1, <4>1, SteadyAppendOp
      <4> QED BY <1>5, <2>1, <4>2, SteadyFields
    <3>3. CASE ~Occupant(r)
      BY <1>3, <1>4, <1>5, <2>1, <3>1, <3>3, SteadyFields
    <3> QED BY <3>2, <3>3
  <2> QED BY <1>4, <1>5, <2>1, <2>2 DEF SteadyOK
<1>10. HistoryOK'
  <2>1. HistoryOK
    BY DEF OrderInvariant
  <2>2. CASE history' = history
    <3>1. StreamOK(log, history') /\ history' \in Seq(Messages)
      BY <2>1, <2>2 DEF HistoryOK, TypeOK
    <3>2. StreamOK(log', history')
      BY <1>1, <1>4, <1>6, <3>1, StreamGrow
    <3> QED BY <2>1, <2>2, <3>2 DEF HistoryOK
  <2>3. ASSUME Occupant(r), HistoryLen # 0, NEW h \in Seq(Messages), history' = Append(h, m), StreamOK(log, h),
               NoState(h)
        PROVE  HistoryOK'
    <3>1. StreamOK(log', history')
      BY <1>1, <1>2, <1>4, <1>6, <2>3, StreamAppendOp
    <3>2. NoState(history')
      BY <1>2, <2>3, NoStateAppend DEF IsOp
    <3> QED BY <2>3, <3>1, <3>2 DEF HistoryOK
  <2> QED BY <1>3, <2>1, <2>2, <2>3, HistoryShape
<1> QED BY <1>7, <1>8, <1>9, <1>10 DEF OrderInvariant

\* No sequence number is beyond the order.
LEMMA SeqNumBounded ==
    ASSUME TypeOK, OrderInvariant, NEW r \in Replicas
    PROVE  prop[r].seqNum <= Len(log)
<1>1. prop[r] \in PropObject /\ ObjectOK(log, prop[r], inbox[r]) /\ Len(log) \in Nat
  BY DEF TypeOK, OrderInvariant, ReplicaOK
<1>2. CASE prop[r].mode = "NORM"
  BY <1>1, <1>2 DEF ObjectOK, Current
<1>3. CASE prop[r].mode = "SYNC"
  BY <1>1, <1>3 DEF ObjectOK
<1> QED BY <1>1, <1>2, <1>3 DEF PropObject

\* HELLO and the requests of a round ask nothing of the streams they enter.
LEMMA TimerStanzas ==
    ASSUME TypeOK, OrderInvariant, NEW r \in Replicas
    PROVE  /\ StanzaOK(log, Hello(r))
           /\ \A id : \A type \in {"WHO_HAS_STATE", "I_HAVE_STATE", "SEND_ME_STATE"} :
                 StanzaOK(log, SyncRequest(type, r, id))
<1>1. StanzaOK(log, Hello(r))
  BY SeqNumBounded DEF StanzaOK, Hello, IsOp
<1> QED BY <1>1 DEF StanzaOK, SyncRequest, IsOp

LEMMA OrderTimer ==
    ASSUME TypeOK, TypeOK', OrderInvariant, NEW r \in Replicas, Timer(r)
    PROVE  OrderInvariant'
<1>1. BoxOK(inbox)
  BY InvariantBoxes
<1>2. CASE PeriodicTask(r)
  <2>1. Carries(inbox, inbox')
    BY <1>1, <1>2, NothingSent DEF PeriodicTask
  <2> QED BY <1>2, <2>1, SendingKeeps DEF PeriodicTask
<1>3. CASE SendHello(r)
  <2>1. Hello(r) \in Messages /\ StanzaOK(log, Hello(r)) /\ Hello(r).type # "STATE_SYNC"
    BY BuiltMessages, TimerStanzas DEF Hello
  <2>2. Multicast(r, inbox, Hello(r)) /\ log' = log
    BY <1>3 DEF SendHello
  <2>3. HistoryOK' /\ Carries(inbox, inbox')
    BY <1>1, <2>1, <2>2, MulticastKeeps
  <2> QED BY <1>3, <2>3, SendingKeeps DEF SendHello
<1>4. CASE BroadcastSyncRequest(r)
  <2> DEFINE m == SyncRequest("WHO_HAS_STATE", r, prop[r].syncId)
  <2>1. m \in Messages /\ StanzaOK(log, m) /\ m.type # "STATE_SYNC"
    <3>1. prop[r].syncId \in SyncIds \cup {NoSync}
      BY DEF TypeOK, PropObject
    <3> QED BY <3>1, BuiltMessages, TimerStanzas DEF SyncRequest
  <2>2. Multicast(r, inbox, m) /\ log' = log
    BY <1>4 DEF BroadcastSyncRequest
  <2> HIDE DEF m
  <2>3. HistoryOK' /\ Carries(inbox, inbox')
    BY <1>1, <2>1, <2>2, MulticastKeeps
  <2> QED BY <1>4, <2>3, SendingKeeps DEF BroadcastSyncRequest
<1> QED BY <1>2, <1>3, <1>4 DEF Timer

LEMMA OrderHandling ==
    ASSUME TypeOK, TypeOK', OrderInvariant, NEW r \in Replicas, HandleMessage(r)
    PROVE  OrderInvariant'
<1> DEFINE m == Head(inbox[r])
<1>1. inbox[r] # <<>>
  BY DEF HandleMessage, ApplyOperation, RaiseOnConflict, AnswerSendMeState, AnswerWhoHasState, EnterSync,
         BufferOperation, AcceptIHaveState, InstallState, IgnoreMessage, Handling
<1>2. inbox[r] \in Seq(Messages) /\ log \in Seq(Ops) /\ prop[r] \in PropObject
  BY DEF TypeOK
<1>3. m \in Messages /\ m.from \in Replicas
  BY <1>1, <1>2, HeadTailProperties, MessageKinds
<1>4. BoxOK(Rest(r)) /\ Carries(Rest(r), Rest(r))
  BY <1>1, InvariantBoxes, NothingSent
<1>5. StreamOK(log, inbox[r]) /\ ObjectOK(log, prop[r], inbox[r]) /\ LogOK(log, issued) /\ issued \in Nat
  BY BoundsAssumption DEF OrderInvariant, ReplicaOK, TypeOK
<1>6. \A n \in 0..Len(log) : OpsAfter(inbox[r], 0, n) => OpsAfter(Tail(inbox[r]), 0, n)
  BY <1>1, <1>2, OpsAfterTail
<1>7. r \in Steady => prop[r].mode = "NORM" /\ (status[r] = "in" => SteadyObjectOK(log, prop[r], inbox[r]))
  BY DEF OrderInvariant, SteadyOK
<1> HIDE DEF m
\* What a stanza that is no operation leaves of the replica as it was.
<1>kept. ASSUME ~IsOp(m)
         PROVE  /\ ObjectOK(log, prop[r], Tail(inbox[r]))
                /\ r \in Steady => prop[r].mode = "NORM"
                                   /\ (status[r] = "in" => SteadyObjectOK(log, prop[r], Tail(inbox[r])))
  BY <1>1, <1>2, <1>5, <1>6, <1>7, <1>kept, ObjectKept, SteadyTail DEF m
<1>same. prop = [prop EXCEPT ![r] = prop[r]]
  BY DEF TypeOK
<1>8. CASE ApplyOperation(r)
  <2> DEFINE q == HandleReceivedOp(prop[r], r, m)
  <2>1. /\ prop[r].mode = "NORM" /\ IsOp(m) /\ prop' = [prop EXCEPT ![r] = q] /\ inbox' = Rest(r)
        /\ UNCHANGED <<status, log, issued, history>>
    BY <1>8 DEF ApplyOperation, Handling, IsOp, m
  <2>2. q \in PropObject /\ q.mode = "NORM"
    <3>1. m \in OperationMsg
      BY <1>3, <2>1, MessageKinds DEF IsOp
    <3>2. q.mode = prop[r].mode
      BY <1>2 DEF HandleReceivedOp, HandleOwnOp, HandleRemoteOp, PropObject
    <3>3. q \in PropObject
      BY <1>2, <3>1, HandleReceivedOpType
    <3> QED BY <2>1, <3>2, <3>3
  <2>3. ObjectOK(log, q, Tail(inbox[r]))
    BY <1>1, <1>2, <1>5, <2>1, ObjectApply DEF m
  <2>4. r \in Steady => (status[r] = "in" => SteadyObjectOK(log, q, Tail(inbox[r])))
    BY <1>1, <1>2, <1>5, <1>7, <2>1, SteadyApply DEF m
  <2> HIDE DEF q
  <2> QED BY <1>1, <1>4, <2>1, <2>2, <2>3, <2>4, HandlingKeeps
<1>9. CASE RaiseOnConflict(r)
  <2>1. /\ prop' = prop /\ inbox' = [inbox EXCEPT ![r] = <<>>] /\ status' = [status EXCEPT ![r] = "raised"]
        /\ UNCHANGED <<log, issued, history>>
    BY <1>9 DEF RaiseOnConflict
  <2>2. inbox'[r] = <<>> /\ status'[r] = "raised" /\ prop'[r] = prop[r]
    BY <2>1 DEF TypeOK
  <2>3. StreamOK(log, inbox'[r]) /\ ObjectOK(log, prop'[r], inbox'[r])
    BY <1>2, <1>5, <2>2, StreamEmpty, ObjectKept
  <2>4. ReplicaOK(r)' /\ (r \in Steady => SteadyOK(r)')
    BY <1>7, <2>1, <2>2, <2>3 DEF ReplicaOK, SteadyOK
  <2>5. \A q \in Replicas : q # r => inbox'[q] = inbox[q] /\ prop'[q] = prop[q] /\ status'[q] = status[q]
    BY <2>1 DEF TypeOK
  <2> QED BY <2>1, <2>4, <2>5, Reassemble
<1>10. CASE AnswerSendMeState(r)
  <2> DEFINE answer == StateSync(r, m.syncId)
  <2>1. /\ prop[r].mode = "NORM" /\ m.type = "SEND_ME_STATE" /\ prop' = prop
        /\ Unicast(r, Rest(r), m.from, answer)
        /\ UNCHANGED <<status, log, issued>>
    BY <1>10 DEF AnswerSendMeState, Handling, m
  <2>2. answer \in Messages
    <3>1. m.syncId \in SyncIds \cup {NoSync}
      BY <1>3, <2>1, MessageKinds DEF SyncMsg
    <3> QED BY <3>1, BuiltMessages
  <2>3. StanzaOK(log, answer)
    <3>1. PICK n \in 0..Len(log) : At(log, prop[r].lastOp, n) /\ prop[r].seqNum \in 0..n
      BY <1>5, <2>1 DEF ObjectOK, Current
    <3> QED BY <3>1 DEF StanzaOK, StateSync, IsOp
  <2> HIDE DEF answer
  <2>4. history' = history /\ Carries(Rest(r), inbox')
    BY <1>3, <1>4, <2>1, <2>2, <2>3, UnicastKeeps
  <2>5. ~IsOp(m)
    BY <2>1 DEF IsOp
  <2> QED BY <1>1, <1>2, <1>kept, <1>same, <2>1, <2>4, <2>5, HandlingKeeps
<1>11. CASE AnswerWhoHasState(r)
  <2> DEFINE answer == SyncRequest("I_HAVE_STATE", r, m.syncId)
  <2>1. /\ m.type = "WHO_HAS_STATE" /\ prop' = prop
        /\ Unicast(r, Rest(r), m.from, answer)
        /\ UNCHANGED <<status, log, issued>>
    BY <1>11 DEF AnswerWhoHasState, Handling, m
  <2>2. answer \in Messages /\ StanzaOK(log, answer)
    <3>1. m.syncId \in SyncIds \cup {NoSync}
      BY <1>3, <2>1, MessageKinds DEF SyncMsg
    <3> QED BY <3>1, BuiltMessages, TimerStanzas
  <2> HIDE DEF answer
  <2>3. history' = history /\ Carries(Rest(r), inbox')
    BY <1>3, <1>4, <2>1, <2>2, UnicastKeeps
  <2>4. ~IsOp(m)
    BY <2>1 DEF IsOp
  <2> QED BY <1>1, <1>2, <1>kept, <1>same, <2>1, <2>3, <2>4, HandlingKeeps
<1>12. CASE EnterSync(r)
  <2>1. PICK id \in SyncIds :
          /\ prop' = [prop EXCEPT ![r] = EnterSYNCMode(prop[r], id)]
          /\ Multicast(r, Rest(r), SyncRequest("WHO_HAS_STATE", r, id))
    <3> DEFINE id == CHOOSE i \in FreshSyncIds : TRUE
    <3>1. id \in SyncIds
      <4>1. FreshSyncIds # {} /\ FreshSyncIds \subseteq SyncIds
        BY <1>12 DEF EnterSync, FreshSyncIds
      <4> HIDE DEF FreshSyncIds
      <4> QED BY <4>1
    <3>2. /\ prop' = [prop EXCEPT ![r] = EnterSYNCMode(prop[r], id)]
          /\ Multicast(r, Rest(r), SyncRequest("WHO_HAS_STATE", r, id))
      BY <1>12 DEF EnterSync
    <3> HIDE DEF id
    <3> QED BY <3>1, <3>2
  <2> DEFINE request == SyncRequest("WHO_HAS_STATE", r, id)
             q == EnterSYNCMode(prop[r], id)
  <2>2. /\ status[r] \in {"in", "cut"} /\ m.type = "HELLO" /\ m.localSeqNum > prop[r].seqNum
        /\ UNCHANGED <<status, log, issued>>
    BY <1>12 DEF EnterSync, Handling, Behind, m
  <2>3. request \in Messages /\ StanzaOK(log, request) /\ request.type # "STATE_SYNC"
    BY BuiltMessages, TimerStanzas DEF SyncRequest
  <2>4. q \in PropObject /\ ObjectOK(log, q, Tail(inbox[r]))
    <3>1. q \in PropObject
      <4> HIDE DEF q
      <4>1. prop'[r] = q /\ prop'[r] \in PropObject
        BY <2>1 DEF TypeOK, q
      <4> QED BY <4>1
    <3> QED BY <1>2, <3>1, ObjectEnter
  <2>5. r \notin Steady
    <3> SUFFICES ASSUME r \in Steady PROVE FALSE
      OBVIOUS
    <3>1. status[r] = "in"
      BY <2>2 DEF OrderInvariant, SteadyOK
    <3> QED BY <1>1, <1>2, <1>7, <2>2, <3>1, SteadyNotBehind DEF m
  <2> HIDE DEF request, q
  <2>6. HistoryOK' /\ Carries(Rest(r), inbox')
    BY <1>4, <2>1, <2>2, <2>3, MulticastKeeps DEF request
  <2>7. prop' = [prop EXCEPT ![r] = q]
    BY <2>1 DEF q
  <2> QED BY <1>1, <2>2, <2>4, <2>5, <2>6, <2>7, HandlingKeeps
<1>13. CASE BufferOperation(r)
  <2> DEFINE q == [prop[r] EXCEPT !.opsSYNC = Append(prop[r].opsSYNC, m)]
  <2>1. /\ prop[r].mode = "SYNC" /\ IsOp(m) /\ prop' = [prop EXCEPT ![r] = q] /\ inbox' = Rest(r)
        /\ UNCHANGED <<status, log, issued, history>>
    BY <1>13 DEF BufferOperation, Handling, IsOp, m, TypeOK
  <2>2. q \in PropObject
    <3>1. m \in OperationMsg
      BY <1>3, <2>1, MessageKinds DEF IsOp
    <3> QED BY <1>2, <3>1, AppendProperties DEF PropObject
  <2>3. ObjectOK(log, q, Tail(inbox[r]))
    BY <1>1, <1>2, <1>5, <2>1, ObjectBuffer DEF m
  <2> HIDE DEF q
  <2>4. r \notin Steady
    BY <1>7, <2>1
  <2> QED BY <1>1, <1>4, <2>1, <2>2, <2>3, <2>4, HandlingKeeps
<1>14. CASE AcceptIHaveState(r)
  <2> DEFINE q == [prop[r] EXCEPT !.waiting = FALSE]
             request == SyncRequest("SEND_ME_STATE", r, m.syncId)
  <2>1. /\ prop[r].mode = "SYNC" /\ m.type = "I_HAVE_STATE" /\ prop' = [prop EXCEPT ![r] = q]
        /\ Unicast(r, Rest(r), m.from, request)
        /\ UNCHANGED <<status, log, issued>>
    BY <1>14 DEF AcceptIHaveState, Handling, m, TypeOK
  <2>2. request \in Messages /\ StanzaOK(log, request)
    <3>1. m.syncId \in SyncIds \cup {NoSync}
      BY <1>3, <2>1, MessageKinds DEF SyncMsg
    <3> QED BY <3>1, BuiltMessages, TimerStanzas
  <2>3. ObjectOK(log, q, Tail(inbox[r])) /\ q \in PropObject /\ r \notin Steady
    <3>1. ~IsOp(m)
      BY <2>1 DEF IsOp
    <3>2. ObjectOK(log, q, Tail(inbox[r]))
      BY <1>2, <1>kept, <3>1, ObjectFields DEF PropObject
    <3>3. q \in PropObject
      BY <1>2 DEF PropObject
    <3> QED BY <1>7, <2>1, <3>2, <3>3
  <2> HIDE DEF q, request
  <2>4. history' = history /\ Carries(Rest(r), inbox')
    BY <1>3, <1>4, <2>1, <2>2, UnicastKeeps
  <2> QED BY <1>1, <2>1, <2>3, <2>4, HandlingKeeps
<1>15. CASE InstallState(r)
  <2> DEFINE q == HandleStateSync(prop[r], r, m)
  <2>1. /\ prop[r].mode = "SYNC" /\ m.type = "STATE_SYNC" /\ prop' = [prop EXCEPT ![r] = q]
        /\ inbox' = Rest(r)
        /\ UNCHANGED <<status, log, issued, history>>
    BY <1>15 DEF InstallState, Handling, m
  <2>2. q \in PropObject
    <3>1. m \in StateMsg
      BY <1>3, <2>1, MessageKinds
    <3> QED BY <1>2, <3>1, HandleStateSyncType
  <2>3. ObjectOK(log, q, Tail(inbox[r]))
    BY <1>1, <1>2, <1>5, <2>1, ObjectInstall DEF m
  <2> HIDE DEF q
  <2>4. r \notin Steady
    BY <1>7, <2>1
  <2> QED BY <1>1, <1>4, <2>1, <2>2, <2>3, <2>4, HandlingKeeps
<1>16. CASE IgnoreMessage(r)
  <2>1. ~IsOp(m) /\ prop' = prop /\ inbox' = Rest(r) /\ UNCHANGED <<status, log, issued, history>>
    BY <1>16 DEF IgnoreMessage, Ignored, IsOp, m
  <2> QED BY <1>1, <1>2, <1>4, <1>kept, <1>same, <2>1, HandlingKeeps
<1> QED BY <1>8, <1>9, <1>10, <1>11, <1>12, <1>13, <1>14, <1>15, <1>16 DEF HandleMessage

LEMMA OrderRoom ==
    ASSUME TypeOK, TypeOK', OrderInvariant, ReplayedOnce, NEW r \in Replicas,
           DropUnhandled(r) \/ Joining(r) \/ Leaving(r)
    PROVE  OrderInvariant'
<1>1. inbox[r] \in Seq(Messages) /\ log \in Seq(Ops) /\ prop[r] \in PropObject
  BY DEF TypeOK
<1>2. /\ StreamOK(log, inbox[r]) /\ ObjectOK(log, prop[r], inbox[r])
      /\ status[r] = "out" => Fresh(prop[r])
      /\ status[r] = "cut" => history = <<>>
  BY DEF OrderInvariant, ReplicaOK, HistoryOK, ReplayedOnce
<1>3. r \in Steady => status[r] \in {"in", "raised"} /\ r \notin Churn
  BY SteadyReplicas DEF OrderInvariant, SteadyOK
\* Each of these actions disturbs r alone.
<1>4. /\ UNCHANGED <<log, issued, history>>
      /\ \A q \in Replicas : q # r => inbox'[q] = inbox[q] /\ prop'[q] = prop[q] /\ status'[q] = status[q]
  BY DEF DropUnhandled, Joining, Leaving, JoinRoom, RegisterMessageHandler, AfterActivityJoin, RejoinRoom,
         LoseConnection, LeaveRoom, Rest, TypeOK
<1>5. SUFFICES ReplicaOK(r)' /\ (r \in Steady => SteadyOK(r)')
  BY <1>4, Reassemble
<1>6. CASE DropUnhandled(r)
  <2>1. /\ inbox'[r] = Tail(inbox[r]) /\ inbox[r] # <<>> /\ prop' = prop /\ status' = status
        /\ status[r] = "entered"
    BY <1>6 DEF DropUnhandled, Rest, TypeOK
  <2>2. StreamOK(log, inbox'[r]) /\ ObjectOK(log, prop[r], inbox'[r])
    BY <1>1, <1>2, <2>1, StreamTail, OpsAfterTail, ObjectKept
  <2> QED BY <1>3, <1>4, <2>1, <2>2 DEF ReplicaOK
<1>7. CASE JoinRoom(r)
  <2>1. status[r] = "out" /\ inbox'[r] = history /\ prop' = prop /\ status'[r] = "entered"
    BY <1>7 DEF JoinRoom, TypeOK
  <2>2. StreamOK(log, history) /\ Fresh(prop[r])
    BY <1>2, <2>1 DEF OrderInvariant, HistoryOK
  <2>3. ObjectOK(log, prop[r], history)
    BY <1>1, <2>2, ObjectFresh
  <2> QED BY <1>3, <1>4, <2>1, <2>2, <2>3 DEF ReplicaOK
<1>8. CASE RegisterMessageHandler(r)
  <2>1. status[r] = "entered" /\ inbox' = inbox /\ prop' = prop /\ status'[r] = "in"
    BY <1>8 DEF RegisterMessageHandler, TypeOK
  <2> QED BY <1>2, <1>3, <1>4, <2>1 DEF ReplicaOK
<1>9. CASE AfterActivityJoin(r)
  <2>1. /\ prop'[r].opsSYNC = prop[r].opsSYNC /\ prop'[r].mode = prop[r].mode
        /\ prop'[r].lastOp = prop[r].lastOp /\ prop'[r].seqNum = prop[r].seqNum
        /\ prop'[r].clean = prop[r].clean
        /\ inbox' = inbox /\ status' = status /\ status[r] = "in"
    BY <1>1, <1>9 DEF AfterActivityJoin, TypeOK, PropObject
  <2>2. ObjectOK(log, prop'[r], inbox[r])
    BY <1>2, <2>1, ObjectFields
  <2>3. ReplicaOK(r)'
    BY <1>2, <1>4, <2>1, <2>2 DEF ReplicaOK
  <2>4. ASSUME r \in Steady PROVE SteadyOK(r)'
    <3>1. SteadyOK(r)
      BY <2>4 DEF OrderInvariant
    <3>2. status[r] = "in" => SteadyObjectOK(log, prop'[r], inbox[r])
      BY <2>1, <3>1, SteadyFields DEF SteadyOK
    <3> QED BY <1>4, <2>1, <3>1, <3>2 DEF SteadyOK
  <2> QED BY <2>3, <2>4
<1>10. CASE RejoinRoom(r)
  <2>1. status[r] = "cut" /\ inbox'[r] = inbox[r] /\ prop' = prop /\ status'[r] = "in"
    <3>1. inbox[r] \o <<>> = inbox[r]
      BY <1>1, ConcatEmptySeq
    <3> QED BY <1>1, <1>2, <1>10, <3>1 DEF RejoinRoom, TypeOK
  <2> QED BY <1>2, <1>3, <1>4, <2>1 DEF ReplicaOK
<1>11. CASE LoseConnection(r)
  <2>1. PICK k \in 0..Len(inbox[r]) : inbox'[r] = SubSeq(inbox[r], 1, k)
    BY <1>11 DEF LoseConnection, TypeOK
  <2>2. r \in Churn /\ prop' = prop /\ status'[r] = "cut" /\ MaxLosses # 0
    <3>1. losses \in 0..MaxLosses /\ losses < MaxLosses
      BY <1>11 DEF LoseConnection, TypeOK
    <3>2. MaxLosses # 0
      BY <3>1
    <3> QED BY <1>11, <3>2 DEF LoseConnection, TypeOK
  <2>3. StreamOK(log, inbox'[r]) /\ \A n : OpsAfter(inbox[r], 0, n) => OpsAfter(inbox'[r], 0, n)
    BY <1>1, <1>2, <2>1, StreamPrefix
  <2>4. ObjectOK(log, prop[r], inbox'[r])
    BY <1>1, <1>2, <2>3, ObjectKept
  <2> QED BY <1>3, <1>4, <2>2, <2>3, <2>4 DEF ReplicaOK
<1>12. CASE LeaveRoom(r)
  <2>1. r \in Churn /\ prop' = prop /\ status'[r] = "gone" /\ inbox'[r] = <<>>
    BY <1>12 DEF LeaveRoom, TypeOK
  <2>2. StreamOK(log, inbox'[r]) /\ ObjectOK(log, prop[r], inbox'[r])
    BY <1>1, <1>2, <2>1, StreamEmpty, ObjectKept
  <2> QED BY <1>3, <1>4, <2>1, <2>2 DEF ReplicaOK
<1> QED BY <1>6, <1>7, <1>8, <1>9, <1>10, <1>11, <1>12 DEF Joining, Leaving

LEMMA OrderNext ==
    ReplayedOnce /\ TypeOK /\ TypeOK' /\ OrderInvariant /\ [Next]_vars => OrderInvariant'
<1> SUFFICES ASSUME ReplayedOnce, TypeOK, TypeOK', OrderInvariant, [Next]_vars PROVE OrderInvariant'
  OBVIOUS
<1>1. CASE UNCHANGED vars
  <2>1. UNCHANGED <<prop, status, inbox, history, log, issued>>
    BY <1>1 DEF vars
  <2> QED BY <2>1, Reassemble
<1>2. CASE Next
  <2>1. PICK r \in Replicas :
          AddOperation(r) \/ Timer(r) \/ HandleMessage(r) \/ DropUnhandled(r) \/ Joining(r) \/ Leaving(r)
    BY <1>2 DEF Next
  <2> QED BY <2>1, OrderApplication, OrderTimer, OrderHandling, OrderRoom
<1> QED BY <1>1, <1>2

-----------------------------------------------------------------------------
(* The theorems.                                                           *)

\* Where no replica is replayed what it has applied, the streams, the buffers and
\* the states handed over always agree with the room's order, however much of
\* it the server replays to who enters (JXProp.m lines 175-216, 248-355).
THEOREM OrderKept == ReplayedOnce => (Spec => []OrderInvariant)
<1> SUFFICES ASSUME ReplayedOnce PROVE Spec => []OrderInvariant
  OBVIOUS
<1>1. Init => OrderInvariant
  BY OrderInit
<1>2. TypeOK /\ TypeOK' /\ OrderInvariant /\ [Next]_vars => OrderInvariant'
  BY OrderNext
<1> QED BY <1>1, <1>2, TypeCorrect, PTL DEF Spec

\* A steady replica has applied the operations of the room's order, in that
\* order, up to its sequence number, and no HELLO ever sends it into SYNC mode,
\* where it would drop what it has pending: however many replicas join, leave or
\* are resynchronised meanwhile (lines 175-216, 267-273).
THEOREM SteadyFollowsHolds == ReplayedOnce => (Spec => []SteadyFollows)
<1> SUFFICES ASSUME ReplayedOnce PROVE Spec => []SteadyFollows
  OBVIOUS
<1>1. OrderInvariant => SteadyPrefix
  BY DEF OrderInvariant, SteadyOK, SteadyObjectOK, SteadyPrefix
<1>2. OrderInvariant => SteadyStaysNormal
  BY DEF OrderInvariant, SteadyOK, SteadyStaysNormal
<1> QED BY <1>1, <1>2, OrderKept, PTL DEF SteadyFollows

-----------------------------------------------------------------------------
(* The steady replicas implement the ordered log.                          *)

View == [q \in Steady |-> prop[q].clean]

\* A step that touches neither the order nor what a steady replica applied.
LEMMA Stutters ==
    ASSUME log' = log, \A q \in Steady : prop'[q].clean = prop[q].clean
    PROVE  UNCHANGED Order!vars
BY DEF Order!vars

LEMMA RefinesInit ==
    ASSUME Init
    PROVE  Order!Init
<1>1. \A q \in Steady : prop[q].clean = <<>>
  BY SteadyReplicas DEF Init, InitProp
<1> QED BY <1>1 DEF Init, Order!Init

\* An operation sent from within the room is submitted to the log.
LEMMA RefinesApplication ==
    ASSUME TypeOK, OrderInvariant, NEW r \in Replicas, AddOperation(r)
    PROVE  [Order!Next]_(Order!vars)
<1>1. \A q \in Steady : prop'[q].clean = prop[q].clean
  <2>1. \A q \in Replicas : prop'[q].clean = prop[q].clean
    BY DEF AddOperation, TypeOK, PropObject
  <2> QED BY <2>1, SteadyReplicas
<1>2. CASE ~Occupant(r)
  BY <1>1, <1>2, Stutters DEF AddOperation
<1>3. CASE Occupant(r)
  <2> DEFINE op == issued + 1
  <2>1. op \in 1..MaxOps /\ log' = Append(log, op)
    BY <1>3, BoundsAssumption DEF AddOperation, TypeOK
  <2>2. \A k \in 1..Len(log) : log[k] # op
    BY DEF OrderInvariant, LogOK, TypeOK
  <2>3. UNCHANGED View
    BY <1>1 DEF View
  <2> HIDE DEF op
  <2>4. Order!Submit(op)
    BY <2>1, <2>2, <2>3 DEF Order!Submit, View
  <2> QED BY <2>1, <2>4 DEF Order!Next
<1> QED BY <1>2, <1>3

\* An operation that comes back to a steady replica is seen by it.
LEMMA RefinesHandling ==
    ASSUME TypeOK, OrderInvariant, NEW r \in Replicas, HandleMessage(r)
    PROVE  [Order!Next]_(Order!vars)
<1>1. log' = log
  BY DEF HandleMessage, ApplyOperation, RaiseOnConflict, AnswerSendMeState, AnswerWhoHasState, EnterSync,
         BufferOperation, AcceptIHaveState, InstallState, IgnoreMessage
<1>2. \A q \in Steady : q # r => prop'[q].clean = prop[q].clean
  <2>1. \A q \in Replicas : q # r => prop'[q] = prop[q]
    BY DEF HandleMessage, ApplyOperation, RaiseOnConflict, AnswerSendMeState, AnswerWhoHasState, EnterSync,
           BufferOperation, AcceptIHaveState, InstallState, IgnoreMessage, TypeOK
  <2> QED BY <2>1, SteadyReplicas
<1>3. CASE prop'[r].clean = prop[r].clean \/ r \notin Steady
  <2>1. \A q \in Steady : prop'[q].clean = prop[q].clean
    BY <1>2, <1>3
  <2> QED BY <1>1, <2>1, Stutters
<1>4. CASE ApplyOperation(r) /\ r \in Steady
  <2> DEFINE m == Head(inbox[r])
             q == HandleReceivedOp(prop[r], r, m)
             n == prop[r].seqNum + 1
  <2>1. /\ inbox[r] # <<>> /\ IsOp(m) /\ status[r] = "in"
        /\ prop' = [prop EXCEPT ![r] = q]
    BY <1>4 DEF ApplyOperation, Handling, IsOp, OrderInvariant, SteadyOK
  <2>2. inbox[r] \in Seq(Messages) /\ log \in Seq(Ops) /\ prop[r] \in PropObject
    BY DEF TypeOK
  <2>3. SteadyObjectOK(log, prop[r], inbox[r]) /\ StreamOK(log, inbox[r])
    BY <1>4, <2>1 DEF OrderInvariant, SteadyOK, ReplicaOK
  <2>4. n \in 1..Len(log) /\ m.op = log[n]
    BY <2>1, <2>2, <2>3, SteadyNext
  <2>5. q.clean = Append(prop[r].clean, log[n])
    BY <2>2, <2>4 DEF HandleReceivedOp, HandleOwnOp, HandleRemoteOp, PropObject
  <2>6. prop'[r] = q
    BY <2>1 DEF TypeOK
  <2>7. Len(prop[r].clean) = n - 1
    <3>1. prop[r].seqNum \in 0..Len(log) /\ prop[r].clean = SubSeq(log, 1, prop[r].seqNum)
      BY <2>3 DEF SteadyObjectOK
    <3>2. \A i \in 1..prop[r].seqNum : log[i] \in Ops
      BY <2>2, <3>1, ElementOfSeq
    <3> QED BY <2>2, <3>1, <3>2, SubSeqProperties
  <2> HIDE DEF q, m, n
  <2>8. View[r] = prop[r].clean /\ Len(View[r]) < Len(log) /\ Len(View[r]) + 1 = n
    BY <1>4, <2>2, <2>4, <2>7 DEF View, n
  <2>9. View' = [View EXCEPT ![r] = Append(View[r], log[n])]
    BY <1>2, <1>4, <2>5, <2>6, <2>8 DEF View
  <2>10. Order!See(r)
    BY <1>1, <2>8, <2>9 DEF Order!See, View
  <2> QED BY <1>4, <2>10 DEF Order!Next
<1>5. CASE InstallState(r) /\ r \in Steady
  BY <1>5 DEF InstallState, Handling, OrderInvariant, SteadyOK
<1>6. CASE ~ApplyOperation(r) /\ ~InstallState(r)
  <2>1. prop[r] \in PropObject /\ r \in DOMAIN prop
    BY DEF TypeOK
  <2>2. CASE EnterSync(r)
    <3>1. PICK id : prop' = [prop EXCEPT ![r] = EnterSYNCMode(prop[r], id)]
      BY <2>2 DEF EnterSync
    <3>2. EnterSYNCMode(prop[r], id).clean = prop[r].clean
      BY <2>1 DEF EnterSYNCMode, PropObject
    <3> QED BY <1>3, <2>1, <3>1, <3>2
  <2>3. CASE BufferOperation(r)
    <3>1. prop'[r].clean = prop[r].clean
      BY <2>1, <2>3 DEF BufferOperation, PropObject
    <3> QED BY <1>3, <3>1
  <2>4. CASE AcceptIHaveState(r)
    <3>1. prop'[r].clean = prop[r].clean
      BY <2>1, <2>4 DEF AcceptIHaveState, PropObject
    <3> QED BY <1>3, <3>1
  <2>5. CASE RaiseOnConflict(r) \/ AnswerSendMeState(r) \/ AnswerWhoHasState(r) \/ IgnoreMessage(r)
    <3>1. prop' = prop
      BY <2>5 DEF RaiseOnConflict, AnswerSendMeState, AnswerWhoHasState, IgnoreMessage
    <3> QED BY <1>3, <3>1
  <2> QED BY <1>6, <2>2, <2>3, <2>4, <2>5 DEF HandleMessage
<1> QED BY <1>3, <1>4, <1>5, <1>6

LEMMA RefinesNext ==
    ASSUME TypeOK, OrderInvariant, [Next]_vars
    PROVE  [Order!Next]_(Order!vars)
<1>1. CASE UNCHANGED vars
  BY <1>1, Stutters DEF vars
<1>2. CASE Next
  <2>1. PICK r \in Replicas :
          AddOperation(r) \/ Timer(r) \/ HandleMessage(r) \/ DropUnhandled(r) \/ Joining(r) \/ Leaving(r)
    BY <1>2 DEF Next
  <2>2. CASE Timer(r) \/ DropUnhandled(r) \/ Joining(r) \/ Leaving(r)
    <3>1. CASE AfterActivityJoin(r)
      <4>1. log' = log /\ \A q \in Replicas : prop'[q].clean = prop[q].clean
        BY <3>1 DEF AfterActivityJoin, TypeOK, PropObject
      <4> QED BY <4>1, Stutters, SteadyReplicas
    <3>2. CASE ~AfterActivityJoin(r)
      <4>1. log' = log /\ prop' = prop
        BY <2>2, <3>2 DEF Timer, PeriodicTask, SendHello, BroadcastSyncRequest, DropUnhandled, Joining, Leaving,
                          JoinRoom, RegisterMessageHandler, RejoinRoom, LoseConnection, LeaveRoom
      <4> QED BY <4>1, Stutters
    <3> QED BY <3>1, <3>2
  <2> QED BY <2>1, <2>2, RefinesApplication, RefinesHandling
<1> QED BY <1>1, <1>2

\* Seen by its steady replicas, the protocol of JXProp.m is an ordered log that
\* each of them reads forward: an operation sent is a Submit, an operation
\* handled by a steady replica a See, and everything else, SYNC rounds, joins,
\* losses and crashes included, a stutter.
THEOREM OrderedLogImplemented == ReplayedOnce => (Spec => ImplementsOrderedLog)
<1> SUFFICES ASSUME ReplayedOnce PROVE Spec => ImplementsOrderedLog
  OBVIOUS
<1>1. Init => Order!Init
  BY RefinesInit
<1>2. TypeOK /\ OrderInvariant /\ [Next]_vars => [Order!Next]_(Order!vars)
  BY RefinesNext
<1> QED BY <1>1, <1>2, TypeCorrect, OrderKept, PTL DEF Spec, ImplementsOrderedLog, Order!Spec

-----------------------------------------------------------------------------
(* Predictions of the steady replicas, with a state class that raises when *)
(* a remote operation crosses pending ones.                                *)

LEMMA AppendFacts ==
    ASSUME NEW S, NEW s \in Seq(S), NEW e \in S
    PROVE  /\ Append(s, e) \in Seq(S)
           /\ Len(s) \in Nat /\ Len(Append(s, e)) = Len(s) + 1
           /\ \A k \in 1..Len(s) : Append(s, e)[k] = s[k]
           /\ Append(s, e)[Len(s) + 1] = e
OBVIOUS

LEMMA OwnOpsAppend ==
    ASSUME NEW r, NEW s \in Seq(Messages), NEW m \in Messages
    PROVE  /\ \A k \in OwnOps(r, s) : k \in 1..Len(s) /\ Append(s, m)[k] = s[k]
           /\ m.type = "STATE_OPERATION" /\ m.from = r =>
                 OwnOps(r, Append(s, m)) = OwnOps(r, s) \cup {Len(s) + 1}
           /\ ~(m.type = "STATE_OPERATION" /\ m.from = r) =>
                 OwnOps(r, Append(s, m)) = OwnOps(r, s)
<1> DEFINE t == Append(s, m)
<1>1. /\ Len(s) \in Nat /\ Len(t) = Len(s) + 1 /\ t[Len(s) + 1] = m
      /\ \A k \in 1..Len(s) : t[k] = s[k]
  BY AppendFacts
<1> HIDE DEF t
<1> QED BY <1>1 DEF OwnOps, t

\* A stanza that is no operation of the replica's own may be sent to it, or read.
LEMMA AwaitsAppend ==
    ASSUME NEW r, NEW b, NEW s \in Seq(Messages), NEW m \in Messages, Awaits(r, b, s),
           ~(m.type = "STATE_OPERATION" /\ m.from = r)
    PROVE  Awaits(r, b, Append(s, m))
<1> DEFINE t == Append(s, m)
<1>1. OwnOps(r, t) = OwnOps(r, s) /\ \A k \in OwnOps(r, s) : t[k] = s[k]
  BY OwnOpsAppend
<1> HIDE DEF t
<1>2. Awaits(r, b, t)
  BY <1>1 DEF Awaits
<1> QED BY <1>2 DEF t

LEMMA OwnOpsTail ==
    ASSUME NEW r, NEW s \in Seq(Messages), s # <<>>
    PROVE  /\ \A k \in OwnOps(r, Tail(s)) : k + 1 \in OwnOps(r, s) /\ Tail(s)[k] = s[k + 1]
           /\ \A k \in OwnOps(r, s) : k # 1 => k - 1 \in OwnOps(r, Tail(s))
           /\ OwnOps(r, s) \subseteq 1..Len(s) /\ OwnOps(r, Tail(s)) \subseteq 1..Len(Tail(s))
           /\ 1 \in OwnOps(r, s) <=> s[1].type = "STATE_OPERATION" /\ s[1].from = r
           /\ Len(s) \in Nat /\ Len(Tail(s)) \in Nat
<1> DEFINE t == Tail(s)
<1>1. Len(s) \in Nat \ {0} /\ Len(t) = Len(s) - 1 /\ \A i \in 1..(Len(s) - 1) : t[i] = s[i + 1]
  BY TailFacts
<1> HIDE DEF t
<1>2. ASSUME NEW k \in OwnOps(r, s), k # 1 PROVE k - 1 \in OwnOps(r, t)
  <2>1. k \in 1..Len(s) /\ k - 1 \in 1..Len(t) /\ t[k - 1] = s[k]
    BY <1>1, <1>2 DEF OwnOps
  <2> QED BY <1>2, <2>1 DEF OwnOps
<1>3. \A k \in OwnOps(r, t) : k + 1 \in OwnOps(r, s) /\ t[k] = s[k + 1]
  BY <1>1 DEF OwnOps
<1>4. /\ OwnOps(r, s) \subseteq 1..Len(s) /\ OwnOps(r, t) \subseteq 1..Len(t)
      /\ 1 \in OwnOps(r, s) <=> s[1].type = "STATE_OPERATION" /\ s[1].from = r
  BY <1>1 DEF OwnOps
<1> QED BY <1>1, <1>2, <1>3, <1>4 DEF t

LEMMA AwaitsTail ==
    ASSUME NEW r, NEW b, NEW s \in Seq(Messages), s # <<>>, Awaits(r, b, s),
           ~(Head(s).type = "STATE_OPERATION" /\ Head(s).from = r)
    PROVE  Awaits(r, b, Tail(s))
<1> DEFINE t == Tail(s)
<1>1. /\ \A k \in OwnOps(r, t) : k + 1 \in OwnOps(r, s) /\ t[k] = s[k + 1]
      /\ \A k \in OwnOps(r, s) : k # 1 /\ k - 1 \in OwnOps(r, t)
      /\ OwnOps(r, s) \subseteq Int /\ OwnOps(r, t) \subseteq Int
  BY OwnOpsTail, TailFacts
<1> HIDE DEF t
<1>2. {t[k].op : k \in OwnOps(r, t)} = {s[k].op : k \in OwnOps(r, s)}
  <2>1. ASSUME NEW k \in OwnOps(r, s) PROVE s[k].op \in {t[j].op : j \in OwnOps(r, t)}
    <3>1. k - 1 \in OwnOps(r, t) /\ t[k - 1] = s[k]
      BY <1>1
    <3> QED BY <3>1
  <2>2. \A k \in OwnOps(r, t) : t[k].op \in {s[j].op : j \in OwnOps(r, s)}
    BY <1>1
  <2> QED BY <2>1, <2>2
<1>3. ASSUME NEW j \in OwnOps(r, t), NEW k \in OwnOps(r, t), j < k PROVE t[j].op < t[k].op
  <2>1. j + 1 \in OwnOps(r, s) /\ k + 1 \in OwnOps(r, s) /\ j + 1 < k + 1
    BY <1>1, <1>3
  <2> QED BY <1>1, <2>1 DEF Awaits
<1>4. Awaits(r, b, t)
  BY <1>2, <1>3 DEF Awaits
<1> QED BY <1>4 DEF t

LEMMA AwaitsIssued ==
    ASSUME NEW r, NEW b \in Seq(Ops), NEW s \in Seq(Messages), NEW m \in Messages, Awaits(r, b, s),
           m.type = "STATE_OPERATION", m.from = r, m.op \in Ops,
           \A k \in OwnOps(r, s) : s[k].op < m.op
    PROVE  Awaits(r, Append(b, m.op), Append(s, m))
<1> DEFINE t == Append(s, m)
           c == Append(b, m.op)
           n == Len(s) + 1
<1>1. /\ OwnOps(r, t) = OwnOps(r, s) \cup {n} /\ t[n] = m /\ n \in Nat
      /\ \A k \in OwnOps(r, s) : t[k] = s[k] /\ k \in Nat /\ k < n
  <2>1. \A k \in OwnOps(r, s) : k \in 1..Len(s)
    BY OwnOpsAppend
  <2> QED BY <2>1, OwnOpsAppend, AppendFacts
<1>2. /\ Len(b) \in Nat /\ Len(c) = Len(b) + 1 /\ c[Len(b) + 1] = m.op
      /\ \A k \in 1..Len(b) : c[k] = b[k]
  BY AppendFacts
<1>3. \A k \in 1..Len(b) : \E j \in OwnOps(r, s) : b[k] = s[j].op
  <2> SUFFICES ASSUME NEW k \in 1..Len(b) PROVE \E j \in OwnOps(r, s) : b[k] = s[j].op
    OBVIOUS
  <2>1. b[k] \in {b[i] : i \in 1..Len(b)}
    OBVIOUS
  <2> QED BY <2>1 DEF Awaits
<1>4. \A j \in OwnOps(r, s) : \E k \in 1..Len(b) : s[j].op = b[k]
  <2> SUFFICES ASSUME NEW j \in OwnOps(r, s) PROVE \E k \in 1..Len(b) : s[j].op = b[k]
    OBVIOUS
  <2>1. s[j].op \in {s[k].op : k \in OwnOps(r, s)}
    OBVIOUS
  <2> QED BY <2>1 DEF Awaits
<1> HIDE DEF t, c, n
<1>5. {c[k] : k \in 1..Len(c)} = {t[k].op : k \in OwnOps(r, t)}
  <2>1. ASSUME NEW k \in 1..Len(c) PROVE c[k] \in {t[j].op : j \in OwnOps(r, t)}
    <3>1. CASE k = Len(b) + 1
      BY <1>1, <1>2, <3>1
    <3>2. CASE k # Len(b) + 1
      <4>1. k \in 1..Len(b)
        BY <1>2, <3>2
      <4> QED BY <1>1, <1>2, <1>3, <4>1
    <3> QED BY <3>1, <3>2
  <2>2. ASSUME NEW j \in OwnOps(r, t) PROVE t[j].op \in {c[k] : k \in 1..Len(c)}
    <3>1. CASE j = n
      <4>1. Len(b) + 1 \in 1..Len(c)
        BY <1>2
      <4> QED BY <1>1, <1>2, <3>1, <4>1
    <3>2. CASE j \in OwnOps(r, s)
      <4>1. PICK k \in 1..Len(b) : s[j].op = b[k]
        BY <1>4, <3>2
      <4>2. k \in 1..Len(c)
        BY <1>2
      <4> QED BY <1>1, <1>2, <3>2, <4>1, <4>2
    <3> QED BY <1>1, <3>1, <3>2
  <2> QED BY <2>1, <2>2
<1>6. ASSUME NEW j \in 1..Len(c), NEW k \in 1..Len(c), j < k PROVE c[j] < c[k]
  <2>1. j \in 1..Len(b)
    BY <1>2, <1>6
  <2>2. CASE k = Len(b) + 1
    <3>1. PICK i \in OwnOps(r, s) : b[j] = s[i].op
      BY <1>3, <2>1
    <3> QED BY <1>2, <2>1, <2>2, <3>1
  <2>3. CASE k # Len(b) + 1
    <3>1. k \in 1..Len(b)
      BY <1>2, <2>3
    <3> QED BY <1>2, <1>6, <2>1, <3>1 DEF Awaits
  <2> QED BY <2>2, <2>3
<1>7. ASSUME NEW j \in OwnOps(r, t), NEW k \in OwnOps(r, t), j < k PROVE t[j].op < t[k].op
  <2>1. j \in OwnOps(r, s)
    BY <1>1, <1>7
  <2>2. CASE k = n
    BY <1>1, <2>1, <2>2
  <2>3. CASE k \in OwnOps(r, s)
    BY <1>1, <1>7, <2>1, <2>3 DEF Awaits
  <2> QED BY <1>1, <2>2, <2>3
<1>8. Awaits(r, c, t)
  BY <1>5, <1>6, <1>7 DEF Awaits
<1> QED BY <1>8 DEF c, t

\* The first own operation to come back is the first pending one.
LEMMA AwaitsReturned ==
    ASSUME NEW r, NEW b \in Seq(Ops), NEW s \in Seq(Messages), s # <<>>, Awaits(r, b, s),
           Head(s).type = "STATE_OPERATION", Head(s).from = r
    PROVE  /\ b # <<>> /\ b[1] = Head(s).op
           /\ Without(b, Head(s).op) = Tail(b)
           /\ Awaits(r, Tail(b), Tail(s))
<1> DEFINE t == Tail(s)
           c == Tail(b)
           x == Head(s).op
<1>1. /\ \A k \in OwnOps(r, t) : k + 1 \in OwnOps(r, s) /\ t[k] = s[k + 1] /\ k \in Nat \ {0}
      /\ \A k \in OwnOps(r, s) : k \in Nat \ {0} /\ (k # 1 => k - 1 \in OwnOps(r, t))
      /\ 1 \in OwnOps(r, s) /\ s[1].op = x
  BY OwnOpsTail, TailFacts
<1>2. \A k \in 1..Len(b) : \E j \in OwnOps(r, s) : b[k] = s[j].op
  <2> SUFFICES ASSUME NEW k \in 1..Len(b) PROVE \E j \in OwnOps(r, s) : b[k] = s[j].op
    OBVIOUS
  <2>1. b[k] \in {b[i] : i \in 1..Len(b)}
    OBVIOUS
  <2> QED BY <2>1 DEF Awaits
<1>3. \A j \in OwnOps(r, s) : \E k \in 1..Len(b) : s[j].op = b[k]
  <2> SUFFICES ASSUME NEW j \in OwnOps(r, s) PROVE \E k \in 1..Len(b) : s[j].op = b[k]
    OBVIOUS
  <2>1. s[j].op \in {s[k].op : k \in OwnOps(r, s)}
    OBVIOUS
  <2> QED BY <2>1 DEF Awaits
<1>4. /\ \A j, k \in 1..Len(b) : j < k => b[j] < b[k]
      /\ \A j, k \in OwnOps(r, s) : j < k => s[j].op < s[k].op
      /\ \A k \in 1..Len(b) : b[k] \in Nat
      /\ Len(b) \in Nat
  <2>1. \A k \in 1..Len(b) : b[k] \in Nat
    BY ElementOfSeq DEF Ops
  <2> QED BY <2>1 DEF Awaits
<1> HIDE DEF t, x
<1>5. b # <<>> /\ 1 \in 1..Len(b) /\ b[1] = x
  <2>1. PICK k \in 1..Len(b) : x = b[k]
    BY <1>1, <1>3
  <2>2. b # <<>> /\ 1 \in 1..Len(b)
    BY <1>4, <2>1
  <2>3. CASE k = 1
    BY <2>1, <2>2, <2>3
  <2>4. CASE k # 1
    <3>1. b[1] < x /\ x \in Nat /\ b[1] \in Nat
      BY <1>4, <2>1, <2>2, <2>4
    <3>2. PICK j \in OwnOps(r, s) : b[1] = s[j].op
      BY <1>2, <2>2
    <3>3. CASE j = 1
      BY <1>1, <3>1, <3>2, <3>3
    <3>4. CASE j # 1
      <4>1. 1 < j /\ 1 \in OwnOps(r, s)
        BY <1>1, <3>4
      <4>2. s[1].op < s[j].op
        BY <1>4, <4>1
      <4>3. x < b[1]
        BY <1>1, <3>2, <4>2
      <4> QED BY <3>1, <4>3
    <3> QED BY <3>3, <3>4
  <2> QED BY <2>2, <2>3, <2>4
<1>6. Without(b, x) = Tail(b)
  <2>1. \A k \in 1..Len(b) : b[k] = x => k = 1
    BY <1>4, <1>5
  <2>2. (CHOOSE i \in 1..Len(b) : b[i] = x) = 1
    BY <1>5, <2>1
  <2>3. Without(b, x) = SubSeq(b, 1, 1 - 1) \o SubSeq(b, 1 + 1, Len(b))
    BY <1>5, <2>2 DEF Without
  <2>4. SubSeq(b, 1, 0) = <<>>
    BY SubSeqEmpty
  <2>5. SubSeq(b, 2, Len(b)) = Tail(b) /\ Tail(b) \in Seq(Ops)
    BY <1>5, TailIsSubSeq, HeadTailProperties
  <2>6. <<>> \o Tail(b) = Tail(b)
    BY <2>5, ConcatEmptySeq
  <2> QED BY <2>3, <2>4, <2>5, <2>6
<1>7. /\ Len(c) = Len(b) - 1 /\ \A i \in 1..(Len(b) - 1) : c[i] = b[i + 1]
  BY <1>5, HeadTailProperties
<1> HIDE DEF c
<1>8. {c[k] : k \in 1..Len(c)} = {t[k].op : k \in OwnOps(r, t)}
  <2>1. ASSUME NEW k \in 1..Len(c) PROVE c[k] \in {t[j].op : j \in OwnOps(r, t)}
    <3>1. k + 1 \in 1..Len(b) /\ c[k] = b[k + 1] /\ b[1] < b[k + 1]
      <4>1. k \in 1..(Len(b) - 1) /\ k + 1 \in 1..Len(b) /\ 1 < k + 1
        BY <1>4, <1>7
      <4>2. c[k] = b[k + 1]
        BY <1>7, <4>1
      <4>3. b[1] < b[k + 1]
        BY <1>4, <1>5, <4>1
      <4> QED BY <4>1, <4>2, <4>3
    <3>2. PICK j \in OwnOps(r, s) : b[k + 1] = s[j].op
      BY <1>2, <3>1
    <3>3. j # 1
      BY <1>1, <1>4, <1>5, <3>1, <3>2
    <3>4. j - 1 \in OwnOps(r, t) /\ t[j - 1] = s[j]
      BY <1>1, <3>3
    <3> QED BY <3>1, <3>2, <3>4
  <2>2. ASSUME NEW j \in OwnOps(r, t) PROVE t[j].op \in {c[k] : k \in 1..Len(c)}
    <3>1. j + 1 \in OwnOps(r, s) /\ t[j] = s[j + 1] /\ x < s[j + 1].op
      BY <1>1, <1>4
    <3>2. PICK k \in 1..Len(b) : s[j + 1].op = b[k]
      BY <1>3, <3>1
    <3>3. k # 1
      BY <1>4, <1>5, <3>1, <3>2
    <3>4. k - 1 \in 1..Len(c) /\ c[k - 1] = b[k]
      BY <1>4, <1>7, <3>3
    <3> QED BY <3>1, <3>2, <3>4
  <2> QED BY <2>1, <2>2
<1>9. ASSUME NEW j \in 1..Len(c), NEW k \in 1..Len(c), j < k PROVE c[j] < c[k]
  <2>1. j + 1 \in 1..Len(b) /\ k + 1 \in 1..Len(b) /\ j + 1 < k + 1
    BY <1>4, <1>7, <1>9
  <2> QED BY <1>4, <1>7, <2>1
<1>10. ASSUME NEW j \in OwnOps(r, t), NEW k \in OwnOps(r, t), j < k PROVE t[j].op < t[k].op
  <2>1. j + 1 \in OwnOps(r, s) /\ k + 1 \in OwnOps(r, s) /\ j + 1 < k + 1
    BY <1>1, <1>10
  <2> QED BY <1>1, <1>4, <2>1
<1>11. Awaits(r, c, t)
  BY <1>8, <1>9, <1>10 DEF Awaits
<1> QED BY <1>5, <1>6, <1>11 DEF c, t, x

\* The prediction when an operation is issued and when it comes back.
LEMMA PredictionIssued ==
    ASSUME NEW c \in Seq(Ops), NEW b \in Seq(Ops), NEW x \in Ops
    PROVE  Append(c \o b, x) = c \o Append(b, x)
<1> DEFINE s == Append(c \o b, x)
           t == c \o Append(b, x)
<1>1. /\ Append(b, x) \in Seq(Ops) /\ c \o b \in Seq(Ops)
  BY ConcatProperties
<1>2. s \in Seq(Ops) /\ t \in Seq(Ops) /\ Len(s) = Len(t)
  BY <1>1, ConcatProperties, AppendFacts
<1>3. \A i \in 1..Len(s) : s[i] = t[i]
  BY <1>1, ConcatProperties, AppendFacts
<1> HIDE DEF s, t
<1>4. s = t
  BY <1>2, <1>3, SeqEqual
<1> QED BY <1>4 DEF s, t

LEMMA PredictionReturned ==
    ASSUME NEW c \in Seq(Ops), NEW b \in Seq(Ops), b # <<>>
    PROVE  Append(c, b[1]) \o Tail(b) = c \o b
<1> DEFINE s == Append(c, b[1]) \o Tail(b)
           t == c \o b
<1>1. /\ b[1] \in Ops /\ Tail(b) \in Seq(Ops) /\ Len(Tail(b)) = Len(b) - 1
      /\ \A i \in 1..(Len(b) - 1) : Tail(b)[i] = b[i + 1]
      /\ Len(b) \in Nat \ {0} /\ Len(c) \in Nat
  BY HeadTailProperties, EmptySeq, ElementOfSeq
<1>2. /\ Append(c, b[1]) \in Seq(Ops) /\ Len(Append(c, b[1])) = Len(c) + 1
      /\ \A i \in 1..Len(c) : Append(c, b[1])[i] = c[i]
      /\ Append(c, b[1])[Len(c) + 1] = b[1]
  BY <1>1, AppendFacts
<1>3. /\ s \in Seq(Ops) /\ Len(s) = Len(c) + Len(b)
      /\ \A i \in 1..(Len(c) + Len(b)) :
            s[i] = IF i <= Len(c) + 1 THEN Append(c, b[1])[i] ELSE Tail(b)[i - (Len(c) + 1)]
  <2>1. /\ s \in Seq(Ops) /\ Len(s) = (Len(c) + 1) + (Len(b) - 1)
        /\ \A i \in 1..((Len(c) + 1) + (Len(b) - 1)) :
            s[i] = IF i <= Len(c) + 1 THEN Append(c, b[1])[i] ELSE Tail(b)[i - (Len(c) + 1)]
    BY <1>1, <1>2, ConcatProperties
  <2>2. (Len(c) + 1) + (Len(b) - 1) = Len(c) + Len(b)
    BY <1>1
  <2> HIDE DEF s
  <2> QED BY <2>1, <2>2
<1>4. /\ t \in Seq(Ops) /\ Len(t) = Len(c) + Len(b)
      /\ \A i \in 1..(Len(c) + Len(b)) : t[i] = IF i <= Len(c) THEN c[i] ELSE b[i - Len(c)]
  BY ConcatProperties
<1> HIDE DEF s, t
<1>5. ASSUME NEW i \in 1..Len(s) PROVE s[i] = t[i]
  <2>1. CASE i <= Len(c)
    BY <1>1, <1>2, <1>3, <1>4, <2>1
  <2>2. CASE i = Len(c) + 1
    BY <1>1, <1>2, <1>3, <1>4, <2>2
  <2>3. CASE i > Len(c) + 1
    <3>1. i - (Len(c) + 1) \in 1..(Len(b) - 1) /\ (i - (Len(c) + 1)) + 1 = i - Len(c)
      BY <1>1, <1>3, <2>3
    <3> QED BY <1>1, <1>3, <1>4, <2>3, <3>1
  <2>4. i <= Len(c) \/ i = Len(c) + 1 \/ i > Len(c) + 1
    BY <1>1, <1>3
  <2> QED BY <2>1, <2>2, <2>3, <2>4
<1>6. s = t
  BY <1>3, <1>4, <1>5, SeqEqual
<1> QED BY <1>6 DEF s, t

\* What another actor's step may do to a stream: leave it, or add a stanza that
\* is no operation of r's own.
Sent(r, s, t) ==
    \/ t = s
    \/ \E m \in Messages : ~(m.type = "STATE_OPERATION" /\ m.from = r) /\ t = Append(s, m)

LEMMA SentKeeps ==
    ASSUME NEW r, NEW b, NEW s \in Seq(Messages), NEW t, Sent(r, s, t), Awaits(r, b, s)
    PROVE  Awaits(r, b, t)
BY AwaitsAppend DEF Sent

LEMMA MulticastSent ==
    ASSUME NEW r \in Replicas, NEW q, NEW box \in [Replicas -> Seq(Messages)], NEW m \in Messages,
           Multicast(q, box, m), ~(m.type = "STATE_OPERATION" /\ m.from = r)
    PROVE  Sent(r, box[r], inbox'[r])
BY DEF Multicast, Sent

LEMMA UnicastSent ==
    ASSUME NEW r \in Replicas, NEW q, NEW box \in [Replicas -> Seq(Messages)], NEW to \in Replicas,
           NEW m \in Messages, Unicast(q, box, to, m), ~(m.type = "STATE_OPERATION" /\ m.from = r)
    PROVE  Sent(r, box[r], inbox'[r])
BY DEF Unicast, Sent

\* A replica in the room shows the operations it has applied and, after them,
\* those it waits for.
Foretold(r) == status[r] = "in" => Trusted(r)

LEMMA ForetoldSame ==
    ASSUME NEW r \in Replicas, NEW s \in Seq(Messages), Foretold(r), status[r] = "in",
           prop'[r].pending = prop[r].pending, prop'[r].clean = prop[r].clean,
           prop'[r].state = prop[r].state,
           Awaits(r, prop[r].pending, s), Sent(r, s, inbox'[r])
    PROVE  Foretold(r)'
BY SentKeeps DEF Foretold, Trusted, Predicted

LEMMA ForetoldInit ==
    ASSUME Init, NEW r \in Steady
    PROVE  Foretold(r)
<1>1. r \in Replicas /\ prop[r].pending = <<>> /\ prop[r].clean = <<>> /\ prop[r].state = <<>>
      /\ inbox[r] = <<>>
  BY SteadyReplicas DEF Init, InitProp
<1>2. <<>> \in Seq(Ops) /\ <<>> \in Seq(Messages) /\ Len(<<>>) = 0
  BY EmptySeq
<1>3. OwnOps(r, <<>>) = {} /\ 1..Len(<<>>) = {}
  BY <1>2 DEF OwnOps
<1>4. Awaits(r, <<>>, <<>>)
  BY <1>3 DEF Awaits
<1>5. <<>> \o <<>> = <<>>
  BY <1>2, ConcatEmptySeq
<1> QED BY <1>1, <1>4, <1>5 DEF Foretold, Trusted, Predicted

\* No step brings a steady replica back into the room.
LEMMA SteadyStays ==
    ASSUME TypeOK, OrderInvariant, NEW r \in Steady, [Next]_vars, status'[r] = "in"
    PROVE  status[r] = "in"
<1>1. r \in Replicas /\ r \notin Churn /\ status[r] \in {"in", "raised"}
  BY SteadyReplicas DEF OrderInvariant, SteadyOK
<1>2. CASE UNCHANGED vars
  BY <1>2 DEF vars
<1>3. CASE Next
  <2>1. PICK q \in Replicas :
          AddOperation(q) \/ Timer(q) \/ HandleMessage(q) \/ DropUnhandled(q) \/ Joining(q) \/ Leaving(q)
    BY <1>3 DEF Next
  <2>2. CASE AddOperation(q) \/ Timer(q) \/ DropUnhandled(q)
    BY <2>2 DEF AddOperation, Timer, PeriodicTask, SendHello, BroadcastSyncRequest, DropUnhandled
  <2>3. CASE HandleMessage(q)
    BY <1>1, <2>3 DEF TypeOK, HandleMessage, ApplyOperation, RaiseOnConflict, AnswerSendMeState,
       AnswerWhoHasState, EnterSync, BufferOperation, AcceptIHaveState, InstallState, IgnoreMessage
  <2>4. CASE Joining(q) \/ Leaving(q)
    BY <1>1, <2>4 DEF TypeOK, Joining, JoinRoom, RegisterMessageHandler, AfterActivityJoin, RejoinRoom,
       Leaving, LoseConnection, LeaveRoom
  <2> QED BY <2>1, <2>2, <2>3, <2>4
<1> QED BY <1>2, <1>3

\* The steps of another actor.
LEMMA OthersSend ==
    ASSUME TypeOK, NEW r \in Replicas, NEW q \in Replicas, q # r,
           AddOperation(q) \/ Timer(q) \/ HandleMessage(q) \/ DropUnhandled(q) \/ Joining(q) \/ Leaving(q)
    PROVE  prop'[r] = prop[r] /\ Sent(r, inbox[r], inbox'[r])
<1> DEFINE m == Head(inbox[q])
<1>1. r \in Replicas
  OBVIOUS
<1>2. inbox \in [Replicas -> Seq(Messages)] /\ inbox[r] \in Seq(Messages)
  BY <1>1 DEF TypeOK
<1>3. Sent(r, inbox[r], inbox[r])
  BY DEF Sent
<1>4. prop'[r] = prop[r]
  BY <1>1 DEF TypeOK, AddOperation, Timer, PeriodicTask, SendHello, BroadcastSyncRequest,
     HandleMessage, ApplyOperation, RaiseOnConflict, AnswerSendMeState, AnswerWhoHasState, EnterSync,
     BufferOperation, AcceptIHaveState, InstallState, IgnoreMessage, DropUnhandled, Joining, JoinRoom,
     RegisterMessageHandler, AfterActivityJoin, RejoinRoom, Leaving, LoseConnection, LeaveRoom
<1>5. Rest(q)[r] = inbox[r]
  BY <1>1, <1>2 DEF Rest
<1>6. ASSUME inbox[q] # <<>>
      PROVE  Rest(q) \in [Replicas -> Seq(Messages)] /\ m \in Messages /\ m.from \in Replicas
  BY <1>2, <1>6, HeadTailProperties, MessageKinds DEF Rest
<1> HIDE DEF m
<1>7. SUFFICES Sent(r, inbox[r], inbox'[r])
  BY <1>4
<1>8. CASE AddOperation(q)
  <2>1. StateOperation(q, issued + 1, Len(log) + 1) \in Messages
    <3>1. issued + 1 \in Ops /\ Len(log) + 1 \in Nat
      BY BoundsAssumption DEF TypeOK, Ops
    <3> QED BY <3>1, BuiltMessages
  <2>2. StateOperation(q, issued + 1, Len(log) + 1).from = q
    BY DEF StateOperation
  <2>3. Multicast(q, inbox, StateOperation(q, issued + 1, Len(log) + 1))
    BY <1>8 DEF AddOperation
  <2> QED BY <1>1, <1>2, <2>1, <2>2, <2>3, MulticastSent
<1>9. CASE Timer(q)
  <2>1. CASE PeriodicTask(q)
    BY <1>3, <2>1 DEF PeriodicTask
  <2>2. CASE SendHello(q)
    <3>1. Hello(q) \in Messages /\ Hello(q).from = q
      BY BuiltMessages DEF Hello
    <3> QED BY <1>1, <1>2, <2>2, <3>1, MulticastSent DEF SendHello
  <2>3. CASE BroadcastSyncRequest(q)
    <3> DEFINE w == SyncRequest("WHO_HAS_STATE", q, prop[q].syncId)
    <3>1. w \in Messages /\ w.from = q
      <4>1. prop[q].syncId \in SyncIds \cup {NoSync}
        BY DEF TypeOK, PropObject
      <4> QED BY <4>1, BuiltMessages DEF SyncRequest
    <3>2. Multicast(q, inbox, w)
      BY <2>3 DEF BroadcastSyncRequest
    <3> QED BY <1>1, <1>2, <3>1, <3>2, MulticastSent
  <2> QED BY <1>9, <2>1, <2>2, <2>3 DEF Timer
<1>10. CASE HandleMessage(q)
  <2>1. inbox[q] # <<>>
    BY <1>10 DEF HandleMessage, ApplyOperation, RaiseOnConflict, AnswerSendMeState, AnswerWhoHasState,
       EnterSync, BufferOperation, AcceptIHaveState, InstallState, IgnoreMessage, Handling
  <2>2. CASE ApplyOperation(q) \/ BufferOperation(q) \/ InstallState(q) \/ IgnoreMessage(q)
    BY <1>3, <1>5, <2>2 DEF ApplyOperation, BufferOperation, InstallState, IgnoreMessage
  <2>3. CASE RaiseOnConflict(q)
    BY <1>1, <1>2, <1>3, <2>3 DEF RaiseOnConflict
  <2>4. CASE AnswerSendMeState(q)
    <3> DEFINE a == StateSync(q, m.syncId)
    <3>1. a \in Messages /\ a.from = q
      <4>1. m.syncId \in SyncIds \cup {NoSync}
        BY <1>6, <2>1, <2>4, MessageKinds DEF SyncMsg, AnswerSendMeState, Handling, m
      <4> QED BY <4>1, BuiltMessages DEF StateSync
    <3>2. Unicast(q, Rest(q), m.from, a)
      BY <2>4 DEF AnswerSendMeState, m
    <3> HIDE DEF a
    <3> QED BY <1>1, <1>5, <1>6, <2>1, <3>1, <3>2, UnicastSent
  <2>5. CASE AnswerWhoHasState(q)
    <3> DEFINE a == SyncRequest("I_HAVE_STATE", q, m.syncId)
    <3>1. a \in Messages /\ a.from = q
      <4>1. m.syncId \in SyncIds \cup {NoSync}
        BY <1>6, <2>1, <2>5, MessageKinds DEF SyncMsg, AnswerWhoHasState, Handling, m
      <4> QED BY <4>1, BuiltMessages DEF SyncRequest
    <3>2. Unicast(q, Rest(q), m.from, a)
      BY <2>5 DEF AnswerWhoHasState, m
    <3> HIDE DEF a
    <3> QED BY <1>1, <1>5, <1>6, <2>1, <3>1, <3>2, UnicastSent
  <2>6. CASE EnterSync(q)
    <3>1. PICK id \in SyncIds : Multicast(q, Rest(q), SyncRequest("WHO_HAS_STATE", q, id))
      <4>1. FreshSyncIds # {} /\ FreshSyncIds \subseteq SyncIds
        BY <2>6 DEF EnterSync, FreshSyncIds
      <4>2. Multicast(q, Rest(q), SyncRequest("WHO_HAS_STATE", q, CHOOSE i \in FreshSyncIds : TRUE))
        BY <2>6 DEF EnterSync
      <4>3. (CHOOSE i \in FreshSyncIds : TRUE) \in SyncIds
        BY <4>1
      <4> QED BY <4>2, <4>3
    <3>2. SyncRequest("WHO_HAS_STATE", q, id) \in Messages /\ SyncRequest("WHO_HAS_STATE", q, id).from = q
      BY BuiltMessages DEF SyncRequest
    <3> QED BY <1>1, <1>5, <1>6, <2>1, <3>1, <3>2, MulticastSent
  <2>7. CASE AcceptIHaveState(q)
    <3> DEFINE a == SyncRequest("SEND_ME_STATE", q, m.syncId)
    <3>1. a \in Messages /\ a.from = q
      <4>1. m.syncId \in SyncIds \cup {NoSync}
        BY <1>6, <2>1, <2>7, MessageKinds DEF SyncMsg, AcceptIHaveState, Handling, m
      <4> QED BY <4>1, BuiltMessages DEF SyncRequest
    <3>2. Unicast(q, Rest(q), m.from, a)
      BY <2>7 DEF AcceptIHaveState, m
    <3> HIDE DEF a
    <3> QED BY <1>1, <1>5, <1>6, <2>1, <3>1, <3>2, UnicastSent
  <2> QED BY <1>10, <2>2, <2>3, <2>4, <2>5, <2>6, <2>7 DEF HandleMessage
<1>11. CASE DropUnhandled(q) \/ Joining(q) \/ Leaving(q)
  <2>1. inbox'[r] = inbox[r]
    BY <1>1, <1>2, <1>11 DEF DropUnhandled, Rest, Joining, JoinRoom, RegisterMessageHandler,
       AfterActivityJoin, RejoinRoom, Leaving, LoseConnection, LeaveRoom
  <2> QED BY <1>3, <2>1
<1> QED BY <1>8, <1>9, <1>10, <1>11

LEMMA ForetoldOther ==
    ASSUME TypeOK, NEW r \in Steady, NEW q \in Replicas, q # r, Foretold(r), status[r] = "in",
           AddOperation(q) \/ Timer(q) \/ HandleMessage(q) \/ DropUnhandled(q) \/ Joining(q) \/ Leaving(q)
    PROVE  Foretold(r)'
<1>1. r \in Replicas /\ inbox[r] \in Seq(Messages) /\ Awaits(r, prop[r].pending, inbox[r])
  BY SteadyReplicas DEF TypeOK, Foretold, Trusted
<1> QED BY <1>1, OthersSend, ForetoldSame

\* The replica's own steps: an operation of its own is issued ...
LEMMA TrustedIssued ==
    ASSUME TypeOK, OrderInvariant, NEW r \in Replicas, Trusted(r), Occupant(r), AddOperation(r)
    PROVE  Trusted(r)'
<1> DEFINE op == issued + 1
           m == StateOperation(r, op, Len(log) + 1)
<1>1. r \in Replicas /\ prop[r] \in PropObject /\ inbox[r] \in Seq(Messages) /\ log \in Seq(Ops)
      /\ prop \in [Replicas -> PropObject] /\ inbox \in [Replicas -> Seq(Messages)]
  BY DEF TypeOK
<1>2. prop[r].clean \in Seq(Ops) /\ prop[r].pending \in Seq(Ops)
  BY <1>1 DEF PropObject
<1>3. issued \in Nat /\ op \in Ops /\ op \in Nat /\ Len(log) + 1 \in Nat
  BY BoundsAssumption, <1>1 DEF TypeOK, Ops
<1>4. m \in Messages /\ m.type = "STATE_OPERATION" /\ m.from = r /\ m.op = op
  BY <1>1, <1>3, BuiltMessages DEF StateOperation
<1>5. inbox'[r] = Append(inbox[r], m)
  <2>1. Multicast(r, inbox, m)
    BY DEF AddOperation
  <2> HIDE DEF m
  <2> QED BY <1>1, <2>1 DEF Multicast
<1>6. \A k \in OwnOps(r, inbox[r]) : inbox[r][k].op < op
  <2> SUFFICES ASSUME NEW k \in OwnOps(r, inbox[r]) PROVE inbox[r][k].op < op
    OBVIOUS
  <2>1. k \in 1..Len(inbox[r]) /\ IsOp(inbox[r][k])
    BY DEF OwnOps, IsOp
  <2>2. Placed(log, inbox[r][k]) /\ LogOK(log, issued)
    BY <1>1, <2>1 DEF OrderInvariant, ReplicaOK, StreamOK, OpsPlaced
  <2> QED BY <1>3, <2>2 DEF Placed, LogOK
<1>7. Awaits(r, Append(prop[r].pending, op), Append(inbox[r], m))
  <2> HIDE DEF m, op
  <2>1. Awaits(r, prop[r].pending, inbox[r])
    BY DEF Trusted
  <2>2. Awaits(r, Append(prop[r].pending, m.op), Append(inbox[r], m))
    BY <1>1, <1>2, <1>3, <1>4, <1>6, <2>1, AwaitsIssued
  <2> QED BY <1>4, <2>2
<1>8. /\ prop'[r].state = Append(prop[r].state, op) /\ prop'[r].pending = Append(prop[r].pending, op)
      /\ prop'[r].clean = prop[r].clean
  <2>1. prop' = [prop EXCEPT ![r].state = Append(@, op), ![r].pending = Append(@, op)]
    BY DEF AddOperation
  <2> HIDE DEF op
  <2>2. prop'[r] = [prop[r] EXCEPT !.state = Append(@, op), !.pending = Append(@, op)]
    BY <1>1, <2>1
  <2> QED BY <1>1, <2>2 DEF PropObject
<1> HIDE DEF m, op
<1>9. Append(prop[r].clean \o prop[r].pending, op) = prop[r].clean \o Append(prop[r].pending, op)
  BY <1>2, <1>3, PredictionIssued
<1> QED BY <1>5, <1>7, <1>8, <1>9 DEF Trusted, Predicted

\* ... or an operation is applied: its own is the first one pending, and no
\* other comes while operations are pending, or it raises.
LEMMA TrustedApplied ==
    ASSUME TypeOK, NEW r \in Replicas, UnknownOp = "raise", Trusted(r), ApplyOperation(r)
    PROVE  Trusted(r)'
<1> DEFINE m == Head(inbox[r])
           p == prop[r]
           q == HandleReceivedOp(p, r, m)
<1>1. r \in Replicas /\ p \in PropObject /\ inbox[r] \in Seq(Messages)
      /\ prop \in [Replicas -> PropObject] /\ inbox \in [Replicas -> Seq(Messages)]
  BY DEF TypeOK
<1>2. inbox[r] # <<>> /\ m.type = "STATE_OPERATION" /\ ~Raises(p, r, m)
      /\ prop' = [prop EXCEPT ![r] = q] /\ inbox' = Rest(r)
  BY DEF ApplyOperation, Handling
<1>3. p.clean \in Seq(Ops) /\ p.pending \in Seq(Ops) /\ p.state \in Seq(Ops)
  BY <1>1 DEF PropObject
<1>4. m \in Messages /\ m.op \in Ops
  <2>1. m \in Messages
    BY <1>1, <1>2, HeadTailProperties
  <2> QED BY <1>2, <2>1, MessageKinds DEF OperationMsg
<1>5. inbox'[r] = Tail(inbox[r])
  BY <1>1, <1>2 DEF Rest
<1>6. Awaits(r, p.pending, inbox[r]) /\ p.state = p.clean \o p.pending
  BY DEF Trusted, Predicted
<1>7. prop'[r] = q
  <2> HIDE DEF q
  <2> QED BY <1>1, <1>2
<1>8. CASE m.from = r
  <2>1. /\ p.pending # <<>> /\ p.pending[1] = m.op
        /\ Without(p.pending, m.op) = Tail(p.pending)
        /\ Awaits(r, Tail(p.pending), Tail(inbox[r]))
    <3> HIDE DEF p
    <3> QED BY <1>1, <1>2, <1>3, <1>6, <1>8, AwaitsReturned
  <2>2. q.clean = Append(p.clean, m.op) /\ q.state = p.state /\ q.pending = Without(p.pending, m.op)
    <3> HIDE DEF m
    <3>1. q = HandleOwnOp(p, m)
      BY <1>8 DEF HandleReceivedOp
    <3> QED BY <1>1, <3>1 DEF HandleOwnOp, PropObject
  <2> HIDE DEF q, m
  <2>3. Append(p.clean, p.pending[1]) \o Tail(p.pending) = p.clean \o p.pending
    <3> HIDE DEF p
    <3> QED BY <1>3, <2>1, PredictionReturned
  <2>4. Append(p.clean, m.op) \o Tail(p.pending) = p.clean \o p.pending
    BY <2>1, <2>3
  <2>5. /\ prop'[r].clean = Append(p.clean, m.op) /\ prop'[r].state = p.clean \o p.pending
        /\ prop'[r].pending = Tail(p.pending)
    BY <1>6, <1>7, <2>1, <2>2
  <2> HIDE DEF p
  <2> QED BY <1>5, <2>1, <2>4, <2>5 DEF Trusted, Predicted
<1>9. CASE m.from # r
  <2>1. p.pending = <<>>
    BY <1>2, <1>9 DEF Raises
  <2>2. q.clean = Append(p.clean, m.op) /\ q.state = Append(p.state, m.op) /\ q.pending = p.pending
    <3> HIDE DEF m
    <3>1. q = HandleRemoteOp(p, m)
      BY <1>9 DEF HandleReceivedOp
    <3> QED BY <1>1, <2>1, <3>1 DEF HandleRemoteOp, PropObject
  <2>3. Awaits(r, p.pending, Tail(inbox[r]))
    BY <1>1, <1>2, <1>6, <1>9, AwaitsTail
  <2>4. p.state = p.clean
    BY <1>3, <1>6, <2>1, ConcatEmptySeq
  <2>5. Append(p.clean, m.op) \o <<>> = Append(p.clean, m.op)
    BY <1>3, <1>4, AppendFacts, ConcatEmptySeq
  <2> HIDE DEF q, m
  <2>6. /\ prop'[r].clean = Append(p.clean, m.op) /\ prop'[r].state = Append(p.clean, m.op)
        /\ prop'[r].pending = <<>>
    BY <1>7, <2>1, <2>2, <2>4
  <2> HIDE DEF p
  <2> QED BY <1>5, <2>1, <2>3, <2>5, <2>6 DEF Trusted, Predicted
<1> QED BY <1>8, <1>9

\* ... or a stanza that is no operation, or none, is taken.
LEMMA ForetoldOwn ==
    ASSUME TypeOK, TypeOK', OrderInvariant, OrderInvariant', NEW r \in Steady, UnknownOp = "raise",
           Foretold(r), status[r] = "in", status'[r] = "in",
           AddOperation(r) \/ Timer(r) \/ HandleMessage(r) \/ DropUnhandled(r) \/ Joining(r) \/ Leaving(r)
    PROVE  Foretold(r)'
<1> DEFINE m == Head(inbox[r])
<1>1. r \in Replicas /\ r \notin Churn /\ prop[r] \in PropObject
      /\ prop \in [Replicas -> PropObject]
      /\ inbox \in [Replicas -> Seq(Messages)] /\ inbox[r] \in Seq(Messages)
  BY SteadyReplicas DEF TypeOK
<1>2. prop[r].mode = "NORM" /\ prop'[r].mode = "NORM"
  BY DEF OrderInvariant, SteadyOK
<1>3. Awaits(r, prop[r].pending, inbox[r]) /\ Sent(r, inbox[r], inbox[r])
  BY DEF Foretold, Trusted, Sent
<1>4. ASSUME inbox[r] # <<>>
      PROVE  /\ Rest(r) \in [Replicas -> Seq(Messages)] /\ Rest(r)[r] = Tail(inbox[r])
             /\ Tail(inbox[r]) \in Seq(Messages) /\ m \in Messages /\ m.from \in Replicas
             /\ m.type # "STATE_OPERATION" => Awaits(r, prop[r].pending, Tail(inbox[r]))
  <2>1. m \in Messages /\ Tail(inbox[r]) \in Seq(Messages)
    BY <1>1, <1>4, HeadTailProperties
  <2>2. m.type # "STATE_OPERATION" => Awaits(r, prop[r].pending, Tail(inbox[r]))
    BY <1>1, <1>3, <1>4, AwaitsTail
  <2>3. m.from \in Replicas
    BY <2>1, MessageKinds
  <2>4. Rest(r) \in [Replicas -> Seq(Messages)] /\ Rest(r)[r] = Tail(inbox[r])
    BY <1>1, <2>1 DEF Rest
  <2> QED BY <2>1, <2>2, <2>3, <2>4
<1> HIDE DEF m
<1>5. CASE AddOperation(r)
  BY <1>1, <1>5, TrustedIssued DEF Foretold, Occupant
<1>6. CASE Timer(r)
  <2>1. prop' = prop
    BY <1>6 DEF Timer, PeriodicTask, SendHello, BroadcastSyncRequest
  <2>2. Sent(r, inbox[r], inbox'[r])
    <3>1. CASE PeriodicTask(r)
      BY <1>3, <3>1 DEF PeriodicTask
    <3>2. CASE SendHello(r)
      <4>1. Hello(r) \in Messages /\ Hello(r).type = "HELLO"
        BY <1>1, BuiltMessages DEF Hello
      <4>2. Multicast(r, inbox, Hello(r))
        BY <3>2 DEF SendHello
      <4> QED BY <1>1, <4>1, <4>2, MulticastSent
    <3>3. CASE BroadcastSyncRequest(r)
      <4> DEFINE w == SyncRequest("WHO_HAS_STATE", r, prop[r].syncId)
      <4>1. w \in Messages /\ w.type = "WHO_HAS_STATE"
        <5>1. prop[r].syncId \in SyncIds \cup {NoSync}
          BY <1>1 DEF PropObject
        <5> QED BY <1>1, <5>1, BuiltMessages DEF SyncRequest
      <4>2. Multicast(r, inbox, w)
        BY <3>3 DEF BroadcastSyncRequest
      <4> HIDE DEF w
      <4> QED BY <1>1, <4>1, <4>2, MulticastSent
    <3> QED BY <1>6, <3>1, <3>2, <3>3 DEF Timer
  <2> QED BY <1>1, <1>3, <2>1, <2>2, ForetoldSame
<1>7. CASE HandleMessage(r)
  <2>1. inbox[r] # <<>>
    BY <1>7 DEF HandleMessage, ApplyOperation, RaiseOnConflict, AnswerSendMeState, AnswerWhoHasState,
       EnterSync, BufferOperation, AcceptIHaveState, InstallState, IgnoreMessage, Handling
  <2>2. CASE ApplyOperation(r)
    BY <1>1, <2>2, TrustedApplied DEF Foretold
  <2>3. CASE RaiseOnConflict(r)
    BY <1>1, <2>3 DEF RaiseOnConflict, TypeOK
  <2>4. CASE EnterSync(r)
    <3>1. PICK id : prop' = [prop EXCEPT ![r] = EnterSYNCMode(prop[r], id)]
      BY <2>4 DEF EnterSync
    <3>2. prop'[r].mode = "SYNC"
      BY <1>1, <3>1 DEF EnterSYNCMode, PropObject
    <3> QED BY <1>2, <3>2
  <2>5. CASE BufferOperation(r) \/ AcceptIHaveState(r) \/ InstallState(r)
    BY <1>2, <2>5 DEF BufferOperation, AcceptIHaveState, InstallState, Handling
  <2>6. CASE AnswerSendMeState(r)
    <3> DEFINE a == StateSync(r, m.syncId)
    <3>1. m.type = "SEND_ME_STATE" /\ prop' = prop /\ Unicast(r, Rest(r), m.from, a)
      BY <2>6 DEF AnswerSendMeState, Handling, m
    <3>2. a \in Messages /\ a.type = "STATE_SYNC"
      <4>1. m.syncId \in SyncIds \cup {NoSync}
        BY <1>4, <2>1, <3>1, MessageKinds DEF SyncMsg
      <4> QED BY <1>1, <4>1, BuiltMessages DEF StateSync
    <3> HIDE DEF a
    <3>3. Sent(r, Tail(inbox[r]), inbox'[r])
      BY <1>1, <1>4, <2>1, <3>1, <3>2, UnicastSent
    <3> QED BY <1>1, <1>4, <2>1, <3>1, <3>3, ForetoldSame
  <2>7. CASE AnswerWhoHasState(r)
    <3> DEFINE a == SyncRequest("I_HAVE_STATE", r, m.syncId)
    <3>1. m.type = "WHO_HAS_STATE" /\ prop' = prop /\ Unicast(r, Rest(r), m.from, a)
      BY <2>7 DEF AnswerWhoHasState, Handling, m
    <3>2. a \in Messages /\ a.type = "I_HAVE_STATE"
      <4>1. m.syncId \in SyncIds \cup {NoSync}
        BY <1>4, <2>1, <3>1, MessageKinds DEF SyncMsg
      <4> QED BY <1>1, <4>1, BuiltMessages DEF SyncRequest
    <3> HIDE DEF a
    <3>3. Sent(r, Tail(inbox[r]), inbox'[r])
      BY <1>1, <1>4, <2>1, <3>1, <3>2, UnicastSent
    <3> QED BY <1>1, <1>4, <2>1, <3>1, <3>3, ForetoldSame
  <2>8. CASE IgnoreMessage(r)
    <3>1. m.type # "STATE_OPERATION" /\ prop' = prop /\ inbox' = Rest(r)
      BY <2>8 DEF IgnoreMessage, Ignored, m
    <3>2. Sent(r, Tail(inbox[r]), inbox'[r])
      BY <1>4, <2>1, <3>1 DEF Sent
    <3> QED BY <1>1, <1>4, <2>1, <3>1, <3>2, ForetoldSame
  <2> QED BY <1>7, <2>2, <2>3, <2>4, <2>5, <2>6, <2>7, <2>8 DEF HandleMessage
<1>8. CASE DropUnhandled(r) \/ JoinRoom(r) \/ RegisterMessageHandler(r) \/ RejoinRoom(r) \/ Leaving(r)
  BY <1>1, <1>8 DEF DropUnhandled, JoinRoom, RegisterMessageHandler, RejoinRoom, Leaving, LoseConnection,
     LeaveRoom
<1>9. CASE AfterActivityJoin(r)
  <2>1. /\ prop'[r].pending = prop[r].pending /\ prop'[r].clean = prop[r].clean
        /\ prop'[r].state = prop[r].state /\ inbox' = inbox
    BY <1>1, <1>9 DEF AfterActivityJoin, PropObject
  <2> QED BY <1>1, <1>3, <2>1, ForetoldSame
<1> QED BY <1>5, <1>6, <1>7, <1>8, <1>9 DEF Joining

LEMMA ForetoldNext ==
    ASSUME UnknownOp = "raise", TypeOK, TypeOK', OrderInvariant, OrderInvariant', [Next]_vars,
           \A r \in Steady : Foretold(r)
    PROVE  \A r \in Steady : Foretold(r)'
<1> SUFFICES ASSUME NEW r \in Steady PROVE Foretold(r)'
  OBVIOUS
<1>1. CASE status'[r] # "in"
  BY <1>1 DEF Foretold, Trusted
<1>2. CASE status'[r] = "in"
  <2>1. status[r] = "in" /\ Foretold(r)
    BY <1>2, SteadyStays
  <2>2. CASE UNCHANGED vars
    BY <2>1, <2>2 DEF vars, Foretold, Trusted, Predicted
  <2>3. CASE Next
    <3>1. PICK q \in Replicas :
            AddOperation(q) \/ Timer(q) \/ HandleMessage(q) \/ DropUnhandled(q) \/ Joining(q) \/ Leaving(q)
      BY <2>3 DEF Next
    <3>2. CASE q = r
      BY <1>2, <2>1, <3>1, <3>2, ForetoldOwn
    <3>3. CASE q # r
      BY <2>1, <3>1, <3>3, ForetoldOther
    <3> QED BY <3>2, <3>3
  <2> QED BY <2>2, <2>3
<1> QED BY <1>1, <1>2

LEMMA ForetoldKept ==
    ReplayedOnce /\ UnknownOp = "raise" => (Spec => [](\A r \in Steady : Foretold(r)))
<1> SUFFICES ASSUME ReplayedOnce, UnknownOp = "raise" PROVE Spec => [](\A r \in Steady : Foretold(r))
  OBVIOUS
<1> DEFINE I == \A r \in Steady : Foretold(r)
<1>1. Init => I
  BY ForetoldInit
<1>2. TypeOK /\ TypeOK' /\ OrderInvariant /\ OrderInvariant' /\ I /\ [Next]_vars => I'
  BY ForetoldNext
<1> HIDE DEF I
<1>3. Spec => []I
  BY <1>1, <1>2, TypeCorrect, OrderKept, PTL DEF Spec
<1> QED BY <1>3 DEF I

\* With a state class that raises when a remote operation crosses pending ones,
\* what a steady replica shows is what it has applied followed by what it waits
\* for, whatever the others do: a prediction is never wrong, only early (JXProp.m
\* lines 175-204, 357-368).
THEOREM StatePredictedHolds ==
    ReplayedOnce /\ UnknownOp = "raise" => (Spec => []StatePredicted)
<1> SUFFICES ASSUME ReplayedOnce, UnknownOp = "raise" PROVE Spec => []StatePredicted
  OBVIOUS
<1>1. (\A r \in Steady : Foretold(r)) => StatePredicted
  BY DEF Foretold, Trusted, StatePredicted
<1> QED BY <1>1, ForetoldKept, PTL

\* ... and it waits for exactly its own operations that are still to come back
\* to it, in the order it issued them (lines 181-190, 357-368).
THEOREM PendingInFlightHolds ==
    ReplayedOnce /\ UnknownOp = "raise" => (Spec => []PendingInFlight)
<1> SUFFICES ASSUME ReplayedOnce, UnknownOp = "raise" PROVE Spec => []PendingInFlight
  OBVIOUS
<1>1. (\A r \in Steady : Foretold(r)) => PendingInFlight
  BY DEF Foretold, Trusted, PendingInFlight
<1> QED BY <1>1, ForetoldKept, PTL

-----------------------------------------------------------------------------
(* Counting the operations is knowing them: whatever a replica missed, was  *)
(* handed or was resynchronised with, its clean state is made of operations *)
(* of the order, each once and in place, as many as its number says.        *)

LEMMA AtOnce ==
    ASSUME NEW l \in Seq(Ops), NEW max \in Nat, LogOK(l, max), NEW op, NEW n \in 0..Len(l), NEW o \in 0..Len(l),
           At(l, op, n), At(l, op, o)
    PROVE  n = o
<1>1. \A i \in 1..Len(l) : l[i] # NoOp
  BY DEF LogOK, NoOp
<1>2. n = 0 <=> op = NoOp
  BY <1>1 DEF At
<1>3. o = 0 <=> op = NoOp
  BY <1>1 DEF At
<1>4. CASE n = 0
  BY <1>2, <1>3, <1>4
<1>5. CASE n # 0
  <2>1. n \in 1..Len(l) /\ o \in 1..Len(l) /\ l[n] = op /\ l[o] = op
    BY <1>2, <1>3, <1>5 DEF At
  <2> QED BY <2>1 DEF LogOK
<1> QED BY <1>4, <1>5

\* Operations that follow, in the order, those that are held already.
LEMMA EmbedsMore ==
    ASSUME NEW l, NEW c \in Seq(Ops), NEW e \in Seq(Ops), NEW n \in Nat, NEW o \in Nat, n <= o, Embeds(l, c, n),
           NEW slot \in [1..Len(e) -> Nat],
           \A i \in 1..Len(e) : slot[i] > n /\ slot[i] <= o /\ l[slot[i]] = e[i],
           \A i, j \in 1..Len(e) : i < j => slot[i] < slot[j]
    PROVE  Embeds(l, c \o e, o)
<1> DEFINE d == c \o e
<1>1. /\ Len(c) \in Nat /\ Len(e) \in Nat /\ Len(d) = Len(c) + Len(e)
      /\ \A k \in 1..Len(c) : d[k] = c[k]
      /\ \A k \in (Len(c) + 1)..Len(d) : d[k] = e[k - Len(c)]
  BY ConcatProperties
<1>2. PICK place \in [1..Len(c) -> 1..n] :
        /\ \A k \in 1..Len(c) : l[place[k]] = c[k]
        /\ \A j, k \in 1..Len(c) : j < k => place[j] < place[k]
  BY DEF Embeds
<1> HIDE DEF d
<1> DEFINE p == [k \in 1..Len(d) |-> IF k <= Len(c) THEN place[k] ELSE slot[k - Len(c)]]
<1>20. /\ \A k \in 1..Len(d) : p[k] = IF k <= Len(c) THEN place[k] ELSE slot[k - Len(c)]
       /\ p = [k \in 1..Len(d) |-> p[k]]
  OBVIOUS
<1> HIDE DEF p
<1>21. ASSUME NEW k \in 1..Len(c) PROVE k \in 1..Len(d) /\ p[k] = place[k] /\ p[k] \in 1..n
  <2>1. k \in 1..Len(d) /\ k <= Len(c)
    BY <1>1
  <2>2. place[k] \in 1..n
    BY <1>2
  <2> QED BY <1>20, <2>1, <2>2
<1>22. ASSUME NEW k \in 1..Len(d), k \notin 1..Len(c)
       PROVE  /\ k - Len(c) \in 1..Len(e) /\ p[k] = slot[k - Len(c)]
              /\ p[k] \in Nat /\ p[k] > n /\ p[k] <= o
  <2>1. k - Len(c) \in 1..Len(e) /\ ~(k <= Len(c))
    BY <1>1, <1>22
  <2>2. p[k] = slot[k - Len(c)]
    BY <1>20, <2>1
  <2> QED BY <2>1, <2>2
<1>3. ASSUME NEW k \in 1..Len(d) PROVE \/ k \in 1..Len(c) /\ p[k] = place[k] /\ p[k] \in 1..n
                                       \/ k \notin 1..Len(c) /\ k - Len(c) \in 1..Len(e) /\ p[k] = slot[k - Len(c)]
                                          /\ p[k] \in Nat /\ p[k] > n /\ p[k] <= o
  BY <1>21, <1>22
<1>4. p \in [1..Len(d) -> 1..o]
  <2>1. \A k \in 1..Len(d) : p[k] \in 1..o
    BY <1>3
  <2> QED BY <1>20, <2>1
<1>5. ASSUME NEW k \in 1..Len(d) PROVE l[p[k]] = d[k]
  <2>1. CASE k \in 1..Len(c)
    BY <1>1, <1>2, <1>21, <2>1
  <2>2. CASE k \notin 1..Len(c)
    <3>1. k \in (Len(c) + 1)..Len(d)
      BY <1>1, <2>2
    <3>2. d[k] = e[k - Len(c)]
      BY <1>1, <3>1
    <3>3. k - Len(c) \in 1..Len(e) /\ p[k] = slot[k - Len(c)]
      BY <1>22, <2>2
    <3> QED BY <3>2, <3>3
  <2> QED BY <2>1, <2>2
<1>6. ASSUME NEW j \in 1..Len(d), NEW k \in 1..Len(d), j < k PROVE p[j] < p[k]
  <2>1. CASE k \in 1..Len(c)
    <3>1. j \in 1..Len(c)
      BY <1>6, <2>1
    <3> QED BY <1>2, <1>3, <1>6, <2>1, <3>1
  <2>2. CASE j \in 1..Len(c) /\ k \notin 1..Len(c)
    <3>1. p[j] \in 1..n
      BY <1>21, <2>2
    <3>2. p[k] \in Nat /\ p[k] > n
      BY <1>22, <2>2
    <3> QED BY <3>1, <3>2
  <2>3. CASE j \notin 1..Len(c) /\ k \notin 1..Len(c)
    <3>1. /\ j - Len(c) \in 1..Len(e) /\ k - Len(c) \in 1..Len(e) /\ j - Len(c) < k - Len(c)
          /\ p[j] = slot[j - Len(c)] /\ p[k] = slot[k - Len(c)]
      BY <1>1, <1>3, <1>6, <2>3
    <3> QED BY <3>1
  <2>4. j \in 1..Len(c) \/ k \notin 1..Len(c) \/ k \in 1..Len(c)
    OBVIOUS
  <2> QED BY <2>1, <2>2, <2>3
<1>7. Embeds(l, d, o)
  BY <1>4, <1>5, <1>6 DEF Embeds
<1> QED BY <1>7 DEF d

LEMMA ViewGrow ==
    ASSUME NEW l \in Seq(Ops), NEW x \in Ops, NEW c, NEW seqNum, NEW op, CountedView(l, c, seqNum, op)
    PROVE  CountedView(Append(l, x), c, seqNum, op)
<1> DEFINE m == Append(l, x)
<1>1. Len(l) \in Nat /\ Len(m) = Len(l) + 1 /\ \A i \in 1..Len(l) : m[i] = l[i]
  BY AppendFacts
<1>2. PICK n \in 0..Len(l) : At(l, op, n) /\ Embeds(l, c, n)
  BY DEF CountedView
<1> HIDE DEF m
<1>3. n \in 0..Len(m) /\ At(m, op, n)
  BY <1>1, <1>2 DEF At
<1>4. PICK place \in [1..Len(c) -> 1..n] :
        /\ \A k \in 1..Len(c) : l[place[k]] = c[k]
        /\ \A j, k \in 1..Len(c) : j < k => place[j] < place[k]
  BY <1>2 DEF Embeds
<1>5. \A k \in 1..Len(c) : m[place[k]] = c[k]
  <2>1. \A k \in 1..Len(c) : place[k] \in 1..Len(l)
    BY <1>1, <1>2, <1>4
  <2> QED BY <1>1, <1>4, <2>1
<1>6. Embeds(m, c, n)
  BY <1>4, <1>5 DEF Embeds
<1>7. CountedView(m, c, seqNum, op)
  BY <1>3, <1>6 DEF CountedView
<1> QED BY <1>7 DEF m

\* An operation is applied.
LEMMA ViewApply ==
    ASSUME NEW l \in Seq(Ops), NEW max \in Nat, LogOK(l, max), NEW p \in PropObject, NEW s \in Seq(Messages), s # <<>>,
           NEW r, ObjectOK(l, p, s), StreamOK(l, s), p.mode = "NORM", IsOp(Head(s)), ObjectCounted(l, p)
    PROVE  ObjectCounted(l, HandleReceivedOp(p, r, Head(s)))
<1> DEFINE m == Head(s)
           q == HandleReceivedOp(p, r, m)
<1>1. 1 \in 1..Len(s) /\ m = s[1] /\ m \in Messages
  BY TailFacts, HeadTailProperties
<1>2. Placed(l, m) /\ m.op \in Ops
  BY <1>1, MessageFields DEF StreamOK, OpsPlaced, Ops
<1>3. q.seqNum = p.seqNum + 1 /\ q.lastOp = m.op /\ q.clean = Append(p.clean, m.op)
  BY DEF HandleReceivedOp, HandleOwnOp, HandleRemoteOp, PropObject
<1>4. PICK n \in 0..Len(l) : At(l, p.lastOp, n) /\ OpsAfter(s, 0, n)
  BY DEF ObjectOK, Current
<1>5. PICK o \in 0..Len(l) : At(l, p.lastOp, o) /\ Embeds(l, p.clean, o)
  BY DEF ObjectCounted, CountedView
<1>6. n = o
  BY <1>4, <1>5, AtOnce
<1>7. m.slot > n /\ m.slot \in 1..Len(l) /\ l[m.slot] = m.op
  BY <1>1, <1>2, <1>4 DEF OpsAfter, Placed
<1>8. p.clean \in Seq(Ops) /\ p.seqNum = Len(p.clean)
  BY DEF PropObject, ObjectCounted, CountedView
<1> HIDE DEF m, q
<1> DEFINE e == <<m.op>>
           slot == [i \in 1..1 |-> m.slot]
<1>9. e \in Seq(Ops) /\ Len(e) = 1 /\ e[1] = m.op /\ p.clean \o e = Append(p.clean, m.op)
  BY <1>2, <1>8
<1>10. /\ slot \in [1..Len(e) -> Nat]
       /\ \A i \in 1..Len(e) : slot[i] > n /\ slot[i] <= m.slot /\ l[slot[i]] = e[i]
       /\ \A i, j \in 1..Len(e) : i < j => slot[i] < slot[j]
  BY <1>7, <1>9
<1> HIDE DEF e, slot
<1>11. Embeds(l, p.clean \o e, m.slot)
  <2>1. n \in Nat /\ m.slot \in Nat /\ n <= m.slot /\ Embeds(l, p.clean, n)
    BY <1>5, <1>6, <1>7
  <2> QED BY <1>8, <1>9, <1>10, <2>1, EmbedsMore
<1>12. At(l, m.op, m.slot) /\ m.slot \in 0..Len(l)
  BY <1>7 DEF At
<1>13. Len(Append(p.clean, m.op)) = Len(p.clean) + 1
  BY <1>2, <1>8, AppendFacts
<1>14. CountedView(l, q.clean, q.seqNum, q.lastOp)
  BY <1>3, <1>8, <1>9, <1>11, <1>12, <1>13 DEF CountedView
<1> QED BY <1>14 DEF ObjectCounted, m, q

\* The buffered operations after the last one of an installed state follow it,
\* and one another, in the order.
LEMMA AfterAscends ==
    ASSUME NEW l \in Seq(Ops), NEW max \in Nat, LogOK(l, max), NEW b \in Seq(OperationMsg), NEW s, BufferOK(l, b, s),
           NEW op \in Ops, NEW n \in 0..Len(l), At(l, op, n), After(b, op) # <<>>
    PROVE  LET a == After(b, op)
           IN  /\ \A i \in 1..Len(a) : Placed(l, a[i]) /\ a[i].slot > n
               /\ \A i, j \in 1..Len(a) : i < j => a[i].slot < a[j].slot
<1> DEFINE k == CHOOSE i \in 1..Len(b) : IsFirst(b, op, i)
           a == After(b, op)
<1>1. \E i \in 1..Len(b) : IsFirst(b, op, i)
  BY DEF After
<1>2. k \in 1..Len(b) /\ IsFirst(b, op, k)
  BY <1>1
<1>3. a = SubSeq(b, k + 1, Len(b))
  BY <1>1 DEF After
<1> HIDE DEF k
<1>4. \A i \in (k + 1)..Len(b) : b[i] \in OperationMsg
  BY <1>2, ElementOfSeq
<1>5. k < Len(b)
  BY <1>2, <1>3, SubSeqEmpty
<1>6. Len(a) = Len(b) - k /\ \A i \in 1..Len(a) : a[i] = b[k + i]
  BY <1>2, <1>3, <1>4, <1>5, SubSeqProperties
<1> HIDE DEF a
<1>7. b[k].op = op /\ \A i \in 1..Len(b) : Placed(l, b[i])
  BY <1>2 DEF IsFirst, BufferOK
<1>8. b[k].slot = n
  <2>1. b[k].slot \in 1..Len(l) /\ l[b[k].slot] = op
    BY <1>2, <1>7 DEF Placed
  <2>2. At(l, op, b[k].slot) /\ b[k].slot \in 0..Len(l)
    BY <2>1 DEF At
  <2> QED BY <2>2, AtOnce
<1>9. \A i, j \in 1..Len(b) : i < j => b[i].slot < b[j].slot
  <2>1. \A i \in 1..Len(b) : b[i].slot \in Nat
    BY <1>7 DEF Placed
  <2> QED BY <2>1, SMTT(30) DEF BufferOK
<1>10. \A i \in 1..Len(a) : k + i \in 1..Len(b) /\ k < k + i
  BY <1>2, <1>6
<1>11. \A i \in 1..Len(a) : Placed(l, a[i]) /\ a[i].slot > n
  BY <1>2, <1>6, <1>7, <1>8, <1>9, <1>10 DEF Placed
<1>12. ASSUME NEW i \in 1..Len(a), NEW j \in 1..Len(a), i < j PROVE a[i].slot < a[j].slot
  <2>1. k + i \in 1..Len(b) /\ k + j \in 1..Len(b) /\ k + i < k + j
    BY <1>2, <1>10, <1>12
  <2> QED BY <1>6, <1>9, <2>1
<1> QED BY <1>11, <1>12 DEF a

LEMMA InstalledClean ==
    ASSUME NEW p \in PropObject, NEW r, NEW m
    PROVE  LET a == After(p.opsSYNC, m.lastOp)
           IN  HandleStateSync(p, r, m).clean = m.state \o [k \in 1..Len(a) |-> a[k].op]
BY DEF HandleStateSync, ExitSYNCMode, PropObject

LEMMA OpsOf ==
    ASSUME NEW a \in Seq(OperationMsg)
    PROVE  LET e == [k \in 1..Len(a) |-> a[k].op]
           IN  e \in Seq(Ops) /\ Len(e) = Len(a) /\ \A i \in 1..Len(a) : e[i] = a[i].op
<1> DEFINE e == [k \in 1..Len(a) |-> a[k].op]
<1>1. Len(a) \in Nat /\ \A i \in 1..Len(a) : a[i] \in OperationMsg
  BY ElementOfSeq
<1>2. \A i \in 1..Len(a) : a[i].op \in Ops
  BY <1>1 DEF OperationMsg
<1>3. e \in [1..Len(a) -> Ops] /\ \A i \in 1..Len(a) : e[i] = a[i].op
  BY <1>2
<1> HIDE DEF e
<1>4. e \in Seq(Ops)
  BY <1>1, <1>3, SeqDef
<1>5. Len(e) = Len(a)
  BY <1>1, <1>3, <1>4, LenProperties
<1>6. e \in Seq(Ops) /\ Len(e) = Len(a) /\ \A i \in 1..Len(a) : e[i] = a[i].op
  BY <1>3, <1>4, <1>5
<1> QED BY <1>6 DEF e

LEMMA ViewInstall ==
    ASSUME NEW l \in Seq(Ops), NEW max \in Nat, LogOK(l, max),
           NEW p \in PropObject, NEW s \in Seq(Messages), s # <<>>, NEW r,
           ObjectOK(l, p, s), Head(s).type = "STATE_SYNC", StatesCounted(l, s)
    PROVE  ObjectCounted(l, HandleStateSync(p, r, Head(s)))
<1> DEFINE m == Head(s)
           b == p.opsSYNC
           a == After(b, m.lastOp)
           e == [k \in 1..Len(a) |-> a[k].op]
           q == HandleStateSync(p, r, m)
<1>1. 1 \in 1..Len(s) /\ m = s[1] /\ m \in StateMsg /\ b \in Seq(OperationMsg)
  BY TailFacts, HeadTailProperties, MessageKinds DEF PropObject
<1>2. a \in Seq(OperationMsg) /\ m.seqNum \in Int /\ m.lastOp \in Ops /\ m.state \in Seq(Ops)
  BY <1>1, AfterType DEF StateMsg
<1>3. /\ q.mode = "NORM" /\ q.seqNum = m.seqNum + Len(a) /\ q.clean = m.state \o e
      /\ q.lastOp = IF a = <<>> THEN m.lastOp ELSE a[Len(a)].op
  <2>1. q.mode = "NORM" /\ q.seqNum = m.seqNum + Len(a) /\ q.lastOp = IF a = <<>> THEN m.lastOp ELSE a[Len(a)].op
    BY InstalledFields
  <2>2. q.clean = m.state \o e
    BY InstalledClean
  <2> HIDE DEF q, e, a
  <2> QED BY <2>1, <2>2
<1>4. m.seqNum = Len(m.state) /\ \E n \in 0..Len(l) : At(l, m.lastOp, n) /\ Embeds(l, m.state, n)
  BY <1>1 DEF StatesCounted, CountedView
<1>5. PICK n \in 0..Len(l) : At(l, m.lastOp, n) /\ Embeds(l, m.state, n)
  BY <1>4
<1>6. e \in Seq(Ops) /\ Len(e) = Len(a) /\ \A i \in 1..Len(a) : e[i] = a[i].op
  BY <1>2, OpsOf
<1>7. BufferOK(l, b, s)
  BY DEF ObjectOK
<1> HIDE DEF m, b, e, q
<1>8. Len(q.clean) = Len(m.state) + Len(a)
  <2>1. Len(m.state \o e) = Len(m.state) + Len(e)
    BY <1>2, <1>6, ConcatProperties
  <2> QED BY <1>3, <1>6, <2>1
<1>9. CASE a = <<>>
  <2>1. e = <<>>
    BY <1>6, <1>9, EmptySeq
  <2>2. q.clean = m.state
    BY <1>2, <1>3, <2>1, ConcatEmptySeq
  <2>3. q.seqNum = Len(q.clean)
    BY <1>2, <1>3, <1>4, <1>8
  <2>4. CountedView(l, q.clean, q.seqNum, q.lastOp)
    BY <1>3, <1>5, <1>9, <2>2, <2>3 DEF CountedView
  <2> QED BY <2>4 DEF ObjectCounted, m, q
<1>10. CASE a # <<>>
  <2>1. /\ \A i \in 1..Len(a) : Placed(l, a[i]) /\ a[i].slot > n
        /\ \A i, j \in 1..Len(a) : i < j => a[i].slot < a[j].slot
    BY <1>1, <1>2, <1>5, <1>7, <1>10, AfterAscends
  <2> HIDE DEF a
  <2> DEFINE x == a[Len(a)]
             slot == [i \in 1..Len(a) |-> a[i].slot]
  <2>2. Len(a) \in Nat /\ Len(a) \in 1..Len(a)
    BY <1>2, <1>10, EmptySeq
  <2>3. \A i \in 1..Len(a) : a[i].slot \in 1..Len(l) /\ l[a[i].slot] = a[i].op
    BY <2>1 DEF Placed
  <2>4. x.slot \in 1..Len(l) /\ l[x.slot] = x.op /\ x.slot > n
    BY <2>1, <2>2, <2>3
  <2>5. \A i \in 1..Len(a) : a[i].slot <= x.slot
    <3>1. SUFFICES ASSUME NEW i \in 1..Len(a), i # Len(a) PROVE a[i].slot <= x.slot
      BY <2>4
    <3>2. i < Len(a)
      BY <2>2, <3>1
    <3>3. a[i].slot < x.slot
      BY <2>1, <2>2, <3>2
    <3> QED BY <2>3, <2>4, <3>3
  <2> HIDE DEF x
  <2>6. /\ slot \in [1..Len(e) -> Nat]
        /\ \A i \in 1..Len(e) : slot[i] > n /\ slot[i] <= x.slot /\ l[slot[i]] = e[i]
        /\ \A i, j \in 1..Len(e) : i < j => slot[i] < slot[j]
    <3>1. \A i \in 1..Len(a) : a[i].slot \in Nat
      BY <2>3
    <3> QED BY <1>6, <2>1, <2>3, <2>5, <3>1
  <2> HIDE DEF slot
  <2>7. Embeds(l, m.state \o e, x.slot)
    <3>1. n \in Nat /\ x.slot \in Nat /\ n <= x.slot
      BY <2>4
    <3>2. m.state \in Seq(Ops) /\ e \in Seq(Ops) /\ Embeds(l, m.state, n)
      BY <1>2, <1>5, <1>6
    <3> QED BY <2>6, <3>1, <3>2, EmbedsMore
  <2>8. At(l, x.op, x.slot) /\ x.slot \in 0..Len(l)
    BY <2>4 DEF At
  <2>9. q.lastOp = x.op /\ q.clean = m.state \o e /\ q.seqNum = Len(q.clean)
    BY <1>3, <1>4, <1>8, <1>10 DEF x
  <2>10. CountedView(l, q.clean, q.seqNum, q.lastOp)
    BY <2>7, <2>8, <2>9 DEF CountedView
  <2> QED BY <2>10 DEF ObjectCounted, m, q
<1> QED BY <1>9, <1>10

LEMMA CountsTail ==
    ASSUME NEW l, NEW s \in Seq(Messages), s # <<>>, StatesCounted(l, s)
    PROVE  StatesCounted(l, Tail(s))
<1> DEFINE t == Tail(s)
<1>1. \A k \in 1..Len(t) : k + 1 \in 1..Len(s) /\ t[k] = s[k + 1]
  <2>1. Len(s) \in Nat \ {0} /\ Len(t) = Len(s) - 1
    BY TailFacts
  <2>2. \A i \in 1..(Len(s) - 1) : t[i] = s[i + 1]
    BY TailFacts
  <2> HIDE DEF t
  <2> QED BY <2>1, <2>2
<1> HIDE DEF t
<1>2. StatesCounted(l, t)
  BY <1>1 DEF StatesCounted
<1> QED BY <1>2 DEF t

LEMMA CountsAppend ==
    ASSUME NEW l, NEW s \in Seq(Messages), NEW m \in Messages, StatesCounted(l, s),
           m.type = "STATE_SYNC" => CountedView(l, m.state, m.seqNum, m.lastOp)
    PROVE  StatesCounted(l, Append(s, m))
<1> DEFINE t == Append(s, m)
<1>1. /\ Len(s) \in Nat /\ Len(t) = Len(s) + 1
      /\ \A k \in 1..Len(s) : t[k] = s[k]
      /\ t[Len(s) + 1] = m
  BY AppendProperties
<1> HIDE DEF t
<1>2. \A k \in 1..Len(t) : k \in 1..Len(s) \/ k = Len(s) + 1
  BY <1>1
<1>3. StatesCounted(l, t)
  BY <1>1, <1>2 DEF StatesCounted
<1> QED BY <1>3 DEF t

LEMMA CountsPrefix ==
    ASSUME NEW l, NEW s \in Seq(Messages), NEW k \in 0..Len(s), StatesCounted(l, s)
    PROVE  StatesCounted(l, SubSeq(s, 1, k))
<1> DEFINE t == SubSeq(s, 1, k)
<1>1. Len(s) \in Nat /\ k \in Nat /\ k <= Len(s)
  OBVIOUS
<1>2. Len(t) = k /\ \A i \in 1..k : t[i] = s[i]
  <2>1. \A i \in 1..k : s[i] \in Messages
    BY <1>1, ElementOfSeq
  <2> QED BY <1>1, <2>1, SubSeqProperties
<1> HIDE DEF t
<1>3. StatesCounted(l, t)
  BY <1>1, <1>2 DEF StatesCounted
<1> QED BY <1>3 DEF t

LEMMA CountsEmpty ==
    ASSUME NEW l PROVE StatesCounted(l, <<>>)
BY EmptySeq DEF StatesCounted

LEMMA CountsGrow ==
    ASSUME NEW l \in Seq(Ops), NEW op \in Ops, NEW s, StatesCounted(l, s)
    PROVE  StatesCounted(Append(l, op), s)
BY ViewGrow DEF StatesCounted

\* A stanza that carries no state, or a counted one.
CountedStanza(l, m) == m.type = "STATE_SYNC" => CountedView(l, m.state, m.seqNum, m.lastOp)

LEMMA MulticastCounts ==
    ASSUME NEW l, NEW q \in Replicas, NEW r, NEW box \in [Replicas -> Seq(Messages)], NEW m \in Messages,
           Multicast(r, box, m), CountedStanza(l, m), StatesCounted(l, box[q])
    PROVE  StatesCounted(l, inbox'[q])
<1>1. inbox'[q] \in {box[q], Append(box[q], m)}
  BY DEF Multicast
<1>2. StatesCounted(l, Append(box[q], m))
  BY CountsAppend DEF CountedStanza
<1> QED BY <1>1, <1>2

LEMMA UnicastCounts ==
    ASSUME NEW l, NEW q \in Replicas, NEW r, NEW box \in [Replicas -> Seq(Messages)], NEW to \in Replicas,
           NEW m \in Messages, Unicast(r, box, to, m), CountedStanza(l, m), StatesCounted(l, box[q])
    PROVE  StatesCounted(l, inbox'[q])
<1>1. inbox'[q] \in {box[q], Append(box[q], m)}
  BY DEF Unicast
<1>2. StatesCounted(l, Append(box[q], m))
  BY CountsAppend DEF CountedStanza
<1> QED BY <1>1, <1>2

LEMMA CountedInit ==
    ASSUME Init PROVE Counted
<1> SUFFICES ASSUME NEW r \in Replicas PROVE ObjectCounted(log, prop[r]) /\ StatesCounted(log, inbox[r])
  BY DEF Counted
<1>1. /\ prop[r].clean = <<>> /\ prop[r].seqNum = 0 /\ prop[r].lastOp = NoOp
      /\ inbox[r] = <<>> /\ log = <<>>
  BY DEF Init, InitProp
<1>2. Len(<<>>) = 0 /\ 0 \in 0..Len(<<>>)
  BY EmptySeq
<1>3. At(<<>>, NoOp, 0)
  BY <1>2 DEF At
<1>4. Embeds(<<>>, <<>>, 0)
  <2> DEFINE place == [k \in 1..0 |-> 1]
  <2>1. place \in [1..0 -> 1..0]
    OBVIOUS
  <2>2. 1..0 = {}
    OBVIOUS
  <2> QED BY <1>2, <2>1, <2>2 DEF Embeds
<1>5. CountedView(<<>>, <<>>, 0, NoOp)
  BY <1>2, <1>3, <1>4 DEF CountedView
<1> QED BY <1>1, <1>5, CountsEmpty DEF ObjectCounted

\* Calls of the application.
LEMMA CountedIssued ==
    ASSUME TypeOK, TypeOK', Counted, NEW r \in Replicas, AddOperation(r), NEW q \in Replicas
    PROVE  ObjectCounted(log', prop'[q]) /\ StatesCounted(log', inbox'[q])
<1> DEFINE op == issued + 1
           m == StateOperation(r, op, Len(log) + 1)
<1>1. log \in Seq(Ops) /\ inbox \in [Replicas -> Seq(Messages)] /\ op \in Ops
  BY BoundsAssumption DEF TypeOK, Ops
<1>2. m \in Messages /\ m.type = "STATE_OPERATION"
  <2>1. Len(log) + 1 \in Nat
    BY <1>1
  <2> QED BY <1>1, <2>1, BuiltMessages DEF StateOperation
<1>3. Multicast(r, inbox, m) /\ log' \in {log, Append(log, op)}
  BY DEF AddOperation
<1>4. /\ prop'[q].mode = prop[q].mode /\ prop'[q].clean = prop[q].clean
      /\ prop'[q].seqNum = prop[q].seqNum /\ prop'[q].lastOp = prop[q].lastOp
  <2>1. prop \in [Replicas -> PropObject]
    BY DEF TypeOK
  <2>2. prop' = [prop EXCEPT ![r].state = Append(@, op), ![r].pending = Append(@, op)]
    BY DEF AddOperation
  <2> HIDE DEF op
  <2>3. CASE q = r
    BY <2>1, <2>2, <2>3 DEF PropObject
  <2>4. CASE q # r
    BY <2>1, <2>2, <2>4
  <2> QED BY <2>3, <2>4
<1> HIDE DEF m, op
<1>5. CountedStanza(log, m)
  BY <1>2 DEF CountedStanza
<1>6. StatesCounted(log, inbox'[q])
  BY <1>1, <1>2, <1>3, <1>5, MulticastCounts DEF Counted
<1>7. StatesCounted(log', inbox'[q])
  BY <1>1, <1>3, <1>6, CountsGrow
<1>8. ObjectCounted(log, prop'[q])
  BY <1>4 DEF Counted, ObjectCounted
<1>9. ObjectCounted(Append(log, op), prop'[q])
  BY <1>1, <1>8, ViewGrow DEF ObjectCounted
<1> QED BY <1>3, <1>7, <1>8, <1>9

\* The timer.
LEMMA CountedTimer ==
    ASSUME TypeOK, Counted, NEW r \in Replicas, Timer(r), NEW q \in Replicas
    PROVE  ObjectCounted(log', prop'[q]) /\ StatesCounted(log', inbox'[q])
<1>1. inbox \in [Replicas -> Seq(Messages)] /\ prop' = prop /\ log' = log
  BY DEF TypeOK, Timer, PeriodicTask, SendHello, BroadcastSyncRequest
<1>2. ObjectCounted(log, prop[q]) /\ StatesCounted(log, inbox[q])
  BY DEF Counted
<1>3. CASE PeriodicTask(r)
  BY <1>1, <1>2, <1>3 DEF PeriodicTask
<1>4. CASE SendHello(r)
  <2>1. Hello(r) \in Messages /\ CountedStanza(log, Hello(r))
    BY BuiltMessages DEF Hello, CountedStanza
  <2> QED BY <1>1, <1>2, <1>4, <2>1, MulticastCounts DEF SendHello
<1>5. CASE BroadcastSyncRequest(r)
  <2> DEFINE w == SyncRequest("WHO_HAS_STATE", r, prop[r].syncId)
  <2>1. w \in Messages /\ CountedStanza(log, w)
    <3>1. prop[r].syncId \in SyncIds \cup {NoSync}
      BY DEF TypeOK, PropObject
    <3> QED BY <3>1, BuiltMessages DEF SyncRequest, CountedStanza
  <2>2. Multicast(r, inbox, w)
    BY <1>5 DEF BroadcastSyncRequest
  <2> HIDE DEF w
  <2> QED BY <1>1, <1>2, <2>1, <2>2, MulticastCounts
<1> QED BY <1>3, <1>4, <1>5 DEF Timer

\* Messages are handled.
LEMMA CountedHandling ==
    ASSUME TypeOK, OrderInvariant, Counted, NEW r \in Replicas, HandleMessage(r), NEW q \in Replicas
    PROVE  ObjectCounted(log', prop'[q]) /\ StatesCounted(log', inbox'[q])
<1> DEFINE s == inbox[r]
           m == Head(s)
           p == prop[r]
<1>1. /\ inbox \in [Replicas -> Seq(Messages)] /\ prop \in [Replicas -> PropObject]
      /\ log \in Seq(Ops) /\ issued \in Nat /\ log' = log
  BY BoundsAssumption DEF TypeOK, HandleMessage, ApplyOperation, RaiseOnConflict, AnswerSendMeState,
     AnswerWhoHasState, EnterSync, BufferOperation, AcceptIHaveState, InstallState, IgnoreMessage
<1>2. s # <<>>
  BY DEF HandleMessage, ApplyOperation, RaiseOnConflict, AnswerSendMeState, AnswerWhoHasState,
     EnterSync, BufferOperation, AcceptIHaveState, InstallState, IgnoreMessage, Handling
<1>3. s \in Seq(Messages) /\ m \in Messages /\ m.from \in Replicas /\ p \in PropObject
  BY <1>1, <1>2, HeadTailProperties, MessageKinds
<1>4. Rest(r) \in [Replicas -> Seq(Messages)]
  BY <1>1, <1>2, HeadTailProperties DEF Rest
<1>5. /\ ObjectCounted(log, p) /\ StatesCounted(log, s)
      /\ ObjectCounted(log, prop[q]) /\ StatesCounted(log, inbox[q])
  BY DEF Counted
<1>6. StatesCounted(log, Rest(r)[q])
  <2>1. StatesCounted(log, Tail(s))
    BY <1>2, <1>3, <1>5, CountsTail
  <2>2. Rest(r)[q] \in {Tail(s), inbox[q]}
    BY <1>1 DEF Rest
  <2> QED BY <1>5, <2>1, <2>2
<1>7. LogOK(log, issued) /\ StreamOK(log, s) /\ ObjectOK(log, p, s)
  BY DEF OrderInvariant, ReplicaOK
<1> HIDE DEF s, m, p
<1>8. CASE ApplyOperation(r)
  <2>1. p.mode = "NORM" /\ IsOp(m) /\ inbox' = Rest(r)
        /\ prop' = [prop EXCEPT ![r] = HandleReceivedOp(p, r, m)]
    BY <1>8 DEF ApplyOperation, Handling, IsOp, s, m, p
  <2>2. ObjectCounted(log, HandleReceivedOp(p, r, m))
    BY <1>1, <1>2, <1>3, <1>5, <1>7, <2>1, ViewApply DEF m
  <2>3. prop'[q] \in {HandleReceivedOp(p, r, m), prop[q]}
    BY <1>1, <2>1
  <2> QED BY <1>1, <1>5, <1>6, <2>1, <2>2, <2>3
<1>9. CASE RaiseOnConflict(r)
  <2>1. prop' = prop /\ inbox'[q] \in {<<>>, inbox[q]}
    BY <1>1, <1>9 DEF RaiseOnConflict
  <2> QED BY <1>1, <1>5, <2>1, CountsEmpty
<1>10. CASE AnswerSendMeState(r)
  <2> DEFINE a == StateSync(r, m.syncId)
  <2>1. a \in Messages
    <3>1. m.syncId \in SyncIds \cup {NoSync}
      BY <1>3, <1>10, MessageKinds DEF SyncMsg, AnswerSendMeState, Handling, m, s
    <3> QED BY <3>1, BuiltMessages
  <2>2. CountedStanza(log, a)
    <3>1. p.mode = "NORM"
      BY <1>10 DEF AnswerSendMeState, Handling, p
    <3>2. CountedView(log, p.clean, p.seqNum, p.lastOp)
      BY <1>5, <3>1 DEF ObjectCounted
    <3>3. a.state = p.clean /\ a.seqNum = p.seqNum /\ a.lastOp = p.lastOp
      BY DEF StateSync, p
    <3> QED BY <3>2, <3>3 DEF CountedStanza
  <2>3. Unicast(r, Rest(r), m.from, a) /\ prop' = prop
    BY <1>10 DEF AnswerSendMeState, m, s
  <2> HIDE DEF a
  <2>4. StatesCounted(log, inbox'[q])
    BY <1>3, <1>4, <1>6, <2>1, <2>2, <2>3, UnicastCounts
  <2> QED BY <1>1, <1>5, <2>3, <2>4
<1>11. CASE AnswerWhoHasState(r)
  <2> DEFINE a == SyncRequest("I_HAVE_STATE", r, m.syncId)
  <2>1. a \in Messages /\ CountedStanza(log, a)
    <3>1. m.syncId \in SyncIds \cup {NoSync}
      BY <1>3, <1>11, MessageKinds DEF SyncMsg, AnswerWhoHasState, Handling, m, s
    <3> QED BY <3>1, BuiltMessages DEF SyncRequest, CountedStanza
  <2>2. Unicast(r, Rest(r), m.from, a) /\ prop' = prop
    BY <1>11 DEF AnswerWhoHasState, m, s
  <2> HIDE DEF a
  <2>3. StatesCounted(log, inbox'[q])
    BY <1>3, <1>4, <1>6, <2>1, <2>2, UnicastCounts
  <2> QED BY <1>1, <1>5, <2>2, <2>3
<1>12. CASE EnterSync(r)
  <2>1. PICK id \in SyncIds : /\ Multicast(r, Rest(r), SyncRequest("WHO_HAS_STATE", r, id))
                              /\ prop' = [prop EXCEPT ![r] = EnterSYNCMode(p, id)]
    <3>1. FreshSyncIds # {} /\ FreshSyncIds \subseteq SyncIds
      BY <1>12 DEF EnterSync, FreshSyncIds
    <3> DEFINE i == CHOOSE x \in FreshSyncIds : TRUE
    <3>2. i \in SyncIds
      BY <3>1
    <3>3. /\ Multicast(r, Rest(r), SyncRequest("WHO_HAS_STATE", r, i))
          /\ prop' = [prop EXCEPT ![r] = EnterSYNCMode(p, i)]
      BY <1>12 DEF EnterSync, p
    <3> HIDE DEF i
    <3> QED BY <3>2, <3>3
  <2>2. /\ SyncRequest("WHO_HAS_STATE", r, id) \in Messages
        /\ CountedStanza(log, SyncRequest("WHO_HAS_STATE", r, id))
    BY BuiltMessages DEF SyncRequest, CountedStanza
  <2>3. StatesCounted(log, inbox'[q])
    BY <1>4, <1>6, <2>1, <2>2, MulticastCounts
  <2>4. EnterSYNCMode(p, id).mode = "SYNC"
    BY <1>3 DEF EnterSYNCMode, PropObject
  <2>5. prop'[q] \in {EnterSYNCMode(p, id), prop[q]}
    BY <1>1, <2>1
  <2> QED BY <1>1, <1>5, <2>3, <2>4, <2>5 DEF ObjectCounted
<1>13. CASE BufferOperation(r)
  <2>1. prop'[q].mode = "SYNC" \/ prop'[q] = prop[q]
    BY <1>1, <1>13 DEF BufferOperation, Handling, PropObject
  <2>2. inbox' = Rest(r)
    BY <1>13 DEF BufferOperation
  <2> QED BY <1>1, <1>5, <1>6, <2>1, <2>2 DEF ObjectCounted
<1>14. CASE AcceptIHaveState(r)
  <2> DEFINE a == SyncRequest("SEND_ME_STATE", r, m.syncId)
  <2>1. a \in Messages /\ CountedStanza(log, a)
    <3>1. m.syncId \in SyncIds \cup {NoSync}
      BY <1>3, <1>14, MessageKinds DEF SyncMsg, AcceptIHaveState, Handling, m, s
    <3> QED BY <3>1, BuiltMessages DEF SyncRequest, CountedStanza
  <2>2. Unicast(r, Rest(r), m.from, a)
    BY <1>14 DEF AcceptIHaveState, m, s
  <2> HIDE DEF a
  <2>3. StatesCounted(log, inbox'[q])
    BY <1>3, <1>4, <1>6, <2>1, <2>2, UnicastCounts
  <2>4. prop'[q].mode = "SYNC" \/ prop'[q] = prop[q]
    BY <1>1, <1>14 DEF AcceptIHaveState, Handling, PropObject
  <2> QED BY <1>1, <1>5, <2>3, <2>4 DEF ObjectCounted
<1>15. CASE InstallState(r)
  <2>1. m.type = "STATE_SYNC" /\ inbox' = Rest(r)
        /\ prop' = [prop EXCEPT ![r] = HandleStateSync(p, r, m)]
    BY <1>15 DEF InstallState, Handling, s, m, p
  <2>2. ObjectCounted(log, HandleStateSync(p, r, m))
    BY <1>1, <1>2, <1>3, <1>5, <1>7, <2>1, ViewInstall DEF m
  <2>3. prop'[q] \in {HandleStateSync(p, r, m), prop[q]}
    BY <1>1, <2>1
  <2> QED BY <1>1, <1>5, <1>6, <2>1, <2>2, <2>3
<1>16. CASE IgnoreMessage(r)
  BY <1>1, <1>5, <1>6, <1>16 DEF IgnoreMessage
<1> QED BY <1>8, <1>9, <1>10, <1>11, <1>12, <1>13, <1>14, <1>15, <1>16 DEF HandleMessage

\* The room is entered, lost, left.
LEMMA CountedRoom ==
    ASSUME TypeOK, OrderInvariant, ReplayedOnce, Counted, NEW r \in Replicas,
           DropUnhandled(r) \/ Joining(r) \/ Leaving(r), NEW q \in Replicas
    PROVE  ObjectCounted(log', prop'[q]) /\ StatesCounted(log', inbox'[q])
<1>1. /\ inbox \in [Replicas -> Seq(Messages)] /\ prop \in [Replicas -> PropObject]
      /\ log' = log /\ inbox[r] \in Seq(Messages)
  BY DEF TypeOK, DropUnhandled, Joining, JoinRoom, RegisterMessageHandler,
     AfterActivityJoin, RejoinRoom, Leaving, LoseConnection, LeaveRoom
<1>2. /\ ObjectCounted(log, prop[q]) /\ StatesCounted(log, inbox[q]) /\ StatesCounted(log, inbox[r])
  BY DEF Counted
<1>3. ObjectCounted(log, prop'[q])
  <2>1. CASE AfterActivityJoin(r)
    <3>1. /\ prop'[q].mode = prop[q].mode /\ prop'[q].clean = prop[q].clean
          /\ prop'[q].seqNum = prop[q].seqNum /\ prop'[q].lastOp = prop[q].lastOp
      BY <1>1, <2>1 DEF AfterActivityJoin, PropObject
    <3> QED BY <1>2, <3>1 DEF ObjectCounted
  <2>2. CASE ~AfterActivityJoin(r)
    BY <1>2, <2>2 DEF DropUnhandled, Joining, JoinRoom, RegisterMessageHandler, RejoinRoom,
       Leaving, LoseConnection, LeaveRoom
  <2> QED BY <2>1, <2>2
<1>4. StatesCounted(log, inbox'[q])
  <2>1. CASE DropUnhandled(r)
    <3>1. StatesCounted(log, Tail(inbox[r]))
      BY <1>1, <1>2, <2>1, CountsTail DEF DropUnhandled
    <3>2. inbox'[q] \in {Tail(inbox[r]), inbox[q]}
      BY <1>1, <2>1 DEF DropUnhandled, Rest
    <3> QED BY <1>2, <3>1, <3>2
  <2>2. CASE LeaveRoom(r)
    <3>1. inbox'[q] \in {<<>>, inbox[q]}
      BY <1>1, <2>2 DEF LeaveRoom
    <3> QED BY <1>2, <3>1, CountsEmpty
  <2>6. CASE JoinRoom(r)
    <3>1. inbox'[q] \in {history, inbox[q]}
      BY <1>1, <2>6 DEF JoinRoom
    <3>2. StatesCounted(log, history)
      BY DEF OrderInvariant, HistoryOK, NoState, StatesCounted
    <3> QED BY <1>2, <3>1, <3>2
  <2>3. CASE RegisterMessageHandler(r) \/ AfterActivityJoin(r)
    BY <1>2, <2>3 DEF RegisterMessageHandler, AfterActivityJoin
  <2>4. CASE RejoinRoom(r)
    <3>1. history = <<>>
      BY <2>4 DEF RejoinRoom, OrderInvariant, ReplicaOK, HistoryOK, ReplayedOnce
    <3>2. inbox[r] \o <<>> = inbox[r]
      BY <1>1, ConcatEmptySeq
    <3>3. inbox'[q] = inbox[q]
      BY <1>1, <2>4, <3>1, <3>2 DEF RejoinRoom
    <3> QED BY <1>2, <3>3
  <2>5. CASE LoseConnection(r)
    <3>1. PICK k \in 0..Len(inbox[r]) : inbox' = [inbox EXCEPT ![r] = SubSeq(inbox[r], 1, k)]
      BY <2>5 DEF LoseConnection
    <3>2. StatesCounted(log, SubSeq(inbox[r], 1, k))
      BY <1>1, <1>2, CountsPrefix
    <3>3. inbox'[q] \in {SubSeq(inbox[r], 1, k), inbox[q]}
      BY <1>1, <3>1
    <3> QED BY <1>2, <3>2, <3>3
  <2> QED BY <2>1, <2>2, <2>3, <2>4, <2>5, <2>6 DEF Joining, Leaving
<1> QED BY <1>1, <1>3, <1>4

LEMMA CountedNext ==
    ASSUME TypeOK, TypeOK', OrderInvariant, ReplayedOnce, Counted, [Next]_vars
    PROVE  Counted'
<1>1. CASE UNCHANGED vars
  BY <1>1 DEF vars, Counted
<1>2. CASE Next
  <2>1. PICK r \in Replicas :
          AddOperation(r) \/ Timer(r) \/ HandleMessage(r) \/ DropUnhandled(r) \/ Joining(r) \/ Leaving(r)
    BY <1>2 DEF Next
  <2>2. ASSUME NEW q \in Replicas PROVE ObjectCounted(log', prop'[q]) /\ StatesCounted(log', inbox'[q])
    BY <2>1, CountedIssued, CountedTimer, CountedHandling, CountedRoom
  <2> QED BY <2>2 DEF Counted, ObjectCounted, StatesCounted
<1> QED BY <1>1, <1>2

\* An operation counted is an operation of the order.
LEMMA CountedOrdered ==
    ASSUME TypeOK, Counted, NEW r \in Replicas, prop[r].mode = "NORM"
    PROVE  prop[r].seqNum = Len(prop[r].clean) /\ Ordered(prop[r].clean)
<1> DEFINE c == prop[r].clean
<1>1. CountedView(log, c, prop[r].seqNum, prop[r].lastOp) /\ Len(log) \in Nat
  BY DEF TypeOK, Counted, ObjectCounted
<1> HIDE DEF c
<1>2. PICK n \in 0..Len(log) : Embeds(log, c, n)
  BY <1>1 DEF CountedView
<1>3. PICK place \in [1..Len(c) -> 1..n] :
        /\ \A k \in 1..Len(c) : log[place[k]] = c[k]
        /\ \A j, k \in 1..Len(c) : j < k => place[j] < place[k]
  BY <1>2 DEF Embeds
<1>4. 1..n \subseteq 1..Len(log)
  BY <1>1, <1>2
<1>5. place \in [1..Len(c) -> 1..Len(log)]
  BY <1>3, <1>4
<1>6. Ordered(c)
  BY <1>3, <1>5 DEF Ordered
<1> QED BY <1>1, <1>6 DEF CountedView, c

\* Every set of numbers has a least one.
LEMMA LeastOf ==
    ASSUME NEW I \in SUBSET Nat, I # {}
    PROVE  \E m \in I : \A k \in I : m <= k
<1> DEFINE R == StrictSubsetOrdering(Nat)
           T == {0..n : n \in I}
<1>1. IsWellFoundedOn(R, FiniteSubsetsOf(Nat))
  BY FS_StrictSubsetOrderingWellFounded
<1>2. T \subseteq FiniteSubsetsOf(Nat) /\ T # {}
  <2>1. ASSUME NEW n \in I PROVE 0..n \in SUBSET Nat /\ IsFiniteSet(0..n)
    BY FS_Interval
  <2> QED BY <2>1 DEF FiniteSubsetsOf
<1>3. PICK x \in T : \A y \in T : ~(<<y, x>> \in R)
  <2> HIDE DEF R, T
  <2> QED BY <1>1, <1>2, WFMin, Zenon
<1>4. PICK m \in I : x = 0..m
  OBVIOUS
<1>5. ASSUME NEW k \in I, k < m PROVE FALSE
  <2>1. 0..k \in SUBSET Nat /\ x \in SUBSET Nat /\ 0..k \in T /\ 0..k \subseteq x /\ 0..k # x
    BY <1>4, <1>5
  <2> QED BY <1>3, <2>1 DEF StrictSubsetOrdering
<1>6. ASSUME NEW k \in I PROVE m <= k
  <2>1. m \in Nat /\ k \in Nat /\ ~(k < m)
    BY <1>5
  <2> QED BY <2>1
<1> HIDE DEF T
<1> QED BY <1>6

\* Places that increase from 1..n to 1..n are the identity: none is skipped.
LEMMA NoneSkipped ==
    ASSUME NEW n \in Nat, NEW place \in [1..n -> 1..n],
           \A j, k \in 1..n : j < k => place[j] < place[k]
    PROVE  \A k \in 1..n : place[k] = k
<1> DEFINE Early == {k \in 1..n : place[k] < k}
           Late  == {j \in 0..n : j # n /\ place[n - j] > n - j}
<1>1. Early = {}
  <2> SUFFICES ASSUME Early # {} PROVE FALSE
    OBVIOUS
  <2>1. Early \in SUBSET Nat
    OBVIOUS
  <2>2. PICK m \in Early : \A k \in Early : m <= k
    <3> HIDE DEF Early
    <3> QED BY <2>1, LeastOf
  <2>3. m \in 1..n /\ place[m] \in 1..n /\ place[m] < m
    OBVIOUS
  <2>4. place[place[m]] \in 1..n /\ place[place[m]] < place[m]
    BY <2>3
  <2>5. place[m] \in Early
    BY <2>3, <2>4
  <2> HIDE DEF Early
  <2> QED BY <2>2, <2>3, <2>5
<1>2. Late = {}
  <2> SUFFICES ASSUME Late # {} PROVE FALSE
    OBVIOUS
  <2>1. Late \in SUBSET Nat
    OBVIOUS
  <2>2. PICK i \in Late : \A j \in Late : i <= j
    <3> HIDE DEF Late
    <3> QED BY <2>1, LeastOf
  <2> DEFINE m == n - i
  <2>3. i \in 0..n /\ m \in 1..n /\ place[m] \in 1..n /\ place[m] > m
    OBVIOUS
  <2>4. place[place[m]] \in 1..n /\ place[place[m]] > place[m]
    BY <2>3
  <2>5. ASSUME NEW q \in 1..n PROVE n - q \in 0..n /\ n - q # n /\ n - (n - q) = q
    OBVIOUS
  <2>6. n - place[m] \in Late
    BY <2>3, <2>4, <2>5
  <2>7. ASSUME NEW q \in 1..n, q > n - i PROVE n - q < i
    BY <2>3, <2>7
  <2>8. n - place[m] < i
    BY <2>3, <2>7
  <2>9. i \in Nat /\ n - place[m] \in Nat
    <3>1. n - place[m] \in 0..n /\ i \in 0..n
      BY <2>3, <2>5
    <3> QED BY <3>1
  <2> HIDE DEF Late, m
  <2> QED BY <2>2, <2>6, <2>8, <2>9
<1>3. ASSUME NEW k \in 1..n PROVE place[k] = k
  <2>1. place[k] \in 1..n /\ ~(place[k] < k)
    BY <1>1
  <2>2. n - k \in 0..n /\ n - k # n /\ n - (n - k) = k
    OBVIOUS
  <2>3. ~(place[k] > k)
    BY <1>2, <2>2
  <2> QED BY <2>1, <2>3
<1> QED BY <1>3

\* Whoever has applied as many operations as the room has, each once and in
\* order, has applied the room's.
LEMMA CountedAll ==
    ASSUME NEW l \in Seq(Ops), NEW c \in Seq(Ops), NEW n \in 0..Len(l), Embeds(l, c, n),
           Len(c) >= Len(l)
    PROVE  c = l
<1>1. Len(l) \in Nat /\ Len(c) \in Nat
  OBVIOUS
<1>2. PICK place \in [1..Len(c) -> 1..n] :
        /\ \A k \in 1..Len(c) : l[place[k]] = c[k]
        /\ \A j, k \in 1..Len(c) : j < k => place[j] < place[k]
  BY DEF Embeds
<1> DEFINE w == [k \in 1..Len(l) |-> place[k]]
<1>3. 1..n \subseteq 1..Len(l) /\ 1..Len(l) \subseteq 1..Len(c)
  BY <1>1
<1>4. w \in [1..Len(l) -> 1..Len(l)]
  BY <1>2, <1>3
<1>5. \A j, k \in 1..Len(l) : j < k => w[j] < w[k]
  BY <1>2, <1>3
<1>6. \A k \in 1..Len(l) : w[k] = k
  <2> HIDE DEF w
  <2> QED BY <1>1, <1>4, <1>5, NoneSkipped
<1>7. \A k \in 1..Len(l) : place[k] = k
  BY <1>6
<1>8. ASSUME Len(c) > Len(l) PROVE FALSE
  <2>1. Len(l) + 1 \in 1..Len(c) /\ place[Len(l) + 1] \in 1..Len(l)
    BY <1>1, <1>2, <1>3, <1>8
  <2> DEFINE p == place[Len(l) + 1]
  <2>2. p \in 1..Len(c) /\ p < Len(l) + 1 /\ place[p] = p
    BY <1>1, <1>3, <1>7, <2>1
  <2>3. place[p] < p
    BY <1>2, <2>1, <2>2
  <2> QED BY <2>1, <2>2, <2>3
<1>9. Len(c) = Len(l)
  BY <1>1, <1>8
<1>10. \A k \in 1..Len(l) : c[k] = l[k]
  BY <1>2, <1>7, <1>9
<1> QED BY <1>9, <1>10, SeqEqual

\* A steady replica that has heard everything shows the room's operations.
LEMMA HeardAll ==
    ASSUME TypeOK, OrderInvariant, NEW f \in Steady, status[f] = "in", inbox[f] = <<>>
    PROVE  prop[f].clean = log /\ prop[f].seqNum = Len(log)
<1>1. SteadyObjectOK(log, prop[f], inbox[f]) /\ log \in Seq(Ops) /\ Len(log) \in Nat
  BY DEF OrderInvariant, SteadyOK, TypeOK
<1>2. \A n \in (prop[f].seqNum + 1)..Len(log) : FALSE
  BY <1>1 DEF SteadyObjectOK, Brings
<1>3. prop[f].seqNum = Len(log)
  <2>1. prop[f].seqNum \in 0..Len(log)
    BY <1>1 DEF SteadyObjectOK
  <2>2. ASSUME prop[f].seqNum < Len(log) PROVE FALSE
    <3>1. prop[f].seqNum + 1 \in (prop[f].seqNum + 1)..Len(log)
      BY <1>1, <2>1, <2>2
    <3> QED BY <1>2, <3>1
  <2> QED BY <1>1, <2>1, <2>2
<1>4. SubSeq(log, 1, Len(log)) = log
  BY <1>1
<1> QED BY <1>1, <1>3, <1>4 DEF SteadyObjectOK

\* Comparing two numbers compares two states.
LEMMA AbreastAgrees ==
    ASSUME TypeOK, OrderInvariant, Counted, NEW f \in Steady, NEW r \in Replicas,
           status[f] = "in", inbox[f] = <<>>, Abreast(r, f)
    PROVE  prop[r].clean = prop[f].clean
<1>1. prop[f].clean = log /\ prop[f].seqNum = Len(log)
  BY HeardAll
<1>2. log \in Seq(Ops) /\ prop[r].clean \in Seq(Ops)
  BY DEF TypeOK, PropObject
<1>3. CountedView(log, prop[r].clean, prop[r].seqNum, prop[r].lastOp) /\ prop[r].seqNum >= Len(log)
  BY <1>1 DEF Counted, ObjectCounted, Abreast
<1>4. PICK n \in 0..Len(log) : Embeds(log, prop[r].clean, n)
  BY <1>3 DEF CountedView
<1>5. Len(prop[r].clean) >= Len(log)
  BY <1>3 DEF CountedView
<1>6. prop[r].clean = log
  BY <1>2, <1>4, <1>5, CountedAll
<1> QED BY <1>1, <1>6

\* Whoever counts n operations has applied n of the room's, each once and in its
\* order, whatever it missed, was handed or was resynchronised with; and whoever
\* is not behind a steady replica that has heard everything shows what it shows:
\* comparing two numbers compares two states (JXProp.m lines 206-215, 267-273,
\* 316-341).
THEOREM CountedInOrderHolds == ReplayedOnce => (Spec => []CountedInOrder)
<1> SUFFICES ASSUME ReplayedOnce PROVE Spec => []CountedInOrder
  OBVIOUS
<1>1. Init => Counted
  BY CountedInit
<1>2. TypeOK /\ TypeOK' /\ OrderInvariant /\ Counted /\ [Next]_vars => Counted'
  BY CountedNext
<1>3. TypeOK /\ OrderInvariant /\ Counted => CountedInOrder
  BY CountedOrdered, AbreastAgrees DEF CountedInOrder
<1> QED BY <1>1, <1>2, <1>3, TypeCorrect, OrderKept, PTL DEF Spec

-----------------------------------------------------------------------------
(* The rounds of SYNC mode.                                                *)

\* Nothing that speaks of a round comes in that was not there.
Fewer(s, t) ==
    \A id \in AnyId : /\ Silent(s, id) => Silent(t, id)
                      /\ AtMostOne(s, id) => AtMostOne(t, id)

NoAnswer(m) == m.type \notin {"SEND_ME_STATE", "STATE_SYNC"}

LEMMA FewerSame == \A s : Fewer(s, s)
BY DEF Fewer

LEMMA FewerTwice ==
    ASSUME NEW s, NEW t, NEW u, Fewer(s, t), Fewer(t, u)
    PROVE  Fewer(s, u)
BY DEF Fewer

LEMMA FewerTail ==
    ASSUME NEW s \in Seq(Messages), s # <<>>
    PROVE  Fewer(s, Tail(s))
<1> DEFINE t == Tail(s)
<1>1. \A k \in 1..Len(t) : k \in Int /\ k + 1 \in 1..Len(s) /\ t[k] = s[k + 1]
  <2>1. Len(s) \in Nat \ {0} /\ Len(t) = Len(s) - 1 /\ \A i \in 1..(Len(s) - 1) : t[i] = s[i + 1]
    BY TailFacts
  <2> HIDE DEF t
  <2> QED BY <2>1
<1> HIDE DEF t
<1>2. ASSUME NEW id, Silent(s, id) PROVE Silent(t, id)
  BY <1>1, <1>2 DEF Silent
<1>3. ASSUME NEW id, AtMostOne(s, id) PROVE AtMostOne(t, id)
  <2> SUFFICES ASSUME NEW j \in 1..Len(t), NEW k \in 1..Len(t), IsAnswer(t[j], id), IsAnswer(t[k], id)
               PROVE  j = k
    BY DEF AtMostOne
  <2>1. /\ j + 1 \in 1..Len(s) /\ k + 1 \in 1..Len(s) /\ j \in Int /\ k \in Int
        /\ IsAnswer(s[j + 1], id) /\ IsAnswer(s[k + 1], id)
    BY <1>1
  <2>2. j + 1 = k + 1
    BY <1>3, <2>1 DEF AtMostOne
  <2> QED BY <2>1, <2>2
<1>4. Fewer(s, t)
  BY <1>2, <1>3 DEF Fewer
<1> QED BY <1>4 DEF t

\* An answer that is read was the only one of its round.
LEMMA AnswerRead ==
    ASSUME NEW s \in Seq(Messages), s # <<>>, NEW id, IsAnswer(Head(s), id), AtMostOne(s, id)
    PROVE  Silent(Tail(s), id)
<1> DEFINE t == Tail(s)
<1>1. /\ Len(s) \in Nat \ {0} /\ Len(t) = Len(s) - 1 /\ Head(s) = s[1]
      /\ \A i \in 1..(Len(s) - 1) : t[i] = s[i + 1]
  BY TailFacts
<1> HIDE DEF t
<1>2. ASSUME NEW k \in 1..Len(t), IsAnswer(t[k], id) PROVE FALSE
  <2>1. k \in 1..(Len(s) - 1) /\ k + 1 \in 1..Len(s) /\ 1 \in 1..Len(s) /\ t[k] = s[k + 1]
    BY <1>1, <1>2
  <2>2. 1 = k + 1
    BY <1>1, <1>2, <2>1 DEF AtMostOne
  <2> QED BY <2>1, <2>2
<1>3. Silent(t, id)
  BY <1>2 DEF Silent
<1> QED BY <1>3 DEF t

LEMMA AnswerAppended ==
    ASSUME NEW s \in Seq(Messages), NEW m \in Messages, NEW id
    PROVE  /\ ~IsAnswer(m, id) /\ Silent(s, id) => Silent(Append(s, m), id)
           /\ ~IsAnswer(m, id) /\ AtMostOne(s, id) => AtMostOne(Append(s, m), id)
           /\ Silent(s, id) => AtMostOne(Append(s, m), id)
<1> DEFINE t == Append(s, m)
<1>1. /\ Len(s) \in Nat /\ Len(t) = Len(s) + 1
      /\ \A k \in 1..Len(s) : t[k] = s[k]
      /\ t[Len(s) + 1] = m
  BY AppendProperties
<1> HIDE DEF t
<1>2. \A k \in 1..Len(t) : (k \in 1..Len(s) /\ t[k] = s[k]) \/ (k = Len(s) + 1 /\ t[k] = m)
  BY <1>1
<1>3. ASSUME ~IsAnswer(m, id), Silent(s, id) PROVE Silent(t, id)
  BY <1>2, <1>3 DEF Silent
<1>4. ASSUME ~IsAnswer(m, id), AtMostOne(s, id) PROVE AtMostOne(t, id)
  BY <1>2, <1>4 DEF AtMostOne
<1>5. ASSUME Silent(s, id) PROVE AtMostOne(t, id)
  BY <1>2, <1>5 DEF AtMostOne, Silent
<1> QED BY <1>3, <1>4, <1>5 DEF t

LEMMA FewerAppend ==
    ASSUME NEW s \in Seq(Messages), NEW m \in Messages, NoAnswer(m)
    PROVE  Fewer(s, Append(s, m))
<1>1. \A id : ~IsAnswer(m, id)
  BY DEF NoAnswer, IsAnswer
<1> QED BY <1>1, AnswerAppended DEF Fewer

LEMMA FewerPrefix ==
    ASSUME NEW s \in Seq(Messages), NEW k \in 0..Len(s)
    PROVE  Fewer(s, SubSeq(s, 1, k))
<1> DEFINE t == SubSeq(s, 1, k)
<1>1. Len(s) \in Nat /\ k \in Nat /\ k <= Len(s)
  OBVIOUS
<1>2. Len(t) = k /\ \A i \in 1..k : t[i] = s[i]
  <2>1. \A i \in 1..k : s[i] \in Messages
    BY <1>1, ElementOfSeq
  <2> QED BY <1>1, <2>1, SubSeqProperties
<1> HIDE DEF t
<1>3. \A i \in 1..Len(t) : i \in 1..Len(s) /\ t[i] = s[i]
  BY <1>1, <1>2
<1>4. Fewer(s, t)
  BY <1>3 DEF Fewer, Silent, AtMostOne
<1> QED BY <1>4 DEF t

LEMMA FewerEmpty == \A s : Fewer(s, <<>>)
BY EmptySeq DEF Fewer, Silent, AtMostOne

LEMMA FewerConcat ==
    ASSUME NEW s \in Seq(Messages), NEW h \in Seq(Messages), \A id \in AnyId : Silent(h, id)
    PROVE  Fewer(s, s \o h)
<1> DEFINE t == s \o h
<1>1. /\ Len(s) \in Nat /\ Len(h) \in Nat /\ Len(t) = Len(s) + Len(h)
      /\ \A k \in 1..Len(t) : t[k] = IF k <= Len(s) THEN s[k] ELSE h[k - Len(s)]
  BY ConcatProperties
<1> HIDE DEF t
<1>2. \A k \in 1..Len(t) : \/ k \in 1..Len(s) /\ t[k] = s[k]
                           \/ k - Len(s) \in 1..Len(h) /\ t[k] = h[k - Len(s)]
  BY <1>1
<1>3. ASSUME NEW id \in AnyId, NEW k \in 1..Len(t), IsAnswer(t[k], id) PROVE k \in 1..Len(s) /\ t[k] = s[k]
  BY <1>2, <1>3 DEF Silent
<1>4. Fewer(s, t)
  BY <1>3 DEF Fewer, Silent, AtMostOne
<1> QED BY <1>4 DEF t

LEMMA MulticastFewer ==
    ASSUME history \in Seq(Messages), NEW r, NEW box \in Boxes, NEW m \in Messages, NoAnswer(m),
           Multicast(r, box, m), \A id \in AnyId : Silent(history, id)
    PROVE  /\ \A q \in Replicas : Fewer(box[q], inbox'[q])
           /\ \A id \in AnyId : Silent(history', id)
<1>1. ASSUME NEW q \in Replicas PROVE Fewer(box[q], inbox'[q])
  <2>1. box[q] \in Seq(Messages) /\ inbox'[q] \in {box[q], Append(box[q], m)}
    BY DEF Multicast, Boxes
  <2> QED BY <2>1, FewerSame, FewerAppend
<1>2. ASSUME NEW id \in AnyId PROVE Silent(history', id)
  <2>1. ~IsAnswer(m, id) /\ Silent(history, id)
    BY DEF NoAnswer, IsAnswer
  <2>2. CASE history' = history
    BY <2>1, <2>2
  <2>3. CASE history' = Append(history, m)
    BY <2>1, <2>3, AnswerAppended
  <2>4. CASE history # <<>> /\ history' = Append(Tail(history), m)
    <3>1. Tail(history) \in Seq(Messages) /\ Silent(Tail(history), id)
      BY <2>1, <2>4, TailFacts, FewerTail DEF Fewer
    <3> QED BY <2>1, <2>4, <3>1, AnswerAppended
  <2>5. CASE history = <<>> /\ Len(history) = HistoryLen
    BY <2>2, <2>5, EmptySeq DEF Multicast
  <2> QED BY <2>2, <2>3, <2>4, <2>5 DEF Multicast
<1> QED BY <1>1, <1>2

LEMMA UnicastFewer ==
    ASSUME NEW r, NEW to \in Replicas, NEW box \in Boxes, NEW m \in Messages, NoAnswer(m),
           Unicast(r, box, to, m)
    PROVE  \A q \in Replicas : Fewer(box[q], inbox'[q])
<1> SUFFICES ASSUME NEW q \in Replicas PROVE Fewer(box[q], inbox'[q])
  OBVIOUS
<1>1. box[q] \in Seq(Messages) /\ inbox'[q] \in {box[q], Append(box[q], m)}
  BY DEF Unicast, Boxes
<1> QED BY <1>1, FewerSame, FewerAppend

\* The one answer of a round is sent.
LEMMA AnswerSent ==
    ASSUME NEW r, NEW to \in Replicas, NEW box \in Boxes, NEW m \in Messages, Unicast(r, box, to, m),
           NEW id, IsAnswer(m, id), \A q \in Replicas : Silent(box[q], id),
           \A i \in AnyId : OneAnswer(box, i)
    PROVE  /\ \A i \in AnyId : OneAnswer(inbox', i)
           /\ \A i \in AnyId : \A q \in Replicas : i # id /\ Silent(box[q], i) => Silent(inbox'[q], i)
<1>1. \A q \in Replicas : /\ box[q] \in Seq(Messages)
                          /\ inbox'[q] = box[q] \/ (q = to /\ inbox'[q] = Append(box[q], m))
  BY DEF Unicast, Boxes
<1>2. \A i : i # id => ~IsAnswer(m, i)
  BY DEF IsAnswer
<1>3. ASSUME NEW i \in AnyId, NEW q \in Replicas, i # id, Silent(box[q], i) PROVE Silent(inbox'[q], i)
  BY <1>1, <1>2, <1>3, AnswerAppended
<1>4. ASSUME NEW i \in AnyId PROVE OneAnswer(inbox', i)
  <2>1. ASSUME NEW q \in Replicas PROVE AtMostOne(inbox'[q], i)
    <3>1. AtMostOne(box[q], i)
      BY DEF OneAnswer
    <3>2. CASE inbox'[q] = box[q]
      BY <3>1, <3>2
    <3>3. CASE inbox'[q] = Append(box[q], m)
      BY <1>1, <1>2, <3>1, <3>3, AnswerAppended
    <3> QED BY <1>1, <3>2, <3>3
  <2>2. ASSUME NEW p \in Replicas, NEW q \in Replicas, p # q
        PROVE  Silent(inbox'[p], i) \/ Silent(inbox'[q], i)
    <3>1. CASE i = id
      BY <1>1, <2>2, <3>1
    <3>2. CASE i # id
      BY <1>3, <2>2, <3>2 DEF OneAnswer
    <3> QED BY <3>1, <3>2
  <2> QED BY <2>1, <2>2 DEF OneAnswer
<1> QED BY <1>3, <1>4

LEMMA FewerRounds ==
    ASSUME NEW box, NEW next, \A q \in Replicas : Fewer(box[q], next[q]), NEW id \in AnyId
    PROVE  OneAnswer(box, id) => OneAnswer(next, id)
BY DEF Fewer, OneAnswer

\* A step that starts no round, accepts no offer and sends no state; and leaves
\* none but by the state it has been waiting for.
QuietStep ==
    /\ \A q \in Replicas : Fewer(inbox[q], inbox'[q])
    /\ \A id \in AnyId : Silent(history', id)
    /\ \A q \in Replicas :
          /\ prop'[q].mode = "SYNC" =>
                /\ prop[q].mode = "SYNC" /\ prop'[q].syncId = prop[q].syncId
                /\ prop'[q].waiting = prop[q].waiting
          /\ prop[q].mode = "SYNC" /\ prop'[q].mode # "SYNC" => ~Silent(inbox[q], prop[q].syncId)

LEMMA RestFewer ==
    ASSUME TypeOK, NEW r \in Replicas, inbox[r] # <<>>
    PROVE  /\ Rest(r) \in Boxes
           /\ \A q \in Replicas : Fewer(inbox[q], Rest(r)[q])
           /\ Rest(r)[r] = Tail(inbox[r])
           /\ inbox[r] \in Seq(Messages)
           /\ Head(inbox[r]) \in Messages /\ Head(inbox[r]).from \in Replicas
<1>1. inbox \in Boxes /\ inbox[r] \in Seq(Messages)
  BY DEF TypeOK, Boxes
<1>2. Rest(r) \in Boxes /\ Head(inbox[r]) \in Messages
  BY <1>1, TakenType DEF Rest
<1>3. \A q \in Replicas : Rest(r)[q] = IF q = r THEN Tail(inbox[r]) ELSE inbox[q]
  BY <1>1 DEF Rest, Boxes
<1> QED BY <1>1, <1>2, <1>3, FewerTail, FewerSame, MessageKinds

LEMMA QuietTimer ==
    ASSUME TypeOK, SyncRounds, NEW r \in Replicas, AddOperation(r) \/ Timer(r)
    PROVE  QuietStep
<1>1. inbox \in Boxes /\ history \in Seq(Messages) /\ \A id \in AnyId : Silent(history, id)
  BY DEF TypeOK, Boxes, SyncRounds
<1>2. CASE AddOperation(r)
  <2> DEFINE m == StateOperation(r, issued + 1, Len(log) + 1)
  <2>1. m \in Messages /\ NoAnswer(m)
    <3>1. issued + 1 \in Ops /\ Len(log) + 1 \in Nat
      BY BoundsAssumption DEF TypeOK, Ops
    <3> QED BY <3>1, BuiltMessages DEF StateOperation, NoAnswer
  <2>2. Multicast(r, inbox, m)
    BY <1>2 DEF AddOperation
  <2> HIDE DEF m
  <2>3. \A q \in Replicas : /\ prop'[q].mode = prop[q].mode /\ prop'[q].syncId = prop[q].syncId
                            /\ prop'[q].waiting = prop[q].waiting
    BY <1>2 DEF AddOperation, TypeOK, PropObject
  <2> QED BY <1>1, <2>1, <2>2, <2>3, MulticastFewer DEF QuietStep
<1>3. CASE PeriodicTask(r)
  BY <1>1, <1>3, FewerSame DEF PeriodicTask, QuietStep
<1>4. CASE SendHello(r)
  <2>1. Hello(r) \in Messages /\ NoAnswer(Hello(r))
    BY BuiltMessages DEF Hello, NoAnswer
  <2>2. Multicast(r, inbox, Hello(r)) /\ prop' = prop
    BY <1>4 DEF SendHello
  <2> QED BY <1>1, <2>1, <2>2, MulticastFewer DEF QuietStep
<1>5. CASE BroadcastSyncRequest(r)
  <2> DEFINE m == SyncRequest("WHO_HAS_STATE", r, prop[r].syncId)
  <2>1. m \in Messages /\ NoAnswer(m)
    <3>1. prop[r].syncId \in SyncIds \cup {NoSync}
      BY DEF TypeOK, PropObject
    <3> QED BY <3>1, BuiltMessages DEF SyncRequest, NoAnswer
  <2>2. Multicast(r, inbox, m) /\ prop' = prop
    BY <1>5 DEF BroadcastSyncRequest
  <2> HIDE DEF m
  <2> QED BY <1>1, <2>1, <2>2, MulticastFewer DEF QuietStep
<1> QED BY <1>2, <1>3, <1>4, <1>5 DEF Timer

LEMMA HandledModes ==
    ASSUME NEW p \in PropObject, NEW r, NEW m, p.mode = "NORM"
    PROVE  HandleReceivedOp(p, r, m).mode = "NORM"
BY DEF HandleReceivedOp, HandleOwnOp, HandleRemoteOp, PropObject

LEMMA InstalledMode ==
    ASSUME NEW p \in PropObject, NEW r, NEW m
    PROVE  HandleStateSync(p, r, m).mode = "NORM"
BY DEF HandleStateSync, ExitSYNCMode, PropObject

LEMMA QuietHandling ==
    ASSUME TypeOK, SyncRounds, NEW r \in Replicas, HandleMessage(r),
           ~EnterSync(r), ~AcceptIHaveState(r), ~AnswerSendMeState(r)
    PROVE  QuietStep
<1> DEFINE m == Head(inbox[r])
<1>1. inbox[r] # <<>>
  BY DEF HandleMessage, ApplyOperation, RaiseOnConflict, AnswerWhoHasState, BufferOperation,
         InstallState, IgnoreMessage, Handling
<1>2. /\ Rest(r) \in Boxes /\ Rest(r)[r] = Tail(inbox[r])
      /\ \A q \in Replicas : Fewer(inbox[q], Rest(r)[q])
      /\ inbox[r] \in Seq(Messages) /\ m \in Messages /\ m.from \in Replicas
  BY <1>1, RestFewer
<1>3. prop \in [Replicas -> PropObject] /\ prop[r] \in PropObject /\ inbox \in Boxes
      /\ \A id \in AnyId : Silent(history, id)
  BY DEF TypeOK, Boxes, SyncRounds
<1>4. CASE ApplyOperation(r)
  <2>1. /\ prop[r].mode = "NORM" /\ inbox' = Rest(r) /\ history' = history
        /\ prop' = [prop EXCEPT ![r] = HandleReceivedOp(prop[r], r, m)]
    BY <1>4 DEF ApplyOperation, Handling
  <2>2. HandleReceivedOp(prop[r], r, m).mode = "NORM"
    BY <1>3, <2>1, HandledModes
  <2>3. \A q \in Replicas : prop'[q] = IF q = r THEN HandleReceivedOp(prop[r], r, m) ELSE prop[q]
    BY <1>3, <2>1
  <2> HIDE DEF m
  <2> QED BY <1>2, <1>3, <2>1, <2>2, <2>3 DEF QuietStep
<1>5. CASE RaiseOnConflict(r)
  <2>1. prop' = prop /\ history' = history /\ \A q \in Replicas : inbox'[q] \in {inbox[q], <<>>}
    BY <1>3, <1>5 DEF RaiseOnConflict, Boxes
  <2> QED BY <1>3, <2>1, FewerSame, FewerEmpty DEF QuietStep
<1>6. CASE AnswerWhoHasState(r)
  <2> DEFINE a == SyncRequest("I_HAVE_STATE", r, m.syncId)
  <2>1. a \in Messages /\ NoAnswer(a)
    <3>1. m.syncId \in SyncIds \cup {NoSync}
      BY <1>2, <1>6, MessageKinds DEF SyncMsg, AnswerWhoHasState, Handling
    <3> QED BY <3>1, BuiltMessages DEF SyncRequest, NoAnswer
  <2>2. Unicast(r, Rest(r), m.from, a) /\ prop' = prop /\ history' = history
    BY <1>6 DEF AnswerWhoHasState, Unicast
  <2> HIDE DEF a, m
  <2>3. \A q \in Replicas : Fewer(Rest(r)[q], inbox'[q])
    BY <1>2, <2>1, <2>2, UnicastFewer
  <2> QED BY <1>2, <1>3, <2>2, <2>3, FewerTwice DEF QuietStep
<1>7. CASE BufferOperation(r)
  <2>1. inbox' = Rest(r) /\ history' = history
    BY <1>7 DEF BufferOperation
  <2>2. \A q \in Replicas : /\ prop'[q].mode = prop[q].mode /\ prop'[q].syncId = prop[q].syncId
                            /\ prop'[q].waiting = prop[q].waiting
    BY <1>3, <1>7 DEF BufferOperation, PropObject
  <2> QED BY <1>2, <1>3, <2>1, <2>2 DEF QuietStep
<1>8. CASE InstallState(r)
  <2>1. /\ m.type = "STATE_SYNC" /\ m.syncId = prop[r].syncId
        /\ inbox' = Rest(r) /\ history' = history
        /\ prop' = [prop EXCEPT ![r] = HandleStateSync(prop[r], r, m)]
    BY <1>8 DEF InstallState, Handling
  <2>2. HandleStateSync(prop[r], r, m).mode = "NORM"
    BY <1>3, InstalledMode
  <2>3. \A q \in Replicas : prop'[q] = IF q = r THEN HandleStateSync(prop[r], r, m) ELSE prop[q]
    BY <1>3, <2>1
  <2>4. ~Silent(inbox[r], prop[r].syncId)
    <3>1. 1 \in 1..Len(inbox[r]) /\ m = inbox[r][1]
      BY <1>1, <1>2, TailFacts
    <3> QED BY <2>1, <3>1 DEF Silent, IsAnswer
  <2> HIDE DEF m
  <2> QED BY <1>2, <1>3, <2>1, <2>2, <2>3, <2>4 DEF QuietStep
<1>9. CASE IgnoreMessage(r)
  BY <1>2, <1>3, <1>9 DEF IgnoreMessage, QuietStep
<1> QED BY <1>4, <1>5, <1>6, <1>7, <1>8, <1>9 DEF HandleMessage

LEMMA QuietRoom ==
    ASSUME TypeOK, SyncRounds, NEW r \in Replicas, DropUnhandled(r) \/ Joining(r) \/ Leaving(r)
    PROVE  QuietStep
<1>1. /\ inbox \in Boxes /\ history \in Seq(Messages) /\ history' = history
      /\ inbox[r] \in Seq(Messages) /\ prop \in [Replicas -> PropObject]
      /\ \A id \in AnyId : Silent(history, id)
  BY DEF TypeOK, Boxes, SyncRounds, DropUnhandled, Joining, JoinRoom, RegisterMessageHandler,
     AfterActivityJoin, RejoinRoom, Leaving, LoseConnection, LeaveRoom
<1>2. \A q \in Replicas : /\ prop'[q].mode = prop[q].mode /\ prop'[q].syncId = prop[q].syncId
                          /\ prop'[q].waiting = prop[q].waiting
  <2>1. CASE AfterActivityJoin(r)
    BY <1>1, <2>1 DEF AfterActivityJoin, PropObject
  <2>2. CASE ~AfterActivityJoin(r)
    BY <2>2 DEF DropUnhandled, Joining, JoinRoom, RegisterMessageHandler, RejoinRoom,
       Leaving, LoseConnection, LeaveRoom
  <2> QED BY <2>1, <2>2
<1>3. ASSUME NEW q \in Replicas PROVE Fewer(inbox[q], inbox'[q])
  <2>1. CASE DropUnhandled(r)
    BY <2>1, RestFewer DEF DropUnhandled
  <2>2. CASE JoinRoom(r)
    <3>1. inbox'[q] \in {inbox[q], history}
      BY <1>1, <2>2 DEF JoinRoom, Boxes
    <3>2. Fewer(inbox[q], history)
      <4>1. \A id \in AnyId : AtMostOne(history, id)
        BY <1>1 DEF Silent, AtMostOne
      <4> QED BY <1>1, <4>1 DEF Fewer
    <3> QED BY <3>1, <3>2, FewerSame
  <2>3. CASE RegisterMessageHandler(r) \/ AfterActivityJoin(r)
    BY <2>3, FewerSame DEF RegisterMessageHandler, AfterActivityJoin
  <2>4. CASE RejoinRoom(r)
    <3>1. inbox'[q] = inbox[q] \/ (q = r /\ inbox'[q] = inbox[r] \o history)
      BY <1>1, <2>4 DEF RejoinRoom, Boxes
    <3> QED BY <1>1, <3>1, FewerSame, FewerConcat
  <2>5. CASE LoseConnection(r)
    <3>1. PICK k \in 0..Len(inbox[r]) : inbox' = [inbox EXCEPT ![r] = SubSeq(inbox[r], 1, k)]
      BY <2>5 DEF LoseConnection
    <3>2. inbox'[q] = inbox[q] \/ (q = r /\ inbox'[q] = SubSeq(inbox[r], 1, k))
      BY <1>1, <3>1 DEF Boxes
    <3> QED BY <1>1, <3>2, FewerSame, FewerPrefix
  <2>6. CASE LeaveRoom(r)
    <3>1. inbox'[q] \in {inbox[q], <<>>}
      BY <1>1, <2>6 DEF LeaveRoom, Boxes
    <3> QED BY <3>1, FewerSame, FewerEmpty
  <2> QED BY <2>1, <2>2, <2>3, <2>4, <2>5, <2>6 DEF Joining, Leaving
<1> QED BY <1>1, <1>2, <1>3 DEF QuietStep

\* An offer is accepted: no state was asked for in this round, one is now.
LEMMA OfferAccepted ==
    ASSUME TypeOK, SyncRounds, NEW r \in Replicas, AcceptIHaveState(r)
    PROVE  /\ \A id \in AnyId : OneAnswer(inbox', id)
           /\ \A id \in AnyId : \A q \in Replicas :
                 id # prop[r].syncId /\ Silent(inbox[q], id) => Silent(inbox'[q], id)
           /\ history' = history /\ prop[r].mode = "SYNC" /\ prop[r].waiting
           /\ prop' = [prop EXCEPT ![r].waiting = FALSE]
<1> DEFINE m == Head(inbox[r])
           a == SyncRequest("SEND_ME_STATE", r, m.syncId)
<1>1. /\ inbox[r] # <<>> /\ prop[r].mode = "SYNC" /\ prop[r].waiting /\ m.syncId = prop[r].syncId
      /\ m.type = "I_HAVE_STATE"
      /\ Unicast(r, Rest(r), m.from, a) /\ history' = history
      /\ prop' = [prop EXCEPT ![r].waiting = FALSE]
  BY DEF AcceptIHaveState, Handling, Accepts, Unicast
<1>2. /\ Rest(r) \in Boxes /\ m \in Messages /\ m.from \in Replicas
      /\ \A q \in Replicas : Fewer(inbox[q], Rest(r)[q])
  BY <1>1, RestFewer
<1>3. prop[r].syncId \in AnyId /\ \A q \in Replicas : Silent(inbox[q], prop[r].syncId)
  BY <1>1 DEF SyncRounds, AnyId
<1>4. a \in Messages /\ IsAnswer(a, prop[r].syncId)
  BY <1>1, <1>3, BuiltMessages DEF SyncRequest, IsAnswer, AnyId
<1>5. /\ \A id \in AnyId : OneAnswer(Rest(r), id)
      /\ \A q \in Replicas : Silent(Rest(r)[q], prop[r].syncId)
  BY <1>2, <1>3, FewerRounds DEF SyncRounds, Fewer
<1> HIDE DEF m, a
<1>6. /\ \A id \in AnyId : OneAnswer(inbox', id)
      /\ \A id \in AnyId : \A q \in Replicas :
            id # prop[r].syncId /\ Silent(Rest(r)[q], id) => Silent(inbox'[q], id)
  BY <1>1, <1>2, <1>4, <1>5, AnswerSent
<1> QED BY <1>1, <1>2, <1>6 DEF Fewer

\* A state is sent in the place of the request that is read.
LEMMA StateSent ==
    ASSUME TypeOK, SyncRounds, NEW r \in Replicas, AnswerSendMeState(r)
    PROVE  /\ \A id \in AnyId : OneAnswer(inbox', id)
           /\ \A id \in AnyId : (\A q \in Replicas : Silent(inbox[q], id)) => \A q \in Replicas : Silent(inbox'[q], id)
           /\ history' = history /\ prop' = prop
<1> DEFINE m == Head(inbox[r])
           id == m.syncId
           a == StateSync(r, id)
<1>1. /\ inbox[r] # <<>> /\ m.type = "SEND_ME_STATE" /\ IsAnswer(m, id)
      /\ Unicast(r, Rest(r), m.from, a) /\ history' = history /\ prop' = prop
  BY DEF AnswerSendMeState, Handling, Unicast, IsAnswer
<1>2. /\ Rest(r) \in Boxes /\ m \in Messages /\ m.from \in Replicas /\ inbox[r] \in Seq(Messages)
      /\ \A q \in Replicas : Fewer(inbox[q], Rest(r)[q])
      /\ Rest(r)[r] = Tail(inbox[r])
      /\ m = inbox[r][1] /\ 1 \in 1..Len(inbox[r])
  BY <1>1, RestFewer, TailFacts
<1>3. id \in AnyId
  BY <1>1, <1>2, MessageKinds DEF SyncMsg, AnyId
<1>4. a \in Messages /\ IsAnswer(a, id)
  BY <1>3, BuiltMessages DEF StateSync, IsAnswer, AnyId
<1> HIDE DEF m, id, a
<1>5. ~Silent(inbox[r], id)
  BY <1>1, <1>2 DEF Silent
<1>6. OneAnswer(inbox, id)
  BY <1>3 DEF SyncRounds
<1>7. \A q \in Replicas : Silent(Rest(r)[q], id)
  <2>1. Silent(Tail(inbox[r]), id)
    BY <1>1, <1>2, <1>6, AnswerRead DEF OneAnswer, m
  <2>2. \A q \in Replicas : q # r => Silent(inbox[q], id)
    BY <1>5, <1>6 DEF OneAnswer
  <2> QED BY <1>2, <1>3, <2>1, <2>2 DEF Fewer
<1>8. \A i \in AnyId : OneAnswer(Rest(r), i)
  BY <1>2, FewerRounds DEF SyncRounds
<1>9. /\ \A i \in AnyId : OneAnswer(inbox', i)
      /\ \A i \in AnyId : \A q \in Replicas : i # id /\ Silent(Rest(r)[q], i) => Silent(inbox'[q], i)
  <2>1. m.from \in Replicas /\ Unicast(r, Rest(r), m.from, a)
    BY <1>1, <1>2
  <2>2. IsAnswer(a, id) /\ a \in Messages /\ Rest(r) \in Boxes
    BY <1>2, <1>4
  <2>3. \A i \in AnyId : OneAnswer(inbox', i)
    BY <1>7, <1>8, <2>1, <2>2, AnswerSent
  <2>4. ASSUME NEW i \in AnyId, NEW q \in Replicas, i # id, Silent(Rest(r)[q], i)
        PROVE  Silent(inbox'[q], i)
    BY <1>7, <1>8, <2>1, <2>2, <2>4, AnswerSent
  <2> QED BY <2>3, <2>4
<1>10. ASSUME NEW i \in AnyId, \A q \in Replicas : Silent(inbox[q], i)
       PROVE  \A q \in Replicas : Silent(inbox'[q], i)
  <2>1. i # id
    BY <1>5, <1>10
  <2> QED BY <1>2, <1>9, <1>10, <2>1 DEF Fewer
<1> QED BY <1>1, <1>9, <1>10

\* A round begins under an id that nobody carries.
LEMMA RoundBegun ==
    ASSUME TypeOK, SyncRounds, NEW r \in Replicas, EnterSync(r)
    PROVE  /\ \A q \in Replicas : Fewer(inbox[q], inbox'[q])
           /\ \A id \in AnyId : Silent(history', id)
           /\ prop[r].mode = "NORM"
           /\ \E id \in SyncIds :
                 /\ \A q \in Replicas : prop[q].syncId # id /\ Silent(inbox[q], id)
                 /\ prop' = [prop EXCEPT ![r] = EnterSYNCMode(prop[r], id)]
<1> DEFINE id == CHOOSE i \in FreshSyncIds : TRUE
           w == SyncRequest("WHO_HAS_STATE", r, id)
<1>1. /\ inbox[r] # <<>> /\ FreshSyncIds # {} /\ Multicast(r, Rest(r), w) /\ prop[r].mode = "NORM"
      /\ prop' = [prop EXCEPT ![r] = EnterSYNCMode(prop[r], id)]
  BY DEF EnterSync, Handling
<1>2. id \in FreshSyncIds
  BY <1>1
<1> HIDE DEF id
<1>3. /\ id \in SyncIds
      /\ \A q \in Replicas : prop[q].syncId # id /\ Silent(inbox[q], id)
  BY <1>2 DEF FreshSyncIds, Silent, IsAnswer
<1>4. w \in Messages /\ NoAnswer(w)
  BY <1>3, BuiltMessages DEF SyncRequest, NoAnswer
<1> HIDE DEF w
<1>5. Rest(r) \in Boxes /\ \A q \in Replicas : Fewer(inbox[q], Rest(r)[q])
  BY <1>1, RestFewer
<1>6. history \in Seq(Messages) /\ \A i \in AnyId : Silent(history, i)
  BY DEF TypeOK, SyncRounds
<1>7. /\ \A q \in Replicas : Fewer(Rest(r)[q], inbox'[q])
      /\ \A i \in AnyId : Silent(history', i)
  BY <1>1, <1>4, <1>5, <1>6, MulticastFewer
<1> QED BY <1>1, <1>3, <1>5, <1>7, FewerTwice

LEMMA RoundSteps ==
    ASSUME TypeOK, SyncRounds, Next
    PROVE  \/ QuietStep
           \/ \E r \in Replicas : EnterSync(r) \/ AcceptIHaveState(r) \/ AnswerSendMeState(r)
<1>1. PICK r \in Replicas :
        AddOperation(r) \/ Timer(r) \/ HandleMessage(r) \/ DropUnhandled(r) \/ Joining(r) \/ Leaving(r)
  BY DEF Next
<1> QED BY <1>1, QuietTimer, QuietHandling, QuietRoom

LEMMA RoundsInit == Init => SyncRounds
<1> SUFFICES ASSUME Init PROVE SyncRounds
  OBVIOUS
<1>1. history = <<>> /\ \A q \in Replicas : inbox[q] = <<>> /\ prop[q].mode = "NORM"
  BY DEF Init, InitProp
<1> QED BY <1>1, EmptySeq DEF SyncRounds, Silent, OneAnswer, AtMostOne

LEMMA RoundsNext ==
    ASSUME TypeOK, SyncRounds, [Next]_vars
    PROVE  SyncRounds'
<1>1. CASE UNCHANGED vars
  BY <1>1 DEF vars, SyncRounds
<1>2. CASE QuietStep
  <2>1. \A id \in AnyId : Silent(history', id) /\ OneAnswer(inbox', id)
    BY <1>2, FewerRounds DEF QuietStep, SyncRounds
  <2>2. ASSUME NEW r \in Replicas, prop'[r].mode = "SYNC"
        PROVE  /\ prop'[r].syncId \in SyncIds /\ prop[r].mode = "SYNC" /\ prop'[r].syncId = prop[r].syncId
               /\ prop'[r].waiting => \A q \in Replicas : Silent(inbox'[q], prop'[r].syncId)
    <3>1. /\ prop[r].mode = "SYNC" /\ prop'[r].syncId = prop[r].syncId /\ prop'[r].waiting = prop[r].waiting
          /\ prop[r].syncId \in SyncIds
      BY <1>2, <2>2 DEF QuietStep, SyncRounds
    <3> QED BY <1>2, <3>1 DEF QuietStep, SyncRounds, Fewer, AnyId
  <2> QED BY <2>1, <2>2 DEF SyncRounds
<1>3. ASSUME NEW r \in Replicas, EnterSync(r) PROVE SyncRounds'
  <2>1. /\ \A q \in Replicas : Fewer(inbox[q], inbox'[q])
        /\ \A id \in AnyId : Silent(history', id)
    BY <1>3, RoundBegun
  <2>2. PICK id \in SyncIds :
          /\ \A q \in Replicas : prop[q].syncId # id /\ Silent(inbox[q], id)
          /\ prop' = [prop EXCEPT ![r] = EnterSYNCMode(prop[r], id)]
    BY <1>3, RoundBegun
  <2>3. \A i \in AnyId : Silent(history', i) /\ OneAnswer(inbox', i)
    BY <2>1, FewerRounds DEF SyncRounds
  <2>4. \A q \in Replicas : \/ q = r /\ prop'[q].mode = "SYNC" /\ prop'[q].syncId = id
                            \/ q # r /\ prop'[q] = prop[q]
    BY <2>2 DEF TypeOK, EnterSYNCMode, PropObject
  <2>5. ASSUME NEW q \in Replicas, prop'[q].mode = "SYNC"
        PROVE  /\ prop'[q].syncId \in SyncIds
               /\ prop'[q].waiting => \A p \in Replicas : Silent(inbox'[p], prop'[q].syncId)
    <3>1. CASE q = r
      BY <2>1, <2>2, <2>4, <3>1 DEF Fewer, AnyId
    <3>2. CASE q # r
      BY <2>1, <2>4, <2>5, <3>2 DEF SyncRounds, Fewer, AnyId
    <3> QED BY <3>1, <3>2
  <2>6. ASSUME NEW p \in Replicas, NEW q \in Replicas, p # q, prop'[p].mode = "SYNC", prop'[q].mode = "SYNC"
        PROVE  prop'[p].syncId # prop'[q].syncId
    BY <2>2, <2>4, <2>6 DEF SyncRounds
  <2> QED BY <2>3, <2>5, <2>6 DEF SyncRounds
<1>4. ASSUME NEW r \in Replicas, AcceptIHaveState(r) PROVE SyncRounds'
  <2>1. /\ \A id \in AnyId : OneAnswer(inbox', id)
        /\ \A id \in AnyId : \A q \in Replicas :
              id # prop[r].syncId /\ Silent(inbox[q], id) => Silent(inbox'[q], id)
        /\ history' = history /\ prop[r].mode = "SYNC"
        /\ prop' = [prop EXCEPT ![r].waiting = FALSE]
    BY <1>4, OfferAccepted
  <2>2. \A q \in Replicas : /\ prop'[q].mode = prop[q].mode /\ prop'[q].syncId = prop[q].syncId
                            /\ prop'[q].waiting => q # r /\ prop[q].waiting
    <3> SUFFICES ASSUME NEW q \in Replicas
                 PROVE  /\ prop'[q].mode = prop[q].mode /\ prop'[q].syncId = prop[q].syncId
                        /\ prop'[q].waiting => q # r /\ prop[q].waiting
      OBVIOUS
    <3>1. prop \in [Replicas -> PropObject]
      BY DEF TypeOK
    <3>2. CASE q = r
      BY <2>1, <3>1, <3>2 DEF PropObject
    <3>3. CASE q # r
      BY <2>1, <3>1, <3>3
    <3> QED BY <3>2, <3>3
  <2>3. ASSUME NEW q \in Replicas, prop'[q].mode = "SYNC"
        PROVE  /\ prop'[q].syncId \in SyncIds
               /\ prop'[q].waiting => \A p \in Replicas : Silent(inbox'[p], prop'[q].syncId)
    <3>1. prop[q].syncId \in SyncIds /\ prop[q].syncId \in AnyId
      BY <2>2, <2>3 DEF SyncRounds, AnyId
    <3>2. ASSUME prop'[q].waiting, NEW p \in Replicas PROVE Silent(inbox'[p], prop[q].syncId)
      <4>1. prop[q].syncId # prop[r].syncId
        BY <2>1, <2>2, <2>3, <3>2 DEF SyncRounds
      <4>2. Silent(inbox[p], prop[q].syncId)
        BY <2>2, <2>3, <3>2 DEF SyncRounds
      <4> QED BY <2>1, <3>1, <4>1, <4>2
    <3> QED BY <2>2, <3>1, <3>2
  <2> QED BY <2>1, <2>2, <2>3 DEF SyncRounds
<1>5. ASSUME NEW r \in Replicas, AnswerSendMeState(r) PROVE SyncRounds'
  <2>1. /\ \A id \in AnyId : OneAnswer(inbox', id)
        /\ \A id \in AnyId : (\A q \in Replicas : Silent(inbox[q], id)) => \A q \in Replicas : Silent(inbox'[q], id)
        /\ history' = history /\ prop' = prop
    BY <1>5, StateSent
  <2> QED BY <2>1 DEF SyncRounds, AnyId
<1> QED BY <1>1, <1>2, <1>3, <1>4, <1>5, RoundSteps

THEOREM RoundsKept == Spec => []SyncRounds
BY RoundsInit, RoundsNext, TypeCorrect, PTL DEF Spec

\* What OneAnswerPerSync counts.
LEMMA AnswersHeld ==
    ASSUME TypeOK, NEW r \in Replicas, NEW x
    PROVE  x \in Answers(r) <=>
             \E q \in Replicas : \E k \in 1..Len(inbox[q]) : x = <<q, k>> /\ IsAnswer(inbox[q][k], prop[r].syncId)
<1>1. \A q \in Replicas : DOMAIN inbox[q] = 1..Len(inbox[q])
  BY DEF TypeOK
<1> QED BY <1>1 DEF Answers, InFlight, IsAnswer

LEMMA NoAnswersHeld ==
    ASSUME TypeOK, TypeOK', NEW r \in Replicas
    PROVE  /\ Answers(r) = {} => \A q \in Replicas : Silent(inbox[q], prop[r].syncId)
           /\ (\A q \in Replicas : Silent(inbox'[q], prop'[r].syncId)) => Answers(r)' = {}
<1>1. ASSUME Answers(r) = {}, NEW q \in Replicas PROVE Silent(inbox[q], prop[r].syncId)
  <2> SUFFICES ASSUME NEW k \in 1..Len(inbox[q]), IsAnswer(inbox[q][k], prop[r].syncId) PROVE FALSE
    BY DEF Silent
  <2>1. <<q, k>> \in Answers(r)
    BY AnswersHeld
  <2> QED BY <1>1, <2>1
<1>2. ASSUME \A q \in Replicas : Silent(inbox'[q], prop'[r].syncId) PROVE Answers(r)' = {}
  <2>1. \A q \in Replicas : DOMAIN inbox'[q] = 1..Len(inbox'[q])
    BY DEF TypeOK
  <2> SUFFICES ASSUME NEW x, x \in Answers(r)' PROVE FALSE
    OBVIOUS
  <2>2. \E q \in Replicas : \E k \in 1..Len(inbox'[q]) : IsAnswer(inbox'[q][k], prop'[r].syncId)
    BY <2>1 DEF Answers, InFlight, IsAnswer
  <2> QED BY <1>2, <2>2 DEF Silent
<1> QED BY <1>1, <1>2

\* Whatever is lost, duplicated in offers or asked again by the timer, a replica
\* in SYNC mode is sent one state at most for one round, and only after it has
\* accepted an offer: no state is installed on top of another (lines 294-314).
THEOREM OneAnswerPerSyncHolds == Spec => []OneAnswerPerSync
<1>1. TypeOK /\ SyncRounds => OneAnswerPerSync
  <2> SUFFICES ASSUME TypeOK, SyncRounds, NEW r \in Replicas, prop[r].mode = "SYNC"
               PROVE  Cardinality(Answers(r)) <= (IF prop[r].waiting THEN 0 ELSE 1)
    BY DEF OneAnswerPerSync
  <2>1. prop[r].syncId \in AnyId
    BY DEF SyncRounds, AnyId
  <2>2. OneAnswer(inbox, prop[r].syncId)
    BY <2>1 DEF SyncRounds
  <2>3. ASSUME NEW x \in Answers(r), NEW y \in Answers(r) PROVE x = y
    <3>1. PICK p \in Replicas : \E k \in 1..Len(inbox[p]) : x = <<p, k>> /\ IsAnswer(inbox[p][k], prop[r].syncId)
      BY AnswersHeld
    <3>2. PICK j \in 1..Len(inbox[p]) : x = <<p, j>> /\ IsAnswer(inbox[p][j], prop[r].syncId)
      BY <3>1
    <3>3. PICK q \in Replicas : \E k \in 1..Len(inbox[q]) : y = <<q, k>> /\ IsAnswer(inbox[q][k], prop[r].syncId)
      BY AnswersHeld
    <3>4. PICK k \in 1..Len(inbox[q]) : y = <<q, k>> /\ IsAnswer(inbox[q][k], prop[r].syncId)
      BY <3>3
    <3>5. p = q
      BY <2>2, <3>2, <3>4 DEF OneAnswer, Silent
    <3>6. j = k
      BY <2>2, <3>2, <3>4, <3>5 DEF OneAnswer, AtMostOne
    <3> QED BY <3>2, <3>4, <3>5, <3>6
  <2>4. Answers(r) = {} \/ \E x : Answers(r) = {x}
    BY <2>3
  <2>5. Cardinality(Answers(r)) \in {0, 1}
    BY <2>4, FS_EmptySet, FS_Singleton
  <2>6. prop[r].waiting => Answers(r) = {}
    <3> SUFFICES ASSUME prop[r].waiting, NEW x \in Answers(r) PROVE FALSE
      OBVIOUS
    <3>1. \E q \in Replicas : \E k \in 1..Len(inbox[q]) : IsAnswer(inbox[q][k], prop[r].syncId)
      BY AnswersHeld
    <3> QED BY <3>1 DEF SyncRounds, Silent
  <2> QED BY <2>5, <2>6, FS_EmptySet
<1> QED BY <1>1, TypeCorrect, RoundsKept, PTL

\* A replica whose one answer is lost stays in SYNC mode whatever happens: the
\* requests it repeats are answered, and no offer is accepted (lines 104-107,
\* 294-303).
THEOREM WedgedForGoodHolds == Spec => WedgedForGood
<1>1. TypeOK /\ TypeOK' /\ SyncRounds /\ [Next]_vars => [\A r \in Replicas : Wedged(r) => Wedged(r)']_vars
  <2> SUFFICES ASSUME TypeOK, TypeOK', SyncRounds, Next, NEW r \in Replicas, Wedged(r)
               PROVE  Wedged(r)'
    OBVIOUS
  <2>1. /\ prop[r].mode = "SYNC" /\ ~prop[r].waiting /\ prop[r].syncId \in AnyId
        /\ \A q \in Replicas : Silent(inbox[q], prop[r].syncId)
    BY NoAnswersHeld DEF Wedged, SyncRounds, AnyId
  <2>2. /\ prop'[r].mode = "SYNC" /\ ~prop'[r].waiting /\ prop'[r].syncId = prop[r].syncId
        /\ \A q \in Replicas : Silent(inbox'[q], prop[r].syncId)
    <3>1. CASE QuietStep
      <4>1. prop'[r].mode = "SYNC"
        BY <2>1, <3>1 DEF QuietStep
      <4> QED BY <2>1, <3>1, <4>1 DEF QuietStep, Fewer
    <3>2. ASSUME NEW p \in Replicas, EnterSync(p)
          PROVE  /\ prop'[r].mode = "SYNC" /\ ~prop'[r].waiting /\ prop'[r].syncId = prop[r].syncId
                 /\ \A q \in Replicas : Silent(inbox'[q], prop[r].syncId)
      <4>1. /\ \A q \in Replicas : Fewer(inbox[q], inbox'[q])
            /\ prop[p].mode = "NORM"
            /\ \E id \in SyncIds : prop' = [prop EXCEPT ![p] = EnterSYNCMode(prop[p], id)]
        BY <3>2, RoundBegun
      <4>2. prop'[r] = prop[r]
        BY <2>1, <4>1 DEF TypeOK
      <4> QED BY <2>1, <4>1, <4>2 DEF Fewer
    <3>3. ASSUME NEW p \in Replicas, AcceptIHaveState(p)
          PROVE  /\ prop'[r].mode = "SYNC" /\ ~prop'[r].waiting /\ prop'[r].syncId = prop[r].syncId
                 /\ \A q \in Replicas : Silent(inbox'[q], prop[r].syncId)
      <4>1. /\ \A id \in AnyId : \A q \in Replicas :
                  id # prop[p].syncId /\ Silent(inbox[q], id) => Silent(inbox'[q], id)
            /\ prop[p].mode = "SYNC" /\ prop[p].waiting
            /\ prop' = [prop EXCEPT ![p].waiting = FALSE]
        BY <3>3, OfferAccepted
      <4>2. p # r /\ prop[p].syncId # prop[r].syncId
        BY <2>1, <4>1 DEF SyncRounds
      <4>3. prop'[r] = prop[r]
        BY <4>1, <4>2 DEF TypeOK
      <4> QED BY <2>1, <4>1, <4>2, <4>3
    <3>4. ASSUME NEW p \in Replicas, AnswerSendMeState(p)
          PROVE  /\ prop'[r].mode = "SYNC" /\ ~prop'[r].waiting /\ prop'[r].syncId = prop[r].syncId
                 /\ \A q \in Replicas : Silent(inbox'[q], prop[r].syncId)
      <4>1. /\ \A id \in AnyId :
                  (\A q \in Replicas : Silent(inbox[q], id)) => \A q \in Replicas : Silent(inbox'[q], id)
            /\ prop' = prop
        BY <3>4, StateSent
      <4> QED BY <2>1, <4>1
    <3> QED BY <3>1, <3>2, <3>3, <3>4, RoundSteps
  <2>3. Answers(r)' = {}
    BY <2>2, NoAnswersHeld
  <2> QED BY <2>2, <2>3 DEF Wedged
<1> QED BY <1>1, TypeCorrect, RoundsKept, PTL DEF Spec, WedgedForGood

-----------------------------------------------------------------------------
(* What a replica shows: as long as all replicas but one are steady, the   *)
(* states that are handed over have everything in them that matters.       *)

\* The stream u is a stretch of s.
Part(s, u) ==
    /\ u \in Seq(Messages)
    /\ \E d \in Nat : \A k \in 1..Len(u) : k + d \in 1..Len(s) /\ u[k] = s[k + d]

LEMMA PartSelf ==
    ASSUME NEW s \in Seq(Messages)
    PROVE  Part(s, s)
<1>1. 0 \in Nat /\ \A k \in 1..Len(s) : k + 0 \in 1..Len(s) /\ s[k] = s[k + 0]
  OBVIOUS
<1> QED BY <1>1 DEF Part

LEMMA PartTail ==
    ASSUME NEW s \in Seq(Messages), s # <<>>
    PROVE  Part(s, Tail(s))
<1> DEFINE t == Tail(s)
<1>1. t \in Seq(Messages) /\ \A k \in 1..Len(t) : k + 1 \in 1..Len(s) /\ t[k] = s[k + 1]
  <2>1. /\ Len(s) \in Nat \ {0} /\ Len(t) = Len(s) - 1 /\ t \in Seq(Messages)
        /\ \A i \in 1..(Len(s) - 1) : t[i] = s[i + 1]
    BY TailFacts
  <2> HIDE DEF t
  <2> QED BY <2>1
<1> HIDE DEF t
<1>2. Part(s, t)
  BY <1>1 DEF Part
<1> QED BY <1>2 DEF t

LEMMA PartPrefix ==
    ASSUME NEW s \in Seq(Messages), NEW n \in 0..Len(s)
    PROVE  Part(s, SubSeq(s, 1, n))
<1> DEFINE t == SubSeq(s, 1, n)
<1>1. Len(s) \in Nat /\ n \in Nat /\ n <= Len(s)
  OBVIOUS
<1>2. t \in Seq(Messages) /\ Len(t) = n /\ \A i \in 1..n : t[i] = s[i]
  <2>1. \A i \in 1..n : s[i] \in Messages
    BY <1>1, ElementOfSeq
  <2> QED BY <1>1, <2>1, SubSeqProperties
<1> HIDE DEF t
<1>3. 0 \in Nat /\ \A k \in 1..Len(t) : k + 0 \in 1..Len(s) /\ t[k] = s[k + 0]
  BY <1>1, <1>2
<1>4. Part(s, t)
  BY <1>2, <1>3 DEF Part
<1> QED BY <1>4 DEF t

LEMMA PartEmpty ==
    ASSUME NEW s
    PROVE  Part(s, <<>>)
<1>1. <<>> \in Seq(Messages) /\ Len(<<>>) = 0
  BY EmptySeq
<1>2. \A k \in 1..Len(<<>>) : k + 0 \in 1..Len(s) /\ <<>>[k] = s[k + 0]
  BY <1>1
<1> QED BY <1>1, <1>2 DEF Part

LEMMA PartFacts ==
    ASSUME NEW s, NEW u, Part(s, u)
    PROVE  /\ u \in Seq(Messages)
           /\ \E d \in Nat :
                 /\ \A k \in 1..Len(u) : k + d \in 1..Len(s) /\ u[k] = s[k + d]
                 /\ \A r : \A k \in OwnOps(r, u) : k \in Nat /\ k + d \in OwnOps(r, s) /\ u[k] = s[k + d]
<1>1. PICK d \in Nat : \A k \in 1..Len(u) : k + d \in 1..Len(s) /\ u[k] = s[k + d]
  BY DEF Part
<1>2. \A r : \A k \in OwnOps(r, u) : k \in Nat /\ k + d \in OwnOps(r, s) /\ u[k] = s[k + d]
  BY <1>1 DEF OwnOps
<1> QED BY <1>1, <1>2 DEF Part

\* Of a stream that held just what is awaited a stretch still does, or something
\* that is awaited is lost for good.
LEMMA KeptOrLost ==
    ASSUME NEW r, NEW b \in Seq(Ops), NEW s, NEW u, Part(s, u), Awaits(r, b, s)
    PROVE  \/ Awaits(r, b, u)
           \/ \E k \in 1..Len(b) : Absent(r, u, b[k])
<1> SUFFICES ASSUME \A k \in 1..Len(b) : \E j \in OwnOps(r, u) : u[j].op = b[k]
             PROVE  Awaits(r, b, u)
  BY DEF Absent
<1>1. PICK d \in Nat : \A k \in OwnOps(r, u) : k \in Nat /\ k + d \in OwnOps(r, s) /\ u[k] = s[k + d]
  BY PartFacts
<1>2. {b[k] : k \in 1..Len(b)} = {s[k].op : k \in OwnOps(r, s)}
  BY DEF Awaits
<1>3. \A k \in 1..Len(b) : b[k] \in {u[j].op : j \in OwnOps(r, u)}
  <2> SUFFICES ASSUME NEW k \in 1..Len(b) PROVE b[k] \in {u[j].op : j \in OwnOps(r, u)}
    OBVIOUS
  <2>1. PICK j \in OwnOps(r, u) : u[j].op = b[k]
    OBVIOUS
  <2> QED BY <2>1
<1>4. \A j \in OwnOps(r, u) : u[j].op \in {b[k] : k \in 1..Len(b)}
  <2> SUFFICES ASSUME NEW j \in OwnOps(r, u) PROVE u[j].op \in {s[k].op : k \in OwnOps(r, s)}
    BY <1>2
  <2>1. j + d \in OwnOps(r, s) /\ u[j] = s[j + d]
    BY <1>1
  <2> QED BY <2>1
<1>5. {b[k] : k \in 1..Len(b)} = {u[j].op : j \in OwnOps(r, u)}
  BY <1>3, <1>4
<1>6. ASSUME NEW j \in OwnOps(r, u), NEW k \in OwnOps(r, u), j < k PROVE u[j].op < u[k].op
  <2>1. /\ j + d \in OwnOps(r, s) /\ k + d \in OwnOps(r, s) /\ j + d < k + d
        /\ u[j] = s[j + d] /\ u[k] = s[k + d]
    BY <1>1, <1>6
  <2> QED BY <2>1 DEF Awaits
<1> QED BY <1>5, <1>6 DEF Awaits

\* What is lost stays lost, whatever else is read, lost or sent.
LEMMA LostStays ==
    ASSUME NEW r, NEW x, NEW s, NEW u, NEW t, Part(s, u), Sent(r, u, t),
           Absent(r, s, x)
    PROVE  Absent(r, t, x)
<1>1. u \in Seq(Messages)
  BY PartFacts
<1>2. PICK d \in Nat : \A k \in OwnOps(r, u) : k \in Nat /\ k + d \in OwnOps(r, s) /\ u[k] = s[k + d]
  BY PartFacts
<1>3. Absent(r, u, x)
  BY <1>2 DEF Absent
<1>4. CASE t = u
  BY <1>3, <1>4
<1>5. ASSUME NEW m \in Messages, ~(m.type = "STATE_OPERATION" /\ m.from = r), t = Append(u, m)
      PROVE  Absent(r, t, x)
  <2>1. OwnOps(r, t) = OwnOps(r, u) /\ \A k \in OwnOps(r, u) : t[k] = u[k]
    BY <1>1, <1>5, OwnOpsAppend
  <2> QED BY <1>3, <2>1 DEF Absent
<1> QED BY <1>4, <1>5 DEF Sent

\* Pending operations whose fate is known were issued.
LEMMA AwaitedIssued ==
    ASSUME TypeOK, OrderInvariant, NEW r \in Replicas, Awaits(r, prop[r].pending, inbox[r])
    PROVE  \A k \in 1..Len(prop[r].pending) : prop[r].pending[k] \in 1..issued
<1> SUFFICES ASSUME NEW k \in 1..Len(prop[r].pending) PROVE prop[r].pending[k] \in 1..issued
  OBVIOUS
<1>1. prop[r].pending[k] \in {prop[r].pending[i] : i \in 1..Len(prop[r].pending)}
  OBVIOUS
<1>2. PICK j \in OwnOps(r, inbox[r]) : prop[r].pending[k] = inbox[r][j].op
  BY <1>1 DEF Awaits
<1>3. j \in 1..Len(inbox[r]) /\ IsOp(inbox[r][j])
  BY DEF OwnOps, IsOp
<1>4. Placed(log, inbox[r][j]) /\ LogOK(log, issued)
  BY <1>3 DEF OrderInvariant, ReplicaOK, StreamOK, OpsPlaced
<1> QED BY <1>2, <1>4 DEF Placed, LogOK

\* A step that leaves the replica's states alone leaves what it expects, or
\* loses it.
LEMMA ExpectedKept ==
    ASSUME TypeOK, OrderInvariant, NEW r \in Replicas, Expected(r), issued' \in Nat, issued' >= issued,
           prop'[r].pending = prop[r].pending, prop'[r].clean = prop[r].clean, prop'[r].state = prop[r].state,
           NEW u, Part(inbox[r], u), Sent(r, u, inbox'[r])
    PROVE  Expected(r)'
<1> DEFINE b == prop[r].pending
<1>1. issued \in Nat /\ b \in Seq(Ops) /\ u \in Seq(Messages)
  BY BoundsAssumption, PartFacts DEF TypeOK, PropObject
<1>2. ASSUME NEW k \in 1..Len(b), b[k] \in 1..issued, Absent(r, u, b[k])
      PROVE  Stuck(r)'
  <2>1. Part(u, u) 
    BY <1>1, PartSelf
  <2>2. Absent(r, inbox'[r], b[k])
    BY <1>2, <2>1, LostStays
  <2>3. b[k] \in 1..issued'
    BY <1>1, <1>2
  <2> QED BY <2>2, <2>3 DEF Stuck
<1>3. CASE Stuck(r)
  <2>1. PICK k \in 1..Len(b) : b[k] \in 1..issued /\ Absent(r, inbox[r], b[k])
    BY <1>3 DEF Stuck
  <2>2. Sent(r, u, u)
    BY DEF Sent
  <2>3. Absent(r, u, b[k])
    BY <2>1, <2>2, LostStays
  <2> QED BY <1>2, <2>1, <2>3 DEF Expected
<1>4. CASE Trusted(r)
  <2>1. Awaits(r, b, inbox[r]) /\ Predicted(r)
    BY <1>4 DEF Trusted
  <2>2. \/ Awaits(r, b, u)
        \/ \E k \in 1..Len(b) : Absent(r, u, b[k])
    BY <1>1, <2>1, KeptOrLost
  <2>3. CASE Awaits(r, b, u)
    <3>1. Awaits(r, b, inbox'[r])
      BY <1>1, <2>3, SentKeeps
    <3> QED BY <2>1, <3>1 DEF Trusted, Predicted, Expected
  <2>4. ASSUME NEW k \in 1..Len(b), Absent(r, u, b[k])
        PROVE  Expected(r)'
    <3>1. b[k] \in 1..issued
      BY <2>1, AwaitedIssued
    <3> QED BY <1>2, <2>4, <3>1 DEF Expected
  <2> QED BY <2>2, <2>3, <2>4
<1> QED BY <1>3, <1>4 DEF Expected

LEMMA OwnIssued ==
    ASSUME TypeOK, OrderInvariant, NEW r \in Replicas
    PROVE  \A k \in OwnOps(r, inbox[r]) : inbox[r][k].op \in 1..issued
<1> SUFFICES ASSUME NEW k \in OwnOps(r, inbox[r]) PROVE inbox[r][k].op \in 1..issued
  OBVIOUS
<1>1. k \in 1..Len(inbox[r]) /\ IsOp(inbox[r][k])
  BY DEF OwnOps, IsOp
<1>2. Placed(log, inbox[r][k]) /\ LogOK(log, issued)
  BY <1>1 DEF OrderInvariant, ReplicaOK, StreamOK, OpsPlaced
<1> QED BY <1>2 DEF Placed, LogOK

\* A new operation is expected, or it never leaves the replica.
LEMMA ExpectedIssued ==
    ASSUME TypeOK, OrderInvariant, NEW r \in Replicas, Expected(r), AddOperation(r)
    PROVE  Expected(r)'
<1> DEFINE b == prop[r].pending
           s == inbox[r]
           op == issued + 1
           m == StateOperation(r, op, Len(log) + 1)
<1>1. /\ prop[r] \in PropObject /\ prop \in [Replicas -> PropObject] /\ b \in Seq(Ops)
      /\ s \in Seq(Messages) /\ inbox \in [Replicas -> Seq(Messages)]
      /\ issued \in Nat /\ op \in Ops /\ op \in Nat /\ Len(log) + 1 \in Nat
  BY BoundsAssumption, SMTT(30) DEF TypeOK, PropObject, Ops
<1>2. m \in Messages /\ m.op = op
  BY <1>1, BuiltMessages DEF StateOperation
<1>3. issued' = op /\ Multicast(r, inbox, m)
  BY DEF AddOperation
<1>4. prop'[r].pending = Append(b, op)
  <2>1. prop' = [prop EXCEPT ![r].state = Append(@, op), ![r].pending = Append(@, op)]
    BY DEF AddOperation
  <2> HIDE DEF op
  <2>2. prop'[r] = [prop[r] EXCEPT !.state = Append(@, op), !.pending = Append(@, op)]
    BY <1>1, <2>1
  <2> QED BY <1>1, <2>2 DEF PropObject
<1>5. \A k \in OwnOps(r, s) : s[k].op \in 1..issued
  BY OwnIssued
<1> DEFINE c == Append(b, op)
<1>6. /\ Len(b) \in Nat /\ Len(c) = Len(b) + 1 /\ c[Len(b) + 1] = op
      /\ \A k \in 1..Len(b) : c[k] = b[k]
  BY <1>1, AppendFacts
<1> HIDE DEF m, c, b, s
<1>7. CASE ~Occupant(r)
  <2>1. inbox'[r] = s
    BY <1>3, <1>7 DEF Multicast, s
  <2>2. Absent(r, s, op)
    BY <1>1, <1>5 DEF Absent
  <2>3. Len(b) + 1 \in 1..Len(c) /\ c[Len(b) + 1] \in 1..issued'
    BY <1>1, <1>3, <1>6
  <2>4. Stuck(r)'
    BY <1>4, <1>6, <2>1, <2>2, <2>3 DEF Stuck, c
  <2> QED BY <2>4 DEF Expected
<1>8. CASE Occupant(r) /\ Stuck(r)
  <2>1. PICK k \in 1..Len(b) : b[k] \in 1..issued /\ Absent(r, s, b[k])
    BY <1>8 DEF Stuck, b, s
  <2> DEFINE t == Append(s, m)
  <2>2. inbox'[r] = t
    BY <1>1, <1>3, <1>8 DEF Multicast, s
  <2>3. Absent(r, t, b[k])
    <3>1. \A j \in OwnOps(r, t) : j \in OwnOps(r, s) \/ j = Len(s) + 1
      BY <1>1, <1>2, OwnOpsAppend
    <3>2. t[Len(s) + 1] = m /\ \A j \in OwnOps(r, s) : t[j] = s[j]
      <4>1. \A j \in OwnOps(r, s) : j \in 1..Len(s)
        BY DEF OwnOps
      <4> QED BY <1>1, <1>2, <4>1, AppendFacts
    <3> HIDE DEF t
    <3>3. m.op # b[k]
      BY <1>1, <1>2, <2>1
    <3> QED BY <2>1, <3>1, <3>2, <3>3 DEF Absent
  <2> HIDE DEF t
  <2>4. k \in 1..Len(c) /\ c[k] = b[k] /\ b[k] \in 1..issued'
    BY <1>1, <1>3, <1>6, <2>1
  <2>5. Stuck(r)'
    BY <1>4, <2>2, <2>3, <2>4 DEF Stuck, c
  <2> QED BY <2>5 DEF Expected
<1>9. CASE Occupant(r) /\ Trusted(r)
  BY <1>9, TrustedIssued DEF Expected
<1> QED BY <1>7, <1>8, <1>9 DEF Expected

LEMMA WithoutKeeps ==
    ASSUME NEW b \in Seq(Ops), NEW op, NEW k \in 1..Len(b), b[k] # op
    PROVE  \E i \in 1..Len(Without(b, op)) : Without(b, op)[i] = b[k]
<1>1. CASE ~\E i \in 1..Len(b) : b[i] = op
  BY <1>1 DEF Without
<1>2. CASE \E i \in 1..Len(b) : b[i] = op
  <2> DEFINE n == CHOOSE i \in 1..Len(b) : b[i] = op
             u == SubSeq(b, 1, n - 1)
             v == SubSeq(b, n + 1, Len(b))
  <2>1. n \in 1..Len(b) /\ b[n] = op
    BY <1>2
  <2>2. Without(b, op) = u \o v
    BY <1>2 DEF Without
  <2> HIDE DEF n
  <2>3. \A i \in 1..Len(b) : b[i] \in Ops
    BY ElementOfSeq
  <2>4. u \in Seq(Ops) /\ Len(u) = n - 1 /\ \A i \in 1..(n - 1) : u[i] = b[i]
    BY <2>1, <2>3, SubSeqProperties
  <2>5. v \in Seq(Ops) /\ Len(v) = Len(b) - n /\ \A i \in 1..(Len(b) - n) : v[i] = b[n + i]
    <3>1. CASE n = Len(b)
      <4>1. v = <<>>
        BY <2>1, <3>1, SubSeqEmpty
      <4> QED BY <2>1, <3>1, <4>1, EmptySeq
    <3>2. CASE n < Len(b)
      <4>1. \A i \in (n + 1)..Len(b) : b[i] \in Ops
        BY <2>1, <2>3
      <4>2. /\ v \in Seq(Ops) /\ Len(v) = Len(b) - (n + 1) + 1
            /\ \A i \in 1..(Len(b) - (n + 1) + 1) : v[i] = b[(n + 1) + i - 1]
        BY <2>1, <3>2, <4>1, SubSeqProperties
      <4> HIDE DEF v
      <4>3. Len(b) - (n + 1) + 1 = Len(b) - n /\ \A i \in 1..(Len(b) - n) : (n + 1) + i - 1 = n + i
        BY <2>1
      <4> QED BY <4>2, <4>3
    <3> QED BY <2>1, <3>1, <3>2
  <2> HIDE DEF u, v
  <2>6. /\ Len(u \o v) = Len(u) + Len(v)
        /\ \A i \in 1..(Len(u) + Len(v)) : (u \o v)[i] = IF i <= Len(u) THEN u[i] ELSE v[i - Len(u)]
    BY <2>4, <2>5, ConcatProperties
  <2>7. CASE k < n
    <3>1. k \in 1..(Len(u) + Len(v)) /\ k <= Len(u) /\ u[k] = b[k]
      BY <2>1, <2>4, <2>5, <2>7
    <3> QED BY <2>2, <2>6, <3>1
  <2>8. CASE k > n
    <3>1. /\ k - 1 \in 1..(Len(u) + Len(v)) /\ ~(k - 1 <= Len(u))
          /\ (k - 1) - Len(u) = k - n /\ k - n \in 1..(Len(b) - n) /\ n + (k - n) = k
      BY <2>1, <2>4, <2>5, <2>8
    <3>2. v[k - n] = b[k]
      BY <2>5, <3>1
    <3> QED BY <2>2, <2>6, <3>1, <3>2
  <2>9. k # n
    BY <2>1
  <2> QED BY <2>1, <2>7, <2>8, <2>9
<1> QED BY <1>1, <1>2

LEMMA ExpectedApplied ==
    ASSUME TypeOK, NEW r \in Replicas, UnknownOp = "raise", Expected(r), ApplyOperation(r)
    PROVE  Expected(r)'
<1> DEFINE m == Head(inbox[r])
           p == prop[r]
           b == p.pending
           s == inbox[r]
<1>1. /\ p \in PropObject /\ b \in Seq(Ops) /\ s \in Seq(Messages)
      /\ prop \in [Replicas -> PropObject] /\ inbox \in [Replicas -> Seq(Messages)]
  BY DEF TypeOK, PropObject
<1>2. /\ s # <<>> /\ m.type = "STATE_OPERATION" /\ ~Raises(p, r, m)
      /\ prop' = [prop EXCEPT ![r] = HandleReceivedOp(p, r, m)] /\ inbox' = Rest(r) /\ issued' = issued
  BY DEF ApplyOperation, Handling
<1>3. CASE Stuck(r)
  <2>1. PICK k \in 1..Len(b) : b[k] \in 1..issued /\ Absent(r, s, b[k])
    BY <1>3 DEF Stuck
  <2>2. b # <<>>
    BY <1>1, <2>1, EmptySeq
  <2>3. m.from = r
    BY <1>2, <2>2 DEF Raises
  <2>4. prop'[r].pending = Without(b, m.op)
    <3> HIDE DEF m
    <3>1. HandleReceivedOp(p, r, m) = HandleOwnOp(p, m)
      BY <2>3 DEF HandleReceivedOp
    <3>2. HandleOwnOp(p, m).pending = Without(b, m.op)
      BY <1>1 DEF HandleOwnOp, PropObject
    <3> QED BY <1>1, <1>2, <3>1, <3>2
  <2>5. b[k] # m.op
    <3>1. 1 \in OwnOps(r, s) /\ s[1] = m
      BY <1>1, <1>2, <2>3, TailFacts DEF OwnOps
    <3> QED BY <2>1, <3>1 DEF Absent
  <2>6. PICK i \in 1..Len(Without(b, m.op)) : Without(b, m.op)[i] = b[k]
    <3> HIDE DEF m, b
    <3> QED BY <1>1, <2>1, <2>5, WithoutKeeps
  <2>7. inbox'[r] = Tail(s)
    BY <1>1, <1>2 DEF Rest
  <2>8. Part(s, Tail(s)) /\ Sent(r, Tail(s), Tail(s))
    BY <1>1, <1>2, PartTail DEF Sent
  <2>9. Absent(r, Tail(s), b[k])
    <3> HIDE DEF s, b
    <3> QED BY <2>1, <2>8, LostStays
  <2> HIDE DEF m, s, b
  <2>10. Stuck(r)'
    BY <1>2, <2>1, <2>4, <2>6, <2>7, <2>9 DEF Stuck
  <2> QED BY <2>10 DEF Expected
<1>4. CASE Trusted(r)
  BY <1>4, TrustedApplied DEF Expected
<1> QED BY <1>3, <1>4 DEF Expected

LEMMA InstalledPending ==
    ASSUME NEW p \in PropObject, NEW r, NEW m
    PROVE  HandleStateSync(p, r, m).pending = <<>>
BY DEF HandleStateSync, ExitSYNCMode, PropObject

LEMMA InstalledShown ==
    ASSUME NEW p \in PropObject, NEW r, NEW m,
           \A k \in 1..Len(After(p.opsSYNC, m.lastOp)) : After(p.opsSYNC, m.lastOp)[k].from # r
    PROVE  HandleStateSync(p, r, m).state = HandleStateSync(p, r, m).clean
<1> DEFINE a == After(p.opsSYNC, m.lastOp)
           e == [k \in 1..Len(a) |-> a[k].op]
           f == [k \in 1..Len(a) |-> IF a[k].from = r THEN NoOp ELSE a[k].op]
<1>1. e = f
  OBVIOUS
<1>2. HandleStateSync(p, r, m).clean = m.state \o e
  BY DEF HandleStateSync, ExitSYNCMode, PropObject
<1>3. HandleStateSync(p, r, m).state = m.state \o f
  BY DEF HandleStateSync, ExitSYNCMode, PropObject
<1> HIDE DEF e, f
<1> QED BY <1>1, <1>2, <1>3

\* The operations buffered after the last one of the state come after it.
LEMMA AfterLater ==
    ASSUME NEW l \in Seq(Ops), NEW max \in Nat, LogOK(l, max), NEW b \in Seq(OperationMsg), NEW s, BufferOK(l, b, s),
           NEW op \in Ops, NEW n \in 0..Len(l), At(l, op, n)
    PROVE  \A i \in 1..Len(After(b, op)) :
              /\ After(b, op)[i].slot > n
              /\ \E k \in 1..Len(b) : b[k] = After(b, op)[i]
<1> DEFINE a == After(b, op)
<1>1. CASE a = <<>>
  BY <1>1, EmptySeq
<1>2. CASE a # <<>>
  <2>1. \A i \in 1..Len(a) : a[i].slot > n
    BY <1>2, AfterAscends
  <2>2. \E i \in 1..Len(b) : IsFirst(b, op, i)
    BY <1>2 DEF After
  <2>3. PICK k \in 1..Len(b) : a = SubSeq(b, k + 1, Len(b))
    BY <2>2 DEF After
  <2>4. \A i \in (k + 1)..Len(b) : b[i] \in OperationMsg
    BY <2>3, ElementOfSeq
  <2>5. k < Len(b)
    BY <1>2, <2>3, SubSeqEmpty
  <2>6. Len(a) = Len(b) - k /\ \A i \in 1..Len(a) : a[i] = b[k + i]
    BY <2>3, <2>4, <2>5, SubSeqProperties
  <2> HIDE DEF a
  <2>7. \A i \in 1..Len(a) : k + i \in 1..Len(b)
    BY <2>3, <2>6
  <2>8. \A i \in 1..Len(a) : a[i].slot > n /\ \E j \in 1..Len(b) : b[j] = a[i]
    BY <2>1, <2>6, <2>7
  <2> QED BY <2>8 DEF a
<1> QED BY <1>1, <1>2

\* A whole state leaves nothing to expect.
LEMMA ExpectedInstalled ==
    ASSUME TypeOK, OrderInvariant, NEW r \in Replicas, Resuming(r), InstallState(r)
    PROVE  Expected(r)'
<1> DEFINE s == inbox[r]
           m == Head(s)
           p == prop[r]
           b == p.opsSYNC
           a == After(b, m.lastOp)
           q == HandleStateSync(p, r, m)
<1>1. /\ p \in PropObject /\ s \in Seq(Messages) /\ b \in Seq(OperationMsg)
      /\ prop \in [Replicas -> PropObject] /\ inbox \in [Replicas -> Seq(Messages)]
      /\ log \in Seq(Ops) /\ issued \in Nat
  BY BoundsAssumption DEF TypeOK, PropObject
<1>2. /\ s # <<>> /\ m.type = "STATE_SYNC" /\ m.syncId = p.syncId
      /\ prop' = [prop EXCEPT ![r] = q] /\ inbox' = Rest(r)
  BY DEF InstallState, Handling
<1>3. 1 \in 1..Len(s) /\ m = s[1] /\ m \in Messages /\ m \in StateMsg
  BY <1>1, <1>2, TailFacts, HeadTailProperties, MessageKinds
<1>4. Whole(r, m)
  BY <1>2, <1>3 DEF Resuming
<1>5. LogOK(log, issued) /\ StreamOK(log, s) /\ BufferOK(log, b, s)
  BY DEF OrderInvariant, ReplicaOK, ObjectOK
<1>6. m.lastOp \in Ops /\ m.seqNum \in 0..Len(log) /\ At(log, m.lastOp, m.seqNum)
  BY <1>3, <1>4 DEF Whole, At, StateMsg
<1>7. inbox'[r] = Tail(s) /\ prop'[r] = q
  <2> HIDE DEF q
  <2> QED BY <1>1, <1>2 DEF Rest
<1>8. OwnOps(r, Tail(s)) = {}
  <2> SUFFICES ASSUME NEW k \in OwnOps(r, Tail(s)) PROVE FALSE
    OBVIOUS
  <2>1. k + 1 \in OwnOps(r, s) /\ k \in 1..Len(Tail(s)) /\ Tail(s)[k] = s[k + 1] /\ k + 1 \in 1..Len(s)
    BY <1>1, <1>2, OwnOpsTail
  <2>2. IsOp(s[k + 1]) /\ s[k + 1].from = r /\ s[k + 1] \in Held(r)
    BY <2>1 DEF OwnOps, IsOp, Held
  <2>3. s[k + 1].slot <= m.seqNum
    BY <1>4, <2>2 DEF Whole
  <2>4. PICK n \in 0..Len(log) : m.seqNum \in 0..n /\ OpsAfter(s, 1, n)
    BY <1>2, <1>3, <1>5 DEF StreamOK, StatesCurrent, Current
  <2>5. s[k + 1].slot > n /\ s[k + 1].slot \in Nat
    <3>1. s[k + 1].slot \in 1..Len(log)
      BY <1>5, <2>1, <2>2 DEF StreamOK, OpsPlaced, Placed
    <3> QED BY <2>1, <2>2, <2>4, <3>1 DEF OpsAfter
  <2> QED BY <2>3, <2>4, <2>5
<1>9. \A k \in 1..Len(a) : a[k].from # r
  <2> SUFFICES ASSUME NEW k \in 1..Len(a), a[k].from = r PROVE FALSE
    OBVIOUS
  <2>1. a[k].slot > m.seqNum /\ \E j \in 1..Len(b) : b[j] = a[k]
    <3> HIDE DEF m, s, b
    <3> QED BY <1>1, <1>5, <1>6, AfterLater
  <2>2. PICK j \in 1..Len(b) : b[j] = a[k]
    BY <2>1
  <2>3. b[j] \in OperationMsg /\ b[j] \in Held(r)
    BY <1>1, ElementOfSeq DEF Held
  <2>4. IsOp(b[j]) /\ b[j].slot \in Nat
    BY <2>3 DEF OperationMsg, IsOp
  <2>5. b[j].slot <= m.seqNum
    BY <1>4, <2>2, <2>3, <2>4 DEF Whole
  <2> HIDE DEF a, b
  <2> QED BY <1>6, <2>1, <2>2, <2>4, <2>5
<1>10. q.pending = <<>> /\ q.state = q.clean
  BY <1>1, <1>9, InstalledPending, InstalledShown
<1>11. q \in PropObject
  BY <1>1, <1>3, HandleStateSyncType
<1> HIDE DEF q, a
<1>12. q.clean \in Seq(Ops)
  BY <1>11 DEF PropObject
<1>13. Awaits(r, <<>>, Tail(s))
  <2>1. 1..Len(<<>>) = {}
    BY EmptySeq
  <2> QED BY <1>8, <2>1 DEF Awaits
<1>14. q.clean \o <<>> = q.clean
  BY <1>12, ConcatEmptySeq
<1> QED BY <1>7, <1>10, <1>12, <1>13, <1>14 DEF Expected, Trusted, Predicted

\* Of the stream s a stretch is left, to which m may have been added.
Moved(s, t, m) == \E u : Part(s, u) /\ (t = u \/ t = Append(u, m))

\* A step that adds no stanza but m to any stream and to the history.
Moves(m) ==
    /\ m \in Messages
    /\ \A q \in Replicas : Moved(inbox[q], inbox'[q], m)
    /\ Replayed' \subseteq Replayed \cup {m}

LEMMA RestPart ==
    ASSUME TypeOK, NEW r \in Replicas, inbox[r] # <<>>
    PROVE  Rest(r) \in Boxes /\ \A q \in Replicas : Part(inbox[q], Rest(r)[q])
<1>1. Rest(r) \in Boxes /\ Rest(r)[r] = Tail(inbox[r]) /\ inbox \in Boxes
  BY RestFewer DEF TypeOK, Boxes
<1>2. ASSUME NEW q \in Replicas PROVE inbox[q] \in Seq(Messages) /\ (q # r => Rest(r)[q] = inbox[q])
  BY <1>1 DEF Rest, Boxes
<1>3. Part(inbox[r], Tail(inbox[r]))
  BY <1>2, PartTail
<1>4. ASSUME NEW q \in Replicas, q # r PROVE Part(inbox[q], Rest(r)[q])
  BY <1>2, <1>4, PartSelf
<1> QED BY <1>1, <1>3, <1>4

LEMMA ReplayedMoves ==
    ASSUME TypeOK, OrderInvariant, NEW r, NEW box, NEW m \in Messages, Multicast(r, box, m)
    PROVE  Replayed' \subseteq Replayed \cup {m}
<1>1. CASE history' = history
  BY <1>1 DEF Replayed
<1>2. ASSUME NEW h \in Seq(Messages), history' = Append(h, m),
             \A k \in 1..Len(h) : \E i \in 1..Len(history) : h[k] = history[i]
      PROVE  Replayed' \subseteq Replayed \cup {m}
  <2>1. \A k \in 1..Len(history') : history'[k] = m \/ (k \in 1..Len(h) /\ history'[k] = h[k])
    BY <1>2, AppendFacts
  <2> QED BY <1>2, <2>1 DEF Replayed
<1>3. HistoryOK
  BY DEF OrderInvariant
<1> HIDE DEF Multicast
<1> QED BY <1>1, <1>2, <1>3, HistoryShape

LEMMA MulticastMoves ==
    ASSUME TypeOK, OrderInvariant, NEW r, NEW box \in Boxes, \A q \in Replicas : Part(inbox[q], box[q]),
           NEW m \in Messages, Multicast(r, box, m)
    PROVE  Moves(m)
<1>1. \A q \in Replicas : inbox'[q] = box[q] \/ inbox'[q] = Append(box[q], m)
  BY DEF Multicast, Boxes
<1>2. Replayed' \subseteq Replayed \cup {m}
  BY ReplayedMoves
<1> QED BY <1>1, <1>2 DEF Moves, Moved

LEMMA UnicastMoves ==
    ASSUME NEW r, NEW to \in Replicas, NEW box \in Boxes, \A q \in Replicas : Part(inbox[q], box[q]),
           NEW m \in Messages, Unicast(r, box, to, m)
    PROVE  Moves(m)
<1>1. \A q \in Replicas : inbox'[q] = box[q] \/ inbox'[q] = Append(box[q], m)
  BY DEF Unicast, Boxes
<1>2. Replayed' = Replayed
  BY DEF Unicast, Replayed
<1> QED BY <1>1, <1>2 DEF Moves, Moved

LEMMA NothingMoves ==
    ASSUME \A q \in Replicas : Part(inbox[q], inbox'[q]), history' = history, NEW m \in Messages
    PROVE  Moves(m)
<1>1. Replayed' = Replayed
  BY DEF Replayed
<1> QED BY <1>1 DEF Moves, Moved

LEMMA BoxesParts ==
    ASSUME TypeOK
    PROVE  inbox \in Boxes /\ \A q \in Replicas : Part(inbox[q], inbox[q])
<1>1. inbox \in Boxes /\ \A q \in Replicas : inbox[q] \in Seq(Messages)
  BY DEF TypeOK, Boxes
<1> QED BY <1>1, PartSelf

LEMMA IssuedMoves ==
    ASSUME TypeOK, OrderInvariant, NEW r \in Replicas, AddOperation(r)
    PROVE  /\ Moves(StateOperation(r, issued + 1, Len(log) + 1))
           /\ StateOperation(r, issued + 1, Len(log) + 1).from = r
           /\ StateOperation(r, issued + 1, Len(log) + 1).slot = Len(log) + 1
           /\ StateOperation(r, issued + 1, Len(log) + 1).type = "STATE_OPERATION"
<1> DEFINE m == StateOperation(r, issued + 1, Len(log) + 1)
<1>1. m \in Messages
  <2>1. issued + 1 \in Ops /\ Len(log) + 1 \in Nat
    BY BoundsAssumption DEF TypeOK, Ops
  <2> QED BY <2>1, BuiltMessages
<1>2. Multicast(r, inbox, m)
  BY DEF AddOperation
<1>3. m.from = r /\ m.slot = Len(log) + 1 /\ m.type = "STATE_OPERATION"
  BY DEF StateOperation
<1> HIDE DEF m
<1>4. Moves(m)
  BY <1>1, <1>2, BoxesParts, MulticastMoves
<1> QED BY <1>3, <1>4 DEF m

\* Stanzas that are neither an operation nor a state.
Minor(m) == m.type \notin {"STATE_OPERATION", "STATE_SYNC"}

LEMMA TimerMoves ==
    ASSUME TypeOK, OrderInvariant, NEW r \in Replicas, Timer(r)
    PROVE  \E m : Moves(m) /\ Minor(m)
<1>1. Hello(r) \in Messages /\ Minor(Hello(r))
  BY BuiltMessages DEF Hello, Minor
<1>2. CASE PeriodicTask(r)
  <2>1. inbox' = inbox /\ history' = history
    BY <1>2 DEF PeriodicTask
  <2> QED BY <1>1, <2>1, BoxesParts, NothingMoves
<1>3. CASE SendHello(r)
  <2>1. Multicast(r, inbox, Hello(r))
    BY <1>3 DEF SendHello
  <2> QED BY <1>1, <2>1, BoxesParts, MulticastMoves
<1>4. CASE BroadcastSyncRequest(r)
  <2> DEFINE w == SyncRequest("WHO_HAS_STATE", r, prop[r].syncId)
  <2>1. w \in Messages /\ Minor(w)
    <3>1. prop[r].syncId \in SyncIds \cup {NoSync}
      BY DEF TypeOK, PropObject
    <3> QED BY <3>1, BuiltMessages DEF SyncRequest, Minor
  <2>2. Multicast(r, inbox, w)
    BY <1>4 DEF BroadcastSyncRequest
  <2> HIDE DEF w
  <2> QED BY <2>1, <2>2, BoxesParts, MulticastMoves
<1> QED BY <1>2, <1>3, <1>4 DEF Timer

LEMMA HandlingMoves ==
    ASSUME TypeOK, OrderInvariant, NEW r \in Replicas, HandleMessage(r), ~AnswerSendMeState(r)
    PROVE  \E m : Moves(m) /\ Minor(m)
<1> DEFINE m == Head(inbox[r])
<1>1. inbox[r] # <<>>
  BY DEF HandleMessage, ApplyOperation, RaiseOnConflict, AnswerWhoHasState, EnterSync, BufferOperation,
         AcceptIHaveState, InstallState, IgnoreMessage, Handling
<1>2. /\ Rest(r) \in Boxes /\ m \in Messages /\ m.from \in Replicas
      /\ \A q \in Replicas : Part(inbox[q], Rest(r)[q])
  BY <1>1, RestFewer, RestPart
<1>3. Hello(r) \in Messages /\ Minor(Hello(r))
  BY BuiltMessages DEF Hello, Minor
<1> HIDE DEF m
<1>4. CASE ApplyOperation(r) \/ BufferOperation(r) \/ InstallState(r) \/ IgnoreMessage(r)
  <2>1. inbox' = Rest(r) /\ history' = history
    BY <1>4 DEF ApplyOperation, BufferOperation, InstallState, IgnoreMessage
  <2> QED BY <1>2, <1>3, <2>1, NothingMoves
<1>5. CASE RaiseOnConflict(r)
  <2>1. ASSUME NEW q \in Replicas PROVE inbox'[q] = inbox[q] \/ inbox'[q] = <<>>
    BY <1>5 DEF RaiseOnConflict, TypeOK
  <2>2. history' = history /\ \A q \in Replicas : Part(inbox[q], inbox'[q])
    BY <1>5, <2>1, BoxesParts, PartEmpty DEF RaiseOnConflict
  <2> QED BY <1>3, <2>2, NothingMoves
<1>6. CASE AnswerWhoHasState(r)
  <2> DEFINE a == SyncRequest("I_HAVE_STATE", r, m.syncId)
  <2>1. a \in Messages /\ Minor(a)
    <3>1. m.syncId \in SyncIds \cup {NoSync}
      BY <1>2, <1>6, MessageKinds DEF SyncMsg, AnswerWhoHasState, Handling, m
    <3> QED BY <3>1, BuiltMessages DEF SyncRequest, Minor
  <2>2. Unicast(r, Rest(r), m.from, a)
    BY <1>6 DEF AnswerWhoHasState, m
  <2> HIDE DEF a
  <2> QED BY <1>2, <2>1, <2>2, UnicastMoves
<1>7. CASE AcceptIHaveState(r)
  <2> DEFINE a == SyncRequest("SEND_ME_STATE", r, m.syncId)
  <2>1. a \in Messages /\ Minor(a)
    <3>1. m.syncId \in SyncIds \cup {NoSync}
      BY <1>2, <1>7, MessageKinds DEF SyncMsg, AcceptIHaveState, Handling, m
    <3> QED BY <3>1, BuiltMessages DEF SyncRequest, Minor
  <2>2. Unicast(r, Rest(r), m.from, a)
    BY <1>7 DEF AcceptIHaveState, m
  <2> HIDE DEF a
  <2> QED BY <1>2, <2>1, <2>2, UnicastMoves
<1>8. CASE EnterSync(r)
  <2> DEFINE w(id) == SyncRequest("WHO_HAS_STATE", r, id)
  <2>1. FreshSyncIds # {} /\ FreshSyncIds \subseteq SyncIds
    BY <1>8 DEF EnterSync, FreshSyncIds
  <2>2. Multicast(r, Rest(r), SyncRequest("WHO_HAS_STATE", r, CHOOSE i \in FreshSyncIds : TRUE))
    BY <1>8 DEF EnterSync
  <2>3. PICK id \in SyncIds : Multicast(r, Rest(r), SyncRequest("WHO_HAS_STATE", r, id))
    <3>1. (CHOOSE i \in FreshSyncIds : TRUE) \in SyncIds
      BY <2>1
    <3> QED BY <2>2, <3>1
  <2>4. SyncRequest("WHO_HAS_STATE", r, id) \in Messages /\ Minor(SyncRequest("WHO_HAS_STATE", r, id))
    BY BuiltMessages DEF SyncRequest, Minor
  <2> QED BY <1>2, <2>3, <2>4, MulticastMoves
<1> QED BY <1>4, <1>5, <1>6, <1>7, <1>8 DEF HandleMessage

LEMMA RoomMoves ==
    ASSUME TypeOK, OrderInvariant, ReplayedOnce, NEW r \in Replicas,
           DropUnhandled(r) \/ Joining(r) \/ Leaving(r), ~JoinRoom(r)
    PROVE  \E m : Moves(m) /\ Minor(m)
<1>1. Hello(r) \in Messages /\ Minor(Hello(r))
  BY BuiltMessages DEF Hello, Minor
<1>2. /\ inbox \in Boxes /\ inbox[r] \in Seq(Messages)
      /\ \A q \in Replicas : Part(inbox[q], inbox[q])
      /\ history' = history
  BY BoxesParts DEF TypeOK, DropUnhandled, Joining, JoinRoom, RegisterMessageHandler, AfterActivityJoin,
     RejoinRoom, Leaving, LoseConnection, LeaveRoom
<1>3. SUFFICES ASSUME NEW q \in Replicas PROVE Part(inbox[q], inbox'[q])
  BY <1>1, <1>2, NothingMoves
<1>4. CASE DropUnhandled(r)
  BY <1>4, RestPart DEF DropUnhandled
<1>6. CASE RegisterMessageHandler(r) \/ AfterActivityJoin(r)
  BY <1>2, <1>6 DEF RegisterMessageHandler, AfterActivityJoin
<1>7. CASE RejoinRoom(r)
  <2>1. history = <<>>
    BY <1>7 DEF RejoinRoom, OrderInvariant, ReplicaOK, HistoryOK, ReplayedOnce
  <2>2. inbox[r] \o <<>> = inbox[r]
    BY <1>2, ConcatEmptySeq
  <2>3. inbox'[q] = inbox[q]
    BY <1>2, <1>7, <2>1, <2>2 DEF RejoinRoom, Boxes
  <2> QED BY <1>2, <2>3
<1>8. CASE LoseConnection(r)
  <2>1. PICK k \in 0..Len(inbox[r]) : inbox' = [inbox EXCEPT ![r] = SubSeq(inbox[r], 1, k)]
    BY <1>8 DEF LoseConnection
  <2>2. inbox'[q] = inbox[q] \/ (q = r /\ inbox'[q] = SubSeq(inbox[r], 1, k))
    BY <1>2, <2>1 DEF Boxes
  <2> QED BY <1>2, <2>2, PartPrefix
<1>9. CASE LeaveRoom(r)
  <2>1. inbox'[q] = inbox[q] \/ inbox'[q] = <<>>
    BY <1>2, <1>9 DEF LeaveRoom, Boxes
  <2> QED BY <1>2, <2>1, PartEmpty
<1> QED BY <1>4, <1>6, <1>7, <1>8, <1>9 DEF Joining, Leaving

LEMMA AnswerMoves ==
    ASSUME TypeOK, NEW r \in Replicas, AnswerSendMeState(r)
    PROVE  Moves(StateSync(r, Head(inbox[r]).syncId))
<1> DEFINE m == Head(inbox[r])
           a == StateSync(r, m.syncId)
<1>1. inbox[r] # <<>> /\ m.type = "SEND_ME_STATE" /\ Unicast(r, Rest(r), m.from, a)
  BY DEF AnswerSendMeState, Handling
<1>2. /\ Rest(r) \in Boxes /\ m \in Messages /\ m.from \in Replicas
      /\ \A q \in Replicas : Part(inbox[q], Rest(r)[q])
  BY <1>1, RestFewer, RestPart
<1>3. a \in Messages
  <2>1. m.syncId \in SyncIds \cup {NoSync}
    BY <1>1, <1>2, MessageKinds DEF SyncMsg
  <2> QED BY <2>1, BuiltMessages
<1> HIDE DEF m, a
<1>4. Moves(a)
  BY <1>1, <1>2, <1>3, UnicastMoves
<1> QED BY <1>4 DEF a, m

\* What a step leaves of a replica's buffer it held before.
LEMMA BufferHeld ==
    ASSUME TypeOK, NEW r \in Replicas,
           AddOperation(r) \/ Timer(r) \/ HandleMessage(r) \/ DropUnhandled(r) \/ Joining(r) \/ Leaving(r),
           NEW q \in Replicas, NEW k \in 1..Len(prop'[q].opsSYNC)
    PROVE  prop'[q].opsSYNC[k] \in Held(q)
<1> DEFINE b == prop[q].opsSYNC
           c == prop'[q].opsSYNC
           s == inbox[r]
<1>1. prop \in [Replicas -> PropObject] /\ prop[r] \in PropObject /\ b \in Seq(OperationMsg) /\ s \in Seq(Messages)
  BY DEF TypeOK, PropObject
<1>2. CASE c = b
  BY <1>2 DEF Held
<1>3. CASE c = <<>>
  BY <1>3, EmptySeq
<1>4. CASE q # r
  <2>1. prop'[q] = prop[q]
    BY <1>4, OthersSend
  <2> QED BY <1>2, <2>1
<1>5. CASE q = r /\ BufferOperation(r)
  <2>1. prop' = [prop EXCEPT ![r].opsSYNC = Append(b, Head(s))] /\ s # <<>> /\ Head(s).type = "STATE_OPERATION"
    BY <1>5 DEF BufferOperation, Handling
  <2>2. c = Append(b, Head(s))
    BY <1>1, <1>5, <2>1 DEF PropObject
  <2>3. Head(s) = s[1] /\ 1 \in 1..Len(s) /\ Head(s) \in OperationMsg
    BY <1>1, <2>1, TailFacts, HeadTailProperties, MessageKinds
  <2>4. (k \in 1..Len(b) /\ c[k] = b[k]) \/ c[k] = s[1]
    <3> HIDE DEF b, s, c
    <3>1. Len(c) = Len(b) + 1 /\ c[Len(b) + 1] = Head(s) /\ \A i \in 1..Len(b) : c[i] = b[i]
      BY <1>1, <2>2, <2>3, AppendFacts
    <3>2. k \in 1..Len(b) \/ k = Len(b) + 1
      <4>1. k \in 1..Len(c) /\ Len(b) \in Nat
        BY <1>1 DEF c
      <4> QED BY <3>1, <4>1
    <3> QED BY <2>3, <3>1, <3>2
  <2> QED BY <1>5, <2>3, <2>4 DEF Held
<1>6. CASE q = r /\ HandleMessage(r) /\ ~BufferOperation(r)
  <2>1. CASE ApplyOperation(r)
    <3>1. prop' = [prop EXCEPT ![r] = HandleReceivedOp(prop[r], r, Head(s))]
      BY <2>1 DEF ApplyOperation
    <3>2. HandleReceivedOp(prop[r], r, Head(s)).opsSYNC = prop[r].opsSYNC
      BY <1>1 DEF HandleReceivedOp, HandleOwnOp, HandleRemoteOp, PropObject
    <3> QED BY <1>1, <1>2, <1>6, <3>1, <3>2
  <2>2. CASE InstallState(r)
    <3>1. prop' = [prop EXCEPT ![r] = HandleStateSync(prop[r], r, Head(s))]
      BY <2>2 DEF InstallState
    <3>2. HandleStateSync(prop[r], r, Head(s)).opsSYNC = <<>>
      BY <1>1, InstalledFields
    <3> QED BY <1>1, <1>3, <1>6, <3>1, <3>2
  <2>3. CASE EnterSync(r)
    <3>1. PICK id : prop' = [prop EXCEPT ![r] = EnterSYNCMode(prop[r], id)]
      BY <2>3 DEF EnterSync
    <3>2. EnterSYNCMode(prop[r], id).opsSYNC = <<>>
      BY <1>1 DEF EnterSYNCMode, PropObject
    <3> QED BY <1>1, <1>3, <1>6, <3>1, <3>2
  <2>4. CASE AcceptIHaveState(r)
    <3>1. c = b
      BY <1>1, <1>6, <2>4 DEF AcceptIHaveState, PropObject
    <3> QED BY <1>2, <3>1
  <2>5. CASE RaiseOnConflict(r) \/ AnswerSendMeState(r) \/ AnswerWhoHasState(r) \/ IgnoreMessage(r)
    BY <1>2, <2>5 DEF RaiseOnConflict, AnswerSendMeState, AnswerWhoHasState, IgnoreMessage
  <2> QED BY <1>6, <2>1, <2>2, <2>3, <2>4, <2>5 DEF HandleMessage
<1>7. CASE q = r /\ (AddOperation(r) \/ AfterActivityJoin(r))
  <2>1. c = b
    BY <1>1, <1>7 DEF AddOperation, AfterActivityJoin, PropObject
  <2> QED BY <1>2, <2>1
<1>8. CASE Timer(r) \/ DropUnhandled(r) \/ JoinRoom(r) \/ RegisterMessageHandler(r) \/ RejoinRoom(r) \/ Leaving(r)
  <2>1. prop' = prop
    BY <1>8 DEF Timer, PeriodicTask, SendHello, BroadcastSyncRequest, DropUnhandled, JoinRoom,
       RegisterMessageHandler, RejoinRoom, Leaving, LoseConnection, LeaveRoom
  <2> QED BY <1>2, <2>1
<1> QED BY <1>4, <1>5, <1>6, <1>7, <1>8 DEF Joining

\* A replica comes to hold nothing but the stanza that is sent.
LEMMA HeldMoves ==
    ASSUME TypeOK, NEW r \in Replicas,
           AddOperation(r) \/ Timer(r) \/ HandleMessage(r) \/ DropUnhandled(r) \/ Joining(r) \/ Leaving(r),
           NEW m, Moves(m), NEW q \in Replicas, NEW x \in Held(q)'
    PROVE  x \in Held(q) \/ x = m
<1>1. CASE \E k \in 1..Len(prop'[q].opsSYNC) : x = prop'[q].opsSYNC[k]
  BY <1>1, BufferHeld
<1>2. ASSUME NEW k \in 1..Len(inbox'[q]), x = inbox'[q][k]
      PROVE  x \in Held(q) \/ x = m
  <2>1. PICK u : Part(inbox[q], u) /\ (inbox'[q] = u \/ inbox'[q] = Append(u, m))
    BY DEF Moves, Moved
  <2>2. u \in Seq(Messages) /\ \A i \in 1..Len(u) : u[i] \in Held(q)
    <3>1. PICK d \in Nat : \A i \in 1..Len(u) : i + d \in 1..Len(inbox[q]) /\ u[i] = inbox[q][i + d]
      BY <2>1 DEF Part
    <3>2. \A i \in 1..Len(inbox[q]) : inbox[q][i] \in Held(q)
      BY DEF Held
    <3>3. u \in Seq(Messages)
      BY <2>1, PartFacts
    <3> QED BY <3>1, <3>2, <3>3
  <2>3. CASE inbox'[q] = u
    BY <1>2, <2>2, <2>3
  <2>4. CASE inbox'[q] = Append(u, m)
    <3>1. m \in Messages
      BY DEF Moves
    <3>2. \A i \in 1..Len(Append(u, m)) : Append(u, m)[i] = m \/ (i \in 1..Len(u) /\ Append(u, m)[i] = u[i])
      BY <2>2, <3>1, AppendFacts
    <3> QED BY <1>2, <2>2, <2>4, <3>2
  <2> QED BY <2>1, <2>3, <2>4
<1> QED BY <1>1, <1>2 DEF Held

\* Whatever is held has its place in the order.
LEMMA HeldPlaced ==
    ASSUME TypeOK, OrderInvariant, NEW q \in Replicas, NEW x \in Held(q), IsOp(x)
    PROVE  x.slot \in 1..Len(log) /\ x \in Messages
<1>1. /\ OpsPlaced(log, inbox[q]) /\ \A k \in 1..Len(prop[q].opsSYNC) : Placed(log, prop[q].opsSYNC[k])
      /\ inbox[q] \in Seq(Messages) /\ prop[q].opsSYNC \in Seq(OperationMsg)
  BY DEF OrderInvariant, ReplicaOK, StreamOK, ObjectOK, BufferOK, TypeOK, PropObject
<1>2. CASE \E k \in 1..Len(inbox[q]) : x = inbox[q][k]
  <2>1. PICK k \in 1..Len(inbox[q]) : x = inbox[q][k]
    BY <1>2
  <2> QED BY <1>1, <2>1, ElementOfSeq DEF OpsPlaced, Placed
<1>3. CASE \E k \in 1..Len(prop[q].opsSYNC) : x = prop[q].opsSYNC[k]
  <2>1. PICK k \in 1..Len(prop[q].opsSYNC) : x = prop[q].opsSYNC[k]
    BY <1>3
  <2>2. x \in OperationMsg
    BY <1>1, <2>1, ElementOfSeq
  <2> QED BY <1>1, <2>1, <2>2 DEF Placed, Messages
<1> QED BY <1>2, <1>3 DEF Held

LEMMA ReplayedPlaced ==
    ASSUME TypeOK, OrderInvariant, NEW x \in Replayed, IsOp(x)
    PROVE  x.slot \in 1..Len(log)
BY DEF OrderInvariant, HistoryOK, StreamOK, OpsPlaced, Placed, Replayed

LEMMA OneSenderKept ==
    ASSUME TypeOK, OrderInvariant, OneSender, NEW r \in Replicas,
           AddOperation(r) \/ Timer(r) \/ HandleMessage(r) \/ DropUnhandled(r) \/ Joining(r) \/ Leaving(r),
           NEW m, Moves(m), IsOp(m) => m.slot = Len(log) + 1
    PROVE  OneSender'
<1> SUFFICES ASSUME NEW p \in Replicas, NEW q \in Replicas,
                    NEW x \in Held(p)' \cup Replayed', NEW y \in Held(q)' \cup Replayed',
                    IsOp(x), IsOp(y), x.slot = y.slot
             PROVE  x.from = y.from
  BY DEF OneSender, IsOp
<1>1. x \in Held(p) \cup Replayed \/ x = m
  BY HeldMoves DEF Moves
<1>2. y \in Held(q) \cup Replayed \/ y = m
  BY HeldMoves DEF Moves
<1>3. Len(log) \in Nat
  BY DEF TypeOK
<1>4. CASE x = m /\ y = m
  BY <1>4
<1>5. CASE x \in Held(p) \cup Replayed /\ y \in Held(q) \cup Replayed
  BY <1>5 DEF OneSender
<1>6. CASE x \in Held(p) \cup Replayed /\ y = m
  <2>1. x.slot \in 1..Len(log)
    BY <1>6, HeldPlaced, ReplayedPlaced
  <2> QED BY <1>3, <1>6, <2>1
<1>7. CASE x = m /\ y \in Held(q) \cup Replayed
  <2>1. y.slot \in 1..Len(log)
    BY <1>7, HeldPlaced, ReplayedPlaced
  <2> QED BY <1>3, <1>7, <2>1
<1> QED BY <1>1, <1>2, <1>4, <1>5, <1>6, <1>7

\* Nothing enters the history from outside the room.
LEMMA UnheardKept ==
    ASSUME TypeOK, OrderInvariant, Unheard, NEW r \in Replicas,
           AddOperation(r) \/ Timer(r) \/ HandleMessage(r) \/ DropUnhandled(r) \/ Joining(r) \/ Leaving(r),
           NEW m, Moves(m), IsOp(m) => AddOperation(r) /\ m.from = r
    PROVE  Unheard'
<1> SUFFICES ASSUME NEW q \in Replicas, status'[q] = "out", NEW x \in Replayed', IsOp(x)
             PROVE  x.from # q
  BY DEF Unheard, IsOp
<1>1. status[q] = "out"
  BY DEF TypeOK, AddOperation, Timer, PeriodicTask, SendHello, BroadcastSyncRequest, HandleMessage, ApplyOperation,
     RaiseOnConflict, AnswerSendMeState, AnswerWhoHasState, EnterSync, BufferOperation, AcceptIHaveState, InstallState,
     IgnoreMessage, DropUnhandled, Joining, JoinRoom, RegisterMessageHandler, AfterActivityJoin, RejoinRoom,
     Leaving, LoseConnection, LeaveRoom
<1>2. CASE x \in Replayed
  BY <1>1, <1>2 DEF Unheard
<1>3. CASE x = m /\ x \notin Replayed
  <2>1. AddOperation(r) /\ x.from = r
    BY <1>3
  <2>2. history' # history
    BY <1>3 DEF Replayed
  <2>3. Occupant(r)
    BY <2>1, <2>2 DEF AddOperation, Multicast
  <2> QED BY <1>1, <2>1, <2>3 DEF Occupant
<1> QED BY <1>2, <1>3 DEF Moves

\* A stretch of a stream, or more stanzas, leave who asked last.
LEMMA AskedLastKept ==
    ASSUME NEW q, NEW id, NEW s, NEW t, NEW m \in Messages, Moved(s, t, m), ~(IsOp(m) /\ m.from = q),
           AskedLast(q, id, s)
    PROVE  AskedLast(q, id, t)
<1>1. PICK u : Part(s, u) /\ (t = u \/ t = Append(u, m))
  BY DEF Moved
<1>2. u \in Seq(Messages)
  BY <1>1, PartFacts
<1>3. PICK d \in Nat :
         /\ \A k \in 1..Len(u) : k + d \in 1..Len(s) /\ u[k] = s[k + d]
         /\ \A k \in OwnOps(q, u) : k \in Nat /\ k + d \in OwnOps(q, s) /\ u[k] = s[k + d]
  BY <1>1, PartFacts
<1>4. AskedLast(q, id, u)
  <2> SUFFICES ASSUME NEW k \in 1..Len(u), u[k].type = "SEND_ME_STATE", u[k].syncId = id, NEW j \in OwnOps(q, u)
               PROVE  j < k
    BY DEF AskedLast
  <2>1. k + d \in 1..Len(s) /\ s[k + d] = u[k] /\ j + d \in OwnOps(q, s) /\ j \in Nat
    BY <1>3
  <2>2. j + d < k + d
    BY <2>1 DEF AskedLast
  <2> QED BY <2>1, <2>2
<1>5. CASE t = Append(u, m)
  <2>1. OwnOps(q, t) = OwnOps(q, u)
    BY <1>2, <1>5, OwnOpsAppend DEF IsOp
  <2>2. /\ Len(u) \in Nat /\ Len(t) = Len(u) + 1
        /\ \A k \in 1..Len(u) : t[k] = u[k]
    BY <1>2, <1>5, AppendFacts
  <2> SUFFICES ASSUME NEW k \in 1..Len(t), t[k].type = "SEND_ME_STATE", t[k].syncId = id, NEW j \in OwnOps(q, t)
               PROVE  j < k
    BY DEF AskedLast
  <2>3. j \in OwnOps(q, u) /\ j \in 1..Len(u)
    BY <2>1 DEF OwnOps
  <2>4. CASE k \in 1..Len(u)
    BY <1>4, <2>2, <2>3, <2>4 DEF AskedLast
  <2>5. CASE k = Len(u) + 1
    BY <2>2, <2>3, <2>5
  <2> QED BY <2>2, <2>4, <2>5
<1> QED BY <1>1, <1>4, <1>5

\* A state stays whole while its owner issues nothing.
LEMMA WholeKept ==
    ASSUME TypeOK, NEW q \in Replicas, NEW x, Whole(q, x), x.lastOp \in Ops,
           log' = log \/ (\E op \in Ops : log' = Append(log, op)),
           \A n \in Held(q)' : IsOp(n) /\ n.from = q => n \in Held(q)
    PROVE  Whole(q, x)'
<1>1. log \in Seq(Ops) /\ At(log, x.lastOp, x.seqNum) /\ x.seqNum \in 0..Len(log)
  BY DEF TypeOK, Whole, At
<1>2. At(log', x.lastOp, x.seqNum)
  <2>1. ASSUME NEW op \in Ops, log' = Append(log, op) PROVE At(log', x.lastOp, x.seqNum)
    BY <1>1, <2>1, AtGrow
  <2> QED BY <1>1, <2>1
<1>3. ASSUME NEW n \in Held(q)', IsOp(n), n.from = q PROVE n.slot <= x.seqNum
  BY <1>3 DEF Whole
<1> QED BY <1>2, <1>3 DEF Whole, IsOp

\* The state a steady replica sends has in it what was issued by who asked.
LEMMA WholeSent ==
    ASSUME TypeOK, OrderInvariant, OneSender, NEW r \in Steady, NEW q \in Replicas,
           AnswerSendMeState(r), AskedLast(q, Head(inbox[r]).syncId, inbox[r])
    PROVE  Whole(q, StateSync(r, Head(inbox[r]).syncId))
<1> DEFINE s == inbox[r]
           p == prop[r]
<1>1. r \in Replicas /\ s # <<>> /\ Head(s).type = "SEND_ME_STATE" /\ status[r] \in {"in", "cut"}
  BY SteadyReplicas DEF AnswerSendMeState, Handling
<1>2. /\ p.mode = "NORM" /\ SteadyObjectOK(log, p, s) /\ ObjectOK(log, p, s)
  BY <1>1 DEF OrderInvariant, SteadyOK, ReplicaOK
<1>3. s \in Seq(Messages) /\ log \in Seq(Ops) /\ Len(log) \in Nat /\ Len(s) \in Nat
  BY <1>1 DEF TypeOK
<1>4. p.seqNum \in 0..Len(log) /\ \A n \in (p.seqNum + 1)..Len(log) : Brings(s, Len(s) + 1, n)
  BY <1>2 DEF SteadyObjectOK
<1>5. 1 \in 1..Len(s) /\ s[1] = Head(s)
  BY <1>1, <1>3, TailFacts
<1>6. At(log, p.lastOp, p.seqNum)
  <2>1. PICK n \in 0..Len(log) : At(log, p.lastOp, n) /\ p.seqNum \in 0..n /\ OpsAfter(s, 0, n)
    BY <1>2 DEF ObjectOK, Current
  <2>2. ASSUME n # p.seqNum PROVE FALSE
    <3>1. n \in (p.seqNum + 1)..Len(log)
      BY <1>3, <1>4, <2>1, <2>2
    <3>2. PICK j \in 1..Len(s) : IsOp(s[j]) /\ s[j].slot = n
      BY <1>4, <3>1 DEF Brings
    <3>3. s[j].slot > n
      BY <2>1, <3>2 DEF OpsAfter
    <3> QED BY <3>1, <3>2, <3>3
  <2> QED BY <2>1, <2>2
<1>7. ASSUME NEW n \in Held(q), IsOp(n), n.from = q PROVE n.slot <= p.seqNum
  <2>1. n.slot \in 1..Len(log)
    BY <1>7, HeldPlaced
  <2> SUFFICES ASSUME ~(n.slot <= p.seqNum) PROVE FALSE
    OBVIOUS
  <2>2. n.slot \in (p.seqNum + 1)..Len(log)
    BY <1>3, <1>4, <2>1
  <2>3. PICK j \in 1..Len(s) : IsOp(s[j]) /\ s[j].slot = n.slot
    BY <1>4, <2>2 DEF Brings
  <2>4. s[j] \in Held(r)
    BY DEF Held
  <2>5. s[j].from = q
    BY <1>1, <1>7, <2>3, <2>4 DEF OneSender
  <2>6. j \in OwnOps(q, s)
    BY <2>3, <2>5 DEF OwnOps, IsOp
  <2>7. j < 1
    BY <1>1, <1>5, <2>6 DEF AskedLast
  <2> QED BY <2>7
<1> QED BY <1>6, <1>7 DEF Whole, StateSync

\* What a step leaves of the replica's own states.
LEMMA OwnStates ==
    ASSUME TypeOK, NEW r \in Replicas,
           AddOperation(r) \/ Timer(r) \/ HandleMessage(r) \/ DropUnhandled(r) \/ Joining(r) \/ Leaving(r)
    PROVE  \/ AddOperation(r)
           \/ ApplyOperation(r) \/ InstallState(r) \/ EnterSync(r)
           \/ /\ prop'[r].mode = prop[r].mode /\ prop'[r].syncId = prop[r].syncId
              /\ prop'[r].pending = prop[r].pending /\ prop'[r].clean = prop[r].clean
              /\ prop'[r].state = prop[r].state
<1>1. prop \in [Replicas -> PropObject] /\ prop[r] \in PropObject
  BY DEF TypeOK
<1>2. CASE BufferOperation(r)
  BY <1>1, <1>2 DEF BufferOperation, PropObject
<1>3. CASE AcceptIHaveState(r)
  BY <1>1, <1>3 DEF AcceptIHaveState, PropObject
<1>4. CASE AfterActivityJoin(r)
  BY <1>1, <1>4 DEF AfterActivityJoin, PropObject
<1>5. CASE \/ Timer(r) \/ RaiseOnConflict(r) \/ AnswerSendMeState(r) \/ AnswerWhoHasState(r) \/ IgnoreMessage(r)
           \/ DropUnhandled(r) \/ JoinRoom(r) \/ RegisterMessageHandler(r) \/ RejoinRoom(r) \/ Leaving(r)
  <2>1. prop' = prop
    BY <1>5 DEF Timer, PeriodicTask, SendHello, BroadcastSyncRequest, RaiseOnConflict, AnswerSendMeState,
       AnswerWhoHasState, IgnoreMessage, DropUnhandled, JoinRoom, RegisterMessageHandler, RejoinRoom,
       Leaving, LoseConnection, LeaveRoom
  <2> QED BY <2>1
<1> QED BY <1>2, <1>3, <1>4, <1>5 DEF HandleMessage, Joining

\* The order and the number of operations issued grow together.
LEMMA OrderGrows ==
    ASSUME TypeOK, NEW r \in Replicas,
           AddOperation(r) \/ Timer(r) \/ HandleMessage(r) \/ DropUnhandled(r) \/ Joining(r) \/ Leaving(r)
    PROVE  /\ issued' \in Nat /\ issued' >= issued
           /\ log' = log \/ (\E op \in Ops : log' = Append(log, op))
           /\ AddOperation(r) => prop[r].mode = "NORM" /\ prop'[r].mode = "NORM"
<1>1. issued \in Nat /\ prop \in [Replicas -> PropObject] /\ prop[r] \in PropObject
  BY BoundsAssumption DEF TypeOK
<1>2. CASE AddOperation(r)
  <2>1. issued' = issued + 1 /\ issued + 1 \in Ops /\ (log' = log \/ log' = Append(log, issued + 1))
    BY <1>1, <1>2 DEF AddOperation, Ops
  <2>2. prop[r].mode = "NORM" /\ prop'[r].mode = "NORM"
    BY <1>1, <1>2 DEF AddOperation, PropObject
  <2> QED BY <1>1, <2>1, <2>2
<1>3. CASE ~AddOperation(r)
  <2>1. issued' = issued /\ log' = log
    BY <1>3 DEF Timer, PeriodicTask, SendHello, BroadcastSyncRequest, HandleMessage, ApplyOperation, RaiseOnConflict,
       AnswerSendMeState, AnswerWhoHasState, EnterSync, BufferOperation, AcceptIHaveState, InstallState, IgnoreMessage,
       DropUnhandled, Joining, JoinRoom, RegisterMessageHandler, AfterActivityJoin, RejoinRoom,
       Leaving, LoseConnection, LeaveRoom
  <2> QED BY <1>1, <1>3, <2>1
<1> QED BY <1>2, <1>3

\* What a step of r sends, if it sends a stanza.
LEMMA StepMoves ==
    ASSUME TypeOK, OrderInvariant, ReplayedOnce, NEW r \in Replicas, ~JoinRoom(r),
           AddOperation(r) \/ Timer(r) \/ HandleMessage(r) \/ DropUnhandled(r) \/ Joining(r) \/ Leaving(r)
    PROVE  \E m : /\ Moves(m)
                  /\ IsOp(m) => AddOperation(r) /\ m.from = r /\ m.slot = Len(log) + 1
                  /\ m.type = "STATE_SYNC" => AnswerSendMeState(r) /\ m = StateSync(r, Head(inbox[r]).syncId)
<1>1. CASE AddOperation(r)
  BY <1>1, IssuedMoves DEF IsOp
<1>2. CASE AnswerSendMeState(r)
  <2>1. StateSync(r, Head(inbox[r]).syncId).type = "STATE_SYNC"
    BY DEF StateSync
  <2> QED BY <1>2, <2>1, AnswerMoves DEF IsOp
<1>3. CASE ~AddOperation(r) /\ ~AnswerSendMeState(r)
  <2>1. PICK m : Moves(m) /\ Minor(m)
    BY <1>3, TimerMoves, HandlingMoves, RoomMoves
  <2> QED BY <2>1 DEF Minor, IsOp
<1> QED BY <1>1, <1>2, <1>3

\* A replica in NORM mode.
LEMMA ExpectedNext ==
    ASSUME TypeOK, OrderInvariant, ReplayedOnce, UnknownOp = "raise", NEW r \in Replicas, ~JoinRoom(r),
           AddOperation(r) \/ Timer(r) \/ HandleMessage(r) \/ DropUnhandled(r) \/ Joining(r) \/ Leaving(r),
           NEW q \in Replicas, prop'[q].mode = "NORM",
           IF prop[q].mode = "NORM" THEN Expected(q) ELSE Resuming(q)
    PROVE  Expected(q)'
<1>1. inbox[q] \in Seq(Messages) /\ prop[q] \in PropObject /\ prop \in [Replicas -> PropObject]
  BY DEF TypeOK
<1>2. issued' \in Nat /\ issued' >= issued
  BY OrderGrows
<1>3. CASE prop[q].mode = "NORM"
  <2>1. Expected(q)
    BY <1>3
  <2>2. CASE q # r
    <3>1. prop'[q] = prop[q] /\ Sent(q, inbox[q], inbox'[q])
      BY <2>2, OthersSend
    <3>2. Part(inbox[q], inbox[q])
      BY <1>1, PartSelf
    <3> QED BY <1>2, <2>1, <3>1, <3>2, ExpectedKept
  <2>3. CASE q = r /\ AddOperation(r)
    BY <2>1, <2>3, ExpectedIssued
  <2>4. CASE q = r /\ ApplyOperation(r)
    BY <2>1, <2>4, ExpectedApplied
  <2>5. CASE q = r /\ ~AddOperation(r) /\ ~ApplyOperation(r)
    <3>1. ~InstallState(r)
      BY <1>3, <2>5 DEF InstallState, Handling
    <3>2. ~EnterSync(r)
      <4> SUFFICES ASSUME EnterSync(r) PROVE FALSE
        OBVIOUS
      <4>1. PICK id : prop' = [prop EXCEPT ![r] = EnterSYNCMode(prop[r], id)]
        BY DEF EnterSync
      <4>2. prop'[q].mode = "SYNC"
        BY <1>1, <2>5, <4>1 DEF EnterSYNCMode, PropObject
      <4> QED BY <4>2
    <3>3. prop'[q].pending = prop[q].pending /\ prop'[q].clean = prop[q].clean /\ prop'[q].state = prop[q].state
      BY <2>5, <3>1, <3>2, OwnStates
    <3>4. PICK m : Moves(m) /\ (IsOp(m) => AddOperation(r))
      BY StepMoves
    <3>5. PICK u : Part(inbox[q], u) /\ (inbox'[q] = u \/ inbox'[q] = Append(u, m))
      BY <3>4 DEF Moves, Moved
    <3>6. Sent(q, u, inbox'[q])
      BY <2>5, <3>4, <3>5 DEF Sent, Moves, IsOp
    <3> QED BY <1>2, <2>1, <3>3, <3>5, <3>6, ExpectedKept
  <2> QED BY <2>2, <2>3, <2>4, <2>5
<1>4. CASE prop[q].mode # "NORM"
  <2>1. Resuming(q)
    BY <1>4
  <2>2. q = r
    BY <1>4, OthersSend
  <2>3. InstallState(r)
    <3>1. ~AddOperation(r) /\ ~ApplyOperation(r) /\ ~EnterSync(r)
      BY <1>4, <2>2 DEF AddOperation, ApplyOperation, EnterSync, Handling
    <3> QED BY <1>4, <2>2, <3>1, OwnStates
  <2> QED BY <2>1, <2>2, <2>3, ExpectedInstalled
<1> QED BY <1>3, <1>4

\* A replica in SYNC mode.
LEMMA ResumingNext ==
    ASSUME TypeOK, OrderInvariant, ReplayedOnce, SyncRounds, HashInvariant, \A p, q \in Replicas \ Steady : p = q,
           NEW r \in Replicas, ~JoinRoom(r),
           AddOperation(r) \/ Timer(r) \/ HandleMessage(r) \/ DropUnhandled(r) \/ Joining(r) \/ Leaving(r),
           NEW q \in Replicas, prop'[q].mode = "SYNC"
    PROVE  Resuming(q)'
<1> DEFINE id == prop[q].syncId
<1>1. prop[q] \in PropObject /\ prop \in [Replicas -> PropObject]
  BY DEF TypeOK
<1>2. CASE prop[q].mode = "NORM"
  <2>1. q = r
    BY <1>2, OthersSend
  <2>2. EnterSync(r)
    <3>1. ~AddOperation(r)
      BY <2>1, OrderGrows
    <3>2. ~ApplyOperation(r)
      <4> SUFFICES ASSUME ApplyOperation(r) PROVE FALSE
        OBVIOUS
      <4>1. prop'[q] = HandleReceivedOp(prop[r], r, Head(inbox[r]))
        BY <1>1, <2>1 DEF ApplyOperation
      <4> QED BY <1>1, <1>2, <2>1, <4>1, HandledModes
    <3>3. ~InstallState(r)
      BY <1>2, <2>1 DEF InstallState, Handling
    <3> QED BY <1>2, <2>1, <3>1, <3>2, <3>3, OwnStates
  <2>3. \A x \in Replicas : Fewer(inbox[x], inbox'[x])
    BY <2>2, RoundBegun
  <2>4. PICK i \in SyncIds :
          /\ \A x \in Replicas : prop[x].syncId # i /\ Silent(inbox[x], i)
          /\ prop' = [prop EXCEPT ![r] = EnterSYNCMode(prop[r], i)]
    BY <2>2, RoundBegun
  <2>5. prop'[q].syncId = i
    BY <1>1, <2>1, <2>4 DEF EnterSYNCMode, PropObject
  <2>6. \A x \in Replicas : Silent(inbox'[x], i)
    BY <2>3, <2>4 DEF Fewer, AnyId
  <2>7. ASSUME NEW x \in Replicas PROVE AskedLast(q, i, inbox'[x])
    BY <2>6 DEF AskedLast, Silent, IsAnswer
  <2>8. ASSUME NEW k \in 1..Len(inbox'[q]), inbox'[q][k].type = "STATE_SYNC", inbox'[q][k].syncId = i
        PROVE  FALSE
    BY <2>6, <2>8 DEF Silent, IsAnswer
  <2> QED BY <2>5, <2>7, <2>8 DEF Resuming
<1>3. CASE prop[q].mode = "SYNC"
  <2>1. Resuming(q) /\ OneSender /\ id \in AnyId
    BY <1>3 DEF HashInvariant, SyncRounds, AnyId
  <2>2. prop'[q].syncId = id /\ ~(AddOperation(r) /\ q = r)
    <3>1. CASE q # r
      <4>1. prop'[q] = prop[q]
        BY <3>1, OthersSend
      <4> QED BY <3>1, <4>1
    <3>2. CASE q = r
      <4>1. ~AddOperation(r) /\ ~ApplyOperation(r) /\ ~EnterSync(r)
        BY <1>3, <3>2 DEF AddOperation, ApplyOperation, EnterSync, Handling
      <4>2. ~InstallState(r)
        <5> SUFFICES ASSUME InstallState(r) PROVE FALSE
          OBVIOUS
        <5>1. prop'[q] = HandleStateSync(prop[r], r, Head(inbox[r]))
          BY <1>1, <3>2 DEF InstallState
        <5>2. prop'[q].mode = "NORM"
          BY <1>1, <3>2, <5>1, InstalledMode
        <5> QED BY <5>2
      <4> QED BY <3>2, <4>1, <4>2, OwnStates
    <3> QED BY <3>1, <3>2
  <2>3. PICK m : /\ Moves(m)
                 /\ IsOp(m) => AddOperation(r) /\ m.from = r /\ m.slot = Len(log) + 1
                 /\ m.type = "STATE_SYNC" => AnswerSendMeState(r) /\ m = StateSync(r, Head(inbox[r]).syncId)
    BY StepMoves
  <2>4. m \in Messages /\ ~(IsOp(m) /\ m.from = q)
    BY <2>2, <2>3 DEF Moves
  <2>5. ASSUME NEW x \in Replicas, x # q PROVE AskedLast(q, id, inbox'[x])
    <3>1. AskedLast(q, id, inbox[x]) /\ Moved(inbox[x], inbox'[x], m)
      BY <2>1, <2>3, <2>5 DEF Resuming, Moves
    <3> QED BY <2>4, <3>1, AskedLastKept
  <2>6. log' = log \/ (\E op \in Ops : log' = Append(log, op))
    BY OrderGrows
  <2>7. ASSUME NEW n \in Held(q)', IsOp(n), n.from = q PROVE n \in Held(q)
    BY <2>3, <2>4, <2>7, HeldMoves
  <2>8. ASSUME NEW k \in 1..Len(inbox'[q]), NEW x, x = inbox'[q][k], x.type = "STATE_SYNC", x.syncId = id
        PROVE  Whole(q, x)'
    <3>1. x \in Messages /\ Whole(q, x)
      <4>1. PICK u : Part(inbox[q], u) /\ (inbox'[q] = u \/ inbox'[q] = Append(u, m))
        BY <2>3 DEF Moves, Moved
      <4>2. u \in Seq(Messages)
        BY <4>1, PartFacts
      <4>3. ASSUME NEW i \in 1..Len(u), x = u[i] PROVE x \in Messages /\ Whole(q, x)
        <5>1. PICK d \in Nat : \A j \in 1..Len(u) : j + d \in 1..Len(inbox[q]) /\ u[j] = inbox[q][j + d]
          BY <4>1 DEF Part
        <5>2. i + d \in 1..Len(inbox[q]) /\ x = inbox[q][i + d]
          BY <4>3, <5>1
        <5>3. x \in Messages
          BY <4>2, <4>3, ElementOfSeq
        <5> QED BY <2>1, <2>8, <5>2, <5>3 DEF Resuming
      <4>4. ASSUME x = m PROVE x \in Messages /\ Whole(q, x)
        <5>1. AnswerSendMeState(r) /\ m = StateSync(r, Head(inbox[r]).syncId)
          BY <2>3, <2>8, <4>4
        <5>2. Head(inbox[r]).syncId = id
          BY <2>8, <4>4, <5>1 DEF StateSync
        <5>3. q # r
          BY <1>3, <5>1 DEF AnswerSendMeState, Handling
        <5>4. r \in Steady
          <6>1. q \notin Steady
            BY <1>3 DEF OrderInvariant, SteadyOK
          <6> QED BY <5>3, <6>1
        <5>5. AskedLast(q, Head(inbox[r]).syncId, inbox[r])
          BY <2>1, <5>2, <5>3 DEF Resuming
        <5>6. Whole(q, StateSync(r, Head(inbox[r]).syncId))
          BY <2>1, <5>1, <5>4, <5>5, WholeSent
        <5> QED BY <2>4, <4>4, <5>1, <5>6
      <4>5. CASE inbox'[q] = u
        BY <4>3, <4>5, <2>8
      <4>6. CASE inbox'[q] = Append(u, m)
        <5>1. \A i \in 1..Len(Append(u, m)) : Append(u, m)[i] = m \/ (i \in 1..Len(u) /\ Append(u, m)[i] = u[i])
          BY <2>4, <4>2, AppendFacts
        <5>2. x = m \/ (k \in 1..Len(u) /\ x = u[k])
          BY <2>8, <4>6, <5>1
        <5> QED BY <4>3, <4>4, <5>2
      <4> QED BY <4>1, <4>5, <4>6
    <3>2. x.lastOp \in Ops
      BY <2>8, <3>1, MessageKinds DEF StateMsg
    <3> QED BY <2>6, <2>7, <3>1, <3>2, WholeKept
  <2>9. ASSUME NEW k \in 1..Len(inbox'[q]), inbox'[q][k].type = "STATE_SYNC", inbox'[q][k].syncId = id
        PROVE  /\ At(log', inbox'[q][k].lastOp, inbox'[q][k].seqNum)
               /\ \A n \in Held(q)' : IsOp(n) /\ n.from = q => n.slot <= inbox'[q][k].seqNum
    <3>1. PICK x : x = inbox'[q][k]
      OBVIOUS
    <3>2. Whole(q, x)'
      BY <2>8, <2>9, <3>1
    <3> QED BY <3>1, <3>2 DEF Whole, IsOp
  <2> QED BY <2>2, <2>5, <2>9 DEF Resuming, Whole, IsOp
<1>4. prop[q].mode \in {"NORM", "SYNC"}
  BY <1>1 DEF PropObject
<1> QED BY <1>2, <1>3, <1>4

LEMMA HashInit ==
    ASSUME Init
    PROVE  HashInvariant
<1>1. /\ \A q \in Replicas : inbox[q] = <<>> /\ prop[q].opsSYNC = <<>> /\ prop[q].mode = "NORM"
                             /\ prop[q].pending = <<>> /\ prop[q].clean = <<>> /\ prop[q].state = <<>>
  BY DEF Init, InitProp
<1>2. <<>> \in Seq(Ops) /\ <<>> \in Seq(Messages) /\ Len(<<>>) = 0 /\ 1..0 = {}
  BY EmptySeq
<1>3. OneSender /\ Unheard
  <2>1. Replayed = {}
    BY <1>2 DEF Init, Replayed
  <2> QED BY <1>1, <1>2, <2>1 DEF OneSender, Unheard, Held
<1>4. ASSUME NEW q \in Replicas PROVE Expected(q)
  <2>1. OwnOps(q, <<>>) = {}
    BY <1>2 DEF OwnOps
  <2>2. Awaits(q, <<>>, <<>>)
    BY <1>2, <2>1 DEF Awaits
  <2>3. <<>> \o <<>> = <<>>
    BY <1>2, ConcatEmptySeq
  <2> QED BY <1>1, <2>2, <2>3 DEF Expected, Trusted, Predicted
<1> QED BY <1>1, <1>3, <1>4 DEF HashInvariant

\* Whoever enters is replayed nothing of its own, and no answer.
LEMMA HashJoined ==
    ASSUME TypeOK, OrderInvariant, SyncRounds, HashInvariant, NEW r \in Replicas, JoinRoom(r)
    PROVE  HashInvariant'
<1>1. /\ prop' = prop /\ history' = history /\ log' = log /\ issued' = issued
      /\ status[r] = "out" /\ \A q \in Replicas : status'[q] = "out" => status[q] = "out"
      /\ \A q \in Replicas : inbox'[q] = IF q = r THEN history ELSE inbox[q]
  BY DEF JoinRoom, TypeOK
<1>2. Replayed' = Replayed
  BY <1>1 DEF Replayed
<1>3. \A q \in Replicas : Held(q)' \subseteq Held(q) \cup Replayed /\ (q # r => Held(q)' = Held(q))
  BY <1>1 DEF Held, Replayed
<1>4. OneSender'
  <2> SUFFICES ASSUME NEW p \in Replicas, NEW q \in Replicas,
                      NEW x \in Held(p)' \cup Replayed', NEW y \in Held(q)' \cup Replayed',
                      IsOp(x), IsOp(y), x.slot = y.slot
               PROVE  x.from = y.from
    BY DEF OneSender, IsOp
  <2>1. x \in Held(p) \cup Replayed /\ y \in Held(q) \cup Replayed
    BY <1>2, <1>3
  <2> QED BY <2>1 DEF HashInvariant, OneSender
<1>5. Unheard'
  BY <1>1, <1>2 DEF HashInvariant, Unheard, IsOp
<1>6. inbox[r] = <<>> /\ Fresh(prop[r])
  BY <1>1 DEF OrderInvariant, ReplicaOK
<1>7. OwnOps(r, history) = {} /\ OwnOps(r, <<>>) = {}
  <2>1. \A k \in 1..Len(history) : IsOp(history[k]) => history[k].from # r
    BY <1>1 DEF HashInvariant, Unheard, Replayed
  <2>2. 1..Len(<<>>) = {}
    BY EmptySeq
  <2> QED BY <2>1, <2>2 DEF OwnOps, IsOp
<1>8. Expected(r)'
  <2>1. Expected(r)
    BY <1>6 DEF Fresh, HashInvariant
  <2>2. ASSUME Stuck(r) PROVE Stuck(r)'
    BY <1>1, <1>7, <2>2 DEF Stuck, Absent
  <2>3. ASSUME Trusted(r) PROVE Trusted(r)'
    <3>1. Awaits(r, prop[r].pending, <<>>) /\ Predicted(r)
      BY <1>6, <2>3 DEF Trusted
    <3>2. Awaits(r, prop[r].pending, history)
      BY <1>7, <3>1 DEF Awaits
    <3> QED BY <1>1, <3>1, <3>2 DEF Trusted, Predicted
  <2> QED BY <2>1, <2>2, <2>3 DEF Expected
<1>9. ASSUME NEW q \in Replicas, q # r, prop[q].mode = "NORM" PROVE Expected(q)'
  <2>1. Expected(q) /\ inbox'[q] = inbox[q]
    BY <1>1, <1>9 DEF HashInvariant
  <2>2. Stuck(q) => Stuck(q)'
    BY <1>1, <2>1 DEF Stuck
  <2>3. Trusted(q) => Trusted(q)'
    BY <1>1, <2>1 DEF Trusted, Predicted
  <2> QED BY <2>1, <2>2, <2>3 DEF Expected
<1>10. ASSUME NEW q \in Replicas, prop[q].mode = "SYNC" PROVE Resuming(q)'
  <2>1. q # r /\ Resuming(q) /\ inbox'[q] = inbox[q] /\ Held(q)' = Held(q)
    BY <1>1, <1>3, <1>6, <1>10 DEF Fresh, HashInvariant
  <2>2. Silent(history, prop[q].syncId)
    BY <1>10 DEF SyncRounds, AnyId
  <2>3. AskedLast(q, prop[q].syncId, history)
    BY <2>2 DEF Silent, IsAnswer, AskedLast
  <2>4. \A x \in Replicas : x # q => AskedLast(q, prop[q].syncId, inbox'[x])
    BY <1>1, <2>1, <2>3 DEF Resuming
  <2>5. ASSUME NEW k \in 1..Len(inbox[q]), inbox[q][k].type = "STATE_SYNC", inbox[q][k].syncId = prop[q].syncId
        PROVE  /\ At(log', inbox[q][k].lastOp, inbox[q][k].seqNum)
               /\ \A n \in Held(q)' : IsOp(n) /\ n.from = q => n.slot <= inbox[q][k].seqNum
    <3>1. Whole(q, inbox[q][k])
      BY <2>1, <2>5 DEF Resuming
    <3> QED BY <1>1, <2>1, <3>1 DEF Whole
  <2>6. prop'[q].syncId = prop[q].syncId
    BY <1>1
  <2> QED BY <2>1, <2>4, <2>5, <2>6 DEF Resuming, Whole, IsOp
<1>11. \A q \in Replicas : prop[q].mode \in {"NORM", "SYNC"}
  BY DEF TypeOK, PropObject
<1> QED BY <1>1, <1>4, <1>5, <1>8, <1>9, <1>10, <1>11 DEF HashInvariant

LEMMA HashNext ==
    ASSUME TypeOK, TypeOK', OrderInvariant, ReplayedOnce, SyncRounds, HashInvariant, UnknownOp = "raise",
           \A p, q \in Replicas \ Steady : p = q, [Next]_vars
    PROVE  HashInvariant'
<1>1. CASE UNCHANGED vars
  <2>1. /\ prop' = prop /\ inbox' = inbox /\ log' = log /\ issued' = issued
        /\ history' = history /\ status' = status
    BY <1>1 DEF vars
  <2>2. OneSender' /\ Unheard'
    BY <2>1 DEF HashInvariant, OneSender, Unheard, Held, Replayed, IsOp
  <2>3. ASSUME NEW q \in Replicas PROVE Expected(q) => Expected(q)'
    <3>1. Stuck(q) => Stuck(q)'
      BY <2>1 DEF Stuck
    <3>2. Trusted(q) => Trusted(q)'
      BY <2>1 DEF Trusted, Predicted
    <3> QED BY <3>1, <3>2 DEF Expected
  <2>4. ASSUME NEW q \in Replicas PROVE Resuming(q) => Resuming(q)'
    <3>1. Held(q)' = Held(q)
      BY <2>1 DEF Held
    <3> QED BY <2>1, <3>1 DEF Resuming, Whole, IsOp
  <2> QED BY <2>1, <2>2, <2>3, <2>4 DEF HashInvariant
<1>2. CASE Next
  <2>1. PICK r \in Replicas :
          AddOperation(r) \/ Timer(r) \/ HandleMessage(r) \/ DropUnhandled(r) \/ Joining(r) \/ Leaving(r)
    BY <1>2 DEF Next
  <2>4. CASE JoinRoom(r)
    BY <2>4, HashJoined
  <2> SUFFICES ASSUME ~JoinRoom(r) PROVE HashInvariant'
    BY <2>4
  <2>2. OneSender' /\ Unheard'
    <3>1. PICK m : Moves(m) /\ (IsOp(m) => AddOperation(r) /\ m.from = r /\ m.slot = Len(log) + 1)
      BY <2>1, StepMoves
    <3>2. OneSender /\ Unheard
      BY DEF HashInvariant
    <3> QED BY <2>1, <3>1, <3>2, OneSenderKept, UnheardKept
  <2>3. ASSUME NEW q \in Replicas
        PROVE  IF prop'[q].mode = "NORM" THEN Expected(q)' ELSE Resuming(q)'
    <3>1. prop'[q].mode \in {"NORM", "SYNC"}
      BY DEF TypeOK, PropObject
    <3>2. IF prop[q].mode = "NORM" THEN Expected(q) ELSE Resuming(q)
      BY DEF HashInvariant
    <3>3. CASE prop'[q].mode = "NORM"
      BY <2>1, <3>2, <3>3, ExpectedNext
    <3>4. CASE prop'[q].mode = "SYNC"
      BY <2>1, <3>4, ResumingNext
    <3> QED BY <3>1, <3>3, <3>4
  <2> QED BY <2>2, <2>3 DEF HashInvariant
<1> QED BY <1>1, <1>2

\* As long as one replica at most loses its connection, leaves or joins, each is
\* right about what it shows, waits for ever for an operation it lost, or is
\* handed a state with all its operations in it.
THEOREM HashesKept ==
    ReplayedOnce /\ UnknownOp = "raise" /\ (\A p, q \in Replicas \ Steady : p = q) => (Spec => []HashInvariant)
<1> SUFFICES ASSUME ReplayedOnce, UnknownOp = "raise", \A p, q \in Replicas \ Steady : p = q
             PROVE  Spec => []HashInvariant
  OBVIOUS
<1>1. Init => HashInvariant
  BY HashInit
<1>2. TypeOK /\ TypeOK' /\ OrderInvariant /\ SyncRounds /\ HashInvariant /\ [Next]_vars => HashInvariant'
  BY HashNext
<1>3. Spec => []OrderInvariant
  BY OrderKept
<1> QED BY <1>1, <1>2, <1>3, TypeCorrect, RoundsKept, PTL DEF Spec

\* The assertion of JXProp.m lines 197-198: with nothing pending, the state a
\* replica shows and the clean one have the same hash.  It takes a second replica
\* that loses its connection, leaves or joins to break it.
THEOREM HashesAgreeHolds ==
    ReplayedOnce /\ UnknownOp = "raise" /\ (\A p, q \in Replicas \ Steady : p = q) => (Spec => []HashesAgree)
<1>1. TypeOK /\ HashInvariant => HashesAgree
  <2> SUFFICES ASSUME TypeOK, HashInvariant, NEW r \in Replicas, prop[r].mode = "NORM", prop[r].pending = <<>>
               PROVE  Hash(prop[r].state) = Hash(prop[r].clean)
    BY DEF HashesAgree
  <2>1. prop[r].clean \in Seq(Ops)
    BY DEF TypeOK, PropObject
  <2>2. ~Stuck(r)
    BY EmptySeq DEF Stuck
  <2>3. Predicted(r)
    BY <2>2 DEF HashInvariant, Expected, Trusted
  <2>4. prop[r].state = prop[r].clean
    BY <2>1, <2>3, ConcatEmptySeq DEF Predicted
  <2> QED BY <2>4
<1> QED BY <1>1, HashesKept, TypeCorrect, PTL

=============================================================================
