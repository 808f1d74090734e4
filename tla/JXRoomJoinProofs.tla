-------------------------- MODULE JXRoomJoinProofs --------------------------
(***************************************************************************)
(* Proofs about JXRoomJoin: its types; that a join which returned true has *)
(* its actor in the server's room, whether or not the server is prompt;    *)
(* who creates the room; and that with a prompt server a join times out    *)
(* only when it was refused. For every number of people, losses, attempts. *)
(***************************************************************************)
EXTENDS JXRoomJoin, SequenceTheorems, TLAPS

-----------------------------------------------------------------------------
(* Types.                                                                  *)

LEMMA ActorShape ==
    /\ \A a \in Actors : a[2] = "actor" => a[1] \in People /\ a = Self(a[1])
    /\ \A a \in Actors : a[2] # "actor" => a[1] \in Churn /\ a = Transient(a[1])
    /\ \A p \in Churn : Self(p) \in Actors /\ Transient(p) \in Actors /\ Self(p) # Transient(p)
    /\ \A p, q \in Churn : Transient(p) = Transient(q) => p = q
    /\ \A a \in Actors : a # <<>>
BY PeopleAssumption DEF Actors, Self, Transient

LEMMA SentType ==
    ASSUME NEW a \in Actors, NEW request \in Requests, up \in [Actors -> Seq(Requests)], Send(a, request)
    PROVE  up' \in [Actors -> Seq(Requests)]
BY DEF Send

LEMMA AnsweredType ==
    ASSUME NEW a \in Actors, NEW answer \in Answers, down \in [Actors -> Seq(Answers)], Answer(a, answer)
    PROVE  down' \in [Actors -> Seq(Answers)]
BY DEF Answer

LEMMA ToldType ==
    ASSUME NEW actors, down \in [Actors -> Seq(Answers)], Tell(actors)
    PROVE  down' \in [Actors -> Seq(Answers)]
BY DEF Tell, Answers

LEMMA RemovedType ==
    ASSUME NEW a \in Actors, room \in Rooms, down \in [Actors -> Seq(Answers)], Remove(a)
    PROVE  room' \in Rooms /\ down' \in [Actors -> Seq(Answers)]
<1>1. down' \in [Actors -> Seq(Answers)]
  BY ToldType DEF Remove
<1>2. room' \in Rooms
  BY DEF Remove, Rooms, NoRoom
<1> QED BY <1>1, <1>2

LEMMA ServedType ==
    ASSUME NEW a \in Actors, NEW request, TypeOK, Serves(a, request),
           room' \in Rooms, down' \in [Actors -> Seq(Answers)]
    PROVE  TypeOK'
<1>1. up' \in [Actors -> Seq(Requests)]
  <2>1. Tail(up[a]) \in Seq(Requests)
    BY DEF TypeOK, Serves
  <2> QED BY <2>1 DEF TypeOK, Serves
<1> QED BY <1>1 DEF TypeOK, Serves

LEMMA TypeInit == Init => TypeOK
<1> SUFFICES ASSUME Init PROVE TypeOK
  OBVIOUS
<1>1. room \in Rooms
  BY DEF Init, NoRoom, Rooms
<1>2. up \in [Actors -> Seq(Requests)] /\ down \in [Actors -> Seq(Answers)]
  BY DEF Init
<1> QED BY <1>1, <1>2, LossesAssumption DEF Init, TypeOK

LEMMA TypeCall ==
    ASSUME TypeOK, NEW a \in Actors,
           Call(a) \/ TimeUp(a) \/ Leave(a) \/ LoseConnection(a)
    PROVE  TypeOK'
<1> USE DEF Requests
<1>1. CASE JoinSessionChat(a)
  BY <1>1, SentType DEF JoinSessionChat, TypeOK
<1>2. CASE JoinReturns(a)
  BY <1>2 DEF JoinReturns, TypeOK
<1>3. CASE TriggerActorJoin(a)
  <2>1. up' \in [Actors -> Seq(Requests)]
    <3>1. CASE a[2] = "transient"
      BY <1>3, <3>1, SentType DEF TriggerActorJoin, TypeOK
    <3>2. CASE a[2] # "transient"
      BY <1>3, <3>2 DEF TriggerActorJoin, TypeOK
    <3> QED BY <3>1, <3>2
  <2>2. down' \in [Actors -> Seq(Answers)]
    <3>1. <<>> \in Seq(Answers)
      OBVIOUS
    <3>2. CASE a[2] = "transient"
      BY <1>3, <3>1, <3>2 DEF TriggerActorJoin, TypeOK
    <3>3. CASE a[2] # "transient"
      BY <1>3, <3>3 DEF TriggerActorJoin, TypeOK
    <3> QED BY <3>2, <3>3
  <2> QED BY <1>3, <2>1, <2>2 DEF TriggerActorJoin, TypeOK
<1>4. CASE GiveUp(a)
  BY <1>4, SentType DEF GiveUp, TypeOK
<1>5. CASE Reconnect(a)
  BY <1>5 DEF Reconnect, TypeOK
<1>6. CASE TimeUp(a)
  BY <1>6 DEF TimeUp, TypeOK
<1>7. CASE Leave(a)
  BY <1>7, SentType DEF Leave, TypeOK
<1>8. CASE LoseConnection(a)
  <2>1. room' \in Rooms
    BY <1>8 DEF LoseConnection, TypeOK, Rooms
  <2>2. up' \in [Actors -> Seq(Requests)] /\ down' \in [Actors -> Seq(Answers)]
    BY <1>8 DEF LoseConnection, TypeOK
  <2>3. losses' \in 0..MaxLosses
    BY <1>8, LossesAssumption DEF LoseConnection, TypeOK
  <2> QED BY <1>8, <2>1, <2>2, <2>3 DEF LoseConnection, TypeOK
<1> QED BY <1>1, <1>2, <1>3, <1>4, <1>5, <1>6, <1>7, <1>8 DEF Call

LEMMA TypeReceive ==
    ASSUME TypeOK, NEW a \in Actors, Receive(a)
    PROVE  TypeOK'
<1> USE DEF Requests, Receives, Notify
<1>1. CASE HandleCreation(a)
  BY <1>1, SentType DEF HandleCreation, TypeOK
<1>2. CASE HandlePresence(a)
  BY <1>2 DEF HandlePresence, TypeOK
<1>3. CASE HandleError(a)
  BY <1>3 DEF HandleError, TypeOK
<1>4. CASE HandleConfigForm(a)
  BY <1>4, SentType DEF HandleConfigForm, TypeOK
<1>5. CASE HandleUnlocked(a)
  BY <1>5 DEF HandleUnlocked, TypeOK
<1> QED BY <1>1, <1>2, <1>3, <1>4, <1>5 DEF Receive

LEMMA TypeServe ==
    ASSUME TypeOK, NEW a \in Actors, Serve(a) \/ NoticeLoss(a)
    PROVE  TypeOK'
<1>1. CASE CreateRoom(a)
  <2>1. room' \in Rooms
    BY <1>1 DEF CreateRoom, Rooms
  <2> QED BY <1>1, <2>1, AnsweredType, ServedType DEF CreateRoom, TypeOK, Answers
<1>2. CASE AdmitToRoom(a)
  <2>1. room' \in Rooms
    BY <1>2 DEF AdmitToRoom, TypeOK, Rooms
  <2>2. down' \in [Actors -> Seq(Answers)]
    BY <1>2, ToldType DEF AdmitToRoom, TypeOK
  <2> QED BY <1>2, <2>1, <2>2, ServedType DEF AdmitToRoom
<1>3. CASE RefuseToJoin(a)
  BY <1>3, AnsweredType, ServedType DEF RefuseToJoin, TypeOK, Answers
<1>4. CASE SendConfigForm(a)
  BY <1>4, AnsweredType, ServedType DEF SendConfigForm, TypeOK, Answers
<1>5. CASE UnlockRoom(a)
  <2>1. room' \in Rooms
    BY <1>5 DEF UnlockRoom, TypeOK, Rooms
  <2> QED BY <1>5, <2>1, AnsweredType, ServedType DEF UnlockRoom, TypeOK, Answers
<1>6. CASE EndConnection(a)
  <2>1. room' \in Rooms /\ down' \in [Actors -> Seq(Answers)]
    BY <1>6, RemovedType DEF EndConnection, TypeOK
  <2> QED BY <1>6, <2>1, ServedType DEF EndConnection
<1>7. CASE NoticeLoss(a)
  <2>1. room' \in Rooms /\ down' \in [Actors -> Seq(Answers)]
    BY <1>7, RemovedType DEF NoticeLoss, TypeOK
  <2> QED BY <1>7, <2>1 DEF NoticeLoss, TypeOK
<1> QED BY <1>1, <1>2, <1>3, <1>4, <1>5, <1>6, <1>7 DEF Serve

\* The caller's thread, the lock and the stanzas keep their types in every step
\* of the callers, the receiving threads and the server.
THEOREM RoomTypeCorrect == Spec => []TypeOK
<1>1. Init => TypeOK
  BY TypeInit
<1>2. TypeOK /\ [Next]_vars => TypeOK'
  <2> SUFFICES ASSUME TypeOK, [Next]_vars PROVE TypeOK'
    OBVIOUS
  <2>1. CASE Next
    BY <2>1, TypeCall, TypeReceive, TypeServe DEF Next
  <2>2. CASE UNCHANGED vars
    BY <2>2 DEF vars, TypeOK
  <2> QED BY <2>1, <2>2
<1> QED BY <1>1, <1>2, PTL DEF Spec

-----------------------------------------------------------------------------
(* One actor's stanzas.                                                    *)

LEMMA AppendFacts ==
    ASSUME NEW S, NEW s \in Seq(S), NEW e \in S
    PROVE  /\ Append(s, e) \in Seq(S) /\ Len(Append(s, e)) = Len(s) + 1
           /\ \A k \in 1..Len(s) : Append(s, e)[k] = s[k]
           /\ Append(s, e)[Len(s) + 1] = e
OBVIOUS

LEMMA TailFacts ==
    ASSUME NEW S, NEW s \in Seq(S), s # <<>>
    PROVE  /\ Tail(s) \in Seq(S) /\ Len(Tail(s)) = Len(s) - 1 /\ Len(s) \in Nat \ {0}
           /\ \A k \in 1..(Len(s) - 1) : Tail(s)[k] = s[k + 1]
           /\ Head(s) = s[1]
OBVIOUS

\* What one reads of an actor when the room changes around it.
LEMMA RoomChanges ==
    ASSUME NEW a, NEW place, NEW c, NEW u, NEW d, NEW g, NEW h, ConnectionOK(a, place, c, u, d, g),
           Within(a, g) => Within(a, h),
           Configures(u, d) => h.state = "locked" /\ h.owner = a
    PROVE  ConnectionOK(a, place, c, u, d, h)
BY DEF ConnectionOK

LEMMA RequestTaken ==
    ASSUME NEW a, NEW place, NEW c, NEW u \in Seq(Requests), NEW d \in Seq(Answers), NEW g,
           u # <<>>, ConnectionOK(a, place, c, u, d, g)
    PROVE  /\ ConnectionOK(a, place, c, Tail(u), d, g)
           /\ \A k \in 1..Len(Tail(u)) : ~Asks(Tail(u), k)
           /\ Asks(u, 1) => ~Configures(Tail(u), d)
<1> DEFINE t == Tail(u)
<1>1. /\ Len(t) = Len(u) - 1 /\ Len(u) \in Nat \ {0}
      /\ \A k \in 1..Len(t) : t[k] = u[k + 1] /\ k + 1 \in 1..Len(u) /\ k + 1 # 1
  BY TailFacts
<1> HIDE DEF t
<1>2. \A k \in 1..Len(t) : ~Asks(t, k)
  BY <1>1 DEF ConnectionOK, OneRequest, Asks
<1>3. Configures(t, d) => Configures(u, d)
  BY <1>1 DEF Configures
<1>4. OneRequest(t, d)
  BY <1>1, <1>2 DEF ConnectionOK, OneRequest
<1>5. place \in AtRoom => \A k \in 1..Len(t) : t[k] # "leave"
  BY <1>1 DEF ConnectionOK
<1>6. ConnectionOK(a, place, c, t, d, g)
  BY <1>3, <1>4, <1>5 DEF ConnectionOK
<1>7. Asks(u, 1) => ~Configures(t, d)
  BY <1>1, <1>2 DEF ConnectionOK, OneRequest, Configures, Asks
<1> QED BY <1>2, <1>6, <1>7 DEF t

LEMMA AnswerTaken ==
    ASSUME NEW a, NEW place, NEW c, NEW u \in Seq(Requests), NEW d \in Seq(Answers), NEW g,
           d # <<>>, ConnectionOK(a, place, c, u, d, g)
    PROVE  /\ ConnectionOK(a, place, c, u, Tail(d), g)
           /\ Told(d, 1) => /\ \A k \in 1..Len(Tail(d)) : ~Told(Tail(d), k)
                            /\ \A k \in 1..Len(u) : ~Asks(u, k)
<1> DEFINE t == Tail(d)
<1>1. /\ Len(t) = Len(d) - 1 /\ Len(d) \in Nat \ {0}
      /\ \A k \in 1..Len(t) : t[k] = d[k + 1] /\ k + 1 \in 1..Len(d) /\ k + 1 # 1
  BY TailFacts
<1>2. d = <<>> => t = <<>>
  OBVIOUS
<1> HIDE DEF t
<1>3. OneRequest(u, t)
  <2>1. \A k \in 1..Len(t) : Told(t, k) => Told(d, k + 1)
    BY <1>1 DEF Told
  <2>2. \A j \in 1..Len(u) : \A k \in 1..Len(t) : ~(Asks(u, j) /\ Told(t, k))
    BY <1>1, <2>1 DEF ConnectionOK, OneRequest
  <2>3. \A j, k \in 1..Len(t) : Told(t, j) /\ Told(t, k) => j = k
    <3> SUFFICES ASSUME NEW j \in 1..Len(t), NEW k \in 1..Len(t), Told(t, j), Told(t, k)
                 PROVE  j = k
      OBVIOUS
    <3>1. j + 1 = k + 1
      BY <1>1, <2>1 DEF ConnectionOK, OneRequest
    <3> QED BY <3>1
  <2> QED BY <2>2, <2>3 DEF ConnectionOK, OneRequest
<1>4. Configures(u, t) => Configures(u, d)
  BY <1>1 DEF Configures, Told
<1>5. \A k \in 1..Len(t) : t[k] \in {"presence", "unlocked"} => Within(a, g)
  BY <1>1 DEF ConnectionOK
<1>6. ConnectionOK(a, place, c, u, t, g)
  BY <1>3, <1>4, <1>5 DEF ConnectionOK
<1>7. Told(d, 1) => /\ \A k \in 1..Len(t) : ~Told(t, k)
                    /\ \A k \in 1..Len(u) : ~Asks(u, k)
  BY <1>1 DEF ConnectionOK, OneRequest, Told
<1> QED BY <1>6, <1>7 DEF t

\* What arrives of a room the actor is in, or asks nothing of the room.
LEMMA AnswerSent ==
    ASSUME NEW a, NEW place \in AtRoom, NEW c, NEW u \in Seq(Requests), NEW d \in Seq(Answers), NEW g,
           NEW e \in Answers, ConnectionOK(a, place, c, u, d, g),
           e \in {"presence", "unlocked"} => Within(a, g),
           e \in {"created", "form"} => /\ g.state = "locked" /\ g.owner = a
                                        /\ \A k \in 1..Len(u) : ~Asks(u, k)
                                        /\ \A k \in 1..Len(d) : ~Told(d, k)
    PROVE  ConnectionOK(a, place, c, u, Append(d, e), g)
<1> DEFINE t == Append(d, e)
<1>1. /\ Len(t) = Len(d) + 1 /\ Len(d) \in Nat
      /\ \A k \in 1..Len(d) : t[k] = d[k]
      /\ t[Len(d) + 1] = e
  BY AppendFacts
<1> HIDE DEF t
<1>2. \A k \in 1..Len(t) : k \in 1..Len(d) \/ k = Len(d) + 1
  BY <1>1
<1>3. \A k \in 1..Len(t) : Told(t, k) => (k \in 1..Len(d) /\ Told(d, k)) \/ (k = Len(d) + 1 /\ e \in {"created", "form"})
  BY <1>1, <1>2 DEF Told
<1>4. OneRequest(u, t)
  <2>1. \A j \in 1..Len(u) : \A k \in 1..Len(t) : ~(Asks(u, j) /\ Told(t, k))
    BY <1>3 DEF ConnectionOK, OneRequest
  <2>2. \A j, k \in 1..Len(t) : Told(t, j) /\ Told(t, k) => j = k
    BY <1>3 DEF ConnectionOK, OneRequest
  <2> QED BY <2>1, <2>2 DEF ConnectionOK, OneRequest
<1>5. Configures(u, t) => g.state = "locked" /\ g.owner = a
  BY <1>3 DEF Configures, ConnectionOK
<1>6. \A k \in 1..Len(t) : t[k] \in {"presence", "unlocked"} => Within(a, g)
  BY <1>1, <1>2 DEF ConnectionOK
<1> QED BY <1>4, <1>5, <1>6 DEF ConnectionOK, t

\* A listening actor with no request open sends one.
LEMMA RequestSent ==
    ASSUME NEW a, NEW place \in AtRoom, NEW c, NEW u \in Seq(Requests), NEW d \in Seq(Answers), NEW g,
           NEW e \in {"getConfig", "submit"}, ConnectionOK(a, place, c, u, d, g),
           \A k \in 1..Len(u) : ~Asks(u, k), \A k \in 1..Len(d) : ~Told(d, k),
           g.state = "locked", g.owner = a
    PROVE  ConnectionOK(a, place, c, Append(u, e), d, g)
<1>1. u = <<>>
  <2>1. \A k \in 1..Len(u) : u[k] \in Requests
    BY ElementOfSeq
  <2>2. \A k \in 1..Len(u) : FALSE
    BY <2>1 DEF Asks, ConnectionOK, Requests
  <2> QED BY <2>2
<1> DEFINE t == Append(u, e)
<1>2. Len(t) = 1 /\ t[1] = e
  BY <1>1
<1> HIDE DEF t
<1>3. OneRequest(t, d)
  BY <1>2 DEF OneRequest
<1> QED BY <1>2, <1>3 DEF ConnectionOK, t

\* An actor that goes: its leave follows whatever it asked before.
LEMMA LeaveSent ==
    ASSUME NEW a, NEW place \in AtRoom, NEW c, NEW u \in Seq(Requests), NEW d \in Seq(Answers), NEW g,
           ConnectionOK(a, place, c, u, d, g), NEW after, after \notin AtRoom
    PROVE  ConnectionOK(a, after, "READY", Append(u, "leave"), <<>>, g)
<1> DEFINE t == Append(u, "leave")
<1>1. /\ Len(t) = Len(u) + 1 /\ Len(u) \in Nat
      /\ \A k \in 1..Len(u) : t[k] = u[k]
      /\ t[Len(u) + 1] = "leave"
  BY AppendFacts DEF Requests
<1> HIDE DEF t
<1>2. \A k \in 1..Len(t) : k \in 1..Len(u) \/ k = Len(u) + 1
  BY <1>1
<1>3. \A k \in 1..Len(t) : Asks(t, k) => k \in 1..Len(u) /\ Asks(u, k)
  BY <1>1, <1>2 DEF Asks
<1>4. OneRequest(t, <<>>)
  BY <1>3 DEF ConnectionOK, OneRequest
<1>5. Configures(t, <<>>) => Configures(u, d)
  BY <1>1, <1>2 DEF Configures
<1> QED BY <1>4, <1>5 DEF ConnectionOK, AtRoom, t

-----------------------------------------------------------------------------
(* The steps of the callers.                                               *)

LEMMA TransientsKept ==
    ASSUME TypeOK, RoomInvariant, NEW a \in Actors, Call(a) \/ TimeUp(a) \/ Leave(a) \/ LoseConnection(a)
    PROVE  \A p \in Churn : TransientOK(p)'
<1> SUFFICES ASSUME NEW p \in Churn PROVE TransientOK(p)'
  OBVIOUS
<1> DEFINE t == Transient(p)
<1> DEFINE s == Self(p)
<1>1. /\ TransientOK(p) /\ t \in Actors /\ s \in Actors /\ s # t
      /\ t[2] = "transient" /\ t[1] = p /\ s[2] = "actor" /\ s[1] = p
  BY ActorShape DEF RoomInvariant, Transient, Self
<1>2. a # s /\ a # t => a[1] # p
  BY ActorShape
<1>3. /\ pc \in [Actors -> {"idle", "waiting", "late", "joined", "active", "cut", "helping", "gone"}]
      /\ registered \in [Actors -> BOOLEAN]
  BY DEF TypeOK
<1>4. a # s /\ a # t => Transient(a[1]) # t
  BY <1>2 DEF Transient
<1>5. (a = s => Transient(a[1]) = t) /\ (a = t => Self(a[1]) = s)
  BY <1>1
<1> USE DEF TransientOK, AtRoom
<1> HIDE DEF t, s
<1>6. /\ pc[t] \notin {"active", "cut", "helping"}
      /\ registered[t] => pc[t] \in {"joined", "gone"}
      /\ pc[s] # "helping" => pc[t] \notin AtRoom
  BY <1>1 DEF t, s
<1>7. SUFFICES /\ pc'[t] \notin {"active", "cut", "helping"}
               /\ registered'[t] => pc'[t] \in {"joined", "gone"}
               /\ pc'[s] # "helping" => pc'[t] \notin AtRoom
  BY DEF t, s
<1>8. CASE JoinSessionChat(a)
  <2>1. a = s => pc[s] = "idle" \/ pc[t] = "gone"
    BY <1>1, <1>5, <1>8 DEF JoinSessionChat, Starts
  <2>2. a = t => pc[s] = "helping" /\ pc[t] = "idle"
    BY <1>1, <1>5, <1>6, <1>8 DEF JoinSessionChat, Starts
  <2> QED BY <1>1, <1>3, <1>6, <1>8, <2>1, <2>2 DEF JoinSessionChat
<1>9. CASE JoinReturns(a)
  BY <1>1, <1>3, <1>6, <1>9 DEF JoinReturns
<1>10. CASE TriggerActorJoin(a)
  BY <1>1, <1>3, <1>6, <1>10 DEF TriggerActorJoin
<1>11. CASE GiveUp(a)
  BY <1>1, <1>3, <1>6, <1>11 DEF GiveUp
<1>12. CASE Reconnect(a)
  <2>1. a # t
    BY <1>6, <1>12 DEF Reconnect
  <2>2. CASE a = s
    BY <1>1, <1>3, <1>5, <1>6, <1>12, <2>2 DEF Reconnect
  <2>3. CASE a # s
    <3>1. Transient(a[1]) # s
      BY <1>1 DEF Transient
    <3> QED BY <1>1, <1>3, <1>4, <1>6, <1>12, <2>1, <2>3, <3>1 DEF Reconnect
  <2> QED BY <2>2, <2>3
<1>13. CASE TimeUp(a)
  BY <1>1, <1>3, <1>6, <1>13 DEF TimeUp
<1>14. CASE Leave(a)
  BY <1>1, <1>3, <1>6, <1>14 DEF Leave
<1>15. CASE LoseConnection(a)
  BY <1>1, <1>3, <1>6, <1>15 DEF LoseConnection
<1> QED BY <1>8, <1>9, <1>10, <1>11, <1>12, <1>13, <1>14, <1>15 DEF Call

\* A step of one actor that leaves the room as it is.
LEMMA OneActorMoves ==
    ASSUME RoomInvariant, NEW a \in Actors, room' = room, \A p \in Churn : TransientOK(p)',
           \A b \in Actors : b # a => /\ pc'[b] = pc[b] /\ lock'[b] = lock[b]
                                      /\ up'[b] = up[b] /\ down'[b] = down[b],
           ConnectionOK(a, pc'[a], lock'[a], up'[a], down'[a], room)
    PROVE  RoomInvariant'
<1>1. \A b \in Actors : ConnectionOK(b, pc'[b], lock'[b], up'[b], down'[b], room)
  BY DEF RoomInvariant
<1> QED BY <1>1 DEF RoomInvariant, RoomOK, ConnectionOK, Within

LEMMA InvariantInit == Init => RoomInvariant
<1> SUFFICES ASSUME Init PROVE RoomInvariant
  OBVIOUS
<1>1. RoomOK(room)
  BY DEF Init, NoRoom, RoomOK
<1>2. \A a \in Actors : ConnectionOK(a, pc[a], lock[a], up[a], down[a], room)
  <2> SUFFICES ASSUME NEW a \in Actors PROVE ConnectionOK(a, pc[a], lock[a], up[a], down[a], room)
    OBVIOUS
  <2>1. pc[a] = "idle" /\ lock[a] = "READY" /\ up[a] = <<>> /\ down[a] = <<>>
    BY DEF Init
  <2> QED BY <2>1 DEF ConnectionOK, OneRequest, Configures, AtRoom
<1>3. \A p \in Churn : TransientOK(p)
  BY ActorShape DEF Init, TransientOK, AtRoom
<1> QED BY <1>1, <1>2, <1>3 DEF RoomInvariant

LEMMA InvariantCall ==
    ASSUME TypeOK, RoomInvariant, NEW a \in Actors, Call(a) \/ TimeUp(a) \/ Leave(a)
    PROVE  RoomInvariant'
<1>1. \A p \in Churn : TransientOK(p)'
  BY TransientsKept
<1>2. ConnectionOK(a, pc[a], lock[a], up[a], down[a], room)
  BY DEF RoomInvariant
<1>3. /\ up[a] \in Seq(Requests) /\ down[a] \in Seq(Answers)
      /\ pc \in [Actors -> {"idle", "waiting", "late", "joined", "active", "cut", "helping", "gone"}]
      /\ lock \in [Actors -> {"READY", "WAITING", "DONE"}]
      /\ up \in [Actors -> Seq(Requests)] /\ down \in [Actors -> Seq(Answers)]
  BY DEF TypeOK
<1>4. CASE JoinSessionChat(a)
  <2>1. up[a] = <<>> /\ down[a] = <<>>
    BY <1>2, <1>4 DEF JoinSessionChat, Starts, ConnectionOK, AtRoom
  <2>2. /\ pc'[a] = "waiting" /\ lock'[a] = "WAITING" /\ up'[a] = <<"join">> /\ down'[a] = <<>>
        /\ room' = room
    BY <1>3, <1>4, <2>1 DEF JoinSessionChat, Send
  <2>3. ConnectionOK(a, "waiting", "WAITING", <<"join">>, <<>>, room)
    <3>1. Len(<<"join">>) = 1 /\ <<"join">>[1] = "join"
      OBVIOUS
    <3> QED BY <3>1 DEF ConnectionOK, OneRequest, Configures, AtRoom
  <2>4. \A b \in Actors : b # a => /\ pc'[b] = pc[b] /\ lock'[b] = lock[b]
                                   /\ up'[b] = up[b] /\ down'[b] = down[b]
    BY <1>3, <1>4 DEF JoinSessionChat, Send
  <2> QED BY <1>1, <2>2, <2>3, <2>4, OneActorMoves
<1>5. CASE JoinReturns(a)
  <2>1. pc'[a] \in {"joined", "active"} /\ lock'[a] = "READY" /\ up' = up /\ down' = down /\ room' = room
    BY <1>3, <1>5 DEF JoinReturns
  <2>2. ConnectionOK(a, pc'[a], "READY", up[a], down[a], room)
    BY <1>2, <1>5, <2>1 DEF JoinReturns, ConnectionOK, AtRoom
  <2>3. \A b \in Actors : b # a => pc'[b] = pc[b] /\ lock'[b] = lock[b]
    BY <1>3, <1>5 DEF JoinReturns
  <2> QED BY <1>1, <2>1, <2>2, <2>3, OneActorMoves
<1>6. CASE pc[a] \in AtRoom /\ pc'[a] = "gone" /\ (TriggerActorJoin(a) \/ Leave(a))
  <2>1. /\ lock' = lock /\ lock[a] = "READY" /\ up'[a] = Append(up[a], "leave") /\ down'[a] = <<>> /\ room' = room
    BY <1>2, <1>3, <1>6 DEF TriggerActorJoin, Leave, Send, ConnectionOK
  <2>2. ConnectionOK(a, "gone", "READY", Append(up[a], "leave"), <<>>, room)
    BY <1>2, <1>3, <1>6, LeaveSent DEF AtRoom
  <2>3. \A b \in Actors : b # a => pc'[b] = pc[b] /\ up'[b] = up[b] /\ down'[b] = down[b]
    BY <1>3, <1>6 DEF TriggerActorJoin, Leave, Send
  <2> QED BY <1>1, <1>6, <2>1, <2>2, <2>3, OneActorMoves
<1>7. CASE TriggerActorJoin(a) /\ a[2] # "transient"
  <2>1. pc'[a] = "active" /\ lock' = lock /\ up' = up /\ down' = down /\ room' = room
    BY <1>3, <1>7 DEF TriggerActorJoin
  <2>2. ConnectionOK(a, "active", lock[a], up[a], down[a], room)
    BY <1>2, <1>7 DEF TriggerActorJoin, ConnectionOK, AtRoom
  <2>3. \A b \in Actors : b # a => pc'[b] = pc[b]
    BY <1>3, <1>7 DEF TriggerActorJoin
  <2> QED BY <1>1, <2>1, <2>2, <2>3, OneActorMoves
<1>8. CASE TimeUp(a)
  <2>1. pc'[a] = "late" /\ lock' = lock /\ up' = up /\ down' = down /\ room' = room
    BY <1>3, <1>8 DEF TimeUp
  <2>2. ConnectionOK(a, "late", lock[a], up[a], down[a], room)
    BY <1>2, <1>8 DEF TimeUp, ConnectionOK, AtRoom
  <2>3. \A b \in Actors : b # a => pc'[b] = pc[b]
    BY <1>3, <1>8 DEF TimeUp
  <2> QED BY <1>1, <2>1, <2>2, <2>3, OneActorMoves
<1>9. CASE GiveUp(a)
  <2>1. /\ pc'[a] \in {"cut", "gone"} /\ lock'[a] = "READY" /\ up'[a] = Append(up[a], "leave")
        /\ down'[a] = <<>> /\ room' = room /\ pc[a] \in AtRoom
    BY <1>3, <1>9 DEF GiveUp, Send, AtRoom
  <2>2. ConnectionOK(a, pc'[a], "READY", Append(up[a], "leave"), <<>>, room)
    BY <1>2, <1>3, <2>1, LeaveSent DEF AtRoom
  <2>3. \A b \in Actors : b # a => /\ pc'[b] = pc[b] /\ lock'[b] = lock[b]
                                   /\ up'[b] = up[b] /\ down'[b] = down[b]
    BY <1>3, <1>9 DEF GiveUp, Send
  <2> QED BY <1>1, <2>1, <2>2, <2>3, OneActorMoves
<1>10. CASE Reconnect(a)
  <2>1. /\ pc[a] \notin AtRoom /\ lock' = lock /\ up' = up /\ down' = down /\ room' = room
        /\ \A b \in Actors : pc'[b] \in {pc[b], "helping", "idle"}
    BY <1>3, <1>10 DEF Reconnect, AtRoom
  <2>2. \A b \in Actors : pc'[b] # pc[b] => pc[b] \notin AtRoom /\ pc'[b] \notin AtRoom
    <3> SUFFICES ASSUME NEW b \in Actors, pc'[b] # pc[b] PROVE pc[b] \notin AtRoom /\ pc'[b] \notin AtRoom
      OBVIOUS
    <3>1. b = a \/ b = Transient(a[1])
      BY <1>3, <1>10 DEF Reconnect
    <3>2. CASE b = a
      BY <2>1, <3>2 DEF AtRoom
    <3>3. CASE b = Transient(a[1]) /\ b # a
      <4>1. b[2] # "actor" /\ b[1] = a[1]
        BY <3>3 DEF Transient
      <4>2. a[1] \in Churn
        BY <4>1, ActorShape
      <4>3. a = Self(a[1])
        BY <3>3, ActorShape
      <4>4. pc[b] \notin AtRoom
        BY <1>10, <3>3, <4>2, <4>3 DEF Reconnect, RoomInvariant, TransientOK
      <4> QED BY <2>1, <4>4 DEF AtRoom
    <3> QED BY <3>1, <3>2, <3>3
  <2>3. \A b \in Actors : ConnectionOK(b, pc'[b], lock[b], up[b], down[b], room)
    <3> SUFFICES ASSUME NEW b \in Actors PROVE ConnectionOK(b, pc'[b], lock[b], up[b], down[b], room)
      OBVIOUS
    <3>1. ConnectionOK(b, pc[b], lock[b], up[b], down[b], room)
      BY DEF RoomInvariant
    <3>2. CASE pc'[b] # pc[b]
      BY <2>2, <3>1, <3>2 DEF ConnectionOK, AtRoom
    <3> QED BY <3>1, <3>2
  <2> QED BY <1>1, <2>1, <2>3 DEF RoomInvariant, RoomOK, ConnectionOK, Within
<1>11. TriggerActorJoin(a) => (pc[a] \in AtRoom /\ pc'[a] = "gone") \/ a[2] # "transient"
  BY <1>3 DEF TriggerActorJoin, AtRoom
<1>12. Leave(a) => pc[a] \in AtRoom /\ pc'[a] = "gone"
  BY <1>3 DEF Leave, AtRoom
<1> QED BY <1>4, <1>5, <1>6, <1>7, <1>8, <1>9, <1>10, <1>11, <1>12 DEF Call

LEMMA InvariantLoss ==
    ASSUME TypeOK, RoomInvariant, NEW a \in Actors, LoseConnection(a)
    PROVE  RoomInvariant'
<1>1. \A p \in Churn : TransientOK(p)'
  BY TransientsKept
<1>2. \A b \in Actors : ConnectionOK(b, pc[b], lock[b], up[b], down[b], room)
  BY DEF RoomInvariant
<1>3. Within(a, room) /\ lock[a] = "READY"
  BY <1>2 DEF LoseConnection, ConnectionOK, TypeOK
<1>4. /\ room'.state = room.state /\ room'.occupants = room.occupants /\ room'.owner = room.owner
      /\ room'.lost = room.lost \cup {a}
  BY DEF LoseConnection, TypeOK, Rooms
<1>5. RoomOK(room')
  BY <1>3, <1>4 DEF RoomInvariant, RoomOK, Within
<1>6. \A b \in Actors : ConnectionOK(b, pc'[b], lock'[b], up'[b], down'[b], room')
  <2> SUFFICES ASSUME NEW b \in Actors PROVE ConnectionOK(b, pc'[b], lock'[b], up'[b], down'[b], room')
    OBVIOUS
  <2>1. CASE b = a
    <3>1. pc'[a] = "cut" /\ lock'[a] = "READY" /\ up'[a] = <<>> /\ down'[a] = <<>>
      BY <1>3 DEF LoseConnection, TypeOK
    <3> QED BY <2>1, <3>1 DEF ConnectionOK, OneRequest, Configures, AtRoom
  <2>2. CASE b # a
    <3>1. pc'[b] = pc[b] /\ lock'[b] = lock[b] /\ up'[b] = up[b] /\ down'[b] = down[b]
      BY <2>2 DEF LoseConnection, TypeOK
    <3>2. Within(b, room) => Within(b, room')
      BY <1>4, <2>2 DEF Within
    <3>3. Configures(up[b], down[b]) => room'.state = "locked" /\ room'.owner = b
      BY <1>2, <1>4 DEF ConnectionOK
    <3> QED BY <1>2, <3>1, <3>2, <3>3, RoomChanges
  <2> QED BY <2>1, <2>2
<1> QED BY <1>1, <1>5, <1>6 DEF RoomInvariant

-----------------------------------------------------------------------------
(* The steps of the receiving threads.                                     *)

LEMMA InvariantReceive ==
    ASSUME TypeOK, RoomInvariant, NEW a \in Actors, Receive(a)
    PROVE  RoomInvariant'
<1> DEFINE u == up[a]
<1> DEFINE d == down[a]
<1>1. PICK e \in Answers : Receives(a, e)
  BY DEF Receive, HandleCreation, HandlePresence, HandleError, HandleConfigForm, HandleUnlocked, Answers
<1>2. /\ ConnectionOK(a, pc[a], lock[a], u, d, room) /\ pc[a] \in AtRoom
      /\ u \in Seq(Requests) /\ d \in Seq(Answers) /\ d # <<>> /\ d[1] = e /\ 1 \in 1..Len(d)
  BY <1>1, TailFacts DEF RoomInvariant, TypeOK, Receives, Listening
<1>3. /\ ConnectionOK(a, pc[a], lock[a], u, Tail(d), room)
      /\ Told(d, 1) => /\ \A k \in 1..Len(Tail(d)) : ~Told(Tail(d), k)
                       /\ \A k \in 1..Len(u) : ~Asks(u, k)
  BY <1>2, AnswerTaken
<1>4. Tail(d) \in Seq(Answers)
  BY <1>2, TailFacts
<1>5. /\ pc' = pc /\ registered' = registered /\ room' = room
      /\ down'[a] = Tail(d) /\ \A b \in Actors : b # a => down'[b] = down[b]
  BY <1>1 DEF Receives, TypeOK
<1>6. \A p \in Churn : TransientOK(p)'
  BY <1>5 DEF RoomInvariant, TransientOK
<1>7. /\ lock' = lock \/ Notify(a)
      /\ up' = up \/ \E r \in {"getConfig", "submit"} : Send(a, r)
  BY DEF Receive, HandleCreation, HandlePresence, HandleError, HandleConfigForm, HandleUnlocked
<1>8. \A b \in Actors : b # a => lock'[b] = lock[b] /\ up'[b] = up[b]
  BY <1>7 DEF Notify, Send, TypeOK
<1>9. SUFFICES ConnectionOK(a, pc[a], lock'[a], up'[a], Tail(d), room)
  BY <1>5, <1>6, <1>8, OneActorMoves
<1>10. CASE lock' = lock /\ up' = up
  BY <1>3, <1>10
<1>11. CASE e \in {"created", "form"} /\ lock' = lock /\ \E r \in {"getConfig", "submit"} : Send(a, r)
  <2>1. PICK r \in {"getConfig", "submit"} : Send(a, r)
    BY <1>11
  <2>2. up'[a] = Append(u, r)
    BY <2>1 DEF Send, TypeOK
  <2>3. room.state = "locked" /\ room.owner = a /\ Told(d, 1)
    BY <1>2, <1>11 DEF ConnectionOK, Configures, Told
  <2>4. ConnectionOK(a, pc[a], lock[a], Append(u, r), Tail(d), room)
    <3> HIDE DEF u, d
    <3> QED BY <1>2, <1>3, <1>4, <2>3, RequestSent
  <2> QED BY <1>11, <2>2, <2>4
<1>12. CASE e \in {"presence", "unlocked"} /\ Notify(a) /\ up' = up
  <2>1. Within(a, room)
    BY <1>2, <1>12 DEF ConnectionOK
  <2>2. lock'[a] = IF lock[a] = "WAITING" THEN "DONE" ELSE lock[a]
    BY <1>12 DEF Notify, TypeOK
  <2> QED BY <1>3, <1>12, <2>1, <2>2 DEF ConnectionOK
<1>13. CASE HandleCreation(a)
  <2>1. e = "created"
    BY <1>1, <1>13 DEF HandleCreation, Receives
  <2> QED BY <1>10, <1>11, <1>13, <2>1 DEF HandleCreation
<1>14. CASE HandlePresence(a)
  <2>1. e = "presence"
    BY <1>1, <1>14 DEF HandlePresence, Receives
  <2> QED BY <1>10, <1>12, <1>14, <2>1 DEF HandlePresence
<1>15. CASE HandleError(a)
  BY <1>10, <1>15 DEF HandleError
<1>16. CASE HandleConfigForm(a)
  <2>1. e = "form"
    BY <1>1, <1>16 DEF HandleConfigForm, Receives
  <2> QED BY <1>10, <1>11, <1>16, <2>1 DEF HandleConfigForm
<1>17. CASE HandleUnlocked(a)
  <2>1. e = "unlocked"
    BY <1>1, <1>17 DEF HandleUnlocked, Receives
  <2> QED BY <1>12, <1>17, <2>1 DEF HandleUnlocked
<1> QED BY <1>13, <1>14, <1>15, <1>16, <1>17 DEF Receive

-----------------------------------------------------------------------------
(* The steps of the server.                                                *)

LEMMA AnswerGiven ==
    ASSUME TypeOK, NEW a \in Actors, NEW e \in Answers, Answer(a, e), NEW c, NEW u \in Seq(Requests), NEW g,
           ConnectionOK(a, pc[a], c, u, down[a], g),
           e \in {"presence", "unlocked"} => Within(a, g),
           e \in {"created", "form"} => /\ g.state = "locked" /\ g.owner = a
                                        /\ \A k \in 1..Len(u) : ~Asks(u, k)
                                        /\ ~Configures(u, down[a])
    PROVE  ConnectionOK(a, pc[a], c, u, down'[a], g)
<1>1. CASE Listening(a)
  <2>1. down'[a] = Append(down[a], e) /\ down[a] \in Seq(Answers) /\ pc[a] \in AtRoom
    BY <1>1 DEF Answer, TypeOK, Listening
  <2>2. e \in {"created", "form"} => \A k \in 1..Len(down[a]) : ~Told(down[a], k)
    BY DEF Configures
  <2> QED BY <2>1, <2>2, AnswerSent
<1>2. CASE ~Listening(a)
  BY <1>2 DEF Answer
<1> QED BY <1>1, <1>2

LEMMA PresenceTold ==
    ASSUME TypeOK, NEW actors, Tell(actors), NEW b \in Actors, NEW c, NEW u \in Seq(Requests), NEW g,
           ConnectionOK(b, pc[b], c, u, down[b], g), b \in actors => Within(b, g)
    PROVE  ConnectionOK(b, pc[b], c, u, down'[b], g)
<1>1. down'[b] = down[b] \/ (down'[b] = Append(down[b], "presence") /\ b \in actors /\ Listening(b))
  BY DEF Tell
<1>2. CASE down'[b] = Append(down[b], "presence") /\ b \in actors /\ Listening(b)
  <2>1. "presence" \in Answers /\ down[b] \in Seq(Answers) /\ pc[b] \in AtRoom
    BY <1>2 DEF Answers, TypeOK, Listening
  <2> QED BY <1>2, <2>1, AnswerSent
<1> QED BY <1>1, <1>2

\* The room without a, when nobody still configures it and a hears nothing.
LEMMA RoomRemoved ==
    ASSUME TypeOK, RoomInvariant, NEW a \in Actors, Remove(a), a \in room.occupants,
           NEW b \in Actors, NEW u \in Seq(Requests), ConnectionOK(b, pc[b], lock[b], u, down[b], room),
           b = a => a \in room.lost \/ (pc[a] \notin AtRoom /\ \A k \in 1..Len(u) : ~Asks(u, k))
    PROVE  RoomOK(room') /\ ConnectionOK(b, pc[b], lock[b], u, down'[b], room')
<1>1. RoomOK(room) /\ room.state \in {"none", "locked", "open"}
  BY DEF RoomInvariant, TypeOK, Rooms
<1>2. room.occupants # {a} => room.state = "open"
  BY <1>1 DEF RoomOK
<1>3. /\ room.occupants = {a} => room' = NoRoom
      /\ room.occupants # {a} => /\ room'.state = "open" /\ room'.owner = room.owner
                                 /\ room'.occupants = room.occupants \ {a}
                                 /\ room'.lost = room.lost \ {a}
  BY <1>2 DEF Remove, TypeOK, Rooms
<1>4. RoomOK(room')
  BY <1>1, <1>3 DEF RoomOK, NoRoom
<1>5. b # a => (Within(b, room) => Within(b, room'))
  BY <1>3 DEF Within
<1>6. Configures(u, down[b]) => b = a /\ room.lost = {}
  BY <1>1 DEF ConnectionOK, RoomOK
<1>7. ConnectionOK(b, pc[b], lock[b], u, down[b], room')
  <2>1. CASE b # a
    BY <1>5, <1>6, <2>1, RoomChanges
  <2>2. CASE b = a /\ pc[a] \notin AtRoom /\ \A k \in 1..Len(u) : ~Asks(u, k)
    <3>1. down[a] = <<>> /\ lock[a] \notin {"WAITING", "DONE"}
      BY <2>2 DEF ConnectionOK, AtRoom
    <3>2. ~Configures(u, down[a])
      BY <2>2, <3>1 DEF Configures, Asks
    <3> QED BY <2>2, <3>1, <3>2 DEF ConnectionOK, AtRoom
  <2>3. CASE b = a /\ a \in room.lost
    <3>1. ~Within(a, room) /\ ~Configures(u, down[a])
      BY <1>6, <2>3 DEF Within
    <3> QED BY <2>3, <3>1, RoomChanges
  <2> QED BY <2>1, <2>2, <2>3
<1>8. b \in Reached \ {a} => Within(b, room')
  BY <1>3 DEF Reached, Within
<1>9. ConnectionOK(b, pc[b], lock[b], u, down'[b], room')
  <2>1. Tell(Reached \ {a})
    BY DEF Remove
  <2> HIDE DEF Reached
  <2> QED BY <1>7, <1>8, <2>1, PresenceTold
<1> QED BY <1>4, <1>9

LEMMA InvariantServe ==
    ASSUME TypeOK, RoomInvariant, NEW a \in Actors, Serve(a)
    PROVE  RoomInvariant'
<1> DEFINE t == Tail(up[a])
<1>1. PICK r \in Requests : Serves(a, r)
  BY DEF Serve, CreateRoom, AdmitToRoom, RefuseToJoin, SendConfigForm, UnlockRoom, EndConnection, Requests
<1>2. /\ up[a] # <<>> /\ up[a] \in Seq(Requests) /\ up[a][1] = r /\ 1 \in 1..Len(up[a])
      /\ up' = [up EXCEPT ![a] = t] /\ t \in Seq(Requests)
      /\ pc' = pc /\ lock' = lock /\ registered' = registered
  BY <1>1, TailFacts DEF Serves, TypeOK
<1>3. \A b \in Actors : /\ ConnectionOK(b, pc[b], lock[b], up[b], down[b], room)
                        /\ up[b] \in Seq(Requests) /\ down[b] \in Seq(Answers)
  BY DEF RoomInvariant, TypeOK
<1>4. /\ ConnectionOK(a, pc[a], lock[a], t, down[a], room)
      /\ \A k \in 1..Len(t) : ~Asks(t, k)
      /\ Asks(up[a], 1) => ~Configures(t, down[a])
  BY <1>2, <1>3, RequestTaken
<1> HIDE DEF t
<1>5. up'[a] = t /\ \A b \in Actors : b # a => up'[b] = up[b]
  BY <1>2 DEF TypeOK
<1>6. /\ \A b \in Actors : ConnectionOK(b, pc[b], lock[b], up'[b], down[b], room)
      /\ \A b \in Actors : up'[b] \in Seq(Requests)
  BY <1>2, <1>3, <1>4, <1>5
<1>7. RoomOK(room) /\ room.state \in {"none", "locked", "open"}
  BY DEF RoomInvariant, TypeOK, Rooms
<1>8. \A p \in Churn : TransientOK(p)'
  BY <1>2 DEF RoomInvariant, TransientOK
<1>9. SUFFICES /\ RoomOK(room')
               /\ \A b \in Actors : ConnectionOK(b, pc[b], lock[b], up'[b], down'[b], room')
  BY <1>2, <1>8 DEF RoomInvariant
<1>10. \A b \in Actors : \A e \in Answers : b # a /\ Answer(a, e) => down'[b] = down[b]
  BY DEF Answer, TypeOK
<1>11. ASSUME NEW e \in Answers, Answer(a, e), RoomOK(room'),
              \A b \in Actors : /\ Within(b, room) => Within(b, room')
                                /\ Configures(up'[b], down[b]) => room'.state = "locked" /\ room'.owner = b,
              e \in {"presence", "unlocked"} => Within(a, room'),
              e \in {"created", "form"} => /\ room'.state = "locked" /\ room'.owner = a
                                           /\ ~Configures(t, down[a])
       PROVE  /\ RoomOK(room')
              /\ \A b \in Actors : ConnectionOK(b, pc[b], lock[b], up'[b], down'[b], room')
  <2>1. \A b \in Actors : ConnectionOK(b, pc[b], lock[b], up'[b], down[b], room')
    BY <1>6, <1>11, RoomChanges
  <2>2. ConnectionOK(a, pc[a], lock[a], up'[a], down'[a], room')
    BY <1>4, <1>5, <1>6, <1>11, <2>1, AnswerGiven
  <2>3. \A b \in Actors : b # a => ConnectionOK(b, pc[b], lock[b], up'[b], down'[b], room')
    BY <1>10, <1>11, <2>1
  <2> QED BY <1>11, <2>2, <2>3
<1>12. CASE CreateRoom(a)
  <2>1. /\ room.state = "none" /\ room'.state = "locked" /\ room'.owner = a
        /\ room'.occupants = {a} /\ room'.lost = {}
    BY <1>12 DEF CreateRoom
  <2>2. RoomOK(room') /\ \A b \in Actors : ~Within(b, room)
    BY <2>1 DEF RoomOK, Within
  <2>3. \A b \in Actors : ~Configures(up'[b], down[b])
    BY <1>6, <2>1 DEF ConnectionOK
  <2>4. Answer(a, "created") /\ "created" \in Answers
    BY <1>12 DEF CreateRoom, Answers
  <2> QED BY <1>5, <1>11, <2>1, <2>2, <2>3, <2>4
<1>13. CASE AdmitToRoom(a)
  <2>1. /\ room.state = "open" /\ a \notin room.occupants
        /\ room'.state = "open" /\ room'.owner = room.owner
        /\ room'.occupants = room.occupants \cup {a} /\ room'.lost = room.lost
        /\ Tell(Reached \cup {a})
    BY <1>13 DEF AdmitToRoom, TypeOK, Rooms
  <2>2. RoomOK(room') /\ \A b \in Reached \cup {a} : Within(b, room')
    BY <1>7, <2>1 DEF RoomOK, Within, Reached
  <2>3. \A b \in Actors : ~Configures(up'[b], down[b])
    BY <1>6, <2>1 DEF ConnectionOK
  <2>4. \A b \in Actors : ConnectionOK(b, pc[b], lock[b], up'[b], down[b], room')
    <3>1. \A b \in Actors : Within(b, room) => Within(b, room')
      BY <2>1 DEF Within
    <3> QED BY <1>6, <2>3, <3>1, RoomChanges
  <2>5. \A b \in Actors : ConnectionOK(b, pc[b], lock[b], up'[b], down'[b], room')
    BY <1>6, <2>1, <2>2, <2>4, PresenceTold
  <2> QED BY <2>2, <2>5
<1>14. CASE RefuseToJoin(a)
  <2>1. Answer(a, "error") /\ "error" \in Answers /\ room' = room
    BY <1>14 DEF RefuseToJoin, Answers
  <2>2. \A b \in Actors : Configures(up'[b], down[b]) => room.state = "locked" /\ room.owner = b
    BY <1>6 DEF ConnectionOK
  <2> QED BY <1>7, <1>11, <2>1, <2>2
<1>15. CASE SendConfigForm(a)
  <2>1. Answer(a, "form") /\ "form" \in Answers /\ room' = room /\ up[a][1] = "getConfig"
    BY <1>2, <1>15 DEF SendConfigForm, Answers, Serves
  <2>2. Configures(up[a], down[a]) /\ Asks(up[a], 1)
    BY <1>2, <2>1 DEF Configures, Asks
  <2>3. \A b \in Actors : Configures(up'[b], down[b]) => room.state = "locked" /\ room.owner = b
    BY <1>6 DEF ConnectionOK
  <2>4. room.state = "locked" /\ room.owner = a
    BY <1>3, <2>2 DEF ConnectionOK
  <2> QED BY <1>4, <1>7, <1>11, <2>1, <2>2, <2>3, <2>4
<1>16. CASE UnlockRoom(a)
  <2>1. Answer(a, "unlocked") /\ "unlocked" \in Answers /\ up[a][1] = "submit"
    BY <1>2, <1>16 DEF UnlockRoom, Answers, Serves
  <2>2. /\ room'.state = "open" /\ room'.owner = room.owner
        /\ room'.occupants = room.occupants /\ room'.lost = room.lost
    BY <1>16 DEF UnlockRoom, TypeOK, Rooms
  <2>3. Configures(up[a], down[a]) /\ Asks(up[a], 1)
    BY <1>2, <2>1 DEF Configures, Asks
  <2>4. room.state = "locked" /\ room.owner = a /\ room.occupants = {a} /\ room.lost = {}
    BY <1>3, <1>7, <2>3 DEF ConnectionOK, RoomOK
  <2>5. RoomOK(room') /\ Within(a, room') /\ \A b \in Actors : ~Within(b, room)
    BY <2>2, <2>4 DEF RoomOK, Within
  <2>6. \A b \in Actors : ~Configures(up'[b], down[b])
    BY <1>4, <1>5, <1>6, <2>3, <2>4 DEF ConnectionOK
  <2> QED BY <1>11, <2>1, <2>5, <2>6
<1>17. CASE EndConnection(a)
  <2>1. pc[a] \notin AtRoom
    <3>1. up[a][1] = "leave"
      BY <1>2, <1>17 DEF EndConnection, Serves
    <3> QED BY <1>2, <1>3, <3>1 DEF ConnectionOK
  <2>2. CASE a \in Reached
    <3>1. Remove(a) /\ a \in room.occupants
      BY <1>17, <2>2 DEF EndConnection, Reached
    <3> QED BY <1>4, <1>5, <1>6, <2>1, <3>1, RoomRemoved
  <2>3. CASE a \notin Reached
    BY <1>6, <1>7, <1>17, <2>3 DEF EndConnection
  <2> QED BY <2>2, <2>3
<1> QED BY <1>12, <1>13, <1>14, <1>15, <1>16, <1>17 DEF Serve

LEMMA InvariantNotice ==
    ASSUME TypeOK, RoomInvariant, NEW a \in Actors, NoticeLoss(a)
    PROVE  RoomInvariant'
<1>1. /\ pc' = pc /\ lock' = lock /\ registered' = registered /\ up' = up
      /\ Remove(a) /\ a \in room.lost /\ a \in room.occupants
  BY DEF NoticeLoss, RoomInvariant, RoomOK
<1>2. \A b \in Actors : /\ ConnectionOK(b, pc[b], lock[b], up[b], down[b], room)
                        /\ up[b] \in Seq(Requests)
  BY DEF RoomInvariant, TypeOK
<1>3. /\ RoomOK(room')
      /\ \A b \in Actors : ConnectionOK(b, pc[b], lock[b], up[b], down'[b], room')
  BY <1>1, <1>2, RoomRemoved
<1>4. \A p \in Churn : TransientOK(p)'
  BY <1>1 DEF RoomInvariant, TransientOK
<1> QED BY <1>1, <1>3, <1>4 DEF RoomInvariant

-----------------------------------------------------------------------------
(* The theorems.                                                           *)

\* Every stanza that ends a wait speaks of a room its actor is in, through
\* every refusal, timeout, loss, leave and renewed attempt of anybody.
THEOREM RoomInvariantHolds == Spec => []RoomInvariant
<1>1. Init => RoomInvariant
  BY InvariantInit
<1>2. TypeOK /\ RoomInvariant /\ [Next]_vars => RoomInvariant'
  <2> SUFFICES ASSUME TypeOK, RoomInvariant, [Next]_vars PROVE RoomInvariant'
    OBVIOUS
  <2>1. CASE Next
    BY <2>1, InvariantCall, InvariantLoss, InvariantReceive, InvariantServe, InvariantNotice DEF Next
  <2>2. CASE UNCHANGED vars
    BY <2>2 DEF vars, RoomInvariant, RoomOK, ConnectionOK, Within, TransientOK
  <2> QED BY <2>1, <2>2
<1> QED BY <1>1, <1>2, RoomTypeCorrect, PTL DEF Spec

\* An actor whose join returned true is in the server's room, and the room is
\* open (joinSessionChat, JXXMPPJunction.mm 98-102).
THEOREM JoinedIsOccupantHolds == Spec => []JoinedIsOccupant
<1>1. RoomInvariant => JoinedIsOccupant
  BY DEF RoomInvariant, ConnectionOK, Within, Reached, JoinedIsOccupant
<1> QED BY <1>1, RoomInvariantHolds, PTL

-----------------------------------------------------------------------------
(* Who creates.                                                            *)

\* Who takes itself for the creator owns the room and is in it, while it is at
\* the room at all.
OwnerPresent ==
    \A a \in Actors : pc[a] \in AtRoom /\ creator[a] => room.owner = a /\ a \in Reached

\* The first join of an actor: it owns no room before, and learns that it owns
\* one before it can learn anything else.
Created(d) == \E k \in 1..Len(d) : d[k] = "created"

FirstJoin(a) ==
    /\ pc[a] = "idle" => up[a] = <<>> /\ room.owner # a
    /\ pc[a] \in {"joined", "active", "cut", "helping"} => registered[a]
    /\ pc[a] \in {"waiting", "late"} /\ ~registered[a] /\ room.owner = a =>
          creator[a] \/ Created(down[a])
    /\ pc[a] = "joined" /\ room.owner = a => creator[a]

CreatorInvariant == OwnerPresent /\ \A p \in People : FirstJoin(Self(p))

LEMMA CreatedKept ==
    ASSUME NEW d \in Seq(Answers)
    PROVE  /\ Created(d) => \A e \in Answers : Created(Append(d, e))
           /\ Created(Append(d, "created"))
           /\ d # <<>> /\ Head(d) # "created" /\ Created(d) => Created(Tail(d))
<1>1. ASSUME Created(d), NEW e \in Answers PROVE Created(Append(d, e))
  <2>1. PICK k \in 1..Len(d) : d[k] = "created"
    BY <1>1 DEF Created
  <2>2. k \in 1..Len(Append(d, e)) /\ Append(d, e)[k] = "created"
    BY <2>1, AppendFacts
  <2> QED BY <2>2 DEF Created
<1>2. Created(Append(d, "created"))
  <2>1. /\ Append(d, "created")[Len(d) + 1] = "created"
        /\ Len(d) + 1 \in 1..Len(Append(d, "created"))
    BY AppendFacts DEF Answers
  <2> QED BY <2>1 DEF Created
<1>3. ASSUME d # <<>>, Head(d) # "created", Created(d) PROVE Created(Tail(d))
  <2>1. PICK k \in 1..Len(d) : d[k] = "created"
    BY <1>3 DEF Created
  <2>2. k # 1 /\ k - 1 \in 1..(Len(d) - 1)
    BY <1>3, <2>1, TailFacts
  <2>3. k - 1 \in 1..Len(Tail(d)) /\ Tail(d)[k - 1] = "created"
    BY <1>3, <2>1, <2>2, TailFacts
  <2> QED BY <2>3 DEF Created
<1> QED BY <1>1, <1>2, <1>3

LEMMA SelfApart ==
    /\ \A p \in People : Self(p) \in Actors /\ Self(p) # <<>> /\ Self(p)[2] = "actor"
    /\ \A p, q : Self(p) # Transient(q)
BY PeopleAssumption DEF Actors, Self, Transient

\* A step of a's caller: the others stand where they stood.
LEMMA CreatorCall ==
    ASSUME TypeOK, RoomInvariant, CreatorInvariant, NEW a \in Actors,
           Call(a) \/ TimeUp(a) \/ Leave(a) \/ LoseConnection(a)
    PROVE  CreatorInvariant'
<1> USE DEF CreatorInvariant, TypeOK
<1>1. /\ room'.owner = room.owner /\ room'.occupants = room.occupants
      /\ room'.lost = room.lost \/ (room'.lost = room.lost \cup {a} /\ pc'[a] = "cut")
  BY DEF Call, TimeUp, Leave, LoseConnection, JoinSessionChat, JoinReturns, TriggerActorJoin,
         GiveUp, Reconnect, Rooms
<1>2. \A b \in Actors : b # a =>
          /\ up'[b] = up[b] /\ down'[b] = down[b] /\ creator'[b] = creator[b]
          /\ \/ b = Transient(a[1]) /\ pc'[b] = "idle"
             \/ pc'[b] = pc[b] /\ registered'[b] = registered[b]
  <2> SUFFICES ASSUME NEW b \in Actors, b # a
               PROVE  /\ up'[b] = up[b] /\ down'[b] = down[b] /\ creator'[b] = creator[b]
                      /\ \/ b = Transient(a[1]) /\ pc'[b] = "idle"
                         \/ pc'[b] = pc[b] /\ registered'[b] = registered[b]
    OBVIOUS
  <2>1. CASE Reconnect(a)
    BY <2>1 DEF Reconnect
  <2>2. CASE JoinSessionChat(a) \/ JoinReturns(a) \/ TriggerActorJoin(a)
    BY <2>2 DEF JoinSessionChat, JoinReturns, TriggerActorJoin, Send
  <2>3. CASE GiveUp(a) \/ TimeUp(a) \/ Leave(a) \/ LoseConnection(a)
    BY <2>3 DEF GiveUp, TimeUp, Leave, LoseConnection, Send
  <2> QED BY <2>1, <2>2, <2>3 DEF Call
<1>3. pc'[a] \in AtRoom => \/ pc[a] \in AtRoom /\ creator'[a] = creator[a]
                          \/ ~creator'[a]
  BY ActorShape DEF Call, TimeUp, Leave, LoseConnection, JoinSessionChat, JoinReturns,
         TriggerActorJoin, GiveUp, Reconnect, AtRoom
<1>4. OwnerPresent'
  <2> SUFFICES ASSUME NEW b \in Actors, pc'[b] \in AtRoom, creator'[b]
               PROVE  room'.owner = b /\ b \in room'.occupants \ room'.lost
    BY DEF OwnerPresent, Reached
  <2>1. pc[b] \in AtRoom /\ creator[b]
    BY <1>2, <1>3 DEF AtRoom
  <2>2. room.owner = b /\ b \in room.occupants \ room.lost
    BY <2>1 DEF OwnerPresent, Reached
  <2>3. b = a => pc'[a] # "cut"
    BY DEF AtRoom
  <2> QED BY <1>1, <2>2, <2>3
<1>5. ASSUME NEW p \in People, Self(p) # a PROVE FirstJoin(Self(p))'
  BY <1>1, <1>2, <1>5, SelfApart DEF FirstJoin
<1>6. ASSUME NEW p \in People, Self(p) = a PROVE FirstJoin(a)'
  <2>1. FirstJoin(a) /\ a[2] = "actor"
    BY <1>6, SelfApart
  <2>2. CASE JoinSessionChat(a)
    BY <1>1, <2>1, <2>2 DEF JoinSessionChat, Starts, FirstJoin
  <2>3. CASE JoinReturns(a)
    <3>1. pc[a] = "waiting" /\ lock[a] = "DONE" /\ down[a] \in Seq(Answers)
      BY <2>3 DEF JoinReturns
    <3>2. ~Created(down[a])
      <4>1. ConnectionOK(a, pc[a], lock[a], up[a], down[a], room)
        BY DEF RoomInvariant
      <4>2. room.state = "open"
        BY <3>1, <4>1 DEF ConnectionOK, Within
      <4>3. Created(down[a]) => Configures(up[a], down[a])
        BY DEF Created, Configures, Told
      <4> QED BY <4>1, <4>2, <4>3 DEF ConnectionOK
    <3>3. ~registered[a] /\ room.owner = a => creator[a]
      BY <2>1, <3>1, <3>2 DEF FirstJoin
    <3>4. /\ registered'[a] /\ creator'[a] = creator[a]
          /\ pc'[a] = IF registered[a] THEN "active" ELSE "joined"
      BY <2>3 DEF JoinReturns
    <3> QED BY <1>1, <3>3, <3>4 DEF FirstJoin
  <2>4. CASE TriggerActorJoin(a)
    BY <1>1, <2>1, <2>4 DEF TriggerActorJoin, FirstJoin
  <2>5. CASE TimeUp(a)
    BY <1>1, <2>1, <2>5 DEF TimeUp, FirstJoin
  <2>6. CASE GiveUp(a)
    BY <1>1, <2>1, <2>6 DEF GiveUp, FirstJoin
  <2>7. CASE Reconnect(a)
    <3>1. pc[a] = "cut" /\ registered[a] /\ a # Transient(a[1])
      BY <2>1, <2>7, SelfApart DEF Reconnect, FirstJoin, Transient
    <3>2. pc'[a] = "helping" /\ registered'[a]
      BY <2>7, <3>1 DEF Reconnect
    <3> QED BY <3>2 DEF FirstJoin
  <2>8. CASE Leave(a)
    BY <2>8 DEF Leave, FirstJoin
  <2>9. CASE LoseConnection(a)
    BY <2>1, <2>9 DEF LoseConnection, FirstJoin
  <2> QED BY <2>2, <2>3, <2>4, <2>5, <2>6, <2>7, <2>8, <2>9 DEF Call
<1> QED BY <1>4, <1>5, <1>6

\* A stanza that comes in: the room's creation makes a creator of its owner.
LEMMA CreatorReceive ==
    ASSUME TypeOK, RoomInvariant, CreatorInvariant, NEW a \in Actors, Receive(a)
    PROVE  CreatorInvariant'
<1> USE DEF CreatorInvariant, TypeOK
<1>1. /\ UNCHANGED <<pc, registered, room>> /\ Listening(a) /\ down[a] # <<>>
      /\ down' = [down EXCEPT ![a] = Tail(down[a])]
      /\ \A b \in Actors : b # a => up'[b] = up[b] /\ creator'[b] = creator[b]
      /\ \/ Head(down[a]) = "created" /\ creator'[a]
         \/ Head(down[a]) # "created" /\ creator'[a] = creator[a]
  BY DEF Receive, Receives, HandleCreation, HandlePresence, HandleError, HandleConfigForm,
         HandleUnlocked, Send
<1>2. Head(down[a]) = "created" => room.owner = a /\ a \in Reached
  <2>1. ConnectionOK(a, pc[a], lock[a], up[a], down[a], room) /\ RoomOK(room)
    BY DEF RoomInvariant
  <2>2. Head(down[a]) = down[a][1] /\ 1 \in 1..Len(down[a])
    BY <1>1, TailFacts
  <2>3. Head(down[a]) = "created" => Configures(up[a], down[a])
    BY <2>2 DEF Configures, Told
  <2> QED BY <2>1, <2>3 DEF ConnectionOK, RoomOK, Reached
<1>3. OwnerPresent'
  <2> SUFFICES ASSUME NEW b \in Actors, pc[b] \in AtRoom, creator'[b]
               PROVE  room.owner = b /\ b \in Reached
    BY <1>1 DEF OwnerPresent, Reached
  <2> QED BY <1>1, <1>2 DEF OwnerPresent
<1>4. ASSUME NEW p \in People PROVE FirstJoin(Self(p))'
  <2>1. FirstJoin(Self(p)) /\ Self(p) \in Actors
    BY SelfApart
  <2>2. CASE Self(p) # a
    BY <1>1, <2>1, <2>2 DEF FirstJoin
  <2>3. CASE Self(p) = a
    <3>1. pc[a] \in AtRoom
      BY <1>1 DEF Listening
    <3>2. Created(down[a]) => Head(down[a]) = "created" \/ Created(Tail(down[a]))
      <4>1. down[a] \in Seq(Answers)
        OBVIOUS
      <4> QED BY <1>1, <4>1, CreatedKept
    <3>3. creator[a] => creator'[a]
      BY <1>1
    <3>4. down'[a] = Tail(down[a])
      BY <1>1
    <3> QED BY <1>1, <2>1, <2>3, <3>1, <3>2, <3>3, <3>4 DEF FirstJoin, AtRoom
  <2> QED BY <2>2, <2>3
<1> QED BY <1>3, <1>4

\* A step of the server: it makes a room's owner of whom it tells so at once,
\* and keeps the room of an owner who is there.
LEMMA CreatorServe ==
    ASSUME TypeOK, RoomInvariant, CreatorInvariant, NEW a \in Actors, Serve(a) \/ NoticeLoss(a)
    PROVE  CreatorInvariant'
<1> USE DEF CreatorInvariant, TypeOK
<1>1. /\ UNCHANGED <<pc, registered, creator>>
      /\ \A b \in Actors : b # a => up'[b] = up[b]
      /\ up[a] = <<>> => up'[a] = up[a]
  BY DEF Serve, CreateRoom, AdmitToRoom, RefuseToJoin, SendConfigForm, UnlockRoom, EndConnection,
         NoticeLoss, Serves
<1>2. /\ RoomOK(room) /\ room \in Rooms
      /\ \A b \in Actors : ConnectionOK(b, pc[b], lock[b], up[b], down[b], room)
  BY DEF RoomInvariant
<1>3. \A b \in Actors : \/ down'[b] = down[b]
                        \/ \E e \in Answers : down'[b] = Append(down[b], e)
  BY DEF Serve, CreateRoom, AdmitToRoom, RefuseToJoin, SendConfigForm, UnlockRoom, EndConnection,
         NoticeLoss, Remove, Answer, Tell, Answers
<1>4. \A b \in Actors : Created(down[b]) => Created(down'[b])
  BY <1>3, CreatedKept
<1>5. CASE CreateRoom(a)
  <2>1. /\ room.state = "none" /\ room.occupants = {} /\ room'.owner = a /\ up[a] # <<>>
        /\ Answer(a, "created")
    BY <1>2, <1>5 DEF CreateRoom, RoomOK, Serves
  <2>2. \A b \in Actors : pc[b] \in AtRoom => ~creator[b] /\ pc[b] # "joined"
    BY <1>2, <2>1 DEF OwnerPresent, Reached, ConnectionOK, Within
  <2>3. pc[a] \in AtRoom => Created(down'[a])
    BY <2>1, CreatedKept DEF Answer, Listening
  <2>4. OwnerPresent'
    BY <1>1, <2>2 DEF OwnerPresent
  <2>5. ASSUME NEW p \in People PROVE FirstJoin(Self(p))'
    <3>1. FirstJoin(Self(p)) /\ Self(p) \in Actors
      BY SelfApart
    <3> QED BY <1>1, <2>1, <2>2, <2>3, <3>1 DEF FirstJoin, AtRoom
  <2> QED BY <2>4, <2>5
<1>6. CASE ~CreateRoom(a)
  <2>1. \/ room' = [room EXCEPT !.occupants = @ \cup {a}]
        \/ room' = room \/ room' = [room EXCEPT !.state = "open"]
        \/ Remove(a) /\ (a \in room.lost \/ pc[a] \notin AtRoom)
    <3>1. EndConnection(a) => pc[a] \notin AtRoom
      <4> SUFFICES ASSUME EndConnection(a) PROVE pc[a] \notin AtRoom
        OBVIOUS
      <4>1. 1 \in 1..Len(up[a]) /\ up[a][1] = "leave"
        BY TailFacts DEF EndConnection, Serves
      <4> QED BY <1>2, <4>1 DEF ConnectionOK
    <3> QED BY <1>6, <3>1 DEF Serve, AdmitToRoom, RefuseToJoin, SendConfigForm, UnlockRoom,
                              EndConnection, NoticeLoss
  <2>2. room'.owner = room.owner \/ room'.owner = <<>>
    <3>1. Remove(a) => room' = NoRoom \/ room'.owner = room.owner
      BY <1>2 DEF Remove, Rooms
    <3> QED BY <1>2, <2>1, <3>1 DEF NoRoom, Rooms
  <2>3. OwnerPresent'
    <3> SUFFICES ASSUME NEW b \in Actors, pc[b] \in AtRoom, creator[b]
                 PROVE  room'.owner = b /\ b \in room'.occupants \ room'.lost
      BY <1>1 DEF OwnerPresent, Reached
    <3>1. room.owner = b /\ b \in room.occupants \ room.lost
      BY DEF OwnerPresent, Reached
    <3>2. CASE Remove(a) /\ (a \in room.lost \/ pc[a] \notin AtRoom)
      <4>1. a # b
        BY <3>1, <3>2
      <4>2. room' = [room EXCEPT !.occupants = @ \ {a}, !.lost = @ \ {a}]
        BY <3>1, <3>2, <4>1 DEF Remove
      <4> QED BY <1>2, <3>1, <4>1, <4>2 DEF Rooms
    <3>3. CASE a \in Actors /\ room' = [room EXCEPT !.occupants = @ \cup {a}]
      BY <1>2, <3>1, <3>3 DEF Rooms
    <3>4. CASE room' = room \/ room' = [room EXCEPT !.state = "open"]
      BY <1>2, <3>1, <3>4 DEF Rooms
    <3> QED BY <2>1, <3>2, <3>3, <3>4
  <2>4. ASSUME NEW p \in People PROVE FirstJoin(Self(p))'
    <3>1. FirstJoin(Self(p)) /\ Self(p) \in Actors /\ Self(p) # <<>>
      BY SelfApart
    <3> QED BY <1>1, <1>4, <2>2, <3>1 DEF FirstJoin
  <2> QED BY <2>3, <2>4
<1> QED BY <1>5, <1>6

\* The actor that hears onActivityCreate is the owner of the room, and the
\* owner hears it: with any number of people arriving, leaving, losing their
\* connections and trying again.
THEOREM CreatorCreatesHolds == Spec => []CreatorCreates
<1>1. Init => CreatorInvariant
  BY SelfApart DEF Init, CreatorInvariant, OwnerPresent, FirstJoin, AtRoom, NoRoom
<1>2. TypeOK /\ RoomInvariant /\ CreatorInvariant /\ [Next]_vars => CreatorInvariant'
  <2> SUFFICES ASSUME TypeOK, RoomInvariant, CreatorInvariant, [Next]_vars PROVE CreatorInvariant'
    OBVIOUS
  <2>1. CASE Next
    BY <2>1, CreatorCall, CreatorReceive, CreatorServe DEF Next
  <2>2. CASE UNCHANGED vars
    BY <2>2 DEF vars, CreatorInvariant, OwnerPresent, FirstJoin, Reached
  <2> QED BY <2>1, <2>2
<1>3. CreatorInvariant => CreatorCreates
  <2> SUFFICES ASSUME CreatorInvariant, NEW p \in People, pc[Self(p)] = "joined"
               PROVE  creator[Self(p)] <=> room.owner = Self(p)
    BY DEF CreatorCreates
  <2>1. creator[Self(p)] => room.owner = Self(p)
    BY SelfApart DEF CreatorInvariant, OwnerPresent, AtRoom
  <2>2. room.owner = Self(p) => creator[Self(p)]
    BY DEF CreatorInvariant, FirstJoin
  <2> QED BY <2>1, <2>2
<1> QED BY <1>1, <1>2, <1>3, RoomTypeCorrect, RoomInvariantHolds, PTL DEF Spec

-----------------------------------------------------------------------------
(* Who waits is pursued.                                                   *)

Occurs(s, e) == \E k \in 1..Len(s) : s[k] = e

\* What will still end the wait of a creator, and that of a guest.
Configuring(u, d) == Occurs(u, "getConfig") \/ Occurs(u, "submit") \/ Occurs(d, "created") \/ Occurs(d, "form")
Entering(u, d) == Occurs(u, "join") \/ Occurs(d, "created") \/ Occurs(d, "presence")

WillEnd(isCreator, u, d) ==
    \/ Occurs(d, "unlocked")
    \/ Occurs(d, "error")
    \/ isCreator /\ Configuring(u, d)
    \/ ~isCreator /\ Entering(u, d)

\* As long as an actor waits and is not refused, something that ends its wait
\* is under way.
Pursued(a) ==
    /\ pc[a] = "waiting" => lock[a] # "READY"
    /\ pc[a] = "waiting" /\ lock[a] = "WAITING" /\ joined[a] => WillEnd(creator[a], up[a], down[a])
    /\ Prompt /\ pc[a] = "late" => ~joined[a]

PursuitInvariant == \A a \in Actors : Pursued(a)

LEMMA OccursAppended ==
    ASSUME NEW S, NEW s \in Seq(S), NEW e \in S, NEW x
    PROVE  Occurs(Append(s, e), x) <=> Occurs(s, x) \/ e = x
<1>1. Occurs(s, x) => Occurs(Append(s, e), x)
  BY AppendFacts DEF Occurs
<1>2. e = x => Occurs(Append(s, e), x)
  <2>1. Len(s) + 1 \in 1..Len(Append(s, e)) /\ Append(s, e)[Len(s) + 1] = e
    BY AppendFacts
  <2> QED BY <2>1 DEF Occurs
<1>3. ASSUME Occurs(Append(s, e), x) PROVE Occurs(s, x) \/ e = x
  <2>1. PICK k \in 1..Len(Append(s, e)) : Append(s, e)[k] = x
    BY <1>3 DEF Occurs
  <2>2. CASE k = Len(s) + 1
    BY <2>1, <2>2, AppendFacts
  <2>3. CASE k # Len(s) + 1
    <3>1. k \in 1..Len(s) /\ s[k] = x
      BY <2>1, <2>3, AppendFacts
    <3> QED BY <3>1 DEF Occurs
  <2> QED BY <2>2, <2>3
<1> QED BY <1>1, <1>2, <1>3

LEMMA OccursTaken ==
    ASSUME NEW S, NEW s \in Seq(S), s # <<>>, NEW x
    PROVE  /\ Occurs(s, x) => Head(s) = x \/ Occurs(Tail(s), x)
<1> SUFFICES ASSUME Occurs(s, x), Head(s) # x PROVE Occurs(Tail(s), x)
  OBVIOUS
<1>1. PICK k \in 1..Len(s) : s[k] = x
  BY DEF Occurs
<1>2. k # 1 /\ k - 1 \in 1..Len(Tail(s)) /\ Tail(s)[k - 1] = x
  BY <1>1, TailFacts
<1> QED BY <1>2 DEF Occurs

LEMMA OccursNowhere ==
    ASSUME NEW x PROVE ~Occurs(<<>>, x)
BY DEF Occurs

\* A stanza that is added takes nothing away.
LEMMA StillEnds ==
    ASSUME NEW c \in BOOLEAN, NEW u \in Seq(Requests), NEW d \in Seq(Answers), NEW d2 \in Seq(Answers),
           d2 = d \/ \E e \in Answers : d2 = Append(d, e), WillEnd(c, u, d)
    PROVE  WillEnd(c, u, d2)
<1>1. ASSUME NEW x, Occurs(d, x) PROVE Occurs(d2, x)
  <2>1. CASE d2 = d
    BY <1>1, <2>1
  <2>2. CASE \E e \in Answers : d2 = Append(d, e)
    <3>1. PICK e \in Answers : d2 = Append(d, e)
      BY <2>2
    <3>2. Occurs(Append(d, e), x) <=> Occurs(d, x) \/ e = x
      BY OccursAppended
    <3> QED BY <1>1, <3>1, <3>2
  <2> QED BY <2>1, <2>2
<1> QED BY <1>1 DEF WillEnd, Configuring, Entering

LEMMA PursuitCall ==
    ASSUME TypeOK, RoomInvariant, PursuitInvariant, NEW a \in Actors,
           Call(a) \/ TimeUp(a) \/ Leave(a) \/ LoseConnection(a)
    PROVE  PursuitInvariant'
<1> USE DEF PursuitInvariant, TypeOK
<1>1. \A b \in Actors : b # a =>
          /\ up'[b] = up[b] /\ down'[b] = down[b] /\ creator'[b] = creator[b]
          /\ joined'[b] = joined[b] /\ lock'[b] = lock[b]
          /\ pc'[b] = "idle" \/ pc'[b] = pc[b]
  <2>1. CASE Reconnect(a)
    BY <2>1 DEF Reconnect
  <2>2. CASE JoinSessionChat(a) \/ JoinReturns(a) \/ TriggerActorJoin(a)
    BY <2>2 DEF JoinSessionChat, JoinReturns, TriggerActorJoin, Send
  <2>3. CASE GiveUp(a) \/ TimeUp(a) \/ Leave(a) \/ LoseConnection(a)
    BY <2>3 DEF GiveUp, TimeUp, Leave, LoseConnection, Send
  <2> QED BY <2>1, <2>2, <2>3 DEF Call
<1>2. ASSUME NEW b \in Actors, b # a PROVE Pursued(b)'
  <2>1. Pursued(b)
    OBVIOUS
  <2> QED BY <1>1, <1>2, <2>1 DEF Pursued
<1>3. Pursued(a)'
  <2>1. CASE JoinSessionChat(a)
    <3>1. up[a] = <<>> /\ up'[a] = Append(up[a], "join") /\ "join" \in Requests
      BY <2>1 DEF JoinSessionChat, Send, Requests
    <3>2. Occurs(up'[a], "join")
      <4>1. up[a] \in Seq(Requests)
        OBVIOUS
      <4>2. "join" \in Requests
        BY DEF Requests
      <4>3. ASSUME NEW u \in Seq(Requests) PROVE Occurs(Append(u, "join"), "join")
        BY <4>2, OccursAppended
      <4> QED BY <3>1, <4>1, <4>3
    <3>3. pc'[a] = "waiting" /\ lock'[a] = "WAITING" /\ creator'[a] = FALSE
      BY <2>1 DEF JoinSessionChat
    <3>4. ~creator'[a] /\ Entering(up'[a], down'[a])
      BY <3>2, <3>3 DEF Entering
    <3> QED BY <3>3, <3>4 DEF Pursued, WillEnd
  <2>2. CASE TimeUp(a)
    <3>1. /\ pc[a] = "waiting" /\ pc'[a] = "late" /\ lock[a] # "DONE"
          /\ Prompt => up[a] = <<>> /\ down[a] = <<>>
          /\ joined'[a] = joined[a]
      BY <2>2 DEF TimeUp
    <3>2. Prompt => ~WillEnd(creator[a], up[a], down[a])
      BY <3>1, OccursNowhere DEF WillEnd, Configuring, Entering
    <3>3. Pursued(a) /\ lock[a] \in {"READY", "WAITING", "DONE"}
      OBVIOUS
    <3> QED BY <3>1, <3>2, <3>3 DEF Pursued
  <2>3. CASE JoinReturns(a) \/ TriggerActorJoin(a) \/ GiveUp(a) \/ Reconnect(a) \/ Leave(a) \/ LoseConnection(a)
    <3>1. pc'[a] \notin {"waiting", "late"}
      BY <2>3 DEF JoinReturns, TriggerActorJoin, GiveUp, Reconnect, Leave, LoseConnection
    <3> QED BY <3>1 DEF Pursued
  <2> QED BY <2>1, <2>2, <2>3 DEF Call
<1> QED BY <1>2, <1>3

\* What is read ends the wait, or is followed by what will.
LEMMA PursuitReceive ==
    ASSUME TypeOK, PursuitInvariant, NEW a \in Actors, Receive(a)
    PROVE  PursuitInvariant'
<1> USE DEF PursuitInvariant, TypeOK
<1>1. /\ UNCHANGED <<pc, registered, room>> /\ down[a] # <<>> /\ down'[a] = Tail(down[a])
      /\ \A b \in Actors : b # a => /\ up'[b] = up[b] /\ down'[b] = down[b]
                                    /\ creator'[b] = creator[b] /\ joined'[b] = joined[b]
                                    /\ lock'[b] = lock[b]
  BY DEF Receive, Receives, HandleCreation, HandlePresence, HandleError, HandleConfigForm,
         HandleUnlocked, Send, Notify
<1>2. ASSUME NEW b \in Actors, b # a PROVE Pursued(b)'
  <2>1. Pursued(b)
    OBVIOUS
  <2> QED BY <1>1, <1>2, <2>1 DEF Pursued
<1>3. Pursued(a)'
  <2>1. Pursued(a) /\ down[a] \in Seq(Answers) /\ up[a] \in Seq(Requests)
    OBVIOUS
  <2>2. lock[a] # "READY" => lock'[a] # "READY"
    BY DEF Receive, Receives, HandleCreation, HandlePresence, HandleError, HandleConfigForm,
           HandleUnlocked, Notify
  <2>3. joined'[a] => joined[a]
    BY DEF Receive, Receives, HandleCreation, HandlePresence, HandleError, HandleConfigForm,
           HandleUnlocked
  <2>4. lock'[a] = "WAITING" => lock[a] = "WAITING"
    BY DEF Receive, Receives, HandleCreation, HandlePresence, HandleError, HandleConfigForm,
           HandleUnlocked, Notify
  <2>5. ASSUME pc[a] = "waiting", lock'[a] = "WAITING", joined'[a]
        PROVE  WillEnd(creator'[a], up'[a], down'[a])
    <3>1. lock[a] = "WAITING" /\ joined[a] /\ WillEnd(creator[a], up[a], down[a])
      BY <2>1, <2>3, <2>4, <2>5 DEF Pursued
    <3>2. \A x : Occurs(down[a], x) => Head(down[a]) = x \/ Occurs(down'[a], x)
      BY <1>1, <2>1, OccursTaken
    <3>3. CASE HandleCreation(a)
      <4>1. creator'[a] /\ up'[a] = Append(up[a], "getConfig") /\ "getConfig" \in Requests
        BY <3>1, <3>3 DEF HandleCreation, Send, Requests
      <4>2. Occurs(up'[a], "getConfig")
        BY <2>1, <4>1, OccursAppended
      <4>3. Configuring(up'[a], down'[a])
        BY <4>2 DEF Configuring
      <4> QED BY <4>1, <4>3 DEF WillEnd
    <3>4. CASE HandlePresence(a)
      <4>1. /\ Head(down[a]) = "presence" /\ creator'[a] = creator[a] /\ up'[a] = up[a]
        BY <3>4 DEF HandlePresence, Receives
      <4>2. creator[a]
        BY <2>5, <3>1, <3>4 DEF HandlePresence, Notify
      <4> QED BY <3>1, <3>2, <4>1, <4>2 DEF WillEnd, Configuring
    <3>5. CASE HandleError(a)
      BY <2>5, <3>5 DEF HandleError
    <3>6. CASE HandleConfigForm(a)
      <4>1. /\ Head(down[a]) = "form" /\ creator'[a] = creator[a]
            /\ up'[a] = Append(up[a], "submit") /\ "submit" \in Requests
        BY <3>1, <3>6 DEF HandleConfigForm, Receives, Send, Requests
      <4>2. \A x : Occurs(up'[a], x) <=> Occurs(up[a], x) \/ "submit" = x
        BY <2>1, <4>1, OccursAppended
      <4> QED BY <3>1, <3>2, <4>1, <4>2 DEF WillEnd, Configuring, Entering
    <3>7. CASE HandleUnlocked(a)
      BY <2>5, <3>1, <3>7 DEF HandleUnlocked, Notify
    <3> QED BY <3>3, <3>4, <3>5, <3>6, <3>7 DEF Receive
  <2> QED BY <1>1, <2>1, <2>2, <2>3, <2>5 DEF Pursued
<1> QED BY <1>2, <1>3

\* The server answers whatever it reads of somebody who waits.
LEMMA PursuitServe ==
    ASSUME TypeOK, PursuitInvariant, NEW a \in Actors, Serve(a) \/ NoticeLoss(a)
    PROVE  PursuitInvariant'
<1> USE DEF PursuitInvariant, TypeOK
<1>1. /\ UNCHANGED <<pc, lock, creator, joined>>
      /\ \A b \in Actors : b # a => up'[b] = up[b]
  BY DEF Serve, CreateRoom, AdmitToRoom, RefuseToJoin, SendConfigForm, UnlockRoom, EndConnection,
         NoticeLoss, Serves
<1>2. \A b \in Actors : \/ down'[b] = down[b]
                        \/ \E e \in Answers : down'[b] = Append(down[b], e)
  BY DEF Serve, CreateRoom, AdmitToRoom, RefuseToJoin, SendConfigForm, UnlockRoom, EndConnection,
         NoticeLoss, Remove, Answer, Tell, Answers
<1>3. down' \in [Actors -> Seq(Answers)]
  BY TypeServe
<1>4. ASSUME NEW b \in Actors, up'[b] = up[b] PROVE Pursued(b)'
  <2>1. Pursued(b) /\ creator[b] \in BOOLEAN /\ up[b] \in Seq(Requests)
        /\ down[b] \in Seq(Answers) /\ down'[b] \in Seq(Answers)
    BY <1>3
  <2>2. WillEnd(creator[b], up[b], down[b]) => WillEnd(creator[b], up[b], down'[b])
    BY <1>2, <2>1, StillEnds
  <2> QED BY <1>1, <1>4, <2>1, <2>2 DEF Pursued
<1>5. ASSUME up'[a] # up[a] PROVE Pursued(a)'
  <2>1. Pursued(a) /\ down[a] \in Seq(Answers) /\ up[a] \in Seq(Requests) /\ creator[a] \in BOOLEAN
    OBVIOUS
  <2>2. Serve(a) /\ up[a] # <<>> /\ up'[a] = Tail(up[a])
    BY <1>5 DEF Serve, CreateRoom, AdmitToRoom, RefuseToJoin, SendConfigForm, UnlockRoom,
                EndConnection, NoticeLoss, Serves
  <2>3. \A x : Occurs(up[a], x) => Head(up[a]) = x \/ Occurs(up'[a], x)
    BY <2>1, <2>2, OccursTaken
  <2>4. ASSUME NEW x, Occurs(down[a], x) PROVE Occurs(down'[a], x)
    <3>1. CASE down'[a] = down[a]
      BY <2>4, <3>1
    <3>2. CASE \E e \in Answers : down'[a] = Append(down[a], e)
      <4>1. PICK e \in Answers : down'[a] = Append(down[a], e)
        BY <3>2
      <4>2. Occurs(Append(down[a], e), x) <=> Occurs(down[a], x) \/ e = x
        BY <2>1, OccursAppended
      <4> QED BY <2>4, <4>1, <4>2
    <3> QED BY <1>2, <3>1, <3>2
  <2>5. ASSUME pc[a] = "waiting", WillEnd(creator[a], up[a], down[a])
        PROVE  WillEnd(creator[a], up'[a], down'[a])
    <3>0. Listening(a)
      BY <2>5 DEF Listening, AtRoom
    <3>1. CASE CreateRoom(a)
      <4>1. Head(up[a]) = "join" /\ down'[a] = Append(down[a], "created") /\ "created" \in Answers
        BY <3>0, <3>1 DEF CreateRoom, Serves, Answer, Answers
      <4>2. Occurs(down'[a], "created")
        BY <2>1, <4>1, OccursAppended
      <4> QED BY <2>1, <4>2 DEF WillEnd, Configuring, Entering
    <3>2. CASE AdmitToRoom(a)
      <4>1. Head(up[a]) = "join"
        BY <3>2 DEF AdmitToRoom, Serves
      <4>2. Occurs(down'[a], "presence")
        <5>1. CASE down[a] = <<>> \/ down[a][Len(down[a])] # "presence"
          <6>1. down'[a] = Append(down[a], "presence") /\ "presence" \in Answers
            BY <3>0, <3>2, <5>1 DEF AdmitToRoom, Tell, Answers
          <6> QED BY <2>1, <6>1, OccursAppended
        <5>2. CASE down[a] # <<>> /\ down[a][Len(down[a])] = "presence"
          <6>1. Len(down[a]) \in 1..Len(down[a])
            BY <2>1, <5>2
          <6>2. Occurs(down[a], "presence")
            BY <5>2, <6>1 DEF Occurs
          <6> QED BY <2>4, <6>2
        <5> QED BY <5>1, <5>2
      <4> QED BY <2>3, <2>4, <2>5, <4>1, <4>2 DEF WillEnd, Configuring, Entering
    <3>3. CASE RefuseToJoin(a)
      <4>1. down'[a] = Append(down[a], "error") /\ "error" \in Answers
        BY <3>0, <3>3 DEF RefuseToJoin, Answer, Answers
      <4>2. Occurs(down'[a], "error")
        BY <2>1, <4>1, OccursAppended
      <4> QED BY <4>2 DEF WillEnd
    <3>4. CASE SendConfigForm(a)
      <4>1. Head(up[a]) = "getConfig" /\ down'[a] = Append(down[a], "form") /\ "form" \in Answers
        BY <3>0, <3>4 DEF SendConfigForm, Serves, Answer, Answers
      <4>2. Occurs(down'[a], "form")
        BY <2>1, <4>1, OccursAppended
      <4> QED BY <2>3, <2>4, <2>5, <4>1, <4>2 DEF WillEnd, Configuring, Entering
    <3>5. CASE UnlockRoom(a)
      <4>1. down'[a] = Append(down[a], "unlocked") /\ "unlocked" \in Answers
        BY <3>0, <3>5 DEF UnlockRoom, Answer, Answers
      <4>2. Occurs(down'[a], "unlocked")
        BY <2>1, <4>1, OccursAppended
      <4> QED BY <4>2 DEF WillEnd
    <3>6. CASE EndConnection(a)
      <4>1. Head(up[a]) = "leave"
        BY <3>6 DEF EndConnection, Serves
      <4> QED BY <2>3, <2>4, <2>5, <4>1 DEF WillEnd, Configuring, Entering
    <3> QED BY <2>2, <3>1, <3>2, <3>3, <3>4, <3>5, <3>6 DEF Serve
  <2> QED BY <1>1, <2>1, <2>5 DEF Pursued
<1>6. ASSUME NEW b \in Actors PROVE Pursued(b)'
  BY <1>1, <1>4, <1>5
<1> QED BY <1>6

\* A server that answers in time lets nobody wait in vain whom it did not
\* refuse, however many arrive, are refused, cut off and come back.
THEOREM TimesOutRefusedHolds == Spec => []TimesOutRefused
<1>1. Init => PursuitInvariant
  BY DEF Init, PursuitInvariant, Pursued
<1>2. TypeOK /\ RoomInvariant /\ PursuitInvariant /\ [Next]_vars => PursuitInvariant'
  <2> SUFFICES ASSUME TypeOK, RoomInvariant, PursuitInvariant, [Next]_vars PROVE PursuitInvariant'
    OBVIOUS
  <2>1. CASE Next
    BY <2>1, PursuitCall, PursuitReceive, PursuitServe DEF Next
  <2>2. CASE UNCHANGED vars
    BY <2>2 DEF vars, PursuitInvariant, Pursued
  <2> QED BY <2>1, <2>2
<1>3. PursuitInvariant => TimesOutRefused
  BY DEF PursuitInvariant, Pursued, TimesOutRefused
<1> QED BY <1>1, <1>2, <1>3, RoomTypeCorrect, RoomInvariantHolds, PTL DEF Spec

=============================================================================
