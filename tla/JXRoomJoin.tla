----------------------------- MODULE JXRoomJoin -----------------------------
(***************************************************************************)
(* Joining a chat room: joinSessionChat and rejoinSessionChat of           *)
(* Classes/provider/xmpp/JXXMPPJunction.mm on the thread of the caller,    *)
(* which waits on roomLock for ten seconds at most; the room and           *)
(* configuration handlers, called by the thread that receives; and the     *)
(* server's room, which whoever enters first creates, locked, and must     *)
(* configure before others may enter.                                      *)
(*                                                                         *)
(* Each person has an actor; one that lost its connection first sends      *)
(* through the room with a transient actor, a client of its own, before it *)
(* joins again under its old nickname.  One transient actor per person     *)
(* stands for all that it makes one after the other.                       *)
(***************************************************************************)
EXTENDS Integers, Sequences, FiniteSets

CONSTANTS
    People,     \* those who take part in the activity
    Churn,      \* those who may lose their connection or leave
    Prompt,     \* the room's answers never take ten seconds
    MaxLosses   \* bound: connections lost in a run

ASSUME PeopleAssumption == Churn \subseteq People
ASSUME PromptAssumption == Prompt \in BOOLEAN
ASSUME LossesAssumption == MaxLosses \in Nat

VARIABLES
    pc,          \* where the caller's thread of each actor stands
    lock,        \* the condition of roomLock
    creator,     \* isActivityCreator of the activity script
    joined,      \* m_joined of the gloox room object
    registered,  \* a message handler is registered: the actor joined before
    up, down,    \* stanzas on their way to and from the server
    room,        \* the server's room
    losses       \* the connections lost so far

vars == <<pc, lock, creator, joined, registered, up, down, room, losses>>

Self(p) == <<p, "actor">>
Transient(p) == <<p, "transient">>
Actors == {Self(p) : p \in People} \cup {Transient(p) : p \in Churn}

Requests == {"join", "getConfig", "submit", "leave"}
Answers == {"created", "presence", "error", "form", "unlocked"}
Rooms == [state : {"none", "locked", "open"}, owner : Actors \cup {<<>>},
          occupants : SUBSET Actors, lost : SUBSET Actors]
NoRoom == [state |-> "none", owner |-> <<>>, occupants |-> {}, lost |-> {}]

Init ==
    /\ pc = [a \in Actors |-> "idle"]
    /\ lock = [a \in Actors |-> "READY"]
    /\ creator = [a \in Actors |-> FALSE]
    /\ joined = [a \in Actors |-> FALSE]
    /\ registered = [a \in Actors |-> FALSE]
    /\ up = [a \in Actors |-> <<>>]
    /\ down = [a \in Actors |-> <<>>]
    /\ room = NoRoom
    /\ losses = 0

AtRoom == {"waiting", "late", "joined", "active"}
Listening(a) == pc[a] \in AtRoom
Send(a, request) == up' = [up EXCEPT ![a] = Append(up[a], request)]

(***************************************************************************)
(* The caller's thread.                                                    *)
(***************************************************************************)
Starts(a) ==
    \/ pc[a] = "idle" /\ (a[2] = "transient" => pc[Self(a[1])] = "helping")
    \/ pc[a] = "helping" /\ pc[Transient(a[1])] = "gone"

\* Mutant: whoever created the room before still takes itself for its creator.
JoinSessionChat_KeepsCreator(a) ==
    /\ Starts(a) /\ up[a] = <<>>
    /\ pc' = [pc EXCEPT ![a] = "waiting"]
    /\ lock' = [lock EXCEPT ![a] = "WAITING"]
    /\ joined' = [joined EXCEPT ![a] = TRUE]
    /\ Send(a, "join")
    /\ UNCHANGED <<creator, registered, down, room, losses>>

\* joinSessionChat up to its wait, for registerActor: and rejoinSessionChat
JoinSessionChat(a) ==
    /\ Starts(a)
    /\ up[a] = <<>>
    /\ pc' = [pc EXCEPT ![a] = "waiting"]
    /\ creator' = [creator EXCEPT ![a] = FALSE]
    /\ lock' = [lock EXCEPT ![a] = "WAITING"]
    /\ joined' = [joined EXCEPT ![a] = TRUE]
    /\ Send(a, "join")
    /\ UNCHANGED <<registered, down, room, losses>>

\* The lock was DONE in time: a first join goes on to register the message
\* handler, another returns to reconnect, which tells the extras.
JoinReturns(a) ==
    /\ pc[a] = "waiting"
    /\ lock[a] = "DONE"
    /\ lock' = [lock EXCEPT ![a] = "READY"]
    /\ pc' = [pc EXCEPT ![a] = IF registered[a] THEN "active" ELSE "joined"]
    /\ registered' = [registered EXCEPT ![a] = TRUE]
    /\ UNCHANGED <<creator, joined, up, down, room, losses>>

\* triggerActorJoin: the actor's onActivityCreate, when it is the creator,
\* and onActivityJoin, which in a transient actor leaves.
TriggerActorJoin(a) ==
    /\ pc[a] = "joined"
    /\ IF a[2] = "transient"
       THEN pc' = [pc EXCEPT ![a] = "gone"] /\ Send(a, "leave") /\ down' = [down EXCEPT ![a] = <<>>]
       ELSE pc' = [pc EXCEPT ![a] = "active"] /\ UNCHANGED <<up, down>>
    /\ UNCHANGED <<lock, creator, joined, registered, room, losses>>

\* Ten seconds are over, which a prompt room has used to answer.
TimeUp(a) ==
    /\ pc[a] = "waiting"
    /\ lock[a] # "DONE"
    /\ Prompt => up[a] = <<>> /\ down[a] = <<>>
    /\ pc' = [pc EXCEPT ![a] = "late"]
    /\ UNCHANGED <<lock, creator, joined, registered, up, down, room, losses>>

\* Mutant: the failed join is not followed by disconnect.
GiveUp_StaysConnected(a) ==
    /\ pc[a] = "late"
    /\ lock' = [lock EXCEPT ![a] = "READY"]
    /\ pc' = [pc EXCEPT ![a] = IF registered[a] THEN "cut" ELSE "gone"]
    /\ down' = [down EXCEPT ![a] = <<>>]
    /\ UNCHANGED <<creator, joined, registered, up, room, losses>>

\* The join returns false and the connection is closed; after a rejoin
\* triggerDisconnect asks to reconnect once more.
GiveUp(a) ==
    /\ pc[a] = "late"
    /\ lock' = [lock EXCEPT ![a] = "READY"]
    /\ pc' = [pc EXCEPT ![a] = IF registered[a] THEN "cut" ELSE "gone"]
    /\ Send(a, "leave")
    /\ down' = [down EXCEPT ![a] = <<>>]
    /\ UNCHANGED <<creator, joined, registered, room, losses>>

\* reconnect, connected again: the transient actor goes first.
Reconnect(a) ==
    /\ pc[a] = "cut"
    /\ pc' = [pc EXCEPT ![a] = "helping", ![Transient(a[1])] = "idle"]
    /\ registered' = [registered EXCEPT ![Transient(a[1])] = FALSE]
    /\ UNCHANGED <<lock, creator, joined, up, down, room, losses>>

Leave(a) ==
    /\ a[1] \in Churn
    /\ a[2] = "actor"
    /\ pc[a] = "active"
    /\ pc' = [pc EXCEPT ![a] = "gone"]
    /\ Send(a, "leave")
    /\ down' = [down EXCEPT ![a] = <<>>]
    /\ UNCHANGED <<lock, creator, joined, registered, room, losses>>

\* The server goes on counting the actor in.
LoseConnection(a) ==
    /\ a[1] \in Churn
    /\ a[2] = "actor"
    /\ pc[a] = "active"
    /\ losses < MaxLosses
    /\ losses' = losses + 1
    /\ pc' = [pc EXCEPT ![a] = "cut"]
    /\ up' = [up EXCEPT ![a] = <<>>]
    /\ down' = [down EXCEPT ![a] = <<>>]
    /\ room' = [room EXCEPT !.lost = @ \cup {a}]
    /\ UNCHANGED <<lock, creator, joined, registered>>

(***************************************************************************)
(* The thread that receives.                                               *)
(***************************************************************************)
Receives(a, answer) ==
    /\ Listening(a)
    /\ down[a] # <<>>
    /\ Head(down[a]) = answer
    /\ down' = [down EXCEPT ![a] = Tail(down[a])]
    /\ UNCHANGED <<pc, registered, room, losses>>

\* notifyJunction
Notify(a) == lock' = [lock EXCEPT ![a] = IF lock[a] = "WAITING" THEN "DONE" ELSE lock[a]]

\* Mutant: the presence is reported before the room's creation.
HandleCreation_Notifies(a) ==
    /\ Receives(a, "created")
    /\ creator' = [creator EXCEPT ![a] = TRUE]
    /\ Notify(a)
    /\ IF joined[a] THEN Send(a, "getConfig") ELSE UNCHANGED up
    /\ UNCHANGED joined

\* Mutant: setActivityCreator:YES is forgotten, so the presence counts.
HandleCreation_NoCreator(a) ==
    /\ Receives(a, "created")
    /\ Notify(a)
    /\ IF joined[a] THEN Send(a, "getConfig") ELSE UNCHANGED up
    /\ UNCHANGED <<creator, joined>>

\* The actor's own presence in a new room: handleMUCRoomCreation, after which
\* handleMUCParticipantPresence finds the creator and returns.
HandleCreation(a) ==
    /\ Receives(a, "created")
    /\ creator' = [creator EXCEPT ![a] = TRUE]
    /\ IF joined[a] THEN Send(a, "getConfig") ELSE UNCHANGED up
    /\ UNCHANGED <<lock, joined>>

HandlePresence(a) ==
    /\ Receives(a, "presence")
    /\ IF creator[a] THEN UNCHANGED lock ELSE Notify(a)
    /\ UNCHANGED <<creator, joined, up>>

\* The refusal is logged; the caller learns of it when its time is up.
HandleError(a) ==
    /\ Receives(a, "error")
    /\ joined' = [joined EXCEPT ![a] = FALSE]
    /\ UNCHANGED <<lock, creator, up>>

\* Mutant: the form goes back with the type it came with.
HandleConfigForm_Echoes(a) ==
    /\ Receives(a, "form")
    /\ IF joined[a] THEN Send(a, "form") ELSE UNCHANGED up
    /\ UNCHANGED <<lock, creator, joined>>

\* handleMUCConfigForm
HandleConfigForm(a) ==
    /\ Receives(a, "form")
    /\ IF joined[a] THEN Send(a, "submit") ELSE UNCHANGED up
    /\ UNCHANGED <<lock, creator, joined>>

\* Mutant: the text is not recognised.
HandleUnlocked_Unnoticed(a) == Receives(a, "unlocked") /\ UNCHANGED <<lock, creator, joined, up>>

\* "This room is now unlocked."
HandleUnlocked(a) ==
    /\ Receives(a, "unlocked")
    /\ Notify(a)
    /\ UNCHANGED <<creator, joined, up>>

(***************************************************************************)
(* The server.                                                             *)
(***************************************************************************)
Serves(a, request) ==
    /\ up[a] # <<>>
    /\ Head(up[a]) = request
    /\ up' = [up EXCEPT ![a] = Tail(up[a])]
    /\ UNCHANGED <<pc, lock, creator, joined, registered, losses>>

Answer(a, answer) ==
    down' = IF Listening(a) THEN [down EXCEPT ![a] = Append(down[a], answer)] ELSE down

\* Everyone reached hears of a presence; one after another is like one.
Tell(actors) ==
    down' = [a \in Actors |->
        IF a \in actors /\ Listening(a) /\ (down[a] = <<>> \/ down[a][Len(down[a])] # "presence")
        THEN Append(down[a], "presence") ELSE down[a]]

Reached == room.occupants \ room.lost

CreateRoom(a) ==
    /\ Serves(a, "join")
    /\ room.state = "none"
    /\ room' = [state |-> "locked", owner |-> a, occupants |-> {a}, lost |-> {}]
    /\ Answer(a, "created")

AdmitToRoom(a) ==
    /\ Serves(a, "join")
    /\ room.state = "open"
    /\ a \notin room.occupants
    /\ room' = [room EXCEPT !.occupants = @ \cup {a}]
    /\ Tell(Reached \cup {a})

\* The room is locked, or the nickname is still taken by a lost connection.
RefuseToJoin(a) ==
    /\ Serves(a, "join")
    /\ room.state = "locked" \/ a \in room.occupants
    /\ Answer(a, "error")
    /\ UNCHANGED room

SendConfigForm(a) ==
    /\ Serves(a, "getConfig")
    /\ Answer(a, "form")
    /\ UNCHANGED room

UnlockRoom(a) ==
    /\ Serves(a, "submit")
    /\ room' = [room EXCEPT !.state = "open"]
    /\ Answer(a, "unlocked")

\* The room without a; nothing is kept of an empty one.
Remove(a) ==
    /\ room' = IF room.occupants = {a} THEN NoRoom
               ELSE [room EXCEPT !.occupants = @ \ {a}, !.lost = @ \ {a}]
    /\ Tell(Reached \ {a})

\* A connection that was not admitted closes without trace.
EndConnection(a) ==
    /\ Serves(a, "leave")
    /\ IF a \in Reached THEN Remove(a) ELSE UNCHANGED <<room, down>>

NoticeLoss(a) ==
    /\ a \in room.lost
    /\ Remove(a)
    /\ UNCHANGED <<pc, lock, creator, joined, registered, up, losses>>

Call(a) == JoinSessionChat(a) \/ JoinReturns(a) \/ TriggerActorJoin(a) \/ GiveUp(a) \/ Reconnect(a)

Receive(a) ==
    HandleCreation(a) \/ HandlePresence(a) \/ HandleError(a) \/ HandleConfigForm(a) \/ HandleUnlocked(a)

Serve(a) ==
    CreateRoom(a) \/ AdmitToRoom(a) \/ RefuseToJoin(a) \/ SendConfigForm(a) \/ UnlockRoom(a) \/ EndConnection(a)

Next ==
    \E a \in Actors :
        Call(a) \/ TimeUp(a) \/ Receive(a) \/ Serve(a) \/ NoticeLoss(a) \/ Leave(a) \/ LoseConnection(a)

Spec == Init /\ [][Next]_vars

\* Threads, time and the server go on; nobody has to begin, leave or be lost.
Fairness ==
    \A a \in Actors :
        /\ WF_vars(Call(a) /\ pc[a] # "idle")
        /\ WF_vars(JoinSessionChat(a) /\ a[2] = "transient")
        /\ WF_vars(TimeUp(a))
        /\ WF_vars(Receive(a))
        /\ WF_vars(Serve(a))
        /\ WF_vars(NoticeLoss(a))

FairSpec == Spec /\ Fairness

(***************************************************************************)
(* Properties.                                                             *)
(***************************************************************************)
\* The caller's place, the lock's conditions and the stanzas keep their types.
TypeOK ==
    /\ pc \in [Actors -> {"idle", "waiting", "late", "joined", "active", "cut", "helping", "gone"}]
    /\ lock \in [Actors -> {"READY", "WAITING", "DONE"}]
    /\ creator \in [Actors -> BOOLEAN]
    /\ joined \in [Actors -> BOOLEAN]
    /\ registered \in [Actors -> BOOLEAN]
    /\ up \in [Actors -> Seq(Requests)]
    /\ down \in [Actors -> Seq(Answers)]
    /\ room \in Rooms
    /\ losses \in 0..MaxLosses

\* An actor whose join returned true is in the server's room by the connection
\* it has, and the room is open (JXXMPPJunction.mm 98-102): neither the presence
\* of a room that is still locked, nor an answer to an attempt given up before,
\* was taken for success.
JoinedIsOccupant ==
    \A a \in Actors : pc[a] \in {"joined", "active"} => a \in Reached /\ room.state = "open"

\* onActivityCreate runs in the actor that created the room and in no other
\* (JXXMPPJunctionRoomHandler.h 28-41, JXJunction.m 137-146), however many
\* arrive at once.
CreatorCreates ==
    \A p \in People : pc[Self(p)] = "joined" => (creator[Self(p)] <=> room.owner = Self(p))

\* With a room that answers in time, only a refusal makes a join time out: the
\* handshake of the creator, which waits for the room to be configured, and the
\* wait of a guest always end in a notification (lines 96-106).
TimesOutRefused == \A a \in Actors : Prompt /\ pc[a] = "late" => ~joined[a]

\* A room does not stay locked for ever, which would keep everybody out: its
\* creator configures it, or gives up and takes it down with itself.
RoomUnlocks == room.state = "locked" ~> room.state # "locked"

\* Who lost its connection is in the room again in the end, even when the server
\* still counts the old connection in at first or the room is gone meanwhile
\* (reconnect and rejoinSessionChat, lines 109-119 and 194-206).
Rejoins == \A p \in Churn : pc[Self(p)] = "cut" ~> pc[Self(p)] = "active"

(***************************************************************************)
(* The inductive invariant behind JoinedIsOccupant: u and d are the stanzas *)
(* of one actor on their way up and down, g the room.                      *)
(***************************************************************************)
Within(a, g) == a \in g.occupants \ g.lost /\ g.state = "open"

\* At most one request other than the leave is open, and it goes first.
Asks(u, k) == u[k] \in {"join", "getConfig", "submit"}
Told(d, k) == d[k] \in {"created", "form"}
OneRequest(u, d) ==
    /\ \A k \in 1..Len(u) : Asks(u, k) => k = 1
    /\ \A j \in 1..Len(u) : \A k \in 1..Len(d) : ~(Asks(u, j) /\ Told(d, k))
    /\ \A j, k \in 1..Len(d) : Told(d, j) /\ Told(d, k) => j = k

\* Who creates the room is still at it.
Configures(u, d) ==
    \/ \E k \in 1..Len(u) : u[k] \in {"getConfig", "submit"}
    \/ \E k \in 1..Len(d) : Told(d, k)

ConnectionOK(a, place, condition, u, d, g) ==
    /\ OneRequest(u, d)
    /\ condition # "READY" => place \in {"waiting", "late"}
    /\ place \notin AtRoom => d = <<>>
    /\ place \in AtRoom => \A k \in 1..Len(u) : u[k] # "leave"
    /\ condition = "DONE" \/ place \in {"joined", "active"} => Within(a, g)
    /\ \A k \in 1..Len(d) : d[k] \in {"presence", "unlocked"} => Within(a, g)
    /\ Configures(u, d) => g.state = "locked" /\ g.owner = a

RoomOK(g) ==
    /\ g.state = "none" <=> g.occupants = {}
    /\ g.lost \subseteq g.occupants
    /\ g.state = "locked" => g.occupants = {g.owner} /\ g.lost = {}

\* A transient actor is at the room only while its person waits for it.
TransientOK(p) ==
    /\ pc[Transient(p)] \notin {"active", "cut", "helping"}
    /\ registered[Transient(p)] => pc[Transient(p)] \in {"joined", "gone"}
    /\ pc[Self(p)] # "helping" => pc[Transient(p)] \notin AtRoom

\* Every stanza that ends a wait speaks of a room the actor is in, through
\* every refusal, loss and renewed attempt (JXXMPPJunctionRoomHandler.h 28-48,
\* JXXMPPJunctionRoomHandler.mm 33-36).
RoomInvariant ==
    /\ RoomOK(room)
    /\ \A a \in Actors : ConnectionOK(a, pc[a], lock[a], up[a], down[a], room)
    /\ \A p \in Churn : TransientOK(p)

=============================================================================
