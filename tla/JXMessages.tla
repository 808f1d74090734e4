----------------------------- MODULE JXMessages -----------------------------
(***************************************************************************)
(* Messages between the members of an activity: to the session, to a role, *)
(* to one actor, or to where a message says it wants its answers; and who  *)
(* is handed them.  Classes/provider/xmpp/JXXMPPJunction.mm writes the     *)
(* role into the message itself, the dictionary that the application holds *)
(* and may send again, and the receiver's room handler reads it there.     *)
(***************************************************************************)
EXTENDS Naturals, Sequences, FiniteSets

CONSTANTS
    Members,     \* the actors in the room
    RolesOf,     \* the roles of each
    NoRole,      \* of a message without one
    Stranger,    \* an actor that is not there (any more)
    ReplyTo,     \* targets that answers are asked to be sent to
    MaxSends     \* bound: messages sent in a run

AllRoles == UNION {RolesOf[m] : m \in Members}

ASSUME MessagesAssumption ==
    /\ \A m \in Members : NoRole \notin RolesOf[m]
    /\ Stranger \notin Members
    /\ ReplyTo \subseteq {"session", "nonsense", Stranger} \cup Members
    /\ MaxSends \in Nat

VARIABLES
    held,        \* the dictionary each member sent or was handed last
    mail,        \* the copies on their way to each member
    sends,       \* history: what has been sent: whom it was for, and the
                 \*          role it still carried from an earlier send
    told         \* history: <<send, member>> of every message an actor was handed

messageVars == <<held, mail, sends, told>>

\* What a message says of itself: the role it is for, where answers go.  Of
\* a target that is neither "session" nor an actor's the code makes none.
Headers == [targetRole : AllRoles \cup {NoRole}, replyTo : ReplyTo \cup {"sender"}]
Blank == [targetRole |-> NoRole, replyTo |-> "sender"]

\* A copy knows which message it is of, the messages sent whom they were for.
Copies == [from : Members, header : Headers, send : 1..MaxSends]
Sends == [to : SUBSET Members, carried : AllRoles \cup {NoRole}]

MessagesInit ==
    /\ held = [m \in Members |-> Blank]
    /\ mail = [m \in Members |-> <<>>]
    /\ sends = <<>>
    /\ told = {}

\* What is sent is a new dictionary, or the one that the member sent or was
\* handed last.
Written == {[Blank EXCEPT !.replyTo = t] : t \in ReplyTo \cup {"sender"}}
AtHand(m) == Written \cup {held[m]}

\* A stanza to the room comes back to its sender too.
Posts(m, to, addressed, header, carried) ==
    LET copy == [from |-> m, header |-> header, send |-> Len(sends) + 1]
    IN  /\ Len(sends) < MaxSends
        /\ mail' = [q \in Members |-> IF q \in to THEN Append(mail[q], copy) ELSE mail[q]]
        /\ sends' = Append(sends, [to |-> addressed, carried |-> carried])
        /\ held' = [held EXCEPT ![m] = header]
        /\ UNCHANGED told

SendToSession(m) == \E d \in AtHand(m) : Posts(m, Members, Members, d, d.targetRole)

\* Mutant: the role is written, and the old one kept if there is one.
SendToRole_KeepsOld(m, role) ==
    \E d \in AtHand(m) :
        Posts(m, Members, {q \in Members : role \in RolesOf[q]},
              [d EXCEPT !.targetRole = IF @ = NoRole THEN role ELSE @], NoRole)

\* doSendMessage:toRole: the role is written into the dictionary of the caller.
SendToRole(m, role) ==
    \E d \in AtHand(m) :
        Posts(m, Members, {q \in Members : role \in RolesOf[q]}, [d EXCEPT !.targetRole = role], NoRole)

SendToActor(m, q) ==
    \E d \in AtHand(m) : Posts(m, {q} \cap Members, {q} \cap Members, d, d.targetRole)

Mail(m) == mail[m] # <<>>

\* handleMUCMessage: of a message that is for a role.
ForMe(m, header) == header.targetRole = NoRole \/ header.targetRole \in RolesOf[m]

\* The actor is handed the message, and may keep it to send it on; or answers.
HandleMUCMessage(m) ==
    LET copy == Head(mail[m]) IN
    /\ Mail(m)
    /\ mail' = [mail EXCEPT ![m] = Tail(@)]
    /\ told' = IF ForMe(m, copy.header) THEN told \cup {<<copy.send, m>>} ELSE told
    /\ held' \in {held} \cup IF ForMe(m, copy.header) THEN {[held EXCEPT ![m] = copy.header]} ELSE {}
    /\ UNCHANGED sends

\* getReplyTarget: who is sent the answer; of no target nothing is sent.
ReplyTarget(copy) ==
    IF copy.header.replyTo = "sender" THEN {copy.from}
    ELSE IF copy.header.replyTo = "session" THEN Members
    ELSE {copy.header.replyTo} \cap Members

\* onMessageReceived: answers with a dictionary of its own.
Answer(m) ==
    LET copy == Head(mail[m]) IN
    /\ Mail(m)
    /\ ForMe(m, copy.header)
    /\ copy.header.replyTo # "nonsense"
    /\ Len(sends) < MaxSends
    /\ LET answer == [from |-> m, header |-> Blank, send |-> Len(sends) + 1]
           rest == [mail EXCEPT ![m] = Tail(@)]
       IN  mail' = [q \in Members |->
                       IF q \in ReplyTarget(copy) THEN Append(rest[q], answer) ELSE rest[q]]
    /\ sends' = Append(sends, [to |-> ReplyTarget(copy), carried |-> NoRole])
    /\ told' = told \cup {<<copy.send, m>>}
    /\ UNCHANGED held

MessagesNext ==
    \E m \in Members :
        \/ SendToSession(m)
        \/ \E role \in AllRoles : SendToRole(m, role)
        \/ \E q \in Members \cup {Stranger} : SendToActor(m, q)
        \/ HandleMUCMessage(m) \/ Answer(m)

MessagesSpec == MessagesInit /\ [][MessagesNext]_messageVars

-----------------------------------------------------------------------------
(* Properties.                                                             *)

\* Every variable holds values of its type.
MessagesTypeOK ==
    /\ held \in [Members -> Headers]
    /\ mail \in [Members -> Seq(Copies)]
    /\ sends \in Seq(Sends)
    /\ told \subseteq (1..MaxSends) \X Members

OnItsWay(k, m) == \E i \in DOMAIN mail[m] : mail[m][i].send = k

\* Nobody is handed a message that is not for him, whatever its dictionary was
\* sent as before or who sends it on (JXXMPPJunctionRoomHandler.mm 42-56).
ToldAreAddressed == \A t \in told : t[2] \in sends[t[1]].to

\* Whoever a message is for is handed it or will be, unless the dictionary it
\* was sent as had been sent to a role before, by this sender or by the one he
\* has it from: the role stays in it (JXXMPPJunction.mm 246-259), and a message
\* to the session or to an actor is then still for the role alone.
AddressedAreTold ==
    \A k \in DOMAIN sends : \A m \in sends[k].to :
        <<k, m>> \in told \/ OnItsWay(k, m) \/ (sends[k].carried # NoRole /\ sends[k].carried \notin RolesOf[m])

\* A message is heard by whom it is for, and by nobody else, but for the roles
\* that stay in a dictionary.
HeardByAddressed == ToldAreAddressed /\ AddressedAreTold

=============================================================================
