-------------------------- MODULE JXActivityProofs --------------------------
(***************************************************************************)
(* Proofs about the parts of an activity that share no state: the messages *)
(* between its members, for any number of members, roles and messages; its *)
(* description, for any number of actors and sessions; the extras of a     *)
(* junction, for any number of extras, threads and walks. The array has a  *)
(* module of its own; the last theorems put the four side by side.         *)
(***************************************************************************)
EXTENDS MCJXActivity, JXArrayProofs

\* The copies in a member's mail.
Waiting(box) == {box[i] : i \in DOMAIN box}

\* A copy says it is for whom its message is for, unless a role had stayed in
\* the dictionary.
Stale(m, send) == send.carried # NoRole /\ send.carried \notin RolesOf[m]
Right(m, copy, ss) ==
    /\ copy.send \in DOMAIN ss
    /\ ForMe(m, copy.header) => m \in ss[copy.send].to
    /\ m \in ss[copy.send].to => ForMe(m, copy.header) \/ Stale(m, ss[copy.send])

\* What is waiting, what was sent and what was handed over agree.
Agree(boxes, ss, ts) ==
    /\ boxes \in [Members -> Seq(Copies)]
    /\ ss \in Seq(Sends) /\ Len(ss) <= MaxSends
    /\ ts \subseteq (1..MaxSends) \X Members
    /\ \A m \in Members : \A copy \in Waiting(boxes[m]) : Right(m, copy, ss)
    /\ \A t \in ts : t[1] \in DOMAIN ss /\ t[2] \in ss[t[1]].to
    /\ \A k \in DOMAIN ss, m \in Members : m \in ss[k].to =>
          \/ <<k, m>> \in ts
          \/ \E copy \in Waiting(boxes[m]) : copy.send = k
          \/ Stale(m, ss[k])

MessagesInvariant == held \in [Members -> Headers] /\ Agree(mail, sends, told)

-----------------------------------------------------------------------------
(* Mail.                                                                   *)

\* What is posted is in the mail behind what was there.
LEMMA WaitingAppend ==
    ASSUME NEW box \in Seq(Copies), NEW copy \in Copies
    PROVE  Append(box, copy) \in Seq(Copies) /\ Waiting(Append(box, copy)) = Waiting(box) \cup {copy}
<1>1. /\ Append(box, copy) \in Seq(Copies)
      /\ DOMAIN Append(box, copy) = 1..(Len(box) + 1) /\ DOMAIN box = 1..Len(box) /\ Len(box) \in Nat
      /\ \A i \in 1..Len(box) : Append(box, copy)[i] = box[i]
      /\ Append(box, copy)[Len(box) + 1] = copy
  BY AppendProperties, LenProperties
<1>2. \A i \in 1..(Len(box) + 1) : i \in 1..Len(box) \/ i = Len(box) + 1
  BY <1>1
<1>3. 1..Len(box) \subseteq 1..(Len(box) + 1) /\ Len(box) + 1 \in 1..(Len(box) + 1)
  BY <1>1
<1>4. Waiting(Append(box, copy)) \subseteq Waiting(box) \cup {copy}
  BY <1>1, <1>2 DEF Waiting
<1>5. Waiting(box) \cup {copy} \subseteq Waiting(Append(box, copy))
  BY <1>1, <1>3 DEF Waiting
<1> QED BY <1>1, <1>4, <1>5

\* Taking the first leaves the others.
LEMMA WaitingTail ==
    ASSUME NEW box \in Seq(Copies), box # <<>>
    PROVE  /\ Head(box) \in Copies /\ Tail(box) \in Seq(Copies)
           /\ Waiting(box) = {Head(box)} \cup Waiting(Tail(box))
<1>1. /\ Head(box) \in Copies /\ Tail(box) \in Seq(Copies)
      /\ Len(Tail(box)) = Len(box) - 1
      /\ \A i \in 1..Len(Tail(box)) : Tail(box)[i] = box[i + 1]
  BY HeadTailProperties
<1>2. Len(box) \in Nat /\ Len(box) # 0 /\ DOMAIN box = 1..Len(box) /\ Head(box) = box[1]
      /\ DOMAIN Tail(box) = 1..Len(Tail(box))
  BY <1>1, EmptySeq, LenProperties
<1>3. \A i \in DOMAIN box : i = 1 \/ (i - 1 \in DOMAIN Tail(box) /\ box[i] = Tail(box)[i - 1])
  BY <1>1, <1>2
<1>4. \A i \in DOMAIN Tail(box) : i + 1 \in DOMAIN box /\ Tail(box)[i] = box[i + 1]
  BY <1>1, <1>2
<1>5. 1 \in DOMAIN box
  BY <1>2
<1>6. Waiting(box) \subseteq {Head(box)} \cup Waiting(Tail(box))
  BY <1>2, <1>3 DEF Waiting
<1>7. {Head(box)} \cup Waiting(Tail(box)) \subseteq Waiting(box)
  BY <1>2, <1>4, <1>5 DEF Waiting
<1> QED BY <1>1, <1>6, <1>7

-----------------------------------------------------------------------------
(* The two things that happen to a message.                                *)

\* Who takes a copy is handed it if it says it is for him.
LEMMA AgreeTaken ==
    ASSUME NEW boxes, NEW ss, NEW ts, NEW m \in Members, Agree(boxes, ss, ts), boxes[m] # <<>>
    PROVE  Agree([boxes EXCEPT ![m] = Tail(@)], ss,
                 IF ForMe(m, Head(boxes[m]).header) THEN ts \cup {<<Head(boxes[m]).send, m>>} ELSE ts)
<1> DEFINE copy == Head(boxes[m])
           rest == [boxes EXCEPT ![m] = Tail(@)]
           handed == IF ForMe(m, copy.header) THEN ts \cup {<<copy.send, m>>} ELSE ts
<1>1. boxes \in [Members -> Seq(Copies)]
  BY DEF Agree
<1>2. copy \in Copies /\ Tail(boxes[m]) \in Seq(Copies)
      /\ Waiting(boxes[m]) = {copy} \cup Waiting(Tail(boxes[m]))
  BY <1>1, WaitingTail
<1>3. rest \in [Members -> Seq(Copies)]
  BY <1>1, <1>2
<1>4. \A q \in Members : rest[q] = IF q = m THEN Tail(boxes[m]) ELSE boxes[q]
  BY <1>1
<1>5. \A q \in Members : Waiting(rest[q]) \subseteq Waiting(boxes[q])
  BY <1>2, <1>4
<1>6. \A q \in Members : \A c \in Waiting(boxes[q]) : c \in Waiting(rest[q]) \/ (q = m /\ c = copy)
  BY <1>2, <1>4
<1>7. Right(m, copy, ss) /\ copy.send \in 1..MaxSends
  BY <1>2 DEF Agree, Copies
<1> HIDE DEF copy, rest
<1>8. handed \subseteq (1..MaxSends) \X Members
  BY <1>7 DEF Agree
<1>9. \A t \in handed : t[1] \in DOMAIN ss /\ t[2] \in ss[t[1]].to
  BY <1>7 DEF Agree, Right
<1>10. ASSUME NEW k \in DOMAIN ss, NEW q \in Members, q \in ss[k].to
       PROVE  \/ <<k, q>> \in handed
              \/ \E c \in Waiting(rest[q]) : c.send = k
              \/ Stale(q, ss[k])
  <2>1. \/ <<k, q>> \in ts
        \/ \E c \in Waiting(boxes[q]) : c.send = k
        \/ Stale(q, ss[k])
    BY <1>10 DEF Agree
  <2>2. CASE q = m /\ copy.send = k
    BY <1>7, <1>10, <2>2 DEF Right
  <2>3. CASE ~(q = m /\ copy.send = k)
    BY <1>6, <2>1, <2>3
  <2> QED BY <2>2, <2>3
<1>11. Agree(rest, ss, handed)
  <2>1. \A q \in Members : \A c \in Waiting(rest[q]) : Right(q, c, ss)
    BY <1>5 DEF Agree
  <2>2. ss \in Seq(Sends) /\ Len(ss) <= MaxSends
    BY DEF Agree
  <2> HIDE DEF handed
  <2> QED BY <1>3, <1>8, <1>9, <1>10, <2>1, <2>2 DEF Agree
<1> QED BY <1>11 DEF copy, rest

\* A message is posted to some, of which those it is for are some, and says so
\* to each, unless a role had stayed in its dictionary.
LEMMA AgreePosted ==
    ASSUME NEW boxes, NEW ss, NEW ts, Agree(boxes, ss, ts), Len(ss) < MaxSends,
           NEW copy \in Copies, copy.send = Len(ss) + 1,
           NEW to, NEW send \in Sends, send.to \subseteq to,
           \A q \in Members : q \in to =>
               /\ ForMe(q, copy.header) => q \in send.to
               /\ q \in send.to => ForMe(q, copy.header) \/ Stale(q, send)
    PROVE  Agree([q \in Members |-> IF q \in to THEN Append(boxes[q], copy) ELSE boxes[q]],
                 Append(ss, send), ts)
<1> DEFINE after == [q \in Members |-> IF q \in to THEN Append(boxes[q], copy) ELSE boxes[q]]
           all == Append(ss, send)
<1>1. boxes \in [Members -> Seq(Copies)] /\ ss \in Seq(Sends)
  BY DEF Agree
<1>2. /\ all \in Seq(Sends) /\ Len(all) = Len(ss) + 1 /\ Len(ss) \in Nat
      /\ DOMAIN ss = 1..Len(ss) /\ DOMAIN all = 1..(Len(ss) + 1)
      /\ \A k \in 1..Len(ss) : all[k] = ss[k]
      /\ all[Len(ss) + 1] = send
  BY <1>1, AppendProperties, LenProperties
<1>3. MaxSends \in Nat
  BY MessagesAssumption
<1>4. ASSUME NEW q \in Members
      PROVE  /\ after[q] \in Seq(Copies)
             /\ Waiting(after[q]) = Waiting(boxes[q]) \cup (IF q \in to THEN {copy} ELSE {})
  <2>1. boxes[q] \in Seq(Copies)
    BY <1>1
  <2> QED BY <2>1, WaitingAppend
<1>5. after \in [Members -> Seq(Copies)]
  BY <1>4
<1>6. /\ \A k \in DOMAIN ss : k \in DOMAIN all /\ all[k] = ss[k]
      /\ \A k \in DOMAIN all : k \in DOMAIN ss \/ (k = copy.send /\ all[k] = send)
      /\ copy.send \in DOMAIN all /\ all[copy.send] = send /\ Len(all) <= MaxSends
  BY <1>2, <1>3
<1> HIDE DEF after, all
<1>7. ASSUME NEW q \in Members, NEW c \in Waiting(after[q]) PROVE Right(q, c, all)
  <2>1. CASE c \in Waiting(boxes[q])
    <3>1. Right(q, c, ss)
      BY <2>1 DEF Agree
    <3> QED BY <3>1, <1>6 DEF Right
  <2>2. CASE q \in to /\ c = copy
    BY <2>2, <1>6 DEF Right
  <2> QED BY <1>4, <1>7, <2>1, <2>2
<1>8. \A t \in ts : t[1] \in DOMAIN all /\ t[2] \in all[t[1]].to
  BY <1>6 DEF Agree
<1>9. ASSUME NEW k \in DOMAIN all, NEW q \in Members, q \in all[k].to
      PROVE  \/ <<k, q>> \in ts
             \/ \E c \in Waiting(after[q]) : c.send = k
             \/ Stale(q, all[k])
  <2>1. CASE k \in DOMAIN ss
    <3>1. \/ <<k, q>> \in ts
          \/ \E c \in Waiting(boxes[q]) : c.send = k
          \/ Stale(q, ss[k])
      BY <1>6, <1>9, <2>1 DEF Agree
    <3> QED BY <1>4, <1>6, <2>1, <3>1
  <2>2. CASE k = copy.send /\ all[k] = send
    <3>1. q \in to
      BY <1>9, <2>2
    <3> QED BY <1>4, <2>2, <3>1
  <2> QED BY <1>6, <2>1, <2>2
<1>10. Agree(after, all, ts)
  <2>1. ts \subseteq (1..MaxSends) \X Members
    BY DEF Agree
  <2> QED BY <1>2, <1>5, <1>6, <1>7, <1>8, <1>9, <2>1 DEF Agree
<1> QED BY <1>10 DEF after, all

-----------------------------------------------------------------------------
(* The steps.                                                              *)

\* Nothing is waiting at first.
LEMMA MessagesInitOK == MessagesInit => MessagesInvariant
<1> SUFFICES ASSUME MessagesInit PROVE MessagesInvariant
  OBVIOUS
<1>1. <<>> \in Seq(Copies) /\ <<>> \in Seq(Sends) /\ Len(<<>>) = 0
      /\ \A i \in DOMAIN <<>> : FALSE
  OBVIOUS
<1>2. MaxSends \in Nat
  BY MessagesAssumption
<1>3. held \in [Members -> Headers]
  BY DEF MessagesInit, Blank, Headers
<1>4. \A m \in Members : Waiting(mail[m]) = {}
  BY <1>1 DEF MessagesInit, Waiting
<1>5. mail \in [Members -> Seq(Copies)] /\ sends \in Seq(Sends) /\ Len(sends) <= MaxSends
      /\ DOMAIN sends = {} /\ told = {}
  BY <1>1, <1>2 DEF MessagesInit
<1> QED BY <1>3, <1>4, <1>5 DEF MessagesInvariant, Agree

\* Every posting, from a dictionary of the right form, keeps the agreement.
LEMMA PostsKeeps ==
    ASSUME MessagesInvariant, NEW m \in Members, NEW to \in SUBSET Members,
           NEW addressed \in SUBSET to, NEW header \in Headers, NEW carried \in AllRoles \cup {NoRole},
           \A q \in to : /\ ForMe(q, header) => q \in addressed
                         /\ q \in addressed => ForMe(q, header)
                                               \/ (carried # NoRole /\ carried \notin RolesOf[q]),
           Posts(m, to, addressed, header, carried)
    PROVE  MessagesInvariant'
<1> DEFINE copy == [from |-> m, header |-> header, send |-> Len(sends) + 1]
           send == [to |-> addressed, carried |-> carried]
<1>1. Agree(mail, sends, told) /\ Len(sends) < MaxSends
  BY DEF MessagesInvariant, Posts
<1>2. Len(sends) \in Nat /\ MaxSends \in Nat
  BY <1>1, LenProperties, MessagesAssumption DEF Agree
<1>3. Len(sends) + 1 \in 1..MaxSends
  BY <1>1, <1>2
<1>4. copy \in Copies /\ send \in Sends /\ copy.send = Len(sends) + 1 /\ copy.header = header
      /\ send.to = addressed /\ send.carried = carried
  BY <1>3 DEF Copies, Sends
<1>5. /\ mail' = [q \in Members |-> IF q \in to THEN Append(mail[q], copy) ELSE mail[q]]
      /\ sends' = Append(sends, send) /\ told' = told /\ held' = [held EXCEPT ![m] = header]
  BY DEF Posts
<1> HIDE DEF copy, send
<1>6. \A q \in Members : q \in to =>
          /\ ForMe(q, copy.header) => q \in send.to
          /\ q \in send.to => ForMe(q, copy.header) \/ Stale(q, send)
  BY <1>4 DEF Stale
<1>7. Agree([q \in Members |-> IF q \in to THEN Append(mail[q], copy) ELSE mail[q]], Append(sends, send), told)
  BY <1>1, <1>4, <1>6, AgreePosted
<1>8. held' \in [Members -> Headers]
  BY <1>5 DEF MessagesInvariant
<1> QED BY <1>5, <1>7, <1>8 DEF MessagesInvariant

\* What a member may send is a dictionary of the right form, and so with a role
\* written into it.
LEMMA AtHandTyped ==
    ASSUME MessagesInvariant, NEW m \in Members, NEW d \in AtHand(m)
    PROVE  d \in Headers /\ \A role \in AllRoles : [d EXCEPT !.targetRole = role] \in Headers
                                                   /\ [d EXCEPT !.targetRole = role].targetRole = role
<1>1. d \in Headers
  BY DEF AtHand, Written, Blank, Headers, MessagesInvariant
<1> QED BY <1>1 DEF Headers

\* A role's members are known by it, and no role is none.
LEMMA RolesAreRoles == \A q \in Members : RolesOf[q] \subseteq AllRoles /\ NoRole \notin AllRoles
  BY MessagesAssumption DEF AllRoles

\* The three ways of sending keep the agreement.
LEMMA SendsKeep ==
    ASSUME MessagesInvariant, NEW m \in Members,
           \/ SendToSession(m)
           \/ \E role \in AllRoles : SendToRole(m, role)
           \/ \E q \in Members \cup {Stranger} : SendToActor(m, q)
    PROVE  MessagesInvariant'
<1>1. ASSUME NEW d \in AtHand(m) PROVE d \in Headers /\ d.targetRole \in AllRoles \cup {NoRole}
  BY <1>1, AtHandTyped DEF Headers
<1>2. \A d \in AtHand(m), q \in Members :
          ForMe(q, d) \/ (d.targetRole # NoRole /\ d.targetRole \notin RolesOf[q])
  BY DEF ForMe
<1>3. CASE SendToSession(m)
  <2>1. PICK d \in AtHand(m) : Posts(m, Members, Members, d, d.targetRole)
    BY <1>3 DEF SendToSession
  <2> QED BY <1>1, <1>2, <2>1, PostsKeeps
<1>4. CASE \E role \in AllRoles : SendToRole(m, role)
  <2>1. PICK role \in AllRoles, d \in AtHand(m) :
            Posts(m, Members, {q \in Members : role \in RolesOf[q]}, [d EXCEPT !.targetRole = role], NoRole)
    BY <1>4 DEF SendToRole
  <2> DEFINE header == [d EXCEPT !.targetRole = role]
             addressed == {q \in Members : role \in RolesOf[q]}
  <2>2. header \in Headers /\ header.targetRole = role
    BY AtHandTyped
  <2>3. \A q \in Members : ForMe(q, header) <=> q \in addressed
    BY <2>2, RolesAreRoles DEF ForMe
  <2>4. addressed \in SUBSET Members /\ Posts(m, Members, addressed, header, NoRole)
    BY <2>1
  <2> HIDE DEF header, addressed
  <2> QED BY <2>2, <2>3, <2>4, PostsKeeps
<1>5. CASE \E q \in Members \cup {Stranger} : SendToActor(m, q)
  <2>1. PICK q \in Members \cup {Stranger}, d \in AtHand(m) :
            Posts(m, {q} \cap Members, {q} \cap Members, d, d.targetRole)
    BY <1>5 DEF SendToActor
  <2> DEFINE to == {q} \cap Members
  <2>2. to \in SUBSET Members /\ to \in SUBSET to /\ Posts(m, to, to, d, d.targetRole)
    BY <2>1
  <2> HIDE DEF to
  <2> QED BY <1>1, <1>2, <2>2, PostsKeeps
<1> QED BY <1>3, <1>4, <1>5

\* Being handed a message, or passing over it, keeps the agreement.
LEMMA HandleKeeps ==
    ASSUME MessagesInvariant, NEW m \in Members, HandleMUCMessage(m)
    PROVE  MessagesInvariant'
<1>1. Agree(mail, sends, told) /\ mail[m] # <<>>
  BY DEF MessagesInvariant, HandleMUCMessage, Mail
<1>2. Agree([mail EXCEPT ![m] = Tail(@)], sends,
            IF ForMe(m, Head(mail[m]).header) THEN told \cup {<<Head(mail[m]).send, m>>} ELSE told)
  BY <1>1, AgreeTaken
<1>3. Agree(mail, sends, told)'
  BY <1>2 DEF HandleMUCMessage
<1>4. Head(mail[m]).header \in Headers
  BY <1>1, WaitingTail DEF Agree, Copies
<1>5. held' \in [Members -> Headers]
  BY <1>4 DEF MessagesInvariant, HandleMUCMessage
<1> QED BY <1>3, <1>5 DEF MessagesInvariant

\* Answering takes the message that is answered and posts the answer.
LEMMA AnswerKeeps ==
    ASSUME MessagesInvariant, NEW m \in Members, Answer(m)
    PROVE  MessagesInvariant'
<1> DEFINE copy == Head(mail[m])
           rest == [mail EXCEPT ![m] = Tail(@)]
           to == ReplyTarget(copy)
           answer == [from |-> m, header |-> Blank, send |-> Len(sends) + 1]
           send == [to |-> to, carried |-> NoRole]
           handed == told \cup {<<copy.send, m>>}
<1>1. Agree(mail, sends, told) /\ mail[m] # <<>> /\ ForMe(m, copy.header) /\ Len(sends) < MaxSends
  BY DEF MessagesInvariant, Answer, Mail
<1>2. Agree(rest, sends, handed)
  BY <1>1, AgreeTaken
<1>3. Len(sends) \in Nat /\ MaxSends \in Nat
  BY <1>1, LenProperties, MessagesAssumption DEF Agree
<1>4. Len(sends) + 1 \in 1..MaxSends
  BY <1>1, <1>3
<1>5. copy.from \in Members
  BY <1>1, WaitingTail DEF Agree, Copies
<1>6. to \in SUBSET Members
  BY <1>5 DEF ReplyTarget
<1>7. /\ mail' = [q \in Members |-> IF q \in to THEN Append(rest[q], answer) ELSE rest[q]]
      /\ sends' = Append(sends, send) /\ told' = handed /\ held' = held
  BY DEF Answer
<1> HIDE DEF copy, rest, to, handed
<1>8. Blank \in Headers /\ \A q \in Members : ForMe(q, Blank)
  BY DEF Blank, Headers, ForMe
<1>9. answer \in Copies /\ answer.send = Len(sends) + 1 /\ answer.header = Blank
      /\ send \in Sends /\ send.to = to
  BY <1>4, <1>6, <1>8 DEF Copies, Sends
<1> HIDE DEF answer, send
<1>10. \A q \in Members : q \in to =>
          /\ ForMe(q, answer.header) => q \in send.to
          /\ q \in send.to => ForMe(q, answer.header) \/ Stale(q, send)
  BY <1>8, <1>9
<1>11. Agree([q \in Members |-> IF q \in to THEN Append(rest[q], answer) ELSE rest[q]], Append(sends, send), handed)
  BY <1>1, <1>2, <1>9, <1>10, AgreePosted
<1> QED BY <1>7, <1>11 DEF MessagesInvariant

\* What waits, what was sent and what was handed over always agree: whatever
\* dictionary is sent, sent on or sent again, for any number of members and
\* messages (JXXMPPJunction.mm 246-259, JXXMPPJunctionRoomHandler.mm 42-56).
THEOREM MessagesAgree == MessagesSpec => []MessagesInvariant
<1>1. ASSUME MessagesInvariant, [MessagesNext]_messageVars PROVE MessagesInvariant'
  <2>1. CASE MessagesNext
    BY <1>1, <2>1, SendsKeep, HandleKeeps, AnswerKeeps DEF MessagesNext
  <2>2. CASE UNCHANGED messageVars
    BY <1>1, <2>2 DEF messageVars, MessagesInvariant
  <2> QED BY <1>1, <2>1, <2>2
<1> QED BY MessagesInitOK, <1>1, PTL DEF MessagesSpec

\* Nobody is handed a message that is not for him, and whoever it is for is
\* handed it or will be, but for the roles that stay in the dictionaries of the
\* application (JXXMPPJunction.mm 246-259).
THEOREM HeardByAddressedHolds == MessagesSpec => []HeardByAddressed
<1>1. MessagesInvariant => HeardByAddressed
  <2> SUFFICES ASSUME MessagesInvariant PROVE HeardByAddressed
    OBVIOUS
  <2>1. Agree(mail, sends, told)
    BY DEF MessagesInvariant
  <2>2. ToldAreAddressed
    BY <2>1 DEF Agree, ToldAreAddressed
  <2>3. ASSUME NEW k \in DOMAIN sends, NEW m \in sends[k].to
        PROVE  <<k, m>> \in told \/ OnItsWay(k, m) \/ Stale(m, sends[k])
    <3>1. sends[k] \in Sends
      BY <2>1, ElementOfSeq, LenProperties DEF Agree
    <3>2. m \in Members
      BY <3>1 DEF Sends
    <3>3. \/ <<k, m>> \in told
          \/ \E copy \in Waiting(mail[m]) : copy.send = k
          \/ Stale(m, sends[k])
      BY <2>1, <3>2 DEF Agree
    <3> QED BY <3>3 DEF OnItsWay, Waiting
  <2> QED BY <2>2, <2>3 DEF HeardByAddressed, AddressedAreTold, Stale
<1> QED BY MessagesAgree, <1>1, PTL

\* Headers, copies and what was sent keep their types.
THEOREM MessagesTypeCorrect == MessagesSpec => []MessagesTypeOK
<1>1. MessagesInvariant => MessagesTypeOK
  BY DEF MessagesInvariant, Agree, MessagesTypeOK
<1> QED BY MessagesAgree, <1>1, PTL

-----------------------------------------------------------------------------
\* A script and its dictionary agree, and so do it and where it is from.
Fits(s) == \A f \in Fields \ s.unsaid : Dictionary(s)[f] = s.field[f]
Agrees(s) ==
    /\ s \in Scripts
    /\ Fits(s)
    /\ s.from # Absent => s.field.sessionID = s.from

\* The room of a session is found by its description, unless that was unsaid.
Named(session) ==
    described[session] # Absent /\ "sessionID" \notin described[session].unsaid
        => described[session].dic.sessionID = session

\* What a script is to the room it is in, of a session described by d.
FitsRoom(s, session, d) ==
    /\ s.field.switchboard = Host
    /\ "sessionID" \notin s.since => s.field.sessionID = session
    /\ s.creator => Describes(d, s)

ScriptInvariant ==
    /\ ScriptTypeOK
    /\ \A p \in People : scripts[p] # Absent => Agrees(scripts[p])
    /\ \A session \in Sessions : Named(session)
    /\ DescribedByCreator

-----------------------------------------------------------------------------
(* One script.                                                             *)

\* A dictionary is one, and a session, a description or a script is not Absent.
LEMMA DictionaryIs == ASSUME NEW s \in Scripts PROVE Dictionary(s) \in Dictionaries
BY ScriptAssumption DEF Scripts, Dictionary

\* Setting a field.
With(d, f, v) == [d EXCEPT ![f] = v]

\* A dictionary with a field set to a value of its own is one.
LEMMA SetField ==
    ASSUME NEW d \in Dictionaries
    PROVE  /\ \A v \in Roles : /\ With(d, "roles", v) \in Dictionaries
                               /\ With(d, "roles", v).sessionID = d.sessionID
           /\ \A v \in Sessions : /\ With(d, "sessionID", v) \in Dictionaries
                                  /\ With(d, "sessionID", v).sessionID = v
           /\ /\ With(d, "switchboard", Host) \in Dictionaries
              /\ With(d, "switchboard", Host).sessionID = d.sessionID
              /\ With(d, "switchboard", Host).switchboard = Host
BY DEF Dictionaries, With

\* The parts of a script.
LEMMA ScriptParts ==
    ASSUME NEW s \in Scripts
    PROVE  /\ s.field \in Dictionaries /\ s.field.sessionID \in Sessions
           /\ s.unsaid \subseteq Fields /\ s.since \subseteq Fields /\ s.cached \in Dictionaries \cup {Absent}
           /\ s.creator \in BOOLEAN /\ s.from \in Sessions \cup {Absent}
BY DEF Scripts, Dictionaries

\* n is s with nothing changed that matters to a room but f.
ButFor(n, s, f) ==
    n.creator = s.creator /\ n.since = s.since /\ \A g \in Fields \ {f} : n.field[g] = s.field[g]

\* A setter that keeps the cache, or finds none, leaves unsaid what it sets
\* behind the cache, and the script in agreement but for where it is from.
LEMMA KeptField ==
    ASSUME NEW s \in Scripts, Fits(s),
           NEW f \in Fields, NEW v,
           With(s.field, f, v) \in Dictionaries, With(s.field, f, v).sessionID \in Sessions
    PROVE  /\ Kept(s, f, v) \in Scripts
           /\ Kept(s, f, v).field = With(s.field, f, v)
           /\ Kept(s, f, v).from = s.from
           /\ ButFor(Kept(s, f, v), s, f)
           /\ Fits(Kept(s, f, v))
<1> DEFINE k == Kept(s, f, v)
           d == With(s.field, f, v)
<1>1. /\ k.field = d /\ k.cached = s.cached /\ k.creator = s.creator /\ k.from = s.from /\ k.since = s.since
      /\ k.unsaid = IF s.cached = Absent \/ s.field[f] = v THEN s.unsaid ELSE s.unsaid \cup {f}
  BY DEF Kept, Scripts, With
<1>2. (\A g \in Fields \ {f} : d[g] = s.field[g]) /\ d[f] = v
  BY ScriptParts DEF Dictionaries, Fields, With
<1>3. d.sessionID # Absent
  BY ScriptAssumption
<1>4. k \in Scripts
  <2>1. k.unsaid \in SUBSET Fields
    BY <1>1, ScriptParts
  <2> QED BY <1>3, <2>1, ScriptParts DEF Kept, Scripts, With
<1> HIDE DEF k, d
<1>5. Fits(k)
  <2>1. CASE s.cached = Absent
    BY <1>1, <2>1 DEF Dictionary, Fits
  <2>2. CASE s.cached # Absent
    <3>1. Dictionary(k) = Dictionary(s)
      BY <1>1, <2>2 DEF Dictionary
    <3>2. \A g \in Fields \ k.unsaid : g \in Fields \ s.unsaid /\ d[g] = s.field[g]
      BY <1>1, <1>2, <2>2
    <3> QED BY <1>1, <3>1, <3>2 DEF Fits
  <2> QED BY <2>1, <2>2
<1> QED BY <1>1, <1>2, <1>4, <1>5 DEF k, d, ButFor

\* A script in agreement stays so when its roles are set.
LEMMA RolesAgree ==
    ASSUME NEW s, Agrees(s), NEW v \in Roles
    PROVE  /\ Agrees(Kept(s, "roles", v)) /\ ButFor(Kept(s, "roles", v), s, "roles")
           /\ Agrees(Reset(s, "roles", v)) /\ ButFor(Reset(s, "roles", v), s, "roles")
<1>1. s \in Scripts /\ "roles" \in Fields
  BY DEF Agrees, Fields
<1>2. /\ With(s.field, "roles", v) \in Dictionaries
      /\ With(s.field, "roles", v).sessionID = s.field.sessionID
      /\ s.field.sessionID \in Sessions /\ With(s.field, "roles", v).sessionID \in Sessions
  BY <1>1, ScriptParts, SetField
<1> DEFINE k == Kept(s, "roles", v)
<1>3. Agrees(k) /\ ButFor(k, s, "roles")
  <2>1. Fits(s)
    BY DEF Agrees
  <2>2. /\ k \in Scripts /\ k.field = With(s.field, "roles", v) /\ k.from = s.from
        /\ Fits(k) /\ ButFor(k, s, "roles")
    BY <1>1, <1>2, <2>1, KeptField
  <2>3. s.from # Absent => s.field.sessionID = s.from
    BY DEF Agrees
  <2> HIDE DEF k
  <2>4. k.from # Absent => k.field.sessionID = k.from
    BY <1>2, <2>2, <2>3
  <2> QED BY <2>2, <2>4 DEF Agrees
<1> DEFINE r == Reset(s, "roles", v)
<1>4. /\ r.field = With(s.field, "roles", v) /\ r.cached = Absent /\ r.creator = s.creator
      /\ r.unsaid = {} /\ r.from = s.from /\ r.since = s.since
  BY <1>1 DEF Reset, Scripts, With
<1>5. r \in Scripts
  <2>1. s.field.sessionID # Absent
    BY <1>2, ScriptAssumption
  <2> QED BY <1>1, <1>2, <1>4, <2>1 DEF Reset, Scripts, With
<1> HIDE DEF r, k
<1>6. Agrees(r)
  BY <1>2, <1>4, <1>5 DEF Agrees, Fits, Dictionary
<1>7. ButFor(r, s, "roles")
  <2>1. \A g \in Fields \ {"roles"} : With(s.field, "roles", v)[g] = s.field[g]
    BY <1>1, ScriptParts DEF Dictionaries, Fields, With
  <2> QED BY <1>4, <2>1 DEF ButFor
<1> QED BY <1>3, <1>6, <1>7 DEF r, k

\* And when its switchboard is set.
LEMMA SwitchboardAgrees ==
    ASSUME NEW s, Agrees(s)
    PROVE  /\ Agrees(Kept(s, "switchboard", Host))
           /\ Kept(s, "switchboard", Host).field.sessionID = s.field.sessionID
           /\ Kept(s, "switchboard", Host).field.switchboard = Host
           /\ Kept(s, "switchboard", Host).from = s.from
           /\ ButFor(Kept(s, "switchboard", Host), s, "switchboard")
<1>1. s \in Scripts /\ "switchboard" \in Fields
  BY DEF Agrees, Fields
<1>2. /\ With(s.field, "switchboard", Host) \in Dictionaries
      /\ With(s.field, "switchboard", Host).sessionID = s.field.sessionID
      /\ With(s.field, "switchboard", Host).switchboard = Host
      /\ s.field.sessionID \in Sessions /\ With(s.field, "switchboard", Host).sessionID \in Sessions
  BY <1>1, ScriptParts, SetField
<1> DEFINE k == Kept(s, "switchboard", Host)
<1>3. Fits(s)
  BY DEF Agrees
<1>4. /\ k \in Scripts /\ k.field = With(s.field, "switchboard", Host) /\ k.from = s.from
      /\ Fits(k) /\ ButFor(k, s, "switchboard")
  BY <1>1, <1>2, <1>3, KeptField
<1>5. s.from # Absent => s.field.sessionID = s.from
  BY DEF Agrees
<1> HIDE DEF k
<1>6. k.from # Absent => k.field.sessionID = k.from
  BY <1>2, <1>4, <1>5
<1>7. Agrees(k)
  BY <1>4, <1>6 DEF Agrees
<1> QED BY <1>2, <1>4, <1>7 DEF k

\* A script whose session is set is from nowhere, and in agreement.
LEMMA SessionAgrees ==
    ASSUME NEW s, Agrees(s), NEW v \in Sessions
    PROVE  /\ Agrees([Kept(s, "sessionID", v) EXCEPT !.from = Absent])
           /\ ButFor([Kept(s, "sessionID", v) EXCEPT !.from = Absent], s, "sessionID")
           /\ s.from = Absent => Agrees(Kept(s, "sessionID", v))
           /\ Kept(s, "sessionID", v).field.sessionID = v
<1>1. s \in Scripts /\ "sessionID" \in Fields
  BY DEF Agrees, Fields
<1>2. /\ With(s.field, "sessionID", v) \in Dictionaries
      /\ With(s.field, "sessionID", v).sessionID = v
  BY <1>1, ScriptParts, SetField
<1> DEFINE k == Kept(s, "sessionID", v)
           n == [k EXCEPT !.from = Absent]
<1>3. k \in Scripts /\ k.from = s.from /\ k.field.sessionID = v
      /\ Fits(k) /\ ButFor(k, s, "sessionID")
  BY <1>1, <1>2, KeptField DEF Agrees
<1> HIDE DEF k
<1>4. /\ n \in Scripts /\ n.from = Absent /\ n.field = k.field /\ n.cached = k.cached
      /\ n.unsaid = k.unsaid /\ n.creator = k.creator /\ n.since = k.since
  BY <1>3 DEF Scripts
<1> HIDE DEF n
<1>5. Agrees(n)
  BY <1>3, <1>4 DEF Agrees, Fits, Dictionary
<1>6. s.from = Absent => Agrees(k)
  BY <1>3 DEF Agrees
<1>7. ButFor(n, s, "sessionID")
  BY <1>3, <1>4 DEF ButFor
<1> QED BY <1>3, <1>5, <1>6, <1>7 DEF k, n

\* What getDictionary caches is what the script was going to say anyway.
LEMMA CachingAgrees ==
    ASSUME NEW s, Agrees(s)
    PROVE  /\ Agrees([s EXCEPT !.cached = Dictionary(s)])
           /\ \A f \in Fields : ButFor([s EXCEPT !.cached = Dictionary(s)], s, f)
           /\ [s EXCEPT !.cached = Dictionary(s)].field = s.field
<1> DEFINE dic == Dictionary(s)
           n == [s EXCEPT !.cached = dic]
<1>1. s \in Scripts /\ dic \in Dictionaries /\ dic # Absent
  BY DictionaryIs, ScriptAssumption DEF Agrees
<1> HIDE DEF dic
<1>2. /\ n \in Scripts /\ n.field = s.field /\ n.cached = dic /\ n.creator = s.creator
      /\ n.unsaid = s.unsaid /\ n.since = s.since /\ n.from = s.from
  BY <1>1 DEF Scripts
<1> HIDE DEF n
<1>3. Dictionary(n) = dic
  BY <1>1, <1>2 DEF Dictionary
<1>4. Fits(n)
  BY <1>2, <1>3 DEF Agrees, Fits, dic
<1>5. Agrees(n)
  BY <1>2, <1>4 DEF Agrees
<1> QED BY <1>2, <1>5 DEF ButFor, n, dic

\* A script made of a dictionary agrees with it.
LEMMA ScriptOfAgrees ==
    ASSUME NEW d \in Dictionaries, NEW deprecated \in BOOLEAN, NEW id \in Sessions,
           d.sessionID # Absent => id = d.sessionID,
           NEW from \in Sessions \cup {Absent}, from # Absent => id = from
    PROVE  Agrees(ScriptOf(d, deprecated, id, from))
<1> DEFINE s == ScriptOf(d, deprecated, id, from)
           f == [d EXCEPT !.sessionID = id]
           c == IF deprecated THEN [d EXCEPT !.switchboard = Absent] ELSE d
           u == (IF d.sessionID = Absent THEN {"sessionID"} ELSE {})
                \cup (IF deprecated THEN {"switchboard"} ELSE {})
<1>1. /\ f \in Dictionaries /\ f.sessionID = id /\ f.switchboard = d.switchboard /\ f.roles = d.roles
      /\ c \in Dictionaries /\ c.sessionID = d.sessionID /\ c.roles = d.roles
      /\ ~deprecated => c.switchboard = d.switchboard
  BY DEF Dictionaries
<1>2. u \subseteq Fields /\ u \in SUBSET Fields
  BY DEF Fields
<1>3. s = [field |-> f, cached |-> c, creator |-> d.sessionID = Absent, unsaid |-> u, since |-> {},
           from |-> from]
  BY DEF ScriptOf
<1>4. \A g \in Fields \ u : c[g] = f[g]
  <2>1. "sessionID" \notin u => d.sessionID = id
    OBVIOUS
  <2>2. "switchboard" \notin u => ~deprecated
    OBVIOUS
  <2> HIDE DEF c, f, u
  <2> QED BY <1>1, <2>1, <2>2 DEF Fields
<1>5. id # Absent /\ c # Absent
  BY <1>1, ScriptAssumption
<1>6. (d.sessionID = Absent) \in BOOLEAN
  OBVIOUS
<1> HIDE DEF s, f, c, u
<1>7. s \in Scripts
  BY <1>1, <1>2, <1>3, <1>5, <1>6 DEF Scripts
<1>8. s.field = f /\ Dictionary(s) = c /\ s.unsaid = u /\ s.from = from
  BY <1>3, <1>5 DEF Dictionary
<1> QED BY <1>1, <1>4, <1>7, <1>8 DEF Agrees, Fits, s

-----------------------------------------------------------------------------
(* The steps.                                                              *)

\* No script, nobody anywhere.
LEMMA ScriptInitOK == ScriptInit => ScriptInvariant
BY ScriptAssumption DEF ScriptInit, ScriptInvariant, ScriptTypeOK, Named, DescribedByCreator

\* Changing a script, where it is in a room to one that is as much to the room,
\* keeps the invariant if the script agrees with its dictionary.
LEMMA ChangeKeeps ==
    ASSUME ScriptInvariant, NEW p \in People, NEW new, Agrees(new),
           place[p] # Absent => /\ FitsRoom(new, place[p], described[place[p]])
                                /\ new.creator = scripts[p].creator,
           scripts' = [scripts EXCEPT ![p] = new], UNCHANGED <<place, described, crashed>>
    PROVE  ScriptInvariant'
<1>1. place' = place /\ described' = described /\ crashed' = crashed
  OBVIOUS
<1>2. ScriptTypeOK'
  BY <1>1 DEF ScriptInvariant, ScriptTypeOK, Agrees
<1>3. \A q \in People : scripts'[q] = IF q = p THEN new ELSE scripts[q]
  BY DEF ScriptInvariant, ScriptTypeOK
<1>4. \A q \in People : (scripts[q])' # Absent => Agrees((scripts[q])')
  BY <1>3 DEF ScriptInvariant
<1>5. \A session \in Sessions : Named(session)'
  BY <1>1 DEF ScriptInvariant, Named
<1>6. new # Absent
  BY ScriptAssumption DEF Agrees
<1>7. \A q \in People : place[q] # Absent => scripts'[q].creator = scripts[q].creator
  BY <1>3
<1>8. ASSUME NEW q \in People, place[q] # Absent
      PROVE  /\ scripts'[q] # Absent /\ described[place[q]] # Absent
             /\ FitsRoom(scripts'[q], place[q], described[place[q]])
  <2>1. CASE q = p
    BY <1>3, <1>6, <1>8, <2>1 DEF ScriptInvariant, DescribedByCreator
  <2>2. CASE q # p
    BY <1>3, <1>8, <2>2 DEF ScriptInvariant, DescribedByCreator, FitsRoom
  <2> QED BY <2>1, <2>2
<1>9. DescribedByCreator'
  <2>1. ASSUME NEW q \in People, NEW o \in People \ {q}, place[q] # Absent, place[o] = place[q]
        PROVE  ~(scripts'[q].creator /\ scripts'[o].creator)
    BY <1>7, <2>1 DEF ScriptInvariant, DescribedByCreator
  <2> QED BY <1>1, <1>8, <2>1 DEF DescribedByCreator, FitsRoom, Describes
<1> QED BY <1>2, <1>4, <1>5, <1>9 DEF ScriptInvariant

\* A setter keeps the invariant: where others were told of what it sets, that is
\* written down.
LEMMA SetsKeep ==
    ASSUME ScriptInvariant, NEW p \in People, NEW f \in Fields, NEW new,
           Agrees(new), ButFor(new, scripts[p], f), f = "switchboard" => new.field[f] = Host,
           Sets(p, f, new)
    PROVE  ScriptInvariant'
<1> DEFINE old == scripts[p]
           same == new.field[f] = old.field[f]
           since == IF same THEN new.since ELSE new.since \cup ({f} \cap ToldOf(p))
           n == [new EXCEPT !.since = since]
<1>1. scripts' = [scripts EXCEPT ![p] = n] /\ UNCHANGED <<place, described, crashed>> /\ Agrees(old)
  BY DEF Sets, ScriptInvariant
<1>2. new \in Scripts /\ old \in Scripts /\ new.since \subseteq Fields
  BY <1>1, ScriptParts DEF Agrees
<1>3. since \in SUBSET Fields /\ new.since \subseteq since
  BY <1>2
<1>4. f \in ToldOf(p) /\ ~same => f \in since
  OBVIOUS
<1> HIDE DEF since
<1>5. /\ n \in Scripts /\ n.field = new.field /\ n.cached = new.cached /\ n.creator = new.creator
      /\ n.unsaid = new.unsaid /\ n.since = since /\ n.from = new.from
  BY <1>2, <1>3 DEF Scripts
<1> HIDE DEF n, old
<1>6. Agrees(n)
  BY <1>5 DEF Agrees, Fits, Dictionary
<1>7. new.since = old.since /\ new.creator = old.creator /\ \A g \in Fields \ {f} : new.field[g] = old.field[g]
  BY DEF ButFor, old
<1>8. ASSUME place[p] # Absent
      PROVE  FitsRoom(n, place[p], described[place[p]])
  <2> DEFINE d == described[place[p]]
  <2>1. FitsRoom(old, place[p], d)
    BY <1>8 DEF ScriptInvariant, DescribedByCreator, FitsRoom, old
  <2>2. "sessionID" \in ToldOf(p) /\ (old.creator => ToldOf(p) = Fields)
    BY <1>8 DEF ToldOf, Fields, old
  <2> HIDE DEF d
  <2>3. n.field.switchboard = Host
    <3>1. CASE f = "switchboard"
      BY <1>5, <3>1
    <3>2. CASE f # "switchboard"
      BY <1>5, <1>7, <2>1, <3>2 DEF FitsRoom, Fields
    <3> QED BY <3>1, <3>2
  <2>4. \A g \in ToldOf(p) \cap Fields : g \notin n.since => g \notin old.since /\ n.field[g] = old.field[g]
    BY <1>3, <1>4, <1>5, <1>7
  <2>5. "sessionID" \notin n.since => n.field.sessionID = place[p]
    BY <2>1, <2>2, <2>4 DEF FitsRoom, Fields
  <2>6. n.creator => Describes(d, n)
    BY <1>5, <1>7, <2>1, <2>2, <2>4 DEF FitsRoom, Describes
  <2> QED BY <2>3, <2>5, <2>6 DEF FitsRoom, d
<1>9. n.creator = scripts[p].creator
  BY <1>5, <1>7 DEF old
<1> QED BY <1>1, <1>6, <1>8, <1>9, ChangeKeeps

\* The session a script is given is its dictionary's, or one of the sessions.
LEMMA GivenIs ==
    ASSUME NEW d \in Dictionaries, NEW id \in Given(d)
    PROVE  id \in Sessions /\ (d.sessionID # Absent => id = d.sessionID)
BY DEF Given, Dictionaries

\* Making and changing scripts keep the invariant.
LEMMA ChangesKeep ==
    ASSUME ScriptInvariant, NEW p \in People,
           NewScript(p) \/ SetSessionID(p) \/ SetHost(p) \/ SetRoles(p) \/ AddRole(p)
    PROVE  ScriptInvariant'
<1> DEFINE s == scripts[p]
<1>0. s # Absent => Agrees(s) /\ s \in Scripts
  BY DEF ScriptInvariant, Agrees
<1>1. CASE NewScript(p)
  <2>0. PICK d \in Dictionaries, deprecated \in BOOLEAN : \E id \in Given(d) :
            scripts' = [scripts EXCEPT ![p] = ScriptOf(d, deprecated, id, Absent)]
    BY <1>1 DEF NewScript
  <2>1. PICK id \in Given(d) : scripts' = [scripts EXCEPT ![p] = ScriptOf(d, deprecated, id, Absent)]
    BY <2>0
  <2>2. Agrees(ScriptOf(d, deprecated, id, Absent))
    BY GivenIs, ScriptOfAgrees
  <2>3. place[p] = Absent /\ UNCHANGED <<place, described, crashed>>
    BY <1>1 DEF NewScript, ScriptInvariant, DescribedByCreator
  <2> QED BY <2>1, <2>2, <2>3, ChangeKeeps
<1>2. CASE SetSessionID(p)
  <2>1. PICK v \in Sessions : Sets(p, "sessionID", [Kept(s, "sessionID", v) EXCEPT !.from = Absent])
    BY <1>2 DEF SetSessionID
  <2>2. Agrees(s) /\ "sessionID" \in Fields
    BY <1>0, <2>1 DEF Sets, Fields
  <2> DEFINE new == [Kept(s, "sessionID", v) EXCEPT !.from = Absent]
  <2>3. Agrees(new) /\ ButFor(new, s, "sessionID")
    BY <2>2, SessionAgrees
  <2> HIDE DEF new
  <2> QED BY <2>1, <2>2, <2>3, SetsKeep DEF new
<1>3. CASE SetHost(p)
  <2>1. Sets(p, "switchboard", Kept(s, "switchboard", Host))
    BY <1>3 DEF SetHost
  <2>2. Agrees(s) /\ "switchboard" \in Fields
    BY <1>0, <2>1 DEF Sets, Fields
  <2> DEFINE new == Kept(s, "switchboard", Host)
  <2>3. Agrees(new) /\ ButFor(new, s, "switchboard") /\ new.field["switchboard"] = Host
    BY <2>2, SwitchboardAgrees
  <2> HIDE DEF new
  <2> QED BY <2>1, <2>2, <2>3, SetsKeep DEF new
<1>4. CASE SetRoles(p)
  <2>1. PICK v \in Roles : Sets(p, "roles", Kept(s, "roles", v))
    BY <1>4 DEF SetRoles
  <2>2. Agrees(s) /\ "roles" \in Fields
    BY <1>0, <2>1 DEF Sets, Fields
  <2> DEFINE new == Kept(s, "roles", v)
  <2>3. Agrees(new) /\ ButFor(new, s, "roles")
    BY <2>2, RolesAgree
  <2> HIDE DEF new
  <2> QED BY <2>1, <2>2, <2>3, SetsKeep DEF new
<1>5. CASE AddRole(p)
  <2>1. PICK v \in Roles : Sets(p, "roles", Reset(s, "roles", v))
    BY <1>5 DEF AddRole
  <2>2. Agrees(s) /\ "roles" \in Fields
    BY <1>0, <2>1 DEF Sets, Fields
  <2> DEFINE new == Reset(s, "roles", v)
  <2>3. Agrees(new) /\ ButFor(new, s, "roles")
    BY <2>2, RolesAgree
  <2> HIDE DEF new
  <2> QED BY <2>1, <2>2, <2>3, SetsKeep DEF new
<1> QED BY <1>1, <1>2, <1>3, <1>4, <1>5

\* Fetching a description makes a script that agrees with it, and leads to the
\* room unless its session was unsaid.
LEMMA FetchKeeps ==
    ASSUME ScriptInvariant, NEW p \in People, Fetch(p)
    PROVE  ScriptInvariant'
<1>0. PICK session \in Sessions :
          described[session] # Absent /\ \E s \in Described(session) : scripts' = [scripts EXCEPT ![p] = s]
  BY DEF Fetch
<1>1. PICK s \in Described(session) : scripts' = [scripts EXCEPT ![p] = s]
  BY <1>0
<1> DEFINE d == described[session]
           from == IF "sessionID" \in d.unsaid THEN Absent ELSE session
<1>2. d.dic \in Dictionaries /\ ("sessionID" \notin d.unsaid => d.dic.sessionID = session) /\ session # Absent
  BY <1>0, ScriptAssumption DEF ScriptInvariant, ScriptTypeOK, Named, Descriptions
<1>3. PICK id \in Given(d.dic) : s = ScriptOf(d.dic, FALSE, id, from)
  BY <1>1 DEF Described
<1>4. id \in Sessions /\ (d.dic.sessionID # Absent => id = d.dic.sessionID)
  BY <1>2, GivenIs
<1>5. from \in Sessions \cup {Absent} /\ (from # Absent => id = from)
  BY <1>2, <1>4
<1> HIDE DEF d, from
<1>6. Agrees(s)
  BY <1>2, <1>3, <1>4, <1>5, ScriptOfAgrees
<1>7. place[p] = Absent /\ UNCHANGED <<place, described, crashed>>
  BY DEF Fetch
<1> QED BY <1>1, <1>6, <1>7, ChangeKeeps

\* Entering a room by a script that agrees with its dictionary: who finds nobody
\* describes it, by the dictionary, truly but for what is unsaid.
LEMMA EnteredKeeps ==
    ASSUME ScriptInvariant, NEW p \in People, NEW script, Agrees(script), Entered(p, script)
    PROVE  ScriptInvariant'
<1> DEFINE s == IF script.field.switchboard = Absent THEN Kept(script, "switchboard", Host) ELSE script
           session == s.field.sessionID
           first == \A q \in People : place[q] # session
           new == [s EXCEPT !.creator = first, !.since = {}, !.cached = IF first THEN Dictionary(s) ELSE @]
           description == [dic |-> Dictionary(s), unsaid |-> s.unsaid]
<1>1. Agrees(s) /\ s.field.switchboard = Host
  <2>1. script.field.switchboard \in {Host, Absent}
    BY ScriptParts DEF Agrees, Dictionaries
  <2> QED BY <2>1, SwitchboardAgrees
<1>2. /\ place[p] = Absent /\ place' = [place EXCEPT ![p] = session]
      /\ scripts' = [scripts EXCEPT ![p] = new]
      /\ described' = IF first THEN [described EXCEPT ![session] = description] ELSE described
      /\ crashed' = crashed
  BY DEF Entered
<1> HIDE DEF s
<1>3. s \in Scripts /\ Fits(s) /\ session \in Sessions /\ Dictionary(s) \in Dictionaries
  BY <1>1, ScriptParts, DictionaryIs DEF Agrees
<1>4. first \in BOOLEAN /\ session # Absent /\ Dictionary(s) # Absent
  BY <1>3, ScriptAssumption
<1>5. description \in Descriptions /\ description # Absent
  <2> DEFINE dic == Dictionary(s)
             unsaid == s.unsaid
  <2>1. unsaid \in SUBSET Fields /\ dic \in Dictionaries
    BY <1>3, ScriptParts
  <2> HIDE DEF dic, unsaid
  <2>2. [dic |-> dic, unsaid |-> unsaid] \in Descriptions
    BY <2>1 DEF Descriptions
  <2> QED BY <2>2, ScriptAssumption DEF dic, unsaid
<1>6. "sessionID" \notin description.unsaid => description.dic.sessionID = session
  BY <1>3 DEF Fits, Fields
<1>7. description.dic = Dictionary(s) /\ description.unsaid = s.unsaid
  OBVIOUS
<1>8. /\ new.field = s.field /\ new.unsaid = s.unsaid /\ new.from = s.from /\ new.creator = first
      /\ new.since = {}
      /\ new.cached = IF first THEN Dictionary(s) ELSE s.cached
  BY <1>3 DEF Scripts
<1>9. new \in Scripts
  <2> DEFINE dic == Dictionary(s)
             cached == IF first THEN dic ELSE s.cached
  <2>1. new = [s EXCEPT !.creator = first, !.since = {}, !.cached = cached]
    OBVIOUS
  <2>2. cached \in Dictionaries \cup {Absent}
    BY <1>3, <1>4 DEF Scripts
  <2> HIDE DEF cached, first, new
  <2> QED BY <1>3, <1>4, <2>1, <2>2 DEF Scripts
<1>10. first => \A q \in People : place[q] # session
  OBVIOUS
<1>11. ~first => \E q \in People : place[q] = session
  OBVIOUS
<1> HIDE DEF new, description, session, first
<1>12. Dictionary(new) = Dictionary(s)
  BY <1>4, <1>8 DEF Dictionary
<1>13. Agrees(new) /\ new # Absent /\ new.field.sessionID = session /\ new.field.switchboard = Host
  <2>1. Fits(new)
    BY <1>3, <1>8, <1>12 DEF Fits
  <2>2. new.from # Absent => new.field.sessionID = new.from
    BY <1>1, <1>8 DEF Agrees
  <2> QED BY <1>1, <1>8, <1>9, <2>1, <2>2, ScriptAssumption DEF Agrees, session
<1>14. ScriptTypeOK'
  BY <1>2, <1>3, <1>5, <1>9 DEF ScriptInvariant, ScriptTypeOK
<1>15. /\ \A q \in People : scripts'[q] = IF q = p THEN new ELSE scripts[q]
       /\ \A q \in People : place'[q] = IF q = p THEN session ELSE place[q]
       /\ \A t \in Sessions : described'[t] = IF first /\ t = session THEN description ELSE described[t]
  BY <1>2 DEF ScriptInvariant, ScriptTypeOK
<1>16. \A q \in People : (scripts[q])' # Absent => Agrees((scripts[q])')
  BY <1>13, <1>15 DEF ScriptInvariant
<1>17. ASSUME NEW t \in Sessions PROVE Named(t)'
  BY <1>6, <1>15 DEF ScriptInvariant, Named
<1>18. \A q \in People : place[q] # Absent => place[q] \in Sessions
  BY DEF ScriptInvariant, ScriptTypeOK
<1>19. Describes(description, new)
  BY <1>3, <1>7, <1>8 DEF Describes, Fits
<1>20. ASSUME NEW q \in People, place'[q] # Absent
       PROVE  /\ scripts'[q] # Absent /\ described'[place'[q]] # Absent
              /\ FitsRoom(scripts'[q], place'[q], described'[place'[q]])
  <2>1. CASE q = p
    <3>1. place'[q] = session /\ scripts'[q] = new
      BY <1>15, <2>1
    <3>2. CASE first
      <4>1. described'[session] = description
        BY <1>3, <1>15, <3>2
      <4> QED BY <1>5, <1>13, <1>19, <3>1, <4>1 DEF FitsRoom
    <3>3. CASE ~first
      <4>1. described[session] # Absent
        BY <1>4, <1>11, <3>3 DEF ScriptInvariant, DescribedByCreator
      <4> QED BY <1>3, <1>8, <1>13, <1>15, <3>1, <3>3, <4>1 DEF FitsRoom
    <3> QED BY <3>2, <3>3
  <2>2. CASE q # p
    <3>1. place'[q] = place[q] /\ scripts'[q] = scripts[q] /\ place[q] # Absent
      BY <1>15, <1>20, <2>2
    <3>2. described'[place[q]] = described[place[q]]
      BY <1>10, <1>15, <1>18, <3>1
    <3> QED BY <3>1, <3>2 DEF ScriptInvariant, DescribedByCreator, FitsRoom
  <2> QED BY <2>1, <2>2
<1>21. ASSUME NEW q \in People, NEW o \in People \ {q}, place'[q] # Absent, place'[o] = place'[q]
       PROVE  ~(scripts'[q].creator /\ scripts'[o].creator)
  <2>1. CASE q # p /\ o # p
    BY <1>15, <1>21, <2>1 DEF ScriptInvariant, DescribedByCreator
  <2>2. CASE q = p \/ o = p
    <3>1. ~first
      BY <1>10, <1>15, <1>21, <2>2
    <3> QED BY <1>8, <1>15, <2>2, <3>1
  <2> QED BY <2>1, <2>2
<1>22. DescribedByCreator'
  BY <1>20, <1>21 DEF DescribedByCreator, FitsRoom, Describes
<1> QED BY <1>14, <1>16, <1>17, <1>22 DEF ScriptInvariant

\* The two ways into a room.
LEMMA JoinsKeep ==
    ASSUME ScriptInvariant, NEW p \in People, NewJunction(p) \/ NewJunctionWithURL(p)
    PROVE  ScriptInvariant'
<1>1. CASE NewJunction(p)
  <2>1. Agrees(scripts[p]) /\ Entered(p, scripts[p])
    BY <1>1 DEF NewJunction, ScriptInvariant
  <2> QED BY <2>1, EnteredKeeps
<1>2. CASE NewJunctionWithURL(p)
  <2> DEFINE blank(id) == ScriptOf(Empty, FALSE, id, Absent)
             hosted(id) == Kept(blank(id), "switchboard", Host)
  <2>1. PICK session \in Sessions, id \in Given(Empty) :
            Entered(p, Kept(hosted(id), "sessionID", session))
    BY <1>2 DEF NewJunctionWithURL
  <2>2. Empty \in Dictionaries
    BY DEF Empty, Fields, Dictionaries
  <2>3. id \in Sessions /\ (Empty.sessionID # Absent => id = Empty.sessionID)
    BY <2>2, GivenIs
  <2>4. Agrees(blank(id))
    BY <2>2, <2>3, ScriptOfAgrees
  <2>5. blank(id).from = Absent
    BY DEF ScriptOf
  <2> HIDE DEF blank
  <2>6. Agrees(hosted(id)) /\ hosted(id).from = Absent
    BY <2>4, <2>5, SwitchboardAgrees
  <2> HIDE DEF hosted
  <2>7. Agrees(Kept(hosted(id), "sessionID", session))
    BY <2>6, SessionAgrees
  <2> QED BY <2>1, <2>7, EnteredKeeps
<1> QED BY <1>1, <1>2

\* Leaving a room, by whatever script from then on or none, takes the description
\* along with the last one only.
LEMMA LeftKeeps ==
    ASSUME ScriptInvariant, NEW p \in People, Left(p), NEW new, new = Absent \/ Agrees(new),
           scripts' = [scripts EXCEPT ![p] = new], crashed' \in SUBSET People
    PROVE  ScriptInvariant'
<1>1. /\ place' = [place EXCEPT ![p] = Absent]
      /\ described' = IF place[p] = Absent \/ \E q \in People \ {p} : place[q] = place[p] THEN described
                      ELSE [described EXCEPT ![place[p]] = Absent]
  BY DEF Left
<1>2. ScriptTypeOK'
  BY <1>1 DEF ScriptInvariant, ScriptTypeOK, Agrees
<1>3. place[p] = Absent \/ place[p] \in Sessions
  BY DEF ScriptInvariant, ScriptTypeOK
<1>4. /\ \A q \in People : place'[q] = IF q = p THEN Absent ELSE place[q]
      /\ \A q \in People : scripts'[q] = IF q = p THEN new ELSE scripts[q]
      /\ \A t \in Sessions : described'[t] = described[t] \/ described'[t] = Absent
      /\ \A q \in People \ {p} : place[q] \in Sessions => described'[place[q]] = described[place[q]]
  BY <1>1, <1>3 DEF ScriptInvariant, ScriptTypeOK
<1>5. \A t \in Sessions : Named(t)'
  BY <1>4 DEF ScriptInvariant, Named
<1>6. \A q \in People : place[q] # Absent => place[q] \in Sessions
  BY DEF ScriptInvariant, ScriptTypeOK
<1>7. \A q \in People : place'[q] # Absent =>
          /\ place'[q] = place[q] /\ scripts'[q] = scripts[q]
          /\ described'[place[q]] = described[place[q]]
  BY <1>4, <1>6
<1>8. DescribedByCreator'
  BY <1>7 DEF ScriptInvariant, DescribedByCreator, Describes
<1>9. \A q \in People : (scripts[q])' # Absent => Agrees((scripts[q])')
  BY <1>4 DEF ScriptInvariant
<1> QED BY <1>2, <1>5, <1>8, <1>9 DEF ScriptInvariant

\* Departing, and the two ways to crash; getDictionary where it does not.
LEMMA DepartKeeps ==
    ASSUME ScriptInvariant, NEW p \in People, Depart(p) \/ FetchNothing(p) \/ GetDictionary(p)
    PROVE  ScriptInvariant'
<1>1. ASSUME Crash(p) PROVE ScriptInvariant'
  <2>1. Left(p) /\ scripts' = [scripts EXCEPT ![p] = Absent] /\ crashed' \in SUBSET People
    BY <1>1 DEF Crash, ScriptInvariant, ScriptTypeOK
  <2> QED BY <2>1, LeftKeeps
<1>2. CASE Depart(p)
  <2> DEFINE s == scripts[p]
             new == [s EXCEPT !.since = {}]
  <2>1. Left(p) /\ scripts' = [scripts EXCEPT ![p] = new] /\ crashed' \in SUBSET People
    BY <1>2 DEF Depart, ScriptInvariant, ScriptTypeOK
  <2>2. Agrees(s)
    BY <1>2 DEF Depart, ScriptInvariant, DescribedByCreator
  <2> HIDE DEF s
  <2>3. /\ new \in Scripts /\ new.field = s.field /\ new.cached = s.cached
        /\ new.unsaid = s.unsaid /\ new.from = s.from
    BY <2>2 DEF Agrees, Scripts
  <2> HIDE DEF new
  <2>4. Agrees(new)
    BY <2>2, <2>3 DEF Agrees, Fits, Dictionary
  <2> QED BY <2>1, <2>4, LeftKeeps
<1>3. CASE FetchNothing(p)
  BY <1>1, <1>3 DEF FetchNothing
<1>4. CASE GetDictionary(p)
  <2> DEFINE s == scripts[p]
             new == [s EXCEPT !.cached = Dictionary(s)]
  <2>1. Agrees(s)
    BY <1>4 DEF GetDictionary, ScriptInvariant
  <2>2. Agrees(new) /\ new.field = s.field /\ \A f \in Fields : ButFor(new, s, f)
    BY <2>1, CachingAgrees
  <2>3. new.creator = s.creator /\ new.since = s.since
    BY <2>2 DEF ButFor, Fields
  <2>4. CASE scripts' = [scripts EXCEPT ![p] = new] /\ UNCHANGED <<place, described, crashed>>
    <3>1. place[p] # Absent => FitsRoom(s, place[p], described[place[p]])
      BY DEF ScriptInvariant, DescribedByCreator, FitsRoom
    <3> HIDE DEF s, new
    <3>2. place[p] # Absent => FitsRoom(new, place[p], described[place[p]])
      BY <2>2, <2>3, <3>1 DEF FitsRoom, Describes
    <3>3. new.creator = scripts[p].creator
      BY <2>3 DEF s
    <3> QED BY <2>2, <2>4, <3>2, <3>3, ChangeKeeps
  <2>5. CASE Crash(p)
    BY <1>1, <2>5
  <2> QED BY <1>4, <2>4, <2>5 DEF GetDictionary
<1> QED BY <1>2, <1>3, <1>4

\* Scripts, rooms and descriptions always agree, for any number of actors and
\* sessions (JXActivityScript.m 93-112, JXXMPPJunctionConfigHandler.h).
THEOREM ScriptsAgree == ScriptSpec => []ScriptInvariant
<1>1. ASSUME ScriptInvariant, [ScriptNext]_scriptVars PROVE ScriptInvariant'
  <2>1. CASE ScriptNext
    BY <1>1, <2>1, ChangesKeep, JoinsKeep, FetchKeeps, DepartKeeps DEF ScriptNext
  <2>2. CASE UNCHANGED scriptVars
    BY <1>1, <2>2 DEF scriptVars, ScriptInvariant, ScriptTypeOK, Named, DescribedByCreator, Describes
  <2> QED BY <1>1, <2>1, <2>2
<1> QED BY ScriptInitOK, <1>1, PTL DEF ScriptSpec

\* An activity is found by its description, but for what setRoles:, setHost: and
\* setSessionID: set behind a dictionary, or any setter in the room
\* (JXActivityScript.m 93-112, 171-174, JXXMPPJunction.mm 164-166).
THEOREM DescribedTrulyHolds == ScriptSpec => []DescribedTruly
<1>1. ScriptInvariant => DescribedTruly
  BY DEF ScriptInvariant, Agrees, Fits, DescribedTruly, DescribesItself, FetchedLeadsThere
<1> QED BY ScriptsAgree, <1>1, PTL

-----------------------------------------------------------------------------
(* The extras of a junction.                                               *)

\* What a walk may be about.
Hooks == Asking \cup Telling \cup {"none"}

\* A walk of the list: the hook, where it is, what there was when it began, who
\* was asked, and who said no.
Walks == [hook : Hooks, at : Nat, ret : BOOLEAN,
          began : Seq(Extras), asked : Seq(Extras), refused : SUBSET Extras]

\* Before, of a list of registrations.
Precedes(reg, d, e) ==
    \/ Priority[d] < Priority[e]
    \/ Priority[d] = Priority[e] /\ \E j, k \in 1..Len(reg) : j < k /\ reg[j] = d /\ reg[k] = e

\* In the order of the priorities, and of the registrations among equal ones.
Sorted(reg, s) == \A i, j \in 1..Len(s) : i < j => Precedes(reg, s[i], s[j])

\* The list is of those that are registered, each once, and in their order.
ListOK(list, reg) ==
    /\ list \in Seq(Extras) /\ reg \in Seq(Extras)
    /\ \A i, j \in 1..Len(reg) : reg[i] = reg[j] => i = j
    /\ Range(list) = Range(reg)
    /\ Sorted(reg, list)

\* A walk that enumerates has asked the first of those there were.
Enumerates(w, list, reg) ==
    /\ w.at \in 1..(Len(w.began) + 1)
    /\ Len(w.began) <= Len(list)
    /\ Sorted(reg, w.began)
    /\ Len(w.asked) = w.at - 1
    /\ \A i \in 1..Len(w.asked) : w.asked[i] = w.began[i]

\* A walk by index goes down a list that may grow.
GoesDown(w, list, reg) ==
    /\ w.at \in 0..Len(list)
    /\ \A i, j \in 1..Len(w.asked) : i < j => Precedes(reg, w.asked[j], w.asked[i])
    /\ \A i \in 1..w.at, j \in 1..Len(w.asked) : Precedes(reg, list[i], w.asked[j])
    /\ Range(w.began) \subseteq Range(list)
    /\ \A e \in Range(w.began) :
          \/ e \in Range(w.asked)
          \/ \E i \in 1..w.at : list[i] = e
          \/ \E n \in Range(list) \ Range(w.began) : Priority[n] < Priority[e]

\* A walk that says yes has been refused by nobody; the two ways of going on.
WalkOK(w, list, reg) ==
    /\ w \in Walks
    /\ w.ret => w.refused = {}
    /\ w.hook = "none" => w = NoWalk
    /\ w.hook \in Backward => GoesDown(w, list, reg)
    /\ w.hook \notin Backward \cup {"none"} => Enumerates(w, list, reg)

\* Of every thread's walk, whatever list and registrations there are by now.
ExtrasInvariant ==
    /\ ListOK(extras, registered)
    /\ walk \in [Threads -> Walks]
    /\ \A t \in Threads : WalkOK(walk[t], extras, registered)
    /\ stage \in {"new", "entered", "created", "joined", "left", "raised"}
    /\ walks \in 0..MaxWalks

-----------------------------------------------------------------------------
(* The order of the list.                                                  *)

\* The order is one.
LEMMA PrecedesTransitive ==
    ASSUME NEW reg \in Seq(Extras), \A i, j \in 1..Len(reg) : reg[i] = reg[j] => i = j,
           NEW a \in Extras, NEW b \in Extras, NEW c \in Extras,
           Precedes(reg, a, b), Precedes(reg, b, c)
    PROVE  Precedes(reg, a, c)
<1> DEFINE first(d, e) == \E j, k \in 1..Len(reg) : j < k /\ reg[j] = d /\ reg[k] = e
<1>1. first(a, b) /\ first(b, c) => first(a, c)
  <2> SUFFICES ASSUME first(a, b), first(b, c) PROVE first(a, c)
    OBVIOUS
  <2>1. PICK i, j \in 1..Len(reg) : i < j /\ reg[i] = a /\ reg[j] = b
    OBVIOUS
  <2>2. PICK k, l \in 1..Len(reg) : k < l /\ reg[k] = b /\ reg[l] = c
    OBVIOUS
  <2>3. j = k
    BY <2>1, <2>2
  <2> QED BY <2>1, <2>2, <2>3
<1>2. \A d, e : Precedes(reg, d, e) <=> Priority[d] < Priority[e] \/ (Priority[d] = Priority[e] /\ first(d, e))
  BY DEF Precedes
<1>3. Priority[a] \in Int /\ Priority[b] \in Int /\ Priority[c] \in Int
  BY PriorityAssumption
<1> HIDE DEF first
<1> QED BY <1>1, <1>2, <1>3

\* A registration leaves those before it in their order.
LEMMA PrecedesGrows ==
    ASSUME NEW reg \in Seq(Extras), NEW e \in Extras, NEW a, NEW b, Precedes(reg, a, b)
    PROVE  Precedes(Append(reg, e), a, b)
<1> DEFINE new == Append(reg, e)
<1>1. Len(new) = Len(reg) + 1 /\ Len(reg) \in Nat /\ \A i \in 1..Len(reg) : new[i] = reg[i]
  BY AppendProperties
<1> HIDE DEF new
<1>2. ASSUME NEW j \in 1..Len(reg), NEW k \in 1..Len(reg), j < k, reg[j] = a, reg[k] = b
      PROVE  \E x, y \in 1..Len(new) : x < y /\ new[x] = a /\ new[y] = b
  <2>1. j \in 1..Len(new) /\ k \in 1..Len(new) /\ new[j] = a /\ new[k] = b
    BY <1>1, <1>2
  <2> QED BY <1>2, <2>1
<1> QED BY <1>2 DEF Precedes, new

\* registerExtra: puts an extra behind those of its priority and less, and before
\* the others.
LEMMA InsertedAt ==
    ASSUME NEW list \in Seq(Extras), NEW e \in Extras,
           \A i, j \in 1..Len(list) : i < j => Priority[list[i]] <= Priority[list[j]]
    PROVE  \E k \in 1..(Len(list) + 1) :
              /\ Inserted(list, e) \in Seq(Extras)
              /\ Len(Inserted(list, e)) = Len(list) + 1
              /\ \A i \in 1..(k - 1) : Inserted(list, e)[i] = list[i] /\ Priority[list[i]] <= Priority[e]
              /\ Inserted(list, e)[k] = e
              /\ \A i \in k..Len(list) : Inserted(list, e)[i + 1] = list[i] /\ Priority[list[i]] > Priority[e]
<1> DEFINE I == {i \in 1..Len(list) : Priority[list[i]] > Priority[e]}
           n == Inserted(list, e)
<1>1. /\ Len(list) \in Nat /\ \A i \in 1..Len(list) : list[i] \in Extras /\ Priority[list[i]] \in Int
      /\ Priority[e] \in Int
  BY PriorityAssumption
<1>2. SelectInSeq(list, LAMBDA x : Priority[x] > Priority[e]) = IF I # {} THEN Min(I) ELSE 0
  BY DEF SelectInSeq
<1>3. CASE I = {}
  <2>1. n = Append(list, e)
    BY <1>2, <1>3 DEF Inserted
  <2>2. \A i \in 1..Len(list) : Priority[list[i]] <= Priority[e]
    BY <1>1, <1>3
  <2>3. /\ n \in Seq(Extras) /\ Len(n) = Len(list) + 1 /\ n[Len(list) + 1] = e
        /\ \A i \in 1..Len(list) : n[i] = list[i]
    BY <2>1, AppendProperties
  <2> DEFINE k == Len(list) + 1
  <2>4. k \in 1..(Len(list) + 1) /\ 1..(k - 1) = 1..Len(list) /\ k..Len(list) = {}
    BY <1>1
  <2> HIDE DEF n, k
  <2>5. \A i \in 1..(k - 1) : n[i] = list[i] /\ Priority[list[i]] <= Priority[e]
    BY <2>2, <2>3, <2>4
  <2>6. n[k] = e
    BY <2>3 DEF k
  <2> QED BY <2>3, <2>4, <2>5, <2>6 DEF n
<1>4. CASE I # {}
  <2>1. PICK k \in I : \A i \in I : k <= i
    <3>1. I \in SUBSET Nat
      BY <1>1
    <3> HIDE DEF I
    <3> QED BY <1>4, <3>1, LeastOf
  <2>2. Min(I) = k
    <3>1. \A x \in I : x \in Int
      BY <1>1
    <3>2. \A x \in I : (\A y \in I : x <= y) => x = k
      BY <2>1, <3>1
    <3> HIDE DEF I
    <3> QED BY <2>1, <3>2 DEF Min
  <2>3. k \in 1..Len(list) /\ Priority[list[k]] > Priority[e]
    BY <2>1
  <2>4. n = SubSeq(list, 1, k - 1) \o <<e>> \o SubSeq(list, k, Len(list))
    <3>1. SelectInSeq(list, LAMBDA x : Priority[x] > Priority[e]) = k
      BY <1>2, <1>4, <2>2
    <3>2. k # 0
      BY <1>1, <2>3
    <3> HIDE DEF I
    <3>3. n = InsertAt(list, k, e)
      BY <3>1, <3>2, Zenon DEF Inserted
    <3> QED BY <3>3 DEF InsertAt
  <2>5. \A i \in 1..(k - 1) : Priority[list[i]] <= Priority[e]
    BY <1>1, <2>1, <2>3
  <2>6. \A i \in k..Len(list) : Priority[list[i]] > Priority[e]
    <3>1. \A i \in k..Len(list) : i \in 1..Len(list) /\ (i = k \/ k < i)
      BY <1>1, <2>3
    <3> QED BY <1>1, <2>3, <3>1
  <2> DEFINE a == SubSeq(list, 1, k - 1)
             b == SubSeq(list, k, Len(list))
             o == <<e>>
  <2>7. /\ a \in Seq(Extras) /\ Len(a) = k - 1 /\ \A i \in 1..(k - 1) : a[i] = list[i]
        /\ b \in Seq(Extras) /\ Len(b) = Len(list) - k + 1 /\ \A i \in 1..(Len(list) - k + 1) : b[i] = list[k + i - 1]
    <3>1. \A i, j \in 1..Len(list) : list[i] \in Extras
      BY <1>1
    <3> QED BY <1>1, <2>3, SubSeqProperties
  <2>8. o \in Seq(Extras) /\ Len(o) = 1 /\ o[1] = e
    OBVIOUS
  <2> HIDE DEF a, b, o
  <2>9. /\ a \o o \in Seq(Extras) /\ Len(a \o o) = k
        /\ \A i \in 1..k : (a \o o)[i] = IF i <= k - 1 THEN a[i] ELSE o[i - (k - 1)]
    <3>1. Len(a) + Len(o) = k
      BY <1>1, <2>3, <2>7, <2>8
    <3>2. a \in Seq(Extras) /\ o \in Seq(Extras) /\ Len(a) = k - 1
      BY <2>7, <2>8
    <3>3. /\ a \o o \in Seq(Extras) /\ Len(a \o o) = Len(a) + Len(o)
          /\ \A i \in 1..(Len(a) + Len(o)) : (a \o o)[i] = IF i <= Len(a) THEN a[i] ELSE o[i - Len(a)]
      BY <3>2, ConcatProperties
    <3> QED BY <3>1, <3>2, <3>3
  <2>10. n = (a \o o) \o b
    BY <2>4 DEF a, b, o
  <2> HIDE DEF n
  <2> DEFINE c == a \o o
  <2>11. /\ c \in Seq(Extras) /\ Len(c) = k /\ n = c \o b
         /\ \A i \in 1..k : c[i] = IF i <= k - 1 THEN list[i] ELSE e
    BY <1>1, <2>3, <2>7, <2>8, <2>9, <2>10
  <2> HIDE DEF c
  <2>12. /\ n \in Seq(Extras) /\ Len(n) = Len(list) + 1
         /\ \A i \in 1..(Len(list) + 1) : n[i] = IF i <= k THEN c[i] ELSE b[i - k]
    <3>1. Len(c) + Len(b) = Len(list) + 1
      BY <1>1, <2>3, <2>7, <2>11
    <3>2. c \in Seq(Extras) /\ b \in Seq(Extras) /\ Len(c) = k
      BY <2>7, <2>11
    <3>3. /\ c \o b \in Seq(Extras) /\ Len(c \o b) = Len(c) + Len(b)
          /\ \A i \in 1..(Len(c) + Len(b)) : (c \o b)[i] = IF i <= Len(c) THEN c[i] ELSE b[i - Len(c)]
      BY <3>2, ConcatProperties
    <3> QED BY <2>11, <3>1, <3>2, <3>3
  <2>13. \A i \in 1..(k - 1) : n[i] = list[i]
    BY <1>1, <2>3, <2>11, <2>12
  <2>14. n[k] = e
    BY <1>1, <2>3, <2>11, <2>12
  <2>15. \A i \in k..Len(list) : n[i + 1] = list[i]
    <3> SUFFICES ASSUME NEW i \in k..Len(list) PROVE n[i + 1] = list[i]
      OBVIOUS
    <3>1. i + 1 \in 1..(Len(list) + 1) /\ ~(i + 1 <= k) /\ (i + 1) - k \in 1..(Len(list) - k + 1)
          /\ k + ((i + 1) - k) - 1 = i
      BY <1>1, <2>3
    <3>2. n[i + 1] = b[(i + 1) - k]
      BY <2>12, <3>1
    <3>3. b[(i + 1) - k] = list[k + ((i + 1) - k) - 1]
      BY <2>7, <3>1
    <3> QED BY <3>1, <3>2, <3>3
  <2>16. k \in 1..(Len(list) + 1)
    BY <1>1, <2>3
  <2> QED BY <2>5, <2>6, <2>12, <2>13, <2>14, <2>15, <2>16 DEF n
<1> QED BY <1>3, <1>4


\* The elements of a sequence.
LEMMA RangeOf ==
    ASSUME NEW S, NEW s \in Seq(S)
    PROVE  Range(s) = {s[i] : i \in 1..Len(s)}
<1>1. DOMAIN s = 1..Len(s)
  BY LenProperties
<1> QED BY <1>1 DEF Range

\* The list stays in order when an extra is registered.
LEMMA ListGrows ==
    ASSUME NEW list, NEW reg, ListOK(list, reg), NEW e \in Extras \ Range(list)
    PROVE  /\ ListOK(Inserted(list, e), Append(reg, e))
           /\ Len(Inserted(list, e)) = Len(list) + 1
           /\ Range(Inserted(list, e)) = Range(list) \cup {e}
<1> DEFINE n == Inserted(list, e)
           r == Append(reg, e)
<1>1. /\ list \in Seq(Extras) /\ Len(list) \in Nat /\ reg \in Seq(Extras) /\ Len(reg) \in Nat
      /\ \A i \in 1..Len(list) : list[i] \in Extras /\ Priority[list[i]] \in Int
      /\ Priority[e] \in Int
      /\ Range(list) = Range(reg) /\ Sorted(reg, list)
      /\ \A i, j \in 1..Len(reg) : reg[i] = reg[j] => i = j
  BY PriorityAssumption DEF ListOK
<1>ranges. Range(list) = {list[i] : i \in 1..Len(list)} /\ Range(reg) = {reg[i] : i \in 1..Len(reg)}
  BY <1>1, RangeOf
<1>2. \A i, j \in 1..Len(list) : i < j => Priority[list[i]] <= Priority[list[j]]
  BY <1>1 DEF Sorted, Precedes
<1>3. PICK k \in 1..(Len(list) + 1) :
         /\ n \in Seq(Extras)
         /\ Len(n) = Len(list) + 1
         /\ \A i \in 1..(k - 1) : n[i] = list[i] /\ Priority[list[i]] <= Priority[e]
         /\ n[k] = e
         /\ \A i \in k..Len(list) : n[i + 1] = list[i] /\ Priority[list[i]] > Priority[e]
  BY <1>1, <1>2, InsertedAt
<1>4. /\ r \in Seq(Extras) /\ Len(r) = Len(reg) + 1 /\ r[Len(reg) + 1] = e
      /\ \A i \in 1..Len(reg) : r[i] = reg[i]
  BY <1>1, AppendProperties
<1> HIDE DEF n, r
<1>5. \A i \in 1..Len(reg) : reg[i] # e
  BY <1>1, <1>ranges
<1>6. \A i, j \in 1..Len(r) : r[i] = r[j] => i = j
  BY <1>1, <1>4, <1>5, SMTT(30)
<1>7. Range(r) = Range(reg) \cup {e}
  <2>1. Range(r) = {r[i] : i \in 1..(Len(reg) + 1)} /\ Range(reg) = {reg[i] : i \in 1..Len(reg)}
    <3>1. Range(r) = {r[i] : i \in 1..Len(r)}
      BY <1>4, RangeOf
    <3> QED BY <1>1, <1>4, <1>ranges, <3>1
  <2>2. ASSUME NEW i \in 1..(Len(reg) + 1) PROVE r[i] \in Range(reg) \cup {e}
    <3>1. i \in 1..Len(reg) \/ i = Len(reg) + 1
      BY <1>1
    <3>2. i \in 1..Len(reg) => r[i] \in Range(reg)
      BY <1>4, <2>1
    <3> QED BY <1>4, <3>1, <3>2
  <2>3. ASSUME NEW i \in 1..Len(reg) PROVE reg[i] \in Range(r)
    <3>1. i \in 1..(Len(reg) + 1) /\ r[i] = reg[i]
      BY <1>1, <1>4
    <3> QED BY <2>1, <3>1
  <2>4. e \in Range(r)
    BY <1>1, <1>4, <2>1
  <2> QED BY <2>1, <2>2, <2>3, <2>4
<1>8. Range(n) = Range(list) \cup {e}
  <2>1. Range(n) = {n[i] : i \in 1..(Len(list) + 1)} /\ Range(list) = {list[i] : i \in 1..Len(list)}
    BY <1>1, <1>3, SMTT(30) DEF Range
  <2>2. ASSUME NEW i \in 1..(Len(list) + 1) PROVE n[i] \in Range(list) \cup {e}
    <3>1. \/ i \in 1..(k - 1) /\ i \in 1..Len(list)
          \/ i = k
          \/ i - 1 \in k..Len(list) /\ i - 1 \in 1..Len(list) /\ (i - 1) + 1 = i
      BY <1>1, <1>3
    <3> QED BY <1>3, <2>1, <3>1, ZenonT(30)
  <2>3. ASSUME NEW i \in 1..Len(list) PROVE list[i] \in Range(n)
    <3>1. \/ i \in 1..(k - 1) /\ i \in 1..(Len(list) + 1)
          \/ i \in k..Len(list) /\ i + 1 \in 1..(Len(list) + 1)
      BY <1>1, <1>3
    <3> QED BY <1>3, <2>1, <3>1
  <2>4. e \in Range(n)
    BY <1>3, <2>1
  <2> QED BY <2>1, <2>2, <2>3, <2>4
<1>9. Sorted(r, n)
  <2> SUFFICES ASSUME NEW i \in 1..(Len(list) + 1), NEW j \in 1..(Len(list) + 1), i < j
               PROVE  Precedes(r, n[i], n[j])
    BY <1>3 DEF Sorted
  <2>1. \A a, b \in 1..Len(list) : a < b => Precedes(r, list[a], list[b])
    BY <1>1, PrecedesGrows DEF Sorted, r
  <2>2. ASSUME NEW a \in 1..Len(list), Priority[list[a]] <= Priority[e] PROVE Precedes(r, list[a], e)
    <3>1. PICK b \in 1..Len(reg) : reg[b] = list[a]
      BY <1>1, <1>ranges, ZenonT(30)
    <3>2. b \in 1..Len(r) /\ Len(reg) + 1 \in 1..Len(r) /\ b < Len(reg) + 1 /\ r[b] = list[a]
      BY <1>1, <1>4, <3>1
    <3>3. \E x, y \in 1..Len(r) : x < y /\ r[x] = list[a] /\ r[y] = e
      BY <1>4, <3>2
    <3>4. Priority[list[a]] < Priority[e] \/ Priority[list[a]] = Priority[e]
      BY <1>1, <2>2
    <3> QED BY <3>3, <3>4 DEF Precedes
  <2>3. CASE i \in 1..(k - 1) /\ j \in 1..(k - 1)
    BY <1>1, <1>3, <2>1, <2>3, SMTT(30)
  <2>4. CASE i \in 1..(k - 1) /\ j = k
    BY <1>1, <1>3, <2>2, <2>4
  <2>5. CASE i \in 1..(k - 1) /\ j > k
    <3>1. j - 1 \in k..Len(list) /\ j - 1 \in 1..Len(list) /\ (j - 1) + 1 = j /\ i < j - 1 /\ i \in 1..Len(list)
      BY <1>1, <1>3, <2>5
    <3>2. n[j] = list[j - 1] /\ n[i] = list[i]
      BY <1>3, <2>5, <3>1
    <3> QED BY <2>1, <3>1, <3>2
  <2>6. CASE i = k
    <3>1. j - 1 \in k..Len(list) /\ (j - 1) + 1 = j
      BY <1>1, <1>3, <2>6
    <3>2. n[j] = list[j - 1] /\ Priority[list[j - 1]] > Priority[e]
      BY <1>3, <3>1
    <3>3. Priority[list[j - 1]] \in Int
      BY <1>1, <1>3, <3>1
    <3>4. Priority[e] < Priority[n[j]]
      BY <1>1, <3>2, <3>3
    <3> QED BY <1>3, <2>6, <3>4 DEF Precedes
  <2>7. CASE i > k
    <3>1. /\ j - 1 \in k..Len(list) /\ j - 1 \in 1..Len(list) /\ (j - 1) + 1 = j /\ i - 1 < j - 1
          /\ i - 1 \in k..Len(list) /\ i - 1 \in 1..Len(list) /\ (i - 1) + 1 = i
      BY <1>1, <1>3, <2>7
    <3>2. n[j] = list[j - 1] /\ n[i] = list[i - 1]
      BY <1>3, <3>1
    <3> QED BY <2>1, <3>1, <3>2
  <2> QED BY <1>1, <1>3, <2>3, <2>4, <2>5, <2>6, <2>7
<1> QED BY <1>1, <1>3, <1>4, <1>6, <1>7, <1>8, <1>9 DEF ListOK, n, r


-----------------------------------------------------------------------------
(* Walks.                                                                  *)

\* What is in order stays so when an extra is registered.
LEMMA SortedGrows ==
    ASSUME NEW reg \in Seq(Extras), NEW e \in Extras, NEW s, Sorted(reg, s)
    PROVE  Sorted(Append(reg, e), s)
BY PrecedesGrows DEF Sorted

\* A walk that goes on while an extra is registered.
LEMMA GoesDownGrows ==
    ASSUME NEW list, NEW reg, ListOK(list, reg), NEW e \in Extras \ Range(list),
           NEW w \in Walks, GoesDown(w, list, reg)
    PROVE  GoesDown(w, Inserted(list, e), Append(reg, e))
<1> DEFINE n == Inserted(list, e)
           r == Append(reg, e)
<1>1. /\ list \in Seq(Extras) /\ Len(list) \in Nat /\ reg \in Seq(Extras)
      /\ \A i \in 1..Len(list) : list[i] \in Extras /\ Priority[list[i]] \in Int
      /\ Priority[e] \in Int /\ Sorted(reg, list)
      /\ w.at \in 0..Len(list)
      /\ w.asked \in Seq(Extras) /\ Len(w.asked) \in Nat
      /\ \A i \in 1..Len(w.asked) : w.asked[i] \in Extras
  BY PriorityAssumption DEF ListOK, GoesDown, Walks
<1>2. \A i, j \in 1..Len(list) : i < j => Priority[list[i]] <= Priority[list[j]]
  BY <1>1 DEF Sorted, Precedes
<1>3. PICK k \in 1..(Len(list) + 1) :
         /\ n \in Seq(Extras)
         /\ Len(n) = Len(list) + 1
         /\ \A i \in 1..(k - 1) : n[i] = list[i] /\ Priority[list[i]] <= Priority[e]
         /\ n[k] = e
         /\ \A i \in k..Len(list) : n[i + 1] = list[i] /\ Priority[list[i]] > Priority[e]
  BY <1>1, <1>2, InsertedAt
<1>4. /\ ListOK(n, r) /\ Range(n) = Range(list) \cup {e}
      /\ r \in Seq(Extras) /\ \A i, j \in 1..Len(r) : r[i] = r[j] => i = j
      /\ Sorted(r, n)
  <2>1. ListOK(n, r) /\ Range(n) = Range(list) \cup {e}
    BY ListGrows
  <2> HIDE DEF n, r
  <2> QED BY <2>1 DEF ListOK
<1>5. \A a, b : Precedes(reg, a, b) => Precedes(r, a, b)
  BY <1>1, PrecedesGrows
<1> HIDE DEF n, r
<1>6. /\ \A i, j \in 1..Len(w.asked) : i < j => Precedes(r, w.asked[j], w.asked[i])
      /\ \A i \in 1..w.at, j \in 1..Len(w.asked) : Precedes(r, list[i], w.asked[j])
  BY <1>5 DEF GoesDown
<1>7. ASSUME NEW i \in 1..w.at, NEW j \in 1..Len(w.asked)
      PROVE  Precedes(r, n[i], w.asked[j])
  <2>1. i \in 1..(Len(list) + 1) /\ i \in 1..Len(list)
    BY <1>1
  <2>2. CASE i < k
    <3>1. n[i] = list[i]
      BY <1>1, <1>3, <2>1, <2>2
    <3> QED BY <1>6, <3>1
  <2>3. CASE i >= k
    <3>1. i \in k..Len(list) /\ i + 1 \in 1..Len(n) /\ i \in 1..Len(n) /\ i < i + 1
      BY <1>1, <1>3, <2>1, <2>3
    <3>2. n[i + 1] = list[i]
      BY <1>3, <3>1
    <3>3. Precedes(r, n[i], list[i])
      BY <1>4, <3>1, <3>2 DEF Sorted
    <3>4. n[i] \in Extras /\ list[i] \in Extras /\ w.asked[j] \in Extras
      BY <1>1, <1>3, <2>1, <3>1
    <3> QED BY <1>4, <1>6, <3>3, <3>4, PrecedesTransitive
  <2> QED BY <1>1, <1>3, <2>1, <2>2, <2>3
<1>8. ASSUME NEW d \in Range(w.began)
      PROVE  \/ d \in Range(w.asked)
             \/ \E i \in 1..w.at : n[i] = d
             \/ \E m \in Range(n) \ Range(w.began) : Priority[m] < Priority[d]
  <2>1. CASE \E m \in Range(list) \ Range(w.began) : Priority[m] < Priority[d]
    BY <1>4, <2>1
  <2>2. ASSUME NEW i \in 1..w.at, list[i] = d
        PROVE  \/ \E x \in 1..w.at : n[x] = d
               \/ \E m \in Range(n) \ Range(w.began) : Priority[m] < Priority[d]
    <3>1. i \in 1..(Len(list) + 1) /\ i \in 1..Len(list)
      BY <1>1
    <3>2. CASE i < k
      <4>1. i \in 1..(k - 1)
        BY <1>1, <1>3, <3>1, <3>2
      <4>2. n[i] = list[i]
        BY <1>3, <4>1
      <4> QED BY <2>2, <4>2
    <3>3. CASE i >= k
      <4>1. Priority[list[i]] > Priority[e]
        BY <1>1, <1>3, <3>1, <3>3
      <4>2. e \in Range(n) \ Range(w.began)
        BY <1>4 DEF GoesDown
      <4> QED BY <1>1, <2>2, <3>1, <4>1, <4>2
    <3> QED BY <1>1, <1>3, <3>1, <3>2, <3>3
  <2>3. \/ d \in Range(w.asked)
        \/ \E i \in 1..w.at : list[i] = d
        \/ \E m \in Range(list) \ Range(w.began) : Priority[m] < Priority[d]
    BY DEF GoesDown
  <2> QED BY <2>1, <2>2, <2>3
<1>9. w.at \in 0..Len(n) /\ Range(w.began) \subseteq Range(n)
  BY <1>1, <1>3, <1>4 DEF GoesDown
<1> QED BY <1>6, <1>7, <1>8, <1>9 DEF GoesDown, n, r

\* A registration during a walk leaves the walk in order.
LEMMA WalkGrows ==
    ASSUME NEW list, NEW reg, ListOK(list, reg), NEW e \in Extras \ Range(list),
           NEW w, WalkOK(w, list, reg)
    PROVE  WalkOK(w, Inserted(list, e), Append(reg, e))
<1>1. w \in Walks /\ (w.ret => w.refused = {})
  BY DEF WalkOK
<1>2. CASE w.hook = "none"
  BY <1>1, <1>2 DEF WalkOK, Backward
<1>3. CASE w.hook \in Backward
  <2>1. GoesDown(w, list, reg) /\ w.hook # "none"
    BY <1>3 DEF WalkOK, Backward
  <2> QED BY <1>1, <1>3, <2>1, GoesDownGrows DEF WalkOK
<1>4. CASE w.hook # "none" /\ w.hook \notin Backward
  <2>1. Enumerates(w, list, reg)
    BY <1>4 DEF WalkOK
  <2>2. Len(list) \in Nat /\ reg \in Seq(Extras) /\ w.began \in Seq(Extras) /\ Len(w.began) \in Nat
    BY <1>1 DEF ListOK, Walks
  <2>3. Len(w.began) <= Len(Inserted(list, e))
    BY <2>1, <2>2, ListGrows DEF Enumerates
  <2>4. Sorted(Append(reg, e), w.began)
    BY <2>1, <2>2, SortedGrows DEF Enumerates
  <2>5. Enumerates(w, Inserted(list, e), Append(reg, e))
    BY <2>1, <2>3, <2>4 DEF Enumerates
  <2> QED BY <1>1, <1>4, <2>5 DEF WalkOK
<1> QED BY <1>2, <1>3, <1>4


\* registerExtra: by whoever is asked, told or called; walks go on.
LEMMA MayRegisterKeeps ==
    ASSUME ListOK(extras, registered), MayRegister
    PROVE  /\ ListOK(extras', registered')
           /\ \A w : WalkOK(w, extras, registered) => WalkOK(w, extras', registered')
<1>1. CASE UNCHANGED <<extras, registered>>
  BY <1>1
<1>2. ASSUME NEW e \in Extras \ Range(extras), Register(e)
      PROVE  /\ ListOK(extras', registered')
             /\ \A w : WalkOK(w, extras, registered) => WalkOK(w, extras', registered')
  <2>1. extras' = Inserted(extras, e) /\ registered' = Append(registered, e)
    BY <1>2 DEF Register
  <2>2. ListOK(Inserted(extras, e), Append(registered, e))
    BY ListGrows
  <2>3. \A w : WalkOK(w, extras, registered) => WalkOK(w, Inserted(extras, e), Append(registered, e))
    BY WalkGrows
  <2> QED BY <2>1, <2>2, <2>3
<1> QED BY <1>1, <1>2 DEF MayRegister

\* A walk that begins has asked nobody.
LEMMA WalkBegun ==
    ASSUME NEW list, NEW reg, ListOK(list, reg), NEW hook \in Asking \cup Telling
    PROVE  WalkOK(Begun(hook, list), list, reg)
<1> DEFINE w == Begun(hook, list)
<1>1. /\ w.hook = hook /\ w.at = IF hook \in Backward THEN Len(list) ELSE 1
      /\ w.ret = TRUE /\ w.began = list /\ w.asked = <<>> /\ w.refused = {}
  BY DEF Begun
<1>2. list \in Seq(Extras) /\ Len(list) \in Nat /\ Sorted(reg, list)
  BY DEF ListOK
<1>3. w.at \in Nat
  BY <1>1, <1>2
<1>4. w \in Walks
  <2>1. <<>> \in Seq(Extras) /\ hook \in Hooks
    BY DEF Hooks
  <2> QED BY <1>1, <1>2, <1>3, <2>1 DEF Begun, Walks
<1> HIDE DEF w
<1>5. Len(w.asked) = 0
  BY <1>1
<1>6. CASE hook \in Backward
  <2>1. \A d \in Range(w.began) : \E i \in 1..w.at : list[i] = d
    BY <1>1, <1>2, <1>6, RangeOf
  <2>2. GoesDown(w, list, reg)
    BY <1>1, <1>2, <1>5, <1>6, <2>1 DEF GoesDown
  <2> QED BY <1>1, <1>4, <1>6, <2>2 DEF WalkOK, w, Backward
<1>7. CASE hook \notin Backward
  <2>1. Enumerates(w, list, reg)
    BY <1>1, <1>2, <1>5, <1>7 DEF Enumerates
  <2>2. hook # "none"
    BY DEF Asking, Telling
  <2> QED BY <1>1, <1>4, <1>7, <2>1, <2>2 DEF WalkOK, w
<1> QED BY <1>6, <1>7

\* One extra is asked.
LEMMA WalkAsked ==
    ASSUME NEW list, NEW reg, ListOK(list, reg), NEW w, WalkOK(w, list, reg), NEW answer \in BOOLEAN,
           w.hook # "none", ~Over(w), w.hook \notin Backward => list = w.began
    PROVE  WalkOK(Answered(w, list[w.at], answer), list, reg)
<1> DEFINE e == list[w.at]
           v == Answered(w, e, answer)
<1>1. /\ w \in Walks /\ w.at \in Nat /\ w.asked \in Seq(Extras) /\ Len(w.asked) \in Nat
      /\ w.ret \in BOOLEAN /\ w.refused \in SUBSET Extras
      /\ w.ret => w.refused = {}
  BY DEF WalkOK, Walks
<1>2. list \in Seq(Extras) /\ Len(list) \in Nat /\ Sorted(reg, list) /\ \A i \in 1..Len(list) : list[i] \in Extras
  BY DEF ListOK
<1>3. w.at \in 1..Len(list)
  <2>1. CASE w.hook \in Backward
    BY <1>1, <1>2, <2>1 DEF WalkOK, GoesDown, Over
  <2>2. CASE w.hook \notin Backward
    BY <1>1, <1>2, <2>2 DEF WalkOK, Enumerates, Over
  <2> QED BY <2>1, <2>2
<1>4. e \in Extras
  BY <1>2, <1>3
<1>5. /\ v.hook = w.hook /\ v.began = w.began /\ v.asked = Append(w.asked, e)
      /\ v.at = IF w.hook \in Backward THEN w.at - 1 ELSE w.at + 1
      /\ v.ret = (w.ret /\ answer)
      /\ v.refused = IF answer THEN w.refused ELSE w.refused \cup {e}
  BY <1>1 DEF Answered, Walks
<1>6. v.at \in Nat
  BY <1>1, <1>3, <1>5
<1>7. v \in Walks
  <2>1. v.asked \in Seq(Extras)
    BY <1>1, <1>4, <1>5, AppendProperties
  <2>2. v.ret \in BOOLEAN
    BY <1>5, Zenon
  <2>3. v.refused \in SUBSET Extras
    <3>1. v.refused = w.refused \/ v.refused = w.refused \cup {e}
      BY <1>5, Zenon
    <3>2. w.refused \subseteq Extras /\ {e} \subseteq Extras
      BY <1>1, <1>4
    <3> HIDE DEF v, e
    <3> QED BY <3>1, <3>2, Zenon
  <2> DEFINE x == v.at
             y == v.ret
             z == v.asked
             u == v.refused
  <2>4. v = [w EXCEPT !.at = x, !.ret = y, !.asked = z, !.refused = u]
    BY <1>1, <1>5 DEF Answered, Walks
  <2>5. x \in Nat /\ y \in BOOLEAN /\ z \in Seq(Extras) /\ u \in SUBSET Extras
    BY <1>6, <2>1, <2>2, <2>3
  <2> HIDE DEF v, x, y, z, u
  <2> QED BY <1>1, <2>4, <2>5 DEF Walks
<1>8. v.ret => v.refused = {}
  BY <1>1, <1>5
<1> DEFINE a == w.asked
           b == v.asked
<1>9. /\ Len(b) = Len(a) + 1 /\ b[Len(a) + 1] = e
      /\ \A i \in 1..Len(a) : b[i] = a[i]
  BY <1>1, <1>4, <1>5, AppendProperties
<1> HIDE DEF v, e
<1>10. CASE w.hook \in Backward
  <2>1. GoesDown(w, list, reg)
    BY <1>10 DEF WalkOK
  <2>2. v.at = w.at - 1 /\ 1..v.at \subseteq 1..w.at /\ w.at \in 1..w.at /\ v.at \in 0..Len(list)
    BY <1>1, <1>2, <1>3, <1>5, <1>10
  <2>3. ASSUME NEW i \in 1..Len(b), NEW j \in 1..Len(b), i < j PROVE Precedes(reg, b[j], b[i])
    <3>1. i \in 1..Len(a)
      BY <1>1, <1>9, <2>3
    <3>2. CASE j \in 1..Len(a)
      BY <1>9, <2>1, <2>3, <3>1, <3>2 DEF GoesDown
    <3>3. CASE j = Len(a) + 1
      BY <1>9, <2>1, <2>2, <3>1, <3>3 DEF GoesDown, e
    <3> QED BY <1>1, <1>9, <3>2, <3>3
  <2>4. ASSUME NEW i \in 1..v.at, NEW j \in 1..Len(b) PROVE Precedes(reg, list[i], b[j])
    <3>1. i \in 1..w.at /\ i \in 1..Len(list) /\ i < w.at
      BY <1>1, <1>2, <1>3, <2>2
    <3>2. CASE j \in 1..Len(a)
      BY <1>9, <2>1, <3>1, <3>2 DEF GoesDown
    <3>3. CASE j = Len(a) + 1
      BY <1>2, <1>3, <1>9, <3>1, <3>3 DEF Sorted, e
    <3> QED BY <1>1, <1>9, <3>2, <3>3
  <2>5. Range(a) \subseteq Range(b) /\ e \in Range(b)
    <3>1. Range(a) = {a[i] : i \in 1..Len(a)} /\ Range(b) = {b[i] : i \in 1..Len(b)}
      BY <1>1, <1>7, RangeOf DEF Walks
    <3>2. \A i \in 1..Len(a) : i \in 1..Len(b)
      BY <1>1, <1>9
    <3>3. Len(a) + 1 \in 1..Len(b)
      BY <1>1, <1>9
    <3> QED BY <1>9, <3>1, <3>2, <3>3
  <2>6. ASSUME NEW d \in Range(w.began)
        PROVE  \/ d \in Range(b)
               \/ \E i \in 1..v.at : list[i] = d
               \/ \E n \in Range(list) \ Range(w.began) : Priority[n] < Priority[d]
    <3>1. ASSUME NEW i \in 1..w.at, list[i] = d PROVE d \in Range(b) \/ \E j \in 1..v.at : list[j] = d
      <4>1. i = w.at \/ i \in 1..v.at
        BY <1>1, <2>2
      <4> QED BY <2>5, <3>1, <4>1 DEF e
    <3> QED BY <2>1, <2>5, <3>1 DEF GoesDown
  <2>7. GoesDown(v, list, reg)
    BY <1>5, <2>1, <2>2, <2>3, <2>4, <2>6 DEF GoesDown
  <2> QED BY <1>5, <1>7, <1>8, <1>10, <2>7 DEF WalkOK, v, e, Backward
<1>11. CASE w.hook \notin Backward
  <2>1. Enumerates(w, list, reg) /\ list = w.began
    BY <1>11 DEF WalkOK
  <2>2. v.at = w.at + 1 /\ v.at \in 1..(Len(list) + 1)
    BY <1>1, <1>2, <1>3, <1>5, <1>11
  <2>3. Len(a) = w.at - 1 /\ Len(b) = v.at - 1
    BY <1>1, <1>9, <2>1, <2>2 DEF Enumerates
  <2>4. \A i \in 1..Len(b) : b[i] = list[i]
    <3>1. \A i \in 1..Len(b) : i \in 1..Len(a) \/ i = Len(a) + 1
      BY <1>1, <1>9
    <3>2. Len(a) + 1 = w.at
      BY <1>1, <2>3
    <3> QED BY <1>9, <2>1, <3>1, <3>2 DEF Enumerates, e
  <2>5. Enumerates(v, list, reg)
    BY <1>2, <1>5, <2>1, <2>2, <2>3, <2>4 DEF Enumerates
  <2> QED BY <1>5, <1>7, <1>8, <1>11, <2>5 DEF WalkOK, v, e
<1> QED BY <1>10, <1>11


-----------------------------------------------------------------------------
(* The steps.                                                              *)

\* What the steps of the hooks keep.
Hooked == ListOK(extras, registered) /\ \A t \in Threads : WalkOK(walk[t], extras, registered)

\* Only one thread's walk changes, and it is as it should be.
LEMMA WalkChanges ==
    ASSUME ExtrasInvariant, MayRegister, NEW t \in Threads, NEW w,
           walk' = [walk EXCEPT ![t] = w], WalkOK(w, extras', registered')
    PROVE  Hooked' /\ walk' \in [Threads -> Walks]
<1>1. /\ ListOK(extras', registered')
      /\ \A v : WalkOK(v, extras, registered) => WalkOK(v, extras', registered')
  BY MayRegisterKeeps DEF ExtrasInvariant
<1>2. w \in Walks
  BY DEF WalkOK
<1>3. walk' \in [Threads -> Walks] /\ \A u \in Threads : walk'[u] = IF u = t THEN w ELSE walk[u]
  BY <1>2 DEF ExtrasInvariant
<1>4. \A u \in Threads : WalkOK(walk'[u], extras', registered')
  BY <1>1, <1>3 DEF ExtrasInvariant
<1> QED BY <1>1, <1>3, <1>4 DEF Hooked

\* No walk changes.
LEMMA WalksStay ==
    ASSUME ExtrasInvariant, MayRegister, UNCHANGED walk
    PROVE  Hooked' /\ walk' \in [Threads -> Walks]
<1>1. /\ ListOK(extras', registered')
      /\ \A v : WalkOK(v, extras, registered) => WalkOK(v, extras', registered')
  BY MayRegisterKeeps DEF ExtrasInvariant
<1> QED BY <1>1 DEF Hooked, ExtrasInvariant

\* No walk is in order.
LEMMA NoWalkOK == ASSUME NEW list, NEW reg PROVE WalkOK(NoWalk, list, reg)
<1>1. <<>> \in Seq(Extras)
  OBVIOUS
<1> QED BY <1>1 DEF WalkOK, NoWalk, Walks, Hooks, Backward

\* The invariant holds at first ...
LEMMA ExtrasInitially == Init => ExtrasInvariant
<1> SUFFICES ASSUME Init PROVE ExtrasInvariant
  OBVIOUS
<1>1. ListOK(<<>>, <<>>)
  <2>1. <<>> \in Seq(Extras) /\ Len(<<>>) = 0
    OBVIOUS
  <2> QED BY <2>1 DEF ListOK, Sorted
<1>2. WalkOK(NoWalk, <<>>, <<>>) /\ NoWalk \in Walks
  BY NoWalkOK DEF WalkOK
<1>3. 0 \in 0..MaxWalks
  BY WalksAssumption
<1> QED BY <1>1, <1>2, <1>3 DEF Init, ExtrasInvariant

\* Where a junction can stand.
Stages == {"new", "entered", "created", "joined", "left", "raised"}

\* ... and every step keeps it.
LEMMA ExtrasPreserved == ExtrasInvariant /\ [Next]_vars => ExtrasInvariant'
<1> SUFFICES ASSUME ExtrasInvariant, [Next]_vars PROVE ExtrasInvariant'
  OBVIOUS
<1> USE DEF Stages
<1>0. /\ ListOK(extras, registered) /\ walk \in [Threads -> Walks]
      /\ \A t \in Threads : WalkOK(walk[t], extras, registered)
      /\ stage \in Stages /\ walks \in 0..MaxWalks /\ walks \in Nat
  BY WalksAssumption DEF ExtrasInvariant
<1>same. UNCHANGED <<extras, registered>> => MayRegister
  BY DEF MayRegister
<1>1. CASE RegisterExtra
  <2>1. MayRegister /\ UNCHANGED <<walk, stage, walks>>
    BY <1>1 DEF RegisterExtra, MayRegister
  <2> QED BY <1>0, <2>1, WalksStay DEF ExtrasInvariant, Hooked
<1>2. CASE RegisterActor
  <2>1. MayRegister /\ UNCHANGED <<walk, walks>> /\ stage' \in Stages
    BY <1>2, <1>same DEF RegisterActor
  <2> QED BY <1>0, <2>1, WalksStay DEF ExtrasInvariant, Hooked
<1>3. CASE TriggerActorJoin
  <2>1. PICK hook \in {"create", "join"} : walk' = [walk EXCEPT !["caller"] = Begun(hook, extras)]
    BY <1>3 DEF TriggerActorJoin
  <2>2. UNCHANGED <<extras, registered, stage, walks>> /\ MayRegister
    BY <1>3, <1>same DEF TriggerActorJoin
  <2>3. WalkOK(Begun(hook, extras), extras', registered')
    BY <1>0, <2>2, WalkBegun DEF Asking
  <2>4. "caller" \in Threads
    BY DEF Threads
  <2>5. Hooked' /\ walk' \in [Threads -> Walks]
    BY <2>1, <2>2, <2>3, <2>4, WalkChanges
  <2> QED BY <1>0, <2>2, <2>5 DEF ExtrasInvariant, Hooked
<1>4. ASSUME NEW t \in Threads, NEW hook \in Asking \cup Telling, Begins(t, hook) PROVE ExtrasInvariant'
  <2>1. /\ walk' = [walk EXCEPT ![t] = Begun(hook, extras)]
        /\ UNCHANGED <<extras, registered, stage>> /\ MayRegister /\ walks' \in 0..MaxWalks
    BY <1>0, <1>4, <1>same, WalksAssumption DEF Begins
  <2>2. WalkOK(Begun(hook, extras), extras', registered')
    BY <1>0, <2>1, WalkBegun
  <2>3. Hooked' /\ walk' \in [Threads -> Walks]
    BY <2>1, <2>2, WalkChanges
  <2> QED BY <1>0, <2>1, <2>3 DEF ExtrasInvariant, Hooked
<1>5. CASE TriggerMessageReceived \/ TriggerActorRejoin \/ SendMessage \/ GetInvitationURL
  <2>1. {"receive", "rejoin", "send", "invite"} \subseteq Asking \cup Telling
        /\ {"receiver", "rejoiner", "caller"} \subseteq Threads
    BY DEF Asking, Telling, Threads
  <2> QED BY <1>4, <1>5, <2>1 DEF TriggerMessageReceived, TriggerActorRejoin, SendMessage, GetInvitationURL
<1>6. ASSUME NEW t \in Threads, Ask(t) PROVE ExtrasInvariant'
  <2>1. PICK answer \in BOOLEAN : walk' = [walk EXCEPT ![t] = Answered(walk[t], extras[walk[t].at], answer)]
    BY <1>6 DEF Ask
  <2>2. /\ walk[t].hook # "none" /\ ~Over(walk[t]) /\ ~Disturbed(walk[t])
        /\ MayRegister /\ UNCHANGED <<stage, walks>>
    BY <1>6 DEF Ask
  <2>3. walk[t].hook \notin Backward => extras = walk[t].began
    BY <2>2 DEF Disturbed
  <2> DEFINE v == Answered(walk[t], extras[walk[t].at], answer)
  <2>4. WalkOK(v, extras, registered)
    BY <1>0, <2>2, <2>3, WalkAsked
  <2> HIDE DEF v
  <2>5. WalkOK(v, extras', registered')
    BY <1>0, <2>2, <2>4, MayRegisterKeeps
  <2>6. Hooked' /\ walk' \in [Threads -> Walks]
    BY <2>1, <2>2, <2>5, WalkChanges DEF v
  <2> QED BY <1>0, <2>2, <2>6 DEF ExtrasInvariant, Hooked
<1>7. ASSUME NEW t \in Threads, RaiseOnMutation(t) PROVE ExtrasInvariant'
  <2>1. MayRegister /\ UNCHANGED <<walk, walks>> /\ stage' \in Stages
    BY <1>7, <1>same DEF RaiseOnMutation
  <2> QED BY <1>0, <2>1, WalksStay DEF ExtrasInvariant, Hooked
<1>8. ASSUME NEW t \in Threads, Approve(t) PROVE ExtrasInvariant'
  <2>1. /\ MayRegister /\ walk[t].hook \in Asking /\ UNCHANGED walks
        /\ walk' = [walk EXCEPT ![t] = IF @.hook = "send" THEN NoWalk ELSE Begun(Following[@.hook], extras')]
    BY <1>8, Zenon DEF Approve, Ends
  <2>2. stage' \in Stages
    BY <1>0, <1>8 DEF Approve
  <2>3. walk[t].hook # "send" => Following[walk[t].hook] \in Asking \cup Telling
    BY <2>1 DEF Asking, Telling, Following
  <2>4. PICK l, r : l = extras' /\ r = registered'
    OBVIOUS
  <2>5. ListOK(l, r)
    BY <1>0, <2>1, <2>4, MayRegisterKeeps
  <2> DEFINE v == IF walk[t].hook = "send" THEN NoWalk ELSE Begun(Following[walk[t].hook], l)
  <2>6. WalkOK(v, l, r)
    BY <2>3, <2>5, WalkBegun, NoWalkOK
  <2>7. walk' = [walk EXCEPT ![t] = v]
    BY <1>0, <2>1, <2>4
  <2> HIDE DEF v
  <2>8. Hooked' /\ walk' \in [Threads -> Walks]
    BY <2>1, <2>4, <2>6, <2>7, WalkChanges
  <2> QED BY <1>0, <2>1, <2>2, <2>8 DEF ExtrasInvariant, Hooked
<1>9. ASSUME NEW t \in Threads, Refuse(t) PROVE ExtrasInvariant'
  <2>1. /\ walk' = [walk EXCEPT ![t] = NoWalk] /\ UNCHANGED <<extras, registered, walks>>
        /\ stage' \in Stages /\ MayRegister
    BY <1>0, <1>9, <1>same DEF Refuse
  <2>2. Hooked' /\ walk' \in [Threads -> Walks]
    BY <2>1, NoWalkOK, WalkChanges
  <2> QED BY <1>0, <2>1, <2>2 DEF ExtrasInvariant, Hooked
<1>10. ASSUME NEW t \in Threads, Told(t) PROVE ExtrasInvariant'
  <2> DEFINE v == IF walk[t].hook = "created" THEN Begun("join", extras) ELSE NoWalk
  <2>1. /\ walk' = [walk EXCEPT ![t] = v] /\ UNCHANGED <<extras, registered, stage, walks>> /\ MayRegister
    BY <1>0, <1>10, <1>same DEF Told
  <2>2. WalkOK(v, extras', registered')
    BY <1>0, <2>1, NoWalkOK, WalkBegun DEF Asking
  <2> HIDE DEF v
  <2>3. Hooked' /\ walk' \in [Threads -> Walks]
    BY <2>1, <2>2, WalkChanges
  <2> QED BY <1>0, <2>1, <2>3 DEF ExtrasInvariant, Hooked
<1>11. CASE UNCHANGED vars
  BY <1>0, <1>11, <1>same, WalksStay DEF vars, ExtrasInvariant, Hooked
<1> QED BY <1>1, <1>2, <1>3, <1>5, <1>6, <1>7, <1>8, <1>9, <1>10, <1>11 DEF Next

\* Whatever is registered, refused and raised meanwhile, the list is in order,
\* every walk that enumerates it has asked those it should, and every walk by
\* index has asked, has still before it, or was denied, whoever was there.
THEOREM ExtrasInOrder == Spec => []ExtrasInvariant
BY ExtrasInitially, ExtrasPreserved, PTL DEF Spec

\* The list holds extras, and each thread's walk stands at a place of it.
THEOREM ExtrasTypeCorrect == Spec => []TypeOK
<1>1. ExtrasInvariant => TypeOK
  <2> SUFFICES ASSUME ExtrasInvariant PROVE TypeOK
    OBVIOUS
  <2>1. extras \in Seq(Extras) /\ registered \in Seq(Extras) /\ Len(extras) \in Nat
    BY DEF ExtrasInvariant, ListOK
  <2>2. ASSUME NEW t \in Threads
        PROVE  /\ walk[t].hook \in Asking \cup Telling \cup {"none"}
               /\ walk[t].at \in IF walk[t].hook \in Backward THEN 0..Len(extras) ELSE 0..(Len(extras) + 1)
               /\ walk[t].ret \in BOOLEAN
    <3> DEFINE w == walk[t]
    <3>1. WalkOK(w, extras, registered) /\ w \in Walks
      BY DEF ExtrasInvariant
    <3> HIDE DEF w
    <3>2. w.hook \in Hooks /\ w.ret \in BOOLEAN /\ w.at \in Nat /\ Len(w.began) \in Nat
      BY <3>1 DEF Walks
    <3>3. w.hook = "none" => w.at = 0
      BY <3>1 DEF WalkOK, NoWalk
    <3>4. w.hook \in Backward => w.at \in 0..Len(extras)
      BY <3>1 DEF WalkOK, GoesDown
    <3>5. w.hook \notin Backward \cup {"none"} => w.at \in 0..(Len(extras) + 1)
      BY <2>1, <3>1, <3>2 DEF WalkOK, Enumerates
    <3> QED BY <2>1, <3>2, <3>3, <3>4, <3>5 DEF w, Hooks, Backward
  <2> QED BY <2>1, <2>2 DEF TypeOK, ExtrasInvariant
<1> QED BY <1>1, ExtrasInOrder, PTL

\* Extras are asked in their order, none twice, and none that was there when the
\* walk began is passed over unless another moved it up behind the walk's back:
\* for any number of extras, of any priorities, registered by whomever and at
\* whatever moment by three threads.
THEOREM ExtrasHeardHolds == Spec => []ExtrasHeard
<1>1. ExtrasInvariant => ExtrasHeard
  <2> SUFFICES ASSUME ExtrasInvariant PROVE ExtrasHeard
    OBVIOUS
  <2>1. \A d, e : Precedes(registered, d, e) <=> Before(d, e)
    BY DEF Precedes, Before, Earlier
  <2>2. ASSUME NEW t \in Threads
        PROVE  WalkOK(walk[t], extras, registered) /\ walk[t] \in Walks
    BY DEF ExtrasInvariant
  <2>3. ASSUME NEW t \in Threads, NEW j \in 1..Len(walk[t].asked), NEW k \in 1..Len(walk[t].asked), j < k
        PROVE  IF walk[t].hook \in Backward THEN Before(walk[t].asked[k], walk[t].asked[j])
               ELSE Before(walk[t].asked[j], walk[t].asked[k])
    <3> DEFINE w == walk[t]
    <3>1. WalkOK(w, extras, registered) /\ w \in Walks
      BY <2>2
    <3>2. /\ j \in 1..Len(w.asked) /\ k \in 1..Len(w.asked)
          /\ w.asked \in Seq(Extras) /\ Len(w.asked) \in Nat /\ Len(w.began) \in Nat /\ w.at \in Nat
      BY <3>1 DEF Walks
    <3> HIDE DEF w
    <3>3. w.hook # "none"
      <4>1. SUFFICES ASSUME w = NoWalk PROVE FALSE
        BY <3>1 DEF WalkOK
      <4>2. Len(w.asked) = 0
        BY <4>1 DEF NoWalk
      <4> QED BY <3>2, <4>2
    <3>4. w.hook \in Backward => Precedes(registered, w.asked[k], w.asked[j])
      BY <2>3, <3>1, <3>2 DEF WalkOK, GoesDown
    <3>5. w.hook \notin Backward => Precedes(registered, w.asked[j], w.asked[k])
      <4> SUFFICES ASSUME w.hook \notin Backward PROVE Precedes(registered, w.asked[j], w.asked[k])
        OBVIOUS
      <4>1. Enumerates(w, extras, registered)
        BY <3>1, <3>3 DEF WalkOK
      <4>2. j \in 1..Len(w.began) /\ k \in 1..Len(w.began)
        BY <3>2, <4>1 DEF Enumerates
      <4> QED BY <2>3, <3>2, <4>1, <4>2 DEF Enumerates, Sorted
    <3> QED BY <2>1, <3>4, <3>5 DEF w
  <2>4. ASSUME NEW t \in Threads, Over(walk[t]), walk[t].ret
        PROVE  /\ walk[t].refused = {}
               /\ \A e \in Range(walk[t].began) \ Range(walk[t].asked) :
                     \E n \in Range(extras) \ Range(walk[t].began) : Priority[n] < Priority[e]
    <3> DEFINE w == walk[t]
    <3>1. WalkOK(w, extras, registered) /\ w \in Walks /\ w.hook # "none" /\ w.ret
          /\ w.at = IF w.hook \in Backward THEN 0 ELSE Len(w.began) + 1
      BY <2>2, <2>4 DEF Over
    <3> HIDE DEF w
    <3>2. w.began \in Seq(Extras) /\ w.asked \in Seq(Extras) /\ Len(w.began) \in Nat
      BY <3>1 DEF Walks
    <3>3. CASE w.hook \in Backward
      <4>1. GoesDown(w, extras, registered) /\ w.at = 0
        BY <3>1, <3>3 DEF WalkOK
      <4>2. ~\E i \in 1..w.at : TRUE
        BY <4>1
      <4> QED BY <3>1, <4>1, <4>2 DEF WalkOK, GoesDown, w
    <3>4. CASE w.hook \notin Backward
      <4>1. Enumerates(w, extras, registered) /\ w.at = Len(w.began) + 1
        BY <3>1, <3>4 DEF WalkOK
      <4>2. Len(w.asked) = Len(w.began) /\ \A i \in 1..Len(w.began) : w.asked[i] = w.began[i]
        BY <3>2, <4>1 DEF Enumerates
      <4>3. Range(w.asked) = {w.asked[i] : i \in 1..Len(w.asked)} /\ Range(w.began) = {w.began[i] : i \in 1..Len(w.began)}
        BY <3>2, RangeOf
      <4>4. Range(w.began) \subseteq Range(w.asked)
        BY <4>2, <4>3
      <4> QED BY <3>1, <4>4 DEF WalkOK, w
    <3> QED BY <3>3, <3>4
  <2> QED BY <2>3, <2>4 DEF ExtrasHeard, AskedInOrder, NobodyPassedOver
<1> QED BY <1>1, ExtrasInOrder, PTL

-----------------------------------------------------------------------------
(* The four parts side by side.                                            *)

\* The scripts and the descriptions of rooms keep their types, for any number
\* of actors and sessions (JXActivityScript.m:16-50).
THEOREM ScriptTypeCorrect == ScriptSpec => []ScriptTypeOK
BY ScriptsAgree, PTL DEF ScriptInvariant

\* Every part of an activity keeps its types: the list of extras and the walks
\* through it (JXJunction.m), the array's copies and pending messages
\* (JXArrayState.m), the scripts (JXActivityScript.m) and the messages
\* (JXMessageHeader.m), whatever the number of each.
THEOREM ActivityTypeCorrect == ActivitySpec => []ActivityTypeOK
<1>1. ActivityInit => Init /\ ArrayInit /\ ScriptInit /\ MessagesInit
  BY DEF ActivityInit
<1>2. [ActivityNext]_<<part, vars, arrayVars, scriptVars, messageVars>> =>
        [Next]_vars /\ [ArrayNext]_arrayVars /\ [ScriptNext]_scriptVars /\ [MessagesNext]_messageVars
  BY DEF ActivityNext
<1>3. ActivitySpec => Spec /\ ArraySpec /\ ScriptSpec /\ MessagesSpec
  BY <1>1, <1>2, PTL DEF ActivitySpec, Spec, ArraySpec, ScriptSpec, MessagesSpec
<1> QED BY <1>3, ExtrasTypeCorrect, ArrayTypeCorrect, ScriptTypeCorrect, MessagesTypeCorrect, PTL
        DEF ActivityTypeOK

=============================================================================
