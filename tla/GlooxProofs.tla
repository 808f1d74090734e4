---------------------------- MODULE GlooxProofs ----------------------------
(***************************************************************************)
(* Proofs about three parts of gloox: GlooxRoom, a room and its object,    *)
(* for any nicks and any number of requests; GlooxDispatch, the lists of   *)
(* handlers, for any handlers and any number of nodes and walks; and       *)
(* GlooxParser, the XML parser, for any streams and any pieces.            *)
(***************************************************************************)
EXTENDS MCGloox, FiniteSetTheorems, SequenceTheorems, TLAPS

-----------------------------------------------------------------------------
(* GlooxRoom.  What can be in flight, and the inductive invariant.         *)

Rooms == [joined : BOOLEAN, nick : Nicks, newNick : Nicks \cup {NoNick},
          role : {"none", "participant"}, creating : BOOLEAN, instant : BOOLEAN, config : BOOLEAN]
Services == [occupant : Nicks \cup {NoNick}, taken : SUBSET Nicks, locked : BOOLEAN,
             putOut : BOOLEAN, marks : BOOLEAN]

OutPresences == [type : {"presence"}, nick : Nicks \cup {NoNick}, id : 1..MaxRequests]
OutIqs == [type : {"iq"}, op : Operations, id : 0..MaxRequests]
Out == OutPresences \cup OutIqs

InPresences == [type : {"presence"}, nick : Nicks, newNick : Nicks \cup {NoNick}, role : {"none", "participant"},
                self : BOOLEAN, newRoom : BOOLEAN, assigned : BOOLEAN]
InErrors == [type : {"error"}, entry : BOOLEAN, id : 1..MaxRequests]
InIqs == [type : {"iq"}, id : 0..MaxRequests, op : Operations, ok : BOOLEAN]
In == InPresences \cup InErrors \cup InIqs

RoomTypes ==
    /\ room \in Rooms
    /\ requests \subseteq [id : 0..MaxRequests, op : Operations]
    /\ toService \in Seq(Out)
    /\ toRoom \in Seq(In)
    /\ service \in Services
    /\ asked \in 0..MaxRequests
    /\ last \in 0..MaxRequests
    /\ reports \subseteq [id : 0..MaxRequests, op : Operations,
                          as : {"nothing", "form", "list", "success", "failure"}]
    /\ granted \subseteq 0..MaxRequests
    /\ crossed \in BOOLEAN /\ renamed \in BOOLEAN /\ misread \in BOOLEAN

IsPresence(m) == m.type = "presence"
IsError(m) == m.type = "error"
IsIq(m) == m.type = "iq"

\* A presence that says more than who is in.
Telling(m) == IsPresence(m) /\ (m.newNick # NoNick \/ m.assigned \/ m.newRoom)

\* WithNick, of the nicks.
NickAfter(nick, newNick, p) ==
    LET q == IF p.assigned THEN p.nick ELSE nick
    IN  IF p.newNick # NoNick /\ (p.self \/ (q = p.nick /\ p.newNick = newNick)) THEN p.newNick ELSE q

NoPresence == \A i \in 1..Len(toService) : ~IsPresence(toService[i])

Served ==
    /\ service.occupant = NoNick => ~service.locked
    /\ service.occupant # NoNick => ~service.putOut /\ service.occupant \notin service.taken

\* The last presence sent is the last under way, and is answered last.
SentInOrder ==
    /\ last <= asked
    /\ \A i \in 1..Len(toService) : IsPresence(toService[i]) =>
          /\ toService[i].id <= last
          /\ toService[i].id = last =>
                \A j \in 1..Len(toService) : IsPresence(toService[j]) => j <= i
          /\ \E j \in 1..Len(toService) : IsPresence(toService[j]) /\ toService[j].id = last
    /\ \A k \in 1..Len(toRoom) : IsError(toRoom[k]) =>
          toRoom[k].id <= last /\ (toRoom[k].id = last => NoPresence)

\* Unless an error was misread, the object wants what its last presence says,
\* and when that has been served it is right, or about to be told.
InStep ==
    ~misread =>
        /\ \A i \in 1..Len(toService) : IsPresence(toService[i]) /\ toService[i].id = last =>
              (room.joined <=> toService[i].nick # NoNick)
        /\ NoPresence /\ room.joined =>
              \/ service.occupant # NoNick \/ service.putOut
              \/ \E k \in 1..Len(toRoom) : IsError(toRoom[k]) /\ toRoom[k].id = last /\ toRoom[k].entry
        /\ NoPresence /\ ~room.joined => service.occupant = NoNick
        /\ \A k \in 1..Len(toRoom) : IsError(toRoom[k]) /\ toRoom[k].id = last =>
              /\ toRoom[k].entry => service.occupant = NoNick
              /\ ~toRoom[k].entry => service.occupant # NoNick \/ service.putOut

\* A presence that crosses nothing is served and answered before anything else.
OneAtATime ==
    ~crossed =>
        /\ \A i \in 1..Len(toService) : IsPresence(toService[i]) =>
              i = 1 /\ toRoom = <<>> /\ (toService[i].nick # NoNick => room.joined)
        /\ \A k \in 1..Len(toRoom) : IsError(toRoom[k]) \/ Telling(toRoom[k]) =>
              k = 1 /\ room.joined /\ (IsError(toRoom[k]) => toRoom[k].id = last)

\* A locked room is about to be opened.
Opens ==
    ~crossed /\ room.instant /\ service.locked =>
        \/ \E k \in 1..Len(toRoom) : IsPresence(toRoom[k]) /\ toRoom[k].newRoom
        \/ \E i \in 1..Len(toService) : IsIq(toService[i]) /\ toService[i].op = "CreateInstantRoom"

\* The nick of the object is that of the service, but for what the next
\* presence is about to say.
Named ==
    ~crossed /\ ~misread =>
        /\ \A i \in 1..Len(toService) : IsPresence(toService[i]) /\ toService[i].nick # NoNick =>
              IF service.occupant = NoNick THEN toService[i].nick = room.nick
              ELSE room.nick = service.occupant /\ toService[i].nick \in {room.nick, room.newNick}
        /\ NoPresence /\ service.occupant # NoNick =>
              service.occupant = IF toRoom # <<>> /\ IsPresence(toRoom[1])
                                 THEN NickAfter(room.nick, room.newNick, toRoom[1]) ELSE room.nick

\* A nick is wanted only while the presence that asks for it is under way.
Wanted ==
    ~crossed /\ ~renamed =>
        /\ ~misread
        /\ room.newNick # NoNick =>
              /\ room.joined
              /\ \/ \E k \in 1..Len(toRoom) : IsPresence(toRoom[k]) \/ IsError(toRoom[k])
                 \/ \E i \in 1..Len(toService) :
                       IsPresence(toService[i]) /\ toService[i].nick = room.newNick /\ service.occupant # NoNick
        /\ \A k \in 1..Len(toRoom) : IsError(toRoom[k]) => (toRoom[k].entry <=> room.newNick = NoNick)

IqOf(m, r) == IsIq(m) /\ m.id = r.id /\ m.op = r.op

\* Whatever is waited for is under way, or its answer is.
Awaited ==
    \A r \in requests :
        \/ \E i \in 1..Len(toService) : IqOf(toService[i], r)
        \/ \E k \in 1..Len(toRoom) : IqOf(toRoom[k], r)

\* The application's operations are under way once, served once and answered once.
Answered ==
    /\ \A i \in 1..Len(toService) : IsIq(toService[i]) /\ toService[i].id # 0 =>
          /\ toService[i].id <= asked
          /\ toService[i].id \notin granted
          /\ \A j \in 1..Len(toService) : IsIq(toService[j]) /\ toService[j].id = toService[i].id => j = i
          /\ \A k \in 1..Len(toRoom) : IsIq(toRoom[k]) => toRoom[k].id # toService[i].id
          /\ \A r \in reports : r.id # toService[i].id
    /\ \A k \in 1..Len(toRoom) : IsIq(toRoom[k]) =>
          /\ toRoom[k].ok => toRoom[k].id \in granted
          /\ toRoom[k].id # 0 =>
                /\ toRoom[k].id <= asked
                /\ toRoom[k].id \in granted => toRoom[k].ok
                /\ \A l \in 1..Len(toRoom) : IsIq(toRoom[l]) /\ toRoom[l].id = toRoom[k].id => l = k
                /\ \A r \in reports : r.id # toRoom[k].id
    /\ \A n \in granted : n <= asked
    /\ \A r \in reports : r.id <= asked

\* OperationsEnd, of what has been reported.
Reported ==
    \A r \in reports :
        /\ r.as = "nothing" => r.op = "SendRoomConfig" \/ (r.op = "StoreOwnerList" /\ r.id \in granted)
        /\ r.as \in {"success", "form", "list"} => r.id \in granted
        /\ r.as = "failure" /\ r.id # 0 => r.id \notin granted
        /\ \A s \in reports : s.id = r.id /\ r.id # 0 => s = r

RoomInvariant ==
    /\ RoomTypes /\ Served /\ SentInOrder /\ InStep /\ OneAtATime /\ Opens /\ Named /\ Wanted
    /\ Awaited /\ Answered /\ Reported

-----------------------------------------------------------------------------
(* Stanzas.                                                                *)

\* What is under way has its fields.
LEMMA OutFields ==
    ASSUME NEW m \in Out
    PROVE  /\ IsPresence(m) \/ IsIq(m)
           /\ ~(IsPresence(m) /\ IsIq(m))
           /\ m.id \in 0..MaxRequests
           /\ IsPresence(m) => m.nick \in Nicks \cup {NoNick} /\ m.id \in 1..MaxRequests
           /\ IsIq(m) => m.op \in Operations
BY GlooxRoomAssumption DEF Out, OutPresences, OutIqs, IsPresence, IsIq

\* What is on its way to the object has its fields.
LEMMA InFields ==
    ASSUME NEW m \in In
    PROVE  /\ IsPresence(m) \/ IsError(m) \/ IsIq(m)
           /\ ~(IsPresence(m) /\ IsError(m)) /\ ~(IsPresence(m) /\ IsIq(m)) /\ ~(IsError(m) /\ IsIq(m))
           /\ IsPresence(m) => /\ m.nick \in Nicks /\ m.newNick \in Nicks \cup {NoNick} /\ m.role \in {"none", "participant"}
                               /\ m.self \in BOOLEAN /\ m.newRoom \in BOOLEAN /\ m.assigned \in BOOLEAN
           /\ IsError(m) => m.entry \in BOOLEAN /\ m.id \in 1..MaxRequests
           /\ IsIq(m) => m.id \in 0..MaxRequests /\ m.op \in Operations /\ m.ok \in BOOLEAN
BY DEF In, InPresences, InErrors, InIqs, IsPresence, IsError, IsIq

\* A presence as the application sends it, and an iq.
LEMMA PresenceOut ==
    ASSUME NEW nick \in Nicks \cup {NoNick}, NEW id \in 1..MaxRequests
    PROVE  LET m == [type |-> "presence", nick |-> nick, id |-> id]
           IN  m \in Out /\ IsPresence(m) /\ ~IsIq(m) /\ m.nick = nick /\ m.id = id
BY DEF Out, OutPresences, IsPresence, IsIq

LEMMA IqOut ==
    ASSUME NEW op \in Operations, NEW id \in 0..MaxRequests
    PROVE  LET m == [type |-> "iq", op |-> op, id |-> id]
           IN  m \in Out /\ IsIq(m) /\ ~IsPresence(m) /\ m.op = op /\ m.id = id
BY DEF Out, OutIqs, IsPresence, IsIq

\* An answer as the service sends it.
LEMMA IqIn ==
    ASSUME NEW id \in 0..MaxRequests, NEW op \in Operations, NEW ok \in BOOLEAN
    PROVE  LET m == [type |-> "iq", id |-> id, op |-> op, ok |-> ok]
           IN  m \in In /\ IsIq(m) /\ ~IsPresence(m) /\ ~IsError(m) /\ m.id = id /\ m.op = op /\ m.ok = ok
BY DEF In, InIqs, IsPresence, IsError, IsIq

-----------------------------------------------------------------------------
(* Queues.                                                                 *)

\* Every element of a queue to which one was added is of the old ones or the new.
LEMMA Queued ==
    ASSUME NEW S, NEW s \in Seq(S), NEW x \in S
    PROVE  /\ Append(s, x) \in Seq(S) /\ Len(s) \in Nat /\ Len(Append(s, x)) = Len(s) + 1 /\ Append(s, x) # <<>>
           /\ \A i \in 1..Len(s) : i \in 1..Len(Append(s, x)) /\ Append(s, x)[i] = s[i]
           /\ Len(s) + 1 \in 1..Len(Append(s, x)) /\ Append(s, x)[Len(s) + 1] = x
           /\ \A i \in 1..Len(Append(s, x)) : i \in 1..Len(s) \/ i = Len(s) + 1
<1>1. /\ Append(s, x) \in Seq(S) /\ Len(s) \in Nat /\ Len(Append(s, x)) = Len(s) + 1 /\ Append(s, x) # <<>>
      /\ \A i \in 1..Len(s) : Append(s, x)[i] = s[i]
      /\ Append(s, x)[Len(s) + 1] = x
  BY AppendProperties
<1> HIDE DEF In
<1> QED BY <1>1

\* Every element of a queue whose first was taken was there, one place behind.
LEMMA Taken ==
    ASSUME NEW S, NEW s \in Seq(S), s # <<>>
    PROVE  /\ Head(s) \in S /\ Head(s) = s[1] /\ 1 \in 1..Len(s)
           /\ Tail(s) \in Seq(S) /\ Len(s) \in Nat /\ Len(Tail(s)) = Len(s) - 1
           /\ \A i \in 1..Len(Tail(s)) : i + 1 \in 1..Len(s) /\ i + 1 # 1 /\ Tail(s)[i] = s[i + 1]
           /\ \A i \in 1..Len(s) : i # 1 => i - 1 \in 1..Len(Tail(s)) /\ Tail(s)[i - 1] = s[i]
<1>1. /\ Head(s) \in S /\ Tail(s) \in Seq(S) /\ Len(Tail(s)) = Len(s) - 1
      /\ \A i \in 1..Len(Tail(s)) : Tail(s)[i] = s[i + 1]
  BY HeadTailProperties
<1>2. Len(s) \in Nat /\ Len(s) # 0 /\ Head(s) = s[1]
  OBVIOUS
<1>3. \A i \in 1..Len(Tail(s)) : i + 1 \in 1..Len(s) /\ i + 1 # 1 /\ Tail(s)[i] = s[i + 1]
  BY <1>1, <1>2
<1>4. ASSUME NEW i \in 1..Len(s), i # 1 PROVE i - 1 \in 1..Len(Tail(s)) /\ Tail(s)[i - 1] = s[i]
  <2>1. i - 1 \in 1..Len(Tail(s)) /\ (i - 1) + 1 = i
    BY <1>1, <1>2, <1>4
  <2> QED BY <1>1, <2>1
<1> QED BY <1>1, <1>2, <1>3, <1>4

\* Every element of a queue to which an answer was added is of the old ones or
\* the answer.
LEMMA Answering ==
    ASSUME NEW S, NEW s \in Seq(S), NEW t \in Seq(S)
    PROVE  /\ s \o t \in Seq(S) /\ Len(s) \in Nat /\ Len(t) \in Nat /\ Len(s \o t) = Len(s) + Len(t)
           /\ \A i \in 1..Len(s) : i \in 1..Len(s \o t) /\ (s \o t)[i] = s[i]
           /\ \A i \in 1..Len(t) : Len(s) + i \in 1..Len(s \o t) /\ (s \o t)[Len(s) + i] = t[i]
           /\ \A i \in 1..Len(s \o t) :
                 \/ i \in 1..Len(s) /\ (s \o t)[i] = s[i]
                 \/ \E j \in 1..Len(t) : i = Len(s) + j /\ (s \o t)[i] = t[j]
<1> DEFINE u == s \o t
<1>1. /\ u \in Seq(S) /\ Len(u) = Len(s) + Len(t) /\ Len(s) \in Nat /\ Len(t) \in Nat
      /\ \A i \in 1..(Len(s) + Len(t)) : u[i] = IF i <= Len(s) THEN s[i] ELSE t[i - Len(s)]
  <2>1. /\ u \in Seq(S) /\ Len(u) = Len(s) + Len(t)
        /\ \A i \in 1..(Len(s) + Len(t)) : u[i] = IF i <= Len(s) THEN s[i] ELSE t[i - Len(s)]
    BY ConcatProperties
  <2>2. Len(s) \in Nat /\ Len(t) \in Nat
    OBVIOUS
  <2> QED BY <2>1, <2>2
<1> HIDE DEF u
<1>2. \A i \in 1..Len(s) : i \in 1..Len(u) /\ u[i] = s[i]
  BY <1>1
<1>3. ASSUME NEW i \in 1..Len(t) PROVE Len(s) + i \in 1..Len(u) /\ u[Len(s) + i] = t[i]
  <2>1. Len(s) + i \in 1..(Len(s) + Len(t)) /\ ~(Len(s) + i <= Len(s)) /\ (Len(s) + i) - Len(s) = i
    BY <1>1
  <2> QED BY <1>1, <2>1
<1>4. ASSUME NEW i \in 1..Len(u)
      PROVE  \/ i \in 1..Len(s) /\ u[i] = s[i]
             \/ \E j \in 1..Len(t) : i = Len(s) + j /\ u[i] = t[j]
  <2>1. CASE i <= Len(s)
    BY <1>1, <2>1
  <2>2. CASE ~(i <= Len(s))
    <3>1. i - Len(s) \in 1..Len(t) /\ i = Len(s) + (i - Len(s)) /\ u[i] = t[i - Len(s)]
      BY <1>1, <2>2
    <3> QED BY <3>1
  <2> QED BY <2>1, <2>2
<1> QED BY <1>1, <1>2, <1>3, <1>4 DEF u

\* The same of toRoom, with the two lengths named.
LEMMA ToRoomJoined ==
    ASSUME toRoom \in Seq(In), NEW stanzas \in Seq(In), toRoom' = toRoom \o stanzas
    PROVE  \E n \in Nat, l \in Nat :
             /\ toRoom' \in Seq(In) /\ n = Len(toRoom) /\ l = Len(stanzas)
             /\ \A k \in 1..n : k \in 1..Len(toRoom') /\ toRoom'[k] = toRoom[k]
             /\ \A k \in 1..l : n + k \in 1..Len(toRoom') /\ toRoom'[n + k] = stanzas[k]
             /\ \A k \in 1..Len(toRoom') :
                   \/ k \in 1..n /\ toRoom'[k] = toRoom[k]
                   \/ \E j \in 1..l : k = n + j /\ toRoom'[k] = stanzas[j]
<1> DEFINE u == toRoom \o stanzas
<1>1. /\ u \in Seq(In) /\ Len(toRoom) \in Nat /\ Len(stanzas) \in Nat
      /\ \A i \in 1..Len(toRoom) : i \in 1..Len(u) /\ u[i] = toRoom[i]
      /\ \A i \in 1..Len(stanzas) : Len(toRoom) + i \in 1..Len(u) /\ u[Len(toRoom) + i] = stanzas[i]
      /\ \A i \in 1..Len(u) :
            \/ i \in 1..Len(toRoom) /\ u[i] = toRoom[i]
            \/ \E j \in 1..Len(stanzas) : i = Len(toRoom) + j /\ u[i] = stanzas[j]
  BY Answering
<1>2. toRoom' = u
  OBVIOUS
<1> HIDE DEF u
<1>3. WITNESS Len(toRoom) \in Nat, Len(stanzas) \in Nat
<1> QED BY <1>1, <1>2

\* handlePresence, of the nicks.
LEMMA WithNickIs ==
    ASSUME NEW r \in Rooms, NEW p \in In, IsPresence(p)
    PROVE  /\ WithNick(r, p) \in Rooms
           /\ WithNick(r, p).nick = NickAfter(r.nick, r.newNick, p)
           /\ WithNick(r, p).joined = r.joined /\ WithNick(r, p).newNick = r.newNick
           /\ WithNick(r, p).instant = r.instant /\ WithNick(r, p).config = r.config
<1> DEFINE q == IF p.assigned THEN [r EXCEPT !.nick = p.nick] ELSE r
<1>1. p.nick \in Nicks /\ p.newNick \in Nicks \cup {NoNick}
  BY InFields
<1>2. /\ q \in Rooms /\ q.nick = IF p.assigned THEN p.nick ELSE r.nick
      /\ q.joined = r.joined /\ q.newNick = r.newNick /\ q.instant = r.instant /\ q.config = r.config
  BY <1>1 DEF Rooms
<1>3. WithNick(r, p) = IF Renames(q, p) THEN [q EXCEPT !.nick = p.newNick] ELSE q
  BY DEF WithNick
<1> HIDE DEF q
<1>4. Renames(q, p) <=> p.newNick # NoNick /\ (p.self \/ (q.nick = p.nick /\ p.newNick = r.newNick))
  BY <1>2 DEF Renames
<1>5. CASE Renames(q, p)
  <2>1. p.newNick \in Nicks
    BY <1>1, <1>4, <1>5
  <2>2. /\ [q EXCEPT !.nick = p.newNick] \in Rooms /\ [q EXCEPT !.nick = p.newNick].nick = p.newNick
        /\ [q EXCEPT !.nick = p.newNick].joined = q.joined /\ [q EXCEPT !.nick = p.newNick].newNick = q.newNick
        /\ [q EXCEPT !.nick = p.newNick].instant = q.instant /\ [q EXCEPT !.nick = p.newNick].config = q.config
    BY <1>2, <2>1 DEF Rooms
  <2> QED BY <1>2, <1>3, <1>4, <1>5, <2>2 DEF NickAfter
<1>6. CASE ~Renames(q, p)
  BY <1>2, <1>3, <1>4, <1>6 DEF NickAfter
<1> QED BY <1>5, <1>6

-----------------------------------------------------------------------------
\* A room begins with nothing in flight.
LEMMA RoomStarts == RoomInit => RoomInvariant
<1> SUFFICES ASSUME RoomInit PROVE RoomInvariant
  OBVIOUS
<1>1. /\ toService = <<>> /\ toRoom = <<>> /\ Len(toService) = 0 /\ Len(toRoom) = 0
      /\ requests = {} /\ reports = {} /\ granted = {} /\ asked = 0 /\ last = 0
      /\ crossed = FALSE /\ renamed = FALSE /\ misread = FALSE
  BY DEF RoomInit
<1>2. PICK nick \in Nicks, instant \in BOOLEAN, config \in BOOLEAN : room = NewRoom(nick, instant, config)
  BY DEF RoomInit
<1>3. room \in Rooms /\ ~room.joined /\ room.newNick = NoNick
  BY <1>2 DEF NewRoom, Rooms
<1>4. service \in Services /\ service.occupant = NoNick /\ ~service.locked /\ ~service.putOut
  BY DEF RoomInit, Services
<1>5. RoomTypes
  <2>1. <<>> \in Seq(Out) /\ <<>> \in Seq(In)
    BY EmptySeq
  <2>2. 0 \in 0..MaxRequests
    BY GlooxRoomAssumption
  <2>3. /\ requests \subseteq [id : 0..MaxRequests, op : Operations]
        /\ reports \subseteq [id : 0..MaxRequests, op : Operations,
                              as : {"nothing", "form", "list", "success", "failure"}]
        /\ granted \subseteq 0..MaxRequests
    BY <1>1, Zenon
  <2>4. toService \in Seq(Out) /\ toRoom \in Seq(In) /\ asked \in 0..MaxRequests /\ last \in 0..MaxRequests
    BY <1>1, <2>1, <2>2, Zenon
  <2>5. crossed \in BOOLEAN /\ renamed \in BOOLEAN /\ misread \in BOOLEAN
    BY <1>1
  <2> QED BY <1>3, <1>4, <2>3, <2>4, <2>5, Zenon DEF RoomTypes
<1> QED BY <1>1, <1>3, <1>4, <1>5
        DEF RoomInvariant, Served, SentInOrder, InStep, OneAtATime, Opens, Named, Wanted, Awaited, Answered, Reported

-----------------------------------------------------------------------------
(* What the application asks.                                              *)

\* A presence keeps the invariant, if the object has come to want what it says.
LEMMA SendingKeeps ==
    ASSUME RoomInvariant, NEW nick \in Nicks \cup {NoNick}, Asks, SendsPresence(nick),
           room' \in Rooms, room'.joined <=> nick # NoNick, room'.instant = room.instant,
           requests' \subseteq requests, renamed' \in BOOLEAN,
           ~crossed' /\ ~misread /\ nick # NoNick =>
              IF service.occupant = NoNick THEN nick = room'.nick
              ELSE room'.nick = service.occupant /\ nick \in {room'.nick, room'.newNick},
           ~crossed' /\ ~renamed' =>
              /\ ~misread
              /\ room'.newNick # NoNick => nick = room'.newNick /\ service.occupant # NoNick
    PROVE  RoomInvariant'
<1> DEFINE m == [type |-> "presence", nick |-> nick, id |-> asked + 1]
<1>1. RoomTypes /\ Served /\ SentInOrder /\ InStep /\ OneAtATime /\ Opens /\ Named /\ Wanted
      /\ Awaited /\ Answered /\ Reported
  BY DEF RoomInvariant
<1>2. /\ toService \in Seq(Out) /\ toRoom \in Seq(In) /\ service \in Services /\ asked \in 0..MaxRequests
      /\ last \in 0..MaxRequests /\ crossed \in BOOLEAN /\ misread \in BOOLEAN
  BY <1>1 DEF RoomTypes
<1>3. asked' = asked + 1 /\ last' = asked + 1 /\ asked + 1 \in 1..MaxRequests /\ last <= asked /\ asked \in Nat /\ last \in Nat
  BY <1>1, <1>2, GlooxRoomAssumption DEF Asks, SendsPresence, SentInOrder
<1>4. toRoom' = toRoom /\ service' = service /\ reports' = reports /\ granted' = granted /\ misread' = misread
  BY DEF SendsPresence
<1>5. m \in Out /\ IsPresence(m) /\ ~IsIq(m) /\ m.nick = nick /\ m.id = asked + 1
  BY <1>3, PresenceOut
<1>6. toService' = Append(toService, m)
  BY DEF SendsPresence
<1> HIDE DEF m
<1>7. PICK n \in Nat :
        /\ toService' \in Seq(Out) /\ Len(toService) \in Nat /\ n = Len(toService) + 1 /\ Len(toService') = n
        /\ \A i \in 1..Len(toService) : i \in 1..Len(toService') /\ toService'[i] = toService[i]
        /\ n \in 1..Len(toService') /\ toService'[n] = m
        /\ \A i \in 1..Len(toService') : i \in 1..Len(toService) \/ i = n
  BY <1>2, <1>5, <1>6, Queued
<1>8. \A i \in 1..Len(toService) : toService[i] \in Out /\ toService[i].id \in Nat
  <2>1. \A i \in 1..Len(toService) : toService[i] \in Out
    BY <1>2
  <2> QED BY <2>1, OutFields
<1>9. \A k \in 1..Len(toRoom) : toRoom[k] \in In
  BY <1>2
<1>10. crossed' \in BOOLEAN /\ (crossed => crossed')
  BY <1>2 DEF SendsPresence
<1>11. ~crossed' => ~crossed /\ toService = <<>> /\ toRoom = <<>> /\ Len(toService) = 0 /\ Len(toRoom) = 0 /\ n = 1
  <2>1. ~crossed' => ~crossed /\ toService = <<>> /\ toRoom = <<>>
    <3>1. crossed' <=> (crossed \/ ~Quiet \/ (room.joined /\ nick # NoNick /\ service.putOut))
      BY DEF SendsPresence
    <3> QED BY <3>1 DEF Quiet
  <2> QED BY <1>7, <2>1
<1>12. RoomTypes'
  <2>1. last' \in 0..MaxRequests /\ asked' \in 0..MaxRequests
    BY <1>3, GlooxRoomAssumption
  <2> QED BY <1>1, <1>2, <1>4, <1>7, <1>10, <2>1 DEF RoomTypes
<1>13. Served'
  BY <1>1, <1>4 DEF Served
<1>14. SentInOrder'
  <2>1. last' <= asked'
    BY <1>3
  <2>2. ASSUME NEW i \in 1..Len(toService'), IsPresence(toService'[i])
        PROVE  toService'[i].id <= last' /\ (toService'[i].id = last' => i = n)
    BY <1>1, <1>3, <1>5, <1>7, <1>8, <2>2 DEF SentInOrder
  <2>3. \A j \in 1..Len(toService') : j <= n
    BY <1>7
  <2>4. n \in 1..Len(toService') /\ IsPresence(toService'[n]) /\ toService'[n].id = last'
    BY <1>3, <1>5, <1>7
  <2>5. ASSUME NEW k \in 1..Len(toRoom), IsError(toRoom[k])
        PROVE  toRoom[k].id <= last' /\ toRoom[k].id # last'
    <3>1. toRoom[k].id <= last /\ toRoom[k].id \in 1..MaxRequests
      BY <1>1, <1>9, <2>5, InFields DEF SentInOrder
    <3> QED BY <1>3, <3>1
  <2> QED BY <1>4, <2>1, <2>2, <2>3, <2>4, <2>5 DEF SentInOrder
<1>15. InStep'
  <2>1. ASSUME NEW i \in 1..Len(toService'), IsPresence(toService'[i]), toService'[i].id = last'
        PROVE  room'.joined <=> toService'[i].nick # NoNick
    <3>1. CASE i \in 1..Len(toService)
      BY <1>1, <1>3, <1>7, <1>8, <2>1, <3>1 DEF SentInOrder
    <3>2. CASE i = n
      BY <1>5, <1>7, <3>2
    <3> QED BY <1>7, <3>1, <3>2
  <2>2. ~NoPresence'
    BY <1>5, <1>7 DEF NoPresence
  <2>3. ASSUME NEW k \in 1..Len(toRoom), IsError(toRoom[k])
        PROVE  toRoom[k].id # last'
    <3>1. toRoom[k].id <= last /\ toRoom[k].id \in 1..MaxRequests
      BY <1>1, <1>9, <2>3, InFields DEF SentInOrder
    <3> QED BY <1>3, <3>1
  <2> QED BY <1>4, <2>1, <2>2, <2>3 DEF InStep
<1>16. OneAtATime'
  BY <1>4, <1>5, <1>7, <1>11 DEF OneAtATime
<1>17. Opens'
  BY <1>1, <1>4, <1>7, <1>10 DEF Opens
<1>18. Named'
  <2>1. ~NoPresence'
    BY <1>5, <1>7 DEF NoPresence
  <2> QED BY <1>4, <1>5, <1>7, <1>11, <2>1 DEF Named
<1>19. Wanted'
  BY <1>4, <1>5, <1>7, <1>11 DEF Wanted
<1>20. Awaited'
  BY <1>1, <1>4, <1>7 DEF Awaited
<1>21. Answered'
  <2>1. ASSUME NEW i \in 1..Len(toService'), IsIq(toService'[i])
        PROVE  i \in 1..Len(toService) /\ toService'[i] = toService[i]
    BY <1>5, <1>7, <2>1
  <2>2. \A a \in Nat : a <= asked => a <= asked'
    BY <1>3
  <2>3. ASSUME NEW i \in 1..Len(toService'), IsIq(toService'[i]), toService'[i].id # 0
        PROVE  /\ toService'[i].id <= asked'
               /\ toService'[i].id \notin granted
               /\ \A j \in 1..Len(toService') : IsIq(toService'[j]) /\ toService'[j].id = toService'[i].id => j = i
               /\ \A k \in 1..Len(toRoom) : IsIq(toRoom[k]) => toRoom[k].id # toService'[i].id
               /\ \A r \in reports : r.id # toService'[i].id
    <3>1. i \in 1..Len(toService) /\ toService'[i] = toService[i]
      BY <2>1, <2>3
    <3>2. toService[i].id <= asked /\ toService[i].id \in Nat
      BY <1>1, <1>8, <2>3, <3>1 DEF Answered
    <3> QED BY <1>1, <2>1, <2>2, <2>3, <3>1, <3>2 DEF Answered
  <2>4. ASSUME NEW k \in 1..Len(toRoom), IsIq(toRoom[k]), toRoom[k].id # 0
        PROVE  toRoom[k].id <= asked'
    <3>1. toRoom[k].id <= asked /\ toRoom[k].id \in Nat
      BY <1>1, <1>9, <2>4, InFields DEF Answered
    <3> QED BY <2>2, <3>1
  <2>5. (\A q \in granted : q <= asked') /\ (\A r \in reports : r.id <= asked')
    <3>1. (\A q \in granted : q <= asked /\ q \in Nat) /\ (\A r \in reports : r.id <= asked /\ r.id \in Nat)
      BY <1>1 DEF Answered, RoomTypes
    <3> QED BY <2>2, <3>1
  <2> QED BY <1>1, <1>4, <2>3, <2>4, <2>5 DEF Answered
<1>22. Reported'
  BY <1>1, <1>4 DEF Reported
<1> QED BY <1>12, <1>13, <1>14, <1>15, <1>16, <1>17, <1>18, <1>19, <1>20, <1>21, <1>22 DEF RoomInvariant

\* With nothing in flight the object and the room agree.
LEMMA QuietAgrees ==
    ASSUME RoomInvariant, Quiet
    PROVE  /\ ~misread /\ room.joined => service.occupant # NoNick \/ service.putOut
           /\ ~misread /\ ~room.joined => service.occupant = NoNick
           /\ ~crossed /\ ~renamed => ~misread /\ room.newNick = NoNick
           /\ ~crossed /\ ~misread /\ service.occupant # NoNick => service.occupant = room.nick
           /\ ~crossed /\ room.instant => ~service.locked
           /\ requests = {}
<1>1. toService = <<>> /\ toRoom = <<>> /\ Len(toService) = 0 /\ Len(toRoom) = 0
  BY DEF Quiet
<1>2. (\A i \in 1..Len(toService) : FALSE) /\ (\A k \in 1..Len(toRoom) : FALSE) /\ NoPresence
  BY <1>1 DEF NoPresence
<1>3. InStep /\ Opens /\ Named /\ Wanted /\ Awaited
  BY DEF RoomInvariant
<1>4. requests = {}
  BY <1>2, <1>3 DEF Awaited
<1> QED BY <1>1, <1>2, <1>3, <1>4 DEF InStep, Opens, Named, Wanted

\* Entering.
LEMMA JoinKeeps ==
    ASSUME RoomInvariant, Join
    PROVE  RoomInvariant'
<1>1. room \in Rooms /\ service \in Services /\ renamed \in BOOLEAN /\ crossed \in BOOLEAN
  BY DEF RoomInvariant, RoomTypes
<1>2. /\ ~room.joined /\ Asks /\ room' = [room EXCEPT !.joined = TRUE] /\ SendsPresence(room.nick)
      /\ requests' = requests /\ renamed' = renamed
  BY DEF Join
<1>3. /\ room' \in Rooms /\ room'.joined /\ room'.instant = room.instant
      /\ room'.nick = room.nick /\ room'.newNick = room.newNick /\ room.nick \in Nicks
  BY <1>1, <1>2 DEF Rooms
<1>4. room.nick # NoNick
  BY <1>3, GlooxRoomAssumption
<1>5. crossed' <=> (crossed \/ ~Quiet \/ (room.joined /\ room.nick # NoNick /\ service.putOut))
  BY <1>2 DEF SendsPresence
<1>6. ASSUME ~crossed', ~misread
      PROVE  service.occupant = NoNick
  BY <1>2, <1>5, <1>6, QuietAgrees
<1>7. ASSUME ~crossed', ~renamed'
      PROVE  ~misread /\ room'.newNick = NoNick
  BY <1>2, <1>3, <1>5, <1>7, QuietAgrees
<1> QED BY <1>1, <1>2, <1>3, <1>4, <1>6, <1>7, SendingKeeps

\* Leaving.
LEMMA LeaveKeeps ==
    ASSUME RoomInvariant, Leave
    PROVE  RoomInvariant'
<1>1. room \in Rooms /\ service \in Services /\ renamed \in BOOLEAN /\ crossed \in BOOLEAN
  BY DEF RoomInvariant, RoomTypes
<1>2. /\ room.joined /\ Asks /\ room' = [room EXCEPT !.joined = FALSE] /\ SendsPresence(NoNick)
      /\ requests' = requests /\ renamed' = renamed
  BY DEF Leave
<1>3. /\ room' \in Rooms /\ ~room'.joined /\ room'.instant = room.instant /\ room'.newNick = room.newNick
  BY <1>1, <1>2 DEF Rooms
<1>4. crossed' <=> (crossed \/ ~Quiet \/ (room.joined /\ NoNick # NoNick /\ service.putOut))
  BY <1>2 DEF SendsPresence
<1>5. ASSUME ~crossed', ~renamed'
      PROVE  ~misread /\ room'.newNick = NoNick
  BY <1>2, <1>3, <1>4, <1>5, QuietAgrees
<1> QED BY <1>1, <1>2, <1>3, <1>5, SendingKeeps

\* A presence of an occupant.
LEMMA SetPresenceKeeps ==
    ASSUME RoomInvariant, SetPresence
    PROVE  RoomInvariant'
<1>1. room \in Rooms /\ service \in Services /\ renamed \in BOOLEAN /\ crossed \in BOOLEAN
  BY DEF RoomInvariant, RoomTypes
<1>2. /\ room.joined /\ Asks /\ room' = room /\ SendsPresence(room.nick)
      /\ requests' = requests /\ renamed' = renamed
  BY DEF SetPresence
<1>3. room.nick \in Nicks /\ room.nick # NoNick
  BY <1>1, GlooxRoomAssumption DEF Rooms
<1>4. crossed' <=> (crossed \/ ~Quiet \/ (room.joined /\ room.nick # NoNick /\ service.putOut))
  BY <1>2 DEF SendsPresence
<1>5. ASSUME ~crossed', ~misread
      PROVE  service.occupant = room.nick
  BY <1>2, <1>3, <1>4, <1>5, QuietAgrees
<1>6. ASSUME ~crossed', ~renamed'
      PROVE  ~misread /\ room'.newNick = NoNick
  BY <1>2, <1>4, <1>6, QuietAgrees
<1> QED BY <1>1, <1>2, <1>3, <1>5, <1>6, SendingKeeps

\* What keeps the invariant though no stanza is sent: the application's own
\* fields change, of an object that is not in.
LEMMA OutsideKeeps ==
    ASSUME RoomInvariant, Asks, ~room.joined, UNCHANGED <<toService, last, crossed, toRoom, service, reports, granted, misread>>,
           room' \in Rooms, ~room'.joined, room'.instant = room.instant,
           requests' \subseteq requests, renamed' \in BOOLEAN,
           ~crossed /\ ~renamed' => ~misread /\ room'.newNick = NoNick
    PROVE  RoomInvariant'
<1>1. RoomTypes /\ Served /\ SentInOrder /\ InStep /\ OneAtATime /\ Opens /\ Named /\ Wanted
      /\ Awaited /\ Answered /\ Reported
  BY DEF RoomInvariant
<1>2. /\ toService' = toService /\ last' = last /\ (crossed' <=> crossed) /\ toRoom' = toRoom /\ service' = service
      /\ reports' = reports /\ granted' = granted /\ (misread' <=> misread)
  OBVIOUS
<1>3. asked' = asked + 1 /\ asked' \in 0..MaxRequests /\ asked \in Nat /\ last \in Nat
  BY <1>1, GlooxRoomAssumption DEF Asks, RoomTypes
<1>4. /\ \A i \in 1..Len(toService) : toService[i] \in Out /\ toService[i].id \in Nat
      /\ \A k \in 1..Len(toRoom) : toRoom[k] \in In
  <2>1. toService \in Seq(Out) /\ toRoom \in Seq(In)
    BY <1>1 DEF RoomTypes
  <2>2. (\A i \in 1..Len(toService) : toService[i] \in Out) /\ (\A k \in 1..Len(toRoom) : toRoom[k] \in In)
    BY <2>1
  <2> QED BY <2>2, OutFields
<1>5. RoomTypes'
  BY <1>1, <1>3 DEF RoomTypes
<1>6. Served'
  BY <1>1 DEF Served
<1>7. SentInOrder'
  BY <1>1, <1>2, <1>3 DEF SentInOrder, NoPresence
<1>8. InStep'
  BY <1>1, <1>2 DEF InStep, NoPresence
<1>9. OneAtATime'
  BY <1>1, <1>2 DEF OneAtATime
<1>10. Opens'
  BY <1>1, <1>2 DEF Opens
<1>11. Named'
  <2> SUFFICES ASSUME ~crossed, ~misread PROVE Named'
    BY <1>2 DEF Named
  <2>1. \A i \in 1..Len(toService) : IsPresence(toService[i]) => toService[i].nick = NoNick
    BY <1>1 DEF OneAtATime
  <2>2. NoPresence => service.occupant = NoNick
    BY <1>1 DEF InStep
  <2> QED BY <1>2, <2>1, <2>2 DEF Named, NoPresence
<1>12. Wanted'
  <2> SUFFICES ASSUME ~crossed, ~renamed' PROVE Wanted'
    BY <1>2 DEF Wanted
  <2>1. \A k \in 1..Len(toRoom) : ~IsError(toRoom[k])
    BY <1>1 DEF OneAtATime
  <2> QED BY <1>2, <2>1 DEF Wanted
<1>13. Awaited'
  BY <1>1, <1>2 DEF Awaited
<1>14. Answered'
  <2>1. \A a \in Nat : a <= asked => a <= asked'
    BY <1>3
  <2>2. ASSUME NEW i \in 1..Len(toService), IsIq(toService[i]), toService[i].id # 0
        PROVE  toService[i].id <= asked'
    BY <1>1, <1>4, <2>1, <2>2 DEF Answered
  <2>3. ASSUME NEW k \in 1..Len(toRoom), IsIq(toRoom[k]), toRoom[k].id # 0
        PROVE  toRoom[k].id <= asked'
    <3>1. toRoom[k].id <= asked /\ toRoom[k].id \in Nat
      BY <1>1, <1>4, <2>3, InFields DEF Answered
    <3> QED BY <2>1, <3>1
  <2>4. (\A q \in granted : q <= asked') /\ (\A r \in reports : r.id <= asked')
    <3>1. (\A q \in granted : q <= asked /\ q \in Nat) /\ (\A r \in reports : r.id <= asked /\ r.id \in Nat)
      BY <1>1 DEF Answered, RoomTypes
    <3> QED BY <2>1, <3>1
  <2> QED BY <1>1, <1>2, <2>2, <2>3, <2>4 DEF Answered
<1>15. Reported'
  BY <1>1, <1>2 DEF Reported
<1> QED BY <1>5, <1>6, <1>7, <1>8, <1>9, <1>10, <1>11, <1>12, <1>13, <1>14, <1>15 DEF RoomInvariant

\* A new object for the room: what the old one had misread is still recorded.
LEMMA ReplaceKeeps ==
    ASSUME RoomInvariant, Replace
    PROVE  RoomInvariant'
<1>1. room \in Rooms /\ service \in Services /\ renamed \in BOOLEAN /\ crossed \in BOOLEAN /\ misread \in BOOLEAN
  BY DEF RoomInvariant, RoomTypes
<1>2. /\ Asks /\ room' = NewRoom(room.nick, room.instant, room.config)
      /\ requests' = {} /\ (renamed' <=> renamed /\ misread) /\ renamed' \in BOOLEAN
  BY <1>1 DEF Replace
<1>3. /\ room' \in Rooms /\ ~room'.joined /\ room'.instant = room.instant /\ room'.newNick = NoNick
  BY <1>1, <1>2 DEF Rooms, NewRoom
<1>4. ~crossed /\ ~renamed' => ~misread
  BY <1>2 DEF RoomInvariant, Wanted
<1>5. CASE room.joined
  <2>1. SendsPresence(NoNick)
    BY <1>5 DEF Replace
  <2>2. ~crossed' => ~crossed
    BY <2>1 DEF SendsPresence
  <2> QED BY <1>2, <1>3, <1>4, <2>1, <2>2, SendingKeeps
<1>6. CASE ~room.joined
  <2>1. UNCHANGED <<toService, last, crossed, toRoom, service, reports, granted, misread>>
    BY <1>6 DEF Replace
  <2> QED BY <1>2, <1>3, <1>4, <1>6, <2>1, OutsideKeeps
<1> QED BY <1>5, <1>6

\* A new nick, of an object that is in or is not.
LEMMA SetNickKeeps ==
    ASSUME RoomInvariant, NEW nick \in Nicks, SetNick(nick)
    PROVE  RoomInvariant'
<1>1. room \in Rooms /\ service \in Services /\ renamed \in BOOLEAN /\ crossed \in BOOLEAN /\ misread \in BOOLEAN
  BY DEF RoomInvariant, RoomTypes
<1>2. Asks /\ requests' = requests /\ renamed' = renamed
  BY DEF SetNick
<1>3. nick # NoNick
  BY GlooxRoomAssumption
<1>4. CASE room.joined
  <2>1. room' = [room EXCEPT !.newNick = nick] /\ SendsPresence(nick)
    BY <1>4 DEF SetNick
  <2>2. /\ room' \in Rooms /\ room'.joined /\ room'.instant = room.instant
        /\ room'.newNick = nick /\ room'.nick = room.nick
    BY <1>1, <1>4, <2>1 DEF Rooms
  <2>3. crossed' <=> (crossed \/ ~Quiet \/ (room.joined /\ nick # NoNick /\ service.putOut))
    BY <2>1 DEF SendsPresence
  <2>4. ASSUME ~crossed', ~misread
        PROVE  service.occupant # NoNick /\ service.occupant = room.nick
    BY <1>3, <1>4, <2>3, <2>4, QuietAgrees
  <2>5. ASSUME ~crossed', ~renamed' PROVE ~misread
    BY <1>2, <2>3, <2>5, QuietAgrees
  <2> QED BY <1>1, <1>2, <1>3, <2>1, <2>2, <2>4, <2>5, SendingKeeps
<1>5. CASE ~room.joined
  <2>1. /\ room' = [room EXCEPT !.nick = nick]
        /\ UNCHANGED <<toService, last, crossed, toRoom, service, reports, granted, misread>>
    BY <1>5 DEF SetNick
  <2>2. room' \in Rooms /\ ~room'.joined /\ room'.instant = room.instant /\ room'.newNick = room.newNick
    BY <1>1, <1>5, <2>1 DEF Rooms
  <2>3. ~crossed /\ ~renamed' => ~misread /\ room'.newNick = NoNick
    BY <1>2, <1>5, <2>2 DEF RoomInvariant, Wanted
  <2> QED BY <1>1, <1>2, <1>5, <2>1, <2>2, <2>3, OutsideKeeps
<1> QED BY <1>4, <1>5

\* An operation: its number is new, so it is under way once.
LEMMA OperateKeeps ==
    ASSUME RoomInvariant, NEW op \in Operations, Operate(op)
    PROVE  RoomInvariant'
<1> DEFINE m == [type |-> "iq", op |-> op, id |-> asked + 1]
<1>1. RoomTypes /\ Served /\ SentInOrder /\ InStep /\ OneAtATime /\ Opens /\ Named /\ Wanted
      /\ Awaited /\ Answered /\ Reported
  BY DEF RoomInvariant
<1>2. /\ toService \in Seq(Out) /\ toRoom \in Seq(In) /\ asked \in 0..MaxRequests /\ last \in 0..MaxRequests
      /\ room \in Rooms
  BY <1>1 DEF RoomTypes
<1>3. /\ asked' = asked + 1 /\ asked + 1 \in 1..MaxRequests /\ last <= asked /\ asked \in Nat /\ last \in Nat
      /\ asked + 1 \in 0..MaxRequests
  BY <1>1, <1>2, GlooxRoomAssumption DEF Operate, Asks, SentInOrder
<1>4. /\ toRoom' = toRoom /\ service' = service /\ reports' = reports /\ granted' = granted /\ (misread' <=> misread)
      /\ last' = last /\ (crossed' <=> crossed) /\ (renamed' <=> renamed)
      /\ misread' = misread /\ crossed' = crossed /\ renamed' = renamed
      /\ requests' = requests \cup {[id |-> asked + 1, op |-> op]}
  BY DEF Operate, SendsIq
<1>5. /\ room' \in Rooms /\ (room'.joined <=> room.joined) /\ (room'.instant <=> room.instant)
      /\ room'.nick = room.nick /\ room'.newNick = room.newNick
  <2>1. room' = IF op \in {"CreateInstantRoom", "CancelRoomCreation", "RequestRoomConfig"}
                THEN [room EXCEPT !.creating = FALSE] ELSE room
    BY DEF Operate
  <2> QED BY <1>2, <2>1 DEF Rooms
<1>6. m \in Out /\ IsIq(m) /\ ~IsPresence(m) /\ m.op = op /\ m.id = asked + 1
  BY <1>3, IqOut
<1>7. toService' = Append(toService, m)
  BY DEF Operate, SendsIq
<1> HIDE DEF m
<1>8. PICK n \in Nat :
        /\ toService' \in Seq(Out) /\ Len(toService) \in Nat /\ n = Len(toService) + 1 /\ Len(toService') = n
        /\ \A i \in 1..Len(toService) : i \in 1..Len(toService') /\ toService'[i] = toService[i]
        /\ n \in 1..Len(toService') /\ toService'[n] = m
        /\ \A i \in 1..Len(toService') : i \in 1..Len(toService) \/ i = n
  BY <1>2, <1>6, <1>7, Queued
<1>9. \A i \in 1..Len(toService') : IsPresence(toService'[i]) => i \in 1..Len(toService) /\ toService'[i] = toService[i]
  BY <1>6, <1>8
<1>10. NoPresence' <=> NoPresence
  BY <1>8, <1>9 DEF NoPresence
<1>11. /\ \A i \in 1..Len(toService) : toService[i] \in Out /\ toService[i].id \in Nat
       /\ \A k \in 1..Len(toRoom) : toRoom[k] \in In
  <2>1. (\A i \in 1..Len(toService) : toService[i] \in Out) /\ (\A k \in 1..Len(toRoom) : toRoom[k] \in In)
    BY <1>2
  <2> QED BY <2>1, OutFields
<1>12. RoomTypes'
  <2>1. requests' \subseteq [id : 0..MaxRequests, op : Operations]
    BY <1>1, <1>3, <1>4 DEF RoomTypes
  <2> QED BY <1>1, <1>3, <1>4, <1>5, <1>8, <2>1 DEF RoomTypes
<1>13. Served'
  BY <1>1, <1>4 DEF Served
<1>14. SentInOrder'
  <2>1. last' <= asked'
    BY <1>3, <1>4
  <2>2. ASSUME NEW i \in 1..Len(toService'), IsPresence(toService'[i])
        PROVE  /\ toService'[i].id <= last
               /\ toService'[i].id = last => \A j \in 1..Len(toService') : IsPresence(toService'[j]) => j <= i
               /\ \E j \in 1..Len(toService') : IsPresence(toService'[j]) /\ toService'[j].id = last
    BY <1>1, <1>8, <1>9, <2>2 DEF SentInOrder
  <2> QED BY <1>1, <1>4, <1>10, <2>1, <2>2 DEF SentInOrder
<1>15. InStep'
  BY <1>1, <1>4, <1>5, <1>9, <1>10 DEF InStep
<1>16. OneAtATime'
  BY <1>1, <1>4, <1>5, <1>9 DEF OneAtATime
<1>17. Opens'
  BY <1>1, <1>4, <1>5, <1>8 DEF Opens
<1>18. Named'
  BY <1>1, <1>4, <1>5, <1>9, <1>10 DEF Named
<1>19. Wanted'
  BY <1>1, <1>4, <1>5, <1>8 DEF Wanted
<1>20. Awaited'
  <2>1. ASSUME NEW r \in requests'
        PROVE  \/ \E i \in 1..Len(toService') : IqOf(toService'[i], r)
               \/ \E k \in 1..Len(toRoom) : IqOf(toRoom[k], r)
    <3>1. CASE r \in requests
      BY <1>1, <1>8, <3>1 DEF Awaited
    <3>2. CASE r = [id |-> asked + 1, op |-> op]
      BY <1>6, <1>8, <3>2 DEF IqOf
    <3> QED BY <1>4, <2>1, <3>1, <3>2
  <2> QED BY <1>4, <2>1 DEF Awaited
<1>21. Answered'
  <2>1. \A a \in Nat : a <= asked => a <= asked' /\ a # asked + 1
    BY <1>3
  <2>2. (\A q \in granted : q <= asked' /\ q # asked + 1) /\ (\A r \in reports : r.id <= asked' /\ r.id # asked + 1)
    <3>1. (\A q \in granted : q <= asked /\ q \in Nat) /\ (\A r \in reports : r.id <= asked /\ r.id \in Nat)
      BY <1>1 DEF Answered, RoomTypes
    <3> QED BY <2>1, <3>1
  <2>3. ASSUME NEW k \in 1..Len(toRoom), IsIq(toRoom[k])
        PROVE  toRoom[k].id # asked + 1 /\ (toRoom[k].id # 0 => toRoom[k].id <= asked')
    <3>1. toRoom[k].id \in Nat /\ (toRoom[k].id # 0 => toRoom[k].id <= asked)
      BY <1>1, <1>11, <2>3, InFields DEF Answered
    <3>2. asked + 1 # 0
      BY <1>3
    <3> QED BY <2>1, <3>1, <3>2
  <2>4. ASSUME NEW i \in 1..Len(toService), IsIq(toService[i])
        PROVE  toService[i].id # asked + 1 /\ (toService[i].id # 0 => toService[i].id <= asked')
    <3>1. toService[i].id \in Nat /\ (toService[i].id # 0 => toService[i].id <= asked)
      BY <1>1, <1>11, <2>4 DEF Answered
    <3>2. asked + 1 # 0
      BY <1>3
    <3> QED BY <2>1, <3>1, <3>2
  <2>5. ASSUME NEW i \in 1..Len(toService'), IsIq(toService'[i]), toService'[i].id # 0
        PROVE  /\ toService'[i].id <= asked'
               /\ toService'[i].id \notin granted
               /\ \A j \in 1..Len(toService') : IsIq(toService'[j]) /\ toService'[j].id = toService'[i].id => j = i
               /\ \A k \in 1..Len(toRoom) : IsIq(toRoom[k]) => toRoom[k].id # toService'[i].id
               /\ \A r \in reports : r.id # toService'[i].id
    <3>1. CASE i \in 1..Len(toService)
      <4>1. toService'[i] = toService[i]
        BY <1>8, <3>1
      <4>2. ASSUME NEW j \in 1..Len(toService'), IsIq(toService'[j]), toService'[j].id = toService'[i].id
            PROVE  j = i
        <5>1. CASE j \in 1..Len(toService)
          BY <1>1, <1>8, <2>5, <3>1, <4>1, <4>2, <5>1 DEF Answered
        <5>2. CASE j = n
          BY <1>6, <1>8, <2>4, <2>5, <3>1, <4>1, <4>2, <5>2
        <5> QED BY <1>8, <5>1, <5>2
      <4> QED BY <1>1, <2>4, <2>5, <3>1, <4>1, <4>2 DEF Answered
    <3>2. CASE i = n
      <4>1. toService'[i].id = asked + 1
        BY <1>6, <1>8, <3>2
      <4>2. ASSUME NEW j \in 1..Len(toService'), IsIq(toService'[j]), toService'[j].id = asked + 1
            PROVE  j = i
        BY <1>8, <2>4, <3>2, <4>2
      <4>3. asked + 1 <= asked'
        BY <1>3
      <4> QED BY <2>2, <2>3, <4>1, <4>2, <4>3
    <3> QED BY <1>8, <3>1, <3>2
  <2> QED BY <1>1, <1>4, <2>2, <2>3, <2>5 DEF Answered
<1>22. Reported'
  BY <1>1, <1>4 DEF Reported
<1> QED BY <1>12, <1>13, <1>14, <1>15, <1>16, <1>17, <1>18, <1>19, <1>20, <1>21, <1>22 DEF RoomInvariant

-----------------------------------------------------------------------------
(* What the object is sent.                                                *)

\* A presence that does not tell changes no nick.
LEMMA Untold ==
    ASSUME NEW p, IsPresence(p), ~Telling(p), p.assigned \in BOOLEAN, NEW nick, NEW newNick
    PROVE  NickAfter(nick, newNick, p) = nick
BY DEF Telling, NickAfter

\* What stays of the answers when one has been heard.
LEMMA AnsweredHeard ==
    ASSUME RoomInvariant, toRoom # <<>>, toRoom' = Tail(toRoom),
           UNCHANGED <<toService, asked, granted, reports>>
    PROVE  Answered' /\ Reported'
<1>1. Answered /\ Reported
  BY DEF RoomInvariant
<1>2. \A k \in 1..Len(toRoom') : k \in Nat /\ k + 1 \in 1..Len(toRoom) /\ toRoom'[k] = toRoom[k + 1]
  <2>1. toRoom \in Seq(In)
    BY DEF RoomInvariant, RoomTypes
  <2> QED BY <2>1, Taken
<1>3. ASSUME NEW k \in 1..Len(toRoom'), IsIq(toRoom'[k])
      PROVE  /\ toRoom'[k].ok => toRoom'[k].id \in granted
             /\ toRoom'[k].id # 0 =>
                   /\ toRoom'[k].id <= asked
                   /\ toRoom'[k].id \in granted => toRoom'[k].ok
                   /\ \A l \in 1..Len(toRoom') : IsIq(toRoom'[l]) /\ toRoom'[l].id = toRoom'[k].id => l = k
                   /\ \A r \in reports : r.id # toRoom'[k].id
  <2>1. k + 1 \in 1..Len(toRoom) /\ toRoom'[k] = toRoom[k + 1] /\ k \in Nat
    BY <1>2
  <2>2. ASSUME NEW l \in 1..Len(toRoom'), IsIq(toRoom'[l]), toRoom'[l].id = toRoom'[k].id, toRoom'[k].id # 0
        PROVE  l = k
    <3>1. l + 1 \in 1..Len(toRoom) /\ toRoom'[l] = toRoom[l + 1] /\ l \in Nat
      BY <1>2
    <3>2. l + 1 = k + 1
      BY <1>1, <1>3, <2>1, <2>2, <3>1, SMTT(30) DEF Answered
    <3> QED BY <2>1, <3>1, <3>2
  <2> QED BY <1>1, <1>3, <2>1, <2>2 DEF Answered
<1>4. ASSUME NEW i \in 1..Len(toService), IsIq(toService[i]), toService[i].id # 0,
             NEW k \in 1..Len(toRoom'), IsIq(toRoom'[k])
      PROVE  toRoom'[k].id # toService[i].id
  BY <1>1, <1>2, <1>4, SMTT(30) DEF Answered
<1> QED BY <1>1, <1>3, <1>4 DEF Answered, Reported

\* A presence error: it is the answer to the last presence unless presences
\* have crossed, so it is read for what it is.
LEMMA PresenceErrorKeeps ==
    ASSUME RoomInvariant, HandlePresenceError
    PROVE  RoomInvariant'
<1> DEFINE h == Head(toRoom)
<1>1. RoomTypes /\ Served /\ SentInOrder /\ InStep /\ OneAtATime /\ Opens /\ Named /\ Wanted
      /\ Awaited /\ Answered /\ Reported
  BY DEF RoomInvariant
<1>2. /\ toRoom \in Seq(In) /\ room \in Rooms /\ misread \in BOOLEAN
  BY <1>1 DEF RoomTypes
<1>3. /\ toRoom # <<>> /\ IsError(h) /\ toRoom' = Tail(toRoom)
      /\ toService' = toService /\ service' = service /\ granted' = granted /\ crossed' = crossed
      /\ requests' = requests /\ asked' = asked /\ last' = last /\ reports' = reports /\ renamed' = renamed
  BY DEF HandlePresenceError, Received, Handled, IsError
<1>4. /\ h \in In /\ h = toRoom[1] /\ 1 \in 1..Len(toRoom)
      /\ toRoom' \in Seq(In)
      /\ \A k \in 1..Len(toRoom') : k \in Nat /\ k + 1 \in 1..Len(toRoom) /\ k + 1 # 1 /\ toRoom'[k] = toRoom[k + 1]
      /\ \A k \in 1..Len(toRoom) : k # 1 => k - 1 \in 1..Len(toRoom') /\ toRoom'[k - 1] = toRoom[k]
  BY <1>2, <1>3, Taken
<1>5. h.entry \in BOOLEAN /\ ~IsPresence(h) /\ ~IsIq(h)
  BY <1>3, <1>4, InFields
<1>6. /\ room' = IF ~room.joined THEN room
                  ELSE IF room.newNick = NoNick THEN [room EXCEPT !.joined = FALSE]
                  ELSE [room EXCEPT !.newNick = NoNick]
      /\ misread' = \/ misread
                    \/ room.joined /\ h.entry # (room.newNick = NoNick)
                    \/ room.joined /\ h.id # last
  BY DEF HandlePresenceError
<1> HIDE DEF h
<1>7. /\ room' \in Rooms /\ room'.instant = room.instant /\ room'.nick = room.nick
      /\ room'.joined <=> room.joined /\ room.newNick # NoNick
      /\ room'.newNick = IF room.joined THEN NoNick ELSE room.newNick
  BY <1>2, <1>6 DEF Rooms
<1>8. /\ misread' \in BOOLEAN
      /\ misread' <=> \/ misread
                      \/ room.joined /\ ~(h.entry <=> (room.newNick = NoNick))
                      \/ room.joined /\ h.id # last
  <2>1. h.entry # (room.newNick = NoNick) <=> ~(h.entry <=> (room.newNick = NoNick))
    <3>1. CASE h.entry = TRUE
      BY <3>1, Zenon
    <3>2. CASE h.entry = FALSE
      BY <3>2, Zenon
    <3> QED BY <1>5, <3>1, <3>2
  <2>2. misread' <=> \/ misread
                     \/ room.joined /\ h.entry # (room.newNick = NoNick)
                     \/ room.joined /\ h.id # last
    BY <1>6
  <2>3. misread' \in BOOLEAN
    BY <1>2, <1>6
  <2> QED BY <2>1, <2>2, <2>3, Zenon
<1>9. ~crossed => /\ \A i \in 1..Len(toService) : ~IsPresence(toService[i])
                  /\ \A k \in 1..Len(toRoom') : ~IsError(toRoom'[k]) /\ ~Telling(toRoom'[k])
                  /\ room.joined /\ h.id = last
  BY <1>1, <1>3, <1>4 DEF OneAtATime
<1>10. NoPresence' <=> NoPresence
  BY <1>3 DEF NoPresence
<1>11. RoomTypes'
  BY <1>1, <1>3, <1>4, <1>7, <1>8 DEF RoomTypes
<1>12. Served'
  BY <1>1, <1>3 DEF Served
<1>13. SentInOrder'
  <2>1. \A k \in 1..Len(toRoom') : IsError(toRoom'[k]) =>
          toRoom'[k].id <= last /\ (toRoom'[k].id = last => NoPresence)
    BY <1>1, <1>4 DEF SentInOrder
  <2> QED BY <1>1, <1>3, <1>10, <2>1 DEF SentInOrder
<1>14. InStep'
  <2> SUFFICES ASSUME ~misread' PROVE InStep'
    BY DEF InStep
  <2>1. ~misread /\ (room.joined => (h.entry <=> room.newNick = NoNick) /\ h.id = last)
    BY <1>8
  <2>2. room.joined => NoPresence
    BY <1>1, <1>3, <1>4, <2>1 DEF SentInOrder
  <2>3. \A i \in 1..Len(toService) : IsPresence(toService[i]) /\ toService[i].id = last =>
              (room'.joined <=> toService[i].nick # NoNick)
    <3>1. CASE room.joined
      BY <2>2, <3>1 DEF NoPresence
    <3>2. CASE ~room.joined
      BY <1>1, <1>7, <2>1, <3>2 DEF InStep
    <3> QED BY <3>1, <3>2
  <2>4. room'.joined => service.occupant # NoNick \/ service.putOut
    BY <1>1, <1>3, <1>4, <1>7, <2>1 DEF InStep
  <2>5. NoPresence /\ ~room'.joined => service.occupant = NoNick
    BY <1>1, <1>3, <1>4, <1>7, <2>1 DEF InStep
  <2>6. \A k \in 1..Len(toRoom') : IsError(toRoom'[k]) /\ toRoom'[k].id = last =>
              /\ toRoom'[k].entry => service.occupant = NoNick
              /\ ~toRoom'[k].entry => service.occupant # NoNick \/ service.putOut
    BY <1>1, <1>4, <2>1 DEF InStep
  <2> QED BY <1>3, <1>10, <2>3, <2>4, <2>5, <2>6 DEF InStep
<1>15. OneAtATime'
  BY <1>3, <1>9 DEF OneAtATime
<1>16. Opens'
  BY <1>1, <1>3, <1>4, <1>5, <1>7 DEF Opens
<1>17. Named'
  <2> SUFFICES ASSUME ~crossed', ~misread', service'.occupant # NoNick PROVE Named'
    BY <1>3, <1>9 DEF Named
  <2>1. ~crossed /\ ~misread
    BY <1>3, <1>8
  <2>2. service.occupant = room.nick
    BY <1>1, <1>3, <1>4, <1>5, <1>9, <2>1 DEF Named, NoPresence
  <2>3. toRoom' # <<>> /\ IsPresence(toRoom'[1]) => NickAfter(room'.nick, room'.newNick, toRoom'[1]) = room'.nick
    <3> SUFFICES ASSUME toRoom' # <<>>, IsPresence(toRoom'[1])
                 PROVE  NickAfter(room'.nick, room'.newNick, toRoom'[1]) = room'.nick
      OBVIOUS
    <3>1. 1 \in 1..Len(toRoom') /\ toRoom'[1] \in In
      BY <1>4
    <3>2. ~Telling(toRoom'[1]) /\ toRoom'[1].assigned \in BOOLEAN
      BY <1>9, <2>1, <3>1, InFields
    <3> QED BY <3>2, Untold
  <2> QED BY <1>3, <1>7, <1>9, <2>1, <2>2, <2>3 DEF Named
<1>18. Wanted'
  <2> SUFFICES ASSUME ~crossed', ~renamed' PROVE Wanted'
    BY DEF Wanted
  <2>1. ~misread /\ (h.entry <=> room.newNick = NoNick) /\ room.joined /\ h.id = last
    BY <1>1, <1>3, <1>4, <1>9 DEF Wanted
  <2> QED BY <1>3, <1>7, <1>8, <1>9, <2>1 DEF Wanted
<1>19. Awaited'
  <2>1. ASSUME NEW r \in requests, NEW k \in 1..Len(toRoom), IqOf(toRoom[k], r)
        PROVE  \E l \in 1..Len(toRoom') : IqOf(toRoom'[l], r)
    <3>1. k # 1
      BY <1>4, <1>5, <2>1 DEF IqOf
    <3> QED BY <1>4, <2>1, <3>1
  <2> QED BY <1>1, <1>3, <2>1 DEF Awaited
<1>20. Answered' /\ Reported'
  BY <1>3, AnsweredHeard
<1> QED BY <1>11, <1>12, <1>13, <1>14, <1>15, <1>16, <1>17, <1>18, <1>19, <1>20 DEF RoomInvariant

\* An answer to an operation: whoever waits for it is told once.
LEMMA IqAnswerKeeps ==
    ASSUME RoomInvariant, HandleIqID
    PROVE  RoomInvariant'
<1> DEFINE h == Head(toRoom)
           as == IF h.ok THEN ReportOfResult(h.op) ELSE ReportOfError(h.op)
           x == [id |-> h.id, op |-> h.op, as |-> as]
           mine == {r \in requests : r.id = h.id /\ r.op = h.op}
<1>1. RoomTypes /\ Served /\ SentInOrder /\ InStep /\ OneAtATime /\ Opens /\ Named /\ Wanted
      /\ Awaited /\ Answered /\ Reported
  BY DEF RoomInvariant
<1>2. /\ toRoom \in Seq(In) /\ room \in Rooms /\ misread \in BOOLEAN /\ asked \in Nat
      /\ requests \subseteq [id : 0..MaxRequests, op : Operations]
  BY <1>1, GlooxRoomAssumption DEF RoomTypes
<1>3. /\ toRoom # <<>> /\ IsIq(h) /\ toRoom' = Tail(toRoom)
      /\ toService' = toService /\ service' = service /\ granted' = granted /\ crossed' = crossed
      /\ asked' = asked /\ last' = last /\ renamed' = renamed /\ room' = room /\ misread' = misread
  BY DEF HandleIqID, Received, Handled, IsIq
<1>4. /\ h \in In /\ h = toRoom[1] /\ 1 \in 1..Len(toRoom)
      /\ toRoom' \in Seq(In)
      /\ \A k \in 1..Len(toRoom') : k \in Nat /\ k + 1 \in 1..Len(toRoom) /\ k + 1 # 1 /\ toRoom'[k] = toRoom[k + 1]
      /\ \A k \in 1..Len(toRoom) : k # 1 => k - 1 \in 1..Len(toRoom') /\ toRoom'[k - 1] = toRoom[k]
  BY <1>2, <1>3, Taken
<1>5. h.id \in 0..MaxRequests /\ h.op \in Operations /\ h.ok \in BOOLEAN /\ ~IsPresence(h) /\ ~IsError(h)
  BY <1>3, <1>4, InFields
<1>6. /\ requests' = requests \ mine
      /\ reports' = IF room.config
                    THEN reports \cup {[id |-> r.id, op |-> r.op,
                                as |-> IF h.ok THEN ReportOfResult(r.op) ELSE ReportOfError(r.op)] : r \in mine}
                    ELSE reports
  BY DEF HandleIqID
<1>7. reports' \subseteq reports \cup {x}
  BY <1>6
<1>8. /\ as \in {"nothing", "form", "list", "success", "failure"}
      /\ as = "nothing" => h.op = "SendRoomConfig" \/ (h.op = "StoreOwnerList" /\ h.ok)
      /\ as \in {"success", "form", "list"} => h.ok
      /\ as = "failure" => ~h.ok
  BY <1>5 DEF ReportOfResult, ReportOfError
<1>9. \A r \in requests : r \notin mine => ~IqOf(h, r)
  BY DEF IqOf
<1>10. x.id = h.id /\ x.op = h.op /\ x.as = as
  OBVIOUS
<1>11. x \in [id : 0..MaxRequests, op : Operations, as : {"nothing", "form", "list", "success", "failure"}]
  BY <1>5, <1>8
<1> HIDE DEF h, as, x, mine
<1>12. ~crossed => /\ \A i \in 1..Len(toService) : ~IsPresence(toService[i])
                   /\ \A k \in 1..Len(toRoom') : ~IsError(toRoom'[k]) /\ ~Telling(toRoom'[k])
  BY <1>1, <1>3, <1>4 DEF OneAtATime
<1>13. NoPresence' <=> NoPresence
  BY <1>3 DEF NoPresence
<1>14. RoomTypes'
  <2>1. requests' \subseteq [id : 0..MaxRequests, op : Operations]
    BY <1>2, <1>6
  <2>2. reports' \subseteq [id : 0..MaxRequests, op : Operations, as : {"nothing", "form", "list", "success", "failure"}]
    BY <1>1, <1>7, <1>11 DEF RoomTypes
  <2> QED BY <1>1, <1>3, <1>4, <2>1, <2>2 DEF RoomTypes
<1>15. Served'
  BY <1>1, <1>3 DEF Served
<1>16. SentInOrder'
  <2>1. \A k \in 1..Len(toRoom') : IsError(toRoom'[k]) =>
          toRoom'[k].id <= last /\ (toRoom'[k].id = last => NoPresence)
    BY <1>1, <1>4 DEF SentInOrder
  <2> QED BY <1>1, <1>3, <1>13, <2>1 DEF SentInOrder
<1>17. InStep'
  <2> SUFFICES ASSUME ~misread PROVE InStep'
    BY <1>3 DEF InStep
  <2>1. NoPresence /\ room.joined =>
              \/ service.occupant # NoNick \/ service.putOut
              \/ \E k \in 1..Len(toRoom') : IsError(toRoom'[k]) /\ toRoom'[k].id = last /\ toRoom'[k].entry
    BY <1>1, <1>4, <1>5 DEF InStep
  <2>2. \A k \in 1..Len(toRoom') : IsError(toRoom'[k]) /\ toRoom'[k].id = last =>
              /\ toRoom'[k].entry => service.occupant = NoNick
              /\ ~toRoom'[k].entry => service.occupant # NoNick \/ service.putOut
    BY <1>1, <1>4 DEF InStep
  <2> QED BY <1>1, <1>3, <1>13, <2>1, <2>2 DEF InStep
<1>18. OneAtATime'
  BY <1>3, <1>12 DEF OneAtATime
<1>19. Opens'
  BY <1>1, <1>3, <1>4, <1>5 DEF Opens
<1>20. Named'
  <2> SUFFICES ASSUME ~crossed, ~misread, service.occupant # NoNick PROVE Named'
    BY <1>3, <1>12 DEF Named
  <2>1. service.occupant = room.nick
    BY <1>1, <1>3, <1>4, <1>5, <1>12 DEF Named, NoPresence
  <2>2. toRoom' # <<>> /\ IsPresence(toRoom'[1]) => NickAfter(room.nick, room.newNick, toRoom'[1]) = room.nick
    <3> SUFFICES ASSUME toRoom' # <<>>, IsPresence(toRoom'[1])
                 PROVE  NickAfter(room.nick, room.newNick, toRoom'[1]) = room.nick
      OBVIOUS
    <3>1. 1 \in 1..Len(toRoom') /\ toRoom'[1] \in In
      BY <1>4
    <3>2. ~Telling(toRoom'[1]) /\ toRoom'[1].assigned \in BOOLEAN
      BY <1>12, <3>1, InFields
    <3> QED BY <3>2, Untold
  <2> QED BY <1>3, <1>12, <2>1, <2>2 DEF Named
<1>21. Wanted'
  <2> SUFFICES ASSUME ~crossed, ~renamed PROVE Wanted'
    BY <1>3 DEF Wanted
  <2>1. /\ ~misread
        /\ room.newNick # NoNick =>
              /\ room.joined
              /\ \/ \E k \in 1..Len(toRoom') : IsPresence(toRoom'[k]) \/ IsError(toRoom'[k])
                 \/ \E i \in 1..Len(toService) :
                       IsPresence(toService[i]) /\ toService[i].nick = room.newNick /\ service.occupant # NoNick
        /\ \A k \in 1..Len(toRoom') : IsError(toRoom'[k]) => (toRoom'[k].entry <=> room.newNick = NoNick)
    BY <1>1, <1>4, <1>5 DEF Wanted
  <2> QED BY <1>3, <2>1 DEF Wanted
<1>22. Awaited'
  <2>1. ASSUME NEW r \in requests', NEW k \in 1..Len(toRoom), IqOf(toRoom[k], r)
        PROVE  \E l \in 1..Len(toRoom') : IqOf(toRoom'[l], r)
    <3>1. k # 1
      BY <1>4, <1>6, <1>9, <2>1
    <3> QED BY <1>4, <2>1, <3>1
  <2> QED BY <1>1, <1>3, <1>6, <2>1 DEF Awaited
<1>23. /\ h.ok => h.id \in granted
       /\ h.id # 0 => (h.id \in granted => h.ok)
       /\ h.id <= asked
       /\ h.id # 0 => \A r \in reports : r.id # h.id
       /\ \A k \in 1..Len(toRoom') : IsIq(toRoom'[k]) /\ toRoom'[k].id = h.id => h.id = 0
       /\ \A i \in 1..Len(toService) : IsIq(toService[i]) /\ toService[i].id = h.id => h.id = 0
  <2>1. /\ h.ok => h.id \in granted
        /\ h.id # 0 => (h.id \in granted => h.ok) /\ h.id <= asked /\ \A r \in reports : r.id # h.id
    BY <1>1, <1>3, <1>4 DEF Answered
  <2>2. h.id = 0 => h.id <= asked
    BY <1>2
  <2>3. ASSUME NEW k \in 1..Len(toRoom'), IsIq(toRoom'[k]), toRoom'[k].id = h.id, h.id # 0
        PROVE  FALSE
    BY <1>1, <1>3, <1>4, <2>3 DEF Answered
  <2>4. ASSUME NEW i \in 1..Len(toService), IsIq(toService[i]), toService[i].id = h.id, h.id # 0
        PROVE  FALSE
    BY <1>1, <1>3, <1>4, <2>4 DEF Answered
  <2> QED BY <2>1, <2>2, <2>3, <2>4
<1>24. Answered'
  <2>1. ASSUME NEW i \in 1..Len(toService), IsIq(toService[i]), toService[i].id # 0
        PROVE  /\ \A k \in 1..Len(toRoom') : IsIq(toRoom'[k]) => toRoom'[k].id # toService[i].id
               /\ \A r \in reports' : r.id # toService[i].id
    <3>1. \A k \in 1..Len(toRoom') : IsIq(toRoom'[k]) => toRoom'[k].id # toService[i].id
      <4>1. \A k \in 1..Len(toRoom) : IsIq(toRoom[k]) => toRoom[k].id # toService[i].id
        BY <1>1, <2>1 DEF Answered
      <4> QED BY <1>4, <4>1
    <3>2. \A r \in reports : r.id # toService[i].id
      BY <1>1, <2>1 DEF Answered
    <3> QED BY <1>7, <1>10, <1>23, <2>1, <3>1, <3>2
  <2>2. ASSUME NEW k \in 1..Len(toRoom'), IsIq(toRoom'[k])
        PROVE  /\ toRoom'[k].ok => toRoom'[k].id \in granted
               /\ toRoom'[k].id # 0 =>
                     /\ toRoom'[k].id <= asked
                     /\ toRoom'[k].id \in granted => toRoom'[k].ok
                     /\ \A l \in 1..Len(toRoom') : IsIq(toRoom'[l]) /\ toRoom'[l].id = toRoom'[k].id => l = k
                     /\ \A r \in reports' : r.id # toRoom'[k].id
    <3>1. k + 1 \in 1..Len(toRoom) /\ toRoom'[k] = toRoom[k + 1] /\ k \in Nat
      BY <1>4
    <3>2. ASSUME NEW l \in 1..Len(toRoom'), IsIq(toRoom'[l]), toRoom'[l].id = toRoom'[k].id, toRoom'[k].id # 0
          PROVE  l = k
      <4>1. l + 1 \in 1..Len(toRoom) /\ toRoom'[l] = toRoom[l + 1] /\ l \in Nat
        BY <1>4
      <4>2. l + 1 = k + 1
        BY <1>1, <2>2, <3>1, <3>2, <4>1 DEF Answered
      <4> QED BY <3>1, <4>1, <4>2
    <3>3. toRoom'[k].id # 0 => \A r \in reports' : r.id # toRoom'[k].id
      <4>1. toRoom'[k].id # 0 => \A r \in reports : r.id # toRoom'[k].id
        BY <1>1, <2>2, <3>1 DEF Answered
      <4> QED BY <1>7, <1>10, <1>23, <2>2, <4>1
    <3> QED BY <1>1, <2>2, <3>1, <3>2, <3>3 DEF Answered
  <2>3. \A r \in reports' : r.id <= asked
    BY <1>1, <1>7, <1>10, <1>23 DEF Answered
  <2> QED BY <1>1, <1>3, <2>1, <2>2, <2>3 DEF Answered
<1>25. Reported'
  <2>1. ASSUME NEW r \in reports'
        PROVE  /\ r.as = "nothing" => r.op = "SendRoomConfig" \/ (r.op = "StoreOwnerList" /\ r.id \in granted)
               /\ r.as \in {"success", "form", "list"} => r.id \in granted
               /\ r.as = "failure" /\ r.id # 0 => r.id \notin granted
    <3>1. CASE r \in reports
      BY <1>1, <3>1 DEF Reported
    <3>2. CASE r = x
      BY <1>8, <1>10, <1>23, <3>2
    <3> QED BY <1>7, <3>1, <3>2
  <2>2. ASSUME NEW r \in reports', NEW s \in reports', s.id = r.id, r.id # 0
        PROVE  s = r
    <3>1. r \in reports /\ s \in reports => s = r
      BY <1>1, <2>2 DEF Reported
    <3>2. r = x => s \notin reports
      BY <1>10, <1>23, <2>2
    <3>3. s = x => r \notin reports
      BY <1>10, <1>23, <2>2
    <3> QED BY <1>7, <3>1, <3>2, <3>3
  <2> QED BY <1>3, <2>1, <2>2 DEF Reported
<1> QED BY <1>14, <1>15, <1>16, <1>17, <1>18, <1>19, <1>20, <1>21, <1>22, <1>24, <1>25 DEF RoomInvariant

\* A presence of the client's own: it brings the nick that the service has.
LEMMA PresenceKeeps ==
    ASSUME RoomInvariant, NEW accepts \in BOOLEAN, HandlePresence(accepts)
    PROVE  RoomInvariant'
<1> DEFINE h == Head(toRoom)
           accepted == room.joined /\ h.newRoom /\ (room.instant \/ accepts)
           m == [type |-> "iq", op |-> "CreateInstantRoom", id |-> 0]
           req == [id |-> 0, op |-> "CreateInstantRoom"]
           new == [room EXCEPT !.creating = (@ \/ h.newRoom) /\ ~accepted]
<1>1. RoomTypes /\ Served /\ SentInOrder /\ InStep /\ OneAtATime /\ Opens /\ Named /\ Wanted
      /\ Awaited /\ Answered /\ Reported
  BY DEF RoomInvariant
<1>2. /\ toRoom \in Seq(In) /\ toService \in Seq(Out) /\ room \in Rooms /\ misread \in BOOLEAN /\ renamed \in BOOLEAN
      /\ requests \subseteq [id : 0..MaxRequests, op : Operations]
  BY <1>1 DEF RoomTypes
<1>3. /\ toRoom # <<>> /\ IsPresence(h) /\ toRoom' = Tail(toRoom)
      /\ service' = service /\ granted' = granted /\ crossed' = crossed
      /\ asked' = asked /\ last' = last /\ reports' = reports /\ misread' = misread
  BY DEF HandlePresence, Received, Handled, IsPresence
<1>4. /\ h \in In /\ h = toRoom[1] /\ 1 \in 1..Len(toRoom)
      /\ toRoom' \in Seq(In)
      /\ \A k \in 1..Len(toRoom') : k \in Nat /\ k + 1 \in 1..Len(toRoom) /\ k + 1 # 1 /\ toRoom'[k] = toRoom[k + 1]
      /\ \A k \in 1..Len(toRoom) : k # 1 => k - 1 \in 1..Len(toRoom') /\ toRoom'[k - 1] = toRoom[k]
  BY <1>2, <1>3, Taken
<1>5. /\ h.role \in {"none", "participant"} /\ h.self \in BOOLEAN /\ h.newRoom \in BOOLEAN /\ h.assigned \in BOOLEAN
      /\ ~IsError(h) /\ ~IsIq(h)
  BY <1>3, <1>4, InFields
<1>6. /\ room' = IF room.joined THEN WithNick(WithRole(new, h), h) ELSE room
      /\ renamed' = (renamed \/ (room.joined /\ room.newNick # NoNick))
      /\ IF accepted THEN toService' = Append(toService, m) /\ requests' = requests \cup {req}
                     ELSE toService' = toService /\ requests' = requests
  BY DEF HandlePresence
<1>7. 0 \in 0..MaxRequests /\ "CreateInstantRoom" \in Operations
  BY GlooxRoomAssumption DEF Operations
<1>8. m \in Out /\ IsIq(m) /\ ~IsPresence(m) /\ m.op = "CreateInstantRoom" /\ m.id = 0 /\ IqOf(m, req)
  BY <1>7, IqOut DEF IqOf
<1>9. req \in [id : 0..MaxRequests, op : Operations]
  BY <1>7
<1>10. WithRole(new, h) \in Rooms /\ WithRole(new, h).nick = room.nick /\ WithRole(new, h).joined = room.joined
       /\ WithRole(new, h).newNick = room.newNick /\ WithRole(new, h).instant = room.instant
  <2>1. /\ new \in Rooms /\ new.nick = room.nick /\ new.joined = room.joined
        /\ new.newNick = room.newNick /\ new.instant = room.instant
    BY <1>2, <1>5 DEF Rooms
  <2> HIDE DEF new
  <2>2. /\ [new EXCEPT !.role = h.role] \in Rooms /\ [new EXCEPT !.role = h.role].nick = new.nick
        /\ [new EXCEPT !.role = h.role].joined = new.joined /\ [new EXCEPT !.role = h.role].newNick = new.newNick
        /\ [new EXCEPT !.role = h.role].instant = new.instant
    BY <1>5, <2>1 DEF Rooms
  <2> QED BY <2>1, <2>2 DEF WithRole
<1> HIDE DEF h, m, req, new
<1>11. /\ room' \in Rooms /\ room'.joined = room.joined /\ room'.newNick = room.newNick /\ room'.instant = room.instant
       /\ room'.nick = IF room.joined THEN NickAfter(room.nick, room.newNick, h) ELSE room.nick
  BY <1>2, <1>3, <1>4, <1>6, <1>10, WithNickIs
<1>12. /\ toService' \in Seq(Out)
       /\ \A i \in 1..Len(toService) : i \in 1..Len(toService') /\ toService'[i] = toService[i]
       /\ \A i \in 1..Len(toService') : \/ i \in 1..Len(toService) /\ toService'[i] = toService[i]
                                        \/ toService'[i] = m
       /\ accepted => \E i \in 1..Len(toService') : toService'[i] = m
  <2>1. CASE accepted
    <3>1. toService' = Append(toService, m)
      BY <1>6, <2>1
    <3> HIDE DEF accepted
    <3> QED BY <1>2, <1>8, <3>1, Queued
  <2>2. CASE ~accepted
    <3>1. toService' = toService
      BY <1>6, <2>2
    <3> QED BY <1>2, <2>2, <3>1
  <2> QED BY <2>1, <2>2
<1>13. /\ accepted \/ requests' = requests
       /\ requests' \subseteq requests \cup {req}
       /\ renamed' \in BOOLEAN /\ (renamed' <=> renamed \/ (room.joined /\ room.newNick # NoNick))
  BY <1>2, <1>6
<1>14. room.joined /\ h.newRoom /\ room.instant => accepted
  OBVIOUS
<1> HIDE DEF accepted
<1>15. ~crossed => /\ \A i \in 1..Len(toService) : ~IsPresence(toService[i])
                   /\ \A k \in 1..Len(toRoom') : ~IsError(toRoom'[k]) /\ ~Telling(toRoom'[k])
                   /\ Telling(h) => room.joined
  BY <1>1, <1>3, <1>4 DEF OneAtATime
<1>16. \A i \in 1..Len(toService') : IsPresence(toService'[i]) => i \in 1..Len(toService) /\ toService'[i] = toService[i]
  BY <1>8, <1>12
<1>17. NoPresence' <=> NoPresence
  BY <1>12, <1>16 DEF NoPresence
<1>18. RoomTypes'
  <2>1. requests' \subseteq [id : 0..MaxRequests, op : Operations]
    BY <1>2, <1>9, <1>13
  <2> QED BY <1>1, <1>3, <1>4, <1>11, <1>12, <1>13, <2>1 DEF RoomTypes
<1>19. Served'
  BY <1>1, <1>3 DEF Served
<1>20. SentInOrder'
  <2>1. \A k \in 1..Len(toRoom') : IsError(toRoom'[k]) =>
          toRoom'[k].id <= last /\ (toRoom'[k].id = last => NoPresence)
    BY <1>1, <1>4 DEF SentInOrder
  <2>2. ASSUME NEW i \in 1..Len(toService'), IsPresence(toService'[i])
        PROVE  /\ toService'[i].id <= last
               /\ toService'[i].id = last => \A j \in 1..Len(toService') : IsPresence(toService'[j]) => j <= i
               /\ \E j \in 1..Len(toService') : IsPresence(toService'[j]) /\ toService'[j].id = last
    BY <1>1, <1>12, <1>16, <2>2 DEF SentInOrder
  <2> QED BY <1>1, <1>3, <1>17, <2>1, <2>2 DEF SentInOrder
<1>21. InStep'
  <2> SUFFICES ASSUME ~misread PROVE InStep'
    BY <1>3 DEF InStep
  <2>1. NoPresence /\ room.joined =>
              \/ service.occupant # NoNick \/ service.putOut
              \/ \E k \in 1..Len(toRoom') : IsError(toRoom'[k]) /\ toRoom'[k].id = last /\ toRoom'[k].entry
    BY <1>1, <1>4, <1>5, SMTT(30) DEF InStep
  <2>2. \A k \in 1..Len(toRoom') : IsError(toRoom'[k]) /\ toRoom'[k].id = last =>
              /\ toRoom'[k].entry => service.occupant = NoNick
              /\ ~toRoom'[k].entry => service.occupant # NoNick \/ service.putOut
    BY <1>1, <1>4 DEF InStep
  <2> QED BY <1>1, <1>3, <1>11, <1>16, <1>17, <2>1, <2>2 DEF InStep
<1>22. OneAtATime'
  BY <1>3, <1>15, <1>16 DEF OneAtATime
<1>23. Opens'
  <2> SUFFICES ASSUME ~crossed, room.instant, service.locked PROVE Opens'
    BY <1>3, <1>11 DEF Opens
  <2>1. CASE \E k \in 1..Len(toRoom) : IsPresence(toRoom[k]) /\ toRoom[k].newRoom
    <3>1. PICK k \in 1..Len(toRoom) : IsPresence(toRoom[k]) /\ toRoom[k].newRoom
      BY <2>1
    <3>2. CASE k = 1
      <4>1. Telling(h) /\ h.newRoom
        BY <1>4, <3>1, <3>2 DEF Telling
      <4>2. PICK i \in 1..Len(toService') : toService'[i] = m
        BY <1>12, <1>14, <1>15, <4>1
      <4> QED BY <1>8, <4>2 DEF Opens
    <3>3. CASE k # 1
      BY <1>4, <3>1, <3>3 DEF Opens
    <3> QED BY <3>2, <3>3
  <2>2. CASE \E i \in 1..Len(toService) : IsIq(toService[i]) /\ toService[i].op = "CreateInstantRoom"
    BY <1>12, <2>2 DEF Opens
  <2> QED BY <1>1, <2>1, <2>2 DEF Opens
<1>24. Named'
  <2> SUFFICES ASSUME ~crossed, ~misread, service.occupant # NoNick PROVE Named'
    BY <1>3, <1>15, <1>16 DEF Named
  <2>1. service.occupant = NickAfter(room.nick, room.newNick, h)
    BY <1>1, <1>3, <1>4, <1>15 DEF Named, NoPresence
  <2>2. ~room.joined => NickAfter(room.nick, room.newNick, h) = room.nick
    BY <1>3, <1>5, <1>15, Untold
  <2>3. service.occupant = room'.nick
    BY <1>11, <2>1, <2>2
  <2>4. toRoom' # <<>> /\ IsPresence(toRoom'[1]) => NickAfter(room'.nick, room'.newNick, toRoom'[1]) = room'.nick
    <3> SUFFICES ASSUME toRoom' # <<>>, IsPresence(toRoom'[1])
                 PROVE  NickAfter(room'.nick, room'.newNick, toRoom'[1]) = room'.nick
      OBVIOUS
    <3>1. 1 \in 1..Len(toRoom') /\ toRoom'[1] \in In
      BY <1>4
    <3>2. ~Telling(toRoom'[1]) /\ toRoom'[1].assigned \in BOOLEAN
      BY <1>15, <3>1, InFields
    <3> QED BY <3>2, Untold
  <2> QED BY <1>3, <1>15, <1>16, <2>3, <2>4 DEF Named
<1>25. Wanted'
  <2> SUFFICES ASSUME ~crossed, ~renamed' PROVE Wanted'
    BY <1>3 DEF Wanted
  <2>1. ~renamed /\ ~(room.joined /\ room.newNick # NoNick)
    BY <1>13
  <2>2. ~misread /\ room.newNick = NoNick
    BY <1>1, <2>1 DEF Wanted
  <2> QED BY <1>3, <1>11, <1>15, <2>2 DEF Wanted
<1>26. Awaited'
  <2>1. ASSUME NEW r \in requests, NEW k \in 1..Len(toRoom), IqOf(toRoom[k], r)
        PROVE  \E l \in 1..Len(toRoom') : IqOf(toRoom'[l], r)
    <3>1. k # 1
      BY <1>4, <1>5, <2>1 DEF IqOf
    <3> QED BY <1>4, <2>1, <3>1
  <2>2. \A r \in requests :
           \/ \E i \in 1..Len(toService') : IqOf(toService'[i], r)
           \/ \E k \in 1..Len(toRoom') : IqOf(toRoom'[k], r)
    <3> SUFFICES ASSUME NEW r \in requests
                 PROVE  \/ \E i \in 1..Len(toService') : IqOf(toService'[i], r)
                        \/ \E k \in 1..Len(toRoom') : IqOf(toRoom'[k], r)
      OBVIOUS
    <3>1. CASE \E i \in 1..Len(toService) : IqOf(toService[i], r)
      BY <1>12, <3>1
    <3>2. CASE \E k \in 1..Len(toRoom) : IqOf(toRoom[k], r)
      BY <2>1, <3>2
    <3> QED BY <1>1, <3>1, <3>2 DEF Awaited
  <2>3. requests' = requests \/ \E i \in 1..Len(toService') : IqOf(toService'[i], req)
    BY <1>8, <1>12, <1>13
  <2> QED BY <1>13, <2>2, <2>3 DEF Awaited
<1>27. Answered'
  <2>1. \A i \in 1..Len(toService') : IsIq(toService'[i]) /\ toService'[i].id # 0 =>
                                          i \in 1..Len(toService) /\ toService'[i] = toService[i]
    BY <1>8, <1>12
  <2>2. ASSUME NEW i \in 1..Len(toService'), IsIq(toService'[i]), toService'[i].id # 0
        PROVE  /\ toService'[i].id <= asked
               /\ toService'[i].id \notin granted
               /\ \A j \in 1..Len(toService') : IsIq(toService'[j]) /\ toService'[j].id = toService'[i].id => j = i
               /\ \A k \in 1..Len(toRoom') : IsIq(toRoom'[k]) => toRoom'[k].id # toService'[i].id
               /\ \A r \in reports : r.id # toService'[i].id
    <3>1. i \in 1..Len(toService) /\ toService'[i] = toService[i]
      BY <2>1, <2>2
    <3>2. \A j \in 1..Len(toService') : IsIq(toService'[j]) /\ toService'[j].id = toService'[i].id => j = i
      BY <1>1, <2>1, <2>2, <3>1 DEF Answered
    <3>3. \A k \in 1..Len(toRoom) : IsIq(toRoom[k]) => toRoom[k].id # toService[i].id
      BY <1>1, <2>2, <3>1 DEF Answered
    <3>4. \A k \in 1..Len(toRoom') : IsIq(toRoom'[k]) => toRoom'[k].id # toService'[i].id
      BY <1>4, <3>1, <3>3, SMTT(30)
    <3> QED BY <1>1, <2>2, <3>1, <3>2, <3>4 DEF Answered
  <2>3. ASSUME NEW k \in 1..Len(toRoom'), IsIq(toRoom'[k])
        PROVE  /\ toRoom'[k].ok => toRoom'[k].id \in granted
               /\ toRoom'[k].id # 0 =>
                     /\ toRoom'[k].id <= asked
                     /\ toRoom'[k].id \in granted => toRoom'[k].ok
                     /\ \A l \in 1..Len(toRoom') : IsIq(toRoom'[l]) /\ toRoom'[l].id = toRoom'[k].id => l = k
                     /\ \A r \in reports : r.id # toRoom'[k].id
    <3>1. k + 1 \in 1..Len(toRoom) /\ toRoom'[k] = toRoom[k + 1] /\ k \in Nat
      BY <1>4
    <3>2. ASSUME NEW l \in 1..Len(toRoom'), IsIq(toRoom'[l]), toRoom'[l].id = toRoom'[k].id, toRoom'[k].id # 0
          PROVE  l = k
      <4>1. l + 1 \in 1..Len(toRoom) /\ toRoom'[l] = toRoom[l + 1] /\ l \in Nat
        BY <1>4
      <4>2. l + 1 = k + 1
        BY <1>1, <2>3, <3>1, <3>2, <4>1 DEF Answered
      <4> QED BY <3>1, <4>1, <4>2
    <3> QED BY <1>1, <2>3, <3>1, <3>2 DEF Answered
  <2> QED BY <1>1, <1>3, <2>2, <2>3 DEF Answered
<1>28. Reported'
  BY <1>1, <1>3 DEF Reported
<1> QED BY <1>18, <1>19, <1>20, <1>21, <1>22, <1>23, <1>24, <1>25, <1>26, <1>27, <1>28 DEF RoomInvariant

-----------------------------------------------------------------------------
(* The service.                                                            *)

\* The others touch none of it.
LEMMA OthersKeep ==
    ASSUME RoomInvariant, OthersMove
    PROVE  RoomInvariant'
<1>1. RoomTypes /\ Served /\ SentInOrder /\ InStep /\ OneAtATime /\ Opens /\ Named /\ Wanted
      /\ Awaited /\ Answered /\ Reported
  BY DEF RoomInvariant
<1>2. /\ room' = room /\ requests' = requests /\ toService' = toService /\ toRoom' = toRoom /\ asked' = asked
      /\ last' = last /\ reports' = reports /\ granted' = granted /\ crossed' = crossed /\ renamed' = renamed
      /\ misread' = misread
  BY DEF OthersMove
<1>3. PICK t \in SUBSET (Nicks \ {service.occupant}) : service' = [service EXCEPT !.taken = t]
  BY DEF OthersMove
<1>4. /\ service' \in Services /\ service'.occupant = service.occupant /\ service'.locked = service.locked
      /\ service'.putOut = service.putOut /\ service'.taken = t
  BY <1>1, <1>3 DEF RoomTypes, Services
<1>5. RoomTypes'
  BY <1>1, <1>2, <1>4 DEF RoomTypes
<1>6. Served'
  BY <1>1, <1>4 DEF Served
<1>7. SentInOrder'
  BY <1>1, <1>2 DEF SentInOrder, NoPresence
<1>8. InStep'
  BY <1>1, <1>2, <1>4 DEF InStep, NoPresence
<1>9. OneAtATime'
  BY <1>1, <1>2 DEF OneAtATime
<1>10. Opens'
  BY <1>1, <1>2, <1>4 DEF Opens
<1>11. Named'
  BY <1>1, <1>2, <1>4 DEF Named, NoPresence
<1>12. Wanted'
  BY <1>1, <1>2, <1>4 DEF Wanted
<1>13. Awaited' /\ Answered' /\ Reported'
  BY <1>1, <1>2 DEF Awaited, Answered, Reported
<1> QED BY <1>5, <1>6, <1>7, <1>8, <1>9, <1>10, <1>11, <1>12, <1>13 DEF RoomInvariant

\* Being put out: the object is told of it behind whatever is in flight.
LEMMA KickKeeps ==
    ASSUME RoomInvariant, Kick
    PROVE  RoomInvariant'
<1> DEFINE m == Own(service.occupant, NoNick, "none", FALSE, FALSE)
<1>1. RoomTypes /\ Served /\ SentInOrder /\ InStep /\ OneAtATime /\ Opens /\ Named /\ Wanted
      /\ Awaited /\ Answered /\ Reported
  BY DEF RoomInvariant
<1>2. /\ room' = room /\ requests' = requests /\ toService' = toService /\ asked' = asked
      /\ last' = last /\ reports' = reports /\ granted' = granted /\ renamed' = renamed /\ misread' = misread
  BY DEF Kick
<1>3. service \in Services /\ service.occupant # NoNick /\ ~service.putOut /\ service.occupant \in Nicks
  BY <1>1 DEF Kick, RoomTypes, Served, Services
<1>4. /\ service' \in Services /\ service'.occupant = NoNick /\ ~service'.locked /\ service'.putOut
      /\ PutOut(service).putOut
  BY <1>3 DEF Kick, PutOut, Services
<1>5. m \in In /\ IsPresence(m) /\ ~IsError(m) /\ ~IsIq(m) /\ m.newNick = NoNick /\ ~m.newRoom /\ ~m.assigned
  <2>1. /\ m \in In /\ IsPresence(m) /\ ~IsError(m) /\ ~IsIq(m) /\ m.newNick = NoNick
        /\ m.newRoom = FALSE /\ m.assigned = FALSE
    BY <1>3 DEF Own, Services, In, InPresences, IsPresence, IsError, IsIq
  <2> QED BY <2>1
<1>6. ~Telling(m)
  BY <1>5 DEF Telling
<1>7. toRoom' = Append(toRoom, m) /\ toRoom \in Seq(In)
  BY <1>1 DEF Kick, RoomTypes
<1> HIDE DEF m
<1>8. PICK n \in Nat :
        /\ toRoom' \in Seq(In)
        /\ \A k \in 1..Len(toRoom) : k \in 1..Len(toRoom') /\ toRoom'[k] = toRoom[k]
        /\ n \in 1..Len(toRoom') /\ toRoom'[n] = m
        /\ \A k \in 1..Len(toRoom') : k \in 1..Len(toRoom) \/ k = n
  BY <1>5, <1>7, Queued
<1>9. toService \in Seq(Out)
  BY <1>1 DEF RoomTypes
<1>10. crossed' \in BOOLEAN /\ (crossed' <=> crossed \/ ~NoPresence)
  <2>1. CrossedBy(PutOut(service)) <=> ~NoPresence
    BY <1>3, <1>4, <1>9 DEF CrossedBy, NoPresence, IsPresence
  <2>2. crossed' <=> (crossed \/ CrossedBy(PutOut(service)))
    BY DEF Kick
  <2>3. crossed' \in BOOLEAN
    BY <1>1 DEF Kick, RoomTypes
  <2> QED BY <2>1, <2>2, <2>3, Zenon
<1>11. NoPresence' <=> NoPresence
  BY <1>2 DEF NoPresence
<1>12. \A k \in 1..Len(toRoom') : IsError(toRoom'[k]) \/ Telling(toRoom'[k]) \/ IsIq(toRoom'[k]) =>
                                      k \in 1..Len(toRoom) /\ toRoom'[k] = toRoom[k]
  BY <1>5, <1>6, <1>8
<1>13. RoomTypes'
  BY <1>1, <1>2, <1>4, <1>8, <1>10 DEF RoomTypes
<1>14. Served'
  BY <1>4 DEF Served
<1>15. SentInOrder'
  BY <1>1, <1>2, <1>11, <1>12 DEF SentInOrder
<1>16. InStep'
  BY <1>1, <1>2, <1>4, <1>11, <1>12 DEF InStep
<1>17. OneAtATime'
  BY <1>1, <1>2, <1>10, <1>12 DEF OneAtATime, NoPresence
<1>18. Opens'
  BY <1>4 DEF Opens
<1>19. Named'
  BY <1>2, <1>4, <1>10 DEF Named, NoPresence
<1>20. Wanted'
  BY <1>1, <1>2, <1>5, <1>8, <1>10, <1>12 DEF Wanted
<1>21. Awaited'
  BY <1>1, <1>2, <1>8 DEF Awaited
<1>22. Answered'
  <2>1. ASSUME NEW k \in 1..Len(toRoom'), IsIq(toRoom'[k])
        PROVE  /\ toRoom'[k].ok => toRoom'[k].id \in granted
               /\ toRoom'[k].id # 0 =>
                     /\ toRoom'[k].id <= asked
                     /\ toRoom'[k].id \in granted => toRoom'[k].ok
                     /\ \A l \in 1..Len(toRoom') : IsIq(toRoom'[l]) /\ toRoom'[l].id = toRoom'[k].id => l = k
                     /\ \A r \in reports : r.id # toRoom'[k].id
    BY <1>1, <1>12, <2>1 DEF Answered
  <2>2. ASSUME NEW i \in 1..Len(toService), IsIq(toService[i]), toService[i].id # 0,
               NEW k \in 1..Len(toRoom'), IsIq(toRoom'[k])
        PROVE  toRoom'[k].id # toService[i].id
    BY <1>1, <1>12, <2>2 DEF Answered
  <2> QED BY <1>1, <1>2, <2>1, <2>2 DEF Answered
<1>23. Reported'
  BY <1>1, <1>2 DEF Reported
<1> QED BY <1>13, <1>14, <1>15, <1>16, <1>17, <1>18, <1>19, <1>20, <1>21, <1>22, <1>23 DEF RoomInvariant

\* What the service may do of a presence, and answer.
PresenceAnswered(s, stanzas) ==
    LET p == Head(toService) IN
    /\ s.occupant = NoNick => ~s.locked
    /\ s.occupant # NoNick => ~s.putOut /\ s.occupant \notin s.taken
    /\ s.putOut => service.putOut
    /\ p.nick = NoNick => s.occupant = NoNick
    /\ p.nick # NoNick =>
          \/ s.occupant # NoNick \/ s.putOut
          \/ \E k \in 1..Len(stanzas) : IsError(stanzas[k]) /\ stanzas[k].entry
    /\ p.nick # NoNick => 1 \in 1..Len(stanzas)
    /\ \A k \in 1..Len(stanzas) :
          /\ IsPresence(stanzas[k]) \/ IsError(stanzas[k])
          /\ IsError(stanzas[k]) \/ Telling(stanzas[k]) => k = 1 /\ p.nick # NoNick
          /\ IsError(stanzas[k]) =>
                /\ p.nick \in service.taken /\ s = service /\ stanzas[k].id = p.id
                /\ stanzas[k].entry <=> service.occupant = NoNick
    /\ s.locked => service.locked \/ \E k \in 1..Len(stanzas) : IsPresence(stanzas[k]) /\ stanzas[k].newRoom
    /\ /\ s.occupant # NoNick
       /\ IF service.occupant = NoNick THEN p.nick = room.nick
          ELSE room.nick = service.occupant /\ p.nick \in {room.nick, room.newNick}
       => s.occupant = IF stanzas # <<>> /\ IsPresence(stanzas[1])
                       THEN NickAfter(room.nick, room.newNick, stanzas[1]) ELSE room.nick

\* A presence that is answered keeps the invariant, if the answer says what the
\* service has done.
LEMMA PresenceServed ==
    ASSUME RoomInvariant, NEW s \in Services, NEW stanzas \in Seq(In),
           toService # <<>>, IsPresence(Head(toService)), RoomServes(s, stanzas), UNCHANGED granted,
           PresenceAnswered(s, stanzas)
    PROVE  RoomInvariant'
<1> DEFINE h == Head(toService)
<1>1. RoomTypes /\ Served /\ SentInOrder /\ InStep /\ OneAtATime /\ Opens /\ Named /\ Wanted
      /\ Awaited /\ Answered /\ Reported
  BY DEF RoomInvariant
<1>2. toRoom \in Seq(In) /\ toService \in Seq(Out) /\ room \in Rooms /\ service \in Services /\ last \in Nat
  BY <1>1, GlooxRoomAssumption DEF RoomTypes
<1>3. /\ service' = s /\ toService' = Tail(toService) /\ toRoom' = toRoom \o stanzas
      /\ room' = room /\ requests' = requests /\ asked' = asked /\ last' = last /\ reports' = reports
      /\ renamed' = renamed /\ misread' = misread /\ granted' = granted
  BY DEF RoomServes
<1>4. crossed' \in BOOLEAN /\ (crossed' <=> crossed)
  <2>1. ~CrossedBy(s)
    BY DEF CrossedBy, PresenceAnswered
  <2>2. crossed' <=> (crossed \/ CrossedBy(s))
    BY DEF RoomServes
  <2>3. crossed' \in BOOLEAN
    BY <1>1 DEF RoomServes, RoomTypes
  <2> QED BY <2>1, <2>2, <2>3, Zenon
<1>5. /\ h \in Out /\ h = toService[1] /\ 1 \in 1..Len(toService)
      /\ toService' \in Seq(Out)
      /\ \A i \in 1..Len(toService') : i \in Nat /\ i + 1 \in 1..Len(toService) /\ i + 1 # 1 /\ toService'[i] = toService[i + 1]
      /\ \A i \in 1..Len(toService) : i # 1 => i - 1 \in 1..Len(toService') /\ toService'[i - 1] = toService[i]
  BY <1>2, <1>3, Taken
<1>6. h.nick \in Nicks \cup {NoNick} /\ h.id \in 1..MaxRequests /\ ~IsIq(h) /\ IsPresence(h)
  BY <1>5, OutFields
<1> HIDE DEF h, PresenceAnswered
<1>7. PICK n \in Nat, l \in Nat :
        /\ toRoom' \in Seq(In) /\ n = Len(toRoom) /\ l = Len(stanzas)
        /\ \A k \in 1..n : k \in 1..Len(toRoom') /\ toRoom'[k] = toRoom[k]
        /\ \A k \in 1..l : n + k \in 1..Len(toRoom') /\ toRoom'[n + k] = stanzas[k]
        /\ \A k \in 1..Len(toRoom') :
              \/ k \in 1..n /\ toRoom'[k] = toRoom[k]
              \/ \E j \in 1..l : k = n + j /\ toRoom'[k] = stanzas[j]
  <2>1. toRoom' = toRoom \o stanzas
    BY <1>3
  <2> QED BY <1>2, <2>1, ToRoomJoined, Zenon
<1>8. \A k \in 1..l : stanzas[k] \in In /\ ~IsIq(stanzas[k])
  <2>1. \A k \in 1..l : stanzas[k] \in In
    BY <1>7
  <2>2. \A k \in 1..l : IsPresence(stanzas[k]) \/ IsError(stanzas[k])
    BY <1>7 DEF PresenceAnswered
  <2> QED BY <2>1, <2>2, InFields
<1>9. ~NoPresence
  BY <1>5, <1>6 DEF NoPresence
<1>10. /\ \A k \in 1..n : IsError(toRoom[k]) => toRoom[k].id <= last /\ toRoom[k].id # last
       /\ h.id <= last
       /\ h.id = last => NoPresence'
       /\ NoPresence' => h.id = last
  <2>1. \A k \in 1..n : IsError(toRoom[k]) => toRoom[k].id <= last /\ toRoom[k].id # last
    BY <1>1, <1>7, <1>9 DEF SentInOrder
  <2>2. h.id <= last
    BY <1>1, <1>5, <1>6 DEF SentInOrder
  <2>3. ASSUME h.id = last, NEW i \in 1..Len(toService'), IsPresence(toService'[i])
        PROVE  FALSE
    <3>1. i \in Nat /\ i >= 1 /\ i + 1 \in 1..Len(toService) /\ IsPresence(toService[i + 1])
      BY <1>5, <2>3
    <3>2. i + 1 <= 1
      BY <1>1, <1>5, <1>6, <2>3, <3>1 DEF SentInOrder
    <3> QED BY <3>1, <3>2
  <2>4. ASSUME NoPresence'
        PROVE  h.id = last
    <3>1. PICK j \in 1..Len(toService) : IsPresence(toService[j]) /\ toService[j].id = last
      BY <1>1, <1>5, <1>6 DEF SentInOrder
    <3>2. j = 1
      BY <1>5, <2>4, <3>1 DEF NoPresence
    <3> QED BY <1>5, <3>1, <3>2
  <2> QED BY <2>1, <2>2, <2>3, <2>4 DEF NoPresence
<1>11. ~crossed => /\ toRoom = <<>> /\ n = 0 /\ NoPresence' /\ h.id = last
                   /\ h.nick # NoNick => room.joined
  <2> SUFFICES ASSUME ~crossed
               PROVE  toRoom = <<>> /\ n = 0 /\ NoPresence' /\ (h.nick # NoNick => room.joined)
    BY <1>10
  <2>1. toRoom = <<>> /\ (h.nick # NoNick => room.joined)
    BY <1>1, <1>5, <1>6 DEF OneAtATime
  <2>2. NoPresence'
    BY <1>1, <1>5 DEF OneAtATime, NoPresence
  <2> QED BY <1>7, <2>1, <2>2
<1>12. \A k \in 1..Len(toRoom') : IsError(toRoom'[k]) /\ toRoom'[k].id = last =>
          \E j \in 1..l : toRoom'[k] = stanzas[j]
  BY <1>7, <1>10
<1>13. RoomTypes'
  BY <1>1, <1>3, <1>4, <1>5, <1>7 DEF RoomTypes
<1>14. Served'
  BY <1>3 DEF Served, PresenceAnswered
<1>15. SentInOrder'
  <2>1. ASSUME NEW k \in 1..Len(toRoom'), IsError(toRoom'[k])
        PROVE  toRoom'[k].id <= last /\ (toRoom'[k].id = last => NoPresence')
    <3>1. CASE k \in 1..n /\ toRoom'[k] = toRoom[k]
      BY <1>10, <2>1, <3>1
    <3>2. CASE \E j \in 1..l : k = n + j /\ toRoom'[k] = stanzas[j]
      BY <1>7, <1>10, <2>1, <3>2 DEF h, PresenceAnswered
    <3> QED BY <1>7, <3>1, <3>2
  <2>2. ASSUME NEW i \in 1..Len(toService'), IsPresence(toService'[i])
        PROVE  /\ toService'[i].id <= last
               /\ toService'[i].id = last => \A j \in 1..Len(toService') : IsPresence(toService'[j]) => j <= i
               /\ \E j \in 1..Len(toService') : IsPresence(toService'[j]) /\ toService'[j].id = last
    <3>1. i \in Nat /\ i + 1 \in 1..Len(toService) /\ toService'[i] = toService[i + 1]
      BY <1>5
    <3>2. toService'[i].id <= last
      BY <1>1, <2>2, <3>1 DEF SentInOrder
    <3>3. ASSUME toService'[i].id = last, NEW j \in 1..Len(toService'), IsPresence(toService'[j])
          PROVE  j <= i
      <4>1. j \in Nat /\ j + 1 \in 1..Len(toService) /\ toService'[j] = toService[j + 1]
        BY <1>5
      <4>2. j + 1 <= i + 1
        BY <1>1, <2>2, <3>1, <3>3, <4>1 DEF SentInOrder
      <4> QED BY <3>1, <4>1, <4>2
    <3>4. PICK j \in 1..Len(toService) : IsPresence(toService[j]) /\ toService[j].id = last
      BY <1>1, <2>2, <3>1 DEF SentInOrder
    <3>5. j # 1
      BY <1>5, <1>10, <2>2, <3>4 DEF NoPresence
    <3> QED BY <1>5, <3>2, <3>3, <3>4, <3>5
  <2> QED BY <1>1, <1>3, <2>1, <2>2 DEF SentInOrder
<1>16. InStep'
  <2> SUFFICES ASSUME ~misread PROVE InStep'
    BY <1>3 DEF InStep
  <2>1. \A i \in 1..Len(toService') : IsPresence(toService'[i]) /\ toService'[i].id = last =>
              (room.joined <=> toService'[i].nick # NoNick)
    <3> SUFFICES ASSUME NEW i \in 1..Len(toService'), IsPresence(toService'[i]), toService'[i].id = last
                 PROVE  room.joined <=> toService'[i].nick # NoNick
      OBVIOUS
    <3>1. i + 1 \in 1..Len(toService) /\ toService'[i] = toService[i + 1]
      BY <1>5
    <3> QED BY <1>1, <3>1 DEF InStep
  <2>2. ASSUME NoPresence'
        PROVE  /\ room.joined => \/ s.occupant # NoNick \/ s.putOut
                                 \/ \E k \in 1..Len(toRoom') : IsError(toRoom'[k]) /\ toRoom'[k].id = last /\ toRoom'[k].entry
               /\ ~room.joined => s.occupant = NoNick
    <3>1. h.id = last
      BY <1>10, <2>2
    <3>2. room.joined <=> h.nick # NoNick
      BY <1>1, <1>5, <1>6, <3>1 DEF InStep
    <3>3. ASSUME NEW k \in 1..Len(stanzas), IsError(stanzas[k]), stanzas[k].entry
          PROVE  \E j \in 1..Len(toRoom') : IsError(toRoom'[j]) /\ toRoom'[j].id = last /\ toRoom'[j].entry
      <4>1. n + k \in 1..Len(toRoom') /\ toRoom'[n + k] = stanzas[k]
        BY <1>7
      <4>2. stanzas[k].id = last
        BY <3>1, <3>3 DEF h, PresenceAnswered
      <4> QED BY <3>3, <4>1, <4>2
    <3> QED BY <3>2, <3>3 DEF h, PresenceAnswered
  <2>3. ASSUME NEW k \in 1..Len(toRoom'), IsError(toRoom'[k]), toRoom'[k].id = last
        PROVE  /\ toRoom'[k].entry => s.occupant = NoNick
               /\ ~toRoom'[k].entry => s.occupant # NoNick \/ s.putOut
    <3>1. PICK j \in 1..l : toRoom'[k] = stanzas[j]
      BY <1>12, <2>3
    <3> QED BY <1>7, <2>3, <3>1 DEF PresenceAnswered
  <2> QED BY <1>3, <2>1, <2>2, <2>3 DEF InStep
<1>17. OneAtATime'
  <2> SUFFICES ASSUME ~crossed PROVE OneAtATime'
    BY <1>4 DEF OneAtATime
  <2>1. ASSUME NEW k \in 1..Len(toRoom'), IsError(toRoom'[k]) \/ Telling(toRoom'[k])
        PROVE  k = 1 /\ room.joined /\ (IsError(toRoom'[k]) => toRoom'[k].id = last)
    <3>1. PICK j \in 1..l : k = n + j /\ toRoom'[k] = stanzas[j]
      BY <1>7, <1>11
    <3>2. j = 1 /\ h.nick # NoNick
      BY <1>7, <2>1, <3>1 DEF h, PresenceAnswered
    <3>3. IsError(toRoom'[k]) => toRoom'[k].id = last
      BY <1>7, <1>11, <3>1 DEF h, PresenceAnswered
    <3> QED BY <1>11, <3>1, <3>2, <3>3
  <2> QED BY <1>3, <1>11, <2>1 DEF OneAtATime, NoPresence
<1>18. Opens'
  <2> SUFFICES ASSUME ~crossed, room.instant, s.locked PROVE Opens'
    BY <1>3, <1>4 DEF Opens
  <2>1. CASE service.locked
    <3>1. CASE \E k \in 1..Len(toRoom) : IsPresence(toRoom[k]) /\ toRoom[k].newRoom
      BY <1>7, <3>1 DEF Opens
    <3>2. CASE \E i \in 1..Len(toService) : IsIq(toService[i]) /\ toService[i].op = "CreateInstantRoom"
      <4>1. PICK i \in 1..Len(toService) : IsIq(toService[i]) /\ toService[i].op = "CreateInstantRoom"
        BY <3>2
      <4>2. i # 1
        BY <1>5, <1>6, <4>1
      <4> QED BY <1>5, <4>1, <4>2, SMTT(30) DEF Opens
    <3> QED BY <1>1, <2>1, <3>1, <3>2 DEF Opens
  <2>2. CASE \E k \in 1..Len(stanzas) : IsPresence(stanzas[k]) /\ stanzas[k].newRoom
    <3>1. PICK k \in 1..l : IsPresence(stanzas[k]) /\ stanzas[k].newRoom
      BY <1>7, <2>2
    <3>2. n + k \in 1..Len(toRoom') /\ toRoom'[n + k] = stanzas[k]
      BY <1>7
    <3> QED BY <3>1, <3>2 DEF Opens
  <2> QED BY <2>1, <2>2 DEF PresenceAnswered
<1>19. Named'
  <2> SUFFICES ASSUME ~crossed, ~misread, s.occupant # NoNick PROVE Named'
    BY <1>3, <1>4, <1>11 DEF Named, NoPresence
  <2>1. IF service.occupant = NoNick THEN h.nick = room.nick
        ELSE room.nick = service.occupant /\ h.nick \in {room.nick, room.newNick}
    <3>1. h.nick # NoNick
      BY DEF h, PresenceAnswered
    <3> QED BY <1>1, <1>5, <1>6, <3>1 DEF Named
  <2>2. s.occupant = IF stanzas # <<>> /\ IsPresence(stanzas[1])
                     THEN NickAfter(room.nick, room.newNick, stanzas[1]) ELSE room.nick
    BY <2>1 DEF h, PresenceAnswered
  <2>3. toRoom' = stanzas
    BY <1>3, <1>11
  <2> QED BY <1>3, <1>11, <2>2, <2>3 DEF Named, NoPresence
<1>20. Wanted'
  <2> SUFFICES ASSUME ~crossed, ~renamed PROVE Wanted'
    BY <1>3, <1>4 DEF Wanted
  <2>1. n = 0 /\ Len(toRoom) = 0 /\ ~misread /\ \A i \in 1..Len(toService) : IsPresence(toService[i]) => i = 1
    BY <1>1, <1>7, <1>11 DEF Wanted, OneAtATime
  <2>2. ASSUME room.newNick # NoNick
        PROVE  room.joined /\ h.nick = room.newNick /\ service.occupant # NoNick
    <3>1. \A k \in 1..Len(toRoom) : FALSE
      BY <2>1
    <3>2. /\ room.joined
          /\ \E i \in 1..Len(toService) :
                IsPresence(toService[i]) /\ toService[i].nick = room.newNick /\ service.occupant # NoNick
      BY <1>1, <2>2, <3>1 DEF Wanted
    <3> QED BY <1>5, <2>1, <3>2
  <2>3. ASSUME room.newNick # NoNick
        PROVE  \E k \in 1..Len(toRoom') : IsPresence(toRoom'[k]) \/ IsError(toRoom'[k])
    <3>1. 1 \in 1..Len(stanzas)
      BY <2>2, <2>3 DEF h, PresenceAnswered
    <3>2. 1 \in 1..l
      BY <1>7, <3>1
    <3>3. n + 1 \in 1..Len(toRoom') /\ toRoom'[n + 1] = stanzas[1]
      BY <1>7, <3>2
    <3>4. IsPresence(stanzas[1]) \/ IsError(stanzas[1])
      BY <3>1 DEF PresenceAnswered
    <3> QED BY <3>3, <3>4
  <2>4. ASSUME NEW k \in 1..Len(toRoom'), IsError(toRoom'[k])
        PROVE  toRoom'[k].entry <=> room.newNick = NoNick
    <3>1. PICK j \in 1..l : toRoom'[k] = stanzas[j]
      BY <1>7, <2>1
    <3>2. h.nick \in service.taken /\ (toRoom'[k].entry <=> service.occupant = NoNick)
      BY <1>7, <2>4, <3>1 DEF h, PresenceAnswered
    <3>3. CASE room.newNick # NoNick
      BY <2>2, <3>2, <3>3
    <3>4. CASE room.newNick = NoNick
      <4>1. service.taken \subseteq Nicks
        BY <1>2 DEF Services
      <4>2. h.nick # NoNick
        BY <3>2, <4>1, GlooxRoomAssumption
      <4>3. service.occupant # NoNick => h.nick = service.occupant
        BY <1>1, <1>5, <1>6, <2>1, <3>4, <4>2 DEF Named
      <4>4. service.occupant # NoNick => service.occupant \notin service.taken
        BY <1>1 DEF Served
      <4> QED BY <3>2, <3>4, <4>3, <4>4
    <3> QED BY <3>3, <3>4
  <2> QED BY <1>3, <2>1, <2>2, <2>3, <2>4 DEF Wanted
<1>21. Awaited'
  <2> SUFFICES ASSUME NEW r \in requests
               PROVE  \/ \E i \in 1..Len(toService') : IqOf(toService'[i], r)
                      \/ \E k \in 1..Len(toRoom') : IqOf(toRoom'[k], r)
    BY <1>3 DEF Awaited
  <2>1. CASE \E i \in 1..Len(toService) : IqOf(toService[i], r)
    <3>1. PICK i \in 1..Len(toService) : IqOf(toService[i], r)
      BY <2>1
    <3>2. i # 1
      BY <1>5, <1>6, <3>1 DEF IqOf
    <3> QED BY <1>5, <3>1, <3>2
  <2>2. CASE \E k \in 1..Len(toRoom) : IqOf(toRoom[k], r)
    BY <1>7, <2>2
  <2> QED BY <1>1, <2>1, <2>2 DEF Awaited
<1>22. Answered'
  <2>1. \A k \in 1..Len(toRoom') : IsIq(toRoom'[k]) => k \in 1..Len(toRoom) /\ toRoom'[k] = toRoom[k]
    BY <1>7, <1>8
  <2>2. ASSUME NEW k \in 1..Len(toRoom'), IsIq(toRoom'[k])
        PROVE  /\ toRoom'[k].ok => toRoom'[k].id \in granted
               /\ toRoom'[k].id # 0 =>
                     /\ toRoom'[k].id <= asked
                     /\ toRoom'[k].id \in granted => toRoom'[k].ok
                     /\ \A j \in 1..Len(toRoom') : IsIq(toRoom'[j]) /\ toRoom'[j].id = toRoom'[k].id => j = k
                     /\ \A r \in reports : r.id # toRoom'[k].id
    <3>1. k \in 1..Len(toRoom) /\ toRoom'[k] = toRoom[k]
      BY <2>1, <2>2
    <3>2. /\ toRoom[k].ok => toRoom[k].id \in granted
          /\ toRoom[k].id # 0 =>
                /\ toRoom[k].id <= asked
                /\ toRoom[k].id \in granted => toRoom[k].ok
                /\ \A j \in 1..Len(toRoom) : IsIq(toRoom[j]) /\ toRoom[j].id = toRoom[k].id => j = k
                /\ \A r \in reports : r.id # toRoom[k].id
      BY <1>1, <2>2, <3>1 DEF Answered
    <3> QED BY <2>1, <3>1, <3>2
  <2>3. ASSUME NEW i \in 1..Len(toService'), IsIq(toService'[i]), toService'[i].id # 0
        PROVE  /\ toService'[i].id <= asked
               /\ toService'[i].id \notin granted
               /\ \A j \in 1..Len(toService') : IsIq(toService'[j]) /\ toService'[j].id = toService'[i].id => j = i
               /\ \A k \in 1..Len(toRoom') : IsIq(toRoom'[k]) => toRoom'[k].id # toService'[i].id
               /\ \A r \in reports : r.id # toService'[i].id
    <3>1. i \in Nat /\ i + 1 \in 1..Len(toService) /\ toService'[i] = toService[i + 1]
      BY <1>5
    <3>2. ASSUME NEW j \in 1..Len(toService'), IsIq(toService'[j]), toService'[j].id = toService'[i].id
          PROVE  j = i
      <4>1. j \in Nat /\ j + 1 \in 1..Len(toService) /\ toService'[j] = toService[j + 1]
        BY <1>5
      <4>2. j + 1 = i + 1
        BY <1>1, <2>3, <3>1, <3>2, <4>1 DEF Answered
      <4> QED BY <3>1, <4>1, <4>2
    <3>3. \A k \in 1..Len(toRoom) : IsIq(toRoom[k]) => toRoom[k].id # toService'[i].id
      BY <1>1, <2>3, <3>1 DEF Answered
    <3>4. /\ toService'[i].id <= asked
          /\ toService'[i].id \notin granted
          /\ \A r \in reports : r.id # toService'[i].id
      BY <1>1, <2>3, <3>1 DEF Answered
    <3> QED BY <2>1, <3>2, <3>3, <3>4
  <2> QED BY <1>1, <1>3, <2>2, <2>3 DEF Answered
<1>23. Reported'
  BY <1>1, <1>3 DEF Reported
<1> QED BY <1>13, <1>14, <1>15, <1>16, <1>17, <1>18, <1>19, <1>20, <1>21, <1>22, <1>23 DEF RoomInvariant

\* An answer of one stanza.
LEMMA OneAnswer ==
    ASSUME NEW m \in In
    PROVE  /\ <<m>> \in Seq(In) /\ Len(<<m>>) = 1 /\ <<m>> # <<>> /\ <<m>>[1] = m
           /\ 1 \in 1..Len(<<m>>) /\ \A k \in 1..Len(<<m>>) : k = 1
OBVIOUS

\* Each of the service's answers to a presence says what it has done.
LEMMA ServePresenceKeeps ==
    ASSUME RoomInvariant, ServePresence
    PROVE  RoomInvariant'
<1> DEFINE p == Head(toService)
           nick == p.nick
           now == service.occupant
           free == service.taken = {} /\ ~service.locked
<1>1. RoomTypes /\ Served
  BY DEF RoomInvariant
<1>2. toService \in Seq(Out) /\ room \in Rooms /\ service \in Services
  BY <1>1 DEF RoomTypes
<1>3. toService # <<>> /\ IsPresence(p) /\ granted' = granted
  BY DEF ServePresence, IsPresence
<1>4. nick \in Nicks \cup {NoNick} /\ p.id \in 1..MaxRequests
  <2>1. p \in Out
    BY <1>2, <1>3, Taken
  <2> QED BY <1>3, <2>1, OutFields
<1>5. /\ now \in Nicks \cup {NoNick} /\ service.taken \subseteq Nicks /\ service.locked \in BOOLEAN
      /\ service.putOut \in BOOLEAN /\ free \in BOOLEAN
      /\ now = NoNick => ~service.locked
      /\ now # NoNick => ~service.putOut /\ now \notin service.taken
  BY <1>1, <1>2 DEF Services, Served
<1>6. \/ /\ nick # NoNick /\ now = NoNick /\ nick \notin service.taken
         /\ RoomServes([service EXCEPT !.occupant = nick, !.locked = free, !.putOut = FALSE],
                       <<Own(nick, NoNick, "participant", free, FALSE)>>)
      \/ \E other \in Nicks \ (service.taken \cup {nick}) :
            /\ nick # NoNick /\ now = NoNick /\ service.marks /\ ~free
            /\ RoomServes([service EXCEPT !.occupant = other, !.putOut = FALSE],
                          <<Own(other, NoNick, "participant", FALSE, TRUE)>>)
      \/ /\ nick \in service.taken
         /\ RoomServes(service, <<RoomRefusal(p)>>)
      \/ /\ nick # NoNick /\ now = nick
         /\ RoomServes(service, <<Own(nick, NoNick, "participant", FALSE, FALSE)>>)
      \/ /\ nick # NoNick /\ now \notin {NoNick, nick} /\ nick \notin service.taken
         /\ RoomServes([service EXCEPT !.occupant = nick],
                       <<Own(now, nick, "participant", FALSE, FALSE), Own(nick, NoNick, "participant", FALSE, FALSE)>>)
      \/ /\ nick = NoNick /\ now # NoNick
         /\ RoomServes([service EXCEPT !.occupant = NoNick, !.locked = FALSE],
                       <<Own(now, NoNick, "none", FALSE, FALSE)>>)
      \/ /\ nick = NoNick /\ now = NoNick
         /\ RoomServes(service, <<>>)
  BY DEF ServePresence
<1> HIDE DEF p, free
<1>7. ASSUME nick # NoNick, now = NoNick, nick \notin service.taken,
             RoomServes([service EXCEPT !.occupant = nick, !.locked = free, !.putOut = FALSE],
                        <<Own(nick, NoNick, "participant", free, FALSE)>>)
      PROVE  RoomInvariant'
  <2> DEFINE s == [service EXCEPT !.occupant = nick, !.locked = free, !.putOut = FALSE]
             m == Own(nick, NoNick, "participant", free, FALSE)
  <2>1. /\ s \in Services /\ s.occupant = nick /\ s.locked = free /\ s.putOut = FALSE /\ s.taken = service.taken
    BY <1>2, <1>4, <1>5 DEF Services
  <2>2. m \in In /\ IsPresence(m) /\ ~IsError(m) /\ m.newNick = NoNick /\ m.newRoom = free /\ m.assigned = FALSE
    BY <1>2, <1>4, <1>5, <1>7 DEF Own, Services, In, InPresences, IsPresence, IsError
  <2>3. RoomServes(s, <<m>>)
    BY <1>7
  <2> HIDE DEF s, m
  <2>4. NickAfter(room.nick, room.newNick, m) = room.nick
    BY <2>2 DEF NickAfter
  <2>5. PresenceAnswered(s, <<m>>)
    BY <1>5, <1>7, <2>1, <2>2, <2>4, OneAnswer DEF PresenceAnswered, p
  <2> QED BY <1>3, <2>1, <2>2, <2>3, <2>5, OneAnswer, PresenceServed DEF p
<1>8. ASSUME NEW other \in Nicks, other \notin service.taken, nick # NoNick, now = NoNick,
             RoomServes([service EXCEPT !.occupant = other, !.putOut = FALSE],
                        <<Own(other, NoNick, "participant", FALSE, TRUE)>>)
      PROVE  RoomInvariant'
  <2> DEFINE s == [service EXCEPT !.occupant = other, !.putOut = FALSE]
             m == Own(other, NoNick, "participant", FALSE, TRUE)
  <2>1. /\ s \in Services /\ s.occupant = other /\ s.locked = service.locked /\ s.putOut = FALSE
        /\ s.taken = service.taken
    BY <1>2, <1>5 DEF Services
  <2>2. /\ m \in In /\ IsPresence(m) /\ ~IsError(m) /\ m.nick = other /\ m.newNick = NoNick /\ m.newRoom = FALSE
        /\ m.assigned = TRUE
    BY <1>2 DEF Own, Services, In, InPresences, IsPresence, IsError
  <2>3. RoomServes(s, <<m>>)
    BY <1>8
  <2> HIDE DEF s, m
  <2>4. NickAfter(room.nick, room.newNick, m) = other
    BY <2>2 DEF NickAfter
  <2>5. PresenceAnswered(s, <<m>>)
    BY <1>5, <1>8, <2>1, <2>2, <2>4, OneAnswer, GlooxRoomAssumption DEF PresenceAnswered, p
  <2> QED BY <1>3, <2>1, <2>2, <2>3, <2>5, OneAnswer, PresenceServed DEF p
<1>9. ASSUME nick \in service.taken, RoomServes(service, <<RoomRefusal(p)>>)
      PROVE  RoomInvariant'
  <2> DEFINE m == RoomRefusal(p)
  <2>1. /\ m \in In /\ IsError(m) /\ ~IsPresence(m) /\ m.id = p.id /\ m.entry \in BOOLEAN
        /\ m.entry <=> service.occupant = NoNick
    BY <1>4 DEF RoomRefusal, In, InErrors, IsPresence, IsError
  <2>2. RoomServes(service, <<m>>)
    BY <1>9
  <2>3. nick # NoNick
    BY <1>5, <1>9, GlooxRoomAssumption
  <2> HIDE DEF m
  <2>4. ~Telling(m)
    BY <2>1 DEF Telling
  <2>5. PresenceAnswered(service, <<m>>)
    <3>1. now # NoNick /\ (IF now = NoNick THEN nick = room.nick
                           ELSE room.nick = now /\ nick \in {room.nick, room.newNick}) => now = room.nick
      OBVIOUS
    <3> QED BY <1>5, <1>9, <2>1, <2>3, <2>4, <3>1, OneAnswer DEF PresenceAnswered, p
  <2> QED BY <1>2, <1>3, <2>1, <2>2, <2>5, OneAnswer, PresenceServed DEF p
<1>10. ASSUME nick # NoNick, now = nick, RoomServes(service, <<Own(nick, NoNick, "participant", FALSE, FALSE)>>)
       PROVE  RoomInvariant'
  <2> DEFINE m == Own(nick, NoNick, "participant", FALSE, FALSE)
  <2>1. m \in In /\ IsPresence(m) /\ ~IsError(m) /\ m.newNick = NoNick /\ m.newRoom = FALSE /\ m.assigned = FALSE
    BY <1>2, <1>4, <1>10 DEF Own, Services, In, InPresences, IsPresence, IsError
  <2>2. RoomServes(service, <<m>>)
    BY <1>10
  <2> HIDE DEF m
  <2>3. NickAfter(room.nick, room.newNick, m) = room.nick /\ ~Telling(m)
    BY <2>1 DEF NickAfter, Telling
  <2>4. PresenceAnswered(service, <<m>>)
    BY <1>5, <1>10, <2>1, <2>3, OneAnswer DEF PresenceAnswered, p
  <2> QED BY <1>2, <1>3, <2>1, <2>2, <2>4, OneAnswer, PresenceServed DEF p
<1>11. ASSUME nick # NoNick, now \notin {NoNick, nick}, nick \notin service.taken,
              RoomServes([service EXCEPT !.occupant = nick],
                         <<Own(now, nick, "participant", FALSE, FALSE), Own(nick, NoNick, "participant", FALSE, FALSE)>>)
       PROVE  RoomInvariant'
  <2> DEFINE s == [service EXCEPT !.occupant = nick]
             m == Own(now, nick, "participant", FALSE, FALSE)
             o == Own(nick, NoNick, "participant", FALSE, FALSE)
  <2>1. /\ s \in Services /\ s.occupant = nick /\ s.locked = service.locked /\ s.putOut = service.putOut
        /\ s.taken = service.taken
    BY <1>2, <1>4 DEF Services
  <2>2. /\ m \in In /\ IsPresence(m) /\ ~IsError(m) /\ m.nick = now /\ m.newNick = nick /\ m.newRoom = FALSE
        /\ m.assigned = FALSE
    BY <1>2, <1>4, <1>5, <1>11 DEF Own, Services, In, InPresences, IsPresence, IsError
  <2>3. o \in In /\ IsPresence(o) /\ ~IsError(o) /\ o.newNick = NoNick /\ o.newRoom = FALSE /\ o.assigned = FALSE
    BY <1>2, <1>4, <1>11 DEF Own, Services, In, InPresences, IsPresence, IsError
  <2>4. RoomServes(s, <<m, o>>)
    BY <1>11
  <2> HIDE DEF s, m, o
  <2>5. ~Telling(o)
    BY <2>3 DEF Telling
  <2>6. room.nick = now /\ nick \in {room.nick, room.newNick} => NickAfter(room.nick, room.newNick, m) = nick
    BY <1>11, <2>2 DEF NickAfter
  <2>7. /\ <<m, o>> \in Seq(In) /\ Len(<<m, o>>) = 2 /\ <<m, o>> # <<>> /\ <<m, o>>[1] = m /\ <<m, o>>[2] = o
        /\ 1 \in 1..Len(<<m, o>>) /\ \A k \in 1..Len(<<m, o>>) : k = 1 \/ k = 2
    BY <2>2, <2>3
  <2>8. PresenceAnswered(s, <<m, o>>)
    BY <1>5, <1>11, <2>1, <2>2, <2>3, <2>5, <2>6, <2>7 DEF PresenceAnswered, p
  <2> QED BY <1>3, <2>1, <2>4, <2>7, <2>8, PresenceServed DEF p
<1>12. ASSUME nick = NoNick, now # NoNick,
              RoomServes([service EXCEPT !.occupant = NoNick, !.locked = FALSE], <<Own(now, NoNick, "none", FALSE, FALSE)>>)
       PROVE  RoomInvariant'
  <2> DEFINE s == [service EXCEPT !.occupant = NoNick, !.locked = FALSE]
             m == Own(now, NoNick, "none", FALSE, FALSE)
  <2>1. s \in Services /\ s.occupant = NoNick /\ s.locked = FALSE /\ s.putOut = service.putOut
    BY <1>2 DEF Services
  <2>2. m \in In /\ IsPresence(m) /\ ~IsError(m) /\ m.newNick = NoNick /\ m.newRoom = FALSE /\ m.assigned = FALSE
    BY <1>2, <1>5, <1>12 DEF Own, Services, In, InPresences, IsPresence, IsError
  <2>3. RoomServes(s, <<m>>)
    BY <1>12
  <2> HIDE DEF s, m
  <2>4. ~Telling(m)
    BY <2>2 DEF Telling
  <2>5. PresenceAnswered(s, <<m>>)
    BY <1>5, <1>12, <2>1, <2>2, <2>4, OneAnswer DEF PresenceAnswered, p
  <2> QED BY <1>3, <2>1, <2>2, <2>3, <2>5, OneAnswer, PresenceServed DEF p
<1>13. ASSUME nick = NoNick, now = NoNick, RoomServes(service, <<>>)
       PROVE  RoomInvariant'
  <2>1. <<>> \in Seq(In) /\ Len(<<>>) = 0
    BY EmptySeq
  <2>2. \A k \in 1..Len(<<>>) : FALSE
    BY <2>1
  <2>3. PresenceAnswered(service, <<>>)
    BY <1>5, <1>13, <2>2 DEF PresenceAnswered, p
  <2> QED BY <1>2, <1>3, <1>13, <2>1, <2>3, PresenceServed DEF p
<1> QED BY <1>6, <1>7, <1>8, <1>9, <1>10, <1>11, <1>12, <1>13

\* What the service may do of an operation, and answer.
IqAnswered(s, stanzas, ok) ==
    LET p == Head(toService) IN
    /\ s.occupant = NoNick => ~s.locked
    /\ s.occupant # NoNick => ~s.putOut /\ s.occupant \notin s.taken
    /\ \/ s.occupant = service.occupant /\ (s.putOut <=> service.putOut)
       \/ s.occupant = NoNick /\ s.putOut /\ ~service.putOut
    /\ s.locked => service.locked /\ p.op # "CreateInstantRoom"
    /\ Len(stanzas) \in 1..Len(stanzas)
    /\ \A k \in 1..Len(stanzas) :
          /\ ~IsError(stanzas[k]) /\ ~Telling(stanzas[k])
          /\ IsIq(stanzas[k]) <=> k = Len(stanzas)
          /\ IsIq(stanzas[k]) => stanzas[k].id = p.id /\ stanzas[k].op = p.op /\ stanzas[k].ok = ok
    /\ granted' = IF ok THEN granted \cup {p.id} ELSE granted

\* An operation that is answered keeps the invariant, if the answer says whether
\* it was carried out.
LEMMA IqServed ==
    ASSUME RoomInvariant, NEW s \in Services, NEW stanzas \in Seq(In), NEW ok \in BOOLEAN,
           toService # <<>>, IsIq(Head(toService)), RoomServes(s, stanzas),
           IqAnswered(s, stanzas, ok)
    PROVE  RoomInvariant'
<1> DEFINE h == Head(toService)
<1>1. RoomTypes /\ Served /\ SentInOrder /\ InStep /\ OneAtATime /\ Opens /\ Named /\ Wanted
      /\ Awaited /\ Answered /\ Reported
  BY DEF RoomInvariant
<1>2. /\ toRoom \in Seq(In) /\ toService \in Seq(Out) /\ room \in Rooms /\ service \in Services /\ last \in Nat
      /\ crossed \in BOOLEAN /\ granted \subseteq 0..MaxRequests
  BY <1>1, GlooxRoomAssumption DEF RoomTypes
<1>3. /\ service' = s /\ toService' = Tail(toService) /\ toRoom' = toRoom \o stanzas
      /\ room' = room /\ requests' = requests /\ asked' = asked /\ last' = last /\ reports' = reports
      /\ renamed' = renamed /\ misread' = misread
  BY DEF RoomServes
<1>4. /\ h \in Out /\ h = toService[1] /\ 1 \in 1..Len(toService)
      /\ toService' \in Seq(Out)
      /\ \A i \in 1..Len(toService') : i \in Nat /\ i + 1 \in 1..Len(toService) /\ i + 1 # 1 /\ toService'[i] = toService[i + 1]
      /\ \A i \in 1..Len(toService) : i # 1 => i - 1 \in 1..Len(toService') /\ toService'[i - 1] = toService[i]
  BY <1>2, <1>3, Taken
<1>5. h.op \in Operations /\ h.id \in 0..MaxRequests /\ ~IsPresence(h) /\ IsIq(h)
  BY <1>4, OutFields
<1>6. granted' = (IF ok THEN granted \cup {h.id} ELSE granted)
  BY DEF IqAnswered
<1> HIDE DEF h
<1>7. PICK n \in Nat, l \in Nat :
        /\ toRoom' \in Seq(In) /\ n = Len(toRoom) /\ l = Len(stanzas)
        /\ \A k \in 1..n : k \in 1..Len(toRoom') /\ toRoom'[k] = toRoom[k]
        /\ \A k \in 1..l : n + k \in 1..Len(toRoom') /\ toRoom'[n + k] = stanzas[k]
        /\ \A k \in 1..Len(toRoom') :
              \/ k \in 1..n /\ toRoom'[k] = toRoom[k]
              \/ \E j \in 1..l : k = n + j /\ toRoom'[k] = stanzas[j]
  <2>1. toRoom' = toRoom \o stanzas
    BY <1>3
  <2> QED BY <1>2, <2>1, ToRoomJoined, Zenon
<1>8. /\ l \in 1..l
      /\ \A k \in 1..l :
            /\ ~IsError(stanzas[k]) /\ ~Telling(stanzas[k]) /\ (IsIq(stanzas[k]) <=> k = l)
            /\ IsIq(stanzas[k]) => stanzas[k].id = h.id /\ stanzas[k].op = h.op /\ stanzas[k].ok = ok
  BY <1>7 DEF IqAnswered, h
<1>9. /\ \A k \in 1..Len(toRoom') : IsError(toRoom'[k]) \/ Telling(toRoom'[k]) => k \in 1..n /\ toRoom'[k] = toRoom[k]
      /\ \A k \in 1..Len(toRoom') : IsIq(toRoom'[k]) =>
            \/ k \in 1..n /\ toRoom'[k] = toRoom[k]
            \/ k = n + l /\ toRoom'[k] = stanzas[l] /\ toRoom'[k].id = h.id /\ toRoom'[k].ok = ok
  <2>1. ASSUME NEW k \in 1..Len(toRoom'), IsError(toRoom'[k]) \/ Telling(toRoom'[k])
        PROVE  k \in 1..n /\ toRoom'[k] = toRoom[k]
    BY <1>7, <1>8, <2>1
  <2>2. ASSUME NEW k \in 1..Len(toRoom'), IsIq(toRoom'[k])
        PROVE  \/ k \in 1..n /\ toRoom'[k] = toRoom[k]
               \/ k = n + l /\ toRoom'[k] = stanzas[l] /\ toRoom'[k].id = h.id /\ toRoom'[k].ok = ok
    <3>1. CASE k \in 1..n /\ toRoom'[k] = toRoom[k]
      BY <3>1
    <3>2. CASE \E j \in 1..l : k = n + j /\ toRoom'[k] = stanzas[j]
      <4>1. PICK j \in 1..l : k = n + j /\ toRoom'[k] = stanzas[j]
        BY <3>2
      <4>2. j = l /\ stanzas[j].id = h.id /\ stanzas[j].ok = ok
        BY <1>8, <2>2, <4>1
      <4> QED BY <4>1, <4>2
    <3> QED BY <1>7, <3>1, <3>2
  <2> QED BY <2>1, <2>2
<1>10. \A i \in 1..Len(toService) : IsPresence(toService[i]) => i # 1
  BY <1>4, <1>5
<1>11. NoPresence' <=> NoPresence
  BY <1>4, <1>10 DEF NoPresence
<1>12. /\ s.occupant = NoNick => ~s.locked
       /\ s.occupant # NoNick => ~s.putOut /\ s.occupant \notin s.taken
       /\ \/ s.occupant = service.occupant /\ (s.putOut <=> service.putOut)
          \/ s.occupant = NoNick /\ s.putOut /\ ~service.putOut
       /\ s.locked => service.locked /\ h.op # "CreateInstantRoom"
  BY DEF IqAnswered, h
<1>13. crossed' \in BOOLEAN /\ (crossed => crossed')
  <2>1. crossed' <=> (crossed \/ CrossedBy(s))
    BY DEF RoomServes
  <2>2. crossed' \in BOOLEAN
    BY <1>1 DEF RoomServes, RoomTypes
  <2> QED BY <2>1, <2>2, Zenon
<1>14. ~crossed => NoPresence
  BY <1>1, <1>10 DEF OneAtATime, NoPresence
<1>15. RoomTypes'
  <2>1. granted' \subseteq 0..MaxRequests
    BY <1>2, <1>5, <1>6
  <2> QED BY <1>1, <1>3, <1>4, <1>7, <1>13, <2>1 DEF RoomTypes
<1>16. Served'
  BY <1>3, <1>12 DEF Served
<1>17. SentInOrder'
  <2>1. ASSUME NEW k \in 1..Len(toRoom'), IsError(toRoom'[k])
        PROVE  toRoom'[k].id <= last /\ (toRoom'[k].id = last => NoPresence')
    BY <1>1, <1>7, <1>9, <1>11, <2>1 DEF SentInOrder
  <2>2. ASSUME NEW i \in 1..Len(toService'), IsPresence(toService'[i])
        PROVE  /\ toService'[i].id <= last
               /\ toService'[i].id = last => \A j \in 1..Len(toService') : IsPresence(toService'[j]) => j <= i
               /\ \E j \in 1..Len(toService') : IsPresence(toService'[j]) /\ toService'[j].id = last
    <3>1. i \in Nat /\ i + 1 \in 1..Len(toService) /\ toService'[i] = toService[i + 1]
      BY <1>4
    <3>2. toService'[i].id <= last
      BY <1>1, <2>2, <3>1 DEF SentInOrder
    <3>3. ASSUME toService'[i].id = last, NEW j \in 1..Len(toService'), IsPresence(toService'[j])
          PROVE  j <= i
      <4>1. j \in Nat /\ j + 1 \in 1..Len(toService) /\ toService'[j] = toService[j + 1]
        BY <1>4
      <4>2. j + 1 <= i + 1
        BY <1>1, <2>2, <3>1, <3>3, <4>1 DEF SentInOrder
      <4> QED BY <3>1, <4>1, <4>2
    <3>4. PICK j \in 1..Len(toService) : IsPresence(toService[j]) /\ toService[j].id = last
      BY <1>1, <2>2, <3>1 DEF SentInOrder
    <3> QED BY <1>4, <1>10, <3>2, <3>3, <3>4
  <2> QED BY <1>1, <1>3, <2>1, <2>2 DEF SentInOrder
<1>18. InStep'
  <2> SUFFICES ASSUME ~misread PROVE InStep'
    BY <1>3 DEF InStep
  <2>1. ASSUME NEW i \in 1..Len(toService'), IsPresence(toService'[i]), toService'[i].id = last
        PROVE  room.joined <=> toService'[i].nick # NoNick
    <3>1. i + 1 \in 1..Len(toService) /\ toService'[i] = toService[i + 1]
      BY <1>4
    <3> QED BY <1>1, <2>1, <3>1 DEF InStep
  <2>2. ASSUME NoPresence, room.joined
        PROVE  \/ s.occupant # NoNick \/ s.putOut
               \/ \E k \in 1..Len(toRoom') : IsError(toRoom'[k]) /\ toRoom'[k].id = last /\ toRoom'[k].entry
    <3>1. CASE s.occupant = service.occupant /\ (s.putOut <=> service.putOut)
      BY <1>1, <1>7, <2>2, <3>1 DEF InStep
    <3>2. CASE s.putOut
      BY <3>2
    <3> QED BY <1>12, <3>1, <3>2
  <2>3. NoPresence /\ ~room.joined => s.occupant = NoNick
    BY <1>1, <1>12 DEF InStep
  <2>4. ASSUME NEW k \in 1..Len(toRoom'), IsError(toRoom'[k]), toRoom'[k].id = last
        PROVE  /\ toRoom'[k].entry => s.occupant = NoNick
               /\ ~toRoom'[k].entry => s.occupant # NoNick \/ s.putOut
    <3>1. k \in 1..Len(toRoom) /\ toRoom'[k] = toRoom[k]
      BY <1>7, <1>9, <2>4
    <3> QED BY <1>1, <1>12, <2>4, <3>1 DEF InStep
  <2> QED BY <1>3, <1>11, <2>1, <2>2, <2>3, <2>4 DEF InStep
<1>19. OneAtATime'
  <2> SUFFICES ASSUME ~crossed PROVE OneAtATime'
    BY <1>13 DEF OneAtATime
  <2>1. NoPresence'
    BY <1>11, <1>14
  <2>2. ASSUME NEW k \in 1..Len(toRoom'), IsError(toRoom'[k]) \/ Telling(toRoom'[k])
        PROVE  k = 1 /\ room.joined /\ (IsError(toRoom'[k]) => toRoom'[k].id = last)
    <3>1. k \in 1..Len(toRoom) /\ toRoom'[k] = toRoom[k]
      BY <1>7, <1>9, <2>2
    <3> QED BY <1>1, <2>2, <3>1 DEF OneAtATime
  <2> QED BY <1>3, <2>1, <2>2 DEF OneAtATime, NoPresence
<1>20. Opens'
  <2> SUFFICES ASSUME ~crossed, room.instant, s.locked PROVE Opens'
    BY <1>3, <1>13 DEF Opens
  <2>1. service.locked /\ h.op # "CreateInstantRoom"
    BY <1>12
  <2>2. CASE \E k \in 1..Len(toRoom) : IsPresence(toRoom[k]) /\ toRoom[k].newRoom
    BY <1>7, <2>2 DEF Opens
  <2>3. CASE \E i \in 1..Len(toService) : IsIq(toService[i]) /\ toService[i].op = "CreateInstantRoom"
    <3>1. PICK i \in 1..Len(toService) : IsIq(toService[i]) /\ toService[i].op = "CreateInstantRoom"
      BY <2>3
    <3>2. i # 1
      BY <1>4, <2>1, <3>1
    <3> QED BY <1>4, <3>1, <3>2 DEF Opens
  <2> QED BY <1>1, <2>1, <2>2, <2>3 DEF Opens
<1>21. Named'
  <2> SUFFICES ASSUME ~crossed, ~misread, s.occupant # NoNick PROVE Named'
    BY <1>3, <1>11, <1>13, <1>14 DEF Named, NoPresence
  <2>1. s.occupant = service.occupant
    BY <1>12
  <2>2. service.occupant = IF toRoom # <<>> /\ IsPresence(toRoom[1])
                           THEN NickAfter(room.nick, room.newNick, toRoom[1]) ELSE room.nick
    BY <1>1, <1>14, <2>1 DEF Named
  <2>3. s.occupant = IF toRoom' # <<>> /\ IsPresence(toRoom'[1])
                     THEN NickAfter(room.nick, room.newNick, toRoom'[1]) ELSE room.nick
    <3>1. CASE toRoom # <<>>
      <4>1. 1 \in 1..n
        BY <1>2, <1>7, <3>1
      <4>2. 1 \in 1..Len(toRoom') /\ toRoom'[1] = toRoom[1] /\ toRoom' # <<>>
        BY <1>7, <4>1
      <4> QED BY <2>1, <2>2, <3>1, <4>2
    <3>2. CASE toRoom = <<>>
      <4>1. service.occupant = room.nick /\ n = 0
        BY <1>7, <2>2, <3>2
      <4>2. ASSUME toRoom' # <<>>, IsPresence(toRoom'[1])
            PROVE  NickAfter(room.nick, room.newNick, toRoom'[1]) = room.nick
        <5>1. 1 \in 1..Len(toRoom') /\ toRoom'[1] \in In
          BY <1>7, <4>2
        <5>2. ~Telling(toRoom'[1]) /\ toRoom'[1].assigned \in BOOLEAN
          BY <1>9, <4>1, <4>2, <5>1, InFields
        <5> QED BY <4>2, <5>2, Untold
      <4> QED BY <2>1, <4>1, <4>2
    <3> QED BY <3>1, <3>2
  <2> QED BY <1>3, <1>11, <1>14, <2>3 DEF Named, NoPresence
<1>22. Wanted'
  <2> SUFFICES ASSUME ~crossed, ~renamed PROVE Wanted'
    BY <1>3, <1>13 DEF Wanted
  <2>1. /\ ~misread
        /\ room.newNick # NoNick => room.joined /\ \E k \in 1..Len(toRoom) : IsPresence(toRoom[k]) \/ IsError(toRoom[k])
    BY <1>1, <1>14 DEF Wanted, NoPresence
  <2>2. \A k \in 1..Len(toRoom') : IsError(toRoom'[k]) => (toRoom'[k].entry <=> room.newNick = NoNick)
    BY <1>1, <1>7, <1>9 DEF Wanted
  <2> QED BY <1>3, <1>7, <2>1, <2>2 DEF Wanted
<1>23. Awaited'
  <2> SUFFICES ASSUME NEW r \in requests
               PROVE  \/ \E i \in 1..Len(toService') : IqOf(toService'[i], r)
                      \/ \E k \in 1..Len(toRoom') : IqOf(toRoom'[k], r)
    BY <1>3 DEF Awaited
  <2>1. CASE \E i \in 1..Len(toService) : IqOf(toService[i], r)
    <3>1. PICK i \in 1..Len(toService) : IqOf(toService[i], r)
      BY <2>1
    <3>2. CASE i = 1
      <4>1. h.id = r.id /\ h.op = r.op
        BY <1>4, <3>1, <3>2 DEF IqOf
      <4>2. IqOf(stanzas[l], r)
        BY <1>8, <4>1 DEF IqOf
      <4> QED BY <1>7, <1>8, <4>2
    <3> QED BY <1>4, <3>1, <3>2
  <2>2. CASE \E k \in 1..Len(toRoom) : IqOf(toRoom[k], r)
    BY <1>7, <2>2
  <2> QED BY <1>1, <2>1, <2>2 DEF Awaited
<1>24. /\ h.id # 0 => h.id <= asked /\ h.id \notin granted /\ \A r \in reports : r.id # h.id
       /\ h.id # 0 => \A k \in 1..n : IsIq(toRoom[k]) => toRoom[k].id # h.id
       /\ h.id # 0 => \A i \in 1..Len(toService') : IsIq(toService'[i]) => toService'[i].id # h.id
  <2>1. /\ h.id # 0 => h.id <= asked /\ h.id \notin granted /\ \A r \in reports : r.id # h.id
        /\ h.id # 0 => \A k \in 1..n : IsIq(toRoom[k]) => toRoom[k].id # h.id
    BY <1>1, <1>4, <1>5, <1>7 DEF Answered
  <2>2. ASSUME h.id # 0, NEW i \in 1..Len(toService'), IsIq(toService'[i]), toService'[i].id = h.id
        PROVE  FALSE
    <3>1. i + 1 \in 1..Len(toService) /\ i + 1 # 1 /\ toService'[i] = toService[i + 1]
      BY <1>4
    <3> QED BY <1>1, <1>4, <1>5, <2>2, <3>1 DEF Answered
  <2> QED BY <2>1, <2>2
<1>25. /\ granted \subseteq granted' /\ (ok => h.id \in granted') /\ (~ok => granted' = granted)
       /\ \A a \in granted' : a \in granted \/ a = h.id
  BY <1>6
<1>26. 0 <= asked
  BY <1>1, GlooxRoomAssumption DEF RoomTypes
<1>27. Answered'
  <2>1. ASSUME NEW i \in 1..Len(toService'), IsIq(toService'[i]), toService'[i].id # 0
        PROVE  /\ toService'[i].id <= asked
               /\ toService'[i].id \notin granted'
               /\ \A j \in 1..Len(toService') : IsIq(toService'[j]) /\ toService'[j].id = toService'[i].id => j = i
               /\ \A k \in 1..Len(toRoom') : IsIq(toRoom'[k]) => toRoom'[k].id # toService'[i].id
               /\ \A r \in reports : r.id # toService'[i].id
    <3>1. i \in Nat /\ i + 1 \in 1..Len(toService) /\ toService'[i] = toService[i + 1]
      BY <1>4
    <3>2. ASSUME NEW j \in 1..Len(toService'), IsIq(toService'[j]), toService'[j].id = toService'[i].id
          PROVE  j = i
      <4>1. j \in Nat /\ j + 1 \in 1..Len(toService) /\ toService'[j] = toService[j + 1]
        BY <1>4
      <4>2. j + 1 = i + 1
        BY <1>1, <2>1, <3>1, <3>2, <4>1 DEF Answered
      <4> QED BY <3>1, <4>1, <4>2
    <3>3. toService'[i].id # h.id
      BY <1>24, <2>1
    <3>4. /\ toService'[i].id <= asked
          /\ toService'[i].id \notin granted
          /\ \A r \in reports : r.id # toService'[i].id
      BY <1>1, <2>1, <3>1 DEF Answered
    <3>5. \A k \in 1..Len(toRoom) : IsIq(toRoom[k]) => toRoom[k].id # toService'[i].id
      BY <1>1, <2>1, <3>1 DEF Answered
    <3>6. \A k \in 1..Len(toRoom') : IsIq(toRoom'[k]) => toRoom'[k].id # toService'[i].id
      BY <1>7, <1>9, <3>3, <3>5
    <3> QED BY <1>25, <3>2, <3>3, <3>4, <3>6
  <2>2. ASSUME NEW k \in 1..Len(toRoom'), IsIq(toRoom'[k])
        PROVE  /\ toRoom'[k].ok => toRoom'[k].id \in granted'
               /\ toRoom'[k].id # 0 =>
                     /\ toRoom'[k].id <= asked
                     /\ toRoom'[k].id \in granted' => toRoom'[k].ok
                     /\ \A j \in 1..Len(toRoom') : IsIq(toRoom'[j]) /\ toRoom'[j].id = toRoom'[k].id => j = k
                     /\ \A r \in reports : r.id # toRoom'[k].id
    <3>1. CASE k \in 1..n /\ toRoom'[k] = toRoom[k]
      <4>1. /\ toRoom[k].ok => toRoom[k].id \in granted
            /\ toRoom[k].id # 0 =>
                  /\ toRoom[k].id <= asked
                  /\ toRoom[k].id \in granted => toRoom[k].ok
                  /\ \A j \in 1..Len(toRoom) : IsIq(toRoom[j]) /\ toRoom[j].id = toRoom[k].id => j = k
                  /\ \A r \in reports : r.id # toRoom[k].id
        BY <1>1, <1>7, <2>2, <3>1 DEF Answered
      <4>2. toRoom[k].id # 0 => toRoom[k].id # h.id
        BY <1>24, <2>2, <3>1
      <4>3. ASSUME toRoom'[k].id # 0, NEW j \in 1..Len(toRoom'), IsIq(toRoom'[j]), toRoom'[j].id = toRoom'[k].id
            PROVE  j = k
        <5>1. j \in 1..n /\ toRoom'[j] = toRoom[j]
          BY <1>9, <3>1, <4>2, <4>3
        <5> QED BY <1>7, <3>1, <4>1, <4>3, <5>1
      <4> QED BY <1>25, <3>1, <4>1, <4>2, <4>3
    <3>2. CASE k = n + l /\ toRoom'[k].id = h.id /\ toRoom'[k].ok = ok
      <4>1. ASSUME h.id # 0, NEW j \in 1..Len(toRoom'), IsIq(toRoom'[j]), toRoom'[j].id = h.id
            PROVE  j = k
        BY <1>9, <1>24, <3>2, <4>1
      <4>2. h.id # 0 => (h.id \in granted' => ok)
        BY <1>24, <1>25
      <4> QED BY <1>24, <1>25, <3>2, <4>1, <4>2
    <3> QED BY <1>9, <2>2, <3>1, <3>2
  <2>3. \A a \in granted' : a <= asked
    <3>1. h.id <= asked
      BY <1>24, <1>26
    <3>2. \A a \in granted : a <= asked
      BY <1>1 DEF Answered
    <3> QED BY <1>25, <3>1, <3>2
  <2>4. \A r \in reports : r.id <= asked
    BY <1>1 DEF Answered
  <2> QED BY <1>3, <2>1, <2>2, <2>3, <2>4 DEF Answered
<1>28. Reported'
  <2>1. ASSUME NEW r \in reports
        PROVE  /\ r.as = "nothing" => r.op = "SendRoomConfig" \/ (r.op = "StoreOwnerList" /\ r.id \in granted')
               /\ r.as \in {"success", "form", "list"} => r.id \in granted'
               /\ r.as = "failure" /\ r.id # 0 => r.id \notin granted'
               /\ \A q \in reports : q.id = r.id /\ r.id # 0 => q = r
    <3>1. /\ r.as = "nothing" => r.op = "SendRoomConfig" \/ (r.op = "StoreOwnerList" /\ r.id \in granted)
          /\ r.as \in {"success", "form", "list"} => r.id \in granted
          /\ r.as = "failure" /\ r.id # 0 => r.id \notin granted
          /\ \A q \in reports : q.id = r.id /\ r.id # 0 => q = r
      BY <1>1 DEF Reported
    <3>2. r.id # 0 => r.id # h.id
      BY <1>24
    <3> QED BY <1>25, <3>1, <3>2
  <2> QED BY <1>3, <2>1 DEF Reported
<1> QED BY <1>15, <1>16, <1>17, <1>18, <1>19, <1>20, <1>21, <1>22, <1>23, <1>27, <1>28 DEF RoomInvariant

\* Each of the service's answers to an operation says whether it was.
LEMMA ServeIqKeeps ==
    ASSUME RoomInvariant, ServeIq
    PROVE  RoomInvariant'
<1> DEFINE p == Head(toService)
           a(ok) == [type |-> "iq", id |-> p.id, op |-> p.op, ok |-> ok]
<1>1. RoomTypes /\ Served
  BY DEF RoomInvariant
<1>2. toService \in Seq(Out) /\ room \in Rooms /\ service \in Services
  BY <1>1 DEF RoomTypes
<1>3. toService # <<>> /\ IsIq(p)
  BY DEF ServeIq, IsIq
<1>4. p.op \in Operations /\ p.id \in 0..MaxRequests
  <2>1. p \in Out
    BY <1>2, <1>3, Taken
  <2> QED BY <1>3, <2>1, OutFields
<1>5. /\ service.occupant \in Nicks \cup {NoNick} /\ service.locked \in BOOLEAN /\ service.putOut \in BOOLEAN
      /\ service.occupant = NoNick => ~service.locked
      /\ service.occupant # NoNick => ~service.putOut /\ service.occupant \notin service.taken
  BY <1>1, <1>2 DEF Services, Served
<1>6. \A ok \in BOOLEAN :
         /\ a(ok) \in In /\ IsIq(a(ok)) /\ ~IsPresence(a(ok)) /\ ~IsError(a(ok)) /\ ~Telling(a(ok))
         /\ a(ok).id = p.id /\ a(ok).op = p.op /\ a(ok).ok = ok
  BY <1>4, IqIn DEF Telling
<1>7. \/ /\ service.occupant # NoNick /\ p.op \notin {"DestroyRoom", "CancelRoomCreation"}
         /\ granted' = granted \cup {p.id}
         /\ RoomServes([service EXCEPT !.locked = @ /\ p.op \notin {"CreateInstantRoom", "SendRoomConfig"}], <<a(TRUE)>>)
      \/ /\ service.occupant # NoNick
         /\ granted' = granted \cup {p.id}
         /\ RoomServes(PutOut(service), <<Own(service.occupant, NoNick, "none", FALSE, FALSE)>> \o <<a(TRUE)>>)
      \/ /\ p.op # "CreateInstantRoom" \/ service.occupant = NoNick
         /\ granted' = granted
         /\ RoomServes(service, <<a(FALSE)>>)
  BY DEF ServeIq
<1> HIDE DEF p, a
<1>8. ASSUME service.occupant # NoNick, granted' = granted \cup {p.id},
             RoomServes([service EXCEPT !.locked = @ /\ p.op \notin {"CreateInstantRoom", "SendRoomConfig"}], <<a(TRUE)>>)
      PROVE  RoomInvariant'
  <2> DEFINE s == [service EXCEPT !.locked = @ /\ p.op \notin {"CreateInstantRoom", "SendRoomConfig"}]
             b == a(TRUE)
  <2>1. /\ s \in Services /\ s.occupant = service.occupant /\ s.putOut = service.putOut /\ s.taken = service.taken
        /\ s.locked => service.locked /\ p.op # "CreateInstantRoom"
    BY <1>2, <1>5 DEF Services
  <2>2. b \in In /\ IsIq(b) /\ ~IsError(b) /\ ~Telling(b) /\ b.id = p.id /\ b.op = p.op /\ b.ok = TRUE
    BY <1>6
  <2>3. RoomServes(s, <<b>>)
    BY <1>8
  <2> HIDE DEF s, b
  <2>4. IqAnswered(s, <<b>>, TRUE)
    BY <1>5, <1>8, <2>1, <2>2, OneAnswer DEF IqAnswered, p
  <2> QED BY <1>3, <2>1, <2>2, <2>3, <2>4, OneAnswer, IqServed DEF p
<1>9. ASSUME service.occupant # NoNick, granted' = granted \cup {p.id},
             RoomServes(PutOut(service), <<Own(service.occupant, NoNick, "none", FALSE, FALSE)>> \o <<a(TRUE)>>)
      PROVE  RoomInvariant'
  <2> DEFINE s == PutOut(service)
             m == Own(service.occupant, NoNick, "none", FALSE, FALSE)
             b == a(TRUE)
  <2>1. s \in Services /\ s.occupant = NoNick /\ s.putOut = TRUE /\ s.locked = FALSE /\ s.taken = service.taken
    BY <1>2 DEF Services, PutOut
  <2>2. m \in In /\ IsPresence(m) /\ ~IsError(m) /\ ~IsIq(m) /\ m.newNick = NoNick /\ m.newRoom = FALSE /\ m.assigned = FALSE
    BY <1>2, <1>5, <1>9 DEF Own, Services, In, InPresences, IsPresence, IsError, IsIq
  <2>3. b \in In /\ IsIq(b) /\ ~IsError(b) /\ ~Telling(b) /\ b.id = p.id /\ b.op = p.op /\ b.ok = TRUE
    BY <1>6
  <2>4. RoomServes(s, <<m>> \o <<b>>)
    BY <1>9
  <2> HIDE DEF s, m, b
  <2>6. ~Telling(m)
    BY <2>2 DEF Telling
  <2>7. PICK u \in Seq(In) :
           /\ u = <<m>> \o <<b>> /\ Len(u) = 2 /\ u[1] = m /\ u[2] = b
           /\ 2 \in 1..Len(u) /\ \A k \in 1..Len(u) : (k = 1 /\ u[k] = m) \/ (k = 2 /\ u[k] = b)
    <3>1. PICK n \in Nat, l \in Nat :
             /\ <<m>> \o <<b>> \in Seq(In) /\ n = 1 /\ l = 1 /\ Len(<<m>> \o <<b>>) = n + l
             /\ \A k \in 1..n : (<<m>> \o <<b>>)[k] = <<m>>[k]
             /\ \A k \in 1..l : (<<m>> \o <<b>>)[n + k] = <<b>>[k]
      BY <2>2, <2>3, OneAnswer, Answering
    <3>2. /\ Len(<<m>> \o <<b>>) = 2 /\ (<<m>> \o <<b>>)[1] = m /\ (<<m>> \o <<b>>)[2] = b
      BY <3>1
    <3> DEFINE v == <<m>> \o <<b>>
    <3>3. v \in Seq(In) /\ Len(v) = 2 /\ v[1] = m /\ v[2] = b
      BY <3>1, <3>2
    <3> HIDE DEF v
    <3>4. 2 \in 1..Len(v) /\ \A k \in 1..Len(v) : (k = 1 /\ v[k] = m) \/ (k = 2 /\ v[k] = b)
      BY <3>3
    <3>5. v = <<m>> \o <<b>>
      BY DEF v
    <3> QED BY <3>3, <3>4, <3>5
  <2>8. IqAnswered(s, u, TRUE)
    <3>1. \A k \in 1..Len(u) :
            /\ ~IsError(u[k]) /\ ~Telling(u[k])
            /\ IsIq(u[k]) <=> k = Len(u)
            /\ IsIq(u[k]) => u[k].id = p.id /\ u[k].op = p.op /\ u[k].ok = TRUE
      BY <2>2, <2>3, <2>6, <2>7
    <3>2. /\ s.occupant = NoNick => ~s.locked
          /\ s.occupant # NoNick => ~s.putOut /\ s.occupant \notin s.taken
          /\ s.occupant = NoNick /\ s.putOut /\ ~service.putOut
          /\ s.locked => service.locked /\ p.op # "CreateInstantRoom"
      BY <1>5, <1>9, <2>1
    <3>3. granted' = IF TRUE THEN granted \cup {p.id} ELSE granted
      BY <1>9
    <3>4. Len(u) \in 1..Len(u)
      BY <2>7
    <3> QED BY <3>1, <3>2, <3>3, <3>4 DEF IqAnswered, p
  <2> QED BY <1>3, <2>1, <2>4, <2>7, <2>8, IqServed DEF p
<1>10. ASSUME p.op # "CreateInstantRoom" \/ service.occupant = NoNick, granted' = granted,
              RoomServes(service, <<a(FALSE)>>)
       PROVE  RoomInvariant'
  <2> DEFINE b == a(FALSE)
  <2>1. b \in In /\ IsIq(b) /\ ~IsError(b) /\ ~Telling(b) /\ b.id = p.id /\ b.op = p.op /\ b.ok = FALSE
    BY <1>6
  <2>2. RoomServes(service, <<b>>)
    BY <1>10
  <2> HIDE DEF b
  <2>3. IqAnswered(service, <<b>>, FALSE)
    BY <1>5, <1>10, <2>1, OneAnswer DEF IqAnswered, p
  <2> QED BY <1>2, <1>3, <2>1, <2>2, <2>3, OneAnswer, IqServed DEF p
<1> QED BY <1>7, <1>8, <1>9, <1>10

-----------------------------------------------------------------------------
(* Theorems.                                                               *)

\* Every step of the room keeps the invariant.
LEMMA RoomSteps == RoomInvariant /\ [RoomNext]_roomVars => RoomInvariant'
<1> SUFFICES ASSUME RoomInvariant, [RoomNext]_roomVars PROVE RoomInvariant'
  OBVIOUS
<1>1. CASE Join
  BY <1>1, JoinKeeps
<1>2. CASE Leave
  BY <1>2, LeaveKeeps
<1>3. CASE Replace
  BY <1>3, ReplaceKeeps
<1>4. CASE SetPresence
  BY <1>4, SetPresenceKeeps
<1>5. ASSUME NEW nick \in Nicks, SetNick(nick) PROVE RoomInvariant'
  BY <1>5, SetNickKeeps
<1>6. ASSUME NEW op \in Operations, Operate(op) PROVE RoomInvariant'
  BY <1>6, OperateKeeps
<1>7. CASE HandlePresenceError
  BY <1>7, PresenceErrorKeeps
<1>8. CASE HandleIqID
  BY <1>8, IqAnswerKeeps
<1>9. ASSUME NEW accepts \in BOOLEAN, HandlePresence(accepts) PROVE RoomInvariant'
  BY <1>9, PresenceKeeps
<1>10. CASE ServePresence
  BY <1>10, ServePresenceKeeps
<1>11. CASE ServeIq
  BY <1>11, ServeIqKeeps
<1>12. CASE Kick
  BY <1>12, KickKeeps
<1>13. CASE OthersMove
  BY <1>13, OthersKeep
<1>14. CASE UNCHANGED roomVars
  <2>1. /\ room' = room /\ requests' = requests /\ toService' = toService /\ toRoom' = toRoom /\ service' = service
        /\ asked' = asked /\ last' = last /\ reports' = reports /\ granted' = granted /\ crossed' = crossed
        /\ renamed' = renamed /\ misread' = misread
    BY <1>14 DEF roomVars
  <2>2. RoomTypes' /\ Served'
    BY <2>1 DEF RoomInvariant, RoomTypes, Served
  <2>3. SentInOrder' /\ OneAtATime' /\ Opens'
    BY <2>1 DEF RoomInvariant, SentInOrder, OneAtATime, Opens, NoPresence
  <2>4. InStep' /\ Named' /\ Wanted'
    BY <2>1 DEF RoomInvariant, InStep, Named, Wanted, NoPresence
  <2>5. Awaited' /\ Answered' /\ Reported'
    BY <2>1 DEF RoomInvariant, Awaited, Answered, Reported
  <2> QED BY <2>2, <2>3, <2>4, <2>5 DEF RoomInvariant
<1> QED BY <1>1, <1>2, <1>3, <1>4, <1>5, <1>6, <1>7, <1>8, <1>9, <1>10, <1>11, <1>12, <1>13, <1>14 DEF RoomNext

\* Throughout a room's life, whatever is in flight between the object and the
\* room keeps the order in which it was sent, and what the object has not yet
\* got right is in it.
THEOREM RoomKept == RoomSpec => []RoomInvariant
BY RoomStarts, RoomSteps, PTL DEF RoomSpec

\* Every variable of the room keeps its type, for any nicks and any number of
\* requests.
THEOREM RoomTypeCorrect == RoomSpec => []RoomTypeOK
<1>1. RoomInvariant => RoomTypeOK
  BY DEF RoomInvariant, RoomTypes, RoomTypeOK, Rooms, Services
<1> QED BY <1>1, RoomKept, PTL

\* The object and the room come to agree: no presence error is misread unless
\* presences cross or a nick was wanted before, with nothing in flight the
\* object is right about the room, and an instant room is left open.
THEOREM RoomUnderstoodHolds == RoomSpec => []RoomUnderstood
<1>1. RoomInvariant => RoomUnderstood
  <2> SUFFICES ASSUME RoomInvariant PROVE RoomUnderstood
    OBVIOUS
  <2>1. ErrorsUnderstood
    BY DEF RoomInvariant, Wanted, ErrorsUnderstood
  <2>2. ObjectIsRight
    BY QuietAgrees DEF ObjectIsRight
  <2>3. InstantRoomOpens
    BY QuietAgrees DEF InstantRoomOpens
  <2> QED BY <2>1, <2>2, <2>3 DEF RoomUnderstood
<1> QED BY <1>1, RoomKept, PTL

\* Every operation is answered once and reported as it went, and with nothing in
\* flight none is waited for.
THEOREM OperationsEndHolds == RoomSpec => []OperationsEnd
<1>1. RoomInvariant => OperationsEnd
  <2> SUFFICES ASSUME RoomInvariant PROVE OperationsEnd
    OBVIOUS
  <2>1. Reported
    BY DEF RoomInvariant
  <2>2. Quiet => requests = {}
    BY QuietAgrees
  <2> QED BY <2>1, <2>2 DEF OperationsEnd, Reported
<1> QED BY <1>1, RoomKept, PTL

-----------------------------------------------------------------------------
(* GlooxDispatch.                                                          *)

Told == {called[i] : i \in DOMAIN called}

\* A node that is in the list, or has yet to be made, has been erased by nobody.
Listed ==
    \A n \in 1..MaxNodes : n \in list \/ n > Len(handler) => erased[n] = "nobody"

\* Who cannot have erased the node that the iterator stands on: a room that
\* removes itself, since the iterator has stepped; any handler but the one
\* called, since it stands on that one.
Standing ==
    walk.it # End =>
        /\ kind = "jid" => erased[walk.it] # "itself"
        /\ kind \in {"live", "iq"} => erased[walk.it] # "another"

Calling ==
    walk.phase = "call" =>
        /\ walk.in # End
        /\ kind \in {"live", "iq"} => walk.it = walk.in
        /\ kind = "jid" => walk.it = End \/ walk.in < walk.it

\* Those told are behind the iterator, or behind the rest of the copy, in the
\* order in which they were made.
Ahead ==
    kind # "iq" =>
        /\ \A i, j \in DOMAIN called : i < j => called[i] < called[j]
        /\ walk.phase # "idle" => \A t \in Told :
              IF kind = "copied" THEN \A n \in walk.copy : t < n
              ELSE \/ walk.it = End \/ t < walk.it
                   \/ kind = "live" /\ walk.phase = "call" /\ t <= walk.it
        /\ walk.phase = "call" => walk.in \in Told

\* Those that were there from the beginning and have not been told are ahead.
Covered ==
    kind # "iq" => \A n \in (began \cap list) \ Told :
        /\ walk.phase # "idle"
        /\ IF kind = "copied" THEN n \in walk.copy ELSE walk.it # End /\ walk.it <= n

Requests ==
    kind = "iq" =>
        /\ walk.phase = "loop" => called = <<>>
        /\ walk.phase = "call" => Told \subseteq {walk.it}
        /\ walk.phase = "idle" => Told \cap list = {}

DispatchInvariant ==
    DispatchTypeOK /\ Listed /\ Standing /\ Calling /\ UndefinedBy /\ Ahead /\ Covered /\ Requests

-----------------------------------------------------------------------------
(* The first of some nodes.                                                *)

\* Finitely many numbers, if any, have a least one: of the sets of those below
\* each, one is least.
LEMMA LeastExists ==
    ASSUME NEW ns \in SUBSET Nat, IsFiniteSet(ns), ns # {}
    PROVE  Foremost(ns) # {}
<1> DEFINE Below(n) == {k \in ns : k <= n}
           Belows == {Below(n) : n \in ns}
<1>1. Belows \subseteq FiniteSubsetsOf(ns) /\ Belows # {}
  <2>1. FiniteSubsetsOf(ns) = SUBSET ns
    BY FS_FiniteSubsetsOfFinite
  <2>2. \A n \in ns : Below(n) \in SUBSET ns
    OBVIOUS
  <2>3. Belows \subseteq SUBSET ns /\ Belows # {}
    <3> HIDE DEF Below
    <3> QED BY <2>2
  <2> QED BY <2>1, <2>3
<1>2. IsWellFoundedOn(StrictSubsetOrdering(ns), FiniteSubsetsOf(ns))
  BY FS_StrictSubsetOrderingWellFounded
<1> HIDE DEF Belows
<1>3. PICK b \in Belows : \A c \in Belows : ~(<<c, b>> \in StrictSubsetOrdering(ns))
  BY <1>1, <1>2, WFMin
<1>4. PICK n \in ns : b = Below(n)
  BY DEF Belows
<1>5. ASSUME NEW k \in ns, k < n PROVE FALSE
  <2>1. Below(k) \in Belows
    BY DEF Belows
  <2>2. Below(k) \subseteq Below(n) /\ n \in Below(n) /\ n \notin Below(k)
    <3>1. k \in Nat /\ n \in Nat /\ \A j \in ns : j \in Nat
      OBVIOUS
    <3>2. n \in Below(n) /\ n \notin Below(k)
      BY <1>5, <3>1
    <3>3. ASSUME NEW j \in Below(k) PROVE j \in Below(n)
      BY <1>5, <3>1, <3>3
    <3> QED BY <3>2, <3>3
  <2>3. <<Below(k), b>> \in StrictSubsetOrdering(ns)
    BY <1>4, <2>2 DEF StrictSubsetOrdering
  <2> QED BY <1>3, <2>1, <2>3
<1>6. n \in Foremost(ns)
  BY <1>5 DEF Foremost
<1> QED BY <1>6

LEMMA FirstOfNodes ==
    ASSUME NEW ns \in SUBSET Nat, IsFiniteSet(ns)
    PROVE  /\ ns = {} => FirstOf(ns) = End
           /\ ns # {} => FirstOf(ns) \in ns /\ \A k \in ns : FirstOf(ns) <= k
<1>1. CASE ns = {}
  BY <1>1 DEF FirstOf, Foremost
<1>2. CASE ns # {}
  <2>1. Foremost(ns) # {}
    BY <1>2, LeastExists
  <2>2. FirstOf(ns) \in Foremost(ns)
    BY <2>1 DEF FirstOf
  <2> QED BY <1>2, <2>2 DEF Foremost
<1> QED BY <1>1, <1>2

\* Where a walk of the list goes from n, and where it begins.
LEMMA NodeAfterIs ==
    ASSUME DispatchTypeOK, NEW n \in Nat
    PROVE  /\ NodeAfter(n) \in list \cup {End}
           /\ NodeAfter(n) # End => NodeAfter(n) > n
           /\ \A k \in list : k > n => NodeAfter(n) # End /\ NodeAfter(n) <= k
<1> DEFINE later == {k \in list : k > n}
<1>1. list \in SUBSET Nat /\ \A k \in list : k # End /\ k <= Len(handler)
  BY DEF DispatchTypeOK, Nodes, End
<1>2. later \in SUBSET Nat /\ \A k \in later : k <= Len(handler)
  BY <1>1
<1>3. IsFiniteSet(later)
  <2>1. Len(handler) \in Nat
    BY DEF DispatchTypeOK
  <2> HIDE DEF later
  <2> QED BY <1>2, <2>1, FS_BoundedSetOfNaturals
<1>4. /\ later = {} => FirstOf(later) = End
      /\ later # {} => FirstOf(later) \in later /\ \A k \in later : FirstOf(later) <= k
  <2> HIDE DEF later
  <2> QED BY <1>2, <1>3, FirstOfNodes
<1>5. NodeAfter(n) = FirstOf(later)
  BY DEF NodeAfter
<1> QED BY <1>1, <1>4, <1>5

LEMMA FirstIs ==
    ASSUME DispatchTypeOK
    PROVE  /\ FirstOf(list) \in list \cup {End}
           /\ \A k \in list : FirstOf(list) # End /\ FirstOf(list) <= k
<1>1. list \in SUBSET Nat /\ \A k \in list : k # End /\ k <= Len(handler)
  BY DEF DispatchTypeOK, Nodes, End
<1>2. IsFiniteSet(list)
  <2>1. Len(handler) \in Nat
    BY DEF DispatchTypeOK
  <2> QED BY <1>1, <2>1, FS_BoundedSetOfNaturals
<1>3. /\ list = {} => FirstOf(list) = End
      /\ list # {} => FirstOf(list) \in list /\ \A k \in list : FirstOf(list) <= k
  BY <1>1, <1>2, FirstOfNodes
<1> QED BY <1>1, <1>3

-----------------------------------------------------------------------------
(* The invariant.                                                          *)

LEMMA DispatchInitOK == DispatchInit => DispatchInvariant
<1> SUFFICES ASSUME DispatchInit PROVE DispatchInvariant
  OBVIOUS
<1> USE DispatchAssumption DEF DispatchInit, Idle, End, Nodes
<1>1. DispatchTypeOK
  <2>1. erased \in [1..MaxNodes -> Causes] /\ undefined \in Causes
    BY DEF Causes
  <2>2. list \subseteq Nodes /\ called \in Seq(Nodes) /\ handler \in Seq(Handlers)
    OBVIOUS
  <2> QED BY <2>1, <2>2 DEF DispatchTypeOK, Kinds
<1>2. Listed /\ Standing /\ Calling /\ UndefinedBy
  BY DEF Listed, Standing, Calling, UndefinedBy, Defined
<1>3. Told = {}
  BY DEF Told
<1>4. Ahead /\ Covered /\ Requests
  BY <1>3 DEF Ahead, Covered, Requests
<1> QED BY <1>1, <1>2, <1>4 DEF DispatchInvariant

LEMMA DispatchTypeNext == DispatchTypeOK /\ Calling /\ [DispatchNext]_dispatchVars => DispatchTypeOK'
<1> SUFFICES ASSUME DispatchTypeOK, Calling, [DispatchNext]_dispatchVars PROVE DispatchTypeOK'
  OBVIOUS
<1> USE DispatchAssumption
<1>1. ASSUME NEW h \in Handlers, Register(h) PROVE DispatchTypeOK'
  <2>1. /\ handler' \in Seq(Handlers) /\ Len(handler') = Len(handler) + 1
        /\ Nodes \subseteq Nodes' /\ Len(handler') \in Nodes' /\ Len(handler') <= MaxNodes
    BY <1>1 DEF Register, DispatchTypeOK, Nodes
  <2>2. called \in Seq(Nodes')
    BY <2>1, SeqMonotonic DEF DispatchTypeOK
  <2> QED BY <1>1, <2>1, <2>2 DEF Register, DispatchTypeOK
<1>2. ASSUME NEW h \in Handlers, RemoveInCall(h) \/ RemoveByThread(h) PROVE DispatchTypeOK'
  <2>1. erased' \in [1..MaxNodes -> Causes]
    BY <1>2 DEF RemoveInCall, RemoveByThread, Removes, DispatchTypeOK, Causes
  <2> QED BY <1>2, <2>1 DEF RemoveInCall, RemoveByThread, Removes, DispatchTypeOK, Nodes
<1>3. CASE BeginWalk
  <2>1. walk' \in [phase : {"idle", "loop", "call"}, it : Nodes \cup {End},
                   copy : SUBSET Nodes, in : Nodes \cup {End}]
    <3>1. FirstOf(list) \in Nodes \cup {End} /\ list \subseteq Nodes
      BY FirstIs DEF DispatchTypeOK
    <3>2. PICK n \in (IF kind = "iq" THEN list ELSE {FirstOf(list)}) :
             walk' = [phase |-> "loop", it |-> n, copy |-> IF kind = "copied" THEN list ELSE {}, in |-> End]
      BY <1>3 DEF BeginWalk
    <3> QED BY <3>1, <3>2
  <2>2. walks' \in 0..MaxWalks
    BY <1>3 DEF BeginWalk, Idle, DispatchTypeOK
  <2>3. called' \in Seq(Nodes)
    BY <1>3 DEF BeginWalk, Idle
  <2> QED BY <1>3, <2>1, <2>2, <2>3 DEF BeginWalk, DispatchTypeOK, Nodes
<1>4. CASE EndWalk
  BY <1>4 DEF EndWalk, Walked, DispatchTypeOK, Nodes, Idle
<1>5. CASE CallCopied
  <2>1. PICK n \in Foremost(walk.copy) : Calls(n, [walk EXCEPT !.copy = @ \ {n}])
    BY <1>5 DEF CallCopied
  <2>2. n \in Nodes
    BY DEF Foremost, DispatchTypeOK
  <2>3. called' \in Seq(Nodes)
    BY <2>1, <2>2, AppendProperties DEF Calls, DispatchTypeOK
  <2> QED BY <2>1, <2>2, <2>3 DEF Calls, Walked, DispatchTypeOK, Nodes
<1>6. CASE CallNode
  <2>1. CASE walk.it \notin list
    BY <1>6, <2>1 DEF CallNode, Undefined, DispatchTypeOK, Nodes, End
  <2>2. CASE walk.it \in list
    <3>1. walk.it \in Nodes /\ walk.it \in Nat
      BY <2>2 DEF DispatchTypeOK, Nodes
    <3>2. NodeAfter(walk.it) \in Nodes \cup {End}
      BY <3>1, NodeAfterIs DEF DispatchTypeOK
    <3>3. called' \in Seq(Nodes)
      <4>1. called' = Append(called, walk.it)
        BY <1>6, <2>2 DEF CallNode, Calls
      <4>2. called \in Seq(Nodes)
        BY DEF DispatchTypeOK
      <4> QED BY <3>1, <4>1, <4>2, AppendProperties
    <3> QED BY <1>6, <2>2, <3>1, <3>2, <3>3 DEF CallNode, Calls, Walked, DispatchTypeOK, Nodes
  <2> QED BY <2>1, <2>2
<1>7. CASE ReturnStepped
  BY <1>7 DEF ReturnStepped, Returns, Walked, DispatchTypeOK, Nodes
<1>8. CASE ReturnLive
  <2>1. CASE walk.it \notin list
    <3>1. walk.it \in Nodes
      BY <1>8 DEF ReturnLive, StepsFirst, Calling, DispatchTypeOK
    <3>2. erased[walk.it] \in Causes
      BY <3>1 DEF DispatchTypeOK, Nodes
    <3> QED BY <1>8, <2>1, <3>2 DEF ReturnLive, Undefined, DispatchTypeOK, Nodes
  <2>2. CASE walk.it \in list
    <3>1. NodeAfter(walk.it) \in Nodes \cup {End}
      BY <2>2, NodeAfterIs DEF DispatchTypeOK, Nodes
    <3> QED BY <1>8, <2>2, <3>1 DEF ReturnLive, Returns, Walked, DispatchTypeOK, Nodes
  <2> QED BY <2>1, <2>2
<1>9. CASE ReturnIq
  <2>1. CASE walk.it \notin list
    <3>1. walk.it \in Nodes
      BY <1>9 DEF ReturnIq, StepsFirst, Calling, DispatchTypeOK
    <3>2. erased[walk.it] \in Causes
      BY <3>1 DEF DispatchTypeOK, Nodes
    <3> QED BY <1>9, <2>1, <3>2 DEF ReturnIq, Undefined, DispatchTypeOK, Nodes
  <2>2. CASE walk.it \in list
    BY <1>9, <2>2 DEF ReturnIq, Returns, Walked, DispatchTypeOK, Nodes, Idle
  <2> QED BY <2>1, <2>2
<1>10. CASE UNCHANGED dispatchVars
  BY <1>10 DEF dispatchVars, DispatchTypeOK, Nodes
<1> QED BY <1>1, <1>2, <1>3, <1>4, <1>5, <1>6, <1>7, <1>8, <1>9, <1>10 DEF DispatchNext

LEMMA MarksNext ==
    DispatchInvariant /\ [DispatchNext]_dispatchVars
        => Listed' /\ Standing' /\ Calling' /\ UndefinedBy'
<1> SUFFICES ASSUME DispatchInvariant, [DispatchNext]_dispatchVars
             PROVE  Listed' /\ Standing' /\ Calling' /\ UndefinedBy'
  OBVIOUS
<1>0. DispatchTypeOK /\ Listed /\ Standing /\ Calling /\ UndefinedBy
  BY DEF DispatchInvariant
<1>1. ASSUME NEW h \in Handlers, Register(h) PROVE Listed' /\ Standing' /\ Calling' /\ UndefinedBy'
  <2>1. Len(handler') = Len(handler) + 1 /\ Len(handler) \in Nat
    BY <1>0, <1>1 DEF Register, DispatchTypeOK
  <2>2. Listed'
    BY <1>0, <1>1, <2>1 DEF Register, Listed
  <2> QED BY <1>0, <1>1, <2>2 DEF Register, Standing, Calling, UndefinedBy, Defined
<1>2. ASSUME NEW h \in Handlers, RemoveInCall(h) PROVE Listed' /\ Standing' /\ Calling' /\ UndefinedBy'
  <2>1. \A n \in 1..MaxNodes : erased'[n] = IF n \in Mine(h) THEN IF n = walk.in THEN "itself" ELSE "another"
                                            ELSE erased[n]
    BY <1>2 DEF RemoveInCall, Removes
  <2>2. Listed'
    <3>1. Mine(h) \subseteq list /\ \A n \in list : n <= Len(handler)
      BY <1>0 DEF Mine, DispatchTypeOK, Nodes
    <3>2. \A n \in Mine(h) : ~(n > Len(handler))
      <4>1. Len(handler) \in Nat /\ \A n \in list : n \in Nat
        BY <1>0 DEF DispatchTypeOK, Nodes
      <4> QED BY <3>1, <4>1
    <3> QED BY <1>0, <1>2, <2>1, <3>2 DEF RemoveInCall, Removes, Listed
  <2>3. Standing'
    <3>1. walk.it # End => walk.it \in 1..MaxNodes
      BY <1>0, DispatchAssumption DEF DispatchTypeOK, Nodes
    <3>2. kind \in Kinds /\ walk.it \in Nat /\ walk.in \in Nat
      BY <1>0 DEF DispatchTypeOK, Nodes, End
    <3>3. CASE kind = "jid"
      <4>1. walk.it # End => walk.it # walk.in
        BY <1>0, <1>2, <3>2, <3>3 DEF RemoveInCall, Calling
      <4>2. walk.it # End => erased'[walk.it] # "itself"
        BY <1>0, <2>1, <3>1, <3>3, <4>1 DEF Standing
      <4> QED BY <1>2, <3>3, <4>2 DEF RemoveInCall, Removes, Standing
    <3>4. CASE kind \in {"live", "iq"}
      <4>1. walk.it = walk.in
        BY <1>0, <1>2, <3>4 DEF RemoveInCall, Calling
      <4> QED BY <1>0, <1>2, <2>1, <3>1, <3>4, <4>1 DEF RemoveInCall, Removes, Standing
    <3>5. CASE kind = "copied"
      BY <1>0, <1>2, <3>5 DEF RemoveInCall, Removes, Standing
    <3> QED BY <3>2, <3>3, <3>4, <3>5 DEF Kinds
  <2> QED BY <1>0, <1>2, <2>2, <2>3 DEF RemoveInCall, Removes, Calling, UndefinedBy, Defined
<1>3. ASSUME NEW h \in Handlers, RemoveByThread(h) PROVE Listed' /\ Standing' /\ Calling' /\ UndefinedBy'
  <2>1. \A n \in 1..MaxNodes : erased'[n] = IF n \in Mine(h) THEN "thread" ELSE erased[n]
    BY <1>3 DEF RemoveByThread, Removes
  <2>2. Listed'
    <3>1. Mine(h) \subseteq list /\ \A n \in list : n <= Len(handler)
      BY <1>0 DEF Mine, DispatchTypeOK, Nodes
    <3>2. \A n \in Mine(h) : ~(n > Len(handler))
      <4>1. Len(handler) \in Nat /\ \A n \in list : n \in Nat
        BY <1>0 DEF DispatchTypeOK, Nodes
      <4> QED BY <3>1, <4>1
    <3> QED BY <1>0, <1>3, <2>1, <3>2 DEF RemoveByThread, Removes, Listed
  <2>3. Standing'
    <3>1. walk.it # End => walk.it \in 1..MaxNodes
      BY <1>0, DispatchAssumption DEF DispatchTypeOK, Nodes
    <3> QED BY <1>0, <1>3, <2>1, <3>1 DEF RemoveByThread, Removes, Standing
  <2> QED BY <1>0, <1>3, <2>2, <2>3 DEF RemoveByThread, Removes, Calling, UndefinedBy, Defined
<1>4. CASE BeginWalk
  <2>1. PICK n \in (IF kind = "iq" THEN list ELSE {FirstOf(list)}) :
           walk' = [phase |-> "loop", it |-> n, copy |-> IF kind = "copied" THEN list ELSE {}, in |-> End]
    BY <1>4 DEF BeginWalk
  <2>2. n \in list \cup {End}
    BY <1>0, <2>1, FirstIs
  <2>3. n # End => erased[n] = "nobody"
    <3>1. n # End => n \in 1..MaxNodes
      BY <1>0, <2>2, DispatchAssumption DEF DispatchTypeOK, Nodes
    <3> QED BY <1>0, <2>2, <3>1 DEF Listed
  <2>4. Standing' /\ Calling'
    BY <1>4, <2>1, <2>3 DEF BeginWalk, Standing, Calling
  <2> QED BY <1>0, <1>4, <2>4 DEF BeginWalk, Listed, UndefinedBy, Defined
<1>5. CASE EndWalk
  BY <1>0, <1>5 DEF EndWalk, Walked, Idle, Listed, Standing, Calling, UndefinedBy, Defined
<1>6. CASE CallCopied
  <2>1. PICK n \in Foremost(walk.copy) : Calls(n, [walk EXCEPT !.copy = @ \ {n}])
    BY <1>6 DEF CallCopied
  <2>2. kind = "copied" /\ n # End /\ walk \in [phase : {"idle", "loop", "call"}, it : Nodes \cup {End},
                 copy : SUBSET Nodes, in : Nodes \cup {End}]
    BY <1>0, <1>6 DEF CallCopied, Foremost, DispatchTypeOK, Nodes, End
  <2> QED BY <1>0, <2>1, <2>2 DEF Calls, Walked, Listed, Standing, Calling, UndefinedBy, Defined
<1>7. CASE CallNode
  <2>1. CASE walk.it \notin list
    BY <1>0, <1>7, <2>1 DEF CallNode, Undefined, Listed, Standing, Calling, UndefinedBy, Defined
  <2>2. CASE walk.it \in list
    <3>1. /\ walk.it \in Nat /\ walk.it \in 1..MaxNodes
          /\ walk \in [phase : {"idle", "loop", "call"}, it : Nodes \cup {End},
                       copy : SUBSET Nodes, in : Nodes \cup {End}]
      BY <1>0, <2>2, DispatchAssumption DEF DispatchTypeOK, Nodes
    <3>2. /\ NodeAfter(walk.it) \in list \cup {End}
          /\ NodeAfter(walk.it) # End => NodeAfter(walk.it) > walk.it
      BY <1>0, <3>1, NodeAfterIs
    <3>3. NodeAfter(walk.it) # End => erased[NodeAfter(walk.it)] = "nobody"
      <4>1. NodeAfter(walk.it) # End => NodeAfter(walk.it) \in 1..MaxNodes
        BY <1>0, <3>2, DispatchAssumption DEF DispatchTypeOK, Nodes
      <4> QED BY <1>0, <3>2, <4>1 DEF Listed
    <3>4. walk' = [walk EXCEPT !.phase = "call", !.in = walk.it,
                               !.it = IF kind = "jid" THEN NodeAfter(walk.it) ELSE walk.it]
      BY <1>7, <2>2, <3>1 DEF CallNode, Calls, Walked, StepsFirst
    <3>5. Standing' /\ Calling'
      BY <1>0, <1>7, <2>2, <3>1, <3>2, <3>3, <3>4
         DEF CallNode, Calls, Walked, Standing, Calling
    <3> QED BY <1>0, <1>7, <2>2, <3>5 DEF CallNode, Calls, Walked, Listed, UndefinedBy, Defined
  <2> QED BY <2>1, <2>2
<1>8. CASE ReturnStepped
  <2>1. walk \in [phase : {"idle", "loop", "call"}, it : Nodes \cup {End},
                 copy : SUBSET Nodes, in : Nodes \cup {End}]
    BY <1>0 DEF DispatchTypeOK
  <2> QED BY <1>0, <1>8, <2>1 DEF ReturnStepped, Returns, Walked, Listed, Standing, Calling, UndefinedBy, Defined
<1>9. CASE ReturnLive
  <2>0. kind = "live"
    BY <1>9 DEF ReturnLive, StepsFirst
  <2>1. CASE walk.it \notin list
    BY <1>0, <1>9, <2>0, <2>1 DEF ReturnLive, Undefined, Listed, Standing, Calling, UndefinedBy, Defined
  <2>2. CASE walk.it \in list
    <3>1. NodeAfter(walk.it) \in list \cup {End}
      BY <1>0, <2>2, NodeAfterIs DEF DispatchTypeOK, Nodes
    <3>2. NodeAfter(walk.it) # End => erased[NodeAfter(walk.it)] = "nobody"
      <4>1. NodeAfter(walk.it) # End => NodeAfter(walk.it) \in 1..MaxNodes
        BY <1>0, <3>1, DispatchAssumption DEF DispatchTypeOK, Nodes
      <4> QED BY <1>0, <3>1, <4>1 DEF Listed
    <3>3. walk'.it = NodeAfter(walk.it) /\ walk'.phase = "loop"
      BY <1>0, <1>9, <2>2 DEF ReturnLive, Returns, Walked, DispatchTypeOK
    <3> QED BY <1>0, <1>9, <2>0, <2>2, <3>2, <3>3 DEF ReturnLive, Returns, Walked, Listed, Standing, Calling, UndefinedBy, Defined
  <2> QED BY <2>1, <2>2
<1>10. CASE ReturnIq
  <2>1. CASE walk.it \notin list
    BY <1>0, <1>10, <2>1 DEF ReturnIq, Undefined, Listed, Standing, Calling, UndefinedBy, Defined
  <2>2. CASE walk.it \in list
    BY <1>0, <1>10, <2>2 DEF ReturnIq, Returns, Walked, Idle, Listed, Standing, Calling, UndefinedBy, Defined
  <2> QED BY <2>1, <2>2
<1>11. CASE UNCHANGED dispatchVars
  BY <1>0, <1>11 DEF dispatchVars, Listed, Standing, Calling, UndefinedBy, Defined
<1> QED BY <1>1, <1>2, <1>3, <1>4, <1>5, <1>6, <1>7, <1>8, <1>9, <1>10, <1>11 DEF DispatchNext

\* One more has been told.
LEMMA ToldGrows ==
    ASSUME called \in Seq(Nodes), NEW n \in Nodes, called' = Append(called, n)
    PROVE  /\ Told' = Told \cup {n}
           /\ (\A i, j \in DOMAIN called : i < j => called[i] < called[j]) /\ (\A t \in Told : t < n)
                => \A i, j \in DOMAIN called' : i < j => called'[i] < called'[j]
<1>1. /\ DOMAIN called = 1..Len(called) /\ Len(called) \in Nat
      /\ DOMAIN called' = 1..(Len(called) + 1)
      /\ \A i \in 1..Len(called) : called'[i] = called[i]
      /\ called'[Len(called) + 1] = n
  BY AppendProperties
<1>2. Told' = Told \cup {n}
  BY <1>1 DEF Told
<1>3. ASSUME \A i, j \in DOMAIN called : i < j => called[i] < called[j], \A t \in Told : t < n,
             NEW i \in DOMAIN called', NEW j \in DOMAIN called', i < j
      PROVE  called'[i] < called'[j]
  <2>1. i \in 1..Len(called)
    BY <1>1, <1>3
  <2>2. CASE j \in 1..Len(called)
    BY <1>1, <1>3, <2>1, <2>2
  <2>3. CASE j = Len(called) + 1
    BY <1>1, <1>3, <2>1, <2>3 DEF Told
  <2> QED BY <1>1, <2>2, <2>3
<1> QED BY <1>2, <1>3

LEMMA ToldNext ==
    DispatchInvariant /\ [DispatchNext]_dispatchVars => Ahead' /\ Covered' /\ Requests'
<1> SUFFICES ASSUME DispatchInvariant, [DispatchNext]_dispatchVars
             PROVE  Ahead' /\ Covered' /\ Requests'
  OBVIOUS
<1>0. DispatchTypeOK /\ Calling /\ Ahead /\ Covered /\ Requests
  BY DEF DispatchInvariant
<1>a. /\ \A n \in Nodes : n \in Nat /\ n # End
      /\ list \subseteq Nodes /\ began \subseteq Nodes /\ walk.copy \subseteq Nodes
      /\ Told \subseteq Nodes /\ called \in Seq(Nodes)
      /\ walk \in [phase : {"idle", "loop", "call"}, it : Nodes \cup {End}, copy : SUBSET Nodes, in : Nodes \cup {End}]
  BY <1>0 DEF DispatchTypeOK, Nodes, End, Told
<1>b. called' = called => Told' = Told
  BY DEF Told
<1>c. kind' = kind
  BY DEF DispatchNext, Register, RemoveInCall, RemoveByThread, Removes, BeginWalk, EndWalk, CallCopied,
         CallNode, Undefined, Calls, Walked, ReturnStepped, ReturnLive, ReturnIq, Returns, dispatchVars
<1>1. ASSUME NEW h \in Handlers, Register(h) PROVE Ahead' /\ Covered' /\ Requests'
  <2>1. Len(handler') \notin Nodes
    BY <1>0, <1>1 DEF Register, DispatchTypeOK, Nodes
  <2>2. Told' = Told /\ list' = list \cup {Len(handler')} /\ began' = began /\ walk' = walk /\ called' = called
    BY <1>1, <1>b DEF Register
  <2>3. Ahead' /\ Covered'
    BY <1>0, <1>a, <1>c, <2>1, <2>2 DEF Ahead, Covered
  <2>4. Requests'
    BY <1>0, <1>a, <1>c, <2>1, <2>2 DEF Requests
  <2> QED BY <2>3, <2>4
<1>2. ASSUME NEW h \in Handlers, RemoveInCall(h) \/ RemoveByThread(h) PROVE Ahead' /\ Covered' /\ Requests'
  <2>1. Told' = Told /\ list' \subseteq list /\ began' = began /\ walk' = walk /\ called' = called
    BY <1>2, <1>b DEF RemoveInCall, RemoveByThread, Removes
  <2> QED BY <1>0, <1>c, <2>1 DEF Ahead, Covered, Requests
<1>3. CASE BeginWalk
  <2>1. PICK n \in (IF kind = "iq" THEN list ELSE {FirstOf(list)}) :
           walk' = [phase |-> "loop", it |-> n, copy |-> IF kind = "copied" THEN list ELSE {}, in |-> End]
    BY <1>3 DEF BeginWalk
  <2>2. Told' = {} /\ called' = <<>> /\ began' = list /\ list' = list
    BY <1>3 DEF BeginWalk, Told
  <2>3. \A k \in list : FirstOf(list) # End /\ FirstOf(list) <= k
    BY <1>0, FirstIs
  <2> QED BY <1>c, <2>1, <2>2, <2>3 DEF Ahead, Covered, Requests
<1>4. CASE EndWalk
  <2>1. Told' = Told /\ called' = called /\ began' = began /\ list' = list /\ walk' = Idle
    BY <1>4, <1>b DEF EndWalk, Walked
  <2>2. Requests'
    BY <1>0, <1>4, <1>c, <2>1 DEF EndWalk, Requests, Idle, Told
  <2> QED BY <1>0, <1>4, <1>c, <2>1, <2>2 DEF EndWalk, Ahead, Covered, Idle
<1>5. CASE CallCopied
  <2>1. PICK n \in Foremost(walk.copy) : Calls(n, [walk EXCEPT !.copy = @ \ {n}])
    BY <1>5 DEF CallCopied
  <2>2. /\ n \in walk.copy /\ \A k \in walk.copy : n <= k
        /\ walk' = [walk EXCEPT !.phase = "call", !.in = n, !.copy = walk.copy \ {n}]
        /\ called' = Append(called, n) /\ began' = began /\ list' = list
        /\ kind = "copied" /\ walk.phase = "loop"
    BY <1>5, <1>a, <2>1 DEF CallCopied, Foremost, Calls, Walked
  <2>3. n \in Nodes /\ \A t \in Told : t < n
    BY <1>0, <1>a, <2>2 DEF Ahead
  <2>4. /\ Told' = Told \cup {n}
        /\ \A i, j \in DOMAIN called' : i < j => called'[i] < called'[j]
    BY <1>0, <1>a, <2>2, <2>3, ToldGrows DEF Ahead
  <2>5. walk'.copy = walk.copy \ {n} /\ walk'.phase = "call" /\ walk'.in = n
    BY <1>a, <2>2
  <2>6. \A t \in Told' : \A k \in walk'.copy : t < k
    <3>1. ASSUME NEW k \in walk.copy, k # n PROVE n < k
      BY <1>a, <2>2, <2>3, <3>1
    <3> QED BY <1>0, <2>2, <2>4, <2>5, <3>1 DEF Ahead
  <2> QED BY <1>0, <1>c, <2>2, <2>4, <2>5, <2>6, SMTT(30) DEF Ahead, Covered, Requests
<1>6. CASE CallNode
  <2>1. CASE walk.it \notin list
    <3>1. Told' = Told /\ called' = called /\ began' = began /\ list' = list /\ walk' = walk
      BY <1>6, <2>1, <1>b DEF CallNode, Undefined
    <3> QED BY <1>0, <1>c, <3>1 DEF Ahead, Covered, Requests
  <2>2. CASE walk.it \in list
    <3>1. /\ walk.it \in Nodes /\ walk.it \in Nat /\ walk.it # End
          /\ called' = Append(called, walk.it) /\ began' = began /\ list' = list
          /\ walk.phase = "loop" /\ kind # "copied"
      BY <1>6, <1>a, <2>2 DEF CallNode, Calls, Walked
    <3>2. /\ NodeAfter(walk.it) \in list \cup {End}
          /\ NodeAfter(walk.it) # End => NodeAfter(walk.it) > walk.it
          /\ \A k \in list : k > walk.it => NodeAfter(walk.it) # End /\ NodeAfter(walk.it) <= k
      BY <1>0, <3>1, NodeAfterIs
    <3>3. /\ walk'.phase = "call" /\ walk'.in = walk.it
          /\ walk'.it = IF kind = "jid" THEN NodeAfter(walk.it) ELSE walk.it
      BY <1>6, <1>a, <2>2 DEF CallNode, Calls, Walked, StepsFirst
    <3>4. Told' = Told \cup {walk.it}
      BY <1>a, <3>1, ToldGrows
    <3>5. CASE kind = "iq"
      <4>1. Told = {}
        BY <1>0, <3>1, <3>5 DEF Requests, Told
      <4> QED BY <1>c, <3>3, <3>4, <3>5, <4>1 DEF Ahead, Covered, Requests
    <3>6. CASE kind # "iq"
      <4>1. \A t \in Told : t < walk.it
        BY <1>0, <3>1, <3>6 DEF Ahead
      <4>2. \A i, j \in DOMAIN called' : i < j => called'[i] < called'[j]
        BY <1>0, <1>a, <3>1, <3>6, <4>1, ToldGrows DEF Ahead
      <4>3. \A t \in Told' : \/ walk'.it = End \/ t < walk'.it
                             \/ kind = "live" /\ walk'.phase = "call" /\ t <= walk'.it
        <5>1. CASE kind = "jid"
          <6>1. ASSUME NodeAfter(walk.it) # End, NEW t \in Told' PROVE t < NodeAfter(walk.it)
            <7>1. NodeAfter(walk.it) \in Nat /\ t \in Nat /\ t <= walk.it
              BY <1>a, <3>1, <3>2, <3>4, <4>1, <6>1
            <7> QED BY <3>1, <3>2, <6>1, <7>1
          <6> QED BY <3>3, <5>1, <6>1
        <5>2. CASE kind = "live"
          BY <1>a, <3>1, <3>3, <3>4, <4>1, <5>2
        <5> QED BY <1>0, <3>1, <3>6, <5>1, <5>2 DEF DispatchTypeOK, Kinds
      <4>4. Ahead'
        BY <1>c, <3>1, <3>3, <3>4, <4>2, <4>3 DEF Ahead
      <4>5. ASSUME NEW k \in (began \cap list) \ Told' PROVE walk'.it # End /\ walk'.it <= k
        <5>1. k \in Nat /\ walk.it <= k /\ k # walk.it
          BY <1>0, <1>a, <3>1, <3>4, <3>6, <4>5 DEF Covered
        <5> QED BY <3>1, <3>2, <3>3, <4>5, <5>1
      <4>6. Covered'
        BY <1>c, <3>1, <3>3, <4>5 DEF Covered
      <4> QED BY <1>c, <3>6, <4>4, <4>6 DEF Requests
    <3> QED BY <3>5, <3>6
  <2> QED BY <2>1, <2>2
<1>7. CASE ReturnStepped
  <2>1. /\ Told' = Told /\ called' = called /\ began' = began /\ list' = list
        /\ walk'.phase = "loop" /\ walk'.it = walk.it /\ walk'.copy = walk.copy /\ kind \in {"copied", "jid"}
        /\ walk.phase = "call"
    BY <1>7, <1>a, <1>b DEF ReturnStepped, Returns, Walked, StepsFirst
  <2> QED BY <1>0, <1>c, <2>1 DEF Ahead, Covered, Requests
<1>8. CASE ReturnLive
  <2>0. kind = "live" /\ walk.phase = "call"
    BY <1>8 DEF ReturnLive, StepsFirst
  <2>1. CASE walk.it \notin list
    <3>1. Told' = Told /\ called' = called /\ began' = began /\ list' = list /\ walk' = walk
      BY <1>8, <2>1, <1>b DEF ReturnLive, Undefined
    <3> QED BY <1>0, <1>c, <3>1 DEF Ahead, Covered, Requests
  <2>2. CASE walk.it \in list
    <3>1. /\ walk.it \in Nodes /\ walk.it \in Nat /\ walk.it # End
          /\ Told' = Told /\ called' = called /\ began' = began /\ list' = list
          /\ walk'.phase = "loop" /\ walk'.it = NodeAfter(walk.it)
      BY <1>8, <1>a, <1>b, <2>2 DEF ReturnLive, Returns, Walked
    <3>2. /\ NodeAfter(walk.it) \in list \cup {End}
          /\ NodeAfter(walk.it) # End => NodeAfter(walk.it) > walk.it
          /\ \A k \in list : k > walk.it => NodeAfter(walk.it) # End /\ NodeAfter(walk.it) <= k
      BY <1>0, <3>1, NodeAfterIs
    <3>3. walk.it \in Told
      BY <1>0, <2>0 DEF Ahead, Calling
    <3>4. \A t \in Told : t <= walk.it
      BY <1>0, <1>a, <2>0, <3>1 DEF Ahead
    <3>5. \A t \in Told' : walk'.it = End \/ t < walk'.it
      <4>1. ASSUME NEW t \in Told, NodeAfter(walk.it) # End PROVE t < NodeAfter(walk.it)
        <5>1. t \in Nat /\ NodeAfter(walk.it) \in Nat
          BY <1>a, <3>2, <4>1
        <5> QED BY <3>1, <3>2, <3>4, <4>1, <5>1
      <4> QED BY <3>1, <4>1
    <3>6. Ahead'
      BY <1>0, <1>c, <2>0, <3>1, <3>5 DEF Ahead
    <3>7. ASSUME NEW k \in (began \cap list) \ Told PROVE walk'.it # End /\ walk'.it <= k
      <4>1. k \in Nat /\ walk.it <= k /\ k # walk.it
        BY <1>0, <1>a, <2>0, <3>3, <3>7 DEF Covered
      <4> QED BY <3>1, <3>2, <3>7, <4>1
    <3>8. Covered'
      BY <1>c, <2>0, <3>1, <3>7 DEF Covered
    <3> QED BY <1>c, <2>0, <3>6, <3>8 DEF Requests
  <2> QED BY <2>1, <2>2
<1>9. CASE ReturnIq
  <2>0. kind = "iq" /\ walk.phase = "call" /\ Ahead' /\ Covered'
    BY <1>9, <1>c DEF ReturnIq, Ahead, Covered
  <2>1. CASE walk.it \notin list
    <3>1. Told' = Told /\ called' = called /\ list' = list /\ walk' = walk
      BY <1>9, <2>1, <1>b DEF ReturnIq, Undefined
    <3> QED BY <1>0, <1>c, <2>0, <3>1 DEF Requests
  <2>2. CASE walk.it \in list
    <3>1. Told' = Told /\ list' = list \ {walk.it} /\ walk'.phase = "idle"
      BY <1>9, <1>b, <2>2 DEF ReturnIq, Returns, Walked, Idle
    <3> QED BY <1>0, <1>c, <2>0, <3>1 DEF Requests
  <2> QED BY <2>1, <2>2
<1>10. CASE UNCHANGED dispatchVars
  <2>1. Told' = Told /\ called' = called /\ began' = began /\ list' = list /\ walk' = walk
    BY <1>10, <1>b DEF dispatchVars
  <2> QED BY <1>0, <1>c, <2>1 DEF Ahead, Covered, Requests
<1> QED BY <1>1, <1>2, <1>3, <1>4, <1>5, <1>6, <1>7, <1>8, <1>9, <1>10 DEF DispatchNext

-----------------------------------------------------------------------------
\* The invariant holds of every walk (clientbase.cpp:1290-1383).
THEOREM DispatchCorrect == DispatchSpec => []DispatchInvariant
<1>1. DispatchInvariant /\ [DispatchNext]_dispatchVars => DispatchInvariant'
  BY DispatchTypeNext, MarksNext, ToldNext DEF DispatchInvariant
<1> QED BY DispatchInitOK, <1>1, PTL DEF DispatchSpec

\* Whatever is registered and removed while handlers are called, the only ways
\* to a dangling iterator are those that UndefinedBy leaves open: a handler of a
\* plain list that removes itself, a room that removes another one, another
\* thread (clientbase.cpp:1116-1130, 1329-1383, util.h:87-113).
THEOREM WalksDefined == DispatchSpec => []UndefinedBy
<1>1. DispatchInvariant => UndefinedBy
  BY DEF DispatchInvariant
<1> QED BY DispatchCorrect, <1>1, PTL

\* Every event is told to everyone who stays registered, once, in the order of
\* registration, and no answer twice (clientbase.cpp:1290-1383, util.h:87-113).
THEOREM EverybodyToldOnce == DispatchSpec => []ToldOnce
<1>1. DispatchInvariant => ToldOnce
  <2> SUFFICES ASSUME DispatchInvariant PROVE ToldOnce
    OBVIOUS
  <2>1. walk = Idle => walk.phase = "idle"
    BY DEF Idle
  <2>2. EveryoneTold
    BY <2>1 DEF DispatchInvariant, Ahead, Covered, EveryoneTold, Told
  <2>3. AnsweredOnce
    BY <2>1 DEF DispatchInvariant, Requests, AnsweredOnce, Told
  <2> QED BY <2>2, <2>3 DEF ToldOnce
<1> QED BY DispatchCorrect, <1>1, PTL

-----------------------------------------------------------------------------
(* Sets of numbers.                                                        *)

\* Every set of numbers has a least one.
LEMMA LeastOf ==
    ASSUME NEW I \in SUBSET Nat, I # {}
    PROVE  \E m \in I : \A k \in I : m <= k
<1> DEFINE R == StrictSubsetOrdering(Nat)
           T == {0..n : n \in I}
<1>1. IsWellFoundedOn(R, FiniteSubsetsOf(Nat))
  BY FS_StrictSubsetOrderingWellFounded
<1>2. T \subseteq FiniteSubsetsOf(Nat) /\ T # {}
  <2>1. ASSUME NEW n \in I PROVE 0..n \in SUBSET Nat /\ IsFiniteSet(0..n)
    BY FS_Interval
  <2> QED BY <2>1 DEF FiniteSubsetsOf
<1>3. PICK x \in T : \A y \in T : ~(<<y, x>> \in R)
  <2> HIDE DEF R, T
  <2> QED BY <1>1, <1>2, WFMin, Zenon
<1>4. PICK m \in I : x = 0..m
  OBVIOUS
<1>5. ASSUME NEW k \in I, k < m PROVE FALSE
  <2>1. 0..k \in SUBSET Nat /\ x \in SUBSET Nat /\ 0..k \in T /\ 0..k \subseteq x /\ 0..k # x
    BY <1>4, <1>5
  <2> QED BY <1>3, <2>1 DEF StrictSubsetOrdering
<1>6. ASSUME NEW k \in I PROVE m <= k
  <2>1. m \in Nat /\ k \in Nat /\ ~(k < m)
    BY <1>5
  <2> QED BY <2>1
<1> HIDE DEF T
<1> QED BY <1>6

\* Induction up to a number, about a set of numbers.
LEMMA Upward ==
    ASSUME NEW n \in Nat, NEW P, 0 \in P, \A k \in 1..n : k - 1 \in P => k \in P
    PROVE  \A k \in 0..n : k \in P
<1> SUFFICES ASSUME ~\A k \in 0..n : k \in P PROVE FALSE
  OBVIOUS
<1> DEFINE I == {k \in 0..n : k \notin P}
<1>1. I \in SUBSET Nat /\ I # {}
  OBVIOUS
<1>2. PICK m \in I : \A k \in I : m <= k
  <2> HIDE DEF I
  <2> QED BY <1>1, LeastOf
<1>3. m \in 1..n
  BY <1>2
<1>4. m - 1 \in 0..n /\ ~(m <= m - 1)
  BY <1>3
<1>5. m - 1 \in P
  BY <1>2, <1>4
<1> QED BY <1>2, <1>3, <1>5


-----------------------------------------------------------------------------
(* The parser: its types.                                                  *)

Chars == Atoms \cup {Entities[e] : e \in DOMAIN Entities} \cup {"xmlns"}
Texts == Seq(Chars)
Names == [name : Texts, prefix : Texts]
Attributes == [prefix : Texts, name : Texts, value : Texts]
Items ==
    [is : {"open"}, name : Texts, prefix : Texts, attribs : Seq(Attributes)]
    \cup [is : {"text"}, text : Texts] \cup [is : {"close"}]

Parsers ==
    [state : States, root : Seq(Items), open : Seq(Names), tag : Texts, prefix : Texts,
     havePrefix : BOOLEAN, attribs : Seq(Attributes), attrib : Texts, attribPrefix : Texts,
     haveAttribPrefix : BOOLEAN, isXmlns : BOOLEAN, value : Texts, cdata : Texts,
     backBuffer : Seq(Atoms), preamble : 0..2, quote : BOOLEAN,
     handed : Seq(Seq(Items)), failed : BOOLEAN, wait : BOOLEAN]

\* Nothing of an earlier tag is left: everything is as in a new parser but the
\* state and what cleanup leaves alone.
Clean(p) ==
    /\ p.root = <<>> /\ p.open = <<>> /\ p.tag = <<>> /\ p.prefix = <<>> /\ p.havePrefix = FALSE
    /\ p.attribs = <<>> /\ p.attrib = <<>> /\ p.attribPrefix = <<>> /\ p.haveAttribPrefix = FALSE
    /\ p.value = <<>> /\ p.cdata = <<>> /\ p.preamble = 0

\* When the parser is clean: only the end of a stream leaves something behind,
\* its prefix, and the flag shows it.
Tidy(p) ==
    /\ p.state = "Initial" => Clean(p)
    /\ p.state = "InterTag" /\ p.open = <<>> /\ p.havePrefix = FALSE => Clean(p)
    /\ p.open = <<>> /\ p.prefix # <<>> => p.havePrefix = TRUE

\* A parser between two pieces, or in one.
Sound(p) == p \in Parsers /\ ((p.open = <<>>) <=> (p.root = <<>>)) /\ Tidy(p)

\* A parser in the middle of a piece, and in the middle of a tag or its content.
Reading(p) == Sound(p) /\ p.backBuffer = <<>> /\ p.wait = FALSE
Within == States \ {"Initial", "InterTag"}
Working(p) == Reading(p) /\ p.state \in Within

LEMMA TextFields ==
    ASSUME NEW p, Working(p)
    PROVE  /\ \A x \in Texts : /\ Reading([p EXCEPT !.tag = x]) /\ Reading([p EXCEPT !.cdata = x])
                               /\ Reading([p EXCEPT !.value = x]) /\ Reading([p EXCEPT !.attrib = x])
BY DEF Working, Within, Reading, Sound, Tidy, Parsers

LEMMA GoReading ==
    ASSUME NEW p, Reading(p), NEW state \in Within
    PROVE  Working(Go(p, state)) /\ Reading(Go(p, state))
BY DEF Working, Within, Reading, Sound, Tidy, Parsers, Go

LEMMA CleanedParser == ASSUME NEW p \in Parsers PROVE Cleanup(p) \in Parsers
<1>1. /\ p.backBuffer \in Seq(Atoms) /\ p.quote \in BOOLEAN /\ p.isXmlns \in BOOLEAN /\ p.handed \in Seq(Seq(Items))
  BY DEF Parsers
<1>2. NewParser \in Parsers
  <2>1. <<>> \in Texts /\ <<>> \in Seq(Items) /\ <<>> \in Seq(Names) /\ <<>> \in Seq(Attributes) /\ <<>> \in Seq(Atoms)
        /\ <<>> \in Seq(Seq(Items)) /\ "Initial" \in States
    BY EmptySeq DEF Texts, States
  <2> QED BY <2>1 DEF NewParser, Parsers
<1> HIDE DEF NewParser
<1> QED BY <1>1, <1>2 DEF Cleanup, Parsers

LEMMA CleanupReading ==
    ASSUME NEW p, Reading(p)
    PROVE  Reading(Cleanup(p)) /\ Reading(Fail(p))
<1>1. Cleanup(p) \in Parsers
  BY CleanedParser DEF Reading, Sound
<1>2. Reading(Cleanup(p))
  BY <1>1 DEF Reading, Cleanup, NewParser, Sound, Tidy, Clean
<1>3. Reading([Cleanup(p) EXCEPT !.failed = TRUE])
  <2> HIDE DEF Cleanup
  <2> QED BY <1>2 DEF Reading, Sound, Tidy, Clean, Parsers
<1> QED BY <1>2, <1>3 DEF Fail

LEMMA HandOverReading ==
    ASSUME NEW p, Reading(p)
    PROVE  Reading(HandOver(p))
<1>1. [p EXCEPT !.handed = Append(@, p.root)] \in Parsers
  <2>1. p \in Parsers /\ p.root \in Seq(Items) /\ p.handed \in Seq(Seq(Items))
    BY DEF Reading, Sound, Parsers
  <2>2. Append(p.handed, p.root) \in Seq(Seq(Items))
    BY <2>1, AppendProperties
  <2> QED BY <2>1, <2>2 DEF Parsers
<1>2. Reading([p EXCEPT !.handed = Append(@, p.root)])
  BY <1>1 DEF Reading, Sound, Tidy, Clean, Parsers
<1> QED BY <1>2, CleanupReading DEF HandOver

LEMMA AddTagReading ==
    ASSUME NEW p, Working(p)
    PROVE  Reading(AddTag(p))
<1> DEFINE name == [name |-> p.tag, prefix |-> IF p.havePrefix THEN p.prefix ELSE <<>>]
           item == [is |-> "open", name |-> name.name, prefix |-> name.prefix, attribs |-> p.attribs]
           q == [p EXCEPT !.root = Append(@, item), !.open = Append(@, name), !.havePrefix = FALSE, !.attribs = <<>>]
<1>1. /\ p \in Parsers /\ p.root \in Seq(Items) /\ p.open \in Seq(Names) /\ p.attribs \in Seq(Attributes)
      /\ p.tag \in Texts /\ p.prefix \in Texts /\ p.state # "Initial" /\ Reading(p)
  BY DEF Working, Within, Reading, Sound, Parsers
<1>2. name \in Names
  BY <1>1 DEF Names, Texts
<1>3. item \in Items
  BY <1>1, <1>2 DEF Items, Names
<1> HIDE DEF name, item
<1>4. /\ Append(p.root, item) \in Seq(Items) /\ Append(p.root, item) # <<>>
      /\ Append(p.open, name) \in Seq(Names) /\ Append(p.open, name) # <<>>
  BY <1>1, <1>2, <1>3, AppendProperties
<1>5. q = [p EXCEPT !.root = Append(p.root, item), !.open = Append(p.open, name), !.havePrefix = FALSE, !.attribs = <<>>]
  OBVIOUS
<1>6. q \in Parsers /\ q.root = Append(p.root, item) /\ q.open = Append(p.open, name)
  <2>1. <<>> \in Seq(Attributes) /\ FALSE \in BOOLEAN
    BY EmptySeq
  <2> QED BY <1>1, <1>4, <2>1 DEF Parsers
<1>7. Reading(q)
  BY <1>1, <1>4, <1>6 DEF Reading, Sound, Tidy, Parsers
<1> HIDE DEF q
<1>8. AddTag(p) \in {HandOver(q), Cleanup(q), q}
  BY DEF AddTag, q, name, item
<1> QED BY <1>7, <1>8, HandOverReading, CleanupReading

LEMMA CloseTagReading ==
    ASSUME NEW p, Reading(p)
    PROVE  Reading(CloseTag(p))
<1> DEFINE q == [p EXCEPT !.prefix = <<>>, !.havePrefix = FALSE, !.root = Append(@, [is |-> "close"]),
                          !.open = SubSeq(@, 1, Len(@) - 1)]
<1>1. /\ p \in Parsers /\ p.root \in Seq(Items) /\ p.open \in Seq(Names) /\ <<>> \in Texts
  BY DEF Reading, Sound, Parsers, Texts
<1>2. [is |-> "close"] \in Items
  BY DEF Items
<1>3. Append(p.root, [is |-> "close"]) \in Seq(Items) /\ Append(p.root, [is |-> "close"]) # <<>>
  BY <1>1, <1>2, AppendProperties
<1>4. SubSeq(p.open, 1, Len(p.open) - 1) \in Seq(Names)
  BY <1>1
<1>5. /\ q \in Parsers /\ q.root # <<>> /\ q.backBuffer = <<>> /\ q.wait = FALSE /\ q.prefix = <<>>
  BY <1>1, <1>3, <1>4 DEF Parsers, Reading
<1>6. Reading(Go(HandOver(q), "InterTag"))
  <2>1. [q EXCEPT !.handed = Append(@, q.root)] \in Parsers
    <3>1. q.root \in Seq(Items) /\ q.handed \in Seq(Seq(Items))
      BY <1>5 DEF Parsers
    <3>2. Append(q.handed, q.root) \in Seq(Seq(Items))
      BY <3>1, AppendProperties
    <3> HIDE DEF q
    <3> QED BY <1>5, <3>2 DEF Parsers
  <2> HIDE DEF q
  <2>2. Cleanup([q EXCEPT !.handed = Append(@, q.root)]) \in Parsers
    BY <2>1, CleanedParser
  <2>3. [q EXCEPT !.handed = Append(@, q.root)].backBuffer = <<>>
    BY <1>5 DEF Parsers
  <2>4. /\ HandOver(q) \in Parsers /\ Clean(HandOver(q)) /\ HandOver(q).backBuffer = <<>> /\ HandOver(q).wait = FALSE
    BY <2>2, <2>3 DEF HandOver, Cleanup, NewParser, Clean
  <2>5. "InterTag" \in States
    BY DEF States
  <2> QED BY <2>4, <2>5 DEF Go, Reading, Sound, Tidy, Clean, Parsers
<1>7. q.open # <<>> => Reading(Go(q, "InterTag"))
  <2>1. "InterTag" \in States
    BY DEF States
  <2> HIDE DEF q
  <2> QED BY <1>5, <2>1 DEF Go, Reading, Sound, Tidy, Parsers
<1>8. p.prefix = <<"stream">> => Reading(Go(p, "InterTag"))
  <2>1. "InterTag" \in States /\ <<"stream">> # <<>>
    BY DEF States
  <2> QED BY <1>1, <2>1 DEF Go, Reading, Sound, Tidy, Parsers
<1>9. \/ p.prefix = <<"stream">> /\ CloseTag(p) = Go(p, "InterTag")
      \/ CloseTag(p) \in {Fail(p), Go(HandOver(q), "InterTag")}
      \/ q.open # <<>> /\ CloseTag(p) = Go(q, "InterTag")
  BY DEF CloseTag
<1> HIDE DEF q
<1> QED BY <1>6, <1>7, <1>8, <1>9, CleanupReading

LEMMA AddAttributeReading ==
    ASSUME NEW p, Working(p)
    PROVE  Reading(AddAttribute(p)) /\ AddAttribute(p).isXmlns = FALSE
<1> DEFINE a == [prefix |-> IF p.isXmlns THEN <<"xmlns">> ELSE p.attribPrefix, name |-> p.attrib, value |-> p.value]
<1>1. p \in Parsers /\ p.attribs \in Seq(Attributes)
  BY DEF Working, Reading, Sound, Parsers
<1>2. a \in Attributes
  <2>1. <<"xmlns">> \in Texts
    BY DEF Texts, Chars
  <2> QED BY <1>1, <2>1 DEF Parsers, Attributes
<1> HIDE DEF a
<1>3. Append(p.attribs, a) \in Seq(Attributes)
  BY <1>1, <1>2, AppendProperties
<1>4. AddAttribute(p) = [p EXCEPT !.attribs = Append(p.attribs, a), !.attrib = <<>>, !.value = <<>>, !.attribPrefix = <<>>,
                                  !.haveAttribPrefix = FALSE, !.isXmlns = FALSE]
  BY DEF AddAttribute, a
<1>5. <<>> \in Texts
  BY EmptySeq DEF Texts
<1>6. AddAttribute(p) \in Parsers
  <2> HIDE DEF AddAttribute
  <2> QED BY <1>1, <1>3, <1>4, <1>5, ZenonT(30) DEF Parsers
<1> QED BY <1>1, <1>4, <1>6 DEF Working, Within, Reading, Sound, Tidy, Parsers

LEMMA AddCDataReading ==
    ASSUME NEW p, Working(p)
    PROVE  Reading(AddCData(p))
<1> DEFINE item == [is |-> "text", text |-> p.cdata]
<1>1. Reading(p) /\ p \in Parsers /\ p.root \in Seq(Items) /\ p.cdata \in Texts /\ <<>> \in Texts
  BY DEF Working, Reading, Sound, Parsers, Texts
<1>2. item \in Items
  BY <1>1 DEF Items
<1> HIDE DEF item
<1>3. Append(p.root, item) \in Seq(Items) /\ Append(p.root, item) # <<>>
  BY <1>1, <1>2, AppendProperties
<1>4. CASE p.open # <<>> /\ p.cdata # <<>>
  <2>1. AddCData(p) = [p EXCEPT !.root = Append(p.root, item), !.cdata = <<>>]
    BY <1>4 DEF AddCData, item
  <2> QED BY <1>1, <1>3, <1>4, <2>1 DEF Working, Within, Reading, Sound, Tidy, Parsers
<1>5. CASE ~(p.open # <<>> /\ p.cdata # <<>>)
  BY <1>1, <1>5 DEF AddCData
<1> QED BY <1>4, <1>5
-----------------------------------------------------------------------------
(* A step of the parser.                                                   *)

Fields == {"tag", "attrib", "value", "cdata"}

LEMMA ReadingFields ==
    ASSUME NEW p, Reading(p)
    PROVE  /\ p \in Parsers /\ p.state \in States
           /\ \A field \in Fields : p[field] \in Texts
           /\ [p EXCEPT !.tag = <<>>] \in Parsers /\ Reading([p EXCEPT !.tag = <<>>])
<1>1. p \in Parsers /\ p.state \in States
  BY DEF Reading, Sound, Parsers
<1>2. \A field \in Fields : p[field] \in Texts
  BY <1>1 DEF Fields, Parsers
<1>3. <<>> \in Texts
  BY EmptySeq DEF Texts
<1>4. Reading([p EXCEPT !.tag = <<>>])
  BY <1>1, <1>3 DEF Reading, Sound, Tidy, Clean, Parsers
<1> QED BY <1>1, <1>2, <1>4 DEF Reading, Sound

LEMMA FieldReading ==
    ASSUME NEW p, Working(p), NEW field \in Fields, NEW c \in Chars
    PROVE  Reading([p EXCEPT ![field] = Append(@, c)])
<1>1. p[field] \in Texts
  BY ReadingFields DEF Working
<1>2. Append(p[field], c) \in Texts
  BY <1>1, AppendProperties DEF Texts
<1>3. CASE field = "tag"
  BY <1>2, <1>3, TextFields
<1>4. CASE field = "attrib"
  BY <1>2, <1>4, TextFields
<1>5. CASE field = "value"
  BY <1>2, <1>5, TextFields
<1>6. CASE field = "cdata"
  BY <1>2, <1>6, TextFields
<1> QED BY <1>3, <1>4, <1>5, <1>6 DEF Fields

\* A step over one atom, after which the parser reads on.
Plainly(s) == \E q : Reading(q) /\ s = One(q)

LEMMA AddsPlainly ==
    ASSUME NEW p, Working(p), NEW field \in Fields, NEW c \in Chars
    PROVE  Plainly(Adds(p, field, c))
BY FieldReading DEF Plainly, Adds

LEMMA OnePlainly == ASSUME NEW p, Reading(p) PROVE Plainly(One(p))
BY DEF Plainly

LEMMA ModesReading ==
    ASSUME NEW p, Working(p)
    PROVE  /\ Reading([p EXCEPT !.preamble = 1]) /\ Reading([p EXCEPT !.preamble = 2])
           /\ Reading([p EXCEPT !.quote = TRUE]) /\ Reading([p EXCEPT !.quote = FALSE])
           /\ Reading(TagPrefix(p)) /\ Reading(AttribPrefix(p))
<1>0. Reading(p) /\ p \in Parsers /\ 1 \in 0..2 /\ 2 \in 0..2
  BY DEF Working, Reading, Sound
<1>a. [p EXCEPT !.preamble = 1] \in Parsers /\ [p EXCEPT !.preamble = 2] \in Parsers
  BY <1>0 DEF Parsers
<1>b. [p EXCEPT !.quote = TRUE] \in Parsers /\ [p EXCEPT !.quote = FALSE] \in Parsers
  BY <1>0 DEF Parsers
<1>1. /\ Reading([p EXCEPT !.preamble = 1]) /\ Reading([p EXCEPT !.preamble = 2])
      /\ Reading([p EXCEPT !.quote = TRUE]) /\ Reading([p EXCEPT !.quote = FALSE])
  BY <1>a, <1>b DEF Working, Within, Reading, Sound, Tidy, Parsers
<1>2. <<>> \in Texts /\ p.tag \in Texts /\ p.attrib \in Texts
  BY <1>0, EmptySeq DEF Texts, Parsers
<1>3. Reading([p EXCEPT !.havePrefix = TRUE, !.prefix = p.tag, !.tag = <<>>])
  BY <1>0, <1>2 DEF Working, Within, Reading, Sound, Tidy, Parsers
<1>4. Reading([p EXCEPT !.isXmlns = TRUE, !.attrib = <<>>])
  BY <1>0, <1>2 DEF Working, Within, Reading, Sound, Tidy, Parsers
<1>5. Reading([p EXCEPT !.haveAttribPrefix = TRUE, !.attribPrefix = p.attrib, !.attrib = <<>>])
  BY <1>0, <1>2 DEF Working, Within, Reading, Sound, Tidy, Parsers
<1> QED BY <1>0, <1>1, <1>3, <1>4, <1>5, CleanupReading DEF TagPrefix, AttribPrefix

LEMMA StateNames == /\ {"Initial", "InterTag", "TagOpening", "TagCDATASection", "TagNameCollect",
                        "TagInside", "TagOpeningSlash", "TagClosingSlash", "TagClosing",
                        "TagNameComplete", "TagAttribute", "TagAttributeComplete",
                        "TagAttributeEqual", "TagAttributeValue", "TagNameAlmostComplete"} = States
                    /\ Within = {"TagOpening", "TagCDATASection", "TagNameCollect",
                        "TagInside", "TagOpeningSlash", "TagClosingSlash", "TagClosing",
                        "TagNameComplete", "TagAttribute", "TagAttributeComplete",
                        "TagAttributeEqual", "TagAttributeValue", "TagNameAlmostComplete"}
                    /\ {"tag", "attrib", "value", "cdata"} = Fields
BY DEF States, Within, Fields

LEMMA InitialPlainly ==
    ASSUME NEW p, Reading(p), NEW c \in Chars PROVE Plainly(InitialStep(p, c))
BY CleanupReading, GoReading, OnePlainly, StateNames DEF InitialStep

LEMMA InterTagPlainly ==
    ASSUME NEW p, Reading(p), NEW c \in Chars PROVE Plainly(InterTagStep(p, c))
<1> DEFINE q == [p EXCEPT !.tag = <<>>]
<1>1. Reading(q)
  BY ReadingFields
<1>2. InterTagStep(p, c) \in {One(q), One(Go(q, "TagOpening")), One([Go(q, "TagInside") EXCEPT !["cdata"] = Append(@, c)])}
  BY DEF InterTagStep, Go
<1> HIDE DEF q
<1>3. Reading([Go(q, "TagInside") EXCEPT !["cdata"] = Append(@, c)])
  BY <1>1, GoReading, FieldReading, StateNames
<1> QED BY <1>1, <1>2, <1>3, GoReading, OnePlainly, StateNames

LEMMA TagNameCollectPlainly ==
    ASSUME NEW p, Working(p), Reading(p), NEW c \in Chars PROVE Plainly(TagNameCollectStep(p, c))
BY CleanupReading, GoReading, OnePlainly, AddsPlainly, StateNames, AddTagReading, ModesReading DEF TagNameCollectStep

LEMMA TagOpeningSlashPlainly ==
    ASSUME NEW p, Working(p), Reading(p), NEW c \in Chars PROVE Plainly(TagOpeningSlashStep(p, c))
BY CleanupReading, OnePlainly, AddTagReading, CloseTagReading DEF TagOpeningSlashStep

LEMMA TagClosingSlashPlainly ==
    ASSUME NEW p, Working(p), Reading(p), NEW c \in Chars PROVE Plainly(TagClosingSlashStep(p, c))
BY CleanupReading, GoReading, OnePlainly, AddsPlainly, StateNames DEF TagClosingSlashStep

LEMMA TagClosingPlainly ==
    ASSUME NEW p, Working(p), Reading(p), NEW c \in Chars PROVE Plainly(TagClosingStep(p, c))
BY CleanupReading, CloseTagReading, OnePlainly, AddsPlainly, StateNames, ModesReading DEF TagClosingStep

LEMMA TagEndReading ==
    ASSUME NEW p, Working(p), Reading(p), NEW c \in Chars PROVE Reading(TagEnd(p, c))
BY CleanupReading, GoReading, AddTagReading, StateNames, ModesReading DEF TagEnd

LEMMA TagNameCompletePlainly ==
    ASSUME NEW p, Working(p), Reading(p), NEW c \in Chars PROVE Plainly(TagNameCompleteStep(p, c))
BY TagEndReading, GoReading, OnePlainly, AddsPlainly, StateNames DEF TagNameCompleteStep

LEMMA TagAttributePlainly ==
    ASSUME NEW p, Working(p), Reading(p), NEW c \in Chars PROVE Plainly(TagAttributeStep(p, c))
BY CleanupReading, GoReading, OnePlainly, AddsPlainly, StateNames, ModesReading DEF TagAttributeStep

LEMMA TagAttributeCompletePlainly ==
    ASSUME NEW p, Working(p), Reading(p), NEW c \in Chars PROVE Plainly(TagAttributeCompleteStep(p, c))
BY CleanupReading, GoReading, OnePlainly, StateNames DEF TagAttributeCompleteStep

LEMMA TagAttributeEqualPlainly ==
    ASSUME NEW p, Working(p), Reading(p), NEW c \in Chars PROVE Plainly(TagAttributeEqualStep(p, c))
BY CleanupReading, GoReading, OnePlainly, StateNames, ModesReading DEF TagAttributeEqualStep

LEMMA TagNameAlmostCompletePlainly ==
    ASSUME NEW p, Working(p), Reading(p), NEW c \in Chars PROVE Plainly(TagNameAlmostCompleteStep(p, c))
BY TagEndReading, GoReading, OnePlainly, StateNames DEF TagNameAlmostCompleteStep

-----------------------------------------------------------------------------
(* What a step takes of the data.                                          *)

Longer(d, g) == Len(d) <= Len(g) /\ \A j \in 1..Len(d) : g[j] = d[j]

\* From place i, d has what g has from place k.
Alike(d, i, g, k) ==
    /\ i \in 1..Len(d) /\ k \in 1..Len(g) /\ Len(d) - i = Len(g) - k
    /\ \A j \in 0..(Len(d) - i) : d[i + j] = g[k + j]

\* From i to m, d has what g has from k to n.
Match(d, i, m, g, k, n) ==
    /\ i \in Nat \ {0} /\ k \in Nat \ {0} /\ m \in Int /\ n \in Int
    /\ m <= Len(d) /\ n <= Len(g) /\ m - i = n - k
    /\ \A j \in 0..(m - i) : d[i + j] = g[k + j]

Cut(d, i, m) == SubSeq(d, i, m)

LEMMA SubSeqMatch ==
    ASSUME NEW d \in Seq(Atoms), NEW g \in Seq(Atoms), NEW i, NEW m, NEW k, NEW n, Match(d, i, m, g, k, n)
    PROVE  Cut(d, i, m) = Cut(g, k, n)
<1>1. Len(d) \in Nat /\ Len(g) \in Nat /\ (\A j \in 1..Len(d) : d[j] \in Atoms) /\ (\A j \in 1..Len(g) : g[j] \in Atoms)
  BY ElementOfSeq
<1>0. /\ i \in Nat \ {0} /\ k \in Nat \ {0} /\ m \in Int /\ n \in Int
      /\ m <= Len(d) /\ n <= Len(g) /\ m - i = n - k
  BY DEF Match
<1>2. \A j \in i..m : d[j] \in Atoms
  BY <1>0, <1>1
<1>3. \A j \in k..n : g[j] \in Atoms
  BY <1>0, <1>1
<1> DEFINE x == SubSeq(d, i, m)
           y == SubSeq(g, k, n)
<1>4. x \in Seq(Atoms) /\ Len(x) = (IF i <= m THEN m - i + 1 ELSE 0) /\ \A j \in 1..(m - i + 1) : x[j] = d[i + j - 1]
  BY <1>0, <1>2, SubSeqProperties
<1>5. y \in Seq(Atoms) /\ Len(y) = (IF k <= n THEN n - k + 1 ELSE 0) /\ \A j \in 1..(n - k + 1) : y[j] = g[k + j - 1]
  BY <1>0, <1>3, SubSeqProperties
<1>6. ASSUME NEW j \in 1..(m - i + 1) PROVE x[j] = y[j]
  <2>1. j - 1 \in 0..(m - i) /\ i + (j - 1) = i + j - 1 /\ k + (j - 1) = k + j - 1 /\ j \in 1..(n - k + 1)
    BY <1>0
  <2>2. d[i + (j - 1)] = g[k + (j - 1)]
    BY <2>1 DEF Match
  <2> QED BY <1>4, <1>5, <2>1, <2>2
<1> HIDE DEF x, y
<1>7. Len(x) = Len(y) /\ \A j \in 1..Len(x) : j \in 1..(m - i + 1)
  BY <1>0, <1>4, <1>5
<1> QED BY <1>4, <1>5, <1>6, <1>7, SeqEqual DEF x, y, Cut

LEMMA ScanLonger ==
    ASSUME NEW d \in Seq(Atoms), NEW g \in Seq(Atoms), Longer(d, g), NEW i \in 1..Len(d),
           NEW p, NEW found, NEW notFound, NEW needle, Len(needle) \in Nat \ {0}
    PROVE  \/ Scan(p, d, i, needle, found, notFound) = Wait(p, d, i)
           \/ /\ Scan(p, g, i, needle, found, notFound) = Scan(p, d, i, needle, found, notFound)
              /\ \/ Scan(p, d, i, needle, found, notFound) = One(notFound)
                 \/ /\ Scan(p, d, i, needle, found, notFound) = Uses(found, Len(needle))
                    /\ Len(needle) <= Len(d) - i + 1
<1>1. Len(d) \in Nat /\ Len(g) \in Nat
  OBVIOUS
<1>2. CASE i + Len(needle) - 1 > Len(d)
  BY <1>2 DEF Scan
<1>3. CASE ~(i + Len(needle) - 1 > Len(d))
  <2>1. ~(i + Len(needle) - 1 > Len(g)) /\ i + Len(needle) - 1 <= Len(d) /\ i + Len(needle) - 1 <= Len(g)
    BY <1>1, <1>3 DEF Longer
  <2> DEFINE m == i + Len(needle) - 1
  <2>2. \A j \in 0..(m - i) : i + j \in 1..Len(d) /\ d[i + j] = g[i + j]
    BY <1>1, <2>1 DEF Longer
  <2>3. SubSeq(d, i, m) = SubSeq(g, i, m)
    <3>1. i \in Nat \ {0} /\ m \in Int /\ m <= Len(d) /\ m <= Len(g) /\ m - i = m - i
      BY <1>1, <2>1
    <3> HIDE DEF m
    <3>2. Match(d, i, m, g, i, m)
      BY <2>2, <3>1 DEF Match
    <3>3. Cut(d, i, m) = Cut(g, i, m)
      BY <3>2, SubSeqMatch
    <3> QED BY <3>3 DEF Cut
  <2>4. Len(needle) <= Len(d) - i + 1
    BY <1>1, <2>1
  <2> QED BY <1>3, <2>1, <2>3, <2>4 DEF Scan
<1> QED BY <1>2, <1>3

LEMMA WaitAlike ==
    ASSUME NEW d \in Seq(Atoms), NEW g \in Seq(Atoms), NEW i, NEW k, Alike(d, i, g, k), NEW p
    PROVE  Wait(p, d, i) = Wait(p, g, k)
<1>1. Match(d, i, Len(d), g, k, Len(g))
  BY DEF Alike, Match
<1>2. Cut(d, i, Len(d)) = Cut(g, k, Len(g))
  BY <1>1, SubSeqMatch
<1> QED BY <1>2 DEF Wait, Cut

LEMMA ScanAlike ==
    ASSUME NEW d \in Seq(Atoms), NEW g \in Seq(Atoms), NEW i, NEW k, Alike(d, i, g, k),
           NEW p, NEW found, NEW notFound, NEW needle, Len(needle) \in Nat \ {0}
    PROVE  Scan(p, d, i, needle, found, notFound) = Scan(p, g, k, needle, found, notFound)
<1>1. /\ Len(d) \in Nat /\ Len(g) \in Nat /\ i \in Nat \ {0} /\ k \in Nat \ {0}
      /\ (i + Len(needle) - 1 > Len(d)) <=> (k + Len(needle) - 1 > Len(g))
  BY DEF Alike
<1>2. CASE i + Len(needle) - 1 > Len(d)
  BY <1>1, <1>2, WaitAlike DEF Scan
<1>3. CASE ~(i + Len(needle) - 1 > Len(d))
  <2>1. i + Len(needle) - 1 <= Len(d) /\ k + Len(needle) - 1 <= Len(g)
    BY <1>1, <1>3
  <2> DEFINE m == i + Len(needle) - 1
             n == k + Len(needle) - 1
  <2>2. \A j \in 0..(m - i) : d[i + j] = g[k + j]
    <3>1. \A j \in 0..(m - i) : j \in 0..(Len(d) - i)
      BY <1>1, <2>1
    <3> QED BY <3>1 DEF Alike
  <2>3. SubSeq(d, i, m) = SubSeq(g, k, n)
    <3>1. Match(d, i, m, g, k, n)
      BY <1>1, <2>1, <2>2 DEF Match, Alike
    <3> HIDE DEF m, n
    <3>2. Cut(d, i, m) = Cut(g, k, n)
      BY <3>1, SubSeqMatch
    <3> QED BY <3>2 DEF Cut
  <2> QED BY <1>1, <1>3, <2>3 DEF Scan
<1> QED BY <1>2, <1>3

Semicolons(d, i) == {j \in i..Len(d) : d[j] = EntityEnd}
FirstEnd(d, i) == CHOOSE j \in Semicolons(d, i) : \A k \in Semicolons(d, i) : j <= k

LEMMA SemicolonsAre ==
    ASSUME NEW d \in Seq(Atoms), NEW i \in Nat
    PROVE  /\ Semicolons(d, i) \in SUBSET Nat
           /\ \A j \in Nat : j \in Semicolons(d, i) <=> i <= j /\ j <= Len(d) /\ d[j] = EntityEnd
<1>1. Len(d) \in Nat
  OBVIOUS
<1>2. i..Len(d) \in SUBSET Nat /\ \A j \in Nat : j \in i..Len(d) <=> i <= j /\ j <= Len(d)
  BY <1>1
<1> QED BY <1>2 DEF Semicolons

LEMMA FirstEndIs ==
    ASSUME NEW d \in Seq(Atoms), NEW i \in Nat
    PROVE  /\ Semicolons(d, i) # {} => /\ FirstEnd(d, i) \in Semicolons(d, i)
                                        /\ \A k \in Semicolons(d, i) : FirstEnd(d, i) <= k
           /\ \A j \in Semicolons(d, i) : (\A k \in Semicolons(d, i) : j <= k) => j = FirstEnd(d, i)
<1> DEFINE T == Semicolons(d, i)
<1>1. T \in SUBSET Nat
  BY SemicolonsAre
<1>2. T # {} => \E m \in T : \A k \in T : m <= k
  <2> HIDE DEF T
  <2> QED BY <1>1, LeastOf
<1>3. T # {} => FirstEnd(d, i) \in T /\ \A k \in T : FirstEnd(d, i) <= k
  <2> HIDE DEF T
  <2>1. FirstEnd(d, i) = CHOOSE j \in T : \A k \in T : j <= k
    BY DEF FirstEnd, T
  <2> QED BY <1>2, <2>1
<1>4. ASSUME NEW j \in T, \A k \in T : j <= k PROVE j = FirstEnd(d, i)
  <2> HIDE DEF T
  <2>1. j <= FirstEnd(d, i) /\ FirstEnd(d, i) <= j /\ j \in Nat /\ FirstEnd(d, i) \in Nat
    BY <1>1, <1>3, <1>4
  <2> QED BY <2>1
<1> QED BY <1>3, <1>4

\* decode, said with the first semicolon.
LEMMA DecodeIs ==
    ASSUME NEW p, NEW d, NEW i, NEW field
    PROVE  Decode(p, d, i, field) =
             IF Semicolons(d, i) = {} THEN Wait(p, d, i)
             ELSE IF FirstEnd(d, i) = i + 2 /\ d[i + 1] \in DOMAIN Entities
             THEN Uses([p EXCEPT ![field] = Append(@, Entities[d[i + 1]])], 3)
             ELSE One(Fail(p))
BY DEF Decode, Semicolons, FirstEnd

\* decode waits, or does the same whatever more there is.
Decoded(p, d, g, i, field) ==
    \/ Decode(p, d, i, field) = Wait(p, d, i)
    \/ /\ Decode(p, g, i, field) = Decode(p, d, i, field)
       /\ \/ Decode(p, d, i, field) = One(Fail(p))
          \/ /\ d[i + 1] \in DOMAIN Entities /\ 3 <= Len(d) - i + 1
             /\ Decode(p, d, i, field) = Uses([p EXCEPT ![field] = Append(@, Entities[d[i + 1]])], 3)

LEMMA DecodeLonger ==
    ASSUME NEW d \in Seq(Atoms), NEW g \in Seq(Atoms), Longer(d, g), NEW i \in 1..Len(d),
           NEW p, NEW field
    PROVE  Decoded(p, d, g, i, field)
<1>1. Len(d) \in Nat /\ Len(g) \in Nat /\ i \in Nat
  OBVIOUS
<1>2. CASE Semicolons(d, i) = {}
  BY <1>2, DecodeIs DEF Decoded
<1>3. CASE Semicolons(d, i) # {}
  <2> DEFINE e == FirstEnd(d, i)
  <2>1. e \in Semicolons(d, i) /\ \A k \in Semicolons(d, i) : e <= k
    BY <1>1, <1>3, FirstEndIs
  <2>2. \A j \in Semicolons(d, i) : j \in Semicolons(g, i)
    BY <1>1, SemicolonsAre DEF Longer
  <2>3. ASSUME NEW k \in Semicolons(g, i) PROVE e <= k
    <3>1. CASE k <= Len(d)
      <4>1. k \in Semicolons(d, i)
        BY <1>1, <2>3, <3>1, SemicolonsAre DEF Longer
      <4> QED BY <2>1, <4>1
    <3>2. CASE ~(k <= Len(d))
      <4>1. e <= Len(d) /\ e \in Nat /\ k \in Nat
        BY <1>1, <2>1, <2>3, SemicolonsAre
      <4> QED BY <1>1, <3>2, <4>1
    <3> QED BY <3>1, <3>2
  <2> HIDE DEF e
  <2>4. e = FirstEnd(g, i) /\ Semicolons(g, i) # {}
    BY <1>1, <2>1, <2>2, <2>3, FirstEndIs
  <2>5. e \in i..Len(d)
    BY <1>1, <2>1, SemicolonsAre
  <2>6. e = i + 2 => d[i + 1] = g[i + 1] /\ 3 <= Len(d) - i + 1
    BY <1>1, <2>5 DEF Longer
  <2> QED BY <1>3, <2>4, <2>6, DecodeIs DEF e, Decoded
<1> QED BY <1>2, <1>3

LEMMA DecodeAlike ==
    ASSUME NEW d \in Seq(Atoms), NEW g \in Seq(Atoms), NEW i, NEW k, Alike(d, i, g, k),
           NEW p, NEW field
    PROVE  Decode(p, d, i, field) = Decode(p, g, k, field)
<1>1. /\ Len(d) \in Nat /\ Len(g) \in Nat /\ i \in Nat /\ k \in Nat /\ i <= Len(d) /\ Len(d) - i = Len(g) - k
  BY DEF Alike
<1>2. \A j \in Semicolons(d, i) : j - i + k \in Semicolons(g, k)
  <2> SUFFICES ASSUME NEW j \in Semicolons(d, i) PROVE j - i + k \in Semicolons(g, k)
    OBVIOUS
  <2>1. j \in i..Len(d) /\ d[j] = EntityEnd /\ j - i \in 0..(Len(d) - i) /\ i + (j - i) = j /\ k + (j - i) = j - i + k
    BY <1>1, SemicolonsAre
  <2>2. d[i + (j - i)] = g[k + (j - i)]
    BY <2>1 DEF Alike
  <2>3. j - i + k \in k..Len(g)
    BY <1>1, <2>1
  <2> QED BY <1>1, <2>1, <2>2, <2>3, SemicolonsAre
<1>3. \A j \in Semicolons(g, k) : j - k + i \in Semicolons(d, i)
  <2> SUFFICES ASSUME NEW j \in Semicolons(g, k) PROVE j - k + i \in Semicolons(d, i)
    OBVIOUS
  <2>1. j \in k..Len(g) /\ g[j] = EntityEnd /\ j - k \in 0..(Len(d) - i) /\ k + (j - k) = j /\ i + (j - k) = j - k + i
    BY <1>1, SemicolonsAre
  <2>2. d[i + (j - k)] = g[k + (j - k)]
    BY <2>1 DEF Alike
  <2>3. j - k + i \in i..Len(d)
    BY <1>1, <2>1
  <2> QED BY <1>1, <2>1, <2>2, <2>3, SemicolonsAre
<1>4. CASE Semicolons(d, i) = {}
  <2>1. Semicolons(g, k) = {}
    BY <1>3, <1>4
  <2>2. Decode(p, d, i, field) = Wait(p, d, i) /\ Decode(p, g, k, field) = Wait(p, g, k)
    BY <1>4, <2>1, DecodeIs
  <2>3. Wait(p, d, i) = Wait(p, g, k)
    BY WaitAlike
  <2> QED BY <2>2, <2>3
<1>5. CASE Semicolons(d, i) # {}
  <2> DEFINE e == FirstEnd(d, i)
  <2>1. e \in Semicolons(d, i) /\ \A j \in Semicolons(d, i) : e <= j
    BY <1>1, <1>5, FirstEndIs
  <2> HIDE DEF e
  <2>2. e - i + k \in Semicolons(g, k)
    BY <1>2, <2>1
  <2>3. ASSUME NEW j \in Semicolons(g, k) PROVE e - i + k <= j
    <3>1. e <= j - k + i /\ e \in Int /\ j \in Int
      BY <1>1, <1>3, <2>1, <2>3, SemicolonsAre
    <3> QED BY <1>1, <3>1
  <2>4. FirstEnd(g, k) = e - i + k
    BY <1>1, <2>2, <2>3, FirstEndIs
  <2>5. e \in i..Len(d)
    BY <1>1, <2>1, SemicolonsAre
  <2>6. (e = i + 2) <=> (e - i + k = k + 2)
    BY <1>1, <2>5
  <2>7. e = i + 2 => d[i + 1] = g[k + 1]
    <3>1. e = i + 2 => 1 \in 0..(Len(d) - i)
      BY <1>1, <2>5
    <3> QED BY <3>1 DEF Alike
  <2> QED BY <1>5, <2>2, <2>4, <2>6, <2>7, DecodeIs DEF e
<1> QED BY <1>4, <1>5

LEMMA EntityChars == \A e \in DOMAIN Entities : Entities[e] \in Chars
BY DEF Chars

\* At place i of d a step reads on, whatever more there is, or waits for more,
\* and will begin again there.
StepsOn(p, d, g, i) ==
    /\ Step(p, g, i) = Step(p, d, i)
    /\ Reading(Step(p, d, i).parser)
    /\ Step(p, d, i).used \in 1..(Len(d) - i + 1)

Suspends(p, d, g, i) ==
    \E q \in {p, [p EXCEPT !.tag = <<>>]} :
        Step(p, d, i) = Wait(q, d, i) /\ Step(q, g, i) = Step(p, g, i)

LEMMA StepOnPlainly ==
    ASSUME NEW p, NEW d, Len(d) \in Nat, NEW i \in 1..Len(d), NEW s, Plainly(s), Step(p, d, i) = s,
           NEW g, Step(p, g, i) = s
    PROVE  StepsOn(p, d, g, i)
<1>1. 1 \in 1..(Len(d) - i + 1)
  OBVIOUS
<1>2. PICK q : Reading(q) /\ s = One(q)
  BY DEF Plainly
<1> QED BY <1>1, <1>2 DEF StepsOn, One, Uses

LEMMA StepScans ==
    ASSUME NEW d \in Seq(Atoms), NEW g \in Seq(Atoms), Longer(d, g), NEW i \in 1..Len(d),
           NEW p, NEW found, Reading(found), NEW notFound, Reading(notFound), NEW needle, Len(needle) \in Nat \ {0},
           Step(p, d, i) = Scan(p, d, i, needle, found, notFound), Step(p, g, i) = Scan(p, g, i, needle, found, notFound)
    PROVE  StepsOn(p, d, g, i) \/ Suspends(p, d, g, i)
<1>1. CASE Scan(p, d, i, needle, found, notFound) = Wait(p, d, i)
  BY <1>1 DEF Suspends
<1>2. CASE Scan(p, d, i, needle, found, notFound) = One(notFound) /\ Scan(p, g, i, needle, found, notFound) = One(notFound)
  <2>1. Plainly(One(notFound)) /\ Len(d) \in Nat
    BY OnePlainly
  <2> QED BY <1>2, <2>1, StepOnPlainly
<1>3. CASE /\ Scan(p, d, i, needle, found, notFound) = Uses(found, Len(needle)) /\ Len(needle) <= Len(d) - i + 1
           /\ Scan(p, g, i, needle, found, notFound) = Uses(found, Len(needle))
  <2>1. Len(needle) \in 1..(Len(d) - i + 1)
    BY <1>3
  <2> QED BY <1>3, <2>1 DEF StepsOn, Uses
<1> QED BY <1>1, <1>2, <1>3, ScanLonger

LEMMA StepDecodes ==
    ASSUME NEW d \in Seq(Atoms), NEW g \in Seq(Atoms), Longer(d, g), NEW i \in 1..Len(d),
           NEW p, NEW q, Working(q), Reading(q), q \in {p, [p EXCEPT !.tag = <<>>]}, NEW field \in Fields,
           Step(p, d, i) = Decode(q, d, i, field), Step(p, g, i) = Decode(q, g, i, field),
           Step(q, g, i) = Step(p, g, i)
    PROVE  StepsOn(p, d, g, i) \/ Suspends(p, d, g, i)
<1>1. CASE Decode(q, d, i, field) = Wait(q, d, i)
  BY <1>1 DEF Suspends
<1>2. CASE Decode(q, d, i, field) = One(Fail(q)) /\ Decode(q, g, i, field) = One(Fail(q))
  <2>1. Plainly(One(Fail(q))) /\ Len(d) \in Nat
    BY OnePlainly, CleanupReading
  <2> QED BY <1>2, <2>1, StepOnPlainly
<1>3. CASE /\ d[i + 1] \in DOMAIN Entities /\ 3 <= Len(d) - i + 1
           /\ Decode(q, d, i, field) = Uses([q EXCEPT ![field] = Append(@, Entities[d[i + 1]])], 3)
           /\ Decode(q, g, i, field) = Decode(q, d, i, field)
  <2>1. Reading([q EXCEPT ![field] = Append(@, Entities[d[i + 1]])])
    BY <1>3, EntityChars, FieldReading
  <2>2. 3 \in 1..(Len(d) - i + 1)
    BY <1>3
  <2> QED BY <1>3, <2>1, <2>2 DEF StepsOn, Uses
<1>4. Decoded(q, d, g, i, field)
  BY DecodeLonger
<1> QED BY <1>1, <1>2, <1>3, <1>4 DEF Decoded

LEMMA StepLonger ==
    ASSUME NEW d \in Seq(Atoms), NEW g \in Seq(Atoms), Longer(d, g), NEW i \in 1..Len(d),
           NEW p, Reading(p)
    PROVE  StepsOn(p, d, g, i) \/ Suspends(p, d, g, i)
<1> DEFINE c == d[i]
<1>1. Len(d) \in Nat /\ g[i] = c /\ c \in Atoms /\ c \in Chars
  BY ElementOfSeq DEF Longer, Chars
<1>2. p.state \in States
  BY ReadingFields
<1>a. p.state \notin {"Initial", "InterTag"} => Working(p)
  BY <1>2 DEF Working, Within
<1> HIDE DEF c
<1>3. CASE p.state = "TagOpening"
  <2>1. CASE c # "!"
    <3>1. Step(p, d, i) = TagOpeningStep(p, d, i, c) /\ Step(p, g, i) = TagOpeningStep(p, g, i, c)
      BY <1>1, <1>3 DEF Step, c
    <3>2. TagOpeningStep(p, d, i, c) = TagOpeningStep(p, g, i, c)
      BY <2>1 DEF TagOpeningStep
    <3>3. Plainly(TagOpeningStep(p, d, i, c))
      <4>1. Working(Go(p, "TagNameCollect")) /\ Reading(Go(p, "TagClosingSlash")) /\ Reading(Fail(p))
        BY GoReading, CleanupReading, StateNames
      <4>2. Reading([Go(p, "TagNameCollect") EXCEPT !.preamble = 1]) /\ "tag" \in Fields
        BY <4>1, ModesReading, StateNames
      <4> QED BY <1>1, <2>1, <4>1, <4>2, OnePlainly, AddsPlainly DEF TagOpeningStep
    <3> QED BY <1>1, <3>1, <3>2, <3>3, StepOnPlainly
  <2>2. CASE c = "!"
    <3> DEFINE needle == <<"!", "[CDATA[">>
               found == Go(p, "TagCDATASection")
               notFound == Fail(p)
    <3>1. /\ Step(p, d, i) = Scan(p, d, i, needle, found, notFound)
          /\ Step(p, g, i) = Scan(p, g, i, needle, found, notFound)
      BY <1>1, <1>3, <2>2 DEF Step, c, TagOpeningStep, Whitespace
    <3>2. Reading(found) /\ Reading(notFound) /\ Len(needle) \in Nat \ {0}
      BY GoReading, CleanupReading, StateNames
    <3> HIDE DEF needle, found, notFound
    <3> QED BY <3>1, <3>2, StepScans
  <2> QED BY <2>1, <2>2
<1>4. CASE p.state = "TagCDATASection"
  <2>1. CASE c # "]"
    <3>1. Step(p, d, i) = Adds(p, "cdata", c) /\ Step(p, g, i) = Adds(p, "cdata", c)
      BY <1>1, <1>4, <2>1 DEF Step, c, TagCDATASectionStep
    <3> QED BY <1>1, <1>4, <1>a, <3>1, AddsPlainly, StateNames, StepOnPlainly
  <2>2. CASE c = "]"
    <3> DEFINE q == [p EXCEPT !.cdata = Append(@, c)]
    <3> DEFINE needle == <<"]", "]", ">">>
               found == Go(p, "TagInside")
    <3>1. /\ Step(p, d, i) = Scan(p, d, i, needle, found, q)
          /\ Step(p, g, i) = Scan(p, g, i, needle, found, q)
      BY <1>1, <1>4, <2>2 DEF Step, c, TagCDATASectionStep
    <3>2. Reading(found) /\ Reading(q) /\ Len(needle) \in Nat \ {0}
      BY <1>1, <1>4, <1>a, GoReading, FieldReading, StateNames
    <3> HIDE DEF q, needle, found
    <3> QED BY <3>1, <3>2, StepScans
  <2> QED BY <2>1, <2>2
<1>5. CASE p.state = "TagInside"
  <2> DEFINE q == [p EXCEPT !.tag = <<>>]
  <2>0. Reading(q) /\ q.state = "TagInside" /\ [q EXCEPT !.tag = <<>>] = q
    BY <1>5, ReadingFields DEF Parsers
  <2>w. Working(q)
    BY <2>0, StateNames DEF Working
  <2>1. CASE c # "&"
    <3>1. /\ Step(p, d, i) \in {One(Go(AddCData(q), "TagOpening")), Adds(q, "cdata", c)}
          /\ Step(p, g, i) = Step(p, d, i)
      BY <1>1, <1>5, <2>1 DEF Step, c, TagInsideStep
    <3> HIDE DEF q
    <3>2. Plainly(One(Go(AddCData(q), "TagOpening"))) /\ Plainly(Adds(q, "cdata", c))
      BY <1>1, <2>0, <2>w, AddCDataReading, GoReading, OnePlainly, AddsPlainly, StateNames
    <3> QED BY <1>1, <3>1, <3>2, StepOnPlainly
  <2>2. CASE c = "&"
    <3>1. /\ Step(p, d, i) = Decode(q, d, i, "cdata") /\ Step(p, g, i) = Decode(q, g, i, "cdata")
      BY <1>1, <1>5, <2>2 DEF Step, c, TagInsideStep
    <3>2. Step(q, g, i) = Decode(q, g, i, "cdata")
      <4> HIDE DEF q
      <4>1. Step(q, g, i) = Decode([q EXCEPT !.tag = <<>>], g, i, "cdata")
        BY <1>1, <2>0, <2>2 DEF Step, TagInsideStep
      <4> QED BY <2>0, <4>1
    <3>3. q \in {p, [p EXCEPT !.tag = <<>>]} /\ "cdata" \in Fields
      BY StateNames
    <3> HIDE DEF q
    <3> QED BY <2>0, <2>w, <3>1, <3>2, <3>3, StepDecodes
  <2> QED BY <2>1, <2>2
<1>6. CASE p.state = "TagAttributeValue"
  <2>1. CASE c # "&"
    <3>1. /\ Step(p, d, i) \in {One(Fail(p)), Adds(p, "value", c),
                               One([Go(AddAttribute(p), "TagNameAlmostComplete") EXCEPT !.quote = FALSE])}
          /\ Step(p, g, i) = Step(p, d, i)
      BY <1>1, <1>6, <2>1 DEF Step, c, TagAttributeValueStep
    <3>2. /\ Plainly(One(Fail(p))) /\ Plainly(Adds(p, "value", c))
          /\ Plainly(One([Go(AddAttribute(p), "TagNameAlmostComplete") EXCEPT !.quote = FALSE]))
      BY <1>1, <1>6, <1>a, AddAttributeReading, GoReading, CleanupReading, ModesReading, OnePlainly, AddsPlainly, StateNames
    <3> QED BY <1>1, <3>1, <3>2, StepOnPlainly
  <2>2. CASE c = "&"
    <3>1. /\ Step(p, d, i) = Decode(p, d, i, "value") /\ Step(p, g, i) = Decode(p, g, i, "value")
      BY <1>1, <1>6, <2>2 DEF Step, c, TagAttributeValueStep
    <3>2. p \in {p, [p EXCEPT !.tag = <<>>]} /\ "value" \in Fields
      BY StateNames
    <3> QED BY <1>6, <1>a, <3>1, <3>2, StepDecodes
  <2> QED BY <2>1, <2>2
<1>7. CASE p.state \notin {"TagOpening", "TagCDATASection", "TagInside", "TagAttributeValue"}
  <2>1. Step(p, g, i) = Step(p, d, i)
    BY <1>1, <1>2, <1>7 DEF Step, c, States
  <2>2. Plainly(Step(p, d, i))
    BY <1>1, <1>2, <1>a, <1>7, InitialPlainly, InterTagPlainly, TagNameCollectPlainly, TagOpeningSlashPlainly,
       TagClosingSlashPlainly, TagClosingPlainly, TagNameCompletePlainly, TagAttributePlainly,
       TagAttributeCompletePlainly, TagAttributeEqualPlainly, TagNameAlmostCompletePlainly DEF Step, States, c
  <2> QED BY <1>1, <2>1, <2>2, StepOnPlainly
<1> QED BY <1>3, <1>4, <1>5, <1>6, <1>7

LEMMA StepAlike ==
    ASSUME NEW d \in Seq(Atoms), NEW g \in Seq(Atoms), NEW i, NEW k, Alike(d, i, g, k),
           NEW p, Reading(p)
    PROVE  Step(p, d, i) = Step(p, g, k)
<1>1. d[i] = g[k]
  <2>1. 0 \in 0..(Len(d) - i) /\ i + 0 = i /\ k + 0 = k
    BY DEF Alike
  <2> QED BY <2>1 DEF Alike
<1>2. p.state \in States
  BY ReadingFields
<1>3. \A q, field : Decode(q, d, i, field) = Decode(q, g, k, field)
  BY DecodeAlike
<1>4. \A q, found, notFound : Scan(q, d, i, <<"!", "[CDATA[">>, found, notFound) = Scan(q, g, k, <<"!", "[CDATA[">>, found, notFound)
  <2> DEFINE needle == <<"!", "[CDATA[">>
  <2>1. Len(needle) \in Nat \ {0}
    OBVIOUS
  <2> HIDE DEF needle
  <2>2. \A q, found, notFound : Scan(q, d, i, needle, found, notFound) = Scan(q, g, k, needle, found, notFound)
    BY <2>1, ScanAlike
  <2> QED BY <2>2 DEF needle
<1>5. \A q, found, notFound : Scan(q, d, i, <<"]", "]", ">">>, found, notFound) = Scan(q, g, k, <<"]", "]", ">">>, found, notFound)
  <2> DEFINE needle == <<"]", "]", ">">>
  <2>1. Len(needle) \in Nat \ {0}
    OBVIOUS
  <2> HIDE DEF needle
  <2>2. \A q, found, notFound : Scan(q, d, i, needle, found, notFound) = Scan(q, g, k, needle, found, notFound)
    BY <2>1, ScanAlike
  <2> QED BY <2>2 DEF needle
<1>6. /\ TagOpeningStep(p, d, i, d[i]) = TagOpeningStep(p, g, k, d[i])
      /\ TagCDATASectionStep(p, d, i, d[i]) = TagCDATASectionStep(p, g, k, d[i])
      /\ TagInsideStep(p, d, i, d[i]) = TagInsideStep(p, g, k, d[i])
      /\ TagAttributeValueStep(p, d, i, d[i]) = TagAttributeValueStep(p, g, k, d[i])
  BY <1>3, <1>4, <1>5 DEF TagOpeningStep, TagCDATASectionStep, TagInsideStep, TagAttributeValueStep
<1> QED BY <1>1, <1>2, <1>6 DEF Step, States

-----------------------------------------------------------------------------
(* The loop over the data.                                                 *)

Trace(a, p, d) ==
    /\ a[0] = Uses(p, 0)
    /\ \A n \in 1..Len(d) : a[n] = Further(a[n - 1], d)

TraceTo(f, p, d, k) == f = [n \in 0..k |-> IF n = 0 THEN Uses(p, 0) ELSE Further(f[n - 1], d)]

LEMMA TraceExists ==
    ASSUME NEW p, NEW d, NEW n \in Nat
    PROVE  \E f : TraceTo(f, p, d, n)
<1> DEFINE P == {k \in Nat : \E f : TraceTo(f, p, d, k)}
<1>1. 0 \in P
  <2> DEFINE f == [m \in 0..0 |-> Uses(p, 0)]
  <2>1. TraceTo(f, p, d, 0)
    BY DEF TraceTo
  <2> QED BY <2>1
<1>2. ASSUME NEW k \in 1..n, k - 1 \in P PROVE k \in P
  <2>1. PICK e : TraceTo(e, p, d, k - 1)
    BY <1>2
  <2> DEFINE f == [m \in 0..k |-> IF m = k THEN Further(e[k - 1], d) ELSE e[m]]
  <2>2. /\ \A m \in 0..(k - 1) : m \in 0..k /\ m # k /\ e[m] = IF m = 0 THEN Uses(p, 0) ELSE Further(e[m - 1], d)
        /\ k \in 0..k /\ k # 0 /\ k \in Nat /\ k - 1 \in 0..(k - 1)
    BY <2>1 DEF TraceTo
  <2>3. /\ \A m \in 0..(k - 1) : f[m] = e[m]
        /\ f[k] = Further(e[k - 1], d)
    BY <2>2
  <2>dom. f = [m \in 0..k |-> f[m]]
    OBVIOUS
  <2> HIDE DEF f
  <2>4. ASSUME NEW m \in 0..k PROVE f[m] = IF m = 0 THEN Uses(p, 0) ELSE Further(f[m - 1], d)
    <3>1. CASE m = k
      BY <2>2, <2>3, <3>1
    <3>2. CASE m # k
      <4>1. m \in 0..(k - 1) /\ (m = 0 \/ m - 1 \in 0..(k - 1))
        BY <3>2
      <4> QED BY <2>2, <2>3, <4>1
    <3> QED BY <3>1, <3>2
  <2>5. TraceTo(f, p, d, k)
    BY <2>dom, <2>4 DEF TraceTo
  <2> QED BY <2>2, <2>5
<1> HIDE DEF P
<1>3. n \in 0..n
  OBVIOUS
<1>4. n \in P
  BY <1>1, <1>2, <1>3, Upward
<1> QED BY <1>4 DEF P

LEMMA ScanTrace ==
    ASSUME NEW p, NEW d \in Seq(Atoms)
    PROVE  Trace(ScanSteps(p, d), p, d) /\ Scanned(p, d) = ScanSteps(p, d)[Len(d)].parser
<1> DEFINE f == CHOOSE f : TraceTo(f, p, d, Len(d))
<1>1. ScanSteps(p, d) = f
  BY DEF ScanSteps, TraceTo
<1>2. Len(d) \in Nat
  OBVIOUS
<1>3. TraceTo(f, p, d, Len(d))
  BY <1>2, TraceExists
<1> HIDE DEF f
<1>4. Trace(f, p, d)
  <2>1. \A n \in 0..Len(d) : f[n] = IF n = 0 THEN Uses(p, 0) ELSE Further(f[n - 1], d)
    BY <1>3 DEF TraceTo
  <2>2. 0 \in 0..Len(d) /\ \A n \in 1..Len(d) : n \in 0..Len(d) /\ n # 0
    BY <1>2
  <2> QED BY <2>1, <2>2 DEF Trace
<1> QED BY <1>1, <1>4 DEF Scanned

\* What is so after n steps.
Fine(s, d, n) ==
    /\ s = Uses(s.parser, s.used) /\ s.used \in 0..Len(d) /\ Sound(s.parser)
    /\ s.parser.wait = FALSE => Reading(s.parser)
    /\ Ended(s, d) \/ s.used >= n

LEMMA WaitSound ==
    ASSUME NEW p, Reading(p), NEW d \in Seq(Atoms), NEW i \in 1..Len(d)
    PROVE  /\ Sound(Wait(p, d, i).parser) /\ Wait(p, d, i).parser.wait = TRUE /\ Wait(p, d, i).used = 1
           /\ Wait(p, d, i).parser.failed = p.failed
           /\ Wait(p, d, i).parser.backBuffer = SubSeq(d, i, Len(d))
           /\ p.failed = FALSE => Resumed(Wait(p, d, i).parser) = p
<1> DEFINE b == SubSeq(d, i, Len(d))
           w == [p EXCEPT !.backBuffer = b, !.wait = TRUE]
<1>1. b \in Seq(Atoms) /\ p \in Parsers
  BY ElementOfSeq, SubSeqProperties DEF Reading, Sound
<1>2. Wait(p, d, i) = One(w)
  BY DEF Wait
<1> HIDE DEF b
<1>3. w \in Parsers
  BY <1>1 DEF Parsers
<1>4. /\ w.wait = TRUE /\ w.backBuffer = b /\ w.failed = p.failed /\ w.root = p.root /\ w.open = p.open
  BY <1>1 DEF Parsers
<1>5. p.failed = FALSE => Resumed(w) = p
  <2> SUFFICES ASSUME p.failed = FALSE PROVE Resumed(w) = p
    OBVIOUS
  <2>1. p.backBuffer = <<>> /\ p.wait = FALSE
    BY DEF Reading
  <2>2. Resumed(w) = [p EXCEPT !.backBuffer = p.backBuffer, !.wait = p.wait, !.failed = p.failed]
    BY <1>1, <2>1 DEF Resumed, Parsers
  <2>3. [p EXCEPT !.backBuffer = p.backBuffer, !.wait = p.wait, !.failed = p.failed] = p
    BY <1>1 DEF Parsers
  <2> QED BY <2>2, <2>3
<1>6. Sound(w)
  <2>1. Tidy(p) = Tidy(w)
    BY <1>1 DEF Tidy, Clean, Parsers
  <2> HIDE DEF w
  <2> QED BY <1>3, <1>4, <2>1 DEF Reading, Sound
<1> HIDE DEF w
<1> QED BY <1>2, <1>4, <1>5, <1>6 DEF One, Uses, b

LEMMA WaitResumed ==
    ASSUME NEW p, Reading(p), p.failed = FALSE, NEW d \in Seq(Atoms), NEW i \in 1..Len(d)
    PROVE  Wait(p, d, i).parser.backBuffer = Cut(d, i, Len(d)) /\ Resumed(Wait(p, d, i).parser) = p
BY WaitSound DEF Cut

LEMMA StepFine ==
    ASSUME NEW d \in Seq(Atoms), NEW i \in 1..Len(d), NEW p, Reading(p)
    PROVE  /\ Sound(Step(p, d, i).parser) /\ Step(p, d, i).used \in 1..(Len(d) - i + 1)
           /\ Step(p, d, i).parser.wait = FALSE => Reading(Step(p, d, i).parser)
<1>1. Longer(d, d) /\ 1 \in 1..(Len(d) - i + 1)
  BY DEF Longer
<1>2. CASE StepsOn(p, d, d, i)
  BY <1>2 DEF StepsOn, Reading
<1>3. CASE Suspends(p, d, d, i)
  <2>1. PICK q \in {p, [p EXCEPT !.tag = <<>>]} : Step(p, d, i) = Wait(q, d, i)
    BY <1>3 DEF Suspends
  <2>2. Reading(q)
    BY ReadingFields
  <2>3. Sound(Wait(q, d, i).parser) /\ Wait(q, d, i).parser.wait = TRUE /\ Wait(q, d, i).used = 1
    BY <2>2, WaitSound
  <2> QED BY <1>1, <2>1, <2>3
<1> QED BY <1>1, <1>2, <1>3, StepLonger

LEMMA StepUsed ==
    ASSUME NEW d \in Seq(Atoms), NEW i \in 1..Len(d), NEW p, Reading(p)
    PROVE  Step(p, d, i).used \in Nat
<1>1. Step(p, d, i).used \in 1..(Len(d) - i + 1)
  BY StepFine
<1> QED BY <1>1

\* Where the parser goes on.
LEMMA GoesOn ==
    ASSUME NEW d \in Seq(Atoms), NEW n, NEW s, Fine(s, d, n), ~Ended(s, d)
    PROVE  s.used \in Nat /\ s.used < Len(d) /\ s.used + 1 \in 1..Len(d) /\ Reading(s.parser) /\ s.used >= n
<1>1. Len(d) \in Nat /\ s.used \in Nat /\ s.used < Len(d) /\ s.used >= n
  BY DEF Fine, Ended
<1>2. s.parser.wait \in BOOLEAN /\ s.parser.wait # TRUE
  BY DEF Fine, Ended, Sound, Parsers
<1>3. Reading(s.parser)
  BY <1>2 DEF Fine
<1> QED BY <1>1, <1>3

LEMMA FurtherFine ==
    ASSUME NEW d \in Seq(Atoms), NEW n \in Nat, NEW s, Fine(s, d, n)
    PROVE  Fine(Further(s, d), d, n + 1)
<1> DEFINE t == Step(s.parser, d, s.used + 1)
<1>1. CASE Ended(s, d)
  BY <1>1 DEF Further, Fine
<1>2. CASE ~Ended(s, d)
  <2>1. Len(d) \in Nat /\ s.used \in Nat /\ s.used < Len(d) /\ s.used >= n /\ s.used + 1 \in 1..Len(d)
    BY <1>2, GoesOn
  <2>3. Reading(s.parser)
    BY <1>2, GoesOn
  <2>4. Sound(t.parser) /\ t.used \in 1..(Len(d) - (s.used + 1) + 1) /\ (t.parser.wait = FALSE => Reading(t.parser))
    BY <2>1, <2>3, StepFine
  <2>5. Further(s, d) = Uses(t.parser, s.used + t.used)
    BY <1>2 DEF Further
  <2> HIDE DEF t
  <2>6. s.used + t.used \in 0..Len(d) /\ s.used + t.used >= n + 1
    BY <2>1, <2>4, SMTT(30)
  <2> QED BY <2>4, <2>5, <2>6 DEF Fine, Uses
<1> QED BY <1>1, <1>2

LEMMA TraceFine ==
    ASSUME NEW p, Reading(p), NEW d \in Seq(Atoms), NEW a, Trace(a, p, d)
    PROVE  \A n \in 0..Len(d) : Fine(a[n], d, n)
<1> DEFINE P == {n \in 0..Len(d) : Fine(a[n], d, n)}
<1>1. Len(d) \in Nat
  OBVIOUS
<1>2. 0 \in P
  <2>1. a[0] = Uses(p, 0) /\ 0 \in 0..Len(d)
    BY <1>1 DEF Trace
  <2>2. Fine(Uses(p, 0), d, 0)
    BY <1>1 DEF Fine, Uses, Reading
  <2> QED BY <2>1, <2>2
<1>3. ASSUME NEW n \in 1..Len(d), n - 1 \in P PROVE n \in P
  <2>1. n - 1 \in Nat /\ n - 1 + 1 = n /\ Fine(a[n - 1], d, n - 1) /\ a[n] = Further(a[n - 1], d)
    BY <1>3 DEF Trace
  <2>2. Fine(Further(a[n - 1], d), d, n - 1 + 1)
    BY <2>1, FurtherFine
  <2> QED BY <1>1, <2>1, <2>2
<1> HIDE DEF P
<1>4. \A n \in 0..Len(d) : n \in P
  BY <1>1, <1>2, <1>3, Upward
<1> QED BY <1>4 DEF P

\* Whoever has ended does not go on.
LEMMA TraceEnds ==
    ASSUME NEW p, NEW d \in Seq(Atoms), NEW a, Trace(a, p, d), NEW k \in 0..Len(d), Ended(a[k], d)
    PROVE  \A n \in 0..Len(d) : k <= n => a[n] = a[k]
<1> DEFINE P == {n \in 0..Len(d) : k <= n => a[n] = a[k]}
<1>1. Len(d) \in Nat
  OBVIOUS
<1>2. 0 \in P
  BY <1>1
<1>3. ASSUME NEW n \in 1..Len(d), n - 1 \in P PROVE n \in P
  <2>1. a[n] = Further(a[n - 1], d) /\ n \in 0..Len(d)
    BY DEF Trace
  <2>2. k <= n => k = n \/ k <= n - 1
    BY <1>1
  <2>3. k <= n - 1 => a[n] = a[k]
    BY <1>3, <2>1 DEF Further
  <2> QED BY <2>1, <2>2, <2>3
<1> HIDE DEF P
<1>4. \A n \in 0..Len(d) : n \in P
  BY <1>1, <1>2, <1>3, Upward
<1> QED BY <1>4 DEF P

\* Before step k the loop does not end.
RunsTo(a, d, k) == \A n \in 0..Len(d) : n < k => ~Ended(a[n], d)

\* Where the data ends, or the parser fails or waits.
LEMMA TraceStops ==
    ASSUME NEW p, Reading(p), NEW d \in Seq(Atoms), NEW a, Trace(a, p, d)
    PROVE  \E k \in 0..Len(d) : Ended(a[k], d) /\ a[Len(d)] = a[k] /\ RunsTo(a, d, k)
<1> DEFINE T == {n \in 0..Len(d) : Ended(a[n], d)}
<1>1. Len(d) \in Nat /\ Len(d) \in 0..Len(d)
  OBVIOUS
<1>2. Fine(a[Len(d)], d, Len(d))
  BY <1>1, TraceFine
<1>3. Len(d) \in T
  BY <1>1, <1>2 DEF Fine, Ended
<1>4. T \in SUBSET Nat /\ T # {}
  BY <1>3
<1>5. PICK k \in T : \A n \in T : k <= n
  <2> HIDE DEF T
  <2> QED BY <1>4, LeastOf
<1>6. k \in 0..Len(d) /\ Ended(a[k], d)
  OBVIOUS
<1>7. RunsTo(a, d, k)
  BY <1>5, <1>6 DEF RunsTo
<1>8. a[Len(d)] = a[k]
  BY <1>1, <1>6, TraceEnds
<1> QED BY <1>6, <1>7, <1>8

\* With more data the steps are the same, as long as the parser does not wait.
SameTo(b, a, k) == \A n \in 0..k : (n < k \/ a[n].parser.wait = FALSE) => b[n] = a[n]

LEMMA TraceLonger ==
    ASSUME NEW p, Reading(p), NEW d \in Seq(Atoms), NEW g \in Seq(Atoms), Longer(d, g),
           NEW a, Trace(a, p, d), NEW b, Trace(b, p, g),
           NEW k \in 0..Len(d), RunsTo(a, d, k)
    PROVE  SameTo(b, a, k)
<1> DEFINE P == {n \in 0..k : (n < k \/ a[n].parser.wait = FALSE) => b[n] = a[n]}
<1>1. Len(d) \in Nat /\ Len(g) \in Nat /\ Len(d) <= Len(g) /\ k \in Nat /\ k <= Len(d)
  BY DEF Longer
<1>2. 0 \in P
  BY <1>1 DEF Trace
<1>3. ASSUME NEW n \in 1..k, n - 1 \in P PROVE n \in P
  <2> DEFINE u == a[n - 1].used
             q == a[n - 1].parser
  <2>1. n - 1 \in 0..Len(d) /\ n - 1 < k /\ n \in 1..Len(d) /\ n \in 1..Len(g) /\ n \in 0..k
    BY <1>1
  <2>2. ~Ended(a[n - 1], d) /\ b[n - 1] = a[n - 1] /\ Fine(a[n - 1], d, n - 1)
    BY <1>3, <2>1, TraceFine DEF RunsTo
  <2>4. Reading(q) /\ u + 1 \in 1..Len(d) /\ u \in Nat /\ u < Len(d)
    BY <2>2, GoesOn
  <2>5. ~Ended(b[n - 1], g)
    BY <1>1, <2>2, <2>4 DEF Ended
  <2>6. a[n] = Uses(Step(q, d, u + 1).parser, u + Step(q, d, u + 1).used)
    BY <2>1, <2>2 DEF Trace, Further
  <2>7. b[n] = Uses(Step(q, g, u + 1).parser, u + Step(q, g, u + 1).used)
    BY <2>1, <2>2, <2>5 DEF Trace, Further
  <2>8. a[n].parser = Step(q, d, u + 1).parser
    BY <2>6 DEF Uses
  <2> HIDE DEF u, q
  <2>9. CASE StepsOn(q, d, g, u + 1)
    BY <2>1, <2>6, <2>7, <2>9 DEF StepsOn
  <2>10. CASE Suspends(q, d, g, u + 1)
    <3>1. PICK r \in {q, [q EXCEPT !.tag = <<>>]} : Step(q, d, u + 1) = Wait(r, d, u + 1)
      BY <2>10 DEF Suspends
    <3>2. Reading(r)
      BY <2>4, ReadingFields
    <3>a. Wait(r, d, u + 1).parser.wait = TRUE
      BY <2>4, <3>2, WaitSound
    <3>3. a[n].parser.wait = TRUE
      BY <2>8, <3>1, <3>a
    <3>4. n < k => FALSE
      <4>1. n < k => ~Ended(a[n], d)
        BY <2>1 DEF RunsTo
      <4> QED BY <3>3, <4>1 DEF Ended
    <3> QED BY <2>1, <3>3, <3>4
  <2> QED BY <2>4, <2>9, <2>10, StepLonger
<1> HIDE DEF P
<1>4. \A n \in 0..k : n \in P
  BY <1>1, <1>2, <1>3, Upward
<1> QED BY <1>4 DEF P, SameTo

\* The data h is what g holds from place off + 1 on.
Remains(h, g, off) == Len(h) = Len(g) - off /\ \A j \in 1..Len(h) : h[j] = g[off + j]

\* A parser r that begins at place off + 1 of the data g, as one that began at
\* its start, in p, goes on after k steps.
TakesOver(r, h, c, p, g, b, k, off) ==
    /\ g \in Seq(Atoms) /\ Reading(p) /\ Trace(b, p, g)
    /\ h \in Seq(Atoms) /\ Reading(r) /\ r.failed = FALSE /\ Trace(c, r, h)
    /\ k \in Nat /\ off \in Nat /\ k <= off /\ off < Len(g) /\ Remains(h, g, off)
    /\ b[k].used = off /\ ~Ended(b[k], g)
    /\ Step(r, g, off + 1) = Step(b[k].parser, g, off + 1)

\* It ends as that one.
LEMMA TracesMeet ==
    ASSUME NEW r, NEW h, NEW c, NEW p, NEW g, NEW b, NEW k, NEW off, TakesOver(r, h, c, p, g, b, k, off)
    PROVE  c[Len(h)].parser = b[Len(g)].parser
<1>0. /\ g \in Seq(Atoms) /\ Reading(p) /\ Trace(b, p, g)
      /\ h \in Seq(Atoms) /\ Reading(r) /\ r.failed = FALSE /\ Trace(c, r, h)
      /\ k \in Nat /\ off \in Nat /\ k <= off /\ off < Len(g) /\ Remains(h, g, off)
      /\ b[k].used = off /\ ~Ended(b[k], g)
      /\ Step(r, g, off + 1) = Step(b[k].parser, g, off + 1)
  BY DEF TakesOver
<1> USE <1>0
<1> DEFINE Paired(n) == c[n].parser = b[k + n].parser /\ b[k + n].used = off + c[n].used
           P == {n \in 0..Len(h) : n > 0 => Paired(n)}
<1>1. Len(g) \in Nat /\ Len(h) \in Nat /\ Len(h) >= 1 /\ Len(h) = Len(g) - off
  BY DEF Remains
<1>2. \A n \in 1..Len(h) : k + n \in 1..Len(g) /\ k + n - 1 = k + (n - 1)
  BY <1>1
<1>3. ASSUME NEW u \in Nat, u < Len(h) PROVE Alike(h, u + 1, g, off + u + 1)
  <2>1. u + 1 \in 1..Len(h) /\ off + u + 1 \in 1..Len(g) /\ Len(h) - (u + 1) = Len(g) - (off + u + 1)
    BY <1>1, <1>3
  <2>2. ASSUME NEW j \in 0..(Len(h) - (u + 1)) PROVE h[u + 1 + j] = g[off + u + 1 + j]
    <3>1. u + 1 + j \in 1..Len(h) /\ off + (u + 1 + j) = off + u + 1 + j
      BY <1>1, <1>3
    <3> QED BY <3>1 DEF Remains
  <2> QED BY <2>1, <2>2 DEF Alike
<1>4. 0 \in P
  BY <1>1
<1>5. Paired(1)
  <2>1. c[0] = Uses(r, 0) /\ c[1] = Further(c[0], h) /\ b[k + 1] = Further(b[k], g)
    <3>1. 1 \in 1..Len(h) /\ k + 1 - 1 = k
      BY <1>1
    <3> QED BY <1>2, <3>1 DEF Trace
  <2>2. c[0].parser = r /\ c[0].used = 0
    BY <2>1 DEF Uses
  <2>3. ~Ended(c[0], h)
    BY <1>1, <2>2 DEF Ended, Reading
  <2>4. c[1] = Uses(Step(r, h, 1).parser, 0 + Step(r, h, 1).used)
    BY <2>1, <2>2, <2>3 DEF Further
  <2>5. b[k + 1] = Uses(Step(r, g, off + 1).parser, off + Step(r, g, off + 1).used)
    BY <2>1 DEF Further
  <2>6. Step(r, h, 1) = Step(r, g, off + 1)
    <3>1. Alike(h, 0 + 1, g, off + 0 + 1) /\ 0 + 1 = 1 /\ off + 0 + 1 = off + 1
      BY <1>1, <1>3
    <3>2. Alike(h, 1, g, off + 1)
      BY <3>1
    <3> QED BY <3>2, StepAlike
  <2>7. Step(r, h, 1).used \in Nat
    <3>1. 1 \in 1..Len(h)
      BY <1>1
    <3> QED BY <3>1, StepUsed
  <2>8. 0 + Step(r, h, 1).used = Step(r, h, 1).used
    BY <2>7
  <2> QED BY <2>4, <2>5, <2>6, <2>8 DEF Uses
<1>6. ASSUME NEW n \in 1..Len(h), n - 1 \in P PROVE n \in P
  <2>1. CASE n = 1
    BY <1>1, <1>5, <2>1
  <2>2. CASE n # 1
    <3> DEFINE q == c[n - 1].parser
               u == c[n - 1].used
    <3>1. n - 1 \in 0..Len(h) /\ n \in 0..Len(h) /\ Paired(n - 1)
      BY <1>6, <2>2
    <3>2. c[n] = Further(c[n - 1], h) /\ b[k + n] = Further(b[k + (n - 1)], g)
      BY <1>2 DEF Trace
    <3>3. Fine(c[n - 1], h, n - 1)
      BY <3>1, TraceFine
    <3>4. u \in Nat /\ Len(h) \in Nat
      BY <3>3 DEF Fine
    <3>5. Ended(c[n - 1], h) <=> Ended(b[k + (n - 1)], g)
      BY <1>1, <3>1, <3>4, SMTT(30) DEF Ended
    <3>6. CASE Ended(c[n - 1], h)
      BY <3>1, <3>2, <3>5, <3>6 DEF Further
    <3>7. CASE ~Ended(c[n - 1], h)
      <4>2. u < Len(h) /\ u + 1 \in 1..Len(h) /\ Reading(q)
        BY <3>3, <3>7, GoesOn
      <4>3. Step(q, h, u + 1) = Step(q, g, off + u + 1)
        BY <1>3, <3>4, <4>2, StepAlike, SMTT(30)
      <4>4. c[n] = Uses(Step(q, h, u + 1).parser, u + Step(q, h, u + 1).used)
        BY <3>2, <3>7 DEF Further
      <4>5. b[k + n] = Uses(Step(q, g, off + u + 1).parser, off + u + Step(q, g, off + u + 1).used)
        BY <3>1, <3>2, <3>5, <3>7 DEF Further
      <4>6. Step(q, h, u + 1).used \in Nat
        BY <4>2, StepUsed
      <4> HIDE DEF q, u
      <4>7. off + u + Step(q, g, off + u + 1).used = off + (u + Step(q, h, u + 1).used)
        BY <3>4, <4>3, <4>6
      <4> QED BY <3>1, <4>3, <4>4, <4>5, <4>7 DEF Uses
    <3> QED BY <3>6, <3>7
  <2> QED BY <2>1, <2>2
<1> HIDE DEF P
<1>7. \A n \in 0..Len(h) : n \in P
  BY <1>1, <1>4, <1>6, Upward
<1>8. Paired(Len(h))
  <2>1. Len(h) \in 0..Len(h) /\ Len(h) > 0
    BY <1>1
  <2> QED BY <1>7, <2>1 DEF P
<1>9. Ended(b[k + Len(h)], g)
  <2>1. Fine(c[Len(h)], h, Len(h))
    BY <1>1, TraceFine
  <2>2. Ended(c[Len(h)], h) /\ c[Len(h)].used \in Nat
    BY <1>1, <2>1 DEF Fine, Ended
  <2> QED BY <1>1, <1>8, <2>2 DEF Ended
<1>10. b[Len(g)] = b[k + Len(h)]
  <2>1. k + Len(h) \in 0..Len(g) /\ k + Len(h) <= Len(g) /\ Len(g) \in 0..Len(g)
    BY <1>1
  <2> QED BY <1>9, <2>1, TraceEnds
<1> QED BY <1>8, <1>10

-----------------------------------------------------------------------------
(* The parser fed one piece after another.                                 *)

LEMMA ResumedReading ==
    ASSUME NEW p, Sound(p)
    PROVE  Reading(Resumed(p)) /\ Resumed(p).failed = FALSE /\ p.backBuffer \in Seq(Atoms)
<1>1. p \in Parsers /\ <<>> \in Seq(Atoms)
  BY EmptySeq DEF Sound
<1>2. Resumed(p) \in Parsers /\ Tidy(Resumed(p)) = Tidy(p)
  BY <1>1 DEF Resumed, Parsers, Tidy, Clean
<1> QED BY <1>1, <1>2 DEF Resumed, Reading, Sound, Parsers

LEMMA FeedSound ==
    ASSUME NEW p, Sound(p), NEW x \in Seq(Atoms)
    PROVE  Sound(Feed(p, x))
<1> DEFINE d == p.backBuffer \o x
           a == ScanSteps(Resumed(p), d)
<1>1. Reading(Resumed(p)) /\ p.backBuffer \in Seq(Atoms)
  BY ResumedReading
<1>2. d \in Seq(Atoms)
  BY <1>1
<1> HIDE DEF d
<1>3. Trace(a, Resumed(p), d) /\ Scanned(Resumed(p), d) = a[Len(d)].parser
  BY <1>2, ScanTrace
<1> HIDE DEF a
<1>4. Len(d) \in 0..Len(d)
  BY <1>2
<1>5. Fine(a[Len(d)], d, Len(d))
  BY <1>1, <1>2, <1>3, <1>4, TraceFine
<1> QED BY <1>3, <1>5 DEF Feed, Fine, d

\* The pieces of what is read do not matter: a parser that read one piece and
\* then another is as if both had been one.
LEMMA FeedTwice ==
    ASSUME NEW p, Sound(p), NEW x \in Seq(Atoms), NEW y \in Seq(Atoms), y # <<>>,
           Feed(p, x).failed = FALSE
    PROVE  Feed(Feed(p, x), y) = Feed(p, x \o y)
<1> DEFINE p0 == Resumed(p)
           d == p.backBuffer \o x
           g == d \o y
           a == ScanSteps(p0, d)
           b == ScanSteps(p0, g)
           r == Feed(p, x)
           h == r.backBuffer \o y
           r0 == Resumed(r)
           c == ScanSteps(r0, h)
<1>1. Reading(p0) /\ p0.failed = FALSE /\ p.backBuffer \in Seq(Atoms)
  BY ResumedReading
<1>2. d \in Seq(Atoms) /\ g \in Seq(Atoms) /\ Len(g) = Len(d) + Len(y) /\ Len(d) \in Nat /\ Len(y) \in Nat /\ Len(y) > 0
      /\ (\A j \in 1..Len(d) : g[j] = d[j]) /\ (\A j \in 1..Len(y) : g[Len(d) + j] = y[j])
  <2>1. d \in Seq(Atoms)
    BY <1>1
  <2> HIDE DEF d
  <2>2. Len(d) \in Nat /\ Len(y) \in Nat /\ Len(y) > 0
    BY <2>1, EmptySeq
  <2>3. /\ g \in Seq(Atoms) /\ Len(g) = Len(d) + Len(y)
        /\ \A j \in 1..(Len(d) + Len(y)) : g[j] = IF j <= Len(d) THEN d[j] ELSE y[j - Len(d)]
    BY <2>1, ConcatProperties
  <2> HIDE DEF g
  <2>4. \A j \in 1..Len(d) : g[j] = d[j]
    BY <2>2, <2>3
  <2>5. ASSUME NEW j \in 1..Len(y) PROVE g[Len(d) + j] = y[j]
    <3>1. Len(d) + j \in 1..(Len(d) + Len(y)) /\ ~(Len(d) + j <= Len(d)) /\ Len(d) + j - Len(d) = j
      BY <2>2
    <3> QED BY <2>3, <3>1
  <2> QED BY <2>1, <2>2, <2>3, <2>4, <2>5
<1>3. g = p.backBuffer \o (x \o y)
  <2>1. \A u \in Seq(Atoms) : (u \o x) \o y = u \o (x \o y)
    BY ConcatAssociative
  <2> QED BY <1>1, <2>1
<1>4. Longer(d, g)
  BY <1>2 DEF Longer
<1>5. Feed(p, x \o y) = Scanned(p0, g) /\ Feed(r, y) = Scanned(r0, h) /\ r = Scanned(p0, d)
  BY <1>3 DEF Feed
<1>6. Sound(r)
  BY FeedSound
<1> HIDE DEF d, g, p0, r
<1>7. Trace(a, p0, d) /\ r = a[Len(d)].parser
  BY <1>2, <1>5, ScanTrace
<1>8. Trace(b, p0, g) /\ Scanned(p0, g) = b[Len(g)].parser
  BY <1>2, ScanTrace
<1> HIDE DEF a, b
<1>9. Reading(r0) /\ r0.failed = FALSE /\ r.backBuffer \in Seq(Atoms)
  BY <1>6, ResumedReading
<1>10. h \in Seq(Atoms) /\ Len(h) = Len(r.backBuffer) + Len(y) /\ Len(r.backBuffer) \in Nat
       /\ \A j \in 1..Len(h) : h[j] = IF j <= Len(r.backBuffer) THEN r.backBuffer[j] ELSE y[j - Len(r.backBuffer)]
  BY <1>9, ConcatProperties
<1> HIDE DEF h, r0
<1>11. Trace(c, r0, h) /\ Scanned(r0, h) = c[Len(h)].parser
  BY <1>10, ScanTrace
<1> HIDE DEF c
<1>12. PICK k \in 0..Len(d) : Ended(a[k], d) /\ a[Len(d)] = a[k] /\ RunsTo(a, d, k)
  BY <1>1, <1>2, <1>7, TraceStops
<1>13. Fine(a[k], d, k) /\ r = a[k].parser /\ r.wait \in BOOLEAN
  <2>1. Fine(a[k], d, k) /\ r = a[k].parser
    BY <1>1, <1>2, <1>7, <1>12, TraceFine
  <2> QED BY <1>6, <2>1 DEF Sound, Parsers
<1>14. SameTo(b, a, k)
  BY <1>1, <1>2, <1>4, <1>7, <1>8, <1>12, TraceLonger
<1>15. CASE r.wait = FALSE
  <2>1. Reading(r) /\ r.failed = FALSE
    BY <1>13, <1>15 DEF Fine, r
  <2>2. a[k].used = Len(d)
    BY <1>2, <1>12, <1>13, <1>15, <2>1 DEF Ended, Fine
  <2>3. b[k] = a[k]
    <3>1. k \in 0..k
      BY <1>2
    <3> QED BY <1>13, <1>14, <1>15, <3>1 DEF SameTo
  <2>4. ~Ended(b[k], g)
    BY <1>2, <1>13, <1>15, <2>1, <2>2, <2>3 DEF Ended
  <2>5. r0 = r /\ r.backBuffer = <<>>
    <3>1. r.backBuffer = <<>> /\ r \in Parsers
      BY <2>1 DEF Reading, Sound
    <3>2. [r EXCEPT !.backBuffer = r.backBuffer, !.wait = r.wait, !.failed = r.failed] = r
      BY <3>1 DEF Parsers
    <3> QED BY <1>15, <2>1, <3>1, <3>2 DEF r0, Resumed
  <2>6. Remains(h, g, Len(d))
    <3>1. Len(r.backBuffer) = 0
      BY <2>5
    <3>2. Len(h) = Len(y) /\ \A j \in 1..Len(y) : h[j] = y[j]
      BY <1>2, <1>10, <3>1
    <3> QED BY <1>2, <3>2 DEF Remains
  <2>7. Step(r0, g, Len(d) + 1) = Step(b[k].parser, g, Len(d) + 1)
    BY <1>13, <2>3, <2>5
  <2>8. k \in Nat /\ Len(d) \in Nat /\ k <= Len(d) /\ Len(d) < Len(g) /\ b[k].used = Len(d)
    BY <1>2, <2>2, <2>3
  <2>9. TakesOver(r0, h, c, p0, g, b, k, Len(d))
    BY <1>1, <1>2, <1>8, <1>9, <1>10, <1>11, <2>4, <2>6, <2>7, <2>8 DEF TakesOver
  <2>10. c[Len(h)].parser = b[Len(g)].parser
    BY <2>9, TracesMeet
  <2> QED BY <1>5, <1>8, <1>11, <2>10 DEF r
<1>16. CASE r.wait = TRUE
  <2>1. k # 0
    BY <1>1, <1>7, <1>13, <1>16 DEF Trace, Uses, Reading
  <2>2. PICK m \in Nat : k = m + 1
    <3>1. k - 1 \in Nat /\ k = (k - 1) + 1
      BY <1>2, <2>1
    <3> QED BY <3>1
  <2>3. m \in 0..k /\ m \in 0..Len(d) /\ m < k /\ k \in 1..Len(d) /\ k - 1 = m
    BY <1>2, <2>2
  <2>4. ~Ended(a[m], d) /\ b[m] = a[m] /\ Fine(a[m], d, m) /\ a[k] = Further(a[m], d)
    <3>1. Fine(a[m], d, m)
      BY <1>1, <1>2, <1>7, <2>3, TraceFine
    <3>2. ~Ended(a[m], d) /\ b[m] = a[m]
      BY <1>12, <1>14, <2>3 DEF RunsTo, SameTo
    <3>3. a[k] = Further(a[m], d)
      BY <1>7, <2>3 DEF Trace
    <3> QED BY <3>1, <3>2, <3>3
  <2> DEFINE off == a[m].used
             i == off + 1
             s == a[m].parser
  <2>5. Reading(s) /\ i \in 1..Len(d) /\ off \in Nat /\ off >= m /\ off < Len(d)
    BY <1>2, <2>4, GoesOn
  <2>6. r = Step(s, d, i).parser
    BY <1>13, <2>4 DEF Further, Uses
  <2>7. s.failed = FALSE
    BY <2>4, <2>5 DEF Ended, Reading, Sound, Parsers
  <2>8. b[m].used = off /\ b[m].parser = s /\ ~Ended(b[m], g)
    BY <1>2, <2>4, <2>5, SMTT(30) DEF Ended
  <2>9. off + 1 = i /\ i - 1 = off
    BY <2>5
  <2> HIDE DEF s, i, off
  <2>10. ~StepsOn(s, d, g, i)
    BY <1>16, <2>6 DEF StepsOn, Reading
  <2>11. PICK q \in {s, [s EXCEPT !.tag = <<>>]} : Step(s, d, i) = Wait(q, d, i) /\ Step(q, g, i) = Step(s, g, i)
    BY <1>2, <1>4, <2>5, <2>10, StepLonger DEF Suspends
  <2>12. Reading(q) /\ q.failed = FALSE
    <3>1. s \in Parsers
      BY <2>5 DEF Reading, Sound
    <3>2. Reading([s EXCEPT !.tag = <<>>])
      BY <2>5, ReadingFields
    <3>3. [s EXCEPT !.tag = <<>>].failed = FALSE
      BY <2>7, <3>1 DEF Parsers
    <3> QED BY <2>5, <2>7, <2>11, <3>2, <3>3
  <2>13. r0 = q /\ r.backBuffer = Cut(d, i, Len(d))
    <3>1. Wait(q, d, i).parser.backBuffer = Cut(d, i, Len(d)) /\ Resumed(Wait(q, d, i).parser) = q
      BY <1>2, <2>5, <2>12, WaitResumed
    <3> QED BY <2>6, <2>11, <3>1 DEF r0
  <2>14. Len(r.backBuffer) = Len(d) - off /\ \A j \in 1..(Len(d) - off) : r.backBuffer[j] = d[off + j]
    <3>1. \A j \in i..Len(d) : d[j] \in Atoms
      BY <1>2, <2>5, ElementOfSeq
    <3>2. i <= Len(d) /\ i \in Int /\ Len(d) \in Int
      BY <1>2, <2>5
    <3>3. /\ Len(SubSeq(d, i, Len(d))) = IF i <= Len(d) THEN Len(d) - i + 1 ELSE 0
          /\ \A j \in 1..(Len(d) - i + 1) : SubSeq(d, i, Len(d))[j] = d[i + j - 1]
      BY <3>1, <3>2, SubSeqProperties
    <3>4. Len(d) - i + 1 = Len(d) - off
      BY <1>2, <2>5, <2>9
    <3>5. ASSUME NEW j \in 1..(Len(d) - off) PROVE i + j - 1 = off + j
      <4>1. off \in Int /\ j \in Int /\ i = off + 1
        BY <2>5, <2>9
      <4>2. (off + 1) + j - 1 = off + j
        BY <4>1
      <4> QED BY <4>1, <4>2
    <3> QED BY <2>13, <3>2, <3>3, <3>4, <3>5 DEF Cut
  <2>15. off < Len(g) /\ m <= off /\ Len(h) = Len(g) - off
    BY <1>2, <1>10, <2>5, <2>14, SMTT(30)
  <2>16. ASSUME NEW j \in 1..Len(h) PROVE h[j] = g[off + j]
    <3>1. CASE j <= Len(d) - off
      <4>1. j \in 1..(Len(d) - off) /\ off + j \in 1..Len(d)
        BY <1>2, <2>5, <3>1
      <4>2. h[j] = d[off + j]
        BY <1>10, <2>14, <3>1, <4>1
      <4> QED BY <1>2, <4>1, <4>2
    <3>2. CASE ~(j <= Len(d) - off)
      <4>1. PICK l \in 1..Len(y) : l = j - (Len(d) - off)
        <5>1. j \in Int /\ off \in Int /\ Len(d) \in Int /\ Len(y) \in Int /\ 1 <= j /\ j <= Len(d) - off + Len(y)
          BY <1>2, <1>10, <2>5, <2>14
        <5>2. ~(j <= Len(d) - off)
          BY <3>2
        <5>3. j - (Len(d) - off) \in 1..Len(y)
          BY <5>1, <5>2
        <5> QED BY <5>3
      <4>2. h[j] = y[l]
        BY <1>10, <2>14, <3>2, <4>1
      <4>3. Len(d) + l = off + j
        <5>1. Len(d) \in Int /\ off \in Int /\ j \in Int /\ l = j - (Len(d) - off)
          BY <1>2, <2>5, <4>1
        <5> HIDE DEF off
        <5> QED BY <5>1, SMTT(30)
      <4> QED BY <1>2, <4>1, <4>2, <4>3
    <3> QED BY <3>1, <3>2
  <2>17. Remains(h, g, off)
    BY <2>15, <2>16 DEF Remains
  <2>18. Step(r0, g, off + 1) = Step(b[m].parser, g, off + 1)
    BY <2>8, <2>9, <2>11, <2>13
  <2>19. TakesOver(r0, h, c, p0, g, b, m, off)
    BY <1>1, <1>2, <1>8, <1>9, <1>10, <1>11, <2>2, <2>5, <2>8, <2>15, <2>17, <2>18 DEF TakesOver
  <2>20. c[Len(h)].parser = b[Len(g)].parser
    BY <2>19, TracesMeet
  <2> QED BY <1>5, <1>8, <1>11, <2>20 DEF r
<1> QED BY <1>13, <1>15, <1>16

-----------------------------------------------------------------------------
(* The connection.                                                         *)

ParserTypes ==
    /\ stream \in DOMAIN Streams /\ read \in 0..Len(Streams[stream]) /\ verdict \in {"ok", "error"}
    /\ losses \in 0..MaxLosses
    /\ Sound(parser) /\ Sound(first)

\* Before anything is read the parser is as it was, with nothing handed over;
\* then the verdict says whether it has failed.
FromTheFirst ==
    /\ first.handed = <<>>
    /\ read = 0 => parser = first /\ verdict = "ok"
    /\ read > 0 => parser.failed = (verdict = "error")

\* The inductive invariant.
ParserInvariant == ParserTypes /\ FromTheFirst /\ PiecesDoNotMatter

LEMMA NewParserSound == Sound(NewParser)
<1>1. <<>> \in Texts /\ <<>> \in Seq(Atoms) /\ <<>> \in Seq(Items) /\ <<>> \in Seq(Names)
      /\ <<>> \in Seq(Attributes) /\ <<>> \in Seq(Seq(Items))
  BY EmptySeq DEF Texts
<1> QED BY <1>1 DEF Sound, Tidy, Clean, Parsers, NewParser, States

LEMMA ParserStarts == ParserInit => ParserInvariant
<1> SUFFICES ASSUME ParserInit PROVE ParserInvariant
  OBVIOUS
<1>1. Streams[stream] \in Seq(Atoms) /\ MaxLosses \in Nat
  BY ParserAssumption DEF ParserInit
<1>2. 0 \in 0..Len(Streams[stream]) /\ 0 \in 0..MaxLosses
  BY <1>1
<1>3. ParserTypes
  BY <1>2, NewParserSound DEF ParserTypes, ParserInit
<1>4. FromTheFirst /\ PiecesDoNotMatter
  BY DEF FromTheFirst, PiecesDoNotMatter, ParserInit, NewParser
<1> QED BY <1>3, <1>4 DEF ParserInvariant

\* What a piece adds to what has been read.
LEMMA ReadOn ==
    ASSUME NEW s \in Seq(Atoms), NEW u \in Nat, NEW v \in Nat, u + v <= Len(s), v > 0
    PROVE  /\ SubSeq(s, 1, u) \in Seq(Atoms) /\ SubSeq(s, u + 1, u + v) \in Seq(Atoms)
           /\ SubSeq(s, u + 1, u + v) # <<>>
           /\ SubSeq(s, 1, u) \o SubSeq(s, u + 1, u + v) = SubSeq(s, 1, u + v)
<1> DEFINE x == SubSeq(s, 1, u)
           y == SubSeq(s, u + 1, u + v)
           z == SubSeq(s, 1, u + v)
<1>1. \A j \in 1..Len(s) : s[j] \in Atoms
  BY ElementOfSeq
<1>2. x \in Seq(Atoms) /\ Len(x) = u /\ \A j \in 1..u : x[j] = s[j]
  <2>1. \A j \in 1..u : s[j] \in Atoms
    BY <1>1
  <2>2. /\ x \in Seq(Atoms)
        /\ Len(x) = IF 1 <= u THEN u - 1 + 1 ELSE 0
        /\ \A j \in 1..(u - 1 + 1) : x[j] = s[1 + j - 1]
    BY <2>1, SubSeqProperties
  <2>3. u - 1 + 1 = u /\ \A j \in 1..u : 1 + j - 1 = j
    OBVIOUS
  <2> HIDE DEF x
  <2> QED BY <2>2, <2>3
<1>3. z \in Seq(Atoms) /\ Len(z) = u + v /\ \A j \in 1..(u + v) : z[j] = s[j]
  <2>1. \A j \in 1..(u + v) : s[j] \in Atoms
    BY <1>1
  <2>2. /\ z \in Seq(Atoms)
        /\ Len(z) = IF 1 <= u + v THEN u + v - 1 + 1 ELSE 0
        /\ \A j \in 1..(u + v - 1 + 1) : z[j] = s[1 + j - 1]
    BY <2>1, SubSeqProperties
  <2>3. u + v - 1 + 1 = u + v /\ (\A j \in 1..(u + v) : 1 + j - 1 = j) /\ 1 <= u + v
    OBVIOUS
  <2> HIDE DEF z
  <2> QED BY <2>2, <2>3
<1>4. y \in Seq(Atoms) /\ Len(y) = v /\ \A j \in 1..v : y[j] = s[u + j]
  <2>1. \A j \in (u + 1)..(u + v) : s[j] \in Atoms
    BY <1>1
  <2>2. /\ y \in Seq(Atoms)
        /\ Len(y) = IF u + 1 <= u + v THEN u + v - (u + 1) + 1 ELSE 0
        /\ \A j \in 1..(u + v - (u + 1) + 1) : y[j] = s[u + 1 + j - 1]
    BY <2>1, SubSeqProperties
  <2>3. u + v - (u + 1) + 1 = v /\ (\A j \in 1..v : u + 1 + j - 1 = u + j) /\ u + 1 <= u + v
    OBVIOUS
  <2> HIDE DEF y
  <2> QED BY <2>2, <2>3
<1> HIDE DEF x, y, z
<1>5. /\ x \o y \in Seq(Atoms) /\ Len(x \o y) = u + v
      /\ \A j \in 1..(u + v) : (x \o y)[j] = IF j <= u THEN x[j] ELSE y[j - u]
  BY <1>2, <1>4, ConcatProperties
<1>6. ASSUME NEW j \in 1..(u + v) PROVE (x \o y)[j] = z[j]
  <2>1. CASE j <= u
    <3>1. j \in 1..u
      BY <2>1
    <3> QED BY <1>2, <1>3, <1>5, <2>1, <3>1
  <2>2. CASE ~(j <= u)
    <3>1. j - u \in 1..v /\ u + (j - u) = j
      BY <2>2
    <3> QED BY <1>3, <1>4, <1>5, <2>2, <3>1
  <2> QED BY <2>1, <2>2
<1>7. x \o y = z
  BY <1>3, <1>5, <1>6, SeqEqual
<1>8. y # <<>>
  BY <1>4, EmptySeq
<1> QED BY <1>2, <1>4, <1>7, <1>8 DEF x, y, z

LEMMA FeedPieceKeeps == ParserInvariant /\ FeedPiece => ParserInvariant'
<1> SUFFICES ASSUME ParserInvariant, FeedPiece PROVE ParserInvariant'
  OBVIOUS
<1>1. ParserTypes /\ FromTheFirst /\ PiecesDoNotMatter
  BY DEF ParserInvariant
<1> DEFINE s == Streams[stream]
<1>2. s \in Seq(Atoms) /\ Len(s) \in Nat /\ read \in Nat /\ Piece \in Nat
  BY <1>1, ParserAssumption DEF ParserTypes
<1>3. PICK n \in 1..Piece : read + n <= Len(s) /\ read' = read + n /\ parser' = Feed(parser, SubSeq(s, read + 1, read + n))
  BY DEF FeedPiece
<1>4. verdict = "ok" /\ stream' = stream /\ first' = first /\ losses' = losses
      /\ verdict' = IF parser'.failed THEN "error" ELSE "ok"
  BY DEF FeedPiece
<1> HIDE DEF s
<1> DEFINE x == SubSeq(s, 1, read)
           y == SubSeq(s, read + 1, read + n)
           z == SubSeq(s, 1, read + n)
<1>5. n \in Nat /\ n > 0
  BY <1>2
<1>6. x \in Seq(Atoms) /\ y \in Seq(Atoms) /\ y # <<>> /\ x \o y = z
  BY <1>2, <1>3, <1>5, ReadOn
<1>7. Sound(parser')
  <2>1. parser' = Feed(parser, y)
    BY <1>3
  <2> HIDE DEF y
  <2> QED BY <1>1, <1>6, <2>1, FeedSound DEF ParserTypes
<1>8. parser' = Feed(first, z)
  <2>1. CASE read = 0
    <3>1. read + 1 = 1 /\ y = z
      BY <2>1
    <3> QED BY <1>1, <1>3, <2>1, <3>1 DEF FromTheFirst
  <2>2. CASE read # 0
    <3>1. parser = Feed(first, x) /\ parser.failed = FALSE /\ Sound(first)
      <4>1. read > 0 /\ Sound(first)
        BY <1>1, <1>2, <2>2 DEF ParserTypes
      <4>2. parser.failed = (verdict = "error")
        BY <1>1, <4>1 DEF FromTheFirst
      <4>3. parser = Feed(first, x)
        BY <1>1, <4>1 DEF PiecesDoNotMatter, s
      <4> QED BY <1>4, <4>1, <4>2, <4>3
    <3>2. parser' = Feed(Feed(first, x), y)
      BY <1>3, <3>1
    <3> HIDE DEF x, y, z
    <3>3. Feed(first, x).failed = FALSE
      BY <3>1
    <3>4. Feed(Feed(first, x), y) = Feed(first, x \o y)
      BY <1>6, <3>1, <3>3, FeedTwice
    <3> QED BY <1>6, <3>2, <3>4
  <2> QED BY <2>1, <2>2
<1>9. ParserTypes'
  <2>1. read' \in 0..Len(s)
    BY <1>2, <1>3, <1>5
  <2> QED BY <1>1, <1>4, <1>7, <2>1 DEF ParserTypes, s
<1>10. FromTheFirst'
  <2>1. read' # 0
    BY <1>2, <1>3, <1>5
  <2>2. parser'.failed \in BOOLEAN
    BY <1>7 DEF Sound, Parsers
  <2>3. parser'.failed = (verdict' = "error")
    BY <1>4, <2>2
  <2>4. first'.handed = <<>>
    BY <1>1, <1>4 DEF FromTheFirst
  <2> QED BY <2>1, <2>3, <2>4 DEF FromTheFirst
<1>11. PiecesDoNotMatter'
  BY <1>3, <1>4, <1>8 DEF PiecesDoNotMatter, s
<1> QED BY <1>9, <1>10, <1>11 DEF ParserInvariant

LEMMA ReconnectedKeeps ==
    ASSUME ParserInvariant, Reconnected, losses' \in 0..MaxLosses
    PROVE  ParserInvariant'
<1>1. ParserTypes
  BY DEF ParserInvariant
<1>2. stream' \in DOMAIN Streams /\ read' = 0 /\ verdict' = "ok" /\ first' = parser'
      /\ parser' = [parser EXCEPT !.handed = <<>>]
  BY DEF Reconnected
<1>3. Streams[stream'] \in Seq(Atoms)
  BY <1>2, ParserAssumption
<1>4. 0 \in 0..Len(Streams[stream'])
  BY <1>3
<1>6. Sound(parser')
  <2>1. parser \in Parsers /\ <<>> \in Seq(Seq(Items))
    BY <1>1, EmptySeq DEF ParserTypes, Sound
  <2>2. parser' \in Parsers /\ parser'.open = parser.open /\ parser'.root = parser.root /\ Tidy(parser') = Tidy(parser)
    BY <1>2, <2>1 DEF Parsers, Tidy, Clean
  <2> QED BY <1>1, <2>2 DEF ParserTypes, Sound
<1>7. ParserTypes'
  BY <1>2, <1>4, <1>6 DEF ParserTypes
<1>8. FromTheFirst' /\ PiecesDoNotMatter'
  <2>1. parser'.handed = <<>>
    BY <1>1, <1>2 DEF ParserTypes, Sound, Parsers
  <2> QED BY <1>2, <2>1 DEF FromTheFirst, PiecesDoNotMatter
<1> QED BY <1>7, <1>8 DEF ParserInvariant

LEMMA ParserSteps == ParserInvariant /\ [ParserNext]_parserVars => ParserInvariant'
<1> SUFFICES ASSUME ParserInvariant, [ParserNext]_parserVars PROVE ParserInvariant'
  OBVIOUS
<1>1. losses \in 0..MaxLosses /\ MaxLosses \in Nat
  BY ParserAssumption DEF ParserInvariant, ParserTypes
<1>2. CASE FeedPiece
  BY <1>2, FeedPieceKeeps
<1>3. CASE LoseStream
  <2>1. Reconnected /\ losses' \in 0..MaxLosses
    BY <1>1, <1>3 DEF LoseStream
  <2> QED BY <2>1, ReconnectedKeeps
<1>4. CASE RefuseStream
  <2>1. Reconnected /\ losses' \in 0..MaxLosses
    BY <1>1, <1>4 DEF RefuseStream
  <2> QED BY <2>1, ReconnectedKeeps
<1>5. CASE UNCHANGED parserVars
  BY <1>5 DEF parserVars, ParserInvariant, ParserTypes, FromTheFirst, PiecesDoNotMatter
<1> QED BY <1>2, <1>3, <1>4, <1>5 DEF ParserNext

THEOREM ParserKept == ParserSpec => []ParserInvariant
BY ParserStarts, ParserSteps, PTL DEF ParserSpec

\* Every variable of the parser keeps its type, and a tag is open exactly while
\* there is a root, for any streams, well-formed or not.
THEOREM ParserTypeCorrect == ParserSpec => []ParserTypeOK
<1>1. ParserInvariant => ParserTypeOK
  BY DEF ParserInvariant, ParserTypes, ParserTypeOK, Sound, Parsers
<1> QED BY <1>1, ParserKept, PTL

\* What the parser makes of a stream does not depend on the pieces in which the
\* stream arrives, for any streams, any pieces and whatever the last connection
\* left in the parser (parser.cpp:161-182).
THEOREM PiecesDoNotMatterHolds == ParserSpec => []PiecesDoNotMatter
<1>1. ParserInvariant => PiecesDoNotMatter
  BY DEF ParserInvariant
<1> QED BY <1>1, ParserKept, PTL

-----------------------------------------------------------------------------
(* What a stream is read as, whatever came before it.                      *)

\* The loop over data that does not wait, from a parser that holds nothing back.
LEMMA FeedTrace ==
    ASSUME NEW p, Sound(p), p.backBuffer = <<>>, NEW d \in Seq(Atoms)
    PROVE  /\ Trace(ScanSteps(Resumed(p), d), Resumed(p), d)
           /\ Feed(p, d) = ScanSteps(Resumed(p), d)[Len(d)].parser
<1>1. p.backBuffer \o d = d
  <2>1. <<>> \o d = d
    BY ConcatEmptySeq
  <2> QED BY <2>1
<1> QED BY <1>1, ScanTrace DEF Feed

\* Two loops that have met stay together.
LEMMA TracesJoin ==
    ASSUME NEW p, NEW q, NEW d \in Seq(Atoms), NEW a, Trace(a, p, d), NEW b, Trace(b, q, d),
           NEW k \in 0..Len(d), a[k] = b[k]
    PROVE  a[Len(d)] = b[Len(d)]
<1> DEFINE P == {n \in 0..Len(d) : k <= n => a[n] = b[n]}
<1>1. Len(d) \in Nat
  OBVIOUS
<1>2. 0 \in P
  BY <1>1
<1>3. ASSUME NEW n \in 1..Len(d), n - 1 \in P PROVE n \in P
  <2>1. a[n] = Further(a[n - 1], d) /\ b[n] = Further(b[n - 1], d) /\ n \in 0..Len(d)
    BY DEF Trace
  <2>2. k <= n => k = n \/ k <= n - 1
    BY <1>1
  <2>3. k <= n - 1 => a[n] = b[n]
    BY <1>3, <2>1
  <2> QED BY <2>1, <2>2, <2>3
<1> HIDE DEF P
<1>4. \A n \in 0..Len(d) : n \in P
  BY <1>1, <1>2, <1>3, Upward
<1>5. Len(d) \in P
  BY <1>1, <1>4
<1> QED BY <1>1, <1>5 DEF P

\* A step of the loop over one atom, from the k'th to the m'th.
Takes(d, k, q, m, r) ==
    /\ k \in Nat /\ m \in 1..Len(d) /\ m = k + 1
    /\ Reading(q) /\ q.failed = FALSE /\ Step(q, d, m) = One(r)

LEMMA StepTaken ==
    ASSUME NEW p, NEW d \in Seq(Atoms), NEW a, Trace(a, p, d), NEW k, NEW q, NEW m, NEW r, Takes(d, k, q, m, r),
           a[k] = Uses(q, k)
    PROVE  a[m] = Uses(r, m)
<1>0. k \in Nat /\ m \in 1..Len(d) /\ m = k + 1 /\ Reading(q) /\ q.failed = FALSE /\ Step(q, d, m) = One(r)
  BY DEF Takes
<1>1. m - 1 = k /\ ~(k >= Len(d))
  BY <1>0
<1>2. a[m] = Further(Uses(q, k), d)
  <2>1. a[m] = Further(a[m - 1], d)
    BY <1>0 DEF Trace
  <2> QED BY <1>1, <2>1
<1>3. ~Ended(Uses(q, k), d)
  BY <1>0, <1>1 DEF Ended, Uses, Reading
<1> QED BY <1>0, <1>2, <1>3 DEF Further, Uses, One

\* The first atom of a stream.
Lost(p) == Reading(p) /\ p.failed = FALSE /\ p.handed = <<>>

LEMMA HalfTagFails ==
    ASSUME NEW p, Lost(p), NEW d, d[1] = "<", p.state \in Within \ {"TagInside", "TagCDATASection"}
    PROVE  Step(p, d, 1) = One(Fail(p))
<1>1. TagEnd(p, "<") = Fail(p)
  BY DEF TagEnd
<1> QED BY <1>1, StateNames DEF Step, TagOpeningStep, TagNameCollectStep, TagOpeningSlashStep, TagClosingSlashStep,
      TagClosingStep, TagNameCompleteStep, TagAttributeStep, TagAttributeCompleteStep, TagAttributeEqualStep,
      TagAttributeValueStep, TagNameAlmostCompleteStep, Whitespace

\* After k atoms of the declaration: what it takes to go on through it.
DeclarationStates ==
    <<"TagOpening", "TagNameCollect", "TagNameCollect", "TagNameComplete", "TagAttribute", "TagAttributeEqual",
      "TagAttributeValue", "TagAttributeValue", "TagNameAlmostComplete", "TagNameAlmostComplete">>
Declares(p, k) ==
    /\ Lost(p) /\ p.quote = FALSE /\ p.state = DeclarationStates[k]
    /\ p.tag = IF k < 3 THEN <<>> ELSE <<"xml">>
    /\ k > 1 => p.preamble = IF k = 10 THEN 2 ELSE 1
    /\ k > 8 => p.isXmlns = FALSE

LEMMA GoneLost ==
    ASSUME NEW p, Lost(p), NEW state \in Within
    PROVE  /\ Lost(Go(p, state)) /\ Go(p, state).state = state /\ Go(p, state).tag = p.tag
           /\ Go(p, state).quote = p.quote /\ Go(p, state).preamble = p.preamble /\ Go(p, state).isXmlns = p.isXmlns
<1>1. Reading(p) /\ p \in Parsers
  BY DEF Lost, Reading, Sound
<1>2. Reading(Go(p, state))
  BY <1>1, GoReading
<1> QED BY <1>1, <1>2 DEF Lost, Go, Parsers

LEMMA OpeningDeclares ==
    ASSUME NEW p, Lost(p), NEW d, d[1] = "<", p.state \in {"Initial", "InterTag", "TagInside"}
    PROVE  \E q : /\ Step(p, d, 1) = One(q) /\ Lost(q) /\ q.quote = p.quote
                  /\ q.state = "TagOpening" /\ q.tag = <<>>
<1> DEFINE t == [p EXCEPT !.tag = <<>>]
<1>1. Reading(p) /\ Reading(t) /\ p \in Parsers /\ t \in Parsers
  BY ReadingFields DEF Lost
<1>2. /\ t.failed = FALSE /\ t.handed = <<>> /\ t.quote = p.quote /\ t.state = p.state /\ t.tag = <<>>
  BY <1>1 DEF Lost, Parsers
<1>3. "TagOpening" \in Within
  BY StateNames
<1>4. CASE p.state = "Initial"
  <2>1. Step(p, d, 1) = One(Go(p, "TagOpening"))
    BY <1>4 DEF Step, InitialStep, Whitespace
  <2>2. p.tag = <<>>
    BY <1>1, <1>4 DEF Reading, Sound, Tidy, Clean
  <2> QED BY <1>3, <2>1, <2>2, GoneLost
<1>5. CASE p.state = "InterTag"
  <2>1. Step(p, d, 1) = One(Go(t, "TagOpening"))
    BY <1>5 DEF Step, InterTagStep, Whitespace
  <2> HIDE DEF t
  <2>2. Lost(t)
    BY <1>1, <1>2 DEF Lost
  <2> QED BY <1>2, <1>3, <2>1, <2>2, GoneLost
<1>6. CASE p.state = "TagInside"
  <2>1. Step(p, d, 1) = One(Go(AddCData(t), "TagOpening"))
    BY <1>6 DEF Step, TagInsideStep
  <2> HIDE DEF t
  <2>2. Reading(AddCData(t))
    BY <1>1, <1>2, <1>6, AddCDataReading, StateNames DEF Working
  <2>3. AddCData(t).failed = FALSE /\ AddCData(t).handed = <<>> /\ AddCData(t).quote = p.quote /\ AddCData(t).tag = <<>>
    BY <1>1, <1>2 DEF AddCData, Parsers
  <2>4. Lost(AddCData(t))
    BY <2>2, <2>3 DEF Lost
  <2> QED BY <1>3, <2>1, <2>3, <2>4, GoneLost
<1> QED BY <1>4, <1>5, <1>6

LEMMA DeclarationAtoms ==
    /\ Declaration[2] = "?" /\ Declaration[3] = "xml" /\ Declaration[4] = " " /\ Declaration[5] = "version"
    /\ Declaration[6] = "=" /\ Declaration[7] = "'" /\ Declaration[8] = "1.0" /\ Declaration[9] = "'"
    /\ Declaration[10] = "?" /\ Declaration[11] = ">"
BY DEF Declaration

LEMMA DeclarationStatesAre ==
    /\ DeclarationStates[1] = "TagOpening" /\ DeclarationStates[2] = "TagNameCollect"
    /\ DeclarationStates[3] = "TagNameCollect" /\ DeclarationStates[4] = "TagNameComplete"
    /\ DeclarationStates[5] = "TagAttribute" /\ DeclarationStates[6] = "TagAttributeEqual"
    /\ DeclarationStates[7] = "TagAttributeValue" /\ DeclarationStates[8] = "TagAttributeValue"
    /\ DeclarationStates[9] = "TagNameAlmostComplete" /\ DeclarationStates[10] = "TagNameAlmostComplete"
BY DEF DeclarationStates

\* One atom of the declaration after another.
LEMMA DeclarationGoesOn ==
    ASSUME NEW p, NEW k \in 1..9, Declares(p, k), NEW d \in Seq(Atoms), k < Len(d), d[k + 1] = Declaration[k + 1]
    PROVE  \E q : Step(p, d, k + 1) = One(q) /\ Declares(q, k + 1)
<1>0. /\ Lost(p) /\ Working(p) /\ p \in Parsers /\ p.quote = FALSE /\ p.state = DeclarationStates[k]
      /\ p.tag = (IF k < 3 THEN <<>> ELSE <<"xml">>) /\ (k > 1 => p.preamble = 1) /\ (k > 8 => p.isXmlns = FALSE)
  <2>1. DeclarationStates[k] \in Within
    BY DeclarationStatesAre, StateNames
  <2> QED BY <2>1 DEF Declares, Lost, Working, Reading, Sound
<1>a. d[k + 1] \in Chars
  BY ElementOfSeq DEF Chars
<1>1. CASE k = 1
  <2> DEFINE q == [Go(p, "TagNameCollect") EXCEPT !.preamble = 1]
  <2>0. k + 1 = 2
    BY <1>1
  <2>1. p.state = "TagOpening" /\ d[k + 1] = "?"
    <3>1. p.state = DeclarationStates[1] /\ d[k + 1] = Declaration[2]
      BY <1>0, <1>1, <2>0
    <3> QED BY <3>1, DeclarationAtoms, DeclarationStatesAre
  <2>2. Step(p, d, k + 1) = One(q)
    BY <1>0, <1>1, <2>1 DEF Step, TagOpeningStep, Whitespace
  <2>3. Reading(q)
    <3>1. Working(Go(p, "TagNameCollect"))
      BY <1>0, GoReading, StateNames DEF Working
    <3> QED BY <3>1, ModesReading
  <2>4. /\ q.failed = FALSE /\ q.handed = <<>> /\ q.quote = FALSE /\ q.state = "TagNameCollect"
        /\ q.tag = <<>> /\ q.preamble = 1
    BY <1>0, <1>1, <2>1 DEF Lost, Go, Parsers
  <2> HIDE DEF q
  <2> QED BY <1>1, <2>0, <2>2, <2>3, <2>4, DeclarationStatesAre DEF Declares, Lost
<1>2. CASE k = 2
  <2> DEFINE q == [p EXCEPT !.tag = Append(@, "xml")]
  <2>0. k + 1 = 3
    BY <1>2
  <2>1. p.state = "TagNameCollect" /\ d[k + 1] = "xml"
    <3>1. p.state = DeclarationStates[2] /\ d[k + 1] = Declaration[3]
      BY <1>0, <1>2, <2>0
    <3> QED BY <3>1, DeclarationAtoms, DeclarationStatesAre
  <2>2. Step(p, d, k + 1) = One(q)
    BY <1>0, <1>2, <2>1 DEF Step, TagNameCollectStep, Adds, Whitespace
  <2>3. Reading(q)
    <3>1. Working(p) /\ "tag" \in Fields
      BY <1>0, GoReading, StateNames DEF Working
    <3>2. Reading([p EXCEPT !["tag"] = Append(@, "xml")])
      BY <1>a, <2>1, <3>1, FieldReading
    <3> QED BY <3>2
  <2>4. /\ q.failed = FALSE /\ q.handed = <<>> /\ q.quote = FALSE /\ q.state = "TagNameCollect"
        /\ q.tag = <<"xml">> /\ q.preamble = 1
    BY <1>0, <1>2, <2>1 DEF Lost, Go, Parsers
  <2> HIDE DEF q
  <2>5. q.state = DeclarationStates[k + 1]
    BY <2>0, <2>4, DeclarationStatesAre
  <2>6. Declares(q, k + 1)
    BY <2>0, <2>3, <2>4, <2>5 DEF Declares, Lost
  <2> QED BY <2>2, <2>6
<1>3. CASE k = 3
  <2> DEFINE q == Go(p, "TagNameComplete")
  <2>0. k + 1 = 4
    BY <1>3
  <2>1. p.state = "TagNameCollect" /\ d[k + 1] = " "
    <3>1. p.state = DeclarationStates[3] /\ d[k + 1] = Declaration[4]
      BY <1>0, <1>3, <2>0
    <3> QED BY <3>1, DeclarationAtoms, DeclarationStatesAre
  <2>2. Step(p, d, k + 1) = One(q)
    BY <1>0, <1>3, <2>1 DEF Step, TagNameCollectStep, Whitespace
  <2>3. /\ Lost(q) /\ q.state = "TagNameComplete" /\ q.tag = p.tag /\ q.quote = FALSE /\ q.preamble = p.preamble
    BY <1>0, GoneLost, StateNames
  <2>4. q.tag = <<"xml">> /\ q.preamble = 1
    BY <1>0, <1>3, <2>3
  <2> HIDE DEF q
  <2> QED BY <1>3, <2>0, <2>2, <2>3, <2>4, DeclarationStatesAre DEF Declares
<1>4. CASE k = 4
  <2> DEFINE q == [Go(p, "TagAttribute") EXCEPT !.attrib = Append(@, "version")]
  <2>0. k + 1 = 5
    BY <1>4
  <2>1. p.state = "TagNameComplete" /\ d[k + 1] = "version"
    <3>1. p.state = DeclarationStates[4] /\ d[k + 1] = Declaration[5]
      BY <1>0, <1>4, <2>0
    <3> QED BY <3>1, DeclarationAtoms, DeclarationStatesAre
  <2>2. Step(p, d, k + 1) = One(q)
    BY <1>0, <1>4, <2>1 DEF Step, TagNameCompleteStep, Adds, Whitespace
  <2>3. Reading(q)
    <3>1. Working(Go(p, "TagAttribute")) /\ "attrib" \in Fields
      BY <1>0, GoReading, StateNames DEF Working
    <3>2. Reading([Go(p, "TagAttribute") EXCEPT !["attrib"] = Append(@, "version")])
      BY <1>a, <2>1, <3>1, FieldReading
    <3> QED BY <3>2
  <2>4. /\ q.failed = FALSE /\ q.handed = <<>> /\ q.quote = FALSE /\ q.state = "TagAttribute"
        /\ q.tag = <<"xml">> /\ q.preamble = 1
    BY <1>0, <1>4, <2>1 DEF Lost, Go, Parsers
  <2> HIDE DEF q
  <2> QED BY <1>4, <2>0, <2>2, <2>3, <2>4, DeclarationStatesAre DEF Declares, Lost
<1>5. CASE k = 5
  <2> DEFINE q == Go(p, "TagAttributeEqual")
  <2>0. k + 1 = 6
    BY <1>5
  <2>1. p.state = "TagAttribute" /\ d[k + 1] = "="
    <3>1. p.state = DeclarationStates[5] /\ d[k + 1] = Declaration[6]
      BY <1>0, <1>5, <2>0
    <3> QED BY <3>1, DeclarationAtoms, DeclarationStatesAre
  <2>2. Step(p, d, k + 1) = One(q)
    BY <1>0, <1>5, <2>1 DEF Step, TagAttributeStep, Whitespace
  <2>3. /\ Lost(q) /\ q.state = "TagAttributeEqual" /\ q.tag = p.tag /\ q.quote = FALSE /\ q.preamble = p.preamble
    BY <1>0, GoneLost, StateNames
  <2>4. q.tag = <<"xml">> /\ q.preamble = 1
    BY <1>0, <1>5, <2>3
  <2> HIDE DEF q
  <2> QED BY <1>5, <2>0, <2>2, <2>3, <2>4, DeclarationStatesAre DEF Declares
<1>6. CASE k = 6
  <2> DEFINE q == Go(p, "TagAttributeValue")
  <2>0. k + 1 = 7
    BY <1>6
  <2>1. p.state = "TagAttributeEqual" /\ d[k + 1] = "'"
    <3>1. p.state = DeclarationStates[6] /\ d[k + 1] = Declaration[7]
      BY <1>0, <1>6, <2>0
    <3> QED BY <3>1, DeclarationAtoms, DeclarationStatesAre
  <2>2. Step(p, d, k + 1) = One(q)
    BY <1>0, <1>6, <2>1 DEF Step, TagAttributeEqualStep, Whitespace
  <2>3. /\ Lost(q) /\ q.state = "TagAttributeValue" /\ q.tag = p.tag /\ q.quote = FALSE /\ q.preamble = p.preamble
    BY <1>0, GoneLost, StateNames
  <2>4. q.tag = <<"xml">> /\ q.preamble = 1
    BY <1>0, <1>6, <2>3
  <2> HIDE DEF q
  <2> QED BY <1>6, <2>0, <2>2, <2>3, <2>4, DeclarationStatesAre DEF Declares
<1>7. CASE k = 7
  <2> DEFINE q == [p EXCEPT !.value = Append(@, "1.0")]
  <2>0. k + 1 = 8
    BY <1>7
  <2>1. p.state = "TagAttributeValue" /\ d[k + 1] = "1.0"
    <3>1. p.state = DeclarationStates[7] /\ d[k + 1] = Declaration[8]
      BY <1>0, <1>7, <2>0
    <3> QED BY <3>1, DeclarationAtoms, DeclarationStatesAre
  <2>2. Step(p, d, k + 1) = One(q)
    BY <1>0, <1>7, <2>1 DEF Step, TagAttributeValueStep, Adds, Whitespace
  <2>3. Reading(q)
    <3>1. Working(p) /\ "value" \in Fields
      BY <1>0, GoReading, StateNames DEF Working
    <3>2. Reading([p EXCEPT !["value"] = Append(@, "1.0")])
      BY <1>a, <2>1, <3>1, FieldReading
    <3> QED BY <3>2
  <2>4. /\ q.failed = FALSE /\ q.handed = <<>> /\ q.quote = FALSE /\ q.state = "TagAttributeValue"
        /\ q.tag = <<"xml">> /\ q.preamble = 1
    BY <1>0, <1>7, <2>1 DEF Lost, Go, Parsers
  <2> HIDE DEF q
  <2> QED BY <1>7, <2>0, <2>2, <2>3, <2>4, DeclarationStatesAre DEF Declares, Lost
<1>8. CASE k = 8
  <2> DEFINE q == [Go(AddAttribute(p), "TagNameAlmostComplete") EXCEPT !.quote = FALSE]
  <2>0. k + 1 = 9
    BY <1>8
  <2>1. p.state = "TagAttributeValue" /\ d[k + 1] = "'"
    <3>1. p.state = DeclarationStates[8] /\ d[k + 1] = Declaration[9]
      BY <1>0, <1>8, <2>0
    <3> QED BY <3>1, DeclarationAtoms, DeclarationStatesAre
  <2>2. Step(p, d, k + 1) = One(q)
    BY <1>0, <1>8, <2>1 DEF Step, TagAttributeValueStep, Whitespace
  <2>3. Reading(q)
    <3>1. Working(Go(AddAttribute(p), "TagNameAlmostComplete"))
      BY <1>0, AddAttributeReading, GoReading, StateNames
    <3> QED BY <3>1, ModesReading
  <2>4. /\ q.failed = FALSE /\ q.handed = <<>> /\ q.quote = FALSE /\ q.state = "TagNameAlmostComplete"
        /\ q.tag = <<"xml">> /\ q.preamble = 1 /\ q.isXmlns = FALSE
    BY <1>0, <1>8, <2>1 DEF Lost, Go, AddAttribute, Parsers
  <2> HIDE DEF q
  <2> QED BY <1>8, <2>0, <2>2, <2>3, <2>4, DeclarationStatesAre DEF Declares, Lost
<1>9. CASE k = 9
  <2> DEFINE q == [p EXCEPT !.preamble = 2]
  <2>0. k + 1 = 10
    BY <1>9
  <2>1. p.state = "TagNameAlmostComplete" /\ d[k + 1] = "?"
    <3>1. p.state = DeclarationStates[9] /\ d[k + 1] = Declaration[10]
      BY <1>0, <1>9, <2>0
    <3> QED BY <3>1, DeclarationAtoms, DeclarationStatesAre
  <2>2. Step(p, d, k + 1) = One(q)
    <3>1. p.preamble = 1
      BY <1>0, <1>9
    <3>2. TagEnd(p, "?") = q
      BY <3>1 DEF TagEnd
    <3>3. Step(p, d, k + 1) = TagNameAlmostCompleteStep(p, "?")
      BY <2>1 DEF Step
    <3> QED BY <3>2, <3>3 DEF TagNameAlmostCompleteStep, Whitespace
  <2>3. Reading(q)
    BY <1>0, ModesReading
  <2>4. /\ q.failed = FALSE /\ q.handed = <<>> /\ q.quote = FALSE /\ q.state = "TagNameAlmostComplete"
        /\ q.tag = <<"xml">> /\ q.preamble = 2 /\ q.isXmlns = FALSE
    BY <1>0, <1>9, <2>1 DEF Lost, Go, Parsers
  <2> HIDE DEF q
  <2> QED BY <1>9, <2>0, <2>2, <2>3, <2>4, DeclarationStatesAre DEF Declares, Lost
<1> QED BY <1>1, <1>2, <1>3, <1>4, <1>5, <1>6, <1>7, <1>8, <1>9

\* The end of the declaration: everything is dropped.
LEMMA DeclarationEnds ==
    ASSUME NEW p, Declares(p, 10), NEW d, d[11] = ">"
    PROVE  Step(p, d, 11) = One(NewParser)
<1> DEFINE r == Go(p, "TagInside")
<1>1. /\ Lost(p) /\ p \in Parsers /\ p.quote = FALSE /\ p.state = "TagNameAlmostComplete" /\ p.tag = <<"xml">>
      /\ p.preamble = 2 /\ p.isXmlns = FALSE /\ p.backBuffer = <<>> /\ p.handed = <<>>
  BY DeclarationStatesAre DEF Declares, Lost, Reading, Sound
<1>2. Step(p, d, 11) = One(TagEnd(p, ">"))
  BY <1>1 DEF Step, TagNameAlmostCompleteStep, Whitespace
<1>3. TagEnd(p, ">") = AddTag(r)
  BY <1>1 DEF TagEnd
<1>4. /\ r.tag = <<"xml">> /\ r.preamble = 2 /\ r.quote = FALSE /\ r.isXmlns = FALSE /\ r.backBuffer = <<>>
      /\ r.handed = <<>> /\ r \in Parsers
  <2>1. "TagInside" \in States
    BY StateNames
  <2> QED BY <1>1, <2>1 DEF Go, Parsers
<1> HIDE DEF r
<1> DEFINE name == [name |-> r.tag, prefix |-> IF r.havePrefix THEN r.prefix ELSE <<>>]
           q == [r EXCEPT !.root = Append(@, [is |-> "open", name |-> name.name, prefix |-> name.prefix, attribs |-> r.attribs]),
                          !.open = Append(@, name), !.havePrefix = FALSE, !.attribs = <<>>]
<1>5. /\ q.tag = <<"xml">> /\ q.quote = FALSE /\ q.isXmlns = FALSE /\ q.backBuffer = <<>> /\ q.handed = <<>>
  BY <1>4 DEF Parsers
<1>6. ~IsHeader(q)
  <2>1. <<"xml">> # <<"stream">>
    OBVIOUS
  <2> QED BY <1>5, <2>1 DEF IsHeader
<1>7. AddTag(r) = Cleanup(q)
  BY <1>4, <1>6 DEF AddTag
<1> HIDE DEF q
<1>8. Cleanup(q) = NewParser
  <2>1. Cleanup(q) = [NewParser EXCEPT !.backBuffer = <<>>, !.quote = FALSE, !.isXmlns = FALSE, !.handed = <<>>]
    BY <1>5 DEF Cleanup
  <2>2. NewParser.backBuffer = <<>> /\ NewParser.quote = FALSE /\ NewParser.isXmlns = FALSE /\ NewParser.handed = <<>>
    BY DEF NewParser
  <2>3. NewParser \in Parsers
    BY NewParserSound DEF Sound
  <2>4. [NewParser EXCEPT !.backBuffer = NewParser.backBuffer, !.quote = NewParser.quote, !.isXmlns = NewParser.isXmlns,
                          !.handed = NewParser.handed] = NewParser
    BY <2>3 DEF Parsers
  <2> QED BY <2>1, <2>2, <2>4
<1> QED BY <1>2, <1>3, <1>7, <1>8

\* The parser between two pieces of the declaration, as long as it has not failed,
\* and the new parser it becomes.
Cleared(p, n) == p.failed = FALSE /\ p.handed = <<>> /\ (n = 11 => p = NewParser)

LEMMA DeclarationRead ==
    ASSUME NEW p, Lost(p), p.state \in {"Initial", "InterTag", "TagInside"}, p.quote = FALSE,
           NEW d \in Seq(Atoms), \A k \in 1..Len(d) : k <= 11 => d[k] = Declaration[k],
           NEW a, Trace(a, p, d), NEW n \in 1..11, n <= Len(d)
    PROVE  \E q : Reading(q) /\ a[n] = Uses(q, n) /\ Cleared(q, n)
<1> DEFINE P == {m \in 0..10 : m > 0 /\ m <= Len(d) => \E q : a[m] = Uses(q, m) /\ Declares(q, m)}
<1>0. Len(d) \in Nat /\ d[1] = "<"
  <2>1. Len(d) \in Nat /\ 1 \in 1..Len(d)
    OBVIOUS
  <2>2. Declaration[1] = "<"
    BY DEF Declaration
  <2>3. d[1] = Declaration[1]
    BY <2>1
  <2> QED BY <2>1, <2>2, <2>3
<1>1. 0 \in P
  OBVIOUS
<1>2. ASSUME NEW m \in 1..10, m - 1 \in P PROVE m \in P
  <2> SUFFICES ASSUME m <= Len(d) PROVE \E q : a[m] = Uses(q, m) /\ Declares(q, m)
    OBVIOUS
  <2>1. PICK l \in Nat : m = l + 1
    <3>1. m - 1 \in Nat /\ m = (m - 1) + 1
      OBVIOUS
    <3> QED BY <3>1
  <2>2. l < Len(d) /\ l \in 0..9
    BY <1>0, <2>1
  <2>3. CASE l = 0
    <3>1. PICK q : /\ Step(p, d, 1) = One(q) /\ Lost(q) /\ q.quote = p.quote
                   /\ q.state = "TagOpening" /\ q.tag = <<>>
      BY <1>0, OpeningDeclares
    <3>2. a[0] = Uses(p, 0) /\ Reading(p) /\ p.failed = FALSE
      BY DEF Trace, Lost
    <3>3. a[1] = Uses(q, 1)
      <4>1. Takes(d, 0, p, 1, q)
        BY <1>0, <2>2, <2>3, <3>1, <3>2 DEF Takes
      <4> QED BY <3>2, <4>1, StepTaken
    <3>4. Declares(q, 1)
      BY <3>1, DeclarationStatesAre DEF Declares
    <3> QED BY <2>1, <2>3, <3>3, <3>4
  <2>4. CASE l \in 1..9
    <3>1. PICK r : a[l] = Uses(r, l) /\ Declares(r, l)
      <4>1. m - 1 = l /\ l > 0 /\ l <= Len(d)
        BY <2>1, <2>2, <2>4
      <4> QED BY <1>2, <4>1
    <3>2. d[l + 1] = Declaration[l + 1]
      <4>1. l + 1 \in 1..Len(d) /\ l + 1 <= 11
        BY <2>1, <2>2
      <4> QED BY <4>1
    <3>3. PICK q : Step(r, d, l + 1) = One(q) /\ Declares(q, l + 1)
      BY <2>2, <2>4, <3>1, <3>2, DeclarationGoesOn
    <3>4. Reading(r) /\ r.failed = FALSE
      BY <3>1 DEF Declares, Lost
    <3>5. m \in 1..Len(d) /\ Step(r, d, m) = One(q) /\ Declares(q, m)
      BY <1>0, <2>1, <3>3
    <3>6. a[m] = Uses(q, m)
      <4>1. Takes(d, l, r, m, q)
        BY <2>1, <3>4, <3>5 DEF Takes
      <4> QED BY <3>1, <4>1, StepTaken
    <3> QED BY <3>5, <3>6
  <2> QED BY <2>2, <2>3, <2>4
<1> HIDE DEF P
<1>3. \A m \in 0..10 : m \in P
  BY <1>1, <1>2, Upward
<1>4. CASE n <= 10
  <2>1. n \in P /\ n > 0
    BY <1>3, <1>4
  <2>2. PICK q : a[n] = Uses(q, n) /\ Declares(q, n)
    BY <2>1 DEF P
  <2> QED BY <1>4, <2>2 DEF Cleared, Declares, Lost
<1>5. CASE n = 11
  <2>1. 10 \in P /\ 10 <= Len(d) /\ 10 < Len(d)
    BY <1>0, <1>3, <1>5
  <2>2. PICK q : a[10] = Uses(q, 10) /\ Declares(q, 10)
    BY <2>1 DEF P
  <2>3. d[11] = ">"
    <3>1. 11 \in 1..Len(d) /\ 11 <= 11
      BY <1>0, <1>5
    <3>2. d[11] = Declaration[11]
      BY <3>1
    <3> QED BY <3>2, DeclarationAtoms
  <2>4. Step(q, d, 11) = One(NewParser) /\ 10 \in Nat /\ 11 \in 1..Len(d) /\ 11 = 10 + 1
    BY <1>0, <1>5, <2>2, <2>3, DeclarationEnds
  <2>5. Reading(q) /\ q.failed = FALSE
    BY <2>2 DEF Declares, Lost
  <2>6. a[11] = Uses(NewParser, 11)
    <3>1. Takes(d, 10, q, 11, NewParser)
      BY <2>4, <2>5 DEF Takes
    <3> QED BY <2>2, <3>1, StepTaken
  <2>7. Reading(NewParser) /\ Cleared(NewParser, 11)
    BY NewParserSound DEF Reading, Cleared, NewParser
  <2> QED BY <1>5, <2>6, <2>7
<1> QED BY <1>4, <1>5

\* A parser fed a stream, whatever was left in it by the last one.
LEMMA ResumedLost ==
    ASSUME NEW p, Sound(p), p.handed = <<>>
    PROVE  /\ Lost(Resumed(p)) /\ Resumed(p).state = p.state /\ Resumed(p).quote = p.quote
           /\ Resumed(p).open = p.open /\ Resumed(p).isXmlns = p.isXmlns /\ Resumed(p).havePrefix = p.havePrefix
<1>1. Reading(Resumed(p)) /\ Resumed(p).failed = FALSE /\ p \in Parsers
  BY ResumedReading DEF Sound
<1> QED BY <1>1 DEF Lost, Resumed, Parsers

LEMMA NewParserResumed == Resumed(NewParser) = NewParser /\ Lost(NewParser)
<1>1. NewParser \in Parsers /\ NewParser.backBuffer = <<>> /\ NewParser.wait = FALSE /\ NewParser.failed = FALSE
      /\ NewParser.handed = <<>>
  BY NewParserSound DEF NewParser, Sound
<1>2. Resumed(NewParser) = [NewParser EXCEPT !.backBuffer = NewParser.backBuffer, !.wait = NewParser.wait,
                                             !.failed = NewParser.failed]
  BY <1>1 DEF Resumed
<1>3. [NewParser EXCEPT !.backBuffer = NewParser.backBuffer, !.wait = NewParser.wait, !.failed = NewParser.failed] = NewParser
  BY <1>1 DEF Parsers
<1> QED BY <1>1, <1>2, <1>3, NewParserSound DEF Lost, Reading

\* A parser is its fields.
LEMMA ParserFields ==
    ASSUME NEW p \in Parsers, NEW q \in Parsers, p.state = q.state, Clean(p), Clean(q),
           p.backBuffer = q.backBuffer, p.quote = q.quote, p.isXmlns = q.isXmlns, p.handed = q.handed,
           p.failed = q.failed, p.wait = q.wait
    PROVE  p = q
<1>1. p = [state |-> p.state, root |-> p.root, open |-> p.open, tag |-> p.tag, prefix |-> p.prefix, havePrefix
           |-> p.havePrefix, attribs |-> p.attribs, attrib |-> p.attrib, attribPrefix |-> p.attribPrefix,
           haveAttribPrefix |-> p.haveAttribPrefix, isXmlns |-> p.isXmlns, value |-> p.value, cdata |->
           p.cdata, backBuffer |-> p.backBuffer, preamble |-> p.preamble, quote |-> p.quote, handed |->
           p.handed, failed |-> p.failed, wait |-> p.wait]
  BY DEF Parsers
<1>2. q = [state |-> q.state, root |-> q.root, open |-> q.open, tag |-> q.tag, prefix |-> q.prefix, havePrefix
           |-> q.havePrefix, attribs |-> q.attribs, attrib |-> q.attrib, attribPrefix |-> q.attribPrefix,
           haveAttribPrefix |-> q.haveAttribPrefix, isXmlns |-> q.isXmlns, value |-> q.value, cdata |->
           q.cdata, backBuffer |-> q.backBuffer, preamble |-> q.preamble, quote |-> q.quote, handed |->
           q.handed, failed |-> q.failed, wait |-> q.wait]
  BY DEF Parsers
<1> QED BY <1>1, <1>2, Zenon DEF Clean

\* Nothing is left: the first atom is read as by a new parser.
LEMMA FreshIsNew ==
    ASSUME NEW p, Lost(p), p.state \in {"Initial", "InterTag"}, p.open = <<>>, p.quote = FALSE, p.isXmlns = FALSE,
           p.havePrefix = FALSE
    PROVE  p = Go(NewParser, p.state)
<1> DEFINE q == Go(NewParser, p.state)
<1>1. /\ p \in Parsers /\ Clean(p) /\ p.backBuffer = <<>> /\ p.wait = FALSE /\ p.failed = FALSE
      /\ p.handed = <<>> /\ p.state \in States
  BY DEF Lost, Reading, Sound, Tidy, Parsers
<1>2. /\ NewParser \in Parsers /\ Clean(NewParser) /\ NewParser.backBuffer = <<>> /\ NewParser.wait = FALSE
      /\ NewParser.failed = FALSE /\ NewParser.handed = <<>> /\ NewParser.quote = FALSE /\ NewParser.isXmlns = FALSE
  BY NewParserSound DEF Sound, NewParser, Clean
<1>3. /\ q \in Parsers /\ Clean(q) /\ q.state = p.state /\ q.backBuffer = <<>> /\ q.wait = FALSE
      /\ q.failed = FALSE /\ q.handed = <<>> /\ q.quote = FALSE /\ q.isXmlns = FALSE
  BY <1>1, <1>2 DEF Go, Parsers, Clean
<1> HIDE DEF q
<1>4. p = q
  BY <1>1, <1>3, ParserFields
<1> QED BY <1>4 DEF q

LEMMA FreshOpens ==
    ASSUME NEW p, Lost(p), p.state \in {"Initial", "InterTag"}, p.open = <<>>, p.quote = FALSE, p.isXmlns = FALSE,
           p.havePrefix = FALSE, NEW d, d[1] = "<"
    PROVE  Step(p, d, 1) = One(Go(NewParser, "TagOpening"))
<1>1. p = Go(NewParser, p.state)
  BY FreshIsNew
<1>2. CASE p.state = "Initial"
  <2>1. Step(p, d, 1) = One(Go(p, "TagOpening"))
    BY <1>2 DEF Step, InitialStep, Whitespace
  <2> QED BY <1>1, <2>1 DEF Go
<1>3. CASE p.state = "InterTag"
  <2>1. Step(p, d, 1) = One(Go([p EXCEPT !.tag = <<>>], "TagOpening"))
    BY <1>3 DEF Step, InterTagStep, Whitespace
  <2>2. [p EXCEPT !.tag = <<>>] = Go(NewParser, "InterTag")
    BY <1>1, <1>3 DEF Go, NewParser
  <2> QED BY <2>1, <2>2 DEF Go
<1> QED BY <1>2, <1>3

LEMMA FreshReads ==
    ASSUME NEW p, Sound(p), p.handed = <<>>, Between(p), p.isXmlns = FALSE, p.havePrefix = FALSE,
           NEW d \in Seq(Atoms), d # <<>>, d[1] = "<"
    PROVE  Feed(p, d) = Feed(NewParser, d)
<1> DEFINE r == Resumed(p)
           a == ScanSteps(r, d)
           b == ScanSteps(NewParser, d)
           o == Go(NewParser, "TagOpening")
<1>1. p.state \in {"Initial", "InterTag"} /\ p.open = <<>> /\ p.backBuffer = <<>> /\ p.quote = FALSE
  BY DEF Between, Sound, Parsers
<1>2. Lost(r) /\ Step(r, d, 1) = One(o)
  BY <1>1, ResumedLost, FreshOpens
<1>3. Lost(NewParser) /\ Step(NewParser, d, 1) = One(o)
  <2>1. NewParser.state = "Initial" /\ NewParser.open = <<>> /\ NewParser.quote = FALSE /\ NewParser.isXmlns = FALSE
        /\ NewParser.havePrefix = FALSE
    BY DEF NewParser
  <2> QED BY <2>1, NewParserResumed, FreshOpens
<1>4. Trace(a, r, d) /\ Feed(p, d) = a[Len(d)].parser
  BY <1>1, FeedTrace
<1>5. Trace(b, NewParser, d) /\ Feed(NewParser, d) = b[Len(d)].parser
  <2>1. NewParser.backBuffer = <<>>
    BY NewParserResumed DEF Lost, Reading
  <2> QED BY <2>1, NewParserSound, NewParserResumed, FeedTrace
<1> HIDE DEF a, b, r, o
<1>6. 0 \in Nat /\ 1 \in 1..Len(d) /\ 1 = 0 + 1 /\ 1 \in 0..Len(d)
  BY EmptySeq
<1>7. a[1] = Uses(o, 1)
  <2>1. Takes(d, 0, r, 1, o) /\ a[0] = Uses(r, 0)
    BY <1>2, <1>4, <1>6 DEF Takes, Lost, Trace
  <2> QED BY <1>4, <2>1, StepTaken
<1>8. b[1] = Uses(o, 1)
  <2>1. Takes(d, 0, NewParser, 1, o) /\ b[0] = Uses(NewParser, 0)
    BY <1>3, <1>5, <1>6 DEF Takes, Lost, Trace
  <2> QED BY <1>5, <2>1, StepTaken
<1>9. a[Len(d)] = b[Len(d)]
  <2>1. PICK k \in 0..Len(d) : a[k] = b[k]
    BY <1>6, <1>7, <1>8
  <2> QED BY <1>4, <1>5, <2>1, TracesJoin
<1> QED BY <1>4, <1>5, <1>9

\* Half a stanza is left: with the declaration it is gone.
LEMMA DeclaredReads ==
    ASSUME NEW p, Sound(p), p.handed = <<>>, OutsideTags(p),
           NEW d \in Seq(Atoms), d # <<>>, \A k \in 1..Len(d) : k <= 11 => d[k] = Declaration[k]
    PROVE  /\ Feed(p, d).failed = Feed(NewParser, d).failed
           /\ Feed(p, d).handed = Feed(NewParser, d).handed
<1> DEFINE r == Resumed(p)
           a == ScanSteps(r, d)
           b == ScanSteps(NewParser, d)
<1>1. p.state \in {"Initial", "InterTag", "TagInside"} /\ p.backBuffer = <<>> /\ p.quote = FALSE
  BY DEF OutsideTags, Sound, Parsers
<1>2. Lost(r) /\ r.state \in {"Initial", "InterTag", "TagInside"} /\ r.quote = FALSE
  BY <1>1, ResumedLost
<1>3. Lost(NewParser) /\ NewParser.state \in {"Initial", "InterTag", "TagInside"} /\ NewParser.quote = FALSE
  BY NewParserResumed DEF NewParser
<1>4. Trace(a, r, d) /\ Feed(p, d) = a[Len(d)].parser
  BY <1>1, FeedTrace
<1>5. Trace(b, NewParser, d) /\ Feed(NewParser, d) = b[Len(d)].parser
  <2>1. NewParser.backBuffer = <<>>
    BY NewParserResumed DEF Lost, Reading
  <2> QED BY <2>1, NewParserSound, NewParserResumed, FeedTrace
<1> HIDE DEF a, b, r
<1>6. Len(d) \in Nat /\ Len(d) > 0
  BY EmptySeq
<1>7. \A n \in 1..11 : n <= Len(d) => \E q : Reading(q) /\ a[n] = Uses(q, n) /\ Cleared(q, n)
  BY <1>2, <1>4, DeclarationRead
<1>8. \A n \in 1..11 : n <= Len(d) => \E q : Reading(q) /\ b[n] = Uses(q, n) /\ Cleared(q, n)
  BY <1>3, <1>5, DeclarationRead
<1>9. CASE Len(d) <= 11
  <2>1. Len(d) \in 1..11 /\ Len(d) <= Len(d)
    <3>1. \A k \in Nat : k > 0 /\ k <= 11 => k \in 1..11 /\ k <= k
      OBVIOUS
    <3> QED BY <1>6, <1>9, <3>1
  <2>2. PICK q : a[Len(d)] = Uses(q, Len(d)) /\ Cleared(q, Len(d))
    BY <1>7, <2>1
  <2>3. PICK u : b[Len(d)] = Uses(u, Len(d)) /\ Cleared(u, Len(d))
    BY <1>8, <2>1
  <2>4. Feed(p, d) = q /\ Feed(NewParser, d) = u
    BY <1>4, <1>5, <2>2, <2>3 DEF Uses
  <2> QED BY <2>2, <2>3, <2>4 DEF Cleared
<1>10. CASE Len(d) > 11
  <2>1. 11 \in 1..11 /\ 11 <= Len(d)
    BY <1>6, <1>10
  <2>2. PICK q : a[11] = Uses(q, 11) /\ Cleared(q, 11)
    BY <1>7, <2>1
  <2>3. PICK u : b[11] = Uses(u, 11) /\ Cleared(u, 11)
    BY <1>8, <2>1
  <2>4. a[11] = b[11]
    BY <2>2, <2>3 DEF Cleared
  <2>5. PICK k \in 0..Len(d) : a[k] = b[k]
    BY <1>6, <2>1, <2>4
  <2>6. a[Len(d)] = b[Len(d)]
    BY <1>4, <1>5, <2>5, TracesJoin
  <2> QED BY <1>4, <1>5, <2>6
<1> QED BY <1>6, <1>9, <1>10

\* Half a tag is left: the stream is refused.
LEMMA HalfTagReads ==
    ASSUME NEW p, Sound(p), p.handed = <<>>, InsideTag(p), NEW d \in Seq(Atoms), d # <<>>, d[1] = "<"
    PROVE  Feed(p, d).failed = TRUE
<1> DEFINE r == Resumed(p)
           a == ScanSteps(r, d)
<1>1. p.state \in Within \ {"TagInside", "TagCDATASection"} /\ p.backBuffer = <<>>
  BY DEF InsideTag, Within
<1>2. Lost(r) /\ Step(r, d, 1) = One(Fail(r))
  BY <1>1, ResumedLost, HalfTagFails
<1>3. Trace(a, r, d) /\ Feed(p, d) = a[Len(d)].parser
  BY <1>1, FeedTrace
<1> HIDE DEF a, r
<1>4. 0 \in Nat /\ 1 \in 1..Len(d) /\ 1 = 0 + 1 /\ 1 \in 0..Len(d) /\ Len(d) \in 0..Len(d) /\ 1 <= Len(d)
  BY EmptySeq
<1>5. a[1] = Uses(Fail(r), 1)
  <2>1. Takes(d, 0, r, 1, Fail(r)) /\ a[0] = Uses(r, 0)
    BY <1>2, <1>3, <1>4 DEF Takes, Lost, Trace
  <2> QED BY <1>3, <2>1, StepTaken
<1>6. Fail(r).failed = TRUE
  BY DEF Fail, Cleanup, NewParser
<1>7. Ended(a[1], d)
  BY <1>5, <1>6 DEF Ended, Uses
<1>8. a[Len(d)] = a[1]
  <2>1. PICK k \in 0..Len(d) : k = 1 /\ k <= Len(d) /\ Ended(a[k], d)
    BY <1>4, <1>7
  <2>2. a[Len(d)] = a[k]
    <3>1. Trace(a, r, d) /\ Ended(a[k], d)
      BY <1>3, <2>1
    <3>2. \A n \in 0..Len(d) : k <= n => a[n] = a[k]
      BY <3>1, TraceEnds
    <3> QED BY <1>4, <2>1, <3>2
  <2> QED BY <2>1, <2>2
<1> QED BY <1>3, <1>5, <1>6, <1>8 DEF Uses

LEMMA InvariantReads ==
    ASSUME WellFormed, ParserInvariant
    PROVE  ReadAsWritten
<1>1. ParserTypes /\ FromTheFirst /\ PiecesDoNotMatter
  BY DEF ParserInvariant
<1>2. CASE read = 0
  BY <1>1, <1>2 DEF FromTheFirst, ReadAsWritten, ReadAfresh, HalfStanzaDropped, HalfTagRefused, AsWritten
<1>3. CASE read > 0
  <2> DEFINE s == Streams[stream]
             d == Start(stream, read)
  <2>1. s \in Seq(Atoms) /\ Len(s) \in Nat /\ read \in Nat /\ read <= Len(s) /\ stream \in DOMAIN Streams
    BY <1>1, ParserAssumption DEF ParserTypes
  <2>2. d \in Seq(Atoms) /\ Len(d) = read /\ \A k \in 1..read : d[k] = s[k]
    <3> HIDE DEF s
    <3>1. \A k \in 1..read : s[k] \in Atoms
      BY <2>1, ElementOfSeq
    <3>2. /\ SubSeq(s, 1, read) \in Seq(Atoms)
          /\ Len(SubSeq(s, 1, read)) = IF 1 <= read THEN read - 1 + 1 ELSE 0
          /\ \A k \in 1..(read - 1 + 1) : SubSeq(s, 1, read)[k] = s[1 + k - 1]
      BY <2>1, <3>1, SubSeqProperties
    <3>3. read - 1 + 1 = read /\ (\A k \in 1..read : 1 + k - 1 = k) /\ 1 <= read /\ d = SubSeq(s, 1, read)
      BY <1>3, <2>1 DEF Start, s
    <3> HIDE DEF d
    <3> QED BY <3>2, <3>3
  <2>3. parser = Feed(first, d) /\ Sound(first) /\ first.handed = <<>> /\ parser.failed = (verdict = "error")
        /\ verdict \in {"ok", "error"}
    BY <1>1, <1>3 DEF PiecesDoNotMatter, FromTheFirst, ParserTypes, Start
  <2>4. s[1] = "<" /\ Hands(Feed(NewParser, d), stream, read)
    BY <2>1 DEF WellFormed
  <2>5. d # <<>> /\ d[1] = "<" /\ 1 \in 1..read
    BY <1>3, <2>1, <2>2, <2>4
  <2>6. stream \in Declared => \A k \in 1..read : k <= 11 => s[k] = Declaration[k]
    <3> SUFFICES ASSUME stream \in Declared PROVE \A k \in 1..read : k <= 11 => s[k] = Declaration[k]
      OBVIOUS
    <3>1. Len(Declaration) = 11
      BY DEF Declaration
    <3>2. Len(s) >= 11 /\ SubSeq(s, 1, 11) = Declaration
      BY <3>1 DEF WellFormed, Start
    <3> HIDE DEF s
    <3>3. ASSUME NEW k \in 1..11 PROVE SubSeq(s, 1, 11)[k] = s[k]
      <4>1. \A l \in 1..11 : s[l] \in Atoms
        BY <2>1, <3>2, ElementOfSeq
      <4>2. \A l \in 1..(11 - 1 + 1) : SubSeq(s, 1, 11)[l] = s[1 + l - 1]
        BY <4>1, SubSeqProperties
      <4>3. 11 - 1 + 1 = 11 /\ 1 + k - 1 = k
        OBVIOUS
      <4> QED BY <4>2, <4>3
    <3> QED BY <2>1, <3>2, <3>3
  <2> HIDE DEF d, s
  <2>7. /\ parser.failed = Feed(NewParser, d).failed /\ parser.handed = Feed(NewParser, d).handed
        => AsWritten
    BY <2>3, <2>4 DEF AsWritten, Hands
  <2>8. ReadAfresh
    <3> SUFFICES ASSUME Between(first), first.isXmlns = FALSE, first.havePrefix = FALSE PROVE AsWritten
      BY <2>3 DEF ReadAfresh, Sound, Parsers
    <3>1. Feed(first, d) = Feed(NewParser, d)
      BY <2>2, <2>3, <2>5, FreshReads
    <3> QED BY <2>3, <2>7, <3>1
  <2>9. HalfStanzaDropped
    <3> SUFFICES ASSUME stream \in Declared, OutsideTags(first) PROVE AsWritten
      BY DEF HalfStanzaDropped
    <3>1. \A k \in 1..Len(d) : k <= 11 => d[k] = Declaration[k]
      BY <2>2, <2>6
    <3>2. Feed(first, d).failed = Feed(NewParser, d).failed /\ Feed(first, d).handed = Feed(NewParser, d).handed
      BY <2>2, <2>3, <2>5, <3>1, DeclaredReads
    <3> QED BY <2>3, <2>7, <3>2
  <2>10. HalfTagRefused
    <3> SUFFICES ASSUME InsideTag(first) PROVE verdict = "error"
      BY DEF HalfTagRefused
    <3>1. Feed(first, d).failed = TRUE
      BY <2>2, <2>3, <2>5, HalfTagReads
    <3> QED BY <2>3, <3>1
  <2> QED BY <2>8, <2>9, <2>10 DEF ReadAsWritten
<1> QED BY <1>1, <1>2, <1>3 DEF ParserTypes

\* The client is handed what was written, for any well-formed streams, any pieces
\* and any connections lost and streams refused before: a parser that was left
\* between two stanzas reads as a new one, a declaration drops half a stanza, and
\* half a tag makes it refuse the next stream (parser.cpp:161-182, 685-686, 761-782).
THEOREM ReadAsWrittenHolds == WellFormed => (ParserSpec => []ReadAsWritten)
<1> SUFFICES ASSUME WellFormed PROVE ParserSpec => []ReadAsWritten
  OBVIOUS
<1>1. ParserInvariant => ReadAsWritten
  BY InvariantReads
<1> QED BY <1>1, ParserKept, PTL

-----------------------------------------------------------------------------
\* The three parts, each of which keeps the types of its variables whatever the
\* other two are.
THEOREM GlooxTypeCorrect == GlooxSpec => []GlooxTypeOK
<1>1. GlooxInit => ParserInit /\ DispatchInit /\ RoomInit
  BY DEF GlooxInit
<1>2. [GlooxNext]_<<part, parserVars, dispatchVars, roomVars>> =>
        [ParserNext]_parserVars /\ [DispatchNext]_dispatchVars /\ [RoomNext]_roomVars
  BY DEF GlooxNext
<1>3. GlooxSpec => ParserSpec /\ DispatchSpec /\ RoomSpec
  BY <1>1, <1>2, PTL DEF GlooxSpec, ParserSpec, DispatchSpec, RoomSpec
<1>4. DispatchInvariant => DispatchTypeOK
  BY DEF DispatchInvariant
<1> QED BY <1>3, <1>4, ParserTypeCorrect, DispatchCorrect, RoomTypeCorrect, PTL DEF GlooxTypeOK

=============================================================================
