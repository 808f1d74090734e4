----------------------------- MODULE GlooxRoom -----------------------------
(***************************************************************************)
(* A MUCRoom object of gloox and the room it stands for: entering, leaving *)
(* and being put out, changing the nick, creating, configuring and         *)
(* destroying, and what the application is told.                           *)
(*                                                                         *)
(* The object keeps one nick, one wanted nick and one flag for being in;   *)
(* what it sends and what it is sent are in flight meanwhile, and a        *)
(* presence error does not say which presence it answers.                  *)
(***************************************************************************)
EXTENDS Naturals, Sequences, FiniteSets

CONSTANTS
    Nicks,
    NoNick,
    MaxRequests     \* bound on what the application asks of the room

VARIABLES
    room,           \* the fields of the MUCRoom
    requests,       \* the operations that wait for their answers: [id, op]
    toService,
    toRoom,
    service,        \* the room, as the service has it
    asked,          \* stanzas sent by the application so far
    last,           \* history: the last presence among them
    reports,        \* what the handlers were told of operations: [id, op, as]
    granted,        \* history: the operations the service carried out
    crossed,        \* history: a presence was sent before the last was answered, or
                    \*          one from inside was sent by who has been put out
    renamed,        \* history: a presence came while this object wanted a new nick,
                    \*          or while the one that has misread an error did
    misread         \* history: an error was taken for the answer to another presence

roomVars == <<room, requests, toService, toRoom, service, asked, last, reports, granted,
              crossed, renamed, misread>>

\* One operation stands for those that handleIqResult and handleIqError treat
\* alike: SetVisitor for the roles, the affiliations and the lists but the
\* owners' that are stored, RequestBanList for those that are fetched.
Lists == {"RequestBanList"}
Operations == Lists \cup {"SetVisitor", "StoreOwnerList", "RequestRoomConfig",
                          "SendRoomConfig", "DestroyRoom", "CreateInstantRoom", "CancelRoomCreation"}

ASSUME GlooxRoomAssumption == NoNick \notin Nicks /\ MaxRequests \in Nat

-----------------------------------------------------------------------------
\* instant: instantRoomHook; config: a MUCRoomConfigHandler is registered.
NewRoom(nick, instant, config) ==
    [joined |-> FALSE, nick |-> nick, newNick |-> NoNick, role |-> "none", creating |-> FALSE,
     instant |-> instant, config |-> config]

\* marks: the service says of a presence that it is the client's own.
RoomInit ==
    /\ \E nick \in Nicks, instant, config \in BOOLEAN :
            room = NewRoom(nick, instant, config)
    /\ requests = {}
    /\ toService = <<>>
    /\ toRoom = <<>>
    /\ service \in [occupant : {NoNick}, taken : SUBSET Nicks, locked : {FALSE},
                    putOut : {FALSE}, marks : BOOLEAN]
    /\ asked = 0
    /\ last = 0
    /\ reports = {}
    /\ granted = {}
    /\ crossed = FALSE
    /\ renamed = FALSE
    /\ misread = FALSE

Quiet == toService = <<>> /\ toRoom = <<>>

-----------------------------------------------------------------------------
(* What the application asks.                                              *)

Asks == asked < MaxRequests /\ asked' = asked + 1

\* A presence to a nick of the room, or none for unavailable.
SendsPresence(nick) ==
    /\ toService' = Append(toService, [type |-> "presence", nick |-> nick, id |-> asked + 1])
    /\ last' = asked + 1
    /\ crossed' = (crossed \/ ~Quiet \/ (room.joined /\ nick # NoNick /\ service.putOut))
    /\ UNCHANGED <<toRoom, service, reports, granted, misread>>

Join ==
    /\ ~room.joined
    /\ Asks
    /\ room' = [room EXCEPT !.joined = TRUE]
    /\ SendsPresence(room.nick)
    /\ UNCHANGED <<requests, renamed>>

Leave ==
    /\ room.joined
    /\ Asks
    /\ room' = [room EXCEPT !.joined = FALSE]
    /\ SendsPresence(NoNick)
    /\ UNCHANGED <<requests, renamed>>

\* The destructor, and a new object for the same room, as a junction does when
\* it rejoins.
Replace ==
    /\ Asks
    /\ room' = NewRoom(room.nick, room.instant, room.config)
    /\ requests' = {}
    /\ renamed' = (renamed /\ misread)
    /\ IF room.joined THEN SendsPresence(NoNick)
       ELSE UNCHANGED <<toService, last, crossed, toRoom, service, reports, granted, misread>>

\* Mutant: the nick is wanted before it is known whether the room was entered.
SetNick_WantedFirst(nick) ==
    /\ Asks
    /\ IF room.joined
       THEN room' = [room EXCEPT !.newNick = nick] /\ SendsPresence(nick)
       ELSE /\ room' = [room EXCEPT !.nick = nick, !.newNick = nick]
            /\ UNCHANGED <<toService, last, crossed, toRoom, service, reports, granted, misread>>
    /\ UNCHANGED <<requests, renamed>>

SetNick(nick) ==
    /\ Asks
    /\ IF room.joined
       THEN room' = [room EXCEPT !.newNick = nick] /\ SendsPresence(nick)
       ELSE /\ room' = [room EXCEPT !.nick = nick]
            /\ UNCHANGED <<toService, last, crossed, toRoom, service, reports, granted, misread>>
    /\ UNCHANGED <<requests, renamed>>

SetPresence ==
    /\ room.joined
    /\ Asks
    /\ SendsPresence(room.nick)
    /\ UNCHANGED <<room, requests, renamed>>

SendsIq(op) ==
    /\ toService' = Append(toService, [type |-> "iq", op |-> op, id |-> asked + 1])
    /\ requests' = requests \cup {[id |-> asked + 1, op |-> op]}

\* setRole, setAffiliation, requestList, storeList, requestRoomConfig,
\* setRoomConfig, destroy, acknowledgeInstantRoom and cancelRoomCreation: the
\* first six of somebody in the room, lists to somebody with a handler for them,
\* the last two of who is creating the room.
Permitted(op) ==
    /\ op = "DestroyRoom" \/ room.joined
    /\ op \in Lists => room.config
    /\ op \in {"CreateInstantRoom", "CancelRoomCreation"} => room.creating

Operate(op) ==
    /\ Permitted(op)
    /\ Asks
    /\ SendsIq(op)
    /\ room' = IF op \in {"CreateInstantRoom", "CancelRoomCreation", "RequestRoomConfig"}
               THEN [room EXCEPT !.creating = FALSE] ELSE room
    /\ UNCHANGED <<toRoom, service, last, reports, granted, crossed, renamed, misread>>

-----------------------------------------------------------------------------
(* What the object is sent.                                                *)

Received(type) == toRoom # <<>> /\ Head(toRoom).type = type

Handled == toRoom' = Tail(toRoom) /\ UNCHANGED <<service, granted, crossed>>

\* handlePresence, an error: of the nick change, if one is wanted, or else of
\* having entered.  A room that has left hears of neither.
HandlePresenceError ==
    /\ Received("error")
    /\ Handled
    /\ LET stanza == Head(toRoom) IN
       /\ room' = IF ~room.joined THEN room
                  ELSE IF room.newNick = NoNick THEN [room EXCEPT !.joined = FALSE]
                  ELSE [room EXCEPT !.newNick = NoNick]
       /\ misread' = \/ misread
                     \/ room.joined /\ stanza.entry # (room.newNick = NoNick)
                     \/ room.joined /\ stanza.id # last
    /\ UNCHANGED <<requests, toService, asked, last, reports, renamed>>

\* handlePresence, of the client's own: the rest is passed to the application.
WithRole(r, p) == IF p.self THEN [r EXCEPT !.role = p.role] ELSE r

\* Mutant: a presence of the client's own that says no new nick is one to none.
Renames_ToNone(r, p) ==
    p.role = "none" /\ (p.self \/ (r.nick = p.nick /\ p.newNick = r.newNick))

Renames(r, p) ==
    p.newNick # NoNick /\ (p.self \/ (r.nick = p.nick /\ p.newNick = r.newNick))

WithNick(r, p) ==
    LET q == IF p.assigned THEN [r EXCEPT !.nick = p.nick] ELSE r
    IN  IF Renames(q, p) THEN [q EXCEPT !.nick = p.newNick] ELSE q

\* A new room: an instant room, and one whose handler agrees, is accepted as it
\* is, at once.
HandlePresence(accepts) ==
    /\ Received("presence")
    /\ Handled
    /\ LET p == Head(toRoom)
           accepted == room.joined /\ p.newRoom /\ (room.instant \/ accepts)
           r == WithNick(WithRole([room EXCEPT !.creating = (@ \/ p.newRoom) /\ ~accepted], p), p)
       IN  /\ room' = IF room.joined THEN r ELSE room
           /\ renamed' = (renamed \/ (room.joined /\ room.newNick # NoNick))
           /\ IF accepted
              THEN /\ toService' = Append(toService, [type |-> "iq", op |-> "CreateInstantRoom", id |-> 0])
                   /\ requests' = requests \cup {[id |-> 0, op |-> "CreateInstantRoom"]}
              ELSE UNCHANGED <<toService, requests>>
    /\ UNCHANGED <<asked, last, reports, misread>>

\* handleIqResult and handleIqError: which operations are reported, and how.
ReportOfResult(op) ==
    CASE op \in {"SendRoomConfig", "StoreOwnerList"} -> "nothing"
      [] op = "RequestRoomConfig" -> "form"
      [] op \in Lists -> "list"
      [] OTHER -> "success"

ReportOfError(op) == IF op = "SendRoomConfig" THEN "nothing" ELSE "failure"

\* Mutant: the answer is told, and waited for again.
HandleIqID_KeepsWaiting ==
    /\ Received("iq")
    /\ Handled
    /\ LET stanza == Head(toRoom)
           mine == {r \in requests : r.id = stanza.id /\ r.op = stanza.op}
       IN  reports' = IF room.config
                      THEN reports \cup {[id |-> r.id, op |-> r.op,
                             as |-> IF stanza.ok THEN ReportOfResult(r.op) ELSE ReportOfError(r.op)] : r \in mine}
                      ELSE reports
    /\ UNCHANGED <<room, requests, toService, asked, last, renamed, misread>>

\* handleIqID: an answer nobody waits for is dropped.
HandleIqID ==
    /\ Received("iq")
    /\ Handled
    /\ LET stanza == Head(toRoom)
           mine == {r \in requests : r.id = stanza.id /\ r.op = stanza.op}
       IN  /\ requests' = requests \ mine
           /\ reports' = IF room.config
                         THEN reports \cup {[id |-> r.id, op |-> r.op,
                                as |-> IF stanza.ok THEN ReportOfResult(r.op) ELSE ReportOfError(r.op)] : r \in mine}
                         ELSE reports
    /\ UNCHANGED <<room, toService, asked, last, renamed, misread>>

-----------------------------------------------------------------------------
(* The service.                                                            *)

CrossedBy(s) ==
    s.putOut /\ ~service.putOut /\ \E i \in DOMAIN toService : toService[i].type = "presence"

RoomServes(s, stanzas) ==
    /\ service' = s
    /\ toService' = Tail(toService)
    /\ toRoom' = toRoom \o stanzas
    /\ crossed' = (crossed \/ CrossedBy(s))
    /\ UNCHANGED <<room, requests, asked, last, reports, renamed, misread>>

Own(nick, newNick, role, newRoom, assigned) ==
    [type |-> "presence", nick |-> nick, newNick |-> newNick, role |-> role,
     self |-> service.marks, newRoom |-> newRoom, assigned |-> assigned]

\* Refused to enter, or refused something as an occupant.
RoomRefusal(p) == [type |-> "error", entry |-> service.occupant = NoNick, id |-> p.id]

\* A presence: to enter, to change the nick or the presence, or to leave.
ServePresence ==
    /\ toService # <<>> /\ Head(toService).type = "presence"
    /\ UNCHANGED granted
    /\ LET nick == Head(toService).nick
           now == service.occupant
           free == service.taken = {} /\ ~service.locked
       IN
       \/ /\ nick # NoNick /\ now = NoNick /\ nick \notin service.taken
          /\ RoomServes([service EXCEPT !.occupant = nick, !.locked = free, !.putOut = FALSE],
                    <<Own(nick, NoNick, "participant", free, FALSE)>>)
       \/ \E other \in Nicks \ (service.taken \cup {nick}) :
            /\ nick # NoNick /\ now = NoNick /\ service.marks /\ ~free
            /\ RoomServes([service EXCEPT !.occupant = other, !.putOut = FALSE],
                      <<Own(other, NoNick, "participant", FALSE, TRUE)>>)
       \/ /\ nick \in service.taken
          /\ RoomServes(service, <<RoomRefusal(Head(toService))>>)
       \/ /\ nick # NoNick /\ now = nick
          /\ RoomServes(service, <<Own(nick, NoNick, "participant", FALSE, FALSE)>>)
       \/ /\ nick # NoNick /\ now \notin {NoNick, nick} /\ nick \notin service.taken
          /\ RoomServes([service EXCEPT !.occupant = nick],
                    <<Own(now, nick, "participant", FALSE, FALSE), Own(nick, NoNick, "participant", FALSE, FALSE)>>)
       \/ /\ nick = NoNick /\ now # NoNick
          /\ RoomServes([service EXCEPT !.occupant = NoNick, !.locked = FALSE],
                    <<Own(now, NoNick, "none", FALSE, FALSE)>>)
       \/ /\ nick = NoNick /\ now = NoNick
          /\ RoomServes(service, <<>>)

\* The client is put out, by an operation of its own or by somebody else.
PutOut(s) == [s EXCEPT !.occupant = NoNick, !.locked = FALSE, !.putOut = TRUE]

ServeIq ==
    /\ toService # <<>> /\ Head(toService).type = "iq"
    /\ LET op == Head(toService).op
           id == Head(toService).id
           Answer(ok) == <<[type |-> "iq", id |-> id, op |-> op, ok |-> ok]>>
           in == service.occupant # NoNick
       IN
       \/ /\ in /\ op \notin {"DestroyRoom", "CancelRoomCreation"}
          /\ granted' = granted \cup {id}
          /\ RoomServes([service EXCEPT !.locked = @ /\ op \notin {"CreateInstantRoom", "SendRoomConfig"}], Answer(TRUE))
       \/ /\ in /\ op \in {"DestroyRoom", "CancelRoomCreation"}
          /\ granted' = granted \cup {id}
          /\ RoomServes(PutOut(service), <<Own(service.occupant, NoNick, "none", FALSE, FALSE)>> \o Answer(TRUE))
       \/ /\ op # "CreateInstantRoom" \/ ~in
          /\ UNCHANGED granted
          /\ RoomServes(service, Answer(FALSE))

Kick ==
    /\ service.occupant # NoNick /\ service.taken # {}
    /\ service' = PutOut(service)
    /\ toRoom' = Append(toRoom, Own(service.occupant, NoNick, "none", FALSE, FALSE))
    /\ crossed' = (crossed \/ CrossedBy(PutOut(service)))
    /\ UNCHANGED <<room, requests, toService, asked, last, reports, granted, renamed, misread>>

\* Others come and go; a locked room lets nobody in.
OthersMove ==
    /\ ~service.locked
    /\ \E t \in SUBSET (Nicks \ {service.occupant}) : service' = [service EXCEPT !.taken = t]
    /\ UNCHANGED <<room, requests, toService, toRoom, asked, last, reports, granted, crossed, renamed, misread>>

RoomNext ==
    \/ Join \/ Leave \/ Replace \/ SetPresence
    \/ \E nick \in Nicks : SetNick(nick)
    \/ \E op \in Operations : Operate(op)
    \/ HandlePresenceError \/ HandleIqID
    \/ \E accepts \in BOOLEAN : HandlePresence(accepts)
    \/ ServePresence \/ ServeIq \/ Kick \/ OthersMove

RoomSpec == RoomInit /\ [][RoomNext]_roomVars

-----------------------------------------------------------------------------
(* Properties.                                                             *)

\* Every variable holds values of its type.
RoomTypeOK ==
    /\ room \in [joined : BOOLEAN, nick : Nicks, newNick : Nicks \cup {NoNick},
                 role : {"none", "participant"}, creating : BOOLEAN, instant : BOOLEAN, config : BOOLEAN]
    /\ requests \subseteq [id : 0..MaxRequests, op : Operations]
    /\ service \in [occupant : Nicks \cup {NoNick}, taken : SUBSET Nicks, locked : BOOLEAN,
                    putOut : BOOLEAN, marks : BOOLEAN]
    /\ {asked, last} \subseteq 0..MaxRequests
    /\ reports \subseteq [id : 0..MaxRequests, op : Operations,
                          as : {"nothing", "form", "list", "success", "failure"}]
    /\ granted \subseteq 0..MaxRequests
    /\ {crossed, renamed, misread} \subseteq BOOLEAN

\* A presence error is taken for what it is, unless the application sends a
\* presence before the last one is answered, or has changed its nick before:
\* m_newNick is never cleared when the change is acknowledged
\* (mucroom.cpp:957-967), and the next refusal to enter is then taken for one
\* of the nick.
ErrorsUnderstood == misread => crossed \/ renamed

\* Once nothing is in flight the object is right about the room: it is in iff
\* the service has it as an occupant, or has put it out; and it has the nick
\* that the service has it by.
ObjectIsRight ==
    Quiet /\ ~misread =>
        /\ room.joined => service.occupant # NoNick \/ service.putOut
        /\ service.occupant # NoNick => room.joined
        /\ service.occupant # NoNick /\ ~crossed => room.nick = service.occupant

\* An instant room is open to others as soon as its creation is answered, and
\* stays so: the creator leaves no room locked.
InstantRoomOpens == Quiet /\ room.instant /\ ~crossed => ~service.locked

\* The object and the room it stands for come to agree: on who is in, by which
\* nick, on what was refused, and on whether the room is open.
RoomUnderstood == ErrorsUnderstood /\ ObjectIsRight /\ InstantRoomOpens

\* The end of every operation is reported, once and truly: but for a
\* configuration that is sent, of which nothing is ever heard
\* (mucroom.cpp:1116-1200), and a list of owners that is stored.
OperationsEnd ==
    /\ \A r \in reports :
        /\ r.as = "nothing" => r.op = "SendRoomConfig" \/ (r.op = "StoreOwnerList" /\ r.id \in granted)
        /\ r.as \in {"success", "form", "list"} => r.id \in granted
        /\ r.as = "failure" /\ r.id # 0 => r.id \notin granted
        /\ \A s \in reports : s.id = r.id /\ r.id # 0 => s = r
    /\ Quiet => requests = {}

=============================================================================
