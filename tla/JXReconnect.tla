----------------------------- MODULE JXReconnect -----------------------------
(***************************************************************************)
(* Reconnecting: reconnect and rejoinSessionChat of                        *)
(* Classes/provider/xmpp/JXXMPPJunction.mm over syncConnectClient and      *)
(* getClientWithConfig of JXXMPPJunctionProvider.mm, and the client's      *)
(* connection underneath (gloox).                                          *)
(*                                                                         *)
(* Whichever thread learns of a lost or refused connection runs reconnect  *)
(* itself: it waits for the provider's monitor, has another thread connect *)
(* and waits five seconds for that; then it sends a transient actor, a     *)
(* client of its own, ahead and joins the room again.  A failure at any    *)
(* point disconnects and starts over, on the same thread.  So several      *)
(* threads may be reconnecting the one client of the junction, with one    *)
(* lock for the connection and one for the room between them.  Meanwhile   *)
(* the application sends, leaves, or asks the provider for the description *)
(* of another activity.                                                    *)
(*                                                                         *)
(* A handler has returned before the time limit of whoever waits for it is *)
(* over, and a receiving thread has left a closed connection before the    *)
(* next is opened.                                                         *)
(***************************************************************************)
EXTENDS Integers, FiniteSets

CONSTANTS
    Threads,      \* bound: the threads alive at one time
    Prompt,       \* what is under way arrives within the time limits
    TimeLimit,    \* the configuration limits the time to connect a new client
    Answered,     \* whoever asks for the information of a room is told
    MaxLosses,    \* bound: connections lost in a run
    MaxRefusals,  \* bound: connections and joins refused in a run
    MaxCalls      \* bound: calls of the application's, but for sending

ASSUME ThreadsAssumption == Threads # {}
ASSUME ModesAssumption == Prompt \in BOOLEAN /\ TimeLimit \in BOOLEAN /\ Answered \in BOOLEAN
ASSUME BoundsAssumption == MaxLosses \in Nat /\ MaxRefusals \in Nat /\ MaxCalls \in Nat

VARIABLES
    place,            \* where each thread stands
    conn,             \* the connection of the junction's client
    connectionLock,   \* the condition of the provider's lock
    roomLock,         \* the condition of the junction's lock
    asked,            \* the room was asked, by this connection, and has not answered
    inRoom,           \* the room counts this connection in
    away,             \* history: the application left, and was not admitted since
    losses, refusals, calls

vars == <<place, conn, connectionLock, roomLock, asked, inRoom, away, losses, refusals, calls>>
application == <<away, calls>>

\* A thread that runs reconnect, from its call to its return.
Mending == {"reconnect", "waiting", "failed"}
Rejoining == {"kicking", "helping", "stranded", "helped", "joining"}
Places == {"free", "starting", "opening", "receiving", "fetching", "unanswered"} \cup Mending \cup Rejoining

\* The provider's monitor is held through the wait for a connection, and for
\* the information of a room.
MonitorFree ==
    \A t \in Threads : place[t] \notin {"waiting", "helping", "stranded", "fetching", "unanswered"}

Receiving == \E t \in Threads : place[t] = "receiving"

Init ==
    /\ \E t \in Threads : place = [x \in Threads |-> IF x = t THEN "receiving" ELSE "free"]
    /\ conn = "online"
    /\ connectionLock = "READY"
    /\ roomLock = "READY"
    /\ asked = FALSE
    /\ inRoom = TRUE
    /\ away = FALSE
    /\ losses = 0
    /\ refusals = 0
    /\ calls = 0

\* Thread t goes on at next; whoever received on the connection leaves it.
Ends(t, next) ==
    place' = [x \in Threads |-> IF x = t THEN next ELSE IF place[x] = "receiving" THEN "free" ELSE place[x]]
Goes(t, next) == place' = [place EXCEPT ![t] = next]

\* The connection is closed, with all that was asked by it.  cleanup only tries
\* the locks for sending and receiving: when another thread has one of them,
\* the client goes on calling a dead connection connected.
Closes(outcomes) == conn' \in outcomes /\ asked' = FALSE /\ inRoom' = FALSE

Refuse == refusals < MaxRefusals /\ refusals' = refusals + 1

\* A broken connection is one loss, whoever notices.
Lose == IF conn = "broken" THEN UNCHANGED losses ELSE losses < MaxLosses /\ losses' = losses + 1

(***************************************************************************)
(* The thread that connects, and then receives: client->connect().         *)
(***************************************************************************)
\* A client that has a connection, or opens one, lets the call return.
Connect(b) ==
    /\ place[b] = "starting"
    /\ IF conn = "down" THEN conn' = "opening" /\ Goes(b, "opening")
                        ELSE UNCHANGED conn /\ Goes(b, "free")
    /\ UNCHANGED <<application, connectionLock, roomLock, asked, inRoom, losses, refusals>>

Connected(b) ==
    /\ place[b] = "opening"
    /\ conn' = "connected"
    /\ Goes(b, "receiving")
    /\ UNCHANGED <<application, connectionLock, roomLock, asked, inRoom, losses, refusals>>

\* handleDisconnect calls the junction's listener, which reconnects right here.
Refused(b) ==
    /\ place[b] = "opening"
    /\ Refuse
    /\ conn' = "down"
    /\ Goes(b, "reconnect")
    /\ UNCHANGED <<application, connectionLock, roomLock, asked, inRoom, losses>>

\* Logged in: the provider's listener, if one is registered, notifies.
OnConnect(b) ==
    /\ place[b] = "receiving"
    /\ conn = "connected"
    /\ conn' = "online"
    /\ connectionLock' = IF connectionLock = "WAITING" THEN "DONE" ELSE connectionLock
    /\ UNCHANGED <<application, place, roomLock, asked, inRoom, losses, refusals>>

\* Mutant: a thread that is busy with the room is thought to see to it.
OnDisconnect_Ignored(b) ==
    /\ place[b] = "receiving"
    /\ Lose
    /\ Closes({"down", "dead"})
    /\ Goes(b, IF \E t \in Threads : place[t] \in Rejoining THEN "free" ELSE "reconnect")
    /\ UNCHANGED <<application, connectionLock, roomLock, refusals>>

\* The connection is lost, or the login refused.
OnDisconnect(b) ==
    /\ place[b] = "receiving"
    /\ Lose
    /\ Closes({"down", "dead"})
    /\ Goes(b, "reconnect")
    /\ UNCHANGED <<application, connectionLock, roomLock, refusals>>

\* The presence that ends the wait for the room.
RoomAdmits(b) ==
    /\ place[b] = "receiving"
    /\ asked
    /\ asked' = FALSE
    /\ inRoom' = TRUE
    /\ away' = FALSE
    /\ roomLock' = IF roomLock = "WAITING" THEN "DONE" ELSE roomLock
    /\ UNCHANGED <<place, conn, connectionLock, losses, refusals, calls>>

RoomRefuses(b) ==
    /\ place[b] = "receiving"
    /\ asked
    /\ Refuse
    /\ asked' = FALSE
    /\ UNCHANGED <<application, place, conn, connectionLock, roomLock, inRoom, losses>>

(***************************************************************************)
(* A thread in reconnect.                                                  *)
(***************************************************************************)
\* syncConnectClient: enter the monitor and have another thread connect.
SyncConnectClient(t) ==
    /\ place[t] = "reconnect"
    /\ MonitorFree
    /\ \E b \in Threads :
          /\ place[b] = "free"
          /\ place' = [place EXCEPT ![t] = "waiting", ![b] = "starting"]
    /\ connectionLock' = "WAITING"
    /\ UNCHANGED <<application, conn, roomLock, asked, inRoom, losses, refusals>>

SyncReturns(t) ==
    /\ place[t] = "waiting"
    /\ connectionLock = "DONE"
    /\ connectionLock' = "READY"
    /\ Goes(t, IF conn \in {"down", "opening"} THEN "failed" ELSE "kicking")
    /\ UNCHANGED <<application, conn, roomLock, asked, inRoom, losses, refusals>>

\* Five seconds are over.
SyncTimesOut(t) ==
    /\ place[t] = "waiting"
    /\ connectionLock # "DONE"
    /\ Prompt => conn \notin {"opening", "connected"} /\ \A b \in Threads : place[b] # "starting"
    /\ connectionLock' = "READY"
    /\ Goes(t, "failed")
    /\ UNCHANGED <<application, conn, roomLock, asked, inRoom, losses, refusals>>

\* rejoinSessionChat: the transient actor needs a connection of its own.
SendTransient(t) ==
    /\ place[t] = "kicking"
    /\ MonitorFree
    /\ Goes(t, "helping")
    /\ UNCHANGED <<application, conn, connectionLock, roomLock, asked, inRoom, losses, refusals>>

TransientConnects(t) ==
    /\ place[t] = "helping"
    /\ Goes(t, "helped")
    /\ UNCHANGED <<application, conn, connectionLock, roomLock, asked, inRoom, losses, refusals>>

\* Mutant: the junction is built on the client that is not there.
TransientFails_Crashes(t) ==
    /\ place[t] = "helping"
    /\ Refuse
    /\ Goes(t, IF TimeLimit THEN "crashed" ELSE "stranded")
    /\ UNCHANGED <<application, conn, connectionLock, roomLock, asked, inRoom, losses>>

\* Without a time limit nobody ever ends the wait for a connection refused.
TransientFails(t) ==
    /\ place[t] = "helping"
    /\ Refuse
    /\ Goes(t, IF TimeLimit THEN "failed" ELSE "stranded")
    /\ UNCHANGED <<application, conn, connectionLock, roomLock, asked, inRoom, losses>>

\* joinSessionChat with a new room object; the old one left the room.
JoinSessionChat(t) ==
    /\ place[t] = "helped"
    /\ Goes(t, "joining")
    /\ roomLock' = "WAITING"
    /\ asked' = (conn = "online")
    /\ inRoom' = FALSE
    /\ UNCHANGED <<application, conn, connectionLock, losses, refusals>>

\* The rejoin succeeded; reconnect returns and the thread ends.
JoinReturns(t) ==
    /\ place[t] = "joining"
    /\ roomLock = "DONE"
    /\ roomLock' = "READY"
    /\ Goes(t, "free")
    /\ UNCHANGED <<application, conn, connectionLock, asked, inRoom, losses, refusals>>

\* Ten seconds are over.
JoinTimesOut(t) ==
    /\ place[t] = "joining"
    /\ roomLock # "DONE"
    /\ Prompt => ~asked
    /\ roomLock' = "READY"
    /\ Goes(t, "failed")
    /\ UNCHANGED <<application, conn, connectionLock, asked, inRoom, losses, refusals>>

\* Mutant: the connection is left as it is before the next attempt.
Disconnect_Keeps(t) ==
    /\ place[t] = "failed"
    /\ conn # "opening"
    /\ Goes(t, "reconnect")
    /\ UNCHANGED <<application, conn, connectionLock, roomLock, asked, inRoom, losses, refusals>>

\* disconnect, and triggerDisconnect, which calls reconnect again.
Disconnect(t) ==
    /\ place[t] = "failed"
    /\ conn # "opening"
    /\ Ends(t, "reconnect")
    /\ Closes(IF Receiving THEN {"down", "dead"} ELSE {"down"})
    /\ UNCHANGED <<application, connectionLock, roomLock, losses, refusals>>

\* The connection is closed while another thread opens it, after the lock of
\* the socket and before that thread has noted that it is open: the thread
\* finds the socket closed and reports that; or it calls the closed connection
\* connected and goes; or it begins to receive and ends; or, when the lock for
\* receiving was taken, the connection stays until the server closes it.
ClosesOpening(t, next) ==
    \E b \in Threads :
        /\ place[b] = "opening"
        /\ \E end \in {<<"down", "reconnect">>, <<"dead", "free">>, <<"down", "free">>, <<"connected", "receiving">>} :
              conn' = end[1] /\ place' = [place EXCEPT ![t] = next, ![b] = end[2]]

DisconnectOpening(t) ==
    /\ place[t] = "failed"
    /\ ClosesOpening(t, "reconnect")
    /\ UNCHANGED <<application, connectionLock, roomLock, asked, inRoom, losses, refusals>>

(***************************************************************************)
(* A thread of the application's, or of a timer's.                         *)
(***************************************************************************)
\* Mutant: who sends leaves the reconnection to whoever receives.
SendFails_LeavesIt(t) ==
    /\ place[t] = "free"
    /\ conn \notin {"down", "opening"}
    /\ Lose
    /\ asked' = FALSE /\ inRoom' = FALSE
    /\ \/ conn' = "down" /\ Ends(t, "free")
       \/ Receiving /\ conn' = "broken" /\ Goes(t, "free")
    /\ UNCHANGED <<application, connectionLock, roomLock, refusals>>

\* A send finds the connection gone, and reconnects before it returns.  Whoever
\* receives ends, or has the lock for receiving and notices by itself.
SendFails(t) ==
    /\ place[t] = "free"
    /\ conn \notin {"down", "opening"}
    /\ Lose
    /\ asked' = FALSE /\ inRoom' = FALSE
    /\ \/ conn' = "down" /\ Ends(t, "reconnect")
       \/ Receiving /\ conn' = "broken" /\ Goes(t, "reconnect")
    /\ UNCHANGED <<application, connectionLock, roomLock, refusals>>

Call == calls < MaxCalls /\ calls' = calls + 1

\* disconnect of the application's, of which the junction's listener takes no
\* notice.  When there is no connection nothing happens, and a reconnection that
\* is under way goes on.
Leave(t) ==
    /\ place[t] = "free"
    /\ Call
    /\ conn \notin {"down", "opening"}
    /\ Ends(t, "free")
    /\ Closes(IF Receiving THEN {"down", "dead"} ELSE {"down"})
    /\ away' = TRUE
    /\ UNCHANGED <<connectionLock, roomLock, losses, refusals>>

LeaveOpening(t) ==
    /\ place[t] = "free"
    /\ Call
    /\ ClosesOpening(t, "free")
    /\ away' = TRUE
    /\ UNCHANGED <<connectionLock, roomLock, asked, inRoom, losses, refusals>>

\* getActivityScriptForURL: a connection and a room of its own, in the monitor.
Fetch(t) ==
    /\ place[t] = "free"
    /\ MonitorFree
    /\ Call
    /\ Goes(t, "fetching")
    /\ UNCHANGED <<away, conn, connectionLock, roomLock, asked, inRoom, losses, refusals>>

\* Nobody ends the wait for information that does not come.
FetchEnds(t) ==
    /\ place[t] = "fetching"
    /\ \E next \in {"free"} \cup IF Answered THEN {} ELSE {"unanswered"} : Goes(t, next)
    /\ UNCHANGED <<application, conn, connectionLock, roomLock, asked, inRoom, losses, refusals>>

Act(t) ==
    \/ Connect(t) \/ Connected(t) \/ OnConnect(t) \/ RoomAdmits(t)
    \/ SyncReturns(t) \/ SyncTimesOut(t)
    \/ TransientConnects(t) \/ JoinSessionChat(t) \/ JoinReturns(t) \/ JoinTimesOut(t)
    \/ Disconnect(t) \/ DisconnectOpening(t) \/ FetchEnds(t)

Enter(t) == SyncConnectClient(t) \/ SendTransient(t)

Fail(t) == Refused(t) \/ OnDisconnect(t) \/ SendFails(t) \/ RoomRefuses(t) \/ TransientFails(t)

Ask(t) == Leave(t) \/ LeaveOpening(t) \/ Fetch(t)

Next == \E t \in Threads : Act(t) \/ Enter(t) \/ Fail(t) \/ Ask(t)

Spec == Init /\ [][Next]_vars

\* Threads run, waits end; a monitor that is free lets somebody in.
Fairness == (\A t \in Threads : WF_vars(Act(t))) /\ WF_vars(\E t \in Threads : Enter(t))

FairSpec == Spec /\ Fairness

(***************************************************************************)
(* Properties.                                                             *)
(***************************************************************************)
\* The threads stand at places of the code and the locks have its conditions.
TypeOK ==
    /\ place \in [Threads -> Places]
    /\ conn \in {"down", "opening", "connected", "online", "dead", "broken"}
    /\ connectionLock \in {"READY", "WAITING", "DONE"}
    /\ roomLock \in {"READY", "WAITING", "DONE"}
    /\ asked \in BOOLEAN
    /\ inRoom \in BOOLEAN
    /\ away \in BOOLEAN
    /\ losses \in 0..MaxLosses
    /\ refusals \in 0..MaxRefusals
    /\ calls \in 0..MaxCalls

Reconnecting(t) == place[t] \in Mending \cup Rejoining
Quiet == \A t \in Threads : ~Reconnecting(t)
Back == conn = "online" /\ inRoom /\ Receiving

\* No thread gives up or returns for another's success: unless one of them is
\* still at it, the junction is in the room, by a connection on which a thread
\* receives and so will learn of its loss (reconnect, lines 194-206), or the
\* application has left, and nobody has let it in since.
NobodyGivesUp == Quiet => Back \/ away

\* What every step keeps, from which NobodyGivesUp follows: the connection and
\* its one thread agree, and for whatever is missing somebody is at the place
\* of the code that will bring it back, unless the application left.
Somebody(places) == \E t \in Threads : place[t] \in places
OneConnection ==
    /\ \A t, u \in Threads :
          place[t] \in {"opening", "receiving"} /\ place[u] \in {"opening", "receiving"} => t = u
    /\ \A t \in Threads : place[t] = "opening" => conn = "opening"
    /\ \A t \in Threads : place[t] = "receiving" => conn \in {"connected", "online", "broken"}
    /\ conn = "online" => Receiving
    /\ asked \/ inRoom => conn = "online"
Mended ==
    /\ conn # "online" => Somebody(Mending) \/ away
    /\ connectionLock = "DONE" /\ conn # "online" => Somebody({"reconnect", "failed"}) \/ away
    /\ ~inRoom => Somebody(Mending \cup Rejoining) \/ away
    /\ roomLock = "DONE" /\ ~inRoom => Somebody((Mending \cup Rejoining) \ {"joining"}) \/ away
ReconnectInvariant == OneConnection /\ Mended

\* The retries end where they should: unless two threads go on reconnecting
\* against one another, each disconnecting what the other connected, the junction
\* is back in the room in the end, and stays there, whatever the application
\* sends and asks of the provider meanwhile; or it has left.
Rivals == \E t, u \in Threads : t # u /\ Reconnecting(t) /\ Reconnecting(u)
ComesBack == (<>[]~Rivals) => <>[](Quiet /\ (Back \/ away))

=============================================================================
