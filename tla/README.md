# iPhoneJunction in TLA+

iPhoneJunction is an Objective-C library for activities shared by several
devices. An *actor* joins an *activity*, which is a chat room of an XMPP server
(the *switchboard*); it sends messages to the room, to a role or to one actor,
and it may keep *replicated properties*: state of which every actor holds a copy
and to which everybody applies the same operations. There are no locks between
devices and no server of its own: the room's order of messages, the time limits of
the joining code, and the threads of each device are all there is. Underneath is
gloox, an XMPP library kept in the repository, whose lists of handlers, parser, room
object and login every junction runs through. That is what these modules are about.

Paths below are relative to `src/`; `JXProp.m:294` is line 294 of
`src/Classes/props/JXProp.m`.

## 1. Inventory

### Components, their state, operations and interactions

| Component | Code | State | Operations | Talks to |
|---|---|---|---|---|
| Replicated property | `props/JXProp.m` | `state` (predicted), `cleanState`, `pendingLocals`, `sequenceNum`, `lastOpUUID`, `mode`, `syncId`, `waitingForIHaveState`, `opsSYNC`, `active` | `addOperation:`, `_handleMessage:`, `periodicTask:` (3 s / 5 s), `afterActivityJoin` | is an extra of a junction: sees messages in `beforeOnMessageReceived:`, sends through its actor; calls change listeners |
| Array state | `props/sample/JXArrayState.m`, `JXArrayProp.m`, `JXDictionaryWrapper.m` | the items, a hash | add, delete, replace, clear; copy; to and from a dictionary | is the state of a property |
| Chat room as seen by a replica | `provider/xmpp/JXXMPPJunction.mm`, `JXXMPPJunctionRoomHandler.*`, `JXXMPPJunctionConnectionListener.mm` | message handlers, connection | multicast, private message, enter, lose, rejoin, leave | the server; hands messages to the junction |
| Joining a room | `JXXMPPJunction.mm` (`joinSessionChat`, `rejoinSessionChat`), room and config handlers, `JXJunctionProvider.m`, gloox `mucroom.cpp` | `roomLock`, the activity creator flag, gloox's `m_joined`, the server's room | request, wait at most 10 s, be told; create, configure, unlock; refuse; rejoin behind a transient actor | the receiving thread ends the wait of the calling one |
| Provider and reconnection | `JXXMPPJunctionProvider.mm`, `JXXMPPJunction.mm` (`reconnect`, `disconnect`), `JXXMPPProviderConnectionListener.mm`, gloox `clientbase.cpp`, `connectiontcp*.cpp` | `connectionLock`, the monitor of the provider, the client's connection | connect in the background with a limit, reconnect, send, leave, fetch a description | listeners called on the receiving thread, or inside a send, start a reconnection right there |
| Junction | `JXJunction.m`, `api/activity/JXJunctionActor.m` | the extras director, the actor | `sendMessage...`, `trigger...` | asks the extras, calls the actor |
| Extras director | `provider/JXExtrasDirector.m`, `JXJunctionExtra.m` | the list of extras | `registerExtra:`, a walk per hook | asks and tells each extra |
| Activity script | `api/activity/JXActivityScript.m` | fields and a cached dictionary | setters, `getDictionary` | the creator publishes it as the room's description; `getActivityScriptForURL:` reads it back |
| Message targets and headers | `api/messaging/`, `JXXMPPJunction.mm` (the senders), `JXXMPPJunctionRoomHandler.mm` | the role and the reply target, in the message's dictionary | to the session, to a role, to an actor; reply target | junction, room handler |
| gloox: client | `client.cpp`, `clientbase.cpp`, `nonsaslauth.cpp`, `rostermanager.cpp` | the stream's layers, `m_authed`, the resource bound, requests awaiting answers | connect, negotiate, log in, lose, disconnect, tell listeners | the server; connection listeners |
| gloox: handler lists | `clientbase.cpp`, `util.h` | lists of listeners and handlers, requests by id | register, remove, walk | everything above registers and removes |
| gloox: room object | `mucroom.cpp` | nick, wanted nick, `m_joined`, whether it is creating, operations awaiting answers | join, leave, nick, presence, configuration, lists, destroy | the service; room handlers |
| gloox: parser | `parser.cpp` | state of a scanner, the tag under construction, a back buffer | `feed`, `cleanup` | hands tags to the client |
| Keep-alive | `JXXMPPKeepAlive.m` | time of the last pong | a ping every 30 s | an extra; its registration is commented out |
| Invitations, maker, cast | `JXJunctionMaker.mm`, `JXCast.m` | parallel lists of roles and directors | build and parse invitation URLs, send one actor after another | provider |
| JSON | vendored | | | |

### What is hard here

* **Order against prediction.** A replica shows its own operation at once, the
  room orders it later, and others' operations come in between (`JXProp.m:175-216`);
  a change listener may issue the next operation from inside the dispatch of one that
  has not been sent (`JXProp.m:357-368`).
* **Resynchronisation in four messages** (HELLO, WHO_HAS_STATE / I_HAVE_STATE /
  SEND_ME_STATE / STATE_SYNC) with repetitions, joiners, peers that are themselves
  behind, and operations that go on being issued (`JXProp.m:248-355`).
* **Waits that another thread ends**: a condition lock set to WAITING, a request,
  a limit of 10 s (room) or 5 s (connection), and a listener that sets DONE if the
  lock is WAITING, whoever is waiting by then (`JXXMPPJunction.mm:97-106`,
  `JXXMPPJunctionProvider.mm:47-81`).
* **A room that must be configured** by whoever happens to create it, while others
  are refused (`JXXMPPJunctionRoomHandler.h:21-49`).
* **Reconnecting from a listener**, nested, on any thread that learns of a loss, a
  sender's too, several at once, each disconnecting on failure
  (`JXXMPPJunction.mm:194-206`), while the application leaves or fetches.
* **Callbacks into a list that is being walked** (`JXExtrasDirector.m`;
  `gloox/clientbase.cpp:1290-1383`, in four different ways).
* **A script with two owners**: cached while its fields change
  (`JXActivityScript.m:93-112, 171-174`), handed to the application while its room is
  open (`JXXMPPJunction.mm:164-166`); **a dictionary with two**: written into while the caller keeps it
  (`JXXMPPJunction.mm:248-260`).
* **A stream in pieces**, and what an interrupted one leaves in a parser that nobody
  resets (`gloox/parser.cpp`); layers that each end of a stream switches at a moment
  of its own, and listeners that connect again from inside `onDisconnect`
  (`gloox/client.cpp:148-297`, `gloox/clientbase.cpp:1295`).

`PROJECT.json` lists each hazard at its line, with the properties that would catch
it, or the reason why none does.

### What makes each component correct

* Property: replicas that stay hold the room's operations in the room's order;
  what is shown is that plus one's own pending operations; a late or returning
  replica counts right and comes to hold everything; nobody is asked twice for one
  synchronisation.
* Array: what is pending is what was sent and has not come back; nobody dies of what
  he receives while actors take turns.
* Joining: true is returned only to who is in an open room by the connection it
  has; one actor creates; the room does not stay locked; who was cut off comes back.
* Reconnecting: whatever times out, is refused or is noticed by a send, somebody is
  left who brings the connection back, and it does come back, unless the application left.
* Extras: asked in order, once, nobody passed over, no refusal overruled.
* Script: a room is described by its creator, and the description leads there, but for
  what was set behind the script's dictionary or behind the room's back.
* Messages: heard by whom they are for, and by nobody else.
* gloox: what was written is what is read; who is registered is told, once, and no
  iterator is used on a node that is gone; the room object agrees with the room; a
  client that needs TLS says nothing in the clear, and told "connected" means so.

## 2. Modules

| Module | Models | Composes / extends |
|---|---|---|
| `JXProp` | the replicas of one property and the room between them | |
| `OrderedLog` | abstract: one order, views that grow along it | |
| `JXPropInvariant` | the inductive invariants `OrderInvariant` (streams and counts), `Counted`, `SyncRounds` (rounds of SYNC mode), `HashInvariant` (what is shown) | `JXProp` |
| `JXPropProofs` | theorems about `JXProp`, and the refinement of `OrderedLog` | `JXPropInvariant` |
| `JXArray`, `JXArrayProofs` | the operations on an array's items, and listeners that issue operations; theorems | |
| `JXRoomJoin`, `JXRoomJoinProofs` | callers, handlers and the server's room; theorems | |
| `JXReconnect`, `JXReconnectProofs` | the threads that use one client; theorems | |
| `JXExtras` | the list of extras and the walks of three threads | |
| `JXScript` | scripts, their caches, descriptions of rooms | |
| `JXMessages` | whom a message is for and who is handed it | |
| `JXActivityProofs` | theorems about the three, and the types of all four of a run | `MCJXActivity` |
| `GlooxClient`, `GlooxClientProofs`, `GlooxLoginProofs` | a client logging in to a server; theorems about its layers, and about what "connected" means | |
| `GlooxDispatch` | a list of handlers walked while it changes | |
| `GlooxRoom` | a `MUCRoom` and the room of the service | |
| `GlooxParser` | the parser, fed in pieces over several connections | |
| `GlooxProofs` | theorems about the three | `MCGloox` |
| `MCJXProp`, `MCJXRoomJoin`, `MCJXReconnect`, `MCGlooxClient`, `MCGlooxParser` | instances for TLC | one module each |
| `MCJXActivity` | one run for four parts that share no state | `JXExtras`, `JXArray`, `JXScript`, `JXMessages` |
| `MCGloox` | likewise | `GlooxParser`, `GlooxDispatch`, `GlooxRoom` |

In the last two a constant variable `part` says which part a behaviour is of; the
other parts stay in one initial state. The parts are put side by side to be checked in
one run, not composed: nothing they share is left out.

### JXProp: replicas of a property

`prop[r]` is the object of replica r, field by field (`seqNum` is `sequenceNum`,
`lastOp` is `lastOpUUID`, `clean` is `cleanState`, `pending` is
`pendingLocals`). An operation is the number it was issued under, in place of its
uuid, and a state is the sequence of operations applied to it: any state class's
state is a function of that sequence, so what holds for the sequence holds for
the items. `NoOp` stands for an operation that was counted and not applied.

| Action | Code |
|---|---|
| `AddOperation` | `addOperation:` 357-368 |
| `PeriodicTask`, `SendHello`, `BroadcastSyncRequest` | `periodicTask:` 97-110 and the method it then calls; in two steps, because the mode is read outside the lock |
| `ApplyOperation`, `RaiseOnConflict` | STATE_OPERATION in NORM mode, `_handleReceivedOp:` 175-216 |
| `AnswerSendMeState`, `AnswerWhoHasState`, `EnterSync` | the other messages in NORM mode 259-287 |
| `BufferOperation`, `AcceptIHaveState`, `InstallState` | SYNC mode 288-315 and `_handleStateSyncMsg:` 323-355 |
| `IgnoreMessage` | everything that falls through |
| `JoinRoom`, `DropUnhandled`, `RegisterMessageHandler`, `AfterActivityJoin` | entering the room, and the messages that find no handler yet (`JXXMPPJunction.mm:168-188`) |
| `LoseConnection`, `RejoinRoom`, `LeaveRoom` | the connection; a rejoined property does not resynchronise, because it has no `afterActivityRejoin` |

The room is external: one FIFO stream to each occupant, all streams with the
groupchat stanzas in the same order, the sender's echo included, private stanzas
in between, and up to `HistoryLen` old stanzas to whoever enters. The amount of
history is the server's choice: `JXXMPPJunction.mm:93` asks for
`HistoryUnknown`, and `gloox/mucroom.h:91-103` then leaves it out.

`UnknownOp` is what the state class does with a dictionary that is no operation:
`_handleReceivedOp:` applies the pending *messages* to the fresh copy
(`JXProp.m:194`), and `JXArrayState` compares the message's numeric `type` with a
string, which raises. "raise" is the code of this repository; "ignore" is any other
class that reads only what it knows, as `JXArrayState` itself would with a string.

Not in this module: change listeners and the items of the array (`JXArray`), other
extras (`JXExtras`).

### JXArray: the items, and listeners that issue operations

`array[a]` holds the three copies of a replica that is in the room and in NORM mode:
the predicted items, the clean ones, the pending messages. `calls[a]` is the stack of
calls of `addOperation:` a thread is in: the lock is recursive, so a listener told of
EVT_CHANGE (line 363) may issue an operation before the first is pending and sent (364-366).

| Action | Code |
|---|---|
| `BeginChange` | `addOperation:` up to and with the dispatch of EVT_CHANGE, from the application or from a listener |
| `EndChange` | the rest of it: pending, sent |
| `HearOwn` | `_handleReceivedOp:` of an operation of the replica's own 175-183 |
| `HearOther` | the same of another's 184-216, with the exception of a pending message that is taken for an operation |

`Applied` is `applyOperation:` of `JXArrayState.m`; `OutOfRange` is the NSNotFound that
`replaceObjectAtIndex:` is given when the item to replace is gone. The application
deletes and replaces what it sees. The exception ends the process, since nobody catches it.

### JXRoomJoin: joining the room

Each person has an actor; one that was cut off sends a transient actor first
(`rejoinSessionChat`, `JXJunctionProvider.m:53-64`). `pc` is where the calling
thread stands, `lock` the condition of `roomLock`, `creator` the flag of the
activity script, `joined` gloox's `m_joined`, `up` and `down` the stanzas between
an actor and the server, `room` the server's room.

| Action | Code |
|---|---|
| `JoinSessionChat`, `JoinReturns`, `TimeUp`, `GiveUp` | `joinSessionChat` 85-107 with what its caller does on success or failure |
| `TriggerActorJoin`, `Reconnect`, `Leave`, `LoseConnection` | `registerActor:`, `reconnect`, `disconnect`, the connection listener |
| `HandleCreation`, `HandlePresence`, `HandleError`, `HandleConfigForm`, `HandleUnlocked` | the room and configuration handlers, on the receiving thread; gloox refuses a configuration request when `m_joined` is unset |
| `CreateRoom` ... `NoticeLoss` | the server: creates locked, admits to an open room, refuses a locked one and a nickname in use, keeps counting a lost connection in until it notices |

Abstractions: presence stanzas that follow one another directly are one (they are
idempotent); a transient actor's name is used again once its stream is drained; a
new connection begins when the server has read what the old one sent; a connection
is lost while its actor is active (a loss during a join is in `JXReconnect`); the
actor's `onDisconnect` always answers YES; extras refuse nothing here (they do in
`JXExtras`); the `leave` that the destructor of the old room object sends over the
new connection, before the join, changes nothing in the server's room.

### JXReconnect: the threads that use one client

`place` is where each thread stands: free, connecting, receiving, fetching, or inside
`reconnect` (waiting for the monitor, waiting for the connection, having failed,
sending the transient actor, waiting for the room). `conn` is gloox's connection:
"dead" is a connection that is closed and that the client still calls connected,
"broken" one whose loss a sender noticed while another thread still receives on it.

| Action | Code |
|---|---|
| `SyncConnectClient`, `SyncReturns`, `SyncTimesOut` | `syncConnectClient:beforeDate:` 63-81, with the provider's monitor held through the wait |
| `Connect`, `Connected`, `Refused`, `OnConnect`, `OnDisconnect` | `connectClient:` 58-61, `ClientBase::connect`, `ConnectionTCPClient::connect`, the two connection listeners |
| `SendTransient`, `TransientConnects`, `TransientFails` | `getClientWithConfig:room:` 83-108 for the transient actor, also under the monitor |
| `JoinSessionChat`, `JoinReturns`, `JoinTimesOut`, `RoomAdmits`, `RoomRefuses` | `rejoinSessionChat` over one `roomLock`, whoever waits on it |
| `Disconnect`, `DisconnectOpening` | the failure branches of `reconnect` 198-205: disconnect, `triggerDisconnect`, and so `reconnect` again, also while another thread is opening or reading the connection |
| `SendFails` | a send finds the socket closed (`connectiontcpbase.cpp:117-145`): the listener, and so `reconnect`, runs inside the send, on the thread of the application or of a timer |
| `Leave`, `LeaveOpening` | `disconnect` of the application's 190-192: it finds nothing to close while a reconnection is under way, which then brings the junction back |
| `Fetch`, `FetchEnds` | `getActivityScriptForURL:` 173-194, in the monitor until the room's information comes |

A thread whose transient actor is refused without a time limit is "stranded": it
sleeps and retries for ever with the monitor held (`JXXMPPSwitchboardConfig.m:18`
sets -1). A thread whose room information never comes is "unanswered", likewise
(constant `Answered`). `away` is history: the application has left and was not
admitted since. `ClosesOpening` lists what can come of closing a connection while
another thread opens it, between its two locks.

Assumed: a handler returns before the limit of whoever waits for it; a receiving
thread has left a closed connection before the next one is opened. Not in this
module: the first connection of a new junction, a send that fails *inside* a running
reconnection (two reconnections nested on one thread), the lifetimes of the objects.

### JXExtras: the hooks

`extras` is `mExtras`; `walk[t]` the walk of a thread through it: by index, from
the end, about what is received; by fast enumeration about everything else. An
enumeration of a list that has changed raises. `registered`, and the fields
`began`, `asked` and `refused` of a walk, are history for the properties.
`RegisterExtra` is `registerExtra:` 28-36; `RegisterActor`, `TriggerActorJoin`,
`TriggerMessageReceived`, `TriggerActorRejoin`, `SendMessage` and `GetInvitationURL` are the hooks of
`JXJunction.m`, each a walk of `Ask`s that ends in `Approve`, `Refuse` or `Told`. Hooks
that send from inside a hook (a walk within a walk of the same thread) are not modelled.

### JXScript: the description of an activity

`scripts[p]` is a `JXActivityScript`: its fields, its cached dictionary and whether it
is the creator's. A friendly name, an activity ID and roles are one field: the class
has setters that drop the cache and one, `setRoles:`, that keeps it, and `roles` has
both. `described` is what each session's room is described by.

| Action | Code |
|---|---|
| `NewScript` | `init`, `initWithDictionary:` 16-50, which keeps the dictionary as the cache, and makes up a session for one without |
| `SetSessionID`, `SetHost`, `SetRoles` | the setters that leave the cache alone 62-65, 171-174 |
| `AddRole` | those that drop it 67-86, 131-169 |
| `GetDictionary` | the application's call of `getDictionary` 93-112: caches the fields, or raises for a host that is nil |
| `NewJunction`, `NewJunctionWithURL` | `JXXMPPJunctionProvider.mm:110-131, 153-171`; who finds the room empty describes it (`JXXMPPJunctionConfigHandler.h`); after `Depart` also `rejoinSessionChat`, by the session the script has by then |
| `Fetch` | `getActivityScriptForURL:` and `JXXMPPProviderRoomHandler.h`, of a room that is there |
| `FetchNothing` | of one that is not: the process ends (below) |
| `Depart` | leaving, or a lost connection; a room that is empty is gone |

The setters and `getDictionary` run at any time: a junction hands its script to the
application (`getActivityScript`, `JXXMPPJunction.mm:164-166`), and nothing publishes
what is set then. `unsaid` and `since` are history. `unsaid` are the fields set behind a
cached dictionary, and in `described` those of the creator when it published. `since` are
the fields set in the room of which others had been told: the session by anybody, since
invitations and the next rejoin go by the script; every field by the creator, since the
room was described by them. `DescribedTruly` says that nothing else ever comes apart:
whoever is in a room has a host and, unless its session was set since, a script that
leads there; the room has one description, that of its one creator, true of that one's
script but for `unsaid` and `since`; a script says of itself what it is but for `unsaid`;
and a description that says its session leads whoever fetches it there. A creator that
came by `newJunctionWithURL:` is one whose session is unsaid: the empty dictionary of
`init` is cached before the session is set, so that its room is described as `{}`, and
whoever fetches that is sent to a new session of his own.

Two calls end the process instead of returning (`Crash`; `crashed` are those they have
ended, whose places in rooms are given up, and who do nothing more; a process that is
started again is another of `People`). `getDictionary` raises where the cache was dropped
and no host was set, at `setObject:forKey:` (line 100). The description of a room that is
not there comes back as an error (`gloox/disco.cpp:435-439`), which `handleDiscoError`
passes on as a room without a form (`gloox/mucroom.cpp:1276-1285`), and `handleMUCInfo`
asks the form for its tag (`JXXMPPProviderRoomHandler.h:22`), though gloox says that it
"May be 0" (`gloox/mucroomhandler.h:194-195`).

One of `People` is a script with the junction made of it: an actor with two scripts, or
who fetches one while it is in a room, is two of them. Not modelled: setters given nil
and one script of two junctions. Entering and configuring a room are one step here
(`JXRoomJoin` has the steps); the platforms' specifications within a role are one value.

### JXMessages: whom a message is for

`held[m]` is the dictionary that member m sent or was handed last, which he may send
again. `SendToSession`, `SendToRole` and `SendToActor` are `JXXMPPJunction.mm:232-268`;
`HandleMUCMessage` is `JXXMPPJunctionRoomHandler.mm:18-70`; `Answer` is `getReplyTarget`
of `JXMessageHeader.m` with a handler that answers. The role is written into the
caller's dictionary and stays there for later sends: the property says who does not
hear a message for that reason, and that for no other reason anybody misses one.

### GlooxClient: logging in

One stanza is a type, an argument and the layers (TLS, compression) it was written
under. The server keeps to the protocol, offers any of a set of features, may refuse
anything it is asked, and may end the stream at any time.

| Action | Code |
|---|---|
| `Connect`, `LoseConnection`, `Disconnect` | `ClientBase::connect`, `handleConnect`, `handleDisconnect`, `Client::disconnect` |
| `ResetAfterListeners` | `notifyOnDisconnect` after its listeners have returned: `init` |
| `HandleStream`, `HandleStreamError`, `HandleFeatures` | `ClientBase::handleTag`, `Client::handleNormalNode` 148-246, in the order of its tests |
| `HandleProceed`, `HandleHandshakeResult`, `HandleCompressed`, `HandleFailure`, `HandleChallenge`, `HandleSuccess` | 251-297, and `handleHandshakeResult` |
| `HandleBound`, `HandleSession`, `HandleDelimiter`, `HandleRoster`, `HandleAuthFields`, `HandleAuthResult` and their errors | the answers to the client's own requests, by way of `notifyIqHandlers` |
| `Serve...`, `ServerEnds` | the server (external) |

Every handler of the receiving thread is one action; being told of a disconnection is
not: iPhoneJunction connects again from inside that listener. `overtaken` records
that it did, before the listeners returned: the reset that follows then hits the new
connection, and a login can hang for ever. What the cryptography of TLS does is left out.

### GlooxDispatch: lists of handlers

A registration makes a node; `list` are the nodes in the list; `walk` is the receiving
thread's iterator. `kind` is one of the four ways in which `ClientBase` walks a list.
Each `Remove` tells who removed the node (its own handler, another one, another thread),
and a use of an iterator on a removed node is `undefined`, after which nothing is said.
`Register`, `RemoveInCall`, `RemoveByThread`: `clientbase.cpp:1093-1288`;
`BeginWalk`, `CallCopied`, `CallNode`, `ReturnStepped`, `ReturnLive`, `ReturnIq`, `EndWalk`:
`util.h:87-113`, `clientbase.cpp:1290-1383, 1503-1517`.

### GlooxRoom: the room object

`room` has the fields of a `MUCRoom`, `requests` its operations by id, `service` the room
of the service, `toService` and `toRoom` what is in flight. `Join`, `Leave`, `Replace`
(the destructor and a new object), `SetPresence`, `SetNick` and `Operate` are the methods of
`mucroom.cpp`; `HandlePresence`, `HandlePresenceError` and `HandleIqID` the handlers;
`ServePresence`, `ServeIq`, `Kick` and `OthersMove` the service (external). One operation stands for
those that are treated alike. `m_newNick` is never cleared when a change of nick is
acknowledged, and a presence error does not say which presence it answers: `renamed`,
`crossed` and `misread` are history about that. `UniqueMUCRoom` is not modelled.

### GlooxParser: the scanner

`Step` is one character of `Parser::feed`, a state of the scanner at a time; a name or a
run of text is one atom of the alphabet, since the code adds their characters one after
another and nothing else. `FeedPiece` feeds up to `Piece` atoms; `LoseStream` and
`RefuseStream` end the connection and begin another with the same parser, as
`ClientBase` does: `cleanup` leaves the back buffer, the quote and `m_attribIsXmlns` as
they are, and a loss does not even call it. `first` is the parser before this connection's
data came: what the last one left in it is read off there. `WellFormed` says what a stream is
for the properties: it begins with a tag or, if `Declared`, with a declaration, and a new parser that is
fed it at once hands over `Tags` of it, each by the atom it ends with. `ReadAsWritten` then says what
becomes of it in pieces and after other connections. TLC evaluates `WellFormed` on the instance's
streams as an `ASSUME`; the tags are written down beside the texts there. The loop of `feed` is the
function `ScanSteps`: after n steps, of which each uses one atom at least, `Further` takes
one more unless the data is used up, the parser has failed, or waits for the rest of an
entity or of a CDATA mark. There is no recursive operator in it, so that it can be proved about.

## 3. Runs

| Run | Instance | Distinct states | Question and result |
|---|---|---|---|
| `founders` | 2 replicas, 3 operations, state class raises | 12,571 | `StatePredicted`, `PendingInFlight`: prediction = clean state + pending, and what is pending is on its way; `ImplementsOrderedLog`: refinement of `OrderedLog` |
| `late_join` | 2 + a joiner, 2 operations, 2 stanzas of history, 2 sync ids | 182,523 | `SteadyFollows` (`SteadyPrefix`: the clean state is the room's order so far; `SteadyStaysNormal`: no HELLO throws a steady replica off), `CountedInOrder` (everybody's number is that of his operations, and who is not behind has the same), `HashesAgree`, `TypeOK` |
| `two_joiners` | 1 + 2 joiners that may be cut off or leave, 1 loss, 1 operation, 3 sync ids | 616,277 | `OneAnswerPerSync`; `OrderInvariant`, the inductive invariant; `WedgedForGood`: a replica whose accepted peer dropped to SYNC mode before answering never leaves SYNC mode |
| `converge` | 2 + a joiner, 1 operation, fair | 366,454 | `Converges`: everybody ends in NORM mode with everything |
| `rejoined_provider` | 1 + a joiner, a lost connection | violation | `HashesAgree` fails: finding 1 |
| `conflict_ignored` | 2 replicas, class ignores what it does not know | violation | `HashesAgree` fails: finding 2 |
| `join` | 3 people, answers at any time, fair | 21,969 | `JoinedIsOccupant`, `CreatorCreates`, `RoomUnlocks`, `TypeOK` |
| `rejoin` | 3 people, one lost connection, answers in time, fair | 62,463 | `Rejoins`, `TimesOutRefused`, `RoomInvariant` |
| `come_back` | 4 threads, 2 losses, 2 refusals, 2 calls, answers in time, fair | 476,240 | `NobodyGivesUp`, `ReconnectInvariant`, `ComesBack`, `TypeOK` |
| `activity` | 3 extras of 2 priorities and 3 threads; 2 replicas of an array, 3 changes; 2 people and 2 sessions, 1 change told of; 2 members, 2 roles, 3 sends | 1,212,836 | `ExtrasHeard`; `PredictedAsSent`, `RaisesOnlyWhenCrossed`; `DescribedTruly`; `HeardByAddressed`; `ActivityTypeOK` |
| `login` | 5 kinds of servers, 48 settings, 2 connections, fair | 145,376 | `TlsRequiredHonoured`, `LayersAgree`, `OnlineMeansReady`, `LoginSettles`, `ClientTypeOK` |
| `gloox` | 4 streams in pieces of up to 3 atoms, 1 loss; 2 handlers, 4 nodes, 2 walks; 2 nicks, 3 requests | 874,444 | `ReadAsWritten`, `PiecesDoNotMatter`; `UndefinedBy`, `ToldOnce`; `RoomUnderstood`, `OperationsEnd`; `GlooxTypeOK` |

Each property of each passing run has a mutant in `PROJECT.json`: a definition
changed as a plausible bug would change it, under which TLC finds the property
violated. The mutated forms stand in the modules, before what they are mutants of,
and are marked `Mutant`.

### Bounds, and why they are enough

* *Replicas.* Two steady replicas are needed for conflicting operations, a third
  to be behind while two answer; a second joiner for a round that meets another
  round. A larger instance with one founder, two joiners and two operations (about
  two million states) gave the same results.
* *Operations.* Two give an order, three a conflict on top of a pending operation,
  or a buffer with one operation before and one after the state.
* `MaxChatter` bounds the replicas with a HELLO or a request under way; each has at
  most one, since a stanza takes less than the 3 or 5 seconds between two.
* `SyncIds`: one per replica that may be in SYNC mode, and one more.
* `HistoryLen = 2`: a replayed operation and a replayed HELLO, or two operations.
* *Array*: three changes make an operation inside the dispatch of another, crossed
  by a third; two items, so that one can be replaced by the other and be gone.
* *People* 3: one creates, one is refused, one is late. `MaxLosses`, `MaxRefusals` 2
  in `JXReconnect`: a failure during the recovery from another; `MaxCalls` 2: leaving
  while fetching, or leaving twice.
* *Threads*: `SyncConnectClient` needs a free thread. Four leave one to send, to leave
  or to fetch while one reconnects, one receives and one opens; with every thread
  reconnecting the model stops, which the code does not (it would start one more), and
  nothing depends on what happens then.
* `MaxWalks = 2` walks besides those of the join, so that any two threads meet. The two extras
  of the usual priority are alike, and symmetric.
* *Script*: two sessions, so that a room can be another than the one a script leads to,
  and one can be made up while the other is in use. `MaxSet = 1` (`MCJXActivity`): of the
  settings that others in a room were told of, one at a time is changed behind their back;
  changed settings do not interact. Runs of `JXScript` alone without that bound, with two
  sessions (531,738 states) and with three (1,566,666), gave the same results, and the
  theorem has no bound.
* *Messages*: three sends make a dictionary go to a role, then to all, then be sent on.
* *Login*: two connections, the second opened while the listeners of the first are being
  told; the five offers have every feature at least once and an old server's.
* *Parser*: four streams: two stanzas in two styles (attributes in either quote, entities, a CDATA
  section, prefixes, blanks wherever they are allowed), one stream with the end of a stream in it
  and one without a declaration; pieces of 1 to 3 atoms split every construct at every place.
* *Handlers*: four nodes are two handlers registered twice, or one that returns; two
  walks, since an answer is walked for again. *Room*: three requests, so that two
  presences cross, or an operation meets a change of nick; two nicks.

Deadlock is not checked where the run really may stop: when an exception has ended
the processes, an iterator was used that is undefined, or the bounded operations,
losses, requests or walks are used up and nobody waits for anything.

### Fairness

* `JXProp`: weak fairness of the receiving thread, of the timer of each replica
  (an `NSTimer` that repeats), and of a join once begun. No operation has to
  be issued and no connection has to break or to return.
* `JXRoomJoin`: threads and the server go on, time passes (`TimeUp`), the server
  notices a dead connection in the end. Nobody has to begin, leave or be lost.
* `JXReconnect`: a thread at a place it can leave leaves it, and somebody enters a
  free monitor. No thread in particular: `@synchronized` promises no order. No send has
  to fail, and the application has to call nothing.
* `GlooxClient`: the receiving thread handles what has arrived and the server answers.
  Nobody has to connect or to lose a connection.
* `Prompt` in `rejoin` and `come_back` says that an answer that is under way arrives
  within the limit. Without it a retry can time out for ever, and no code could help.

### What TLC showed that is not a property

* `Converges` fails with two joiners, by `WedgedForGood`.
* `HashesAgree` fails with two joiners beside two founders, nobody losing a connection:
  the first joiner is handed a state whose last operation comes before all it has buffered,
  drops its buffer (`JXProp.m:342-350`), and then hands what it has to the second, whose own
  operation was among what it dropped. With one replica that is not steady it is a theorem.
* With history and a reconnection together `CountedInOrder` fails: a rejoined
  replica applies replayed operations again (the theorems assume `ReplayedOnce`).
* `StatePredicted` fails for an actor that issued an operation before it was in the
  room: the operation is never sent and stays pending.
* The array of a replica whose listener issued an operation inside the dispatch of
  another differs from its clean array with the pending operations on top, also for
  good: the inner one is sent first and predicted last.
* `Rejoins` fails when two people lose their connections to a room that is gone
  meanwhile: the transient actor of each can hold the new room locked while the
  other asks.
* `ComesBack` fails without its condition: two threads can go on disconnecting what
  the other connected. It fails without a time limit on the first refusal, and without
  an answer to a fetch (`Answered` FALSE).
* `LoginSettles` fails on a connection opened from inside `onDisconnect`: `m_authed`
  of the old one is still set when the features come (`clientbase.cpp:353-368`), and the
  login waits for what nobody sends.
* What an interrupted stream leaves in the parser reaches the next one in five ways, and `ReadAsWritten`
  has a condition for each, without which TLC finds it violated. Half a stanza is completed by the next
  stream if that has no declaration; `m_quote` and the back buffer survive everything;
  `m_attribIsXmlns` survives a refusal inside `xmlns:...`, so that the next stream's first attribute is
  taken for a namespace; and the end of a stream leaves `m_havePrefix` set, so that the next stream is refused if it
  has no declaration. A declaration cures all but the quote and the back buffer. After a loss inside a tag the
  next stream is refused, unless half an entity was waiting in the back buffer, and after one inside a CDATA section it is swallowed.

### Findings

1. `rejoined_provider`: `_handleStateSyncMsg:` hands the buffered operations to
   `_handleReceivedOp:` with the pending list just emptied (`JXProp.m:340-350`); an
   operation of the replica itself is then applied to `cleanState` only (178), and the
   assertion of lines 197-198 ("If pending locals is empty, state hash and cleanState
   hash should be equal.") fails. It takes a peer that missed that operation: one that lost its
   connection, as in the run, or one that joined at the same time.
2. `conflict_ignored`: line 194 applies the pending messages instead of their
   operations. With `JXArrayState` the process dies (`RaiseOnConflict`); with a class
   that ignores them the prediction is lost for good and the same assertion fails.

Met while modelling, without a run of its own: asking for the description of a room that
is not there ends the process (`JXScript`, `FetchNothing`), where `handleMUCError` in the
same class shows that nil was meant to be returned.

`HashesAgree` compares what is shown with what the clean state holds; the assertion
compares hashes, and that of `JXArrayState` is an exclusive or of its items' (line 71), in
which order and equal pairs do not show. The property is the stronger of the two, and says
nothing of what the hash misses.

## 4. Proofs

Proved by TLAPS for every value of the constants that the modules' `ASSUME`s admit;
22,741 obligations.

| Module | Theorem | Says |
|---|---|---|
| `JXPropProofs` | `TypeCorrect` | `JXProp`: `Spec => []TypeOK` |
| | `OrderKept` | `ReplayedOnce => (Spec => []OrderInvariant)`, where `ReplayedOnce == HistoryLen = 0 \/ MaxLosses = 0` |
| | `SteadyFollowsHolds` | the same of `SteadyFollows`, from `OrderKept` |
| | `OrderedLogImplemented` | `ReplayedOnce => (Spec => ImplementsOrderedLog)` |
| | `StatePredictedHolds`, `PendingInFlightHolds` | `ReplayedOnce /\ UnknownOp = "raise" => ...` |
| | `CountedInOrderHolds` | `ReplayedOnce => (Spec => []CountedInOrder)`, for joiners and resynchronised replicas too |
| | `RoundsKept`, `OneAnswerPerSyncHolds` | `Spec => []SyncRounds`, `Spec => []OneAnswerPerSync`: any history, any number of rounds |
| | `WedgedForGoodHolds` | `Spec => WedgedForGood`, an action property |
| | `HashesKept`, `HashesAgreeHolds` | `HashesAgree` where at most one replica is not steady, with `ReplayedOnce` and `UnknownOp = "raise"` |
| `JXArrayProofs` | `ArrayKept`, `ArrayTypeCorrect`, `ArrayPredictedAsSent`, `ArrayRaisesOnlyWhenCrossed` | `PredictedAsSent` and `RaisesOnlyWhenCrossed` for any actors, items and number of changes |
| `JXRoomJoinProofs` | `RoomTypeCorrect`, `RoomInvariantHolds`, `JoinedIsOccupantHolds`, `CreatorCreatesHolds` | with late answers too |
| | `TimesOutRefusedHolds` | `Spec => []TimesOutRefused`, any people, losses and attempts |
| `JXReconnectProofs` | `ReconnectTypeCorrect`, `ReconnectInvariantHolds`, `NobodyGivesUpHolds` | any number of threads, losses, refusals and calls |
| `JXActivityProofs` | `ExtrasInOrder`, `ExtrasTypeCorrect`, `ExtrasHeardHolds` | `ExtrasHeard` for any extras, priorities, threads and number of walks |
| | `ScriptsAgree`, `ScriptTypeCorrect`, `DescribedTrulyHolds` | any people, sessions and roles |
| | `MessagesAgree`, `MessagesTypeCorrect`, `HeardByAddressedHolds` | any members, roles and number of sends |
| | `ActivityTypeCorrect` | the types of all four parts of `activity` |
| `GlooxClientProofs` | `ClientTypeCorrect`, `NothingInTheClear`, `LayersAlwaysAgree` | `TlsRequiredHonoured` and `LayersAgree` for any settings, servers and number of connections |
| `GlooxLoginProofs` | `OnlineIsReady` | `OnlineMeansReady` likewise |
| `GlooxProofs` | `DispatchCorrect`, `WalksDefined`, `EverybodyToldOnce` | `UndefinedBy` and `ToldOnce` for any number of handlers and walks |
| | `RoomKept`, `RoomTypeCorrect`, `RoomUnderstoodHolds`, `OperationsEndHolds` | `RoomUnderstood` and `OperationsEnd` for any nicks and any number of requests |
| | `ParserKept`, `ParserTypeCorrect`, `PiecesDoNotMatterHolds` | `PiecesDoNotMatter` for any streams, well-formed or not, pieces and number of losses |
| | `ReadAsWrittenHolds` | `WellFormed => (ParserSpec => []ReadAsWritten)`, for any such streams, pieces and number of losses |
| | `GlooxTypeCorrect` | the types of all three parts of `gloox` |

*The order.* That a steady replica's clean state is a prefix of the room's order is
not inductive: it depends on what is in its stream. `OrderInvariant` adds: streams
and buffers hold operations in the room's order, each at its place; a replica in
NORM mode, a STATE_SYNC under way and its receiver's buffer agree about the place up
to which they count (`Current`); and a steady replica's stream brings every
operation it has not applied, before any HELLO that counts it. The last is why no
HELLO makes it fall behind. Each step is shown to keep this by lemmas about taking
a stanza, appending one, appending an operation to the order and to all streams at
once, and installing a state. The refinement then maps `AddOperation` to `Submit`,
`ApplyOperation` of a steady replica to `See`, everything else to a stutter.

*What is replayed.* The history is a stretch of the stream of groupchat stanzas: what holds of streams
holds of it, and there is no state in it, since states are handed over in private (`HistoryOK`). Who
takes it for the beginning of his stream must not have counted anything: whoever is out of the room has
applied nothing (`Fresh`). That is so of whoever enters for the first time, and of nobody who rejoins,
which is why the theorems want no history or no reconnection (`ReplayedOnce`), and why TLC
finds them false otherwise. For the hashes, a replica that joins must not be replayed operations of
its own (`Unheard`), and `OneSender` is about what is replayed too.

*The predictions.* On top of `OrderInvariant` stands `Foretold`, for the steady
replicas: the operations of its own in a replica's stream ascend and are just the
pending ones, and the predicted state is the clean one with these on top. A new
operation exceeds all in the stream, because those are in the order; a replica that is never
in SYNC mode never drops its pending list; and with a class that raises, a remote
operation over a pending one ends the process, so that nothing has to be reordered.

*The counts.* `Counted` says of every replica in NORM mode, and of every state on its
way, that its number is that of the operations in it, and that these stand in the order,
in its order, no later than the last one it names (`CountedView`). Applying an operation and
installing a state keep this, because `OrderInvariant` puts the operations still in the
stream, and those buffered after the last one of the state, later than that one. A steady replica with nothing in
its stream has all operations; whoever counts as many has them at places that increase from 1..n to 1..n,
and such places skip none (`NoneSkipped`). TLC finds `Counted` true of the instances of
`two_joiners` and `late_join`, and all four invariants of `JXPropInvariant` true of that of `late_join`.

*The rounds of SYNC mode.* `SyncRounds` says that of the two stanzas that settle a round, the request
for the state and the state, at most one is under way, in one stream, whatever the number of the round
(`OneAnswer`); that none is before the replica has accepted an offer (`Silent`); and that two replicas in
SYNC mode are in rounds of different numbers. What the server may replay is silent about every round,
which is why history needs no hypothesis here. `WedgedForGood` is a step property on top of it: a replica that
has accepted an offer and has neither stanza under way accepts no other offer, and so asks nobody again.

*What is shown.* `HashesAgree` is about every replica in NORM mode with nothing pending, not only steady
ones. A replica that is handed a state drops its pending list, so the prediction is right
afterwards only if the state holds all it had issued: `Resuming` says that the peer is asked
behind all of one's own operations in its stream (`AskedLast`), and that a state under way has them in it
(`Whole`). In NORM mode a replica is `Trusted` (what it awaits is in its stream, and it shows the clean
state with that on top) or `Stuck`: it waits for an operation that will not come back, because it
was lost with the connection, and then it never has nothing pending. All replicas have the operation at a
place of the order from the same sender (`OneSender`), so that what a peer has applied of one's own is
what one still awaits. The hypothesis that at most one replica is
not steady is needed: finding 1 is the counterexample with a lost connection, and TLC has one with
two joiners and no loss.

*The array.* `ArrayInvariant` numbers the operations: every one has a uuid of its own
(`Numbered`), nobody dates one later than what he has heard (`Dated`), what is pending is what one
has sent and not heard, in that order (`Pendings`), the clean array is what the messages heard make
(`Cleans`), and an actor whose listener issues nothing inside a dispatch has at most one operation
between prediction and sending (`Single`). Arrays are what a fold makes of a list of operations: it is
unrolled one operation at a time by induction over the set of the lengths for which a fact holds.

*The join.* `JoinedIsOccupant` rests on what can end a wait: `RoomInvariant` says
that a presence or the text "unlocked" in a stream speaks of an open room its
reader is in, that at most one request of an actor is open, and that whoever is
configuring the room owns it and is alone in it. For `CreatorCreates` the proof adds that
the owner of a locked room is present, and that a creator's first join has succeeded. For
`TimesOutRefused`, `PursuitInvariant`: as long as somebody waits and has not been refused, a stanza that
ends the wait, or one that leads to it (a request, the form, the configuration), is under way.

*Reconnecting.* `NobodyGivesUp` needs to know *who* will bring back what is missing:
`Mended` says which places of the code a thread must stand at while the connection,
or the room, is missing, and while a lock says DONE although it is; `OneConnection`
that one thread opens or reads the connection and agrees with its state.

*The extras.* The list is always that of the registered ones, each once, in the order of
priority and then of registration, sorted anew at every registration (`ListOK`). `WalkOK` says how far each
thread's walk has come in it. A walk forwards enumerates a list, and is over when that changes;
a walk backwards goes by index over a list that may grow under it: whoever was in the list when it began has
been asked, or is still below the index, or somebody of a lower priority number was registered meanwhile.

*The lists of handlers.* Nodes are numbered as they are made, so that a walk that has
called the nodes up to one and stands on it has told everybody before it who is still there.
An iterator that stepped before the call stands on a later node than the one that is
being called; one that did not stands on the node called.

*The room object.* The service acts on one presence after another, and says in its answer neither
which presence that is nor what the object wanted. `RoomInvariant` of `GlooxProofs` (the record of what is
in flight) says that the last presence sent is the last under way and is answered last (`SentInOrder`); that
unless presences cross, none is under way beside another or beside an answer that tells something
(`OneAtATime`); that the object's wish and nick are those of the service once what is under way is
read (`InStep`, `Named`, `Wanted`, `Opens`); and that every operation waited for is under way once
(`Awaited`, `Answered`, `Reported`). The attempt to prove it showed that a room object made anew while a
nick had been wanted counts as renamed too: `Replace` did not say so before.

*The parser.* That pieces do not matter is a statement about the function `Feed`: `FeedTwice` proves
that a parser fed x and then y is the parser fed x and y at once. `StepLonger` says that a step on longer
data is the same, or waits for that data; `StepAlike` that a step depends on what is ahead only. The steps on the
longer data are then those on x up to where x ends or waits (`TraceLonger`). From there on they are
those of the parser that resumed, at another place of other data (`TracesMeet`): what waits in the back buffer
is just what x had left, and everything else the step had changed by then it would have changed alike.
The loops are compared by induction over the number of steps, as sets of numbers with a least element.

That what is read is what was written needs more: that what the last connection left makes no
difference. Between stanzas a parser differs from a new one only in what it has handed over, if what
it keeps for a tag is empty (`Tidy`, `Clean`: invariants of every step and of `cleanup`). For
a parser that holds half a stanza, the declaration is executed symbolically, atom by atom
(`Declares`, `DeclarationRead`): `addTag` drops it with everything above it. From its end on both
parsers are alike, and two loops that have met stay together (`TracesJoin`), so that the rest is read as a new parser
reads it, which `WellFormed` describes. After a loss inside a tag, the first `<` is refused in every state.

*Logging in.* `ClientInvariant` says what may be on its way under which layers: as long
as the two ends have no TLS, only what a client may say before it (`Sayable`) and what a
server may answer to that (`Answerable`); that who waits for an answer has asked on this
connection; and that a client without a connection has nothing on its way. It is too weak
for `LayersAgree`: a second request on its way would be read under layers that the answer to
the first has changed. `TurnInvariant` says there is none, because logging in is taking turns:
either one stanza is on its way to the server, or one answer to it is among those on their way
to the client (what precedes it is written under the client's layers, what follows it under
the next), or a TLS handshake is under way and nothing is, or nothing that is on its way can
change a layer. The server may end the stream at any moment of it. TLC checked
`TurnInvariant` on the instance of `login` first.

*Connected.* `LoginInvariant` stands on both: the login is in one place at a time, one stanza to the
server, one to the client, the handshake, or the listeners who have been told (`OneStepAtATime`); every
stanza under way says what is so where it arrives (`StepsSound`: who was let in, bound, has a session); and a
connection is opened with what the last one left in the client only while a listener has not returned
(`ListenersDone`).

*Scripts and messages.* `ScriptInvariant` says what a script's cache may differ in, that a
description which says its session says the one of its room, and that a script fetched
from such a one leads there as long as the session is not set anew; beside it stands
`DescribedByCreator` itself, which every setter keeps, because it writes into `since` what
others had been told of (`SetsKeep`), and every way out of a room, by a crash too, because
the description goes with the last one only (`LeftKeeps`). `MessagesInvariant` says of every copy
on its way which send it is of, whom that was for and which role the copy carries.

Assumptions are those of the modules (`ASSUME`s on the constants: sets, numbers,
`Founders` and `Churn` among the replicas, streams that are sequences) and, for `JXProp`, those in the table: that
nobody is replayed what it has applied for the order and the counts, a state class that raises for the predictions,
and at most one replica that is not steady for `HashesAgree`; for `ReadAsWritten`, that the streams
are such as a new parser reads as written.

Only model-checked: what must eventually happen (`Converges`, `RoomUnlocks`,
`Rejoins`, `ComesBack`, `LoginSettles`). Liveness under fairness and ENABLED are beyond the prover. What
a text of a given grammar parses to is the hypothesis of `ReadAsWrittenHolds`, evaluated on the
streams of the instance: to prove it of all texts would need a grammar and induction over its trees. (Induction over numbers is
done here by taking the least element of a set of them, as `LeastOf` and `Upward` state it; the library's
theorems that take an operator cannot be instantiated.)

## 5. Not modelled, and why

* *Keep-alive*: its registration is commented out (`JXXMPPJunction.mm:172`); it never runs.
* *Invitations, maker, cast*: construction and parsing of strings, one factory call.
* *JSON*: vendored; messages and states are records here. `toString` of a script, which
  writes a dictionary that may be gone, is formatting.
* *gloox*: publish-subscribe, file transfers, Jingle, the other extensions and the
  stanza classes are most of its lines, and no junction uses them; `UniqueMUCRoom` is
  never made; TLS and compression are there as layers only. This is why a small share of the
  repository's lines is modelled: what iPhoneJunction runs is a small part of it.
* Numeric character references (`gloox/parser.cpp:52-93`) are not among the texts of
  `GlooxParser`, and stanzas the application sends before the login is through
  (`gloox/clientbase.cpp:845-857`) not among those of `GlooxClient`, whose properties
  are about the login's own.
* *First connection of a new junction*, and *two reconnections nested on one thread* by a
  send that fails inside one: they would multiply the places of every thread of `JXReconnect`.
* Object lifetimes and unsynchronised mutable collections (undefined behaviour)
  outside `GlooxDispatch`: listed as hazards.

## 6. What could follow

1. Composition of `JXReconnect` and `JXRoomJoin`: the detailed room under the threads. Both
   are near the size a run can have; it needs an abstraction of the room first.
2. Theorems: that a replica whose round is answered by a whole state comes to hold what the room's
   order holds; that the text an XML writer makes of a tag is `WellFormed`.
3. The first connection of a new junction in `JXReconnect`.
