---------------------------- MODULE GlooxClient ----------------------------
(***************************************************************************)
(* The client of gloox logging in: ClientBase, Client, the old             *)
(* authentication and the request for the roster, against a server that    *)
(* keeps to the protocol.                                                  *)
(*                                                                         *)
(* Every handler of the receiving thread is one action.  The listeners     *)
(* that are told of a disconnection are not: iPhoneJunction connects again *)
(* from inside such a listener, on another thread, and only when the       *)
(* listeners have returned does notifyOnDisconnect call init, which clears *)
(* the authentication of whatever connection there is by then.             *)
(***************************************************************************)
EXTENDS Naturals, Sequences, FiniteSets

CONSTANTS
    Settings,       \* settings of the client: tls, encryption, compression, ...
    Offers,         \* what servers offer
    MaxConnects     \* bound on the connections that are opened

VARIABLES
    settings,       \* the client's settings, fixed
    offer,          \* the server's, fixed
    client,         \* the state of the client object
    server,         \* the server's view of the stream
    tracked,        \* m_iqIDHandlers: the requests that wait for an answer
    toServer,       \* stanzas on their way to the server
    toClient,       \* stanzas on their way to the client
    notifying,      \* threads inside the listeners told of a disconnection
    connects,       \* connections opened so far
    overtaken       \* history: this connection was opened before the listeners
                    \* told of the end of the last one had returned

clientVars == <<settings, offer, client, server, tracked, toServer, toClient,
                notifying, connects, overtaken>>

Mechanisms == {"DIGEST-MD5", "PLAIN", "ANONYMOUS"}

StreamFeatures == Mechanisms \cup {"starttls", "zlib", "bind", "session", "iqAuth"}

\* The requests a client sends of itself, each with an id of its own.
Contexts == {"bind", "session", "delimiter", "roster", "authFields", "auth"}

\* tls: the policy; encryption, compression: an implementation is built in and
\* wanted; password: a user name and a password are set.
SettingsType == [tls : {"disabled", "optional", "required"}, encryption : BOOLEAN,
                 compression : BOOLEAN, sasl : BOOLEAN, forceNonSasl : BOOLEAN,
                 manageRoster : BOOLEAN, password : BOOLEAN]

\* digest: the fields of the old authentication name a digest, not a password.
OfferType == [features : SUBSET StreamFeatures, digest : BOOLEAN]

ASSUME ClientAssumption ==
    /\ Settings \subseteq SettingsType
    /\ Offers \subseteq OfferType
    /\ MaxConnects \in Nat

Layers == [tls : BOOLEAN, zlib : BOOLEAN]
Plain == [tls |-> FALSE, zlib |-> FALSE]

-----------------------------------------------------------------------------
(* The state of the objects.                                               *)

\* told is the last thing the connection listeners heard of this connection.
Fresh == [state |-> "disconnected", layers |-> Plain, handshake |-> FALSE,
          authed |-> FALSE, bound |-> FALSE, features |-> {}, told |-> "nothing",
          online |-> 0]

FreshServer == [layers |-> Plain, login |-> "none", bound |-> FALSE,
                session |-> FALSE, roster |-> FALSE]

ClientInit ==
    /\ settings \in Settings
    /\ offer \in Offers
    /\ client = Fresh
    /\ server = FreshServer
    /\ tracked = {}
    /\ toServer = <<>>
    /\ toClient = <<>>
    /\ notifying = 0
    /\ connects = 0
    /\ overtaken = FALSE

\* A stanza goes out under the layers that are active when it is sent.
Stanza(type, arg, layers) == [type |-> type, arg |-> arg, layers |-> layers]

\* send(xml): nothing is sent unless the connection is up.
Send(c, types) ==
    IF c.state = "connected"
    THEN [i \in 1..Len(types) |-> Stanza(types[i][1], types[i][2], c.layers)]
    ELSE <<>>

\* send(iq, handler, context): a request is tracked by its id and sent.
Track(contexts) == tracked \cup {[context |-> x, of |-> connects] : x \in contexts}

Header == <<"header", "">>
Request(context) == <<"iq", context>>

\* What is left of the client when disconnect or handleDisconnect has cleaned
\* up: the flags of Client are cleared by disconnect(reason), or by init only.
Disconnected(clears) ==
    [client EXCEPT !.state = "disconnected", !.layers = Plain, !.handshake = FALSE,
                   !.authed = ~clears /\ @, !.bound = ~clears /\ @,
                   !.features = IF clears THEN {} ELSE @, !.told = "disconnect"]

Drops(clears) ==
    /\ client' = Disconnected(clears)
    /\ server' = FreshServer
    /\ toServer' = <<>>
    /\ toClient' = <<>>
    /\ notifying' = notifying + 1
    /\ UNCHANGED <<settings, offer, tracked, connects, overtaken>>

\* The next stanza in, its answer out.
Replies(c, types) ==
    /\ client' = c
    /\ toServer' = toServer \o Send(c, types)
    /\ toClient' = Tail(toClient)
    /\ UNCHANGED <<settings, offer, server, notifying, connects, overtaken>>

Receives(type) == toClient # <<>> /\ Head(toClient).type = type
Received == Head(toClient).arg

-----------------------------------------------------------------------------
(* The connection.                                                         *)

\* connect(): nothing when there is a connection.  The transport connects,
\* and handleConnect sends the header, or it is refused.
Connect ==
    /\ client.state = "disconnected"
    /\ connects < MaxConnects
    /\ connects' = connects + 1
    /\ \/ LET c == [client EXCEPT !.state = "connected", !.told = "nothing", !.online = 0] IN
          /\ client' = c
          /\ toServer' = Send(c, <<Header>>)
          /\ UNCHANGED notifying
       \/ /\ client' = [Disconnected(FALSE) EXCEPT !.online = 0]
          /\ toServer' = <<>>
          /\ notifying' = notifying + 1
    /\ overtaken' = (notifying > 0)
    /\ UNCHANGED <<settings, offer, server, tracked, toClient>>

\* handleDisconnect: the transport reports that the connection is lost.
LoseConnection ==
    /\ client.state = "connected"
    /\ Drops(FALSE)

\* disconnect(): by the application, on any thread.
Disconnect ==
    /\ client.state = "connected"
    /\ Drops(TRUE)

\* Mutant: init when nobody has been told.
ResetAfterListeners_Unguarded ==
    /\ connects = 1
    /\ notifying' = notifying - 1
    /\ client' = [client EXCEPT !.authed = FALSE, !.bound = FALSE, !.features = {}]
    /\ UNCHANGED <<settings, offer, server, tracked, toServer, toClient, connects, overtaken>>

\* The listeners have returned: init, and cleanup, which Client overrides.
ResetAfterListeners ==
    /\ notifying > 0
    /\ notifying' = notifying - 1
    /\ client' = [client EXCEPT !.authed = FALSE, !.bound = FALSE, !.features = {}]
    /\ UNCHANGED <<settings, offer, server, tracked, toServer, toClient, connects, overtaken>>

-----------------------------------------------------------------------------
(* Logging in.                                                             *)

\* handleTag, the stream header: of a version the client cannot speak, or not.
HandleStream ==
    /\ Receives("stream")
    /\ \/ Received = "1.0" /\ Replies(client, <<>>) /\ UNCHANGED tracked
       \/ Received # "1.0" /\ Drops(TRUE)

\* A stream error, the end of the stream, or what is no XML.
HandleStreamError ==
    /\ Receives("error")
    /\ Drops(TRUE)

\* connected(): a client that has authenticated asks for its roster first.
Online(c) == [c EXCEPT !.told = "connect", !.online = @ + 1]

GoesOnline(c) ==
    IF c.authed /\ settings.manageRoster
    THEN Replies(c, <<Request("delimiter"), Request("roster")>>)
    ELSE Replies(Online(c), IF c.authed THEN <<<<"presence", "">>>> ELSE <<>>)

Tracks(c) == IF c.authed /\ settings.manageRoster THEN {"delimiter", "roster"} ELSE {}

\* What handleNormalNode decides to do about a list of features: the order of
\* its tests.
Usable(fs) == settings.encryption /\ "starttls" \in fs /\ ~client.layers.tls

Compressible(fs) == settings.compression /\ "zlib" \in fs /\ ~client.layers.zlib

\* login(): the strongest mechanism that both know.
LoginStep(fs) ==
    IF "DIGEST-MD5" \in fs /\ ~settings.forceNonSasl THEN <<"auth", "DIGEST-MD5">>
    ELSE IF "PLAIN" \in fs /\ ~settings.forceNonSasl THEN <<"auth", "PLAIN">>
    ELSE IF "iqAuth" \in fs \/ settings.forceNonSasl THEN Request("authFields")
    ELSE <<"none", "">>

SaslStep(fs) ==
    IF client.authed THEN IF "bind" \in fs THEN Request("bind") ELSE <<"wait", "">>
    ELSE IF settings.password THEN LoginStep(fs)
    ELSE IF "ANONYMOUS" \in fs THEN <<"auth", "ANONYMOUS">>
    ELSE <<"online", "">>

\* Mutant: TLS is used when it is there.
NextStep_TlsIfOffered(fs) ==
    IF settings.tls # "disabled" /\ Usable(fs) THEN <<"starttls", "">>
    ELSE IF Compressible(fs) THEN <<"compress", "">>
    ELSE IF settings.sasl THEN SaslStep(fs)
    ELSE IF "iqAuth" \in fs THEN Request("authFields") ELSE <<"none", "">>

NextStep(fs) ==
    IF settings.tls = "required" /\ ~client.layers.tls /\ ~Usable(fs) THEN <<"none", "">>
    ELSE IF settings.tls # "disabled" /\ Usable(fs) THEN <<"starttls", "">>
    ELSE IF Compressible(fs) THEN <<"compress", "">>
    ELSE IF settings.sasl THEN SaslStep(fs)
    ELSE IF "iqAuth" \in fs THEN Request("authFields") ELSE <<"none", "">>

\* getStreamFeatures: a server that names none is taken for an old one.
Named(fs) == IF fs = {} THEN {"iqAuth"} ELSE fs

HandleFeatures ==
    /\ Receives("features")
    /\ LET fs == Named(Received)
           step == NextStep(fs)
           c == [client EXCEPT !.features = fs]
       IN  \/ step[1] = "none" /\ Drops(TRUE)
           \/ step[1] = "wait" /\ Replies(c, <<>>) /\ UNCHANGED tracked
           \/ step[1] = "online" /\ GoesOnline(c) /\ tracked' = Track(Tracks(c))
           \/ step[1] \in {"starttls", "compress", "auth"} /\ Replies(c, <<step>>) /\ UNCHANGED tracked
           \/ step[1] = "iq" /\ Replies(c, <<step>>) /\ tracked' = Track({step[2]})

\* <proceed/>: the layer is active from here on, the handshake is under way.
HandleProceed ==
    /\ Receives("proceed")
    /\ Replies(IF settings.encryption
               THEN [client EXCEPT !.layers.tls = TRUE, !.handshake = TRUE] ELSE client, <<>>)
    /\ UNCHANGED tracked

\* handleHandshakeResult: a listener may reject the certificate.
HandleHandshakeResult ==
    /\ client.state = "connected" /\ client.handshake
    /\ \/ /\ client' = [client EXCEPT !.handshake = FALSE]
          /\ toServer' = toServer \o Send(client, <<Header>>)
          /\ UNCHANGED <<settings, offer, server, tracked, toClient, notifying, connects, overtaken>>
       \/ Drops(TRUE)

\* Mutant: a failure is reported to nobody.
HandleFailure_Ignored ==
    /\ Receives("failure")
    /\ Replies(client, <<>>)
    /\ UNCHANGED tracked

\* <failure/> of TLS, of the compression or of the authentication.
HandleFailure ==
    /\ Receives("failure")
    /\ Drops(TRUE)

\* Mutant: the header goes out before the layer is active.
HandleCompressed_HeaderFirst ==
    /\ Receives("compressed")
    /\ toServer' = toServer \o Send(client, <<Header>>)
    /\ client' = [client EXCEPT !.layers.zlib = TRUE]
    /\ toClient' = Tail(toClient)
    /\ UNCHANGED <<settings, offer, server, tracked, notifying, connects, overtaken>>

HandleCompressed ==
    /\ Receives("compressed")
    /\ Replies([client EXCEPT !.layers.zlib = TRUE], <<Header>>)
    /\ UNCHANGED tracked

HandleChallenge ==
    /\ Receives("challenge")
    /\ Replies(client, <<<<"response", "">>>>)
    /\ UNCHANGED tracked

HandleSuccess ==
    /\ Receives("success")
    /\ Replies([client EXCEPT !.authed = TRUE], <<Header>>)
    /\ UNCHANGED tracked

\* notifyIqHandlers: an answer goes to whoever waits for its id, who is then
\* forgotten.
Answers(context, kinds) ==
    /\ Receives("answer")
    /\ Received[1] = context /\ Received[2] \in kinds
    /\ [context |-> context, of |-> connects] \in tracked

Answered(context, more) ==
    tracked' = Track(more) \ {[context |-> context, of |-> connects]}

\* Mutant: no session is created.
HandleBound_NoSession ==
    /\ Answers("bind", {"result"})
    /\ LET c == [client EXCEPT !.bound = TRUE] IN
          GoesOnline(c) /\ Answered("bind", Tracks(c))

\* processResourceBind: the features tell whether a session must be created.
HandleBound ==
    /\ Answers("bind", {"result"})
    /\ LET c == [client EXCEPT !.bound = TRUE] IN
       IF "session" \in client.features
       THEN Replies(c, <<Request("session")>>) /\ Answered("bind", {"session"})
       ELSE GoesOnline(c) /\ Answered("bind", Tracks(c))

HandleBindError ==
    /\ Answers("bind", {"error"})
    /\ Replies([client EXCEPT !.told = "bindError"], <<>>)
    /\ Answered("bind", {})

HandleSession ==
    /\ Answers("session", {"result"})
    /\ GoesOnline(client)
    /\ Answered("session", Tracks(client))

HandleSessionError ==
    /\ Answers("session", {"error"})
    /\ Replies([client EXCEPT !.told = "sessionError"], <<>>)
    /\ Answered("session", {})

HandleDelimiter ==
    /\ Answers("delimiter", {"result", "error"})
    /\ Replies(client, <<>>)
    /\ Answered("delimiter", {})

\* rosterFilled(), with the roster or with an error.
HandleRoster ==
    /\ Answers("roster", {"result", "error"})
    /\ Replies(Online(client), <<<<"presence", "">>>>)
    /\ Answered("roster", {})

\* NonSaslAuth::handleIqID: the fields, then the result; an error disconnects
\* from inside the handler, before the request is forgotten.
HandleAuthFields ==
    /\ Answers("authFields", {"result"})
    /\ Replies(client, <<Request("auth")>>)
    /\ Answered("authFields", {"auth"})

HandleAuthResult ==
    /\ Answers("auth", {"result"})
    /\ LET c == [client EXCEPT !.authed = TRUE] IN
          GoesOnline(c) /\ Answered("auth", Tracks(c))

HandleAuthError ==
    /\ \/ Answers("authFields", {"error"})
       \/ Answers("auth", {"error"})
    /\ Drops(TRUE)

-----------------------------------------------------------------------------
(* The server.                                                             *)

ServerFeatures(s) ==
      {f \in offer.features \cap {"starttls"} : ~s.layers.tls}
 \cup {f \in offer.features \cap {"zlib"} : ~s.layers.zlib}
 \cup IF s.login = "done" THEN offer.features \cap {"bind", "session"}
                          ELSE offer.features \cap (Mechanisms \cup {"iqAuth"})

\* The server reads a stanza, and answers under the layers it had until then.
Serves(s, types) ==
    /\ server' = s
    /\ toServer' = Tail(toServer)
    /\ toClient' = toClient \o [i \in 1..Len(types) |-> Stanza(types[i][1], types[i][2], server.layers)]
    /\ UNCHANGED <<settings, offer, client, tracked, notifying, connects, overtaken>>

Reads(type) == toServer # <<>> /\ Head(toServer).type = type
Asked == Head(toServer).arg

ServeHeader ==
    /\ Reads("header")
    /\ \/ Serves(server, <<<<"stream", "1.0">>, <<"features", ServerFeatures(server)>>>>)
       \/ Serves(server, <<<<"stream", "2.0">>>>)

ServeStartTls ==
    /\ Reads("starttls")
    /\ \/ Serves([server EXCEPT !.layers.tls = TRUE], <<<<"proceed", "">>>>)
       \/ Serves(server, <<<<"failure", "">>>>)

ServeCompress ==
    /\ Reads("compress")
    /\ \/ Serves([server EXCEPT !.layers.zlib = TRUE], <<<<"compressed", "">>>>)
       \/ Serves(server, <<<<"failure", "">>>>)

\* One login to a stream, by a mechanism on offer.
ServeAuth ==
    /\ Reads("auth")
    /\ LET known == Asked \in offer.features /\ server.login = "none" IN
       \/ known /\ Asked = "DIGEST-MD5"
          /\ Serves([server EXCEPT !.login = "challenged"], <<<<"challenge", "">>>>)
       \/ known /\ Asked # "DIGEST-MD5"
          /\ Serves([server EXCEPT !.login = "done"], <<<<"success", "">>>>)
       \/ Serves(server, <<<<"failure", "">>>>)

ServeResponse ==
    /\ Reads("response")
    /\ \/ server.login = "challenged"
          /\ Serves([server EXCEPT !.login = "answered"], <<<<"challenge", "">>>>)
       \/ server.login = "answered"
          /\ Serves([server EXCEPT !.login = "done"], <<<<"success", "">>>>)
       \/ Serves(server, <<<<"failure", "">>>>)

\* A request is granted to who may ask for it, refused to anybody.
Grantable(context) ==
    /\ context \in {"authFields", "auth"} => "iqAuth" \in offer.features /\ server.login = "none"
    /\ context \in {"bind", "delimiter", "roster"} => server.login = "done"
    /\ context = "bind" => ~server.bound
    /\ context = "session" => server.bound

\* What the server has done when it grants the request.
Granted(context) ==
    [server EXCEPT !.login = IF context = "auth" THEN "done" ELSE @,
                   !.bound = @ \/ context \in {"auth", "bind"},
                   !.session = @ \/ context = "session",
                   !.roster = @ \/ context = "roster"]

ServeRequest ==
    /\ Reads("iq")
    /\ \/ Grantable(Asked) /\ Serves(Granted(Asked), <<<<"answer", <<Asked, "result">>>>>>)
       \/ Serves(server, <<<<"answer", <<Asked, "error">>>>>>)

ServePresence ==
    /\ Reads("presence")
    /\ Serves(server, <<>>)

\* The server ends the stream, at any time.
ServerEnds ==
    /\ client.state = "connected"
    /\ \A i \in 1..Len(toClient) : toClient[i].type # "error"
    /\ toClient' = Append(toClient, Stanza("error", "", server.layers))
    /\ UNCHANGED <<settings, offer, client, server, tracked, toServer, notifying, connects, overtaken>>

-----------------------------------------------------------------------------
Handle ==
    \/ HandleStream \/ HandleStreamError \/ HandleFeatures \/ HandleProceed
    \/ HandleHandshakeResult \/ HandleFailure \/ HandleCompressed
    \/ HandleChallenge \/ HandleSuccess \/ HandleBound \/ HandleBindError
    \/ HandleSession \/ HandleSessionError \/ HandleDelimiter \/ HandleRoster
    \/ HandleAuthFields \/ HandleAuthResult \/ HandleAuthError

Serve ==
    \/ ServeHeader \/ ServeStartTls \/ ServeCompress \/ ServeAuth
    \/ ServeResponse \/ ServeRequest \/ ServePresence

ClientNext ==
    \/ Connect \/ LoseConnection \/ Disconnect \/ ResetAfterListeners
    \/ Handle \/ Serve \/ ServerEnds

ClientFairness ==
    /\ WF_clientVars(Handle)
    /\ WF_clientVars(Serve)

ClientSpec == ClientInit /\ [][ClientNext]_clientVars /\ ClientFairness

-----------------------------------------------------------------------------
(* Properties.                                                             *)

Stanzas(types, args) == [type : types, arg : args, layers : Layers]

ToServerType ==
    Stanzas({"header", "starttls", "compress", "response", "presence"}, {""})
    \cup Stanzas({"auth"}, Mechanisms) \cup Stanzas({"iq"}, Contexts)

ToClientType ==
    Stanzas({"stream"}, {"1.0", "2.0"}) \cup Stanzas({"features"}, SUBSET StreamFeatures)
    \cup Stanzas({"proceed", "failure", "compressed", "challenge", "success", "error"}, {""})
    \cup Stanzas({"answer"}, Contexts \X {"result", "error"})

ClientType ==
    [state : {"disconnected", "connected"}, layers : Layers, handshake : BOOLEAN,
     authed : BOOLEAN, bound : BOOLEAN, features : SUBSET StreamFeatures,
     told : {"nothing", "connect", "disconnect", "bindError", "sessionError"}, online : Nat]

ServerType ==
    [layers : Layers, login : {"none", "challenged", "answered", "done"},
     bound : BOOLEAN, session : BOOLEAN, roster : BOOLEAN]

\* Every variable holds values of its type.
ClientTypeOK ==
    /\ settings \in Settings
    /\ offer \in Offers
    /\ client \in ClientType
    /\ server \in ServerType
    /\ tracked \subseteq [context : Contexts, of : 1..MaxConnects]
    /\ toServer \in Seq(ToServerType)
    /\ toClient \in Seq(ToClientType)
    /\ notifying \in Nat
    /\ connects \in 0..MaxConnects
    /\ overtaken \in BOOLEAN

\* A client that requires TLS says nothing in the clear but what it takes to
\* get TLS (Client::handleNormalNode, client.cpp:138-151): with any settings,
\* any server, and also when a disconnection is being told meanwhile.
TlsRequiredHonoured ==
    settings.tls = "required" =>
        \A i \in 1..Len(toServer) :
            toServer[i].type \in {"header", "starttls"} \/ toServer[i].layers.tls

\* The two ends agree on the layers of every stanza: it is read under the
\* encryption and the compression it was written under, although each end
\* switches at a moment of its own (client.cpp:228-237, 259-264).
LayersAgree ==
    /\ toServer # <<>> => Head(toServer).layers = server.layers
    /\ toClient # <<>> => Head(toClient).layers = client.layers

\* A client that is told it is connected is: the server has let it log in, has
\* bound its resource and created its session, and has been asked for the
\* roster.  Without a password and without anonymous login the client goes on
\* unknown to the server (client.cpp:199-203).
ConnectedMeansReady ==
    client.told = "connect" /\ client.state = "connected" /\ ~overtaken =>
        \/ ~settings.password /\ "ANONYMOUS" \notin offer.features
        \/ /\ server.login = "done" /\ client.authed
           /\ server.bound
           /\ settings.manageRoster => "roster" \notin {t.context : t \in {u \in tracked : u.of = connects}}
           /\ client.bound /\ "session" \in offer.features => server.session

\* The listeners hear of a connection once, whatever is in flight.
OnceOnline == client.online <= 1

\* authed() is TRUE of a client the server has let in on this connection, and
\* of no other (clientbase.h:286-289), unless the connection was opened from
\* inside onDisconnect.
AuthedByServer == ~overtaken /\ client.state = "connected" /\ client.authed => server.login = "done"

\* What the listeners are told of a login is so, and they are told once.
OnlineMeansReady == ConnectedMeansReady /\ OnceOnline /\ AuthedByServer

\* A login comes to an end: the listeners hear of success or of failure.  Not
\* so when the server lets the client in and then does not offer to bind a
\* resource (client.cpp:163-170), nor on a connection opened from inside
\* onDisconnect.
LoginSettles ==
    (client.state = "connected" /\ client.told = "nothing")
        ~> \/ client.told # "nothing"
           \/ overtaken
           \/ client.authed /\ "bind" \notin offer.features

=============================================================================
