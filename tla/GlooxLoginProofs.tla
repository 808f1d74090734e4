-------------------------- MODULE GlooxLoginProofs --------------------------
(***************************************************************************)
(* Proofs about GlooxClient, continued: what the listeners are told of a   *)
(* login is so.  A login is one stanza that goes back and forth, or is in  *)
(* nobody's hands; what it says when it is read was so when it was written *)
(* and nothing has changed it since.                                       *)
(***************************************************************************)
EXTENDS GlooxClientProofs

\* The requests by which a login goes on once there is a stream.
Stages == {"authFields", "auth", "bind", "session", "roster"}

StepsOut == {m \in ToServerType : m.type \in Moves \/ (m.type = "iq" /\ m.arg \in Stages)}

StepsIn == {m \in ToClientType : m.type \in Prompts \/ (m.type = "answer" /\ m.arg[1] \in Stages)}

None(s, P) == \A i \in 1..Len(s) : s[i] \notin P
One(s, P) == \A i, j \in 1..Len(s) : s[i] \in P /\ s[j] \in P => i = j

\* The login is in one place at a time: a stanza to the server, one to the
\* client, the handshake, or the listeners, who have been told.
OneStepAtATime ==
    /\ One(toServer, StepsOut) /\ One(toClient, StepsIn)
    /\ None(toServer, StepsOut) \/ None(toClient, StepsIn)
    /\ client.handshake \/ client.online # 0 => None(toServer, StepsOut) /\ None(toClient, StepsIn)
    /\ client.handshake => client.online = 0
    /\ client.online <= 1
    /\ client.told = "connect" => client.online = 1

\* A connection is opened with what the last one left in the client only while
\* a listener has not returned.
ListenersDone ==
    /\ client.state = "disconnected" =>
          server = FreshServer /\ client.handshake = FALSE /\ (notifying = 0 => ~client.authed /\ ~client.bound)
    /\ client.state = "connected" /\ ~overtaken => notifying = 0

\* What the two ends know of each other, where the login is.
Known == (server.login = "done") = client.authed
SessionMade == client.bound /\ "session" \in offer.features => server.session
SessionNamed == "session" \in offer.features => "session" \in client.features

SoundOut(m) ==
    /\ Known
    /\ (m.type = "iq" /\ m.arg \in {"session", "roster"}) \/ ~client.bound
    /\ m.type = "iq" =>
          /\ m.arg \in {"bind", "session", "roster"} => client.authed
          /\ m.arg = "bind" => SessionNamed
          /\ m.arg \in {"session", "roster"} => server.bound
          /\ m.arg = "roster" => SessionMade

\* The server has let the client in, who does not know it.
LetsIn(m) == m.type = "success" \/ (m.type = "answer" /\ m.arg = <<"auth", "result">>)

SoundIn(m) ==
    /\ IF LetsIn(m) THEN server.login = "done" ELSE Known
    /\ (m.type = "answer" /\ m.arg[1] \in {"session", "roster"}) \/ ~client.bound
    /\ m.type = "features" =>
          IF server.login = "done" THEN "session" \in offer.features => "session" \in m.arg
          ELSE "ANONYMOUS" \in offer.features => "ANONYMOUS" \in m.arg
    /\ m.type = "answer" =>
          /\ m.arg[1] \in {"bind", "session", "roster"} => client.authed
          /\ m.arg[1] = "bind" => SessionNamed
          /\ m.arg[1] \in {"session", "roster"} \/ m.arg \in {"auth", "bind"} \X {"result"} => server.bound
          /\ m.arg = <<"session", "result">> => server.session
          /\ m.arg[1] = "roster" => SessionMade

UnsoundOut == {m \in StepsOut : ~SoundOut(m)}
UnsoundIn == {m \in StepsIn : ~SoundIn(m)}

Unheard == ~settings.password /\ "ANONYMOUS" \notin offer.features

LetIn == server.login = "done" /\ client.authed /\ server.bound /\ SessionMade

Ready ==
    \/ Unheard
    \/ LetIn /\ (settings.manageRoster => [context |-> "roster", of |-> connects] \notin tracked)

StepsSound ==
    client.state = "connected" /\ ~overtaken =>
        /\ client.authed => server.login = "done"
        /\ None(toServer, UnsoundOut) /\ None(toClient, UnsoundIn)
        /\ client.handshake => Known /\ ~client.bound
        /\ client.told = "connect" => Ready

LoginInvariant == OneStepAtATime /\ ListenersDone /\ StepsSound

-----------------------------------------------------------------------------
(* Sequences with at most one element of a kind.                           *)

LEMMA TailSteps ==
    ASSUME NEW T, NEW s \in Seq(T), s # <<>>, NEW P
    PROVE  /\ None(s, P) => None(Tail(s), P) /\ Head(s) \notin P
           /\ One(s, P) => One(Tail(s), P)
           /\ One(s, P) /\ Head(s) \in P => None(Tail(s), P)
           /\ Head(s) \in P => ~None(s, P)
<1> DEFINE t == Tail(s)
<1>1. /\ Len(s) \in Nat /\ Len(s) > 0 /\ Head(s) = s[1]
      /\ Len(t) = Len(s) - 1 /\ \A i \in 1..(Len(s) - 1) : t[i] = s[i + 1]
  BY HeadTailProperties, EmptySeq
<1> HIDE DEF t
<1>2. \A i \in 1..Len(t) : i \in Nat /\ i + 1 \in 1..Len(s) /\ i + 1 # 1 /\ t[i] = s[i + 1]
  BY <1>1
<1>3. 1 \in 1..Len(s)
  BY <1>1
<1>4. None(s, P) => None(t, P) /\ Head(s) \notin P
  BY <1>1, <1>2, <1>3 DEF None
<1>5. One(s, P) => One(t, P)
  BY <1>2 DEF One
<1>6. One(s, P) /\ Head(s) \in P => None(t, P)
  BY <1>1, <1>2, <1>3 DEF One, None
<1> QED BY <1>1, <1>3, <1>4, <1>5, <1>6 DEF t, None

LEMMA ConcatSteps ==
    ASSUME NEW T, NEW s \in Seq(T), NEW t \in Seq(T), NEW P
    PROVE  /\ None(s, P) /\ None(t, P) => None(s \o t, P)
           /\ None(s, P) /\ One(t, P) => One(s \o t, P)
           /\ One(s, P) /\ None(t, P) => One(s \o t, P)
<1> DEFINE u == s \o t
<1>1. /\ Len(s) \in Nat /\ Len(t) \in Nat /\ Len(u) = Len(s) + Len(t)
      /\ \A i \in 1..(Len(s) + Len(t)) : u[i] = IF i <= Len(s) THEN s[i] ELSE t[i - Len(s)]
  BY ConcatProperties, LenProperties
<1> HIDE DEF u
<1>2. \A i \in 1..Len(u) :
        \/ i \in 1..Len(s) /\ u[i] = s[i]
        \/ i \in Nat /\ i - Len(s) \in 1..Len(t) /\ u[i] = t[i - Len(s)]
  BY <1>1
<1>3. None(s, P) /\ None(t, P) => None(u, P)
  BY <1>2 DEF None
<1>4. ASSUME None(s, P), One(t, P), NEW i \in 1..Len(u), NEW j \in 1..Len(u), u[i] \in P, u[j] \in P
      PROVE  i = j
  <2>1. /\ i \in Nat /\ i - Len(s) \in 1..Len(t) /\ u[i] = t[i - Len(s)]
        /\ j \in Nat /\ j - Len(s) \in 1..Len(t) /\ u[j] = t[j - Len(s)]
    BY <1>2, <1>4 DEF None
  <2>2. i - Len(s) = j - Len(s)
    BY <1>4, <2>1 DEF One
  <2> QED BY <1>1, <2>1, <2>2
<1>5. One(s, P) /\ None(t, P) => One(u, P)
  BY <1>2 DEF None, One
<1> QED BY <1>3, <1>4, <1>5 DEF u, One

LEMMA FewSteps ==
    ASSUME NEW P
    PROVE  /\ None(<<>>, P) /\ One(<<>>, P)
           /\ \A x : One(<<x>>, P) /\ (x \notin P => None(<<x>>, P))
           /\ \A x, y : x \notin P => One(<<x, y>>, P) /\ (y \notin P => None(<<x, y>>, P))
BY DEF None, One

LEMMA NoneAtAll ==
    ASSUME NEW s, NEW P, NEW Q, Q \subseteq P, None(s, P)
    PROVE  None(s, Q) /\ One(s, P)
BY DEF None, One

-----------------------------------------------------------------------------
(* The kinds of steps.                                                     *)

LEMMA Queues ==
    ASSUME ClientInvariant
    PROVE  /\ toServer \in Seq(ToServerType) /\ toClient \in Seq(ToClientType)
           /\ client \in ClientType /\ server \in ServerType
           /\ client.state = "disconnected" => toServer = <<>> /\ toClient = <<>>
           /\ client.state \in {"connected", "disconnected"}
           /\ client.authed \in BOOLEAN /\ client.bound \in BOOLEAN /\ client.handshake \in BOOLEAN
           /\ client.online \in Nat
BY DEF ClientInvariant, ClientTypeOK, ClientType, Cut

LEMMA Unsound ==
    /\ UnsoundOut \subseteq StepsOut /\ UnsoundIn \subseteq StepsIn
    /\ UnsoundOut' \subseteq StepsOut /\ UnsoundIn' \subseteq StepsIn
BY DEF UnsoundOut, UnsoundIn

\* The client reads what the login waits for.
LEMMA StepRead ==
    ASSUME ClientInvariant, LoginInvariant, toClient # <<>>, Head(toClient) \in StepsIn
    PROVE  /\ None(toServer, StepsOut) /\ None(Tail(toClient), StepsIn)
           /\ ~client.handshake /\ client.online = 0 /\ client.told # "connect"
           /\ client.state = "connected"
           /\ ~overtaken => /\ notifying = 0 /\ SoundIn(Head(toClient))
                            /\ client.authed => server.login = "done"
<1>1. /\ ~None(toClient, StepsIn) /\ One(toClient, StepsIn)
      /\ None(Tail(toClient), StepsIn)
  BY Queues, TailSteps DEF LoginInvariant, OneStepAtATime
<1>2. /\ None(toServer, StepsOut) /\ ~client.handshake /\ client.online = 0
      /\ client.told # "connect"
  BY <1>1, Queues DEF LoginInvariant, OneStepAtATime
<1>3. client.state = "connected"
  BY Queues
<1>4. ASSUME ~overtaken
      PROVE  /\ notifying = 0 /\ SoundIn(Head(toClient))
             /\ client.authed => server.login = "done"
  <2>1. None(toClient, UnsoundIn)
    BY <1>3, <1>4 DEF LoginInvariant, StepsSound
  <2>2. Head(toClient) \notin UnsoundIn
    BY <2>1, Queues, TailSteps
  <2> QED BY <1>3, <1>4, <2>2 DEF UnsoundIn, LoginInvariant, StepsSound, ListenersDone
<1> QED BY <1>1, <1>2, <1>3, <1>4

\* ... and goes on with it: with something to ask, or with none.
LEMMA StepTaken ==
    ASSUME ClientInvariant, LoginInvariant, toClient # <<>>, Head(toClient) \in StepsIn,
           NEW c, c.state = client.state, NEW types, Replies(c, types),
           NEW out \in Seq(ToServerType), Send(c, types) = out,
           One(out, StepsOut),
           c.handshake \/ c.online # 0 => None(out, StepsOut),
           c.handshake => c.online = 0, c.online = 0 \/ c.online = 1,
           c.told = "connect" => c.online = 1,
           ~overtaken => /\ c.authed => server.login = "done"
                         /\ None(out, UnsoundOut')
                         /\ c.handshake => Known' /\ ~c.bound
                         /\ c.told = "connect" => Ready'
    PROVE  LoginInvariant'
<1>1. /\ None(toServer, StepsOut) /\ None(Tail(toClient), StepsIn) /\ client.state = "connected"
      /\ ~overtaken => notifying = 0
  BY StepRead
<1>2. /\ client' = c /\ toServer' = toServer \o out /\ toClient' = Tail(toClient)
      /\ UNCHANGED <<settings, offer, server, notifying, connects, overtaken>>
  BY DEF Replies
<1>3. /\ One(toServer', StepsOut)
      /\ None(out, StepsOut) => None(toServer', StepsOut)
  BY <1>1, <1>2, Queues, ConcatSteps
<1>4. /\ None(toClient', StepsIn) /\ One(toClient', StepsIn) /\ None(toClient', UnsoundIn')
  BY <1>1, <1>2, NoneAtAll, Unsound
<1>5. OneStepAtATime'
  BY <1>2, <1>3, <1>4 DEF OneStepAtATime
<1>6. ListenersDone'
  BY <1>1, <1>2 DEF ListenersDone
<1>7. StepsSound'
  <2> SUFFICES ASSUME ~overtaken
               PROVE  /\ c.authed => server.login = "done"
                      /\ None(toServer', UnsoundOut')
                      /\ c.handshake => Known' /\ ~c.bound
                      /\ c.told = "connect" => Ready'
    BY <1>2, <1>4 DEF StepsSound
  <2>1. None(toServer, UnsoundOut')
    BY <1>1, NoneAtAll, Unsound
  <2>2. None(toServer', UnsoundOut')
    BY <1>2, <2>1, Queues, ConcatSteps
  <2> QED BY <2>2
<1> QED BY <1>5, <1>6, <1>7 DEF LoginInvariant

LEMMA DropsLogin ==
    ASSUME ClientInvariant, LoginInvariant, NEW clears \in BOOLEAN, Drops(clears)
    PROVE  LoginInvariant'
<1>1. /\ Disconnected(clears).state = "disconnected" /\ Disconnected(clears).handshake = FALSE
      /\ Disconnected(clears).online = client.online /\ Disconnected(clears).told = "disconnect"
  BY Queues DEF Disconnected, ClientType
<1>2. /\ client'.state = "disconnected" /\ client'.handshake = FALSE
      /\ client'.online = client.online /\ client'.told = "disconnect"
      /\ server' = FreshServer /\ toServer' = <<>> /\ toClient' = <<>> /\ notifying' = notifying + 1
  BY <1>1 DEF Drops
<1>3. notifying' # 0
  BY <1>2 DEF ClientInvariant, ClientTypeOK
<1>4. OneStepAtATime'
  BY <1>2, FewSteps DEF OneStepAtATime, LoginInvariant
<1>5. ListenersDone'
  BY <1>2, <1>3 DEF ListenersDone
<1>6. StepsSound'
  BY <1>2 DEF StepsSound
<1> QED BY <1>4, <1>5, <1>6 DEF LoginInvariant

\* The client reads something else and says nothing.
LEMMA PassedOver ==
    ASSUME ClientInvariant, LoginInvariant, toClient # <<>>, Head(toClient) \notin StepsIn,
           Replies(client, <<>>), tracked' \subseteq tracked
    PROVE  LoginInvariant'
<1>1. /\ client' = client /\ toServer' = toServer /\ toClient' = Tail(toClient)
      /\ UNCHANGED <<settings, offer, server, notifying, connects, overtaken>>
  <2>1. toServer \o <<>> = toServer
    BY Queues, ConcatEmptySeq
  <2> QED BY <2>1, SaysNothing DEF Replies
<1>2. /\ One(toClient, StepsIn) => One(toClient', StepsIn)
      /\ None(toClient, StepsIn) => None(toClient', StepsIn)
      /\ None(toClient, UnsoundIn) => None(toClient', UnsoundIn)
  BY <1>1, Queues, TailSteps
<1>3. UnsoundIn' = UnsoundIn /\ UnsoundOut' = UnsoundOut
  BY <1>1 DEF UnsoundIn, UnsoundOut, SoundIn, SoundOut, Known, SessionMade, SessionNamed
<1>4. Ready => Ready'
  BY <1>1 DEF Ready, Unheard, LetIn, SessionMade
<1>5. OneStepAtATime'
  BY <1>1, <1>2 DEF OneStepAtATime, LoginInvariant
<1>6. ListenersDone'
  BY <1>1 DEF ListenersDone, LoginInvariant
<1>7. StepsSound'
  BY <1>1, <1>2, <1>3, <1>4 DEF StepsSound, LoginInvariant, Known
<1> QED BY <1>5, <1>6, <1>7 DEF LoginInvariant

\* The server reads what the login waits for.
LEMMA StepAsked ==
    ASSUME ClientInvariant, LoginInvariant, toServer # <<>>, Head(toServer) \in StepsOut
    PROVE  /\ None(toClient, StepsIn) /\ None(Tail(toServer), StepsOut)
           /\ ~client.handshake /\ client.online = 0 /\ client.told # "connect"
           /\ client.state = "connected"
           /\ ~overtaken => /\ notifying = 0 /\ SoundOut(Head(toServer))
                            /\ client.authed => server.login = "done"
<1>1. /\ ~None(toServer, StepsOut) /\ One(toServer, StepsOut)
      /\ None(Tail(toServer), StepsOut)
  BY Queues, TailSteps DEF LoginInvariant, OneStepAtATime
<1>2. /\ None(toClient, StepsIn) /\ ~client.handshake /\ client.online = 0
      /\ client.told # "connect"
  BY <1>1, Queues DEF LoginInvariant, OneStepAtATime
<1>3. client.state = "connected"
  BY Queues
<1>4. ASSUME ~overtaken
      PROVE  /\ notifying = 0 /\ SoundOut(Head(toServer))
             /\ client.authed => server.login = "done"
  <2>1. None(toServer, UnsoundOut)
    BY <1>3, <1>4 DEF LoginInvariant, StepsSound
  <2>2. Head(toServer) \notin UnsoundOut
    BY <2>1, Queues, TailSteps
  <2> QED BY <1>3, <1>4, <2>2 DEF UnsoundOut, LoginInvariant, StepsSound, ListenersDone
<1> QED BY <1>1, <1>2, <1>3, <1>4

LEMMA StepServed ==
    ASSUME ClientInvariant, LoginInvariant, toServer # <<>>, Head(toServer) \in StepsOut,
           NEW s, NEW types, Serves(s, types),
           NEW out \in Seq(ToClientType), toClient' = toClient \o out,
           One(out, StepsIn),
           ~overtaken => /\ client.authed => s.login = "done"
                         /\ None(out, UnsoundIn')
    PROVE  LoginInvariant'
<1>1. /\ None(toClient, StepsIn) /\ None(Tail(toServer), StepsOut)
      /\ ~client.handshake /\ client.online = 0 /\ client.told # "connect"
      /\ client.state = "connected"
      /\ ~overtaken => notifying = 0
  BY StepAsked
<1>2. /\ server' = s /\ toServer' = Tail(toServer)
      /\ UNCHANGED <<settings, offer, client, tracked, notifying, connects, overtaken>>
  BY DEF Serves
<1>3. One(toClient', StepsIn)
  BY <1>1, Queues, ConcatSteps
<1>4. /\ None(toServer', StepsOut) /\ One(toServer', StepsOut) /\ None(toServer', UnsoundOut')
  BY <1>1, <1>2, NoneAtAll, Unsound
<1>5. OneStepAtATime'
  BY <1>1, <1>2, <1>3, <1>4 DEF OneStepAtATime
<1>6. ListenersDone'
  BY <1>1, <1>2 DEF ListenersDone
<1>7. StepsSound'
  <2> SUFFICES ASSUME ~overtaken PROVE None(toClient', UnsoundIn')
    BY <1>1, <1>2, <1>4 DEF StepsSound
  <2>1. None(toClient, UnsoundIn')
    BY <1>1, NoneAtAll, Unsound
  <2> QED BY <2>1, Queues, ConcatSteps
<1> QED BY <1>5, <1>6, <1>7 DEF LoginInvariant

\* The server does something else.
LEMMA ServedOtherwise ==
    ASSUME ClientInvariant, LoginInvariant, client.state = "connected",
           toServer' = toServer
             \/ (toServer # <<>> /\ Head(toServer) \notin StepsOut /\ toServer' = Tail(toServer)),
           server'.login = server.login, server'.bound = server.bound,
           server'.session = server.session,
           NEW out \in Seq(ToClientType), toClient' = toClient \o out, None(out, StepsIn),
           UNCHANGED <<settings, offer, client, tracked, notifying, connects, overtaken>>
    PROVE  LoginInvariant'
<1>2. /\ One(toServer, StepsOut) => One(toServer', StepsOut)
      /\ None(toServer, StepsOut) => None(toServer', StepsOut)
      /\ None(toServer, UnsoundOut) => None(toServer', UnsoundOut)
  <2>1. CASE toServer' = toServer
    BY <2>1
  <2>2. CASE toServer # <<>> /\ toServer' = Tail(toServer)
    BY <2>2, Queues, TailSteps
  <2> QED BY <2>1, <2>2
<1>3. UnsoundIn' = UnsoundIn /\ UnsoundOut' = UnsoundOut
  BY DEF UnsoundIn, UnsoundOut, SoundIn, SoundOut, Known, SessionMade, SessionNamed
<1>4. Ready => Ready'
  BY DEF Ready, Unheard, LetIn, SessionMade
<1>5. None(out, UnsoundIn)
  BY NoneAtAll, Unsound
<1>6. /\ One(toClient, StepsIn) => One(toClient', StepsIn)
      /\ None(toClient, StepsIn) => None(toClient', StepsIn)
      /\ None(toClient, UnsoundIn) => None(toClient', UnsoundIn)
  BY <1>5, Queues, ConcatSteps
<1>7. OneStepAtATime'
  BY <1>2, <1>6 DEF OneStepAtATime, LoginInvariant
<1>8. ListenersDone'
  BY DEF ListenersDone, LoginInvariant
<1>9. StepsSound'
  BY <1>2, <1>3, <1>4, <1>6 DEF StepsSound, LoginInvariant, Known
<1> QED BY <1>7, <1>8, <1>9 DEF LoginInvariant

\* The login goes on with one stanza more.
LEMMA TakesStep ==
    ASSUME ClientInvariant, LoginInvariant, toClient # <<>>, Head(toClient) \in StepsIn,
           NEW c, c.state = client.state, NEW x, Replies(c, <<x>>),
           Stanza(x[1], x[2], c.layers) \in ToServerType,
           ~c.handshake, c.online = 0, c.told # "connect",
           ~overtaken => /\ c.authed => server.login = "done"
                         /\ SoundOut([type |-> x[1], arg |-> x[2]])'
    PROVE  LoginInvariant'
<1>1. client.state = "connected"
  BY StepRead
<1>2. PICK m \in ToServerType : m = Stanza(x[1], x[2], c.layers)
  OBVIOUS
<1>3. Send(c, <<x>>) = <<m>>
  BY <1>1, <1>2, SaysIt
<1>4. m.type = x[1] /\ m.arg = x[2]
  BY <1>2, Fields
<1>5. ASSUME ~overtaken PROVE None(<<m>>, UnsoundOut')
  <2>1. SoundOut(m)'
    BY <1>4, <1>5 DEF SoundOut
  <2>2. m \notin UnsoundOut'
    BY <2>1 DEF UnsoundOut
  <2> QED BY <2>2, FewSteps
<1>6. <<m>> \in Seq(ToServerType) /\ One(<<m>>, StepsOut)
  <2>1. <<m>> \in Seq(ToServerType)
    OBVIOUS
  <2> QED BY <2>1, FewSteps
<1> DEFINE types == <<x>>
           out == <<m>>
<1>7. Replies(c, types) /\ Send(c, types) = out /\ out \in Seq(ToServerType) /\ One(out, StepsOut)
      /\ (~overtaken => None(out, UnsoundOut'))
  BY <1>3, <1>5, <1>6
<1> HIDE DEF types, out
<1> QED BY <1>7, StepTaken

\* The login is over for the client, or what comes next is the server's to say.
LEMMA TakesNone ==
    ASSUME ClientInvariant, LoginInvariant, toClient # <<>>, Head(toClient) \in StepsIn,
           NEW c, c.state = client.state, NEW types, Replies(c, types),
           NEW out \in Seq(ToServerType), Send(c, types) = out, None(out, StepsOut),
           c.handshake => c.online = 0, c.online = 0 \/ c.online = 1,
           c.told = "connect" => c.online = 1,
           ~overtaken => /\ c.authed => server.login = "done"
                         /\ c.handshake => Known' /\ ~c.bound
                         /\ c.told = "connect" => Ready'
    PROVE  LoginInvariant'
<1>1. One(out, StepsOut) /\ None(out, UnsoundOut')
  BY NoneAtAll, Unsound
<1> QED BY <1>1, StepTaken

LEMMA Presence ==
    ASSUME NEW c, c.layers \in Layers, c.state = "connected"
    PROVE  \E out \in Seq(ToServerType) :
                Send(c, <<<<"presence", NoArg>>>>) = out /\ None(out, StepsOut)
<1> DEFINE x == <<"presence", NoArg>>
<1>1. x[1] = "presence" /\ x[2] = NoArg
  OBVIOUS
<1> HIDE DEF x
<1> DEFINE m == Stanza(x[1], x[2], c.layers)
<1>2. m \in ToServerType /\ m.type = "presence"
  BY <1>1, Fields, SaidTyped
<1>3. Send(c, <<x>>) = <<m>>
  BY SaysIt
<1> HIDE DEF m
<1>4. m \notin StepsOut
  BY <1>2 DEF StepsOut, Moves
<1>5. <<m>> \in Seq(ToServerType) /\ None(<<m>>, StepsOut)
  BY <1>2, <1>4, FewSteps
<1> QED BY <1>3, <1>5 DEF x

LEMMA SilentOut ==
    ASSUME NEW c
    PROVE  \E out \in Seq(ToServerType) : Send(c, <<>>) = out /\ None(out, StepsOut)
BY SaysNothing, FewSteps, EmptySeq

\* The listeners are told.
LEMMA GoesOnlineLogin ==
    ASSUME ClientInvariant, LoginInvariant, toClient # <<>>, Head(toClient) \in StepsIn,
           NEW c \in ClientType, c.state = client.state, ~c.handshake, c.online = 0,
           c.told # "connect", GoesOnline(c),
           ~overtaken =>
              \/ ~c.authed /\ Unheard
              \/ /\ server.login = "done" /\ c.authed /\ server.bound
                 /\ c.bound /\ "session" \in offer.features => server.session
    PROVE  LoginInvariant'
<1>1. client.state = "connected" /\ c.layers \in Layers
  BY StepRead DEF ClientType
<1>2. CASE c.authed /\ settings.manageRoster
  <2> DEFINE d == Request("delimiter")
             q == Request("roster")
             types == <<d, q>>
  <2>1. d[1] = "iq" /\ d[2] = "delimiter" /\ q[1] = "iq" /\ q[2] = "roster"
    BY DEF Request
  <2>2. Replies(c, types)
    BY <1>2 DEF GoesOnline
  <2> HIDE DEF d, q
  <2>3. PICK m, n \in ToServerType : /\ m = Stanza(d[1], d[2], c.layers)
                                     /\ n = Stanza(q[1], q[2], c.layers)
    <3>1. "delimiter" \in Contexts /\ "roster" \in Contexts
      BY DEF Contexts
    <3> QED BY <1>1, <2>1, <3>1, SaidTyped
  <2>4. m.type = "iq" /\ m.arg = "delimiter" /\ n.type = "iq" /\ n.arg = "roster"
    BY <2>1, <2>3, Fields
  <2>5. Send(c, types) = <<m, n>>
    BY <1>1, <2>3 DEF Send
  <2>6. m \notin StepsOut
    BY <2>4 DEF StepsOut, Moves, Stages
  <2>7. <<m, n>> \in Seq(ToServerType) /\ One(<<m, n>>, StepsOut)
    <3>1. <<m, n>> \in Seq(ToServerType)
      OBVIOUS
    <3> QED BY <2>6, <3>1, FewSteps
  <2>8. client' = c /\ UNCHANGED <<offer, server, overtaken>>
    BY <2>2 DEF Replies
  <2>9. ASSUME ~overtaken
        PROVE  None(<<m, n>>, UnsoundOut') /\ (c.authed => server.login = "done")
    <3>1. /\ server.login = "done" /\ c.authed /\ server.bound
          /\ c.bound /\ "session" \in offer.features => server.session
      BY <1>2, <2>9
    <3>2. SoundOut(n)'
      <4>1. c.authed = TRUE
        BY <3>1 DEF ClientType
      <4> QED BY <2>4, <2>8, <3>1, <4>1 DEF SoundOut, Known, SessionMade
    <3>3. m \notin UnsoundOut' /\ n \notin UnsoundOut'
      BY <2>6, <3>2 DEF UnsoundOut
    <3>4. None(<<m, n>>, UnsoundOut')
      BY <3>3, FewSteps
    <3> QED BY <3>1, <3>4
  <2> DEFINE out == <<m, n>>
  <2>10. /\ Send(c, types) = out /\ out \in Seq(ToServerType) /\ One(out, StepsOut)
         /\ ~overtaken => None(out, UnsoundOut') /\ (c.authed => server.login = "done")
    BY <2>5, <2>7, <2>9
  <2> HIDE DEF types, out
  <2> QED BY <2>2, <2>10, StepTaken
<1>3. CASE ~(c.authed /\ settings.manageRoster)
  <2> DEFINE o == Online(c)
  <2>1. o \in ClientType /\ o.state = c.state /\ o.layers = c.layers /\ o.handshake = c.handshake
        /\ o.authed = c.authed /\ o.bound = c.bound /\ o.online = 1 /\ o.told = "connect"
    <3>1. c.online + 1 = 1
      OBVIOUS
    <3>2. o = [c EXCEPT !.told = "connect", !.online = 1]
      BY <3>1 DEF Online
    <3> QED BY <3>2, OnlineTyped DEF ClientType
  <2>2. \/ Replies(o, <<<<"presence", NoArg>>>>) \/ Replies(o, <<>>)
    <3>1. Replies(o, IF c.authed THEN <<<<"presence", NoArg>>>> ELSE <<>>)
      BY <1>3, Zenon DEF GoesOnline, NoArg
    <3>2. CASE c.authed
      BY <3>1, <3>2
    <3>3. CASE ~c.authed
      BY <3>1, <3>3
    <3> QED BY <3>2, <3>3
  <2> HIDE DEF o
  <2>3. PICK types : Replies(o, types) /\ \E out \in Seq(ToServerType) :
                        Send(o, types) = out /\ None(out, StepsOut)
    BY <1>1, <2>1, <2>2, Presence, SilentOut
  <2>4. PICK out \in Seq(ToServerType) : Send(o, types) = out /\ None(out, StepsOut)
    BY <2>3
  <2>5. client' = o /\ UNCHANGED <<settings, offer, server>>
    BY <2>3 DEF Replies
  <2>6. ASSUME ~overtaken PROVE Ready' /\ (o.authed => server.login = "done")
    <3>1. CASE ~c.authed /\ Unheard
      BY <2>1, <2>5, <3>1 DEF Ready, Unheard
    <3>2. CASE /\ server.login = "done" /\ c.authed /\ server.bound
               /\ c.bound /\ "session" \in offer.features => server.session
      <4>1. ~settings'.manageRoster
        BY <1>3, <2>5, <3>2
      <4> QED BY <2>1, <2>5, <3>2, <4>1 DEF Ready, LetIn, SessionMade
    <3> QED BY <2>6, <3>1, <3>2
  <2> QED BY <2>1, <2>3, <2>4, <2>6, TakesNone
<1> QED BY <1>2, <1>3

-----------------------------------------------------------------------------
(* The handlers.                                                           *)

\* What is read of the login, and when it is not overtaken what it says is so.
LEMMA PromptRead ==
    ASSUME ClientInvariant, LoginInvariant, NEW type \in Prompts, Receives(type)
    PROVE  /\ toClient # <<>> /\ Head(toClient) \in StepsIn
           /\ Head(toClient).type = type /\ Head(toClient) \in ToClientType
           /\ client \in ClientType /\ client.layers \in Layers /\ client.state = "connected"
           /\ ~client.handshake /\ client.online = 0 /\ client.told # "connect"
           /\ ~overtaken =>
                /\ IF type = "success" THEN server.login = "done" ELSE Known
                /\ client.authed => server.login = "done"
                /\ ~client.bound
<1>1. /\ toClient # <<>> /\ client.state = "connected"
      /\ client \in ClientType /\ client.layers \in Layers
      /\ Head(toClient) \in ToClientType
      /\ Head(toClient).type = type
  BY Receiving DEF Answerable
<1>2. Head(toClient) \in StepsIn
  BY <1>1 DEF StepsIn
<1>3. /\ ~client.handshake /\ client.online = 0 /\ client.told # "connect"
      /\ ~overtaken => SoundIn(Head(toClient)) /\ (client.authed => server.login = "done")
  BY <1>1, <1>2, StepRead
<1>4. type # "answer"
  BY DEF Prompts
<1> QED BY <1>1, <1>2, <1>3, <1>4 DEF SoundIn, LetsIn

LEMMA AnswerRead ==
    ASSUME ClientInvariant, LoginInvariant, NEW context \in Stages, NEW kinds, Answers(context, kinds)
    PROVE  /\ toClient # <<>> /\ Head(toClient) \in StepsIn
           /\ Head(toClient).type = "answer" /\ Head(toClient).arg = Received
           /\ Received[1] = context /\ Received[2] \in kinds
           /\ client \in ClientType /\ client.layers \in Layers /\ client.state = "connected"
           /\ ~client.handshake /\ client.online = 0 /\ client.told # "connect"
           /\ ~overtaken => SoundIn(Head(toClient)) /\ (client.authed => server.login = "done")
<1>1. /\ toClient # <<>> /\ client.state = "connected"
      /\ client \in ClientType /\ client.layers \in Layers
      /\ Head(toClient) \in ToClientType
      /\ Head(toClient).type = "answer"
  BY Receiving DEF Answerable, Answers
<1>2. Received[1] = context /\ Received[2] \in kinds /\ Head(toClient).arg = Received
  BY DEF Answers, Received
<1>3. Head(toClient) \in StepsIn
  BY <1>1, <1>2 DEF StepsIn
<1>4. /\ ~client.handshake /\ client.online = 0 /\ client.told # "connect"
      /\ ~overtaken => SoundIn(Head(toClient)) /\ (client.authed => server.login = "done")
  BY <1>1, <1>3, StepRead
<1> QED BY <1>1, <1>2, <1>3, <1>4

\* What an answer says.
LEMMA AnswerPair ==
    ASSUME ClientInvariant, toClient # <<>>, Head(toClient).type = "answer"
    PROVE  Head(toClient).arg = <<Head(toClient).arg[1], Head(toClient).arg[2]>>
<1> DEFINE m == Head(toClient)
<1>1. m \in ToClientType
  BY HeadTailProperties, Queues
<1> HIDE DEF m
<1>2. ToClientType =
          Stanzas({"stream"}, {"1.0", "2.0"}) \cup Stanzas({"features"}, SUBSET StreamFeatures)
          \cup Stanzas({"proceed", "failure", "compressed", "challenge", "success", "error"}, {NoArg})
          \cup Stanzas({"answer"}, Contexts \X {"result", "error"})
  BY Zenon DEF ToClientType, NoArg
<1>3. m \in Stanzas({"answer"}, Contexts \X {"result", "error"})
  <2> SUFFICES ASSUME m.type = "answer" PROVE m \in Stanzas({"answer"}, Contexts \X {"result", "error"})
    BY DEF m
  <2> QED BY <1>1, <1>2, StanzasFields
<1>4. m.arg \in Contexts \X {"result", "error"}
  BY <1>3, StanzasFields
<1>5. m.arg = <<m.arg[1], m.arg[2]>>
  BY <1>4
<1> QED BY <1>5 DEF m

\* What the client makes of a list of features.
LEMMA NextStepFor ==
    ASSUME NEW fs, NEW step, step = NextStep(fs)
    PROVE  /\ step[1] = "online" => ~client.authed /\ ~settings.password /\ "ANONYMOUS" \notin fs
           /\ step[1] = "iq" => step[2] = "authFields" \/ (step[2] = "bind" /\ client.authed)
<1>1. \A x : Request(x)[1] = "iq" /\ Request(x)[2] = x
  BY DEF Request
<1>2. /\ LoginStep(fs)[1] # "online"
      /\ LoginStep(fs)[1] = "iq" => LoginStep(fs)[2] = "authFields"
  BY <1>1 DEF LoginStep
<1>3. /\ SaslStep(fs)[1] = "online" => ~client.authed /\ ~settings.password /\ "ANONYMOUS" \notin fs
      /\ SaslStep(fs)[1] = "iq" =>
            SaslStep(fs)[2] = "authFields" \/ (SaslStep(fs)[2] = "bind" /\ client.authed)
  BY <1>1, <1>2 DEF SaslStep
<1>4. \/ step = SaslStep(fs) \/ step = Request("authFields")
      \/ step = <<"none", NoArg>> \/ step = <<"starttls", NoArg>> \/ step = <<"compress", NoArg>>
  BY Zenon DEF NextStep, NoArg
<1>5. \A type, arg : step = <<type, arg>> => step[1] = type
  BY PairParts
<1>6. CASE step = <<"none", NoArg>> \/ step = <<"starttls", NoArg>> \/ step = <<"compress", NoArg>>
  <2>1. step[1] \in {"none", "starttls", "compress"}
    BY <1>5, <1>6
  <2> QED BY <2>1
<1>7. CASE step = SaslStep(fs)
  BY <1>3, <1>7
<1>8. CASE step = Request("authFields")
  BY <1>1, <1>8
<1> QED BY <1>4, <1>6, <1>7, <1>8

LEMMA HandleFeaturesLogin ==
    ASSUME ClientInvariant, LoginInvariant, HandleFeatures
    PROVE  LoginInvariant'
<1> DEFINE fs == Named(Received)
           step == NextStep(fs)
           c == [client EXCEPT !.features = fs]
<1>1. /\ toClient # <<>> /\ Head(toClient) \in StepsIn
      /\ Head(toClient).type = "features" /\ Head(toClient) \in ToClientType
      /\ client \in ClientType /\ client.layers \in Layers /\ client.state = "connected"
      /\ ~client.handshake /\ client.online = 0 /\ client.told # "connect"
      /\ ~overtaken => Known /\ ~client.bound
  <2>1. Receives("features") /\ "features" \in Prompts
    BY DEF HandleFeatures, Prompts
  <2> QED BY <2>1, PromptRead
<1>2. Received \in SUBSET StreamFeatures /\ Received = Head(toClient).arg
  BY <1>1, FeaturesRead DEF Received
<1>3. fs \in SUBSET StreamFeatures /\ Received \subseteq fs
  BY <1>2 DEF Named, StreamFeatures
<1>4. ~overtaken => IF server.login = "done" THEN "session" \in offer.features => "session" \in fs
                    ELSE "ANONYMOUS" \in offer.features => "ANONYMOUS" \in fs
  <2>1. ~overtaken => SoundIn(Head(toClient))
    BY <1>1, StepRead
  <2>2. ~overtaken => IF server.login = "done" THEN "session" \in offer.features => "session" \in Received
                      ELSE "ANONYMOUS" \in offer.features => "ANONYMOUS" \in Received
    BY <1>1, <1>2, <2>1 DEF SoundIn
  <2> QED BY <1>3, <2>2
<1>5. \/ step[1] = "none" /\ Drops(TRUE)
      \/ step[1] = "wait" /\ Replies(c, <<>>)
      \/ step[1] = "online" /\ GoesOnline(c)
      \/ step[1] \in {"starttls", "compress", "auth"} /\ Replies(c, <<step>>)
      \/ step[1] = "iq" /\ Replies(c, <<step>>)
  BY DEF HandleFeatures
<1>6. /\ step[1] \in {"starttls", "compress"} => step[2] = NoArg
      /\ step[1] = "auth" => step[2] \in Mechanisms
      /\ step[1] = "iq" => step[2] \in Contexts
  BY NextStepSays, Zenon DEF NoArg
<1>7. /\ step[1] = "online" => ~client.authed /\ ~settings.password /\ "ANONYMOUS" \notin fs
      /\ step[1] = "iq" => step[2] = "authFields" \/ (step[2] = "bind" /\ client.authed)
  BY NextStepFor
<1> HIDE DEF fs, step
<1>8. /\ c \in ClientType /\ c.state = client.state /\ c.layers = client.layers
      /\ c.handshake = client.handshake /\ c.online = client.online /\ c.told = client.told
      /\ c.authed = client.authed /\ c.bound = client.bound /\ c.features = fs
  BY <1>1, <1>3 DEF ClientType
<1> HIDE DEF c
<1>9. ~overtaken => (c.authed => server.login = "done")
  BY <1>1, <1>8 DEF Known
<1>10. CASE step[1] = "none" /\ Drops(TRUE)
  BY <1>10, DropsLogin
<1>11. CASE step[1] = "wait" /\ Replies(c, <<>>)
  BY <1>1, <1>8, <1>9, <1>11, SilentOut, TakesNone
<1>12. CASE step[1] = "online" /\ GoesOnline(c)
  <2>1. ~overtaken => ~c.authed /\ Unheard
    BY <1>1, <1>4, <1>7, <1>8, <1>12 DEF Unheard, Known
  <2> QED BY <1>1, <1>8, <1>12, <2>1, GoesOnlineLogin
<1>13. CASE step[1] \in {"starttls", "compress", "auth", "iq"} /\ Replies(c, <<step>>)
  <2>1. Stanza(step[1], step[2], c.layers) \in ToServerType
    BY <1>1, <1>6, <1>8, <1>13, SaidTyped
  <2>2. client' = c /\ UNCHANGED <<offer, server>>
    BY <1>13 DEF Replies
  <2>3. PICK x : x = step
    OBVIOUS
  <2>4. ~overtaken => SoundOut([type |-> x[1], arg |-> x[2]])'
    <3>1. ~overtaken => Known' /\ ~client'.bound
      BY <1>1, <1>8, <2>2 DEF Known
    <3>2. ~overtaken /\ x[1] = "iq" /\ x[2] = "bind" => client'.authed /\ SessionNamed'
      BY <1>1, <1>4, <1>7, <1>8, <2>2, <2>3 DEF Known, SessionNamed
    <3>3. x[1] = "iq" => x[2] \in {"authFields", "bind"}
      BY <1>7, <2>3
    <3> QED BY <3>1, <3>2, <3>3 DEF SoundOut
  <2> QED BY <1>1, <1>8, <1>9, <1>13, <2>1, <2>3, <2>4, TakesStep
<1> QED BY <1>5, <1>10, <1>11, <1>12, <1>13

LEMMA HandleProceedLogin ==
    ASSUME ClientInvariant, LoginInvariant, HandleProceed
    PROVE  LoginInvariant'
<1> DEFINE c == IF settings.encryption
                THEN [client EXCEPT !.layers.tls = TRUE, !.handshake = TRUE] ELSE client
<1>1. Receives("proceed") /\ "proceed" \in Prompts /\ Replies(c, <<>>)
  BY DEF HandleProceed, Prompts
<1>2. /\ toClient # <<>> /\ Head(toClient) \in StepsIn /\ client \in ClientType
      /\ ~client.handshake /\ client.online = 0 /\ client.told # "connect"
      /\ ~overtaken => Known /\ ~client.bound /\ (client.authed => server.login = "done")
  BY <1>1, PromptRead
<1>3. /\ c.state = client.state /\ c.online = 0 /\ c.told = client.told
      /\ c.authed = client.authed /\ c.bound = client.bound
  BY <1>2 DEF ClientType
<1> HIDE DEF c
<1>4. ~overtaken => Known' /\ ~c.bound /\ (c.authed => server.login = "done")
  BY <1>1, <1>2, <1>3 DEF Known, Replies
<1> QED BY <1>1, <1>2, <1>3, <1>4, SilentOut, TakesNone

LEMMA HandleHandshakeResultLogin ==
    ASSUME ClientInvariant, LoginInvariant, HandleHandshakeResult
    PROVE  LoginInvariant'
<1>1. /\ client.state = "connected" /\ client.handshake
      /\ None(toServer, StepsOut) /\ None(toClient, StepsIn) /\ client.online = 0
      /\ client.told # "connect"
      /\ ~overtaken => /\ Known /\ ~client.bound /\ notifying = 0
                       /\ client.authed => server.login = "done"
  BY DEF HandleHandshakeResult, LoginInvariant, OneStepAtATime, ListenersDone, StepsSound
<1>2. CASE Drops(TRUE)
  BY <1>2, DropsLogin
<1>3. CASE /\ client' = [client EXCEPT !.handshake = FALSE]
           /\ toServer' = toServer \o Send(client, <<Header>>)
           /\ UNCHANGED <<settings, offer, server, tracked, toClient, notifying, connects, overtaken>>
  <2>1. /\ client'.state = "connected" /\ client'.handshake = FALSE /\ client'.online = 0
        /\ client'.told = client.told /\ client'.authed = client.authed
        /\ client'.bound = client.bound
    BY <1>1, <1>3, Queues DEF ClientType
  <2>2. PICK m \in ToServerType : m = Stanza("header", NoArg, client.layers)
    <3>1. client.layers \in Layers
      BY Queues DEF ClientType
    <3> QED BY <3>1, SaidTyped
  <2>3. Send(client, <<Header>>) = <<m>> /\ m.type = "header"
    <3>1. Send(client, <<Header>>) = <<Stanza(Header[1], Header[2], client.layers)>>
      BY <1>1, SaysIt
    <3> QED BY <2>2, <3>1, HeaderParts, Fields
  <2>4. ~overtaken => m \notin UnsoundOut'
    <3>1. ~overtaken => Known' /\ ~client'.bound
      BY <1>1, <1>3, <2>1 DEF Known
    <3> QED BY <2>3, <3>1 DEF UnsoundOut, SoundOut
  <2>5. <<m>> \in Seq(ToServerType)
    OBVIOUS
  <2>6. One(toServer', StepsOut) /\ (~overtaken => None(toServer', UnsoundOut'))
    <3>1. One(<<m>>, StepsOut) /\ (~overtaken => None(<<m>>, UnsoundOut'))
      BY <2>4, FewSteps
    <3>2. None(toServer, UnsoundOut')
      BY <1>1, NoneAtAll, Unsound
    <3> DEFINE out == <<m>>
    <3>3. /\ One(out, StepsOut) /\ out \in Seq(ToServerType) /\ toServer' = toServer \o out
          /\ ~overtaken => None(out, UnsoundOut')
      BY <1>3, <2>3, <2>5, <3>1
    <3> HIDE DEF out
    <3> QED BY <1>1, <3>2, <3>3, Queues, ConcatSteps
  <2>7. None(toClient, UnsoundIn') /\ One(toClient, StepsIn)
    BY <1>1, NoneAtAll, Unsound
  <2>8. OneStepAtATime'
    BY <1>1, <1>3, <2>1, <2>6, <2>7 DEF OneStepAtATime
  <2>9. ListenersDone'
    BY <1>1, <1>3, <2>1 DEF ListenersDone
  <2>10. StepsSound'
    BY <1>1, <1>3, <2>1, <2>6, <2>7 DEF StepsSound
  <2> QED BY <2>8, <2>9, <2>10 DEF LoginInvariant
<1> QED BY <1>2, <1>3 DEF HandleHandshakeResult

\* What the server says while the client logs in to it.
LEMMA HandleSaslLogin ==
    ASSUME ClientInvariant, LoginInvariant, HandleCompressed \/ HandleChallenge \/ HandleSuccess
    PROVE  LoginInvariant'
<1> DEFINE z == [client EXCEPT !.layers.zlib = TRUE]
           a == [client EXCEPT !.authed = TRUE]
           r == <<"response", NoArg>>
<1>1. /\ \/ Receives("compressed") /\ Replies(z, <<Header>>)
         \/ Receives("challenge") /\ Replies(client, <<r>>)
         \/ Receives("success") /\ Replies(a, <<Header>>)
  BY Zenon DEF HandleCompressed, HandleChallenge, HandleSuccess, NoArg
<1>2. PICK type \in Prompts : Receives(type) /\ type \in {"compressed", "challenge", "success"}
                              /\ \/ type = "compressed" /\ Replies(z, <<Header>>)
                                 \/ type = "challenge" /\ Replies(client, <<r>>)
                                 \/ type = "success" /\ Replies(a, <<Header>>)
  BY <1>1 DEF Prompts
<1>3. /\ toClient # <<>> /\ Head(toClient) \in StepsIn
      /\ client \in ClientType /\ client.layers \in Layers
      /\ ~client.handshake /\ client.online = 0 /\ client.told # "connect"
      /\ ~overtaken =>
           /\ IF type = "success" THEN server.login = "done" ELSE Known
           /\ client.authed => server.login = "done"
           /\ ~client.bound
  BY <1>2, PromptRead
<1>4. /\ \A c \in {z, a, client} :
            /\ c.state = client.state /\ c.layers \in Layers /\ ~c.handshake
            /\ c.online = 0 /\ c.told # "connect" /\ c.bound = client.bound
      /\ z.authed = client.authed /\ a.authed = TRUE
  <2>1. /\ z.state = client.state /\ z.handshake = client.handshake /\ z.online = client.online
        /\ z.told = client.told /\ z.bound = client.bound /\ z.authed = client.authed
        /\ z.layers \in Layers
    BY <1>3 DEF ClientType, Layers
  <2>2. /\ a.state = client.state /\ a.handshake = client.handshake /\ a.online = client.online
        /\ a.told = client.told /\ a.bound = client.bound /\ a.authed = TRUE
        /\ a.layers = client.layers
    BY <1>3 DEF ClientType
  <2> HIDE DEF z, a
  <2> QED BY <1>3, <2>1, <2>2
<1>5. r[1] = "response" /\ r[2] = NoArg
  OBVIOUS
<1> HIDE DEF z, a, r
<1>6. PICK c, x : /\ Replies(c, <<x>>) /\ x[1] \in {"header", "response"} /\ x[2] = NoArg
                  /\ c \in {z, a, client}
                  /\ IF type = "success" THEN c.authed = TRUE ELSE c.authed = client.authed
  BY <1>2, <1>4, <1>5, HeaderParts
<1>7. /\ c.state = client.state /\ c.layers \in Layers /\ ~c.handshake
      /\ c.online = 0 /\ c.told # "connect" /\ c.bound = client.bound
  BY <1>4, <1>6
<1>8. Stanza(x[1], x[2], c.layers) \in ToServerType
  BY <1>6, <1>7, SaidTyped
<1>9. ASSUME ~overtaken
      PROVE  (c.authed => server.login = "done") /\ SoundOut([type |-> x[1], arg |-> x[2]])'
  <2>1. (server.login = "done") = c.authed /\ ~c.bound
    BY <1>3, <1>6, <1>7, <1>9 DEF Known
  <2>2. client' = c /\ server' = server
    BY <1>6 DEF Replies
  <2>3. Known' /\ ~client'.bound
    BY <2>1, <2>2 DEF Known
  <2> QED BY <1>6, <2>1, <2>3 DEF SoundOut
<1> QED BY <1>3, <1>6, <1>7, <1>8, <1>9, TakesStep

\* The client asks for something more by name.
LEMMA TakesRequest ==
    ASSUME ClientInvariant, LoginInvariant, toClient # <<>>, Head(toClient) \in StepsIn,
           NEW c \in ClientType, c.state = client.state, NEW context \in {"session", "auth"},
           Replies(c, <<Request(context)>>),
           ~c.handshake, c.online = 0, c.told # "connect",
           ~overtaken => /\ (server.login = "done") = c.authed
                         /\ context = "auth" => ~c.bound
                         /\ context = "session" => c.authed /\ server.bound
    PROVE  LoginInvariant'
<1>1. PICK x : x = Request(context) /\ x[1] = "iq" /\ x[2] = context
  BY DEF Request
<1>2. Stanza(x[1], x[2], c.layers) \in ToServerType
  <2>1. context \in Contexts /\ c.layers \in Layers
    BY DEF Contexts, ClientType
  <2> QED BY <1>1, <2>1, SaidTyped
<1>3. client' = c /\ UNCHANGED <<server, offer>>
  BY DEF Replies
<1>4. ~overtaken => (c.authed => server.login = "done") /\ SoundOut([type |-> x[1], arg |-> x[2]])'
  BY <1>1, <1>3 DEF SoundOut, Known
<1> QED BY <1>1, <1>2, <1>4, TakesStep

LEMMA HandleBoundLogin ==
    ASSUME ClientInvariant, LoginInvariant, HandleBound
    PROVE  LoginInvariant'
<1> DEFINE c == [client EXCEPT !.bound = TRUE]
<1>1. /\ Answers("bind", {"result"}) /\ "bind" \in Stages
      /\ IF "session" \in client.features THEN Replies(c, <<Request("session")>>) ELSE GoesOnline(c)
  BY DEF HandleBound, Stages
<1>2. /\ toClient # <<>> /\ Head(toClient) \in StepsIn
      /\ Head(toClient).type = "answer" /\ Head(toClient).arg = Received
      /\ Received[1] = "bind" /\ Received[2] = "result"
      /\ client \in ClientType
      /\ ~client.handshake /\ client.online = 0 /\ client.told # "connect"
      /\ ~overtaken => SoundIn(Head(toClient)) /\ (client.authed => server.login = "done")
  BY <1>1, AnswerRead
<1>3. /\ c \in ClientType /\ c.state = client.state /\ ~c.handshake /\ c.online = 0
      /\ c.told # "connect" /\ c.bound = TRUE /\ c.authed = client.authed
  BY <1>2 DEF ClientType
<1>4. ~overtaken => /\ server.login = "done" /\ c.authed /\ server.bound /\ SessionNamed
                    /\ (server.login = "done") = c.authed
  <2>1. Received = <<"bind", "result">>
    BY <1>2, AnswerPair
  <2> QED BY <1>2, <1>3, <2>1 DEF SoundIn, LetsIn, Known
<1> HIDE DEF c
<1>5. CASE "session" \in client.features
  BY <1>1, <1>2, <1>3, <1>4, <1>5, TakesRequest
<1>6. CASE "session" \notin client.features
  BY <1>1, <1>2, <1>3, <1>4, <1>6, GoesOnlineLogin DEF SessionNamed
<1> QED BY <1>5, <1>6

LEMMA HandleSessionLogin ==
    ASSUME ClientInvariant, LoginInvariant, HandleSession
    PROVE  LoginInvariant'
<1>1. Answers("session", {"result"}) /\ "session" \in Stages /\ GoesOnline(client)
  BY DEF HandleSession, Stages
<1>2. /\ toClient # <<>> /\ Head(toClient) \in StepsIn
      /\ Head(toClient).type = "answer" /\ Head(toClient).arg = Received
      /\ Received[1] = "session" /\ Received[2] = "result"
      /\ client \in ClientType
      /\ ~client.handshake /\ client.online = 0 /\ client.told # "connect"
      /\ ~overtaken => SoundIn(Head(toClient)) /\ (client.authed => server.login = "done")
  BY <1>1, AnswerRead
<1>3. ~overtaken => server.login = "done" /\ client.authed /\ server.bound /\ server.session
  <2>1. Received = <<"session", "result">>
    BY <1>2, AnswerPair
  <2> QED BY <1>2, <2>1 DEF SoundIn, LetsIn, Known
<1> QED BY <1>1, <1>2, <1>3, GoesOnlineLogin

LEMMA HandleAuthResultLogin ==
    ASSUME ClientInvariant, LoginInvariant, HandleAuthResult
    PROVE  LoginInvariant'
<1> DEFINE c == [client EXCEPT !.authed = TRUE]
<1>1. Answers("auth", {"result"}) /\ "auth" \in Stages /\ GoesOnline(c)
  BY DEF HandleAuthResult, Stages
<1>2. /\ toClient # <<>> /\ Head(toClient) \in StepsIn
      /\ Head(toClient).type = "answer" /\ Head(toClient).arg = Received
      /\ Received[1] = "auth" /\ Received[2] = "result"
      /\ client \in ClientType
      /\ ~client.handshake /\ client.online = 0 /\ client.told # "connect"
      /\ ~overtaken => SoundIn(Head(toClient)) /\ (client.authed => server.login = "done")
  BY <1>1, AnswerRead
<1>3. /\ c \in ClientType /\ c.state = client.state /\ ~c.handshake /\ c.online = 0
      /\ c.told # "connect" /\ c.bound = client.bound /\ c.authed = TRUE
  BY <1>2 DEF ClientType
<1>4. ~overtaken => server.login = "done" /\ server.bound /\ ~client.bound
  <2>1. Received = <<"auth", "result">>
    BY <1>2, AnswerPair
  <2> QED BY <1>2, <2>1 DEF SoundIn, LetsIn
<1> HIDE DEF c
<1> QED BY <1>1, <1>2, <1>3, <1>4, GoesOnlineLogin

LEMMA HandleErrorLogin ==
    ASSUME ClientInvariant, LoginInvariant, HandleBindError \/ HandleSessionError
    PROVE  LoginInvariant'
<1> DEFINE b == [client EXCEPT !.told = "bindError"]
           s == [client EXCEPT !.told = "sessionError"]
<1>1. PICK context \in Stages : Answers(context, {"error"}) /\ (Replies(b, <<>>) \/ Replies(s, <<>>))
  BY DEF HandleBindError, HandleSessionError, Stages
<1>2. /\ toClient # <<>> /\ Head(toClient) \in StepsIn /\ client \in ClientType
      /\ ~client.handshake /\ client.online = 0
      /\ ~overtaken => (client.authed => server.login = "done")
  BY <1>1, AnswerRead
<1>3. \A c \in {b, s} : /\ c.state = client.state /\ ~c.handshake /\ c.online = 0
                        /\ c.told # "connect" /\ c.authed = client.authed
  BY <1>2 DEF ClientType
<1> HIDE DEF b, s
<1>4. PICK c \in {b, s} : Replies(c, <<>>)
  BY <1>1
<1> QED BY <1>2, <1>3, <1>4, SilentOut, TakesNone

LEMMA HandleDelimiterLogin ==
    ASSUME ClientInvariant, LoginInvariant, HandleDelimiter
    PROVE  LoginInvariant'
<1>1. /\ Answers("delimiter", {"result", "error"}) /\ Replies(client, <<>>)
      /\ tracked' \subseteq tracked
  BY DEF HandleDelimiter, Answered, Track
<1>2. /\ toClient # <<>> /\ Head(toClient).type = "answer" /\ Head(toClient).arg[1] = "delimiter"
  BY <1>1 DEF Answers, Receives, Received
<1>3. Head(toClient) \notin StepsIn
  BY <1>2 DEF StepsIn, Stages, Prompts
<1> QED BY <1>1, <1>2, <1>3, PassedOver

LEMMA HandleStreamLogin ==
    ASSUME ClientInvariant, LoginInvariant, HandleStream
    PROVE  LoginInvariant'
<1>1. toClient # <<>> /\ Head(toClient).type = "stream"
  BY DEF HandleStream, Receives
<1>2. Head(toClient) \notin StepsIn
  BY <1>1 DEF StepsIn, Prompts
<1> QED BY <1>1, <1>2, PassedOver, DropsLogin DEF HandleStream

LEMMA HandleRosterLogin ==
    ASSUME ClientInvariant, LoginInvariant, HandleRoster
    PROVE  LoginInvariant'
<1> DEFINE o == Online(client)
<1>1. /\ Answers("roster", {"result", "error"}) /\ "roster" \in Stages
      /\ Replies(o, <<<<"presence", NoArg>>>>)
      /\ [context |-> "roster", of |-> connects] \notin tracked'
  BY Zenon DEF HandleRoster, Stages, NoArg, Answered
<1>2. /\ toClient # <<>> /\ Head(toClient) \in StepsIn
      /\ Head(toClient).type = "answer" /\ Head(toClient).arg = Received
      /\ Received[1] = "roster"
      /\ client \in ClientType /\ client.state = "connected"
      /\ ~client.handshake /\ client.online = 0 /\ client.told # "connect"
      /\ ~overtaken => SoundIn(Head(toClient)) /\ (client.authed => server.login = "done")
  BY <1>1, AnswerRead
<1>3. o.state = client.state /\ o.handshake = client.handshake /\ o.layers \in Layers
      /\ o.authed = client.authed /\ o.bound = client.bound /\ o.online = 1
  <2>1. client.online + 1 = 1
    BY <1>2
  <2>2. o = [client EXCEPT !.told = "connect", !.online = 1]
    BY <2>1 DEF Online
  <2> QED BY <1>2, <2>2 DEF ClientType
<1> HIDE DEF o
<1>4. client' = o /\ UNCHANGED <<offer, server, connects, settings>>
  BY <1>1 DEF Replies
<1>5. ~overtaken => Ready'
  <2>1. ~overtaken => server.login = "done" /\ client.authed /\ server.bound /\ SessionMade
    <3>1. ~overtaken => client.authed /\ server.bound /\ SessionMade
      BY <1>2 DEF SoundIn
    <3> QED BY <1>2, <3>1
  <2> QED BY <1>1, <1>3, <1>4, <2>1 DEF Ready, LetIn, SessionMade
<1>6. PICK out \in Seq(ToServerType) :
            Send(o, <<<<"presence", NoArg>>>>) = out /\ None(out, StepsOut)
  BY <1>2, <1>3, Presence
<1> DEFINE types == <<<<"presence", NoArg>>>>
<1>7. Replies(o, types) /\ Send(o, types) = out
  BY <1>1, <1>6
<1> HIDE DEF types
<1> QED BY <1>2, <1>3, <1>5, <1>6, <1>7, TakesNone

LEMMA HandleAuthFieldsLogin ==
    ASSUME ClientInvariant, LoginInvariant, HandleAuthFields
    PROVE  LoginInvariant'
<1>1. Answers("authFields", {"result"}) /\ "authFields" \in Stages /\ Replies(client, <<Request("auth")>>)
  BY DEF HandleAuthFields, Stages
<1>2. /\ toClient # <<>> /\ Head(toClient) \in StepsIn
      /\ Head(toClient).type = "answer" /\ Head(toClient).arg = Received
      /\ Received[1] = "authFields" /\ Received[2] = "result"
      /\ client \in ClientType
      /\ ~client.handshake /\ client.online = 0 /\ client.told # "connect"
      /\ ~overtaken => SoundIn(Head(toClient))
  BY <1>1, AnswerRead
<1>3. ~overtaken => (server.login = "done") = client.authed /\ ~client.bound
  <2>1. Received = <<"authFields", "result">>
    BY <1>2, AnswerPair
  <2> QED BY <1>2, <2>1 DEF SoundIn, LetsIn, Known
<1> QED BY <1>1, <1>2, <1>3, TakesRequest

LEMMA HandleLogin ==
    ASSUME ClientInvariant, LoginInvariant, Handle
    PROVE  LoginInvariant'
<1>1. CASE HandleStreamError \/ HandleFailure \/ HandleAuthError
  BY <1>1, DropsLogin DEF HandleStreamError, HandleFailure, HandleAuthError
<1> QED BY <1>1, HandleStreamLogin, HandleFeaturesLogin, HandleProceedLogin,
        HandleHandshakeResultLogin, HandleSaslLogin, HandleBoundLogin, HandleErrorLogin,
        HandleSessionLogin, HandleDelimiterLogin, HandleRosterLogin, HandleAuthFieldsLogin,
        HandleAuthResultLogin DEF Handle

-----------------------------------------------------------------------------
(* The server.                                                             *)

\* One stanza more from the server.
LEMMA ServesStep ==
    ASSUME ClientInvariant, LoginInvariant, toServer # <<>>, Head(toServer) \in StepsOut,
           NEW s, NEW x, Serves(s, <<x>>), Stanza(x[1], x[2], server.layers) \in ToClientType,
           ~overtaken => /\ client.authed => s.login = "done"
                         /\ SoundIn([type |-> x[1], arg |-> x[2]])'
    PROVE  LoginInvariant'
<1>1. PICK m \in ToClientType : m = Stanza(x[1], x[2], server.layers)
  OBVIOUS
<1>2. m.type = x[1] /\ m.arg = x[2] /\ toClient' = toClient \o <<m>>
  BY <1>1, Fields, ServesSaying
<1>3. ASSUME ~overtaken PROVE None(<<m>>, UnsoundIn')
  <2>1. SoundIn(m)'
    BY <1>2, <1>3 DEF SoundIn, LetsIn
  <2>2. m \notin UnsoundIn'
    BY <2>1 DEF UnsoundIn
  <2> QED BY <2>2, FewSteps
<1>4. <<m>> \in Seq(ToClientType)
  OBVIOUS
<1>5. One(<<m>>, StepsIn)
  BY FewSteps
<1> DEFINE types == <<x>>
           out == <<m>>
<1>6. /\ Serves(s, types) /\ out \in Seq(ToClientType) /\ toClient' = toClient \o out
      /\ One(out, StepsIn)
      /\ ~overtaken => None(out, UnsoundIn')
  BY <1>2, <1>3, <1>4, <1>5
<1> HIDE DEF types, out
<1> QED BY <1>6, StepServed

\* One that ends the login, or says nothing of it.
LEMMA ServesNoStep ==
    ASSUME ClientInvariant, LoginInvariant, toServer # <<>>, Head(toServer) \in StepsOut,
           NEW x, Serves(server, <<x>>), Stanza(x[1], x[2], server.layers) \in ToClientType,
           x[1] \in {"failure", "stream"}
    PROVE  LoginInvariant'
<1>1. PICK m \in ToClientType : m = Stanza(x[1], x[2], server.layers)
  OBVIOUS
<1>2. m.type = x[1] /\ toClient' = toClient \o <<m>>
  BY <1>1, Fields, ServesSaying
<1>3. m \notin StepsIn
  BY <1>2 DEF StepsIn, Prompts
<1>4. None(<<m>>, UnsoundIn') /\ One(<<m>>, StepsIn)
  BY <1>3, FewSteps, NoneAtAll, Unsound
<1>5. <<m>> \in Seq(ToClientType)
  OBVIOUS
<1>6. ~overtaken => (client.authed => server.login = "done")
  BY StepAsked
<1> DEFINE types == <<x>>
           out == <<m>>
<1>7. /\ Serves(server, types) /\ out \in Seq(ToClientType) /\ toClient' = toClient \o out
      /\ One(out, StepsIn)
      /\ None(out, UnsoundIn')
  BY <1>2, <1>4, <1>5
<1> HIDE DEF types, out
<1> QED BY <1>6, <1>7, StepServed

\* What the server may assume of what it reads.
LEMMA MoveAsked ==
    ASSUME ClientInvariant, LoginInvariant, NEW type \in Moves, Reads(type)
    PROVE  /\ toServer # <<>> /\ Head(toServer) \in StepsOut
           /\ server \in ServerType /\ server.layers \in Layers
           /\ ~overtaken => Known /\ ~client.bound /\ (client.authed => server.login = "done")
<1>1. /\ toServer # <<>> /\ server \in ServerType /\ server.layers \in Layers
      /\ Head(toServer).type = type /\ Head(toServer) \in ToServerType
  BY Serving DEF Sayable
<1>2. Head(toServer) \in StepsOut
  BY <1>1 DEF StepsOut
<1>3. ~overtaken => SoundOut(Head(toServer)) /\ (client.authed => server.login = "done")
  BY <1>1, <1>2, StepAsked
<1> QED BY <1>1, <1>2, <1>3 DEF SoundOut, Moves

LEMMA ServeHeaderLogin ==
    ASSUME ClientInvariant, LoginInvariant, ServeHeader
    PROVE  LoginInvariant'
<1>1. /\ toServer # <<>> /\ Head(toServer) \in StepsOut
      /\ server \in ServerType /\ server.layers \in Layers
      /\ ~overtaken => Known /\ ~client.bound /\ (client.authed => server.login = "done")
  BY MoveAsked DEF ServeHeader, Moves
<1>2. ServerFeatures(server) \in SUBSET StreamFeatures
  BY DEF ServerFeatures, StreamFeatures
<1>3. CASE Serves(server, <<<<"stream", "1.0">>, <<"features", ServerFeatures(server)>>>>)
  <2>1. PICK fs \in SUBSET StreamFeatures : fs = ServerFeatures(server)
    BY <1>2
  <2>2. IF server.login = "done" THEN "session" \in offer.features => "session" \in fs
        ELSE "ANONYMOUS" \in offer.features => "ANONYMOUS" \in fs
    BY <2>1 DEF ServerFeatures, Mechanisms
  <2>3. PICK h, m \in ToClientType : /\ h = Stanza("stream", "1.0", server.layers)
                                     /\ m = Stanza("features", fs, server.layers)
    BY <1>1, <2>1, AnsweredTyped
  <2>4. h.type = "stream" /\ m.type = "features" /\ m.arg = fs
    BY <2>3, Fields
  <2> DEFINE types == <<<<"stream", "1.0">>, <<"features", fs>>>>
             out == <<h, m>>
  <2>5. Serves(server, types)
    BY <1>3, <2>1
  <2>6. toClient' = toClient \o out /\ server' = server /\ client' = client /\ offer' = offer
    <3>1. [i \in 1..Len(types) |-> Stanza(types[i][1], types[i][2], server.layers)] = out
      BY <2>3
    <3> QED BY <2>5, <3>1 DEF Serves
  <2>7. out \in Seq(ToClientType)
    OBVIOUS
  <2>8. h \notin StepsIn
    BY <2>4 DEF StepsIn, Prompts
  <2>9. ~overtaken => m \notin UnsoundIn' /\ h \notin UnsoundIn'
    <3>1. ~overtaken => SoundIn(m)'
      BY <1>1, <2>2, <2>4, <2>6 DEF SoundIn, LetsIn, Known
    <3> QED BY <2>8, <3>1 DEF UnsoundIn
  <2>10. One(out, StepsIn) /\ (~overtaken => None(out, UnsoundIn'))
    BY <2>8, <2>9, FewSteps
  <2> HIDE DEF types, out
  <2> QED BY <1>1, <2>5, <2>6, <2>7, <2>10, StepServed
<1>4. CASE Serves(server, <<<<"stream", "2.0">>>>)
  <2>1. PICK x : x = <<"stream", "2.0">>
    OBVIOUS
  <2>4. x[1] = "stream" /\ x[2] = "2.0"
    BY <2>1
  <2>2. Stanza(x[1], x[2], server.layers) \in ToClientType
    BY <1>1, <2>4, AnsweredTyped
  <2>3. Serves(server, <<x>>)
    BY <1>4, <2>1
  <2> QED BY <1>1, <2>2, <2>3, <2>4, ServesNoStep
<1> QED BY <1>3, <1>4 DEF ServeHeader

\* The server answers a move of the client: it goes on, or refuses.
LEMMA ServesMove ==
    ASSUME ClientInvariant, LoginInvariant, NEW asked \in Moves, Reads(asked),
           NEW s, NEW type \in {"proceed", "compressed", "challenge", "success"},
           Serves(s, <<<<type, NoArg>>>>),
           ~overtaken => IF type = "success" THEN s.login = "done" ELSE (s.login = "done") = client.authed
    PROVE  LoginInvariant'
<1>1. /\ toServer # <<>> /\ Head(toServer) \in StepsOut
      /\ server \in ServerType /\ server.layers \in Layers
      /\ ~overtaken => Known /\ ~client.bound /\ (client.authed => server.login = "done")
  BY MoveAsked
<1>2. PICK x : x = <<type, NoArg>> /\ x[1] = type /\ x[2] = NoArg
  BY PairParts
<1>3. Serves(s, <<x>>) /\ Stanza(x[1], x[2], server.layers) \in ToClientType
  BY <1>1, <1>2, AnsweredTyped
<1>4. server' = s /\ client' = client
  BY DEF Serves
<1>5. ~overtaken => (client.authed => s.login = "done") /\ SoundIn([type |-> x[1], arg |-> x[2]])'
  BY <1>1, <1>2, <1>4 DEF SoundIn, LetsIn, Known
<1> QED BY <1>1, <1>3, <1>5, ServesStep

LEMMA RefusesStep ==
    ASSUME ClientInvariant, LoginInvariant, NEW asked \in Moves, Reads(asked),
           Serves(server, <<<<"failure", NoArg>>>>)
    PROVE  LoginInvariant'
<1>1. /\ toServer # <<>> /\ Head(toServer) \in StepsOut /\ server.layers \in Layers
  BY MoveAsked
<1>2. PICK x : x = <<"failure", NoArg>> /\ x[1] = "failure" /\ x[2] = NoArg
  BY PairParts
<1>3. Serves(server, <<x>>) /\ Stanza(x[1], x[2], server.layers) \in ToClientType
  BY <1>1, <1>2, AnsweredTyped
<1> QED BY <1>1, <1>2, <1>3, ServesNoStep

LEMMA ServeLayersLogin ==
    ASSUME ClientInvariant, LoginInvariant, ServeStartTls \/ ServeCompress
    PROVE  LoginInvariant'
<1> DEFINE t == [server EXCEPT !.layers.tls = TRUE]
           z == [server EXCEPT !.layers.zlib = TRUE]
<1>1. \/ Reads("starttls") /\ Serves(t, <<<<"proceed", NoArg>>>>)
      \/ Reads("compress") /\ Serves(z, <<<<"compressed", NoArg>>>>)
      \/ (Reads("starttls") \/ Reads("compress")) /\ Serves(server, <<<<"failure", NoArg>>>>)
  BY Zenon DEF ServeStartTls, ServeCompress, NoArg
<1>2. "starttls" \in Moves /\ "compress" \in Moves
  BY DEF Moves
<1>3. t.login = server.login /\ z.login = server.login
  BY Queues DEF ServerType
<1>4. Reads("starttls") \/ Reads("compress") => (~overtaken => (server.login = "done") = client.authed)
  BY <1>2, MoveAsked DEF Known
<1> HIDE DEF t, z
<1> QED BY <1>1, <1>2, <1>3, <1>4, ServesMove, RefusesStep

LEMMA ServeSaslLogin ==
    ASSUME ClientInvariant, LoginInvariant, ServeAuth \/ ServeResponse
    PROVE  LoginInvariant'
<1> DEFINE c == [server EXCEPT !.login = "challenged"]
           a == [server EXCEPT !.login = "answered"]
           d == [server EXCEPT !.login = "done"]
<1>1. PICK asked \in {"auth", "response"} :
        /\ Reads(asked)
        /\ \/ server.login = "none" /\ Serves(c, <<<<"challenge", NoArg>>>>)
           \/ server.login = "challenged" /\ Serves(a, <<<<"challenge", NoArg>>>>)
           \/ Serves(d, <<<<"success", NoArg>>>>)
           \/ Serves(server, <<<<"failure", NoArg>>>>)
  BY Zenon DEF ServeAuth, ServeResponse, NoArg
<1>2. asked \in Moves
  BY DEF Moves
<1>3. c.login = "challenged" /\ a.login = "answered" /\ d.login = "done"
  BY Queues DEF ServerType
<1>4. ~overtaken => (server.login = "done") = client.authed
  BY <1>1, <1>2, MoveAsked DEF Known
<1> HIDE DEF c, a, d
<1>5. CASE server.login = "none" /\ Serves(c, <<<<"challenge", NoArg>>>>)
  BY <1>1, <1>2, <1>3, <1>4, <1>5, ServesMove
<1>6. CASE server.login = "challenged" /\ Serves(a, <<<<"challenge", NoArg>>>>)
  BY <1>1, <1>2, <1>3, <1>4, <1>6, ServesMove
<1>7. CASE Serves(d, <<<<"success", NoArg>>>>)
  BY <1>1, <1>2, <1>3, <1>7, ServesMove
<1>8. CASE Serves(server, <<<<"failure", NoArg>>>>)
  BY <1>1, <1>2, <1>8, RefusesStep
<1> QED BY <1>1, <1>5, <1>6, <1>7, <1>8

\* A request for the login is granted when the server can, or is refused.
LEMMA ServeStageLogin ==
    ASSUME ClientInvariant, LoginInvariant, Reads("iq"), Asked \in Stages,
           NEW outcome \in {"result", "error"}, NEW s,
           Serves(s, <<<<"answer", <<Asked, outcome>>>>>>),
           IF outcome = "result" THEN Grantable(Asked) /\ s = Granted(Asked) ELSE s = server
    PROVE  LoginInvariant'
<1>1. PICK context \in Stages : context = Asked
  OBVIOUS
<1>2. /\ toServer # <<>> /\ server \in ServerType /\ server.layers \in Layers
      /\ Head(toServer).type = "iq" /\ Head(toServer) \in ToServerType /\ Head(toServer).arg = context
  BY <1>1, Serving DEF Sayable, Asked
<1>3. Head(toServer) \in StepsOut
  BY <1>2 DEF StepsOut
<1>4. ~overtaken => SoundOut(Head(toServer)) /\ (client.authed => server.login = "done")
  BY <1>2, <1>3, StepAsked
<1>5. ~overtaken =>
        /\ (server.login = "done") = client.authed
        /\ context \in {"session", "roster"} \/ ~client.bound
        /\ context \in {"bind", "session", "roster"} => client.authed
        /\ context = "bind" => SessionNamed
        /\ context \in {"session", "roster"} => server.bound
        /\ context = "roster" => SessionMade
  BY <1>2, <1>4 DEF SoundOut, Known
<1>6. /\ s.login = IF outcome = "result" /\ context = "auth" THEN "done" ELSE server.login
      /\ server.bound => s.bound
      /\ server.session => s.session
      /\ outcome = "result" => /\ context \in {"auth", "bind"} => s.bound
                               /\ context = "session" => s.session
  <2>1. CASE outcome = "result"
    <3>1. s = Granted(context)
      BY <1>1, <2>1
    <3> DEFINE b == server.bound \/ context \in {"auth", "bind"}
               c == server.session \/ context = "session"
               r == server.roster \/ context = "roster"
               l == IF context = "auth" THEN "done" ELSE server.login
    <3>2. s = [server EXCEPT !.login = l, !.bound = b, !.session = c, !.roster = r]
      BY <3>1 DEF Granted
    <3>3. s.login = l /\ s.bound = b /\ s.session = c
      <4> HIDE DEF l, b, c, r
      <4> QED BY <1>2, <3>2 DEF ServerType
    <3> QED BY <2>1, <3>3
  <2>2. CASE outcome # "result"
    BY <2>2
  <2> QED BY <2>1, <2>2
<1> DEFINE arg == <<context, outcome>>
           x == <<"answer", arg>>
<1>7. /\ arg[1] = context /\ arg[2] = outcome /\ arg \in Contexts \X {"result", "error"}
      /\ \A a, b : arg = <<a, b>> => context = a /\ outcome = b
  BY DEF Contexts, Stages
<1>8. x[1] = "answer" /\ x[2] = arg /\ Serves(s, <<x>>)
  BY <1>1
<1>9. arg \in {"auth", "bind"} \X {"result"} => outcome = "result" /\ context \in {"auth", "bind"}
  OBVIOUS
<1> HIDE DEF arg, x
<1>10. Stanza(x[1], x[2], server.layers) \in ToClientType
  BY <1>2, <1>7, <1>8, AnsweredTyped
<1>11. PICK y : y = x
  OBVIOUS
<1>12. PICK z : z = arg
  OBVIOUS
<1>13. server' = s /\ UNCHANGED <<client, offer>>
  BY DEF Serves
<1>14. ~overtaken => (client.authed => s.login = "done") /\ SoundIn([type |-> y[1], arg |-> y[2]])'
  <2>1. /\ z[1] = context /\ y[1] = "answer" /\ y[2] = z
        /\ z = <<"auth", "result">> => context = "auth" /\ outcome = "result"
        /\ z = <<"session", "result">> => context = "session" /\ outcome = "result"
        /\ z \in {"auth", "bind"} \X {"result"} => outcome = "result" /\ context \in {"auth", "bind"}
        /\ context = "auth" /\ outcome = "result" => z = <<"auth", "result">>
    BY <1>7, <1>8, <1>9, <1>11, <1>12 DEF arg
  <2>2. client.bound \in BOOLEAN /\ s.session = s.session
    BY Queues
  <2>3. ~overtaken => /\ IF z = <<"auth", "result">> THEN s.login = "done" ELSE (s.login = "done") = client.authed
                      /\ client.authed => s.login = "done"
    BY <1>5, <1>6, <2>1
  <2>4. ~overtaken => /\ z[1] \in {"session", "roster"} \/ ~client.bound
                      /\ z[1] \in {"bind", "session", "roster"} => client.authed
                      /\ z[1] = "bind" => SessionNamed
                      /\ z[1] \in {"session", "roster"} \/ z \in {"auth", "bind"} \X {"result"} => s.bound
                      /\ z = <<"session", "result">> => s.session
                      /\ z[1] = "roster" => SessionMade
    BY <1>5, <1>6, <2>1
  <2>5. SessionNamed' = SessionNamed /\ (~overtaken => (z[1] = "roster" => SessionMade'))
    BY <1>6, <1>13, <2>4 DEF SessionNamed, SessionMade
  <2> QED BY <1>13, <2>1, <2>3, <2>4, <2>5 DEF SoundIn, LetsIn, Known
<1> QED BY <1>2, <1>3, <1>8, <1>10, <1>11, <1>14, ServesStep

LEMMA ServeRequestLogin ==
    ASSUME ClientInvariant, LoginInvariant, ServeRequest
    PROVE  LoginInvariant'
<1>1. /\ Reads("iq") /\ toServer # <<>> /\ server \in ServerType /\ server.layers \in Layers
      /\ Head(toServer).type = "iq" /\ Head(toServer) \in ToServerType /\ Head(toServer).arg = Asked
  BY Serving DEF ServeRequest, Sayable, Asked
<1>2. Asked \in Contexts
  BY <1>1, RequestRead
<1>3. PICK outcome \in {"result", "error"}, s \in {server, Granted(Asked)} :
        /\ Serves(s, <<<<"answer", <<Asked, outcome>>>>>>)
        /\ IF outcome = "result" THEN Grantable(Asked) /\ s = Granted(Asked) ELSE s = server
  BY DEF ServeRequest
<1>4. CASE Asked \in Stages
  BY <1>1, <1>3, <1>4, ServeStageLogin
<1>5. CASE Asked \notin Stages
  <2>1. Asked = "delimiter"
    BY <1>2, <1>5 DEF Contexts, Stages
  <2>2. s.login = server.login /\ s.bound = server.bound /\ s.session = server.session
    <3>1. CASE s = server
      BY <3>1
    <3>2. CASE s = Granted(Asked)
      <4>1. s = Granted("delimiter")
        BY <2>1, <3>2
      <4> DEFINE b == server.bound \/ "delimiter" \in {"auth", "bind"}
                 c == server.session \/ "delimiter" = "session"
                 r == server.roster \/ "delimiter" = "roster"
      <4>2. s = [server EXCEPT !.login = server.login, !.bound = b, !.session = c, !.roster = r]
        BY <4>1 DEF Granted
      <4>3. b = server.bound /\ c = server.session
        BY <1>1 DEF ServerType
      <4> HIDE DEF b, c, r
      <4> QED BY <1>1, <4>2, <4>3 DEF ServerType
    <3> QED BY <3>1, <3>2
  <2>3. PICK m \in ToClientType : m = Stanza("answer", <<Asked, outcome>>, server.layers)
    <3> DEFINE arg == <<Asked, outcome>>
    <3>1. arg \in Contexts \X {"result", "error"}
      BY <1>2
    <3> HIDE DEF arg
    <3>2. Stanza("answer", arg, server.layers) \in ToClientType
      BY <1>1, <3>1, AnsweredTyped
    <3> QED BY <3>2 DEF arg
  <2>4. m.type = "answer" /\ m.arg = <<Asked, outcome>>
    BY <2>3, Fields
  <2>5. m \notin StepsIn
    <3>1. m.arg[1] = "delimiter"
      BY <2>1, <2>4
    <3> QED BY <2>4, <3>1 DEF StepsIn, Prompts, Stages
  <2>6. /\ toClient' = toClient \o <<m>> /\ server' = s /\ toServer' = Tail(toServer)
        /\ UNCHANGED <<settings, offer, client, tracked, notifying, connects, overtaken>>
    <3> DEFINE arg == <<Asked, outcome>>
               x == <<"answer", arg>>
    <3>1. x[1] = "answer" /\ x[2] = arg /\ Serves(s, <<x>>) /\ m = Stanza("answer", arg, server.layers)
      BY <1>3, <2>3
    <3> HIDE DEF arg, x
    <3>2. toClient' = toClient \o <<m>>
      BY <3>1, ServesSaying
    <3> QED BY <3>1, <3>2 DEF Serves
  <2>7. None(<<m>>, StepsIn)
    BY <2>5, FewSteps
  <2>8. Head(toServer) \notin StepsOut
    BY <1>1, <1>5 DEF StepsOut, Moves
  <2>9. <<m>> \in Seq(ToClientType) /\ client.state = "connected"
    BY <1>1, Queues
  <2> DEFINE out == <<m>>
  <2>10. toClient' = toClient \o out /\ None(out, StepsIn) /\ out \in Seq(ToClientType)
    BY <2>6, <2>7, <2>9
  <2> HIDE DEF out
  <2> QED BY <1>1, <2>2, <2>6, <2>8, <2>9, <2>10, ServedOtherwise
<1> QED BY <1>4, <1>5

LEMMA ServePresenceLogin ==
    ASSUME ClientInvariant, LoginInvariant, ServePresence
    PROVE  LoginInvariant'
<1>1. /\ toServer # <<>> /\ Head(toServer).type = "presence" /\ Serves(server, <<>>)
  BY DEF ServePresence, Reads
<1>2. [i \in 1..Len(<<>>) |-> Stanza(<<>>[i][1], <<>>[i][2], server.layers)] = <<>>
  OBVIOUS
<1>3. /\ toClient' = toClient \o <<>> /\ server' = server /\ toServer' = Tail(toServer)
      /\ UNCHANGED <<settings, offer, client, tracked, notifying, connects, overtaken>>
  BY <1>1, <1>2 DEF Serves
<1>4. Head(toServer) \notin StepsOut
  BY <1>1 DEF StepsOut, Moves
<1>5. <<>> \in Seq(ToClientType) /\ None(<<>>, StepsIn) /\ client.state = "connected"
  BY <1>1, Queues, FewSteps, EmptySeq
<1> QED BY <1>1, <1>3, <1>4, <1>5, ServedOtherwise

LEMMA ServerEndsLogin ==
    ASSUME ClientInvariant, LoginInvariant, ServerEnds
    PROVE  LoginInvariant'
<1>1. PICK e \in ToClientType : e = Stanza("error", NoArg, server.layers)
  <2>1. server.layers \in Layers
    BY Queues DEF ServerType
  <2> QED BY <2>1, AnsweredTyped
<1>2. e \notin StepsIn
  <2>1. e.type = "error"
    BY <1>1, Fields
  <2> QED BY <2>1 DEF StepsIn, Prompts
<1>3. /\ client.state = "connected" /\ toClient' = Append(toClient, e)
      /\ UNCHANGED <<settings, offer, client, server, tracked, toServer, notifying, connects, overtaken>>
  BY <1>1, Zenon DEF ServerEnds, NoArg
<1>4. Append(toClient, e) = toClient \o <<e>>
  BY Queues, AppendIsConcat
<1>5. <<e>> \in Seq(ToClientType)
  OBVIOUS
<1>6. None(<<e>>, StepsIn)
  BY <1>2, FewSteps
<1> DEFINE out == <<e>>
<1>7. toClient' = toClient \o out /\ None(out, StepsIn) /\ out \in Seq(ToClientType)
  BY <1>3, <1>4, <1>5, <1>6
<1> HIDE DEF out
<1> QED BY <1>3, <1>7, ServedOtherwise

LEMMA ServeLogin ==
    ASSUME ClientInvariant, LoginInvariant, Serve
    PROVE  LoginInvariant'
BY ServeHeaderLogin, ServeLayersLogin, ServeSaslLogin, ServeRequestLogin, ServePresenceLogin DEF Serve

-----------------------------------------------------------------------------
(* The connection.                                                         *)

LEMMA ConnectLogin ==
    ASSUME ClientInvariant, LoginInvariant, Connect
    PROVE  LoginInvariant'
<1>1. /\ client.state = "disconnected" /\ toServer = <<>> /\ toClient = <<>> /\ client \in ClientType
      /\ notifying \in Nat
  BY Queues DEF Connect, ClientInvariant, ClientTypeOK
<1>2. /\ server = FreshServer /\ client.handshake = FALSE
      /\ notifying = 0 => ~client.authed /\ ~client.bound
  BY <1>1 DEF LoginInvariant, ListenersDone
<1>3. /\ UNCHANGED <<settings, offer, server, tracked, toClient>>
      /\ overtaken' = (notifying > 0)
  BY Zenon DEF Connect
<1>4. ~overtaken' => notifying = 0
  <2>1. notifying > 0 \/ notifying = 0
    BY <1>1
  <2> QED BY <1>3, <2>1, Zenon
<1>5. CASE /\ client' = [client EXCEPT !.state = "connected", !.told = "nothing", !.online = 0]
           /\ toServer' = Send(client', <<Header>>)
           /\ UNCHANGED notifying
  <2>1. /\ client'.state = "connected" /\ client'.told = "nothing" /\ client'.online = 0
        /\ client'.authed = client.authed /\ client'.bound = client.bound
        /\ client'.handshake = FALSE /\ client'.layers \in Layers
    BY <1>1, <1>2, <1>5 DEF ClientType
  <2>2. PICK m \in ToServerType : m = Stanza("header", NoArg, client'.layers)
    BY <2>1, SaidTyped
  <2>3. toServer' = <<m>>
    <3>1. PICK c : c = client'
      OBVIOUS
    <3>2. Send(c, <<Header>>) = <<Stanza(Header[1], Header[2], c.layers)>>
      BY <2>1, <3>1, SaysIt
    <3> QED BY <1>5, <2>2, <3>1, <3>2, HeaderParts
  <2>4. m.type = "header"
    BY <2>2, Fields
  <2>5. toClient' = <<>>
    BY <1>1, <1>3
  <2>6. OneStepAtATime'
    <3>1. One(toServer', StepsOut) /\ One(toClient', StepsIn) /\ None(toClient', StepsIn)
      BY <2>3, <2>5, FewSteps
    <3> QED BY <2>1, <3>1 DEF OneStepAtATime
  <2>7. ListenersDone'
    BY <1>4, <1>5, <2>1 DEF ListenersDone
  <2>8. ASSUME ~overtaken' PROVE m \notin UnsoundOut' /\ client'.authed = FALSE
    <3>1. client.authed = FALSE /\ client.bound = FALSE
      BY <1>1, <1>2, <1>4, <2>8 DEF ClientType
    <3>2. server'.login = "none"
      BY <1>2, <1>3 DEF FreshServer
    <3>3. Known' /\ ~client'.bound
      BY <2>1, <3>1, <3>2 DEF Known
    <3>4. SoundOut(m)'
      BY <2>4, <3>3 DEF SoundOut
    <3> QED BY <2>1, <3>1, <3>4 DEF UnsoundOut
  <2>9. StepsSound'
    BY <2>1, <2>3, <2>5, <2>8, FewSteps DEF StepsSound
  <2> QED BY <2>6, <2>7, <2>9 DEF LoginInvariant
<1>6. CASE /\ client' = [Disconnected(FALSE) EXCEPT !.online = 0]
           /\ toServer' = <<>>
           /\ notifying' = notifying + 1
  <2>1. /\ client'.state = "disconnected" /\ client'.told = "disconnect" /\ client'.online = 0
        /\ client'.handshake = FALSE
    BY <1>1, <1>6 DEF Disconnected, ClientType
  <2>2. notifying' # 0
    BY <1>1, <1>6
  <2>3. toClient' = <<>> /\ server' = FreshServer
    BY <1>1, <1>2, <1>3, Zenon DEF FreshServer
  <2>4. OneStepAtATime'
    <3>1. /\ One(toServer', StepsOut) /\ None(toServer', StepsOut)
          /\ One(toClient', StepsIn) /\ None(toClient', StepsIn)
      BY <1>6, <2>3, FewSteps
    <3> QED BY <2>1, <3>1 DEF OneStepAtATime
  <2>5. ListenersDone'
    BY <2>1, <2>2, <2>3 DEF ListenersDone
  <2>6. StepsSound'
    BY <2>1 DEF StepsSound
  <2> QED BY <2>4, <2>5, <2>6 DEF LoginInvariant
<1> QED BY <1>5, <1>6, Zenon DEF Connect

LEMMA ResetLogin ==
    ASSUME ClientInvariant, LoginInvariant, ResetAfterListeners
    PROVE  LoginInvariant'
<1>1. /\ notifying > 0 /\ notifying \in Nat /\ client \in ClientType
      /\ client' = [client EXCEPT !.authed = FALSE, !.bound = FALSE, !.features = {}]
      /\ UNCHANGED <<settings, offer, server, tracked, toServer, toClient, connects, overtaken>>
  BY Queues DEF ResetAfterListeners, ClientInvariant, ClientTypeOK
<1>2. /\ client'.state = client.state /\ client'.told = client.told
      /\ client'.online = client.online /\ client'.handshake = client.handshake
      /\ client'.authed = FALSE /\ client'.bound = FALSE
  BY <1>1 DEF ClientType
<1>3. client.state = "connected" => overtaken
  BY <1>1 DEF LoginInvariant, ListenersDone
<1>4. OneStepAtATime'
  BY <1>1, <1>2 DEF OneStepAtATime, LoginInvariant
<1>5. ListenersDone'
  BY <1>1, <1>2, <1>3 DEF ListenersDone, LoginInvariant
<1>6. StepsSound'
  BY <1>1, <1>2, <1>3 DEF StepsSound
<1> QED BY <1>4, <1>5, <1>6 DEF LoginInvariant

-----------------------------------------------------------------------------
(* The theorem.                                                            *)

LEMMA LoginInitially == ClientInit => LoginInvariant
<1> SUFFICES ASSUME ClientInit PROVE LoginInvariant
  OBVIOUS
<1>1. /\ client.state = "disconnected" /\ client.told = "nothing" /\ client.online = 0
      /\ client.handshake = FALSE /\ client.authed = FALSE /\ client.bound = FALSE
      /\ toServer = <<>> /\ toClient = <<>> /\ server = FreshServer
  BY DEF ClientInit, Fresh
<1>2. OneStepAtATime
  BY <1>1, FewSteps DEF OneStepAtATime
<1> QED BY <1>1, <1>2 DEF LoginInvariant, ListenersDone, StepsSound

LEMMA LoginPreserved == ClientInvariant /\ LoginInvariant /\ [ClientNext]_clientVars => LoginInvariant'
<1> SUFFICES ASSUME ClientInvariant, LoginInvariant, [ClientNext]_clientVars PROVE LoginInvariant'
  OBVIOUS
<1>1. CASE LoseConnection \/ Disconnect
  BY <1>1, DropsLogin DEF LoseConnection, Disconnect
<1>2. CASE UNCHANGED clientVars
  <2>1. UnsoundIn' = UnsoundIn /\ UnsoundOut' = UnsoundOut /\ Ready' = Ready /\ Known' = Known
    BY <1>2 DEF clientVars, UnsoundIn, UnsoundOut, SoundIn, SoundOut, Known, SessionMade,
                SessionNamed, Ready, Unheard, LetIn
  <2> QED BY <1>2, <2>1 DEF clientVars, LoginInvariant, OneStepAtATime, ListenersDone, StepsSound
<1> QED BY <1>1, <1>2, ConnectLogin, ResetLogin, HandleLogin, ServeLogin, ServerEndsLogin DEF ClientNext

\* Whoever is told that a connection is up has one that the server has let in,
\* with a resource and a session and the roster asked for, and is told once: for
\* any settings and any server, and however connections end.
THEOREM OnlineIsReady == ClientSpec => []OnlineMeansReady
<1>1. LoginInvariant /\ ClientInvariant => OnlineMeansReady
  <2> SUFFICES ASSUME LoginInvariant, ClientInvariant PROVE OnlineMeansReady
    OBVIOUS
  <2>1. OnceOnline
    BY DEF OnceOnline, LoginInvariant, OneStepAtATime
  <2>2. AuthedByServer
    BY DEF AuthedByServer, LoginInvariant, StepsSound
  <2>3. ConnectedMeansReady
    <3> SUFFICES ASSUME client.told = "connect", client.state = "connected", ~overtaken
                 PROVE  \/ Unheard
                        \/ /\ server.login = "done" /\ client.authed
                           /\ server.bound
                           /\ settings.manageRoster =>
                                "roster" \notin {t.context : t \in {u \in tracked : u.of = connects}}
                           /\ client.bound /\ "session" \in offer.features => server.session
      BY DEF ConnectedMeansReady, Unheard
    <3>1. Ready
      BY DEF LoginInvariant, StepsSound
    <3>2. ASSUME NEW t \in tracked, t.of = connects, t.context = "roster"
          PROVE  t = [context |-> "roster", of |-> connects]
      BY <3>2 DEF ClientInvariant, ClientTypeOK
    <3> QED BY <3>1, <3>2 DEF Ready, LetIn, SessionMade
  <2> QED BY <2>1, <2>2, <2>3 DEF OnlineMeansReady
<1> QED BY <1>1, ClientInitially, ClientStep, LoginInitially, LoginPreserved, PTL DEF ClientSpec

=============================================================================
