------------------------- MODULE GlooxClientProofs -------------------------
(***************************************************************************)
(* Proofs about GlooxClient, for any settings, any server and any number   *)
(* of connections.                                                         *)
(***************************************************************************)
EXTENDS GlooxClient, SequenceTheorems, TLAPS

\* The client may not say what it wants yet: its connection is in the clear.
Bare(s, layers) == s.tls = "required" /\ ~layers.tls

\* What may be on its way under these layers of the client.
Sayable(s, layers) ==
    {m \in ToServerType :
        /\ m.layers.tls => layers.tls
        /\ s.tls = "required" => m.type \in {"header", "starttls"} \/ m.layers.tls}

Answerable(s, layers) == {m \in ToClientType : Bare(s, layers) => m.type # "challenge"}

\* Requests that can still be answered: those of this connection, none in the clear.
Asking ==
    \A t \in tracked :
        /\ t.of <= connects
        /\ client.state = "connected" /\ Bare(settings, client.layers) => t.of # connects

Cut ==
    IF client.state = "connected" THEN connects > 0 ELSE toServer = <<>> /\ toClient = <<>>

ClientInvariant ==
    /\ ClientTypeOK
    /\ toServer \in Seq(Sayable(settings, client.layers))
    /\ toClient \in Seq(Answerable(settings, client.layers))
    /\ Asking
    /\ Cut

-----------------------------------------------------------------------------
(* What goes out.                                                          *)

LEMMA OutgoingTyped ==
    ASSUME NEW S, NEW types, NEW layers, Len(types) \in Nat,
           \A i \in 1..Len(types) : Stanza(types[i][1], types[i][2], layers) \in S
    PROVE  [i \in 1..Len(types) |-> Stanza(types[i][1], types[i][2], layers)] \in Seq(S)
<1> DEFINE n == Len(types)
           e(i) == Stanza(types[i][1], types[i][2], layers)
<1>1. \A i \in 1..n : e(i) \in S
  OBVIOUS
<1>2. n \in Nat
  OBVIOUS
<1> HIDE DEF n, e
<1>3. [i \in 1..n |-> e(i)] \in [1..n -> S]
  BY <1>1
<1>4. [i \in 1..n |-> e(i)] \in Seq(S)
  BY <1>2, <1>3, SeqDef
<1> QED BY <1>4 DEF n, e

LEMMA SendTyped ==
    ASSUME NEW S, NEW types, NEW c, Len(types) \in Nat,
           \A i \in 1..Len(types) : Stanza(types[i][1], types[i][2], c.layers) \in S
    PROVE  Send(c, types) \in Seq(S)
<1>1. <<>> \in Seq(S)
  BY EmptySeq
<1>2. CASE c.state = "connected"
  BY <1>2, OutgoingTyped DEF Send
<1> QED BY <1>1, <1>2 DEF Send

LEMMA SendsOne ==
    ASSUME NEW S, NEW x, NEW c, Stanza(x[1], x[2], c.layers) \in S
    PROVE  Send(c, <<x>>) \in Seq(S)
<1> DEFINE xs == <<x>>
<1>1. Len(xs) = 1 /\ xs[1] = x
  OBVIOUS
<1> HIDE DEF xs
<1>2. \A i \in 1..Len(xs) : Stanza(xs[i][1], xs[i][2], c.layers) \in S
  BY <1>1
<1>3. Send(c, xs) \in Seq(S)
  BY <1>1, <1>2, SendTyped
<1> QED BY <1>3 DEF xs

LEMMA SendsTwo ==
    ASSUME NEW S, NEW x, NEW y, NEW c,
           Stanza(x[1], x[2], c.layers) \in S, Stanza(y[1], y[2], c.layers) \in S
    PROVE  Send(c, <<x, y>>) \in Seq(S)
<1> DEFINE xs == <<x, y>>
<1>1. Len(xs) = 2 /\ xs[1] = x /\ xs[2] = y
  OBVIOUS
<1> HIDE DEF xs
<1>2. \A i \in 1..Len(xs) : Stanza(xs[i][1], xs[i][2], c.layers) \in S
  BY <1>1
<1>3. Send(c, xs) \in Seq(S)
  BY <1>1, <1>2, SendTyped
<1> QED BY <1>3 DEF xs

LEMMA SendsNothing ==
    ASSUME NEW S, NEW c
    PROVE  Send(c, <<>>) \in Seq(S)
<1>1. Len(<<>>) = 0
  OBVIOUS
<1> QED BY <1>1, SendTyped

\* Once TLS is active more may be on its way.
LEMMA MoreUnderTls ==
    ASSUME NEW s, NEW a, NEW b, a.tls => b.tls
    PROVE  Sayable(s, a) \subseteq Sayable(s, b) /\ Answerable(s, a) \subseteq Answerable(s, b)
BY DEF Sayable, Answerable, Bare

-----------------------------------------------------------------------------
(* The kinds of steps.                                                     *)

\* The channels and the requests, when the client handles a stanza or
\* something of its own and TLS is active if it was.
LEMMA HandlingKeeps ==
    ASSUME ClientInvariant, client' \in ClientType,
           client.state = "connected", client'.state = "connected",
           client.layers.tls => client'.layers.tls,
           NEW out \in Seq(Sayable(settings, client'.layers)),
           toServer' = toServer \o out,
           toClient' = toClient \/ (toClient # <<>> /\ toClient' = Tail(toClient)),
           NEW asks \in SUBSET Contexts,
           asks # {} => ~Bare(settings, client'.layers),
           tracked' \subseteq tracked \cup {[context |-> x, of |-> connects] : x \in asks},
           UNCHANGED <<settings, offer, server, notifying, connects, overtaken>>
    PROVE  ClientInvariant'
<1> USE DEF ClientInvariant, ClientTypeOK
<1> DEFINE S == Sayable(settings, client'.layers)
           A == Answerable(settings, client'.layers)
<1>1. toServer \in Seq(S) /\ toClient \in Seq(A)
  <2>1. Sayable(settings, client.layers) \subseteq S /\ Answerable(settings, client.layers) \subseteq A
    BY MoreUnderTls
  <2> QED BY <2>1, SeqMonotonic
<1>2. S \subseteq ToServerType /\ A \subseteq ToClientType
  BY DEF Sayable, Answerable
<1>3. toServer' \in Seq(S) /\ toServer' \in Seq(ToServerType)
  <2>1. toServer' \in Seq(S)
    BY <1>1, ConcatProperties
  <2> QED BY <2>1, <1>2, SeqMonotonic
<1>4. toClient' \in Seq(A) /\ toClient' \in Seq(ToClientType)
  <2>1. toClient' \in Seq(A)
    BY <1>1, HeadTailProperties
  <2> QED BY <2>1, <1>2, SeqMonotonic
<1>5. tracked' \subseteq [context : Contexts, of : 1..MaxConnects]
  <2>1. connects \in 1..MaxConnects
    BY ClientAssumption DEF Cut
  <2> QED BY <2>1
<1>6. Asking'
  <2> SUFFICES ASSUME NEW t \in tracked'
               PROVE  t.of <= connects /\ (Bare(settings, client'.layers) => t.of # connects)
    BY DEF Asking
  <2>1. CASE t \in tracked
    BY <2>1 DEF Asking, Bare
  <2>2. CASE t \notin tracked
    <3>1. PICK x \in asks : t = [context |-> x, of |-> connects]
      BY <2>2
    <3> QED BY <3>1
  <2> QED BY <2>1, <2>2
<1>7. Cut'
  BY DEF Cut
<1> QED BY <1>3, <1>4, <1>5, <1>6, <1>7

\* Likewise when the server does something.
LEMMA ServingKeeps ==
    ASSUME ClientInvariant, server' \in ServerType,
           client.state = "connected",
           NEW out \in Seq(Answerable(settings, client.layers)),
           toClient' = toClient \o out,
           toServer' = toServer \/ (toServer # <<>> /\ toServer' = Tail(toServer)),
           UNCHANGED <<settings, offer, client, tracked, notifying, connects, overtaken>>
    PROVE  ClientInvariant'
<1> USE DEF ClientInvariant, ClientTypeOK
<1> DEFINE S == Sayable(settings, client.layers)
           A == Answerable(settings, client.layers)
<1>1. S \subseteq ToServerType /\ A \subseteq ToClientType
  BY DEF Sayable, Answerable
<1>2. toServer' \in Seq(S) /\ toServer' \in Seq(ToServerType)
  <2>1. toServer' \in Seq(S)
    BY HeadTailProperties
  <2> QED BY <2>1, <1>1, SeqMonotonic
<1>3. toClient' \in Seq(A) /\ toClient' \in Seq(ToClientType)
  <2>1. toClient' \in Seq(A)
    BY ConcatProperties
  <2> QED BY <2>1, <1>1, SeqMonotonic
<1>4. Asking' /\ Cut'
  BY DEF Asking, Cut
<1> QED BY <1>2, <1>3, <1>4

\* When the connection is gone nothing is on its way, and the requests of the
\* connections so far will not be answered.
LEMMA DisconnectedTyped ==
    ASSUME ClientTypeOK, NEW clears \in BOOLEAN
    PROVE  /\ Disconnected(clears) \in ClientType
           /\ Disconnected(clears).state = "disconnected"
           /\ Disconnected(clears).layers = Plain
<1> DEFINE a == ~clears /\ client.authed
           b == ~clears /\ client.bound
           f == IF clears THEN {} ELSE client.features
<1>1. client \in ClientType
  BY DEF ClientTypeOK
<1>2. a \in BOOLEAN /\ b \in BOOLEAN /\ f \in SUBSET StreamFeatures
  BY <1>1 DEF ClientType
<1>3. Plain \in Layers
  BY DEF Plain, Layers
<1>4. Disconnected(clears) =
        [client EXCEPT !.state = "disconnected", !.layers = Plain, !.handshake = FALSE,
                       !.authed = a, !.bound = b, !.features = f, !.told = "disconnect"]
  BY DEF Disconnected
<1> HIDE DEF a, b, f
<1> QED BY <1>1, <1>2, <1>3, <1>4, ZenonT(30) DEF ClientType

LEMMA DropsKeeps ==
    ASSUME ClientInvariant, client.state = "connected", NEW clears \in BOOLEAN, Drops(clears)
    PROVE  ClientInvariant'
<1> USE DEF ClientInvariant, ClientTypeOK
<1>1. /\ client' \in ClientType /\ client'.state = "disconnected"
      /\ client'.layers = Plain
  BY DisconnectedTyped DEF Drops
<1>2. server' \in ServerType
  BY DEF Drops, FreshServer, ServerType, Plain, Layers
<1>3. toServer' = <<>> /\ toClient' = <<>>
  BY DEF Drops
<1>4. /\ toServer' \in Seq(ToServerType) /\ toServer' \in Seq(Sayable(settings', client'.layers))
      /\ toClient' \in Seq(ToClientType) /\ toClient' \in Seq(Answerable(settings', client'.layers))
  BY <1>3, EmptySeq
<1>5. Cut'
  BY <1>1, <1>3 DEF Cut
<1>6. Asking'
  BY <1>1 DEF Asking, Drops
<1>7. notifying' \in Nat
  BY DEF Drops
<1> QED BY <1>1, <1>2, <1>4, <1>5, <1>6, <1>7 DEF Drops

\* The stanzas that are written under some layers.
Written(types, layers) == [i \in 1..Len(types) |-> Stanza(types[i][1], types[i][2], layers)]

LEMMA Speaks ==
    ASSUME ClientInvariant, client.state = "connected",
           NEW c \in ClientType, c.state = "connected", client.layers.tls => c.layers.tls,
           client' = c, NEW types, Send(c, types) \in Seq(Sayable(settings, c.layers)),
           toServer' = toServer \o Send(c, types),
           toClient' = toClient \/ (toClient # <<>> /\ toClient' = Tail(toClient)),
           NEW asks \in SUBSET Contexts,
           asks # {} => ~Bare(settings, c.layers),
           tracked' \subseteq Track(asks),
           UNCHANGED <<settings, offer, server, notifying, connects, overtaken>>
    PROVE  ClientInvariant'
BY HandlingKeeps DEF Track

LEMMA RepliesKeeps ==
    ASSUME ClientInvariant, toClient # <<>>,
           NEW c \in ClientType, c.state = client.state, client.layers.tls => c.layers.tls,
           NEW types, Send(c, types) \in Seq(Sayable(settings, c.layers)), Replies(c, types),
           NEW asks \in SUBSET Contexts,
           asks # {} => ~Bare(settings, c.layers),
           tracked' \subseteq Track(asks)
    PROVE  ClientInvariant'
<1>1. client.state = "connected"
  BY DEF ClientInvariant, ClientTypeOK, ClientType, Cut
<1> QED BY <1>1, Speaks DEF Replies

\* The header may always be sent, anything else once the client may speak.
LEMMA Says ==
    ASSUME NEW s, NEW layers \in Layers
    PROVE  /\ Stanza("header", "", layers) \in Sayable(s, layers)
           /\ Stanza("starttls", "", layers) \in Sayable(s, layers)
           /\ ~Bare(s, layers) =>
                /\ \A type \in {"compress", "response", "presence"} :
                        Stanza(type, "", layers) \in Sayable(s, layers)
                /\ \A m \in Mechanisms : Stanza("auth", m, layers) \in Sayable(s, layers)
                /\ \A x \in Contexts : Stanza("iq", x, layers) \in Sayable(s, layers)
BY DEF Sayable, Stanza, ToServerType, Stanzas, Bare

LEMMA OnlineTyped ==
    ASSUME NEW c \in ClientType
    PROVE  Online(c) \in ClientType /\ Online(c).state = c.state /\ Online(c).layers = c.layers
<1> DEFINE n == c.online + 1
<1>1. n \in Nat
  BY DEF ClientType
<1>2. Online(c) = [c EXCEPT !.told = "connect", !.online = n]
  BY DEF Online
<1> HIDE DEF n
<1> QED BY <1>1, <1>2 DEF ClientType

\* To go online a client must have been allowed to speak.
LEMMA GoesOnlineKeeps ==
    ASSUME ClientInvariant, toClient # <<>>,
           NEW c \in ClientType, c.state = client.state, c.layers = client.layers,
           ~Bare(settings, c.layers), GoesOnline(c), tracked' \subseteq Track(Tracks(c))
    PROVE  ClientInvariant'
<1>1. c.layers \in Layers
  BY DEF ClientType
<1>2. Tracks(c) \in SUBSET Contexts
  BY DEF Tracks, Contexts
<1>3. CASE c.authed /\ settings.manageRoster
  <2>1. Replies(c, <<Request("delimiter"), Request("roster")>>)
    BY <1>3 DEF GoesOnline
  <2>2. Send(c, <<Request("delimiter"), Request("roster")>>) \in Seq(Sayable(settings, c.layers))
    BY <1>1, Says, SendsTwo DEF Request, Contexts
  <2> QED BY <1>2, <2>1, <2>2, RepliesKeeps
<1>4. CASE ~(c.authed /\ settings.manageRoster)
  <2>1. Replies(Online(c), IF c.authed THEN <<<<"presence", "">>>> ELSE <<>>)
    BY <1>4 DEF GoesOnline
  <2>2. /\ Send(Online(c), <<<<"presence", "">>>>) \in Seq(Sayable(settings, Online(c).layers))
        /\ Send(Online(c), <<>>) \in Seq(Sayable(settings, Online(c).layers))
    BY <1>1, OnlineTyped, Says, SendsOne, SendsNothing
  <2>3. CASE c.authed
    BY <1>2, <2>1, <2>2, <2>3, OnlineTyped, RepliesKeeps
  <2>4. CASE ~c.authed
    BY <1>2, <2>1, <2>2, <2>4, OnlineTyped, RepliesKeeps
  <2> QED BY <2>3, <2>4
<1> QED BY <1>3, <1>4

\* Who is answered has asked on this connection, and was allowed to speak.
LEMMA AnsweredSpoke ==
    ASSUME ClientInvariant, NEW context, NEW kinds, Answers(context, kinds)
    PROVE  /\ ~Bare(settings, client.layers) /\ toClient # <<>>
           /\ client.state = "connected" /\ client.layers \in Layers
<1>1. toClient # <<>> /\ [context |-> context, of |-> connects] \in tracked
  BY DEF Answers, Receives
<1>2. client.state = "connected" /\ client.layers \in Layers
  BY <1>1 DEF ClientInvariant, ClientTypeOK, ClientType, Cut
<1>3. \A t \in tracked : Bare(settings, client.layers) => t.of # connects
  BY <1>2 DEF ClientInvariant, Asking
<1>4. [context |-> context, of |-> connects].of = connects
  OBVIOUS
<1> QED BY <1>1, <1>2, <1>3, <1>4

-----------------------------------------------------------------------------
(* The steps of the connection.                                            *)

LEMMA ConnectKeeps ==
    ASSUME ClientInvariant, Connect
    PROVE  ClientInvariant'
<1> USE DEF ClientInvariant, ClientTypeOK
<1>1. /\ toServer = <<>> /\ toClient = <<>> /\ client.state = "disconnected"
      /\ connects' = connects + 1 /\ connects' \in 1..MaxConnects
      /\ overtaken' \in BOOLEAN
      /\ UNCHANGED <<settings, offer, server, tracked, toClient>>
  BY ClientAssumption DEF Connect, Cut
<1>2. Asking'
  BY <1>1 DEF Asking
<1>3. /\ toClient' \in Seq(ToClientType)
      /\ toClient' \in Seq(Answerable(settings', client'.layers))
  BY <1>1, EmptySeq
<1>4. CASE /\ client' = [client EXCEPT !.state = "connected", !.told = "nothing", !.online = 0]
           /\ toServer' = Send(client', <<Header>>)
           /\ UNCHANGED notifying
  <2>1. /\ client' \in ClientType /\ client'.state = "connected"
        /\ client'.layers = client.layers /\ client.layers \in Layers
    BY <1>4 DEF ClientType
  <2>2. toServer' \in Seq(Sayable(settings, client'.layers))
    BY <1>4, <2>1, Says, SendsOne DEF Header
  <2>3. toServer' \in Seq(ToServerType)
    BY <2>2, SeqMonotonic DEF Sayable
  <2>4. Cut'
    BY <1>1, <2>1 DEF Cut
  <2> QED BY <1>1, <1>2, <1>3, <1>4, <2>1, <2>2, <2>3, <2>4
<1>5. CASE /\ client' = [Disconnected(FALSE) EXCEPT !.online = 0]
           /\ toServer' = <<>>
           /\ notifying' = notifying + 1
  <2>1. client' \in ClientType /\ client'.state = "disconnected"
    BY <1>5, DisconnectedTyped DEF ClientType
  <2>2. /\ toServer' \in Seq(ToServerType)
        /\ toServer' \in Seq(Sayable(settings', client'.layers))
    BY <1>5, EmptySeq
  <2>3. Cut'
    BY <1>1, <1>5, <2>1 DEF Cut
  <2> QED BY <1>1, <1>2, <1>3, <1>5, <2>1, <2>2, <2>3
<1> QED BY <1>4, <1>5 DEF Connect

LEMMA ResetKeeps ==
    ASSUME ClientInvariant, ResetAfterListeners
    PROVE  ClientInvariant'
<1> USE DEF ClientInvariant, ClientTypeOK
<1>1. /\ client' \in ClientType /\ client'.state = client.state
      /\ client'.layers = client.layers
  BY DEF ResetAfterListeners, ClientType
<1>2. Asking' /\ Cut'
  BY <1>1 DEF Asking, Cut, ResetAfterListeners
<1>3. notifying' \in Nat
  BY DEF ResetAfterListeners
<1> QED BY <1>1, <1>2, <1>3 DEF ResetAfterListeners

-----------------------------------------------------------------------------
(* The handlers.                                                           *)

\* What the handlers may assume of the client.
LEMMA Receiving ==
    ASSUME ClientInvariant, NEW type, Receives(type)
    PROVE  /\ toClient # <<>> /\ client.state = "connected"
           /\ client \in ClientType /\ client.layers \in Layers
           /\ Head(toClient) \in Answerable(settings, client.layers)
           /\ Head(toClient).type = type
<1>1. toClient # <<>> /\ Head(toClient).type = type
  BY DEF Receives
<1> QED BY <1>1, HeadTailProperties DEF ClientInvariant, ClientTypeOK, ClientType, Cut

LEMMA HandleStreamKeeps ==
    ASSUME ClientInvariant, HandleStream
    PROVE  ClientInvariant'
<1>1. toClient # <<>> /\ client.state = "connected" /\ client \in ClientType
  BY Receiving DEF HandleStream
<1>2. CASE Replies(client, <<>>) /\ UNCHANGED tracked
  <2>1. tracked' \subseteq Track({})
    BY <1>2 DEF Track
  <2> QED BY <1>1, <1>2, <2>1, SendsNothing, RepliesKeeps
<1>3. CASE Drops(TRUE)
  BY <1>1, <1>3, DropsKeeps
<1> QED BY <1>2, <1>3 DEF HandleStream

LEMMA ErrorsKeep ==
    ASSUME ClientInvariant, HandleStreamError \/ HandleFailure \/ HandleAuthError
    PROVE  ClientInvariant'
<1>1. client.state = "connected"
  BY Receiving, AnsweredSpoke DEF HandleStreamError, HandleFailure, HandleAuthError
<1> QED BY <1>1, DropsKeeps DEF HandleStreamError, HandleFailure, HandleAuthError

\* The steps a list of features can lead to: while the client may not speak,
\* to TLS or to the end of the connection.
LEMMA NextStepShape ==
    ASSUME NEW fs
    PROVE  \/ NextStep(fs) \in {<<"none", "">>, <<"starttls", "">>}
           \/ /\ ~Bare(settings, client.layers)
              /\ \/ NextStep(fs) \in {<<"compress", "">>, <<"wait", "">>, <<"online", "">>}
                 \/ \E m \in Mechanisms : NextStep(fs) = <<"auth", m>>
                 \/ \E x \in Contexts : NextStep(fs) = Request(x)
<1>1. \/ LoginStep(fs) = <<"none", "">>
      \/ \E m \in Mechanisms : LoginStep(fs) = <<"auth", m>>
      \/ \E x \in Contexts : LoginStep(fs) = Request(x)
  BY DEF LoginStep, Mechanisms, Contexts
<1>2. \/ SaslStep(fs) \in {<<"none", "">>, <<"wait", "">>, <<"online", "">>}
      \/ \E m \in Mechanisms : SaslStep(fs) = <<"auth", m>>
      \/ \E x \in Contexts : SaslStep(fs) = Request(x)
  BY <1>1 DEF SaslStep, Mechanisms, Contexts
<1>3. CASE Bare(settings, client.layers)
  BY <1>3 DEF NextStep, Bare, Usable
<1>4. CASE ~Bare(settings, client.layers)
  BY <1>2, <1>4 DEF NextStep, Contexts
<1> QED BY <1>3, <1>4

LEMMA PairParts ==
    ASSUME NEW pair, NEW a, NEW b, pair = <<a, b>>
    PROVE  pair[1] = a /\ pair[2] = b
OBVIOUS

\* What such a step says, and what for.
LEMMA NextStepSays ==
    ASSUME NEW fs, NEW step, step = NextStep(fs)
    PROVE  /\ step[1] \in {"compress", "auth", "iq", "wait", "online"} =>
                ~Bare(settings, client.layers)
           /\ step[1] \in {"starttls", "compress"} => step[2] = ""
           /\ step[1] = "auth" => step[2] \in Mechanisms
           /\ step[1] = "iq" => step[2] \in Contexts
<1>1. \A type, arg : step = <<type, arg>> => step[1] = type /\ step[2] = arg
  BY PairParts
<1>2. ASSUME ~Bare(settings, client.layers), NEW m \in Mechanisms, step = <<"auth", m>>
      PROVE  /\ step[1] = "auth" /\ step[2] \in Mechanisms
             /\ ~Bare(settings, client.layers)
  BY <1>2
<1>3. ASSUME ~Bare(settings, client.layers), NEW x \in Contexts, step = Request(x)
      PROVE  /\ step[1] = "iq" /\ step[2] \in Contexts
             /\ ~Bare(settings, client.layers)
  BY <1>3 DEF Request
<1>4. \/ step = <<"none", "">> \/ step = <<"starttls", "">>
      \/ /\ ~Bare(settings, client.layers)
         /\ \/ step = <<"compress", "">> \/ step = <<"wait", "">> \/ step = <<"online", "">>
            \/ \E m \in Mechanisms : step = <<"auth", m>>
            \/ \E x \in Contexts : step = Request(x)
  BY NextStepShape
<1>5. CASE ~Bare(settings, client.layers) /\ \E m \in Mechanisms : step = <<"auth", m>>
  BY <1>2, <1>5
<1>6. CASE ~Bare(settings, client.layers) /\ \E x \in Contexts : step = Request(x)
  BY <1>3, <1>6
<1>7. CASE step = <<"none", "">> \/ step = <<"starttls", "">>
  <2>1. step[1] \in {"none", "starttls"} /\ step[2] = ""
    BY <1>1, <1>7
  <2> QED BY <2>1
<1>8. CASE /\ ~Bare(settings, client.layers)
           /\ step = <<"compress", "">> \/ step = <<"wait", "">> \/ step = <<"online", "">>
  <2>1. step[1] \in {"compress", "wait", "online"} /\ step[2] = ""
    BY <1>1, <1>8
  <2> QED BY <1>8, <2>1
<1> QED BY <1>4, <1>5, <1>6, <1>7, <1>8

LEMMA HandleFeaturesKeeps ==
    ASSUME ClientInvariant, HandleFeatures
    PROVE  ClientInvariant'
<1> DEFINE fs == Named(Received)
           step == NextStep(fs)
           c == [client EXCEPT !.features = fs]
<1>1. /\ toClient # <<>> /\ client.state = "connected" /\ client.layers \in Layers
      /\ client \in ClientType
      /\ Head(toClient) \in ToClientType /\ Head(toClient).type = "features"
  BY Receiving DEF HandleFeatures, Answerable
<1>2. fs \in SUBSET StreamFeatures
  BY <1>1 DEF Named, Received, ToClientType, Stanzas, StreamFeatures
<1>3. \/ step[1] = "none" /\ Drops(TRUE)
      \/ step[1] = "wait" /\ Replies(c, <<>>) /\ UNCHANGED tracked
      \/ step[1] = "online" /\ GoesOnline(c) /\ tracked' = Track(Tracks(c))
      \/ step[1] \in {"starttls", "compress", "auth"} /\ Replies(c, <<step>>) /\ UNCHANGED tracked
      \/ step[1] = "iq" /\ Replies(c, <<step>>) /\ tracked' = Track({step[2]})
  BY DEF HandleFeatures
<1> HIDE DEF fs
<1>4. c \in ClientType /\ c.state = client.state /\ c.layers = client.layers
  BY <1>1, <1>2 DEF ClientType
<1>5. /\ step[1] \in {"compress", "auth", "iq", "wait", "online"} => ~Bare(settings, client.layers)
      /\ step[1] \in {"starttls", "compress"} => step[2] = ""
      /\ step[1] = "auth" => step[2] \in Mechanisms
      /\ step[1] = "iq" => step[2] \in Contexts
  BY NextStepSays
<1> HIDE DEF c, step
<1>6. CASE step[1] = "none" /\ Drops(TRUE)
  BY <1>1, <1>6, DropsKeeps
<1>7. CASE step[1] = "wait" /\ Replies(c, <<>>) /\ UNCHANGED tracked
  <2>1. tracked' \subseteq Track({})
    BY <1>7 DEF Track
  <2> QED BY <1>1, <1>4, <1>7, <2>1, SendsNothing, RepliesKeeps
<1>8. CASE step[1] = "online" /\ GoesOnline(c) /\ tracked' = Track(Tracks(c))
  <2>1. ~Bare(settings, client.layers)
    BY <1>5, <1>8
  <2> QED BY <1>1, <1>4, <1>8, <2>1, GoesOnlineKeeps
<1>9. CASE step[1] \in {"starttls", "compress", "auth"} /\ Replies(c, <<step>>) /\ UNCHANGED tracked
  <2>1. Stanza(step[1], step[2], c.layers) \in Sayable(settings, c.layers)
    <3>1. /\ step[1] = "starttls" /\ step[2] = ""
          \/ /\ ~Bare(settings, c.layers)
             /\ \/ step[1] = "compress" /\ step[2] = ""
                \/ step[1] = "auth" /\ step[2] \in Mechanisms
      BY <1>4, <1>5, <1>9
    <3> QED BY <1>1, <1>4, <3>1, Says
  <2>2. Send(c, <<step>>) \in Seq(Sayable(settings, c.layers))
    BY <2>1, SendsOne
  <2>3. tracked' \subseteq Track({})
    BY <1>9 DEF Track
  <2> QED BY <1>1, <1>4, <1>9, <2>2, <2>3, RepliesKeeps
<1>10. CASE step[1] = "iq" /\ Replies(c, <<step>>) /\ tracked' = Track({step[2]})
  <2>1. ~Bare(settings, c.layers) /\ step[2] \in Contexts
    BY <1>4, <1>5, <1>10
  <2>2. Stanza(step[1], step[2], c.layers) \in Sayable(settings, c.layers)
    BY <1>1, <1>4, <1>10, <2>1, Says
  <2>3. Send(c, <<step>>) \in Seq(Sayable(settings, c.layers))
    BY <2>2, SendsOne
  <2> QED BY <1>1, <1>4, <1>10, <2>1, <2>3, RepliesKeeps
<1> QED BY <1>3, <1>6, <1>7, <1>8, <1>9, <1>10

\* The handlers that change what is known of the client and say one thing.
LEMMA HandleProceedKeeps ==
    ASSUME ClientInvariant, HandleProceed
    PROVE  ClientInvariant'
<1> DEFINE c == IF settings.encryption
                THEN [client EXCEPT !.layers.tls = TRUE, !.handshake = TRUE] ELSE client
<1>1. toClient # <<>> /\ client \in ClientType
  BY Receiving DEF HandleProceed
<1>2. c \in ClientType /\ c.state = client.state /\ (client.layers.tls => c.layers.tls)
  BY <1>1 DEF ClientType, Layers
<1>3. Replies(c, <<>>) /\ UNCHANGED tracked
  BY DEF HandleProceed
<1> HIDE DEF c
<1>4. tracked' \subseteq Track({})
  BY <1>3 DEF Track
<1> QED BY <1>1, <1>2, <1>3, <1>4, SendsNothing, RepliesKeeps

LEMMA HandleHandshakeResultKeeps ==
    ASSUME ClientInvariant, HandleHandshakeResult
    PROVE  ClientInvariant'
<1>1. client.state = "connected" /\ client \in ClientType /\ client.layers \in Layers
  BY DEF HandleHandshakeResult, ClientInvariant, ClientTypeOK, ClientType
<1>2. CASE /\ client' = [client EXCEPT !.handshake = FALSE]
           /\ toServer' = toServer \o Send(client, <<Header>>)
           /\ UNCHANGED <<settings, offer, server, tracked, toClient, notifying, connects, overtaken>>
  <2>1. /\ client' \in ClientType /\ client'.state = "connected"
        /\ client'.layers = client.layers
    BY <1>1, <1>2 DEF ClientType
  <2>2. Send(client, <<Header>>) \in Seq(Sayable(settings, client'.layers))
    BY <1>1, <2>1, Says, SendsOne DEF Header
  <2>3. tracked' \subseteq Track({})
    BY <1>2 DEF Track
  <2>4. Send(client, <<Header>>) = Send(client', <<Header>>)
    BY <1>1, <2>1 DEF Send
  <2> QED BY <1>1, <1>2, <2>1, <2>2, <2>3, <2>4, Speaks
<1>3. CASE Drops(TRUE)
  BY <1>1, <1>3, DropsKeeps
<1> QED BY <1>2, <1>3 DEF HandleHandshakeResult

LEMMA HandleCompressedKeeps ==
    ASSUME ClientInvariant, HandleCompressed
    PROVE  ClientInvariant'
<1> DEFINE c == [client EXCEPT !.layers.zlib = TRUE]
<1>1. toClient # <<>> /\ client \in ClientType
  BY Receiving DEF HandleCompressed
<1>2. /\ c \in ClientType /\ c.state = client.state /\ (client.layers.tls => c.layers.tls)
      /\ c.layers \in Layers
  BY <1>1 DEF ClientType, Layers
<1>3. Replies(c, <<Header>>) /\ UNCHANGED tracked
  BY DEF HandleCompressed
<1> HIDE DEF c
<1>4. Send(c, <<Header>>) \in Seq(Sayable(settings, c.layers))
  BY <1>2, Says, SendsOne DEF Header
<1>5. tracked' \subseteq Track({})
  BY <1>3 DEF Track
<1> QED BY <1>1, <1>2, <1>3, <1>4, <1>5, RepliesKeeps

\* A challenge only comes to a client that has asked to log in.
LEMMA HandleChallengeKeeps ==
    ASSUME ClientInvariant, HandleChallenge
    PROVE  ClientInvariant'
<1>1. /\ toClient # <<>> /\ client \in ClientType /\ client.layers \in Layers
      /\ ~Bare(settings, client.layers)
  BY Receiving DEF HandleChallenge, Answerable
<1>2. Send(client, <<<<"response", "">>>>) \in Seq(Sayable(settings, client.layers))
  BY <1>1, Says, SendsOne
<1>3. tracked' \subseteq Track({})
  BY DEF Track, HandleChallenge
<1> QED BY <1>1, <1>2, <1>3, RepliesKeeps DEF HandleChallenge

LEMMA HandleSuccessKeeps ==
    ASSUME ClientInvariant, HandleSuccess
    PROVE  ClientInvariant'
<1> DEFINE c == [client EXCEPT !.authed = TRUE]
<1>1. toClient # <<>> /\ client \in ClientType /\ client.layers \in Layers
  BY Receiving DEF HandleSuccess
<1>2. c \in ClientType /\ c.state = client.state /\ c.layers = client.layers
  BY <1>1 DEF ClientType
<1>3. Replies(c, <<Header>>) /\ UNCHANGED tracked
  BY DEF HandleSuccess
<1> HIDE DEF c
<1>4. Send(c, <<Header>>) \in Seq(Sayable(settings, c.layers))
  BY <1>1, <1>2, Says, SendsOne DEF Header
<1>5. tracked' \subseteq Track({})
  BY <1>3 DEF Track
<1> QED BY <1>1, <1>2, <1>3, <1>4, <1>5, RepliesKeeps

\* The answer to a request: the one who asked forgets it, and may ask more.
LEMMA AnsweredTracks ==
    ASSUME NEW context, NEW more, Answered(context, more)
    PROVE  tracked' \subseteq Track(more)
BY DEF Answered

LEMMA AsksOne ==
    ASSUME NEW c, c.layers \in Layers, ~Bare(settings, c.layers), NEW x \in Contexts
    PROVE  Send(c, <<Request(x)>>) \in Seq(Sayable(settings, c.layers))
<1>1. Request(x)[1] = "iq" /\ Request(x)[2] = x
  BY DEF Request
<1> QED BY <1>1, Says, SendsOne

LEMMA HandleBoundKeeps ==
    ASSUME ClientInvariant, HandleBound
    PROVE  ClientInvariant'
<1> DEFINE c == [client EXCEPT !.bound = TRUE]
<1>1. /\ ~Bare(settings, client.layers) /\ toClient # <<>>
      /\ client.layers \in Layers /\ client \in ClientType
  BY AnsweredSpoke DEF HandleBound, ClientInvariant, ClientTypeOK
<1>2. c \in ClientType /\ c.state = client.state /\ c.layers = client.layers
  BY <1>1 DEF ClientType
<1>3. \/ Replies(c, <<Request("session")>>) /\ Answered("bind", {"session"})
      \/ GoesOnline(c) /\ Answered("bind", Tracks(c))
  BY DEF HandleBound
<1> HIDE DEF c
<1>4. CASE Replies(c, <<Request("session")>>) /\ Answered("bind", {"session"})
  <2>1. Send(c, <<Request("session")>>) \in Seq(Sayable(settings, c.layers))
    BY <1>1, <1>2, AsksOne DEF Contexts
  <2>2. {"session"} \in SUBSET Contexts /\ tracked' \subseteq Track({"session"})
    BY <1>4, AnsweredTracks DEF Contexts
  <2> QED BY <1>1, <1>2, <1>4, <2>1, <2>2, RepliesKeeps
<1>5. CASE GoesOnline(c) /\ Answered("bind", Tracks(c))
  BY <1>1, <1>2, <1>5, AnsweredTracks, GoesOnlineKeeps
<1> QED BY <1>3, <1>4, <1>5

\* A refusal is told to the listeners.
LEMMA RefusalsKeep ==
    ASSUME ClientInvariant, HandleBindError \/ HandleSessionError
    PROVE  ClientInvariant'
<1>1. PICK context \in Contexts, told \in {"bindError", "sessionError"} :
          /\ Answers(context, {"error"})
          /\ Replies([client EXCEPT !.told = told], <<>>)
          /\ Answered(context, {})
  BY DEF HandleBindError, HandleSessionError, Contexts
<1> DEFINE c == [client EXCEPT !.told = told]
<1>2. toClient # <<>> /\ client \in ClientType
  BY <1>1, AnsweredSpoke DEF ClientInvariant, ClientTypeOK
<1>3. c \in ClientType /\ c.state = client.state /\ c.layers = client.layers
  BY <1>1, <1>2 DEF ClientType
<1>4. Replies(c, <<>>) /\ tracked' \subseteq Track({})
  BY <1>1, AnsweredTracks
<1> HIDE DEF c
<1> QED BY <1>2, <1>3, <1>4, SendsNothing, RepliesKeeps

LEMMA HandleSessionKeeps ==
    ASSUME ClientInvariant, HandleSession
    PROVE  ClientInvariant'
<1>1. /\ ~Bare(settings, client.layers) /\ toClient # <<>> /\ client \in ClientType
  BY AnsweredSpoke DEF HandleSession, ClientInvariant, ClientTypeOK
<1> QED BY <1>1, AnsweredTracks, GoesOnlineKeeps DEF HandleSession

LEMMA HandleRosterKeeps ==
    ASSUME ClientInvariant, HandleDelimiter \/ HandleRoster
    PROVE  ClientInvariant'
<1>1. /\ ~Bare(settings, client.layers) /\ toClient # <<>>
      /\ client.layers \in Layers /\ client \in ClientType
  BY AnsweredSpoke DEF HandleDelimiter, HandleRoster, ClientInvariant, ClientTypeOK
<1>2. tracked' \subseteq Track({})
  BY AnsweredTracks DEF HandleDelimiter, HandleRoster
<1>3. CASE HandleDelimiter
  BY <1>1, <1>2, <1>3, SendsNothing, RepliesKeeps DEF HandleDelimiter
<1>4. CASE HandleRoster
  <2>1. /\ Online(client) \in ClientType /\ Online(client).state = client.state
        /\ Online(client).layers = client.layers
    BY <1>1, OnlineTyped
  <2>2. Send(Online(client), <<<<"presence", "">>>>) \in Seq(Sayable(settings, Online(client).layers))
    BY <1>1, <2>1, Says, SendsOne
  <2> QED BY <1>1, <1>2, <1>4, <2>1, <2>2, RepliesKeeps DEF HandleRoster
<1> QED BY <1>3, <1>4

LEMMA HandleAuthFieldsKeeps ==
    ASSUME ClientInvariant, HandleAuthFields
    PROVE  ClientInvariant'
<1>1. /\ ~Bare(settings, client.layers) /\ toClient # <<>>
      /\ client.layers \in Layers /\ client \in ClientType
  BY AnsweredSpoke DEF HandleAuthFields, ClientInvariant, ClientTypeOK
<1>2. Send(client, <<Request("auth")>>) \in Seq(Sayable(settings, client.layers))
  BY <1>1, AsksOne DEF Contexts
<1>3. {"auth"} \in SUBSET Contexts /\ tracked' \subseteq Track({"auth"})
  BY AnsweredTracks DEF HandleAuthFields, Contexts
<1> QED BY <1>1, <1>2, <1>3, RepliesKeeps DEF HandleAuthFields

LEMMA HandleAuthResultKeeps ==
    ASSUME ClientInvariant, HandleAuthResult
    PROVE  ClientInvariant'
<1> DEFINE c == [client EXCEPT !.authed = TRUE]
<1>1. /\ ~Bare(settings, client.layers) /\ toClient # <<>> /\ client \in ClientType
  BY AnsweredSpoke DEF HandleAuthResult, ClientInvariant, ClientTypeOK
<1>2. c \in ClientType /\ c.state = client.state /\ c.layers = client.layers
  BY <1>1 DEF ClientType
<1>3. GoesOnline(c) /\ tracked' \subseteq Track(Tracks(c))
  BY AnsweredTracks DEF HandleAuthResult
<1> HIDE DEF c
<1> QED BY <1>1, <1>2, <1>3, GoesOnlineKeeps

LEMMA HandleKeeps ==
    ASSUME ClientInvariant, Handle
    PROVE  ClientInvariant'
BY HandleStreamKeeps, ErrorsKeep, HandleFeaturesKeeps, HandleProceedKeeps,
   HandleHandshakeResultKeeps, HandleCompressedKeeps, HandleChallengeKeeps,
   HandleSuccessKeeps, HandleBoundKeeps, RefusalsKeep, HandleSessionKeeps,
   HandleRosterKeeps, HandleAuthFieldsKeeps, HandleAuthResultKeeps
   DEF Handle

-----------------------------------------------------------------------------
(* The server.                                                             *)

LEMMA ServesKeeps ==
    ASSUME ClientInvariant, toServer # <<>>, NEW s \in ServerType, NEW types,
           Len(types) \in Nat,
           \A i \in 1..Len(types) :
               Stanza(types[i][1], types[i][2], server.layers) \in Answerable(settings, client.layers),
           Serves(s, types)
    PROVE  ClientInvariant'
<1> DEFINE out == [i \in 1..Len(types) |-> Stanza(types[i][1], types[i][2], server.layers)]
<1>1. out \in Seq(Answerable(settings, client.layers))
  BY OutgoingTyped
<1>2. toClient' = toClient \o out
  BY DEF Serves
<1> HIDE DEF out
<1>3. client.state = "connected"
  BY DEF ClientInvariant, ClientTypeOK, ClientType, Cut
<1> QED BY <1>1, <1>2, <1>3, ServingKeeps DEF Serves

LEMMA ServesOne ==
    ASSUME ClientInvariant, toServer # <<>>, NEW s \in ServerType, NEW x, Serves(s, <<x>>),
           Stanza(x[1], x[2], server.layers) \in Answerable(settings, client.layers)
    PROVE  ClientInvariant'
<1> DEFINE xs == <<x>>
<1>1. Len(xs) = 1 /\ xs[1] = x /\ Serves(s, xs)
  OBVIOUS
<1> HIDE DEF xs
<1> QED BY <1>1, ServesKeeps

LEMMA ServesTwo ==
    ASSUME ClientInvariant, toServer # <<>>, NEW s \in ServerType, NEW x, NEW y,
           Serves(s, <<x, y>>),
           Stanza(x[1], x[2], server.layers) \in Answerable(settings, client.layers),
           Stanza(y[1], y[2], server.layers) \in Answerable(settings, client.layers)
    PROVE  ClientInvariant'
<1> DEFINE xs == <<x, y>>
<1>1. Len(xs) = 2 /\ xs[1] = x /\ xs[2] = y /\ Serves(s, xs)
  OBVIOUS
<1> HIDE DEF xs
<1>2. \A i \in 1..Len(xs) :
          Stanza(xs[i][1], xs[i][2], server.layers) \in Answerable(settings, client.layers)
  BY <1>1
<1> QED BY <1>1, <1>2, ServesKeeps

\* What the server may always say, and what only a client that may speak hears.
LEMMA Answering ==
    ASSUME NEW layers \in Layers, NEW s, NEW mine
    PROVE  /\ \A type \in {"proceed", "failure", "compressed", "success", "error"} :
                  Stanza(type, "", layers) \in Answerable(s, mine)
           /\ \A version \in {"1.0", "2.0"} : Stanza("stream", version, layers) \in Answerable(s, mine)
           /\ \A fs \in SUBSET StreamFeatures : Stanza("features", fs, layers) \in Answerable(s, mine)
           /\ \A x \in Contexts, outcome \in {"result", "error"} :
                  Stanza("answer", <<x, outcome>>, layers) \in Answerable(s, mine)
           /\ ~Bare(s, mine) => Stanza("challenge", "", layers) \in Answerable(s, mine)
BY DEF Answerable, Stanza, ToClientType, Stanzas

LEMMA Serving ==
    ASSUME ClientInvariant, NEW type, Reads(type)
    PROVE  /\ toServer # <<>> /\ server \in ServerType /\ server.layers \in Layers
           /\ Head(toServer) \in Sayable(settings, client.layers)
           /\ Head(toServer).type = type
           /\ type \in {"auth", "response"} => ~Bare(settings, client.layers)
<1>1. toServer # <<>> /\ Head(toServer).type = type
  BY DEF Reads
<1>2. Head(toServer) \in Sayable(settings, client.layers)
  BY <1>1, HeadTailProperties DEF ClientInvariant
<1>3. type \in {"auth", "response"} => ~Bare(settings, client.layers)
  BY <1>1, <1>2 DEF Sayable, Bare
<1> QED BY <1>1, <1>2, <1>3 DEF ClientInvariant, ClientTypeOK, ServerType

LEMMA ServeHeaderKeeps ==
    ASSUME ClientInvariant, ServeHeader
    PROVE  ClientInvariant'
<1>1. toServer # <<>> /\ server \in ServerType /\ server.layers \in Layers
  BY Serving DEF ServeHeader
<1>2. ServerFeatures(server) \in SUBSET StreamFeatures
  BY DEF ServerFeatures, StreamFeatures
<1>3. CASE Serves(server, <<<<"stream", "1.0">>, <<"features", ServerFeatures(server)>>>>)
  <2> DEFINE x == <<"stream", "1.0">>
             y == <<"features", ServerFeatures(server)>>
  <2>1. /\ Stanza(x[1], x[2], server.layers) \in Answerable(settings, client.layers)
        /\ Stanza(y[1], y[2], server.layers) \in Answerable(settings, client.layers)
    BY <1>1, <1>2, Answering
  <2> HIDE DEF x, y
  <2>2. Serves(server, <<x, y>>)
    BY <1>3 DEF x, y
  <2> QED BY <1>1, <2>1, <2>2, ServesTwo
<1>4. CASE Serves(server, <<<<"stream", "2.0">>>>)
  <2>1. Stanza("stream", "2.0", server.layers) \in Answerable(settings, client.layers)
    BY <1>1, Answering
  <2> QED BY <1>1, <1>4, <2>1, ServesOne
<1> QED BY <1>3, <1>4 DEF ServeHeader

\* The server says one thing, that any client may hear.
LEMMA ServesPlainly ==
    ASSUME ClientInvariant, toServer # <<>>, NEW s \in ServerType,
           NEW type \in {"proceed", "failure", "compressed", "success"},
           Serves(s, <<<<type, "">>>>)
    PROVE  ClientInvariant'
<1>1. Stanza(type, "", server.layers) \in Answerable(settings, client.layers)
  BY Answering DEF ClientInvariant, ClientTypeOK, ServerType
<1> DEFINE x == <<type, "">>
<1>2. x[1] = type /\ x[2] = ""
  OBVIOUS
<1> HIDE DEF x
<1>3. Serves(s, <<x>>)
  BY DEF x
<1> QED BY <1>1, <1>2, <1>3, ServesOne

LEMMA ServesChallenge ==
    ASSUME ClientInvariant, toServer # <<>>, NEW s \in ServerType,
           ~Bare(settings, client.layers), Serves(s, <<<<"challenge", "">>>>)
    PROVE  ClientInvariant'
<1>1. Stanza("challenge", "", server.layers) \in Answerable(settings, client.layers)
  BY Answering DEF ClientInvariant, ClientTypeOK, ServerType
<1> QED BY <1>1, ServesOne

LEMMA ServeLayersKeeps ==
    ASSUME ClientInvariant, ServeStartTls \/ ServeCompress
    PROVE  ClientInvariant'
<1>1. toServer # <<>> /\ server \in ServerType
  BY Serving DEF ServeStartTls, ServeCompress
<1> DEFINE t == [server EXCEPT !.layers.tls = TRUE]
           z == [server EXCEPT !.layers.zlib = TRUE]
<1>2. t \in ServerType /\ z \in ServerType
  BY <1>1 DEF ServerType, Layers
<1>3. \/ Serves(t, <<<<"proceed", "">>>>) \/ Serves(z, <<<<"compressed", "">>>>)
      \/ Serves(server, <<<<"failure", "">>>>)
  BY DEF ServeStartTls, ServeCompress
<1> HIDE DEF t, z
<1> QED BY <1>1, <1>2, <1>3, ServesPlainly

LEMMA ServeLoginKeeps ==
    ASSUME ClientInvariant, ServeAuth \/ ServeResponse
    PROVE  ClientInvariant'
<1>1. toServer # <<>> /\ server \in ServerType /\ ~Bare(settings, client.layers)
  BY Serving DEF ServeAuth, ServeResponse
<1> DEFINE s(login) == [server EXCEPT !.login = login]
<1>2. \A login \in {"challenged", "answered", "done"} : s(login) \in ServerType
  BY <1>1 DEF ServerType
<1>3. \/ Serves(s("challenged"), <<<<"challenge", "">>>>)
      \/ Serves(s("answered"), <<<<"challenge", "">>>>)
      \/ Serves(s("done"), <<<<"success", "">>>>)
      \/ Serves(server, <<<<"failure", "">>>>)
  BY DEF ServeAuth, ServeResponse
<1> HIDE DEF s
<1> QED BY <1>1, <1>2, <1>3, ServesPlainly, ServesChallenge

LEMMA GrantedTyped ==
    ASSUME server \in ServerType, NEW context
    PROVE  Granted(context) \in ServerType
<1> DEFINE l == IF context = "auth" THEN "done" ELSE server.login
           b == server.bound \/ context \in {"auth", "bind"}
           s == server.session \/ context = "session"
           r == server.roster \/ context = "roster"
<1>1. Granted(context) = [server EXCEPT !.login = l, !.bound = b, !.session = s, !.roster = r]
  BY DEF Granted
<1>2. l \in {"none", "challenged", "answered", "done"}
  BY DEF ServerType
<1>3. b \in BOOLEAN /\ s \in BOOLEAN /\ r \in BOOLEAN
  OBVIOUS
<1> HIDE DEF l, b, s, r
<1> QED BY <1>1, <1>2, <1>3 DEF ServerType

LEMMA ServeRequestKeeps ==
    ASSUME ClientInvariant, ServeRequest
    PROVE  ClientInvariant'
<1>1. /\ toServer # <<>> /\ server \in ServerType /\ server.layers \in Layers
      /\ Head(toServer) \in ToServerType /\ Head(toServer).type = "iq"
  BY Serving DEF ServeRequest, Sayable
<1>2. Asked \in Contexts
  BY <1>1 DEF Asked, ToServerType, Stanzas
<1>3. PICK s \in ServerType, outcome \in {"result", "error"} :
          Serves(s, <<<<"answer", <<Asked, outcome>>>>>>)
  BY <1>1, GrantedTyped DEF ServeRequest
<1>4. Stanza("answer", <<Asked, outcome>>, server.layers) \in Answerable(settings, client.layers)
  BY <1>1, <1>2, Answering
<1> QED BY <1>1, <1>3, <1>4, ServesOne

LEMMA ServePresenceKeeps ==
    ASSUME ClientInvariant, ServePresence
    PROVE  ClientInvariant'
<1>1. toServer # <<>> /\ server \in ServerType /\ Len(<<>>) = 0
  BY Serving DEF ServePresence
<1> QED BY <1>1, ServesKeeps DEF ServePresence

LEMMA ServeKeeps ==
    ASSUME ClientInvariant, Serve
    PROVE  ClientInvariant'
BY ServeHeaderKeeps, ServeLayersKeeps, ServeLoginKeeps, ServeRequestKeeps,
   ServePresenceKeeps DEF Serve

LEMMA ServerEndsKeeps ==
    ASSUME ClientInvariant, ServerEnds
    PROVE  ClientInvariant'
<1> DEFINE e == Stanza("error", "", server.layers)
<1>1. server \in ServerType /\ server.layers \in Layers
  BY DEF ClientInvariant, ClientTypeOK, ServerType
<1>2. e \in Answerable(settings, client.layers)
  BY <1>1, Answering
<1>3. toClient' = Append(toClient, e) /\ client.state = "connected"
      /\ UNCHANGED <<settings, offer, client, server, tracked, toServer, notifying, connects, overtaken>>
  BY DEF ServerEnds
<1> HIDE DEF e
<1>4. Append(toClient, e) = toClient \o <<e>>
  BY DEF ClientInvariant, ClientTypeOK
<1>5. <<e>> \in Seq(Answerable(settings, client.layers))
  BY <1>2
<1> QED BY <1>1, <1>3, <1>4, <1>5, ServingKeeps

-----------------------------------------------------------------------------
(* The theorems.                                                           *)

LEMMA ClientInitially == ClientInit => ClientInvariant
<1> SUFFICES ASSUME ClientInit PROVE ClientInvariant
  OBVIOUS
<1>1. client \in ClientType /\ client.state = "disconnected"
  BY DEF ClientInit, Fresh, ClientType, Plain, Layers
<1>2. server \in ServerType
  BY DEF ClientInit, FreshServer, ServerType, Plain, Layers
<1>3. \A S : toServer \in Seq(S) /\ toClient \in Seq(S)
  BY EmptySeq DEF ClientInit
<1>4. connects \in 0..MaxConnects
  BY ClientAssumption DEF ClientInit
<1>5. Asking /\ Cut
  BY <1>1 DEF ClientInit, Asking, Cut
<1> QED BY <1>1, <1>2, <1>3, <1>4, <1>5 DEF ClientInit, ClientInvariant, ClientTypeOK

LEMMA ClientStep == ClientInvariant /\ [ClientNext]_clientVars => ClientInvariant'
<1> SUFFICES ASSUME ClientInvariant, [ClientNext]_clientVars PROVE ClientInvariant'
  OBVIOUS
<1>1. CASE LoseConnection \/ Disconnect
  BY <1>1, DropsKeeps DEF LoseConnection, Disconnect
<1>2. CASE UNCHANGED clientVars
  BY <1>2 DEF clientVars, ClientInvariant, ClientTypeOK, Asking, Cut
<1> QED BY <1>1, <1>2, ConnectKeeps, ResetKeeps, HandleKeeps, ServeKeeps, ServerEndsKeeps
        DEF ClientNext

\* Every variable of the client and its server holds values of its type.
THEOREM ClientTypeCorrect == ClientSpec => []ClientTypeOK
<1>1. ClientInvariant => ClientTypeOK
  BY DEF ClientInvariant
<1> QED BY <1>1, ClientInitially, ClientStep, PTL DEF ClientSpec

\* A client that requires TLS says nothing in the clear but what it takes to
\* get TLS, whatever the settings, the server and the number of connections:
\* also when a connection is opened while the end of the last one is told.
THEOREM NothingInTheClear == ClientSpec => []TlsRequiredHonoured
<1>1. ClientInvariant => TlsRequiredHonoured
  <2> SUFFICES ASSUME ClientInvariant, settings.tls = "required", NEW i \in 1..Len(toServer)
               PROVE  toServer[i].type \in {"header", "starttls"} \/ toServer[i].layers.tls
    BY DEF TlsRequiredHonoured
  <2>1. toServer[i] \in Sayable(settings, client.layers)
    BY ElementOfSeq DEF ClientInvariant
  <2> QED BY <2>1 DEF Sayable
<1> QED BY <1>1, ClientInitially, ClientStep, PTL DEF ClientSpec

-----------------------------------------------------------------------------
(* Logging in is taking turns: as long as the layers can still change, one  *)
(* stanza at most asks for something, on its way to the server or answered  *)
(* on its way back, and whoever reads it is the only one to switch.         *)

\* What moves the login on, what its answer can be, and what is said later.
Moves == {"header", "starttls", "compress", "auth", "response"}
Prompts == {"features", "proceed", "compressed", "challenge", "success"}
Chatter == {"iq", "presence"}

\* Stanzas written under these layers: some that prompt nothing, some that may
\* answer a request, the requests.
Dull(l) == {m \in ToClientType : m.type \in {"stream", "failure", "error"} /\ m.layers = l}
Unprompting(l) == {m \in ToClientType : m.type \notin Prompts /\ m.layers = l}
Talking(l) == {m \in ToServerType : m.type \in Chatter /\ m.layers = l}

\* The layers under which the stanza after this one is written.
Upgraded(l, m) ==
    CASE m.type = "proceed" -> [l EXCEPT !.tls = TRUE]
      [] m.type = "compressed" -> [l EXCEPT !.zlib = TRUE]
      [] OTHER -> l

InStep == server.layers = client.layers

ServersTurn ==
    /\ InStep /\ ~client.handshake
    /\ \E m \in ToServerType :
          /\ toServer = <<m>> /\ m.type \in Moves /\ m.layers = client.layers
          /\ m.type = "starttls" => settings.encryption
    /\ toClient \in Seq(Dull(client.layers))

\* The k-th stanza in prompts the client.
PromptedBy(k) ==
    /\ \A i \in 1..(k - 1) : toClient[i] \in Dull(client.layers)
    /\ toClient[k].type \in Prompts /\ toClient[k].layers = client.layers
    /\ toClient[k].type = "proceed" => settings.encryption
    /\ server.layers = Upgraded(client.layers, toClient[k])
    /\ \A i \in (k + 1)..Len(toClient) : toClient[i] \in Dull(server.layers)

ClientsTurn ==
    /\ ~client.handshake
    /\ toServer = <<>>
    /\ \E k \in 1..Len(toClient) : PromptedBy(k)

HandshakesTurn ==
    /\ InStep /\ client.handshake
    /\ toServer = <<>>
    /\ toClient \in Seq(Dull(client.layers))

NobodysTurn ==
    /\ InStep /\ ~client.handshake
    /\ toServer \in Seq(Talking(client.layers))
    /\ toClient \in Seq(Unprompting(client.layers))

TurnInvariant ==
    /\ ServersTurn \/ ClientsTurn \/ HandshakesTurn \/ NobodysTurn
    /\ client.state = "disconnected" => ~client.handshake /\ InStep /\ client.layers = Plain

-----------------------------------------------------------------------------
(* Whose turn it is when a stanza is read.                                 *)

LEMMA SeqOfThese ==
    ASSUME NEW T, NEW s \in Seq(T), NEW S, \A i \in 1..Len(s) : s[i] \in S
    PROVE  s \in Seq(S)
<1>1. Len(s) \in Nat /\ s \in [1..Len(s) -> T]
  BY LenProperties
<1>2. s \in [1..Len(s) -> S]
  BY <1>1
<1> QED BY <1>1, <1>2, SeqDef

LEMMA DullUnprompting ==
    ASSUME NEW l
    PROVE  Dull(l) \subseteq Unprompting(l)
BY DEF Dull, Unprompting, Prompts

\* A stanza the client reads was written under its layers; one that prompts it
\* comes when it has the turn, and what follows is written under the next layers.
LEMMA ClientReads ==
    ASSUME ClientInvariant, TurnInvariant, toClient # <<>>
    PROVE  LET m == Head(toClient)
           IN  /\ m.layers = client.layers
               /\ m.type \in Prompts =>
                    /\ toServer = <<>> /\ ~client.handshake
                    /\ m.type = "proceed" => settings.encryption
                    /\ server.layers = Upgraded(client.layers, m)
                    /\ Tail(toClient) \in Seq(Dull(server.layers))
               /\ m.type = "answer" => NobodysTurn
<1> DEFINE m == Head(toClient)
           t == Tail(toClient)
<1>1. toClient \in Seq(ToClientType)
  BY DEF ClientInvariant, ClientTypeOK
<1>2. /\ Len(toClient) \in Nat /\ Len(toClient) > 0
      /\ m = toClient[1] /\ t \in Seq(ToClientType)
      /\ Len(t) = Len(toClient) - 1
      /\ \A i \in 1..(Len(toClient) - 1) : t[i] = toClient[i + 1]
  BY <1>1, HeadTailProperties, EmptySeq
<1> HIDE DEF m, t
<1>3. CASE ServersTurn \/ HandshakesTurn
  <2>1. m \in Dull(client.layers)
    BY <1>2, <1>3, ElementOfSeq DEF ServersTurn, HandshakesTurn
  <2>2. m.layers = client.layers /\ m.type \notin Prompts /\ m.type # "answer"
    BY <2>1 DEF Dull, Prompts
  <2> QED BY <2>2 DEF m, t
<1>4. CASE NobodysTurn
  <2>1. m \in Unprompting(client.layers)
    BY <1>2, <1>4, ElementOfSeq DEF NobodysTurn
  <2>2. m.layers = client.layers /\ m.type \notin Prompts
    BY <2>1 DEF Unprompting
  <2> QED BY <1>4, <2>2 DEF m, t
<1>5. CASE ClientsTurn
  <2>1. PICK k \in 1..Len(toClient) : PromptedBy(k)
    BY <1>5 DEF ClientsTurn
  <2>2. CASE k = 1
    <3>1. /\ m.layers = client.layers /\ m.type \in Prompts
          /\ m.type = "proceed" => settings.encryption
          /\ server.layers = Upgraded(client.layers, m)
      BY <1>2, <2>1, <2>2 DEF PromptedBy
    <3>2. \A i \in 1..Len(t) : t[i] \in Dull(server.layers)
      <4>1. \A i \in 2..Len(toClient) : toClient[i] \in Dull(server.layers)
        BY <2>1, <2>2 DEF PromptedBy
      <4>2. \A i \in 1..Len(t) : i + 1 \in 2..Len(toClient) /\ t[i] = toClient[i + 1]
        BY <1>2
      <4> QED BY <4>1, <4>2
    <3>3. t \in Seq(Dull(server.layers))
      BY <1>2, <3>2, SeqOfThese
    <3>4. m.type # "answer"
      BY <3>1 DEF Prompts
    <3> QED BY <1>5, <3>1, <3>3, <3>4 DEF ClientsTurn, m, t
  <2>3. CASE k # 1
    <3>1. 1 \in 1..(k - 1)
      BY <1>2, <2>3
    <3>2. m \in Dull(client.layers)
      BY <1>2, <2>1, <3>1 DEF PromptedBy
    <3>3. m.layers = client.layers /\ m.type \notin Prompts /\ m.type # "answer"
      BY <3>2 DEF Dull, Prompts
    <3> QED BY <3>3 DEF m, t
  <2> QED BY <2>2, <2>3
<1> QED BY <1>3, <1>4, <1>5 DEF TurnInvariant

\* A stanza the server reads was written under its layers; one that moves the
\* login on is alone, anything else is read when nobody has the turn.
LEMMA ServerReads ==
    ASSUME ClientInvariant, TurnInvariant, toServer # <<>>
    PROVE  LET m == Head(toServer)
           IN  /\ m.layers = server.layers /\ InStep
               /\ m.type \in Moves =>
                    /\ ServersTurn /\ Tail(toServer) = <<>>
                    /\ m.type = "starttls" => settings.encryption
               /\ m.type \in Chatter => NobodysTurn
<1> DEFINE m == Head(toServer)
<1>1. m = toServer[1] /\ 1 \in 1..Len(toServer)
  BY HeadTailProperties, EmptySeq DEF ClientInvariant, ClientTypeOK
<1>2. CASE ServersTurn
  <2>1. PICK x \in ToServerType :
            /\ toServer = <<x>> /\ x.type \in Moves /\ x.layers = client.layers
            /\ x.type = "starttls" => settings.encryption
    BY <1>2 DEF ServersTurn
  <2>2. m = x /\ Tail(toServer) = <<>>
    BY <2>1
  <2> QED BY <1>2, <2>1, <2>2 DEF ServersTurn, InStep, Moves, Chatter
<1>3. CASE NobodysTurn
  <2>1. m \in Talking(client.layers)
    BY <1>1, <1>3, ElementOfSeq DEF NobodysTurn
  <2> QED BY <1>3, <2>1 DEF Talking, NobodysTurn, InStep, Moves, Chatter
<1> QED BY <1>2, <1>3 DEF TurnInvariant, ClientsTurn, HandshakesTurn

-----------------------------------------------------------------------------
(* The kinds of steps, and whose turn they leave it.                       *)

LEMMA DropsTurn ==
    ASSUME ClientInvariant, NEW clears \in BOOLEAN, Drops(clears)
    PROVE  TurnInvariant'
<1>1. /\ client'.layers = Plain /\ client'.state = "disconnected" /\ client'.handshake = FALSE
      /\ server'.layers = Plain /\ toServer' = <<>> /\ toClient' = <<>>
  <2>1. Disconnected(clears).handshake = FALSE
    BY DEF Disconnected, ClientInvariant, ClientTypeOK, ClientType
  <2> QED BY <2>1, DisconnectedTyped DEF Drops, FreshServer, ClientInvariant
<1>2. \A S : <<>> \in Seq(S)
  BY EmptySeq
<1> QED BY <1>1, <1>2 DEF TurnInvariant, NobodysTurn, InStep

\* The client is prompted and asks for the next thing.
LEMMA MovesOn ==
    ASSUME ClientInvariant, TurnInvariant, toClient # <<>>, Head(toClient).type \in Prompts,
           NEW c, c.state = client.state, c.layers = server.layers, ~c.handshake,
           NEW x, Replies(c, <<x>>), x[1] \in Moves, Stanza(x[1], x[2], c.layers) \in ToServerType,
           x[1] = "starttls" => settings.encryption
    PROVE  TurnInvariant'
<1>1. client.state = "connected"
  BY DEF ClientInvariant, ClientTypeOK, ClientType, Cut
<1>2. toServer = <<>> /\ Tail(toClient) \in Seq(Dull(server.layers))
  BY ClientReads
<1> DEFINE m == Stanza(x[1], x[2], c.layers)
<1>3. Send(c, <<x>>) = <<m>>
  BY <1>1 DEF Send
<1>4. m.type = x[1] /\ m.layers = c.layers
  BY DEF Stanza
<1>5. m \in ToServerType
  OBVIOUS
<1> HIDE DEF m
<1>6. toServer' = <<m>>
  BY <1>2, <1>3, <1>5 DEF Replies
<1>7. ServersTurn'
  BY <1>2, <1>4, <1>5, <1>6 DEF Replies, ServersTurn, InStep
<1> QED BY <1>1, <1>7 DEF TurnInvariant, Replies

\* The client reads something that leaves the turn to nobody.
LEMMA TalksOn ==
    ASSUME ClientInvariant, TurnInvariant, toClient # <<>>,
           Head(toClient).type \in Prompts \/ Head(toClient).type = "answer",
           NEW c, c.state = client.state, c.layers = server.layers, c.handshake = client.handshake,
           NEW types, Replies(c, types), Send(c, types) \in Seq(Talking(c.layers))
    PROVE  TurnInvariant'
<1>1. client.state = "connected"
  BY DEF ClientInvariant, ClientTypeOK, ClientType, Cut
<1>4. /\ toServer \in Seq(Talking(server.layers)) /\ ~client.handshake
      /\ Tail(toClient) \in Seq(Unprompting(server.layers))
  <2>1. CASE Head(toClient).type \in Prompts
    <3>1. toServer = <<>> /\ ~client.handshake /\ Tail(toClient) \in Seq(Dull(server.layers))
      BY <2>1, ClientReads
    <3>2. Tail(toClient) \in Seq(Unprompting(server.layers))
      BY <3>1, DullUnprompting, SeqMonotonic
    <3>3. toServer \in Seq(Talking(server.layers))
      BY <3>1, EmptySeq
    <3> QED BY <3>1, <3>2, <3>3
  <2>2. CASE Head(toClient).type = "answer"
    <3>1. NobodysTurn
      BY <2>2, ClientReads
    <3>2. Tail(toClient) \in Seq(Unprompting(server.layers))
      BY <3>1, HeadTailProperties DEF NobodysTurn, InStep
    <3> QED BY <3>1, <3>2 DEF NobodysTurn, InStep
  <2> QED BY <2>1, <2>2
<1>5. toServer' \in Seq(Talking(c.layers))
  BY <1>4, ConcatProperties DEF Replies
<1>6. NobodysTurn'
  BY <1>4, <1>5 DEF Replies, NobodysTurn, InStep
<1> QED BY <1>1, <1>6 DEF TurnInvariant, Replies

\* The server answers what moves the login on: the client has the turn when the
\* last of its answers prompts it, and nobody when none does.
LEMMA Prompting ==
    ASSUME ClientInvariant, TurnInvariant, toServer # <<>>, Head(toServer).type \in Moves,
           NEW s, NEW d \in Seq(Dull(server.layers)), NEW m \in ToClientType,
           m.type \in Prompts, m.layers = server.layers,
           m.type = "proceed" => settings.encryption,
           s.layers = Upgraded(server.layers, m),
           server' = s, toServer' = Tail(toServer), toClient' = toClient \o (d \o <<m>>),
           UNCHANGED <<settings, client>>
    PROVE  TurnInvariant'
<1>1. ServersTurn /\ Tail(toServer) = <<>> /\ InStep
  BY ServerReads
<1>2. toClient \o d \in Seq(Dull(client.layers))
  BY <1>1, ConcatProperties DEF ServersTurn, InStep
<1>3. toClient' = Append(toClient \o d, m)
  <2>1. /\ toClient \in Seq(ToClientType) /\ d \in Seq(ToClientType) /\ <<m>> \in Seq(ToClientType)
    BY SeqMonotonic DEF ClientInvariant, ClientTypeOK, Dull
  <2>2. toClient \o (d \o <<m>>) = (toClient \o d) \o <<m>>
    BY <2>1, ConcatAssociative
  <2>3. toClient \o d \in Seq(ToClientType)
    BY <2>1, ConcatProperties
  <2>4. (toClient \o d) \o <<m>> = Append(toClient \o d, m)
    BY <2>3, AppendIsConcat
  <2> QED BY <2>2, <2>4
<1> DEFINE b == toClient \o d
<1>4. Len(b) \in Nat /\ \A i \in 1..Len(b) : b[i] \in Dull(client.layers)
  BY <1>2, ElementOfSeq
<1>5. b \in Seq(Dull(client.layers)) /\ toClient' = Append(b, m)
  BY <1>2, <1>3
<1> HIDE DEF b
<1>12. PICK k \in Nat : k = Len(b) + 1
  BY <1>4
<1>6. /\ Len(toClient') = k /\ toClient'[k] = m
      /\ \A i \in 1..Len(b) : toClient'[i] = b[i]
  <2>1. b \in Seq(ToClientType)
    BY <1>5, SeqMonotonic DEF Dull
  <2>2. /\ Len(Append(b, m)) = Len(b) + 1 /\ Append(b, m)[Len(b) + 1] = m
        /\ \A i \in 1..Len(b) : Append(b, m)[i] = b[i]
    BY <2>1, AppendProperties
  <2> QED BY <1>5, <1>12, <2>2
<1>7. /\ k \in 1..Len(toClient')
      /\ \A i \in 1..(k - 1) : i \in 1..Len(b)
      /\ (k + 1)..Len(toClient') = {}
  BY <1>4, <1>6, <1>12
<1>8. PromptedBy(k)'
  <2>1. \A i \in 1..(k - 1) : toClient'[i] \in Dull(client'.layers)
    BY <1>4, <1>6, <1>7
  <2>2. /\ toClient'[k].type \in Prompts /\ toClient'[k].layers = client'.layers
        /\ toClient'[k].type = "proceed" => settings'.encryption
        /\ server'.layers = Upgraded(client'.layers, toClient'[k])
    BY <1>1, <1>6 DEF InStep
  <2> QED BY <1>7, <2>1, <2>2 DEF PromptedBy
<1>9. ClientsTurn'
  BY <1>1, <1>7, <1>8 DEF ClientsTurn, ServersTurn
<1>10. client.state = "connected"
  BY DEF ClientInvariant, ClientTypeOK, ClientType, Cut
<1> QED BY <1>9, <1>10 DEF TurnInvariant

LEMMA PromptingNot ==
    ASSUME ClientInvariant, TurnInvariant, toServer # <<>>, Head(toServer).type \in Moves,
           NEW m \in Dull(server.layers),
           server'.layers = server.layers, toServer' = Tail(toServer), toClient' = toClient \o <<m>>,
           UNCHANGED <<settings, client>>
    PROVE  TurnInvariant'
<1>1. ServersTurn /\ Tail(toServer) = <<>> /\ InStep
  BY ServerReads
<1>2. /\ toClient \in Seq(Unprompting(client.layers)) /\ m \in Unprompting(client.layers)
  BY <1>1, DullUnprompting, SeqMonotonic DEF ServersTurn, InStep
<1>3. <<m>> \in Seq(Unprompting(client.layers))
  BY <1>2
<1>4. toClient' \in Seq(Unprompting(client.layers))
  BY <1>2, <1>3, ConcatProperties
<1>5. toServer' \in Seq(Talking(client.layers))
  BY <1>1, EmptySeq
<1>6. NobodysTurn'
  BY <1>1, <1>4, <1>5 DEF NobodysTurn, InStep, ServersTurn
<1>7. client.state = "connected"
  BY DEF ClientInvariant, ClientTypeOK, ClientType, Cut
<1> QED BY <1>6, <1>7 DEF TurnInvariant

\* The server reads something when nobody has the turn.
LEMMA AnsweringOn ==
    ASSUME ClientInvariant, TurnInvariant, toServer # <<>>, Head(toServer).type \in Chatter,
           NEW out \in Seq(Unprompting(server.layers)),
           server'.layers = server.layers, toServer' = Tail(toServer), toClient' = toClient \o out,
           UNCHANGED <<settings, client>>
    PROVE  TurnInvariant'
<1>1. NobodysTurn /\ InStep
  BY ServerReads
<1>2. toClient' \in Seq(Unprompting(client.layers))
  BY <1>1, ConcatProperties DEF NobodysTurn, InStep
<1>3. toServer' \in Seq(Talking(client.layers))
  BY <1>1, HeadTailProperties DEF NobodysTurn
<1>4. NobodysTurn'
  BY <1>1, <1>2, <1>3 DEF NobodysTurn, InStep
<1>5. client.state = "connected"
  BY DEF ClientInvariant, ClientTypeOK, ClientType, Cut
<1> QED BY <1>4, <1>5 DEF TurnInvariant

-----------------------------------------------------------------------------
(* The handlers.                                                           *)

LEMMA SaysNothing ==
    ASSUME NEW c
    PROVE  Send(c, <<>>) = <<>>
<1>1. Send(c, <<>>) \in Seq({})
  BY SendsNothing
<1>2. Send(c, <<>>) # <<>> => Head(Send(c, <<>>)) \in {}
  BY <1>1, HeadTailProperties
<1> QED BY <1>2

LEMMA UpgradedNot ==
    ASSUME NEW l, NEW m, m.type \notin {"proceed", "compressed"}
    PROVE  Upgraded(l, m) = l
BY DEF Upgraded

\* The argument of what has none.
NoArg == ""

\* What stanzas are made of.
LEMMA Fields ==
    ASSUME NEW a, NEW b, NEW l
    PROVE  Stanza(a, b, l).type = a /\ Stanza(a, b, l).arg = b /\ Stanza(a, b, l).layers = l
BY DEF Stanza

LEMMA SaidTyped ==
    ASSUME NEW l \in Layers
    PROVE  /\ \A type \in {"header", "starttls", "compress", "response", "presence"} :
                  Stanza(type, NoArg, l) \in ToServerType
           /\ \A x \in Mechanisms : Stanza("auth", x, l) \in ToServerType
           /\ \A x \in Contexts : Stanza("iq", x, l) \in ToServerType
BY DEF Stanza, ToServerType, Stanzas, NoArg

LEMMA AnsweredTyped ==
    ASSUME NEW l \in Layers
    PROVE  /\ \A v \in {"1.0", "2.0"} : Stanza("stream", v, l) \in ToClientType
           /\ \A fs \in SUBSET StreamFeatures : Stanza("features", fs, l) \in ToClientType
           /\ \A type \in {"proceed", "failure", "compressed", "challenge", "success", "error"} :
                  Stanza(type, NoArg, l) \in ToClientType
           /\ \A arg \in Contexts \X {"result", "error"} : Stanza("answer", arg, l) \in ToClientType
BY DEF Stanza, ToClientType, Stanzas, NoArg

LEMMA SaysIt ==
    ASSUME NEW c, c.state = "connected", NEW x
    PROVE  Send(c, <<x>>) = <<Stanza(x[1], x[2], c.layers)>>
BY DEF Send

LEMMA HandleStreamTurn ==
    ASSUME ClientInvariant, TurnInvariant, HandleStream
    PROVE  TurnInvariant'
<1> DEFINE t == Tail(toClient)
<1>1. /\ toClient # <<>> /\ Head(toClient).type = "stream" /\ client.state = "connected"
      /\ toClient \in Seq(ToClientType)
  BY Receiving DEF HandleStream, ClientInvariant, ClientTypeOK
<1>2. CASE Drops(TRUE)
  BY <1>2, DropsTurn
<1>3. CASE Replies(client, <<>>)
  <2>1. /\ toServer' = toServer /\ toClient' = t
        /\ UNCHANGED <<settings, server, client>>
    <3>1. toServer \o <<>> = toServer
      BY ConcatEmptySeq DEF ClientInvariant, ClientTypeOK
    <3> QED BY <1>3, <3>1, SaysNothing DEF Replies
  <2>2. /\ Len(toClient) \in Nat /\ Len(toClient) > 0
        /\ toClient[1].type = "stream" /\ t \in Seq(ToClientType)
        /\ Len(t) = Len(toClient) - 1
        /\ \A i \in 1..(Len(toClient) - 1) : t[i] = toClient[i + 1]
    BY <1>1, HeadTailProperties, EmptySeq
  <2>3. \A S : toClient \in Seq(S) => t \in Seq(S)
    BY <1>1, HeadTailProperties
  <2> HIDE DEF t
  <2>4. CASE ServersTurn
    <3>1. ServersTurn'
      BY <2>1, <2>3, <2>4 DEF ServersTurn, InStep
    <3> QED BY <1>1, <2>1, <3>1 DEF TurnInvariant
  <2>5. CASE HandshakesTurn
    <3>1. HandshakesTurn'
      BY <2>1, <2>3, <2>5 DEF HandshakesTurn, InStep
    <3> QED BY <1>1, <2>1, <3>1 DEF TurnInvariant
  <2>6. CASE NobodysTurn
    <3>1. NobodysTurn'
      BY <2>1, <2>3, <2>6 DEF NobodysTurn, InStep
    <3> QED BY <1>1, <2>1, <3>1 DEF TurnInvariant
  <2>7. CASE ClientsTurn
    <3>1. PICK k \in 1..Len(toClient) : PromptedBy(k)
      BY <2>7 DEF ClientsTurn
    <3>2. k # 1
      BY <2>2, <3>1 DEF PromptedBy, Prompts
    <3>3. PICK j \in Nat : j = k - 1 /\ j \in 1..Len(t) /\ t[j] = toClient[k]
      BY <2>2, <3>1, <3>2
    <3>4. \A i \in 1..(j - 1) : i + 1 \in 1..(k - 1) /\ t[i] = toClient[i + 1]
      BY <2>2, <3>3
    <3>5. \A i \in (j + 1)..Len(t) : i + 1 \in (k + 1)..Len(toClient) /\ t[i] = toClient[i + 1]
      BY <2>2, <3>3
    <3>6. \A i \in 1..(j - 1) : t[i] \in Dull(client.layers)
      BY <3>1, <3>4 DEF PromptedBy
    <3>7. \A i \in (j + 1)..Len(t) : t[i] \in Dull(server.layers)
      BY <3>1, <3>5 DEF PromptedBy
    <3>8. PromptedBy(j)'
      BY <2>1, <3>1, <3>3, <3>6, <3>7 DEF PromptedBy
    <3>9. ClientsTurn'
      BY <2>1, <2>7, <3>3, <3>8 DEF ClientsTurn
    <3> QED BY <1>1, <2>1, <3>9 DEF TurnInvariant
  <2> QED BY <2>4, <2>5, <2>6, <2>7 DEF TurnInvariant
<1> QED BY <1>2, <1>3 DEF HandleStream

LEMMA HandleHandshakeResultTurn ==
    ASSUME ClientInvariant, TurnInvariant, HandleHandshakeResult
    PROVE  TurnInvariant'
<1>1. client.handshake /\ client.state = "connected"
  BY DEF HandleHandshakeResult
<1>2. HandshakesTurn
  BY <1>1 DEF TurnInvariant, ServersTurn, ClientsTurn, NobodysTurn
<1>3. CASE Drops(TRUE)
  BY <1>3, DropsTurn
<1>4. CASE /\ client' = [client EXCEPT !.handshake = FALSE]
           /\ toServer' = toServer \o Send(client, <<Header>>)
           /\ UNCHANGED <<settings, offer, server, tracked, toClient, notifying, connects, overtaken>>
  <2> DEFINE m == Stanza("header", NoArg, client.layers)
  <2>1. client'.layers = client.layers /\ client'.handshake = FALSE /\ client'.state = "connected"
    BY <1>1, <1>4 DEF ClientInvariant, ClientTypeOK, ClientType
  <2>2. m \in ToServerType /\ m.type = "header" /\ m.layers = client.layers
    <3>1. client.layers \in Layers
      BY DEF ClientInvariant, ClientTypeOK, ClientType
    <3> QED BY <3>1, Fields, SaidTyped
  <2>3. Send(client, <<Header>>) = <<m>>
    <3>1. Header[1] = "header" /\ Header[2] = NoArg
      BY DEF Header, NoArg
    <3> QED BY <1>1, <3>1, SaysIt
  <2> HIDE DEF m
  <2>4. toServer' = <<m>>
    BY <1>2, <1>4, <2>2, <2>3 DEF HandshakesTurn
  <2>5. ServersTurn'
    BY <1>2, <1>4, <2>1, <2>2, <2>4 DEF ServersTurn, HandshakesTurn, InStep, Moves
  <2> QED BY <2>1, <2>5 DEF TurnInvariant
<1> QED BY <1>3, <1>4 DEF HandleHandshakeResult

\* What is sent to go online is for when nobody has the turn.
LEMMA Chats ==
    ASSUME NEW layers \in Layers
    PROVE  /\ Stanza("presence", NoArg, layers) \in Talking(layers)
           /\ \A x \in Contexts : Stanza("iq", x, layers) \in Talking(layers)
BY Fields, SaidTyped DEF Talking, Chatter

LEMMA RequestsChat ==
    ASSUME NEW c, c.layers \in Layers, NEW x \in Contexts
    PROVE  Send(c, <<Request(x)>>) \in Seq(Talking(c.layers))
<1>1. Request(x)[1] = "iq" /\ Request(x)[2] = x
  BY DEF Request
<1>2. Stanza(Request(x)[1], Request(x)[2], c.layers) \in Talking(c.layers)
  BY <1>1, Chats
<1> QED BY <1>2, SendsOne

LEMMA PresenceChats ==
    ASSUME NEW c, c.layers \in Layers
    PROVE  Send(c, <<<<"presence", NoArg>>>>) \in Seq(Talking(c.layers))
<1> DEFINE x == <<"presence", NoArg>>
<1>1. x[1] = "presence" /\ x[2] = NoArg
  OBVIOUS
<1> HIDE DEF x
<1>2. Stanza(x[1], x[2], c.layers) \in Talking(c.layers)
  BY <1>1, Chats
<1>3. Send(c, <<x>>) \in Seq(Talking(c.layers))
  BY <1>2, SendsOne
<1> QED BY <1>3 DEF x

LEMMA OnlineFields ==
    ASSUME NEW c \in ClientType
    PROVE  /\ Online(c).state = c.state /\ Online(c).layers = c.layers
           /\ Online(c).handshake = c.handshake
BY DEF Online, ClientType

LEMMA GoesOnlineTurn ==
    ASSUME ClientInvariant, TurnInvariant, toClient # <<>>,
           Head(toClient).type \in Prompts \/ Head(toClient).type = "answer",
           NEW c \in ClientType, c.state = client.state, c.layers = server.layers,
           c.handshake = client.handshake, GoesOnline(c)
    PROVE  TurnInvariant'
<1>1. c.layers \in Layers
  BY DEF ClientType
<1>2. CASE c.authed /\ settings.manageRoster
  <2>1. Replies(c, <<Request("delimiter"), Request("roster")>>)
    BY <1>2 DEF GoesOnline
  <2>2. Send(c, <<Request("delimiter"), Request("roster")>>) \in Seq(Talking(c.layers))
    <3> DEFINE d == Request("delimiter")
               q == Request("roster")
    <3>1. d[1] = "iq" /\ d[2] \in Contexts /\ q[1] = "iq" /\ q[2] \in Contexts
      BY DEF Request, Contexts
    <3> HIDE DEF d, q
    <3>2. /\ Stanza(d[1], d[2], c.layers) \in Talking(c.layers)
          /\ Stanza(q[1], q[2], c.layers) \in Talking(c.layers)
      BY <1>1, <3>1, Chats
    <3>3. Send(c, <<d, q>>) \in Seq(Talking(c.layers))
      BY <3>2, SendsTwo
    <3> QED BY <3>3 DEF d, q
  <2> QED BY <2>1, <2>2, TalksOn
<1>3. CASE ~(c.authed /\ settings.manageRoster)
  <2> DEFINE o == Online(c)
  <2>1. \/ Replies(o, <<<<"presence", NoArg>>>>) \/ Replies(o, <<>>)
    <3>1. Replies(o, IF c.authed THEN <<<<"presence", NoArg>>>> ELSE <<>>)
      BY <1>3, Zenon DEF GoesOnline, NoArg
    <3>2. CASE c.authed
      BY <3>1, <3>2
    <3>3. CASE ~c.authed
      BY <3>1, <3>3
    <3> QED BY <3>2, <3>3
  <2>2. o.state = client.state /\ o.layers = server.layers /\ o.handshake = client.handshake
    BY OnlineFields
  <2> HIDE DEF o
  <2>3. /\ Send(o, <<<<"presence", NoArg>>>>) \in Seq(Talking(o.layers))
        /\ Send(o, <<>>) \in Seq(Talking(o.layers))
    BY <1>1, <2>2, PresenceChats, SendsNothing
  <2>4. CASE Replies(o, <<<<"presence", NoArg>>>>)
    BY <2>2, <2>3, <2>4, TalksOn
  <2>5. CASE Replies(o, <<>>)
    BY <2>2, <2>3, <2>5, TalksOn
  <2> QED BY <2>1, <2>4, <2>5
<1> QED BY <1>2, <1>3

\* TLS is asked for by a client that has it.
LEMMA StartTlsUsable ==
    ASSUME NEW fs, NextStep(fs)[1] = "starttls"
    PROVE  settings.encryption
<1>1. SaslStep(fs)[1] # "starttls"
  <2>1. LoginStep(fs)[1] # "starttls"
    BY DEF LoginStep, Request
  <2> QED BY <2>1 DEF SaslStep, Request
<1> QED BY <1>1 DEF NextStep, Usable, Request

LEMMA StanzasFields ==
    ASSUME NEW types, NEW args, NEW m \in Stanzas(types, args)
    PROVE  m.type \in types /\ m.arg \in args
BY DEF Stanzas

\* What comes with the features, and with a request.
LEMMA FeaturesRead ==
    ASSUME NEW m \in ToClientType, m.type = "features"
    PROVE  m.arg \in SUBSET StreamFeatures
<1>1. ToClientType =
          Stanzas({"stream"}, {"1.0", "2.0"}) \cup Stanzas({"features"}, SUBSET StreamFeatures)
          \cup Stanzas({"proceed", "failure", "compressed", "challenge", "success", "error"}, {NoArg})
          \cup Stanzas({"answer"}, Contexts \X {"result", "error"})
  BY Zenon DEF ToClientType, NoArg
<1>2. CASE m \in Stanzas({"features"}, SUBSET StreamFeatures)
  BY <1>2, StanzasFields
<1>3. CASE m \notin Stanzas({"features"}, SUBSET StreamFeatures)
  <2>1. m.type \in {"stream"} \/ m.type \in {"answer"}
        \/ m.type \in {"proceed", "failure", "compressed", "challenge", "success", "error"}
    BY <1>1, <1>3, StanzasFields
  <2> QED BY <2>1
<1> QED BY <1>2, <1>3

LEMMA RequestRead ==
    ASSUME NEW m \in ToServerType, m.type = "iq"
    PROVE  m.arg \in Contexts
<1>1. ToServerType =
          Stanzas({"header", "starttls", "compress", "response", "presence"}, {NoArg})
          \cup Stanzas({"auth"}, Mechanisms) \cup Stanzas({"iq"}, Contexts)
  BY Zenon DEF ToServerType, NoArg
<1>2. CASE m \in Stanzas({"iq"}, Contexts)
  BY <1>2, StanzasFields
<1>3. CASE m \notin Stanzas({"iq"}, Contexts)
  <2>1. m.type \in {"auth"} \/ m.type \in {"header", "starttls", "compress", "response", "presence"}
    BY <1>1, <1>3, StanzasFields
  <2> QED BY <2>1
<1> QED BY <1>2, <1>3

LEMMA HandleFeaturesTurn ==
    ASSUME ClientInvariant, TurnInvariant, HandleFeatures
    PROVE  TurnInvariant'
<1> DEFINE fs == Named(Received)
           step == NextStep(fs)
           c == [client EXCEPT !.features = fs]
<1>1. /\ toClient # <<>> /\ client \in ClientType /\ client.layers \in Layers
      /\ Head(toClient) \in ToClientType /\ Head(toClient).type = "features"
  BY Receiving DEF HandleFeatures, Answerable
<1>2. fs \in SUBSET StreamFeatures
  <2>1. Received \in SUBSET StreamFeatures
    BY <1>1, FeaturesRead DEF Received
  <2> QED BY <2>1 DEF Named, StreamFeatures
<1>3. \/ step[1] = "none" /\ Drops(TRUE)
      \/ step[1] = "wait" /\ Replies(c, <<>>)
      \/ step[1] = "online" /\ GoesOnline(c)
      \/ step[1] \in {"starttls", "compress", "auth"} /\ Replies(c, <<step>>)
      \/ step[1] = "iq" /\ Replies(c, <<step>>)
  BY DEF HandleFeatures
<1>4. /\ step[1] \in {"starttls", "compress"} => step[2] = NoArg
      /\ step[1] = "auth" => step[2] \in Mechanisms
      /\ step[1] = "iq" => step[2] \in Contexts
      /\ step[1] = "starttls" => settings.encryption
  <2>1. /\ step[1] = "auth" => step[2] \in Mechanisms
        /\ step[1] = "iq" => step[2] \in Contexts
        /\ step[1] \in {"starttls", "compress"} => step[2] = NoArg
    BY NextStepSays, Zenon DEF NoArg
  <2> QED BY <2>1, StartTlsUsable
<1> HIDE DEF fs, step
<1>5. /\ c \in ClientType /\ c.state = client.state /\ c.layers = client.layers
      /\ c.handshake = client.handshake
  BY <1>1, <1>2 DEF ClientType
<1> HIDE DEF c
<1>6. Head(toClient).type \in Prompts
  BY <1>1 DEF Prompts
<1>7. ~client.handshake /\ server.layers = client.layers
  BY <1>1, <1>6, ClientReads, UpgradedNot
<1>8. CASE step[1] = "none" /\ Drops(TRUE)
  BY <1>8, DropsTurn
<1>9. CASE step[1] = "wait" /\ Replies(c, <<>>)
  BY <1>1, <1>5, <1>6, <1>7, <1>9, SendsNothing, TalksOn
<1>10. CASE step[1] = "online" /\ GoesOnline(c)
  BY <1>1, <1>5, <1>6, <1>7, <1>10, GoesOnlineTurn
<1>11. CASE step[1] \in {"starttls", "compress", "auth"} /\ Replies(c, <<step>>)
  <2>1. Stanza(step[1], step[2], c.layers) \in ToServerType
    BY <1>1, <1>4, <1>5, <1>11, SaidTyped
  <2>2. step[1] \in Moves
    BY <1>11 DEF Moves
  <2> QED BY <1>1, <1>4, <1>5, <1>6, <1>7, <1>11, <2>1, <2>2, MovesOn
<1>12. CASE step[1] = "iq" /\ Replies(c, <<step>>)
  <2>1. Stanza(step[1], step[2], c.layers) \in Talking(c.layers)
    BY <1>1, <1>4, <1>5, <1>12, Chats
  <2>2. Send(c, <<step>>) \in Seq(Talking(c.layers))
    BY <2>1, SendsOne
  <2> QED BY <1>1, <1>5, <1>6, <1>7, <1>12, <2>2, TalksOn
<1> QED BY <1>3, <1>8, <1>9, <1>10, <1>11, <1>12

LEMMA HandleProceedTurn ==
    ASSUME ClientInvariant, TurnInvariant, HandleProceed
    PROVE  TurnInvariant'
<1> DEFINE c == [client EXCEPT !.layers.tls = TRUE, !.handshake = TRUE]
<1>1. /\ toClient # <<>> /\ client \in ClientType /\ client.state = "connected"
      /\ Head(toClient).type = "proceed"
  BY Receiving DEF HandleProceed
<1>2. /\ toServer = <<>> /\ settings.encryption
      /\ server.layers = Upgraded(client.layers, Head(toClient))
      /\ Tail(toClient) \in Seq(Dull(server.layers))
  BY <1>1, ClientReads DEF Prompts
<1>3. Replies(c, <<>>)
  BY <1>2 DEF HandleProceed
<1>4. /\ c.layers = [client.layers EXCEPT !.tls = TRUE] /\ c.handshake = TRUE
      /\ c.state = "connected"
  BY <1>1 DEF ClientType, Layers
<1> HIDE DEF c
<1>5. c.layers = server.layers
  BY <1>1, <1>2, <1>4 DEF Upgraded
<1>6. toServer' = <<>>
  BY <1>2, <1>3, SaysNothing, ConcatEmptySeq, EmptySeq DEF Replies
<1>7. HandshakesTurn'
  BY <1>2, <1>3, <1>4, <1>5, <1>6 DEF HandshakesTurn, InStep, Replies
<1> QED BY <1>3, <1>4, <1>7 DEF TurnInvariant, Replies

LEMMA HeaderParts == Header[1] = "header" /\ Header[2] = NoArg
BY DEF Header, NoArg

LEMMA HeaderMoves ==
    ASSUME ClientInvariant, TurnInvariant, toClient # <<>>, Head(toClient).type \in Prompts,
           NEW c \in ClientType, c.state = client.state, c.layers = server.layers, ~c.handshake,
           Replies(c, <<Header>>)
    PROVE  TurnInvariant'
<1>1. Header[1] = "header" /\ Header[2] = NoArg
  BY HeaderParts
<1>2. Stanza(Header[1], Header[2], c.layers) \in ToServerType
  <2>1. c.layers \in Layers
    BY DEF ClientType
  <2> QED BY <1>1, <2>1, SaidTyped
<1>3. Header[1] \in Moves /\ Header[1] # "starttls"
  BY <1>1 DEF Moves
<1> QED BY <1>2, <1>3, MovesOn

LEMMA HandleLoginTurn ==
    ASSUME ClientInvariant, TurnInvariant, HandleCompressed \/ HandleChallenge \/ HandleSuccess
    PROVE  TurnInvariant'
<1>1. /\ toClient # <<>> /\ client \in ClientType /\ client.layers \in Layers
      /\ Head(toClient).type \in {"compressed", "challenge", "success"}
      /\ HandleCompressed => Head(toClient).type = "compressed"
      /\ HandleChallenge => Head(toClient).type = "challenge"
      /\ HandleSuccess => Head(toClient).type = "success"
  <2>1. /\ HandleCompressed => Receives("compressed")
        /\ HandleChallenge => Receives("challenge")
        /\ HandleSuccess => Receives("success")
    BY Zenon DEF HandleCompressed, HandleChallenge, HandleSuccess
  <2>2. \A type : Receives(type) => /\ toClient # <<>> /\ client \in ClientType
                                    /\ client.layers \in Layers /\ Head(toClient).type = type
    BY Receiving
  <2> QED BY <2>1, <2>2
<1>2. Head(toClient).type \in Prompts
  BY <1>1 DEF Prompts
<1>3. ~client.handshake /\ server.layers = Upgraded(client.layers, Head(toClient))
  BY <1>1, <1>2, ClientReads
<1>4. CASE HandleCompressed
  <2> DEFINE c == [client EXCEPT !.layers.zlib = TRUE]
  <2>1. /\ c \in ClientType /\ c.state = client.state /\ c.handshake = client.handshake
        /\ c.layers = [client.layers EXCEPT !.zlib = TRUE]
    BY <1>1 DEF ClientType, Layers
  <2>2. Replies(c, <<Header>>)
    BY <1>4 DEF HandleCompressed
  <2> HIDE DEF c
  <2>3. c.layers = server.layers
    BY <1>1, <1>3, <1>4, <2>1 DEF Upgraded
  <2> QED BY <1>1, <1>2, <1>3, <2>1, <2>2, <2>3, HeaderMoves
<1>5. CASE HandleChallenge
  <2> DEFINE x == <<"response", NoArg>>
  <2>1. server.layers = client.layers
    BY <1>1, <1>3, <1>5, UpgradedNot
  <2>2. Replies(client, <<x>>)
    BY <1>5, Zenon DEF HandleChallenge, NoArg
  <2>3. x[1] = "response" /\ x[2] = NoArg
    OBVIOUS
  <2>4. x[1] \in Moves /\ Stanza(x[1], x[2], client.layers) \in ToServerType
    BY <1>1, <2>3, SaidTyped DEF Moves
  <2> HIDE DEF x
  <2> QED BY <1>1, <1>2, <1>3, <2>1, <2>2, <2>3, <2>4, MovesOn
<1>6. CASE HandleSuccess
  <2> DEFINE c == [client EXCEPT !.authed = TRUE]
  <2>1. /\ c \in ClientType /\ c.state = client.state /\ c.handshake = client.handshake
        /\ c.layers = client.layers
    BY <1>1 DEF ClientType
  <2>2. Replies(c, <<Header>>)
    BY <1>6 DEF HandleSuccess
  <2> HIDE DEF c
  <2>3. c.layers = server.layers
    BY <1>1, <1>3, <1>6, <2>1, UpgradedNot
  <2> QED BY <1>1, <1>2, <1>3, <2>1, <2>2, <2>3, HeaderMoves
<1> QED BY <1>4, <1>5, <1>6

\* The answers to requests.
LEMMA AnsweredReads ==
    ASSUME ClientInvariant, TurnInvariant, NEW context, NEW kinds, Answers(context, kinds)
    PROVE  /\ toClient # <<>> /\ Head(toClient).type = "answer" /\ server.layers = client.layers
           /\ client \in ClientType /\ client.layers \in Layers
<1>1. toClient # <<>> /\ Head(toClient).type = "answer"
  BY DEF Answers, Receives
<1>2. NobodysTurn
  BY <1>1, ClientReads
<1> QED BY <1>1, <1>2 DEF NobodysTurn, InStep, ClientInvariant, ClientTypeOK, ClientType

LEMMA AnswersOnlineTurn ==
    ASSUME ClientInvariant, TurnInvariant, HandleBound \/ HandleSession \/ HandleAuthResult
    PROVE  TurnInvariant'
<1>1. /\ toClient # <<>> /\ Head(toClient).type = "answer" /\ server.layers = client.layers
      /\ client \in ClientType /\ client.layers \in Layers
  BY AnsweredReads DEF HandleBound, HandleSession, HandleAuthResult
<1> DEFINE b == [client EXCEPT !.bound = TRUE]
           a == [client EXCEPT !.authed = TRUE]
<1>2. \/ Replies(b, <<Request("session")>>) \/ GoesOnline(b)
      \/ GoesOnline(client) \/ GoesOnline(a)
  BY DEF HandleBound, HandleSession, HandleAuthResult
<1>3. \A c \in {a, b} : /\ c \in ClientType /\ c.state = client.state
                        /\ c.layers = client.layers /\ c.handshake = client.handshake
  BY <1>1 DEF ClientType
<1> HIDE DEF a, b
<1>4. Send(b, <<Request("session")>>) \in Seq(Talking(b.layers))
  BY <1>1, <1>3, RequestsChat DEF Contexts
<1>5. CASE Replies(b, <<Request("session")>>)
  BY <1>1, <1>3, <1>4, <1>5, TalksOn
<1>6. CASE GoesOnline(a) \/ GoesOnline(b) \/ GoesOnline(client)
  BY <1>1, <1>3, <1>6, GoesOnlineTurn
<1> QED BY <1>2, <1>5, <1>6

LEMMA AnswersTurn ==
    ASSUME ClientInvariant, TurnInvariant,
           HandleBindError \/ HandleSessionError \/ HandleDelimiter \/ HandleRoster \/ HandleAuthFields
    PROVE  TurnInvariant'
<1>1. /\ toClient # <<>> /\ Head(toClient).type = "answer" /\ server.layers = client.layers
      /\ client \in ClientType /\ client.layers \in Layers
  <2>1. \E context, kinds : Answers(context, kinds)
    BY Zenon DEF HandleBindError, HandleSessionError, HandleDelimiter, HandleRoster, HandleAuthFields
  <2> QED BY <2>1, AnsweredReads
<1> DEFINE b == [client EXCEPT !.told = "bindError"]
           s == [client EXCEPT !.told = "sessionError"]
           o == Online(client)
<1>2. \/ Replies(b, <<>>) \/ Replies(s, <<>>) \/ Replies(client, <<>>)
      \/ Replies(o, <<<<"presence", NoArg>>>>) \/ Replies(client, <<Request("auth")>>)
  BY Zenon DEF HandleBindError, HandleSessionError, HandleDelimiter, HandleRoster, HandleAuthFields, NoArg
<1>3. /\ b.state = client.state /\ b.layers = client.layers /\ b.handshake = client.handshake
      /\ s.state = client.state /\ s.layers = client.layers /\ s.handshake = client.handshake
      /\ o.state = client.state /\ o.layers = client.layers /\ o.handshake = client.handshake
  BY <1>1, OnlineFields DEF ClientType
<1> HIDE DEF b, s, o
<1>4. /\ Send(o, <<<<"presence", NoArg>>>>) \in Seq(Talking(o.layers))
      /\ Send(client, <<Request("auth")>>) \in Seq(Talking(client.layers))
  BY <1>1, <1>3, PresenceChats, RequestsChat DEF Contexts
<1>5. /\ Send(b, <<>>) \in Seq(Talking(b.layers)) /\ Send(s, <<>>) \in Seq(Talking(s.layers))
      /\ Send(client, <<>>) \in Seq(Talking(client.layers))
  BY SendsNothing
<1>6. CASE Replies(b, <<>>)
  BY <1>1, <1>3, <1>5, <1>6, TalksOn
<1>7. CASE Replies(s, <<>>)
  BY <1>1, <1>3, <1>5, <1>7, TalksOn
<1>8. CASE Replies(client, <<>>)
  BY <1>1, <1>5, <1>8, TalksOn
<1>9. CASE Replies(o, <<<<"presence", NoArg>>>>)
  BY <1>1, <1>3, <1>4, <1>9, TalksOn
<1>10. CASE Replies(client, <<Request("auth")>>)
  BY <1>1, <1>4, <1>10, TalksOn
<1> QED BY <1>2, <1>6, <1>7, <1>8, <1>9, <1>10

LEMMA HandleTurn ==
    ASSUME ClientInvariant, TurnInvariant, Handle
    PROVE  TurnInvariant'
<1>1. CASE HandleStreamError \/ HandleFailure \/ HandleAuthError
  BY <1>1, DropsTurn DEF HandleStreamError, HandleFailure, HandleAuthError
<1> QED BY <1>1, HandleStreamTurn, HandleFeaturesTurn, HandleProceedTurn, HandleHandshakeResultTurn,
        HandleLoginTurn, AnswersOnlineTurn, AnswersTurn DEF Handle

-----------------------------------------------------------------------------
(* The server.                                                             *)

LEMMA ServesSaying ==
    ASSUME NEW s, NEW x, Serves(s, <<x>>)
    PROVE  /\ toClient' = toClient \o <<Stanza(x[1], x[2], server.layers)>>
           /\ server' = s /\ toServer' = Tail(toServer)
           /\ UNCHANGED <<settings, client>>
<1>1. [i \in 1..Len(<<x>>) |-> Stanza(<<x>>[i][1], <<x>>[i][2], server.layers)]
        = <<Stanza(x[1], x[2], server.layers)>>
  OBVIOUS
<1> QED BY <1>1 DEF Serves

LEMMA MovesRead ==
    ASSUME ClientInvariant, TurnInvariant, NEW type, Reads(type)
    PROVE  /\ toServer # <<>> /\ server \in ServerType /\ server.layers \in Layers
           /\ Head(toServer).type = type /\ Head(toServer) \in ToServerType
           /\ type = "starttls" => settings.encryption
<1>1. /\ toServer # <<>> /\ server \in ServerType /\ server.layers \in Layers
      /\ Head(toServer).type = type /\ Head(toServer) \in ToServerType
  BY Serving DEF Sayable
<1> QED BY <1>1, ServerReads DEF Moves

LEMMA PromptsOne ==
    ASSUME ClientInvariant, TurnInvariant, toServer # <<>>, Head(toServer).type \in Moves,
           NEW type \in {"proceed", "compressed", "challenge", "success"},
           type = "proceed" => settings.encryption,
           NEW s, s.layers = Upgraded(server.layers, Stanza(type, NoArg, server.layers)),
           Serves(s, <<<<type, NoArg>>>>)
    PROVE  TurnInvariant'
<1> DEFINE m == Stanza(type, NoArg, server.layers)
           x == <<type, NoArg>>
<1>1. m \in ToClientType /\ m.type = type /\ m.layers = server.layers /\ type \in Prompts
  <2>1. server.layers \in Layers
    BY DEF ClientInvariant, ClientTypeOK, ServerType
  <2> QED BY <2>1, Fields, AnsweredTyped DEF Prompts
<1>2. x[1] = type /\ x[2] = NoArg /\ Serves(s, <<x>>)
  OBVIOUS
<1> HIDE DEF x
<1>3. /\ toClient' = toClient \o <<m>> /\ server' = s /\ toServer' = Tail(toServer)
      /\ UNCHANGED <<settings, client>>
  BY <1>2, ServesSaying
<1>4. s.layers = Upgraded(server.layers, m)
  OBVIOUS
<1> HIDE DEF m
<1>5. <<>> \in Seq(Dull(server.layers)) /\ <<>> \o <<m>> = <<m>>
  BY <1>1, EmptySeq, ConcatEmptySeq
<1>6. toClient' = toClient \o (<<>> \o <<m>>)
  BY <1>3, <1>5
<1> QED BY <1>1, <1>3, <1>4, <1>5, <1>6, Prompting

LEMMA RefusesMove ==
    ASSUME ClientInvariant, TurnInvariant, toServer # <<>>, Head(toServer).type \in Moves,
           NEW x, Stanza(x[1], x[2], server.layers) \in Dull(server.layers), Serves(server, <<x>>)
    PROVE  TurnInvariant'
<1> DEFINE m == Stanza(x[1], x[2], server.layers)
<1>1. m \in Dull(server.layers)
  OBVIOUS
<1>2. /\ toClient' = toClient \o <<m>> /\ server' = server /\ toServer' = Tail(toServer)
      /\ UNCHANGED <<settings, client>>
  BY ServesSaying
<1> HIDE DEF m
<1> QED BY <1>1, <1>2, PromptingNot

LEMMA FailureDull ==
    ASSUME ClientInvariant
    PROVE  /\ Stanza("failure", NoArg, server.layers) \in Dull(server.layers)
           /\ Stanza("error", NoArg, server.layers) \in Dull(server.layers)
           /\ \A v \in {"1.0", "2.0"} : Stanza("stream", v, server.layers) \in Dull(server.layers)
<1>1. server.layers \in Layers
  BY DEF ClientInvariant, ClientTypeOK, ServerType
<1> QED BY <1>1, Fields, AnsweredTyped DEF Dull

LEMMA TwoInARow ==
    ASSUME NEW a, NEW b
    PROVE  <<a>> \o <<b>> = <<a, b>>
<1> DEFINE S == {a, b}
           s == <<a>>
           t == <<a, b>>
<1>1. s \in Seq(S) /\ Len(s) = 1 /\ s[1] = a
  OBVIOUS
<1>2. t \in Seq(S) /\ Len(t) = 2 /\ t[1] = a /\ t[2] = b
  OBVIOUS
<1>3. b \in S
  OBVIOUS
<1> HIDE DEF S, s, t
<1> DEFINE u == Append(s, b)
<1>4. u = s \o <<b>>
  BY <1>1, <1>3, AppendIsConcat
<1>5. /\ u \in Seq(S)
      /\ u # <<>>
      /\ Len(u) = Len(s) + 1
      /\ \A i \in 1..Len(s) : u[i] = s[i]
      /\ u[Len(s) + 1] = b
  BY <1>1, <1>3, AppendProperties, Zenon
<1> HIDE DEF u
<1>6. Len(u) = 2 /\ u[1] = a /\ u[2] = b
  BY <1>1, <1>5
<1>7. \A i \in 1..Len(u) : i = 1 \/ i = 2
  BY <1>6
<1>8. \A i \in 1..Len(u) : u[i] = t[i]
  BY <1>2, <1>6, <1>7
<1>9. u = t
  BY <1>2, <1>5, <1>6, <1>8, SeqEqual
<1> QED BY <1>4, <1>9 DEF s, t

LEMMA ServeHeaderTurn ==
    ASSUME ClientInvariant, TurnInvariant, ServeHeader
    PROVE  TurnInvariant'
<1>1. /\ toServer # <<>> /\ server \in ServerType /\ server.layers \in Layers
      /\ Head(toServer).type \in Moves
  BY MovesRead DEF ServeHeader, Moves
<1>2. ServerFeatures(server) \in SUBSET StreamFeatures
  BY DEF ServerFeatures, StreamFeatures
<1>3. CASE Serves(server, <<<<"stream", "1.0">>, <<"features", ServerFeatures(server)>>>>)
  <2> DEFINE fs == ServerFeatures(server)
             h == Stanza("stream", "1.0", server.layers)
             m == Stanza("features", fs, server.layers)
  <2>1. toClient' = toClient \o <<h, m>> /\ server' = server /\ toServer' = Tail(toServer)
        /\ UNCHANGED <<settings, client>>
    <3> DEFINE types == <<<<"stream", "1.0">>, <<"features", fs>>>>
    <3>1. [i \in 1..Len(types) |-> Stanza(types[i][1], types[i][2], server.layers)] = <<h, m>>
      OBVIOUS
    <3> QED BY <1>3, <3>1 DEF Serves
  <2>2. m \in ToClientType /\ m.type = "features" /\ m.layers = server.layers
    BY <1>1, <1>2, Fields, AnsweredTyped
  <2>3. h \in Dull(server.layers)
    BY FailureDull
  <2> HIDE DEF h, m
  <2>4. <<h>> \in Seq(Dull(server.layers)) /\ <<h>> \o <<m>> = <<h, m>>
    BY <2>3, TwoInARow
  <2>5. toClient' = toClient \o (<<h>> \o <<m>>)
    BY <2>1, <2>4
  <2>6. server.layers = Upgraded(server.layers, m) /\ m.type \in Prompts
    BY <2>2, UpgradedNot DEF Prompts
  <2> QED BY <1>1, <2>1, <2>2, <2>4, <2>5, <2>6, Prompting
<1>4. CASE Serves(server, <<<<"stream", "2.0">>>>)
  BY <1>1, <1>4, FailureDull, RefusesMove
<1> QED BY <1>3, <1>4 DEF ServeHeader

LEMMA ServeLayersTurn ==
    ASSUME ClientInvariant, TurnInvariant, ServeStartTls \/ ServeCompress
    PROVE  TurnInvariant'
<1>1. /\ toServer # <<>> /\ server \in ServerType /\ server.layers \in Layers
      /\ Head(toServer).type \in Moves
      /\ ServeStartTls => settings.encryption
  <2>1. /\ ServeStartTls => Reads("starttls")
        /\ ServeCompress => Reads("compress")
    BY Zenon DEF ServeStartTls, ServeCompress
  <2>2. \A type : Reads(type) => /\ toServer # <<>> /\ server \in ServerType
                                 /\ server.layers \in Layers /\ Head(toServer).type = type
                                 /\ type = "starttls" => settings.encryption
    BY MovesRead
  <2>3. Reads("starttls") => settings.encryption
    BY <2>2
  <2>4. Reads("starttls") \/ Reads("compress")
    BY <2>1, Zenon
  <2>5. /\ toServer # <<>> /\ server \in ServerType /\ server.layers \in Layers
        /\ Head(toServer).type \in Moves
    BY <2>2, <2>4 DEF Moves
  <2> QED BY <2>1, <2>3, <2>5, Zenon
<1> DEFINE t == [server EXCEPT !.layers.tls = TRUE]
           z == [server EXCEPT !.layers.zlib = TRUE]
<1>2. /\ t.layers = [server.layers EXCEPT !.tls = TRUE]
      /\ z.layers = [server.layers EXCEPT !.zlib = TRUE]
  BY <1>1 DEF ServerType, Layers
<1>3. \/ ServeStartTls /\ Serves(t, <<<<"proceed", NoArg>>>>)
      \/ Serves(z, <<<<"compressed", NoArg>>>>)
      \/ Serves(server, <<<<"failure", NoArg>>>>)
  BY Zenon DEF ServeStartTls, ServeCompress, NoArg
<1> HIDE DEF t, z
<1>4. /\ t.layers = Upgraded(server.layers, Stanza("proceed", NoArg, server.layers))
      /\ z.layers = Upgraded(server.layers, Stanza("compressed", NoArg, server.layers))
  BY <1>2, Fields DEF Upgraded
<1>5. CASE ServeStartTls /\ Serves(t, <<<<"proceed", NoArg>>>>)
  BY <1>1, <1>4, <1>5, PromptsOne
<1>6. CASE Serves(z, <<<<"compressed", NoArg>>>>)
  BY <1>1, <1>4, <1>6, PromptsOne
<1>7. CASE Serves(server, <<<<"failure", NoArg>>>>)
  BY <1>1, <1>7, FailureDull, RefusesMove
<1> QED BY <1>3, <1>5, <1>6, <1>7

LEMMA ServeLoginTurn ==
    ASSUME ClientInvariant, TurnInvariant, ServeAuth \/ ServeResponse
    PROVE  TurnInvariant'
<1>1. /\ toServer # <<>> /\ server \in ServerType /\ Head(toServer).type \in Moves
  <2>1. Reads("auth") \/ Reads("response")
    BY Zenon DEF ServeAuth, ServeResponse
  <2>2. \A type : Reads(type) => /\ toServer # <<>> /\ server \in ServerType
                                 /\ Head(toServer).type = type
    BY MovesRead
  <2> QED BY <2>1, <2>2 DEF Moves
<1> DEFINE s(login) == [server EXCEPT !.login = login]
<1>2. \/ Serves(s("challenged"), <<<<"challenge", NoArg>>>>)
      \/ Serves(s("answered"), <<<<"challenge", NoArg>>>>)
      \/ Serves(s("done"), <<<<"success", NoArg>>>>)
      \/ Serves(server, <<<<"failure", NoArg>>>>)
  BY Zenon DEF ServeAuth, ServeResponse, NoArg
<1>3. \A login : s(login).layers = server.layers
  BY <1>1 DEF ServerType
<1> HIDE DEF s
<1>4. \A type \in {"challenge", "success"} :
          server.layers = Upgraded(server.layers, Stanza(type, NoArg, server.layers))
  BY Fields DEF Upgraded
<1>5. CASE Serves(server, <<<<"failure", NoArg>>>>)
  BY <1>1, <1>5, FailureDull, RefusesMove
<1>6. CASE \/ Serves(s("challenged"), <<<<"challenge", NoArg>>>>)
           \/ Serves(s("answered"), <<<<"challenge", NoArg>>>>)
           \/ Serves(s("done"), <<<<"success", NoArg>>>>)
  BY <1>1, <1>3, <1>4, <1>6, PromptsOne
<1> QED BY <1>2, <1>5, <1>6

LEMMA ServeTalkTurn ==
    ASSUME ClientInvariant, TurnInvariant, ServeRequest \/ ServePresence
    PROVE  TurnInvariant'
<1>1. /\ toServer # <<>> /\ server \in ServerType /\ server.layers \in Layers
      /\ Head(toServer).type \in Chatter /\ Head(toServer) \in ToServerType
      /\ ServeRequest => Head(toServer).type = "iq"
  BY MovesRead DEF ServeRequest, ServePresence, Chatter
<1>2. CASE ServeRequest
  <2>1. Asked \in Contexts
    BY <1>1, <1>2, RequestRead DEF Asked
  <2>2. PICK outcome \in {"result", "error"} :
            \E s \in {server, Granted(Asked)} : Serves(s, <<<<"answer", <<Asked, outcome>>>>>>)
    BY <1>2 DEF ServeRequest
  <2>3. PICK s \in {server, Granted(Asked)} : Serves(s, <<<<"answer", <<Asked, outcome>>>>>>)
    BY <2>2
  <2>4. s.layers = server.layers
    BY <1>1 DEF Granted, ServerType
  <2> DEFINE arg == <<Asked, outcome>>
             x == <<"answer", arg>>
             m == Stanza("answer", arg, server.layers)
  <2>5. m \in Unprompting(server.layers)
    BY <1>1, <2>1, Fields, AnsweredTyped DEF Unprompting, Prompts
  <2>6. x[1] = "answer" /\ x[2] = arg /\ Serves(s, <<x>>)
    BY <2>3
  <2> HIDE DEF x, arg
  <2>7. /\ toClient' = toClient \o <<m>> /\ server' = s /\ toServer' = Tail(toServer)
        /\ UNCHANGED <<settings, client>>
    BY <2>6, ServesSaying
  <2> HIDE DEF m
  <2>8. <<m>> \in Seq(Unprompting(server.layers))
    BY <2>5
  <2> QED BY <1>1, <2>4, <2>7, <2>8, AnsweringOn
<1>3. CASE ServePresence
  <2>1. [i \in 1..Len(<<>>) |-> Stanza(<<>>[i][1], <<>>[i][2], server.layers)] = <<>>
    OBVIOUS
  <2>2. /\ toClient' = toClient \o <<>> /\ server' = server /\ toServer' = Tail(toServer)
        /\ UNCHANGED <<settings, client>>
    BY <1>3, <2>1 DEF ServePresence, Serves
  <2>3. <<>> \in Seq(Unprompting(server.layers))
    BY EmptySeq
  <2> QED BY <1>1, <2>2, <2>3, AnsweringOn
<1> QED BY <1>2, <1>3

LEMMA ServerEndsTurn ==
    ASSUME ClientInvariant, TurnInvariant, ServerEnds
    PROVE  TurnInvariant'
<1> DEFINE e == Stanza("error", NoArg, server.layers)
           a == Append(toClient, e)
<1>1. /\ toClient' = a /\ client.state = "connected"
      /\ UNCHANGED <<settings, client, server, toServer>>
  BY Zenon DEF ServerEnds, NoArg
<1>2. e \in Dull(server.layers) /\ e \in Unprompting(server.layers)
  BY FailureDull, DullUnprompting
<1> HIDE DEF e
<1>3. \A S : toClient \in Seq(S) /\ e \in S => a \in Seq(S)
  BY AppendProperties
<1>4. toClient \in Seq(ToClientType) /\ e \in ToClientType
  BY <1>2 DEF Dull, ClientInvariant, ClientTypeOK
<1>5. /\ Len(toClient) \in Nat /\ Len(a) = Len(toClient) + 1
      /\ \A i \in 1..Len(toClient) : a[i] = toClient[i]
      /\ a[Len(toClient) + 1] = e
  BY <1>4, AppendProperties
<1> HIDE DEF a
<1>6. CASE ServersTurn
  <2>1. ServersTurn'
    BY <1>1, <1>2, <1>3, <1>6 DEF ServersTurn, InStep
  <2> QED BY <1>1, <2>1 DEF TurnInvariant
<1>7. CASE HandshakesTurn
  <2>1. HandshakesTurn'
    BY <1>1, <1>2, <1>3, <1>7 DEF HandshakesTurn, InStep
  <2> QED BY <1>1, <2>1 DEF TurnInvariant
<1>8. CASE NobodysTurn
  <2>1. NobodysTurn'
    BY <1>1, <1>2, <1>3, <1>8 DEF NobodysTurn, InStep
  <2> QED BY <1>1, <2>1 DEF TurnInvariant
<1>9. CASE ClientsTurn
  <2>1. PICK k \in 1..Len(toClient) : PromptedBy(k)
    BY <1>9 DEF ClientsTurn
  <2>2. \A i \in 1..k : a[i] = toClient[i]
    BY <1>5
  <2>3. \A i \in 1..(k - 1) : a[i] \in Dull(client.layers)
    BY <2>1, <2>2 DEF PromptedBy
  <2>4. a[k] = toClient[k]
    BY <1>5
  <2>5. \A i \in (k + 1)..Len(a) : a[i] \in Dull(server.layers)
    <3>1. \A i \in (k + 1)..Len(a) : i \in (k + 1)..Len(toClient) \/ i = Len(toClient) + 1
      BY <1>5
    <3> QED BY <1>2, <1>5, <2>1, <3>1 DEF PromptedBy
  <2>6. PromptedBy(k)'
    BY <1>1, <2>1, <2>3, <2>4, <2>5 DEF PromptedBy
  <2>7. k \in 1..Len(a)
    BY <1>5
  <2>8. ClientsTurn'
    BY <1>1, <1>9, <2>6, <2>7 DEF ClientsTurn
  <2> QED BY <1>1, <2>8 DEF TurnInvariant
<1> QED BY <1>6, <1>7, <1>8, <1>9 DEF TurnInvariant

LEMMA ConnectTurn ==
    ASSUME ClientInvariant, TurnInvariant, Connect
    PROVE  TurnInvariant'
<1>1. /\ client \in ClientType /\ client.state = "disconnected"
      /\ toServer = <<>> /\ toClient = <<>> /\ ~client.handshake
      /\ InStep /\ client.layers = Plain
      /\ UNCHANGED <<settings, server, toClient>>
  BY DEF Connect, ClientInvariant, ClientTypeOK, Cut, TurnInvariant
<1>2. \A S : <<>> \in Seq(S)
  BY EmptySeq
<1>3. CASE /\ client' = [client EXCEPT !.state = "connected", !.told = "nothing", !.online = 0]
           /\ toServer' = Send(client', <<Header>>)
  <2> DEFINE m == Stanza("header", NoArg, client.layers)
  <2>1. /\ client'.layers = client.layers /\ client'.handshake = client.handshake
        /\ client'.state = "connected"
    BY <1>1, <1>3 DEF ClientType
  <2>2. m \in ToServerType /\ m.type = "header" /\ m.layers = client.layers
    <3>1. client.layers \in Layers
      BY <1>1 DEF ClientType
    <3> QED BY <3>1, Fields, SaidTyped
  <2>3. toServer' = <<m>>
    <3>1. Header[1] = "header" /\ Header[2] = NoArg
      BY DEF Header, NoArg
    <3>2. PICK c : c = client'
      OBVIOUS
    <3>3. Send(c, <<Header>>) = <<Stanza(Header[1], Header[2], c.layers)>>
      BY <2>1, <3>2, SaysIt
    <3> QED BY <1>3, <2>1, <3>1, <3>2, <3>3
  <2> HIDE DEF m
  <2>4. ServersTurn'
    BY <1>1, <1>2, <2>1, <2>2, <2>3 DEF ServersTurn, InStep, Moves
  <2> QED BY <2>1, <2>4 DEF TurnInvariant
<1>4. CASE /\ client' = [Disconnected(FALSE) EXCEPT !.online = 0]
           /\ toServer' = <<>>
  <2>1. client'.layers = Plain /\ client'.handshake = FALSE
    BY <1>1, <1>4 DEF Disconnected, ClientType
  <2>2. NobodysTurn' /\ InStep'
    BY <1>1, <1>2, <1>4, <2>1 DEF NobodysTurn, InStep
  <2> QED BY <2>1, <2>2 DEF TurnInvariant
<1> QED BY <1>3, <1>4 DEF Connect

LEMMA ResetTurn ==
    ASSUME ClientInvariant, TurnInvariant, ResetAfterListeners
    PROVE  TurnInvariant'
<1>1. /\ client'.layers = client.layers /\ client'.handshake = client.handshake
      /\ client'.state = client.state
      /\ UNCHANGED <<settings, server, toServer, toClient>>
  BY DEF ResetAfterListeners, ClientInvariant, ClientTypeOK, ClientType
<1> QED BY <1>1 DEF TurnInvariant, ServersTurn, ClientsTurn, HandshakesTurn, NobodysTurn, InStep, PromptedBy

LEMMA TurnInitially ==
    ASSUME ClientInit
    PROVE  TurnInvariant
<1>1. \A S : <<>> \in Seq(S)
  BY EmptySeq
<1> QED BY <1>1 DEF ClientInit, Fresh, FreshServer, TurnInvariant, NobodysTurn, InStep

LEMMA TurnStep == ClientInvariant /\ TurnInvariant /\ [ClientNext]_clientVars => TurnInvariant'
<1> SUFFICES ASSUME ClientInvariant, TurnInvariant, [ClientNext]_clientVars PROVE TurnInvariant'
  OBVIOUS
<1>1. CASE LoseConnection \/ Disconnect
  BY <1>1, DropsTurn DEF LoseConnection, Disconnect
<1>2. CASE UNCHANGED clientVars
  BY <1>2 DEF clientVars, TurnInvariant, ServersTurn, ClientsTurn, HandshakesTurn, NobodysTurn,
     InStep, PromptedBy
<1>3. CASE Serve
  BY <1>3, ServeHeaderTurn, ServeLayersTurn, ServeLoginTurn, ServeTalkTurn DEF Serve
<1> QED BY <1>1, <1>2, <1>3, ConnectTurn, ResetTurn, HandleTurn, ServerEndsTurn DEF ClientNext

\* Each end reads every stanza under the layers it was written under, although
\* each switches at a moment of its own and the server may end the stream at any
\* moment (client.cpp:228-237, 259-264): with any settings and any server.
THEOREM LayersAlwaysAgree == ClientSpec => []LayersAgree
<1>1. ClientInvariant /\ TurnInvariant => LayersAgree
  BY ClientReads, ServerReads DEF LayersAgree
<1> QED BY <1>1, ClientInitially, ClientStep, TurnInitially, TurnStep, PTL DEF ClientSpec

=============================================================================
