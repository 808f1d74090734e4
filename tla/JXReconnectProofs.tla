------------------------- MODULE JXReconnectProofs -------------------------
(***************************************************************************)
(* Proofs about JXReconnect, for any number of threads, losses, refusals   *)
(* and calls, with and without time limits and answers.                    *)
(***************************************************************************)
EXTENDS JXReconnect, TLAPS

LEMMA TypeInit == Init => TypeOK
<1> SUFFICES ASSUME Init PROVE TypeOK
  OBVIOUS
<1>1. place \in [Threads -> Places]
  BY DEF Init, Places
<1>2. 0 \in 0..MaxLosses /\ 0 \in 0..MaxRefusals /\ 0 \in 0..MaxCalls
  BY BoundsAssumption
<1> QED BY <1>1, <1>2 DEF Init, TypeOK

LEMMA TypeNext == TypeOK /\ [Next]_vars => TypeOK'
<1> SUFFICES ASSUME TypeOK, [Next]_vars PROVE TypeOK'
  OBVIOUS
<1> USE BoundsAssumption DEF TypeOK, Places, Mending, Rejoining, Goes, application
<1>1. ASSUME NEW t \in Threads, Act(t) PROVE TypeOK'
  <2>1. CASE Connect(t) \/ Connected(t) \/ OnConnect(t) \/ RoomAdmits(t)
    BY <2>1, ZenonT(30) DEF Connect, Connected, OnConnect, RoomAdmits
  <2>2. CASE SyncReturns(t) \/ SyncTimesOut(t) \/ TransientConnects(t)
    BY <2>2 DEF SyncReturns, SyncTimesOut, TransientConnects
  <2>3. CASE JoinSessionChat(t) \/ JoinReturns(t) \/ JoinTimesOut(t)
    BY <2>3 DEF JoinSessionChat, JoinReturns, JoinTimesOut
  <2>4. CASE Disconnect(t)
    BY <2>4 DEF Disconnect, Ends, Closes
  <2>5. CASE DisconnectOpening(t)
    BY <2>5 DEF DisconnectOpening, ClosesOpening
  <2>6. CASE FetchEnds(t)
    BY <2>6 DEF FetchEnds
  <2> QED BY <1>1, <2>1, <2>2, <2>3, <2>4, <2>5, <2>6 DEF Act
<1>2. ASSUME NEW t \in Threads, Enter(t) PROVE TypeOK'
  <2>1. CASE SyncConnectClient(t)
    <3>1. PICK b \in Threads : place' = [place EXCEPT ![t] = "waiting", ![b] = "starting"]
      BY <2>1 DEF SyncConnectClient
    <3>2. place' \in [Threads -> Places]
      BY <3>1
    <3> QED BY <2>1, <3>2 DEF SyncConnectClient
  <2>2. CASE SendTransient(t)
    BY <2>2 DEF SendTransient
  <2> QED BY <1>2, <2>1, <2>2 DEF Enter
<1>3. ASSUME NEW t \in Threads, Fail(t) PROVE TypeOK'
  <2>1. CASE Refused(t)
    BY <2>1 DEF Refused, Refuse
  <2>2. CASE OnDisconnect(t)
    <3>1. place' \in [Threads -> Places] /\ losses' \in 0..MaxLosses
      BY <2>2 DEF OnDisconnect, Lose
    <3> QED BY <2>2, <3>1 DEF OnDisconnect, Closes
  <2>3. CASE RoomRefuses(t)
    <3>1. refusals' \in 0..MaxRefusals
      BY <2>3 DEF RoomRefuses, Refuse
    <3> QED BY <2>3, <3>1 DEF RoomRefuses
  <2>4. CASE TransientFails(t)
    BY <2>4 DEF TransientFails, Refuse
  <2>5. CASE SendFails(t)
    <3>1. place' \in [Threads -> Places] /\ losses' \in 0..MaxLosses
      BY <2>5 DEF SendFails, Lose, Ends
    <3> QED BY <2>5, <3>1 DEF SendFails
  <2> QED BY <1>3, <2>1, <2>2, <2>3, <2>4, <2>5 DEF Fail
<1>4. ASSUME NEW t \in Threads, Ask(t) PROVE TypeOK'
  <2>1. calls' \in 0..MaxCalls
    BY <1>4 DEF Ask, Leave, LeaveOpening, Fetch, Call
  <2>2. place' \in [Threads -> Places] /\ conn' \in {"down", "opening", "connected", "online", "dead", "broken"}
    BY <1>4 DEF Ask, Leave, LeaveOpening, Fetch, Ends, Closes, ClosesOpening
  <2> QED BY <1>4, <2>1, <2>2 DEF Ask, Leave, LeaveOpening, Fetch, Closes
<1>5. CASE UNCHANGED vars
  BY <1>5 DEF vars
<1> QED BY <1>1, <1>2, <1>3, <1>4, <1>5 DEF Next

\* Every thread stands at a place of the code, and the locks have one of their
\* three conditions, in every step of every thread.
THEOREM ReconnectTypeCorrect == Spec => []TypeOK
BY TypeInit, TypeNext, PTL DEF Spec

-----------------------------------------------------------------------------
LEMMA OneConnectionNext == TypeOK /\ OneConnection /\ [Next]_vars => OneConnection'
<1> SUFFICES ASSUME TypeOK, OneConnection, [Next]_vars PROVE OneConnection'
  OBVIOUS
<1> USE DEF TypeOK, OneConnection, Receiving, Goes
<1>1. ASSUME NEW t \in Threads, Act(t) PROVE OneConnection'
  <2>1. CASE Connect(t)
    BY <2>1 DEF Connect
  <2>2. CASE Connected(t)
    BY <2>2 DEF Connected
  <2>3. CASE OnConnect(t) \/ RoomAdmits(t)
    BY <2>3 DEF OnConnect, RoomAdmits
  <2>4. CASE SyncReturns(t) \/ SyncTimesOut(t) \/ TransientConnects(t)
    BY <2>4 DEF SyncReturns, SyncTimesOut, TransientConnects
  <2>5. CASE JoinSessionChat(t) \/ JoinReturns(t) \/ JoinTimesOut(t)
    BY <2>5 DEF JoinSessionChat, JoinReturns, JoinTimesOut
  <2>6. CASE Disconnect(t)
    BY <2>6 DEF Disconnect, Ends, Closes
  <2>7. CASE DisconnectOpening(t)
    BY <2>7 DEF DisconnectOpening, ClosesOpening
  <2>8. CASE FetchEnds(t)
    BY <2>8 DEF FetchEnds
  <2> QED BY <1>1, <2>1, <2>2, <2>3, <2>4, <2>5, <2>6, <2>7, <2>8 DEF Act
<1>2. ASSUME NEW t \in Threads, Enter(t) PROVE OneConnection'
  BY <1>2 DEF Enter, SyncConnectClient, SendTransient
<1>3. ASSUME NEW t \in Threads, Fail(t) PROVE OneConnection'
  <2>1. CASE SendFails(t)
    BY <2>1 DEF SendFails, Ends
  <2>2. CASE Refused(t) \/ OnDisconnect(t)
    BY <2>2 DEF Refused, OnDisconnect, Closes
  <2>3. CASE RoomRefuses(t) \/ TransientFails(t)
    BY <2>3 DEF RoomRefuses, TransientFails
  <2> QED BY <1>3, <2>1, <2>2, <2>3 DEF Fail
<1>4. ASSUME NEW t \in Threads, Ask(t) PROVE OneConnection'
  <2>1. CASE Leave(t)
    BY <2>1 DEF Leave, Ends, Closes
  <2>2. CASE LeaveOpening(t)
    BY <2>2 DEF LeaveOpening, ClosesOpening
  <2>3. CASE Fetch(t)
    BY <2>3 DEF Fetch
  <2> QED BY <1>4, <2>1, <2>2, <2>3 DEF Ask
<1>5. CASE UNCHANGED vars
  BY <1>5 DEF vars
<1> QED BY <1>1, <1>2, <1>3, <1>4, <1>5 DEF Next

LEMMA MendedNext == TypeOK /\ ReconnectInvariant /\ [Next]_vars => Mended'
<1> SUFFICES ASSUME TypeOK, OneConnection, Mended, [Next]_vars PROVE Mended'
  BY DEF ReconnectInvariant
<1> USE DEF TypeOK, Mended, Somebody, Mending, Rejoining, Goes, application
<1>1. ASSUME NEW t \in Threads, Act(t) PROVE Mended'
  <2>1. CASE Connect(t)
    BY <2>1 DEF Connect
  <2>2. CASE Connected(t)
    BY <2>2 DEF Connected, OneConnection
  <2>3. CASE OnConnect(t)
    BY <2>3 DEF OnConnect
  <2>4. CASE RoomAdmits(t)
    BY <2>4 DEF RoomAdmits, OneConnection
  <2>5. CASE SyncReturns(t)
    BY <2>5 DEF SyncReturns
  <2>6. CASE SyncTimesOut(t)
    BY <2>6 DEF SyncTimesOut
  <2>7. CASE TransientConnects(t)
    BY <2>7 DEF TransientConnects
  <2>8. CASE JoinSessionChat(t)
    BY <2>8 DEF JoinSessionChat
  <2>9. CASE JoinReturns(t)
    BY <2>9 DEF JoinReturns, OneConnection
  <2>10. CASE JoinTimesOut(t)
    BY <2>10 DEF JoinTimesOut
  <2>11. CASE Disconnect(t)
    BY <2>11 DEF Disconnect, Ends, Closes
  <2>12. CASE DisconnectOpening(t)
    BY <2>12 DEF DisconnectOpening, ClosesOpening, OneConnection
  <2>13. CASE FetchEnds(t)
    BY <2>13 DEF FetchEnds
  <2> QED BY <1>1, <2>1, <2>2, <2>3, <2>4, <2>5, <2>6, <2>7, <2>8, <2>9, <2>10, <2>11, <2>12, <2>13 DEF Act
<1>2. ASSUME NEW t \in Threads, Enter(t) PROVE Mended'
  <2>1. CASE SyncConnectClient(t)
    BY <2>1 DEF SyncConnectClient
  <2>2. CASE SendTransient(t)
    BY <2>2 DEF SendTransient
  <2> QED BY <1>2, <2>1, <2>2 DEF Enter
<1>3. ASSUME NEW t \in Threads, Fail(t) PROVE Mended'
  <2>1. CASE Refused(t)
    BY <2>1 DEF Refused, OneConnection
  <2>2. CASE OnDisconnect(t)
    BY <2>2 DEF OnDisconnect, Closes
  <2>3. CASE RoomRefuses(t)
    BY <2>3 DEF RoomRefuses
  <2>4. CASE TransientFails(t)
    BY <2>4 DEF TransientFails
  <2>5. CASE SendFails(t)
    BY <2>5 DEF SendFails, Ends
  <2> QED BY <1>3, <2>1, <2>2, <2>3, <2>4, <2>5 DEF Fail
<1>4. ASSUME NEW t \in Threads, Ask(t) PROVE Mended'
  <2>1. CASE Leave(t) \/ LeaveOpening(t)
    BY <2>1 DEF Leave, LeaveOpening
  <2>2. CASE Fetch(t)
    BY <2>2 DEF Fetch
  <2> QED BY <1>4, <2>1, <2>2 DEF Ask
<1>5. CASE UNCHANGED vars
  BY <1>5 DEF vars
<1> QED BY <1>1, <1>2, <1>3, <1>4, <1>5 DEF Next

\* The connection has one thread, and for whatever is missing somebody is on
\* the way to bring it back, however many threads reconnect at once.
THEOREM ReconnectInvariantHolds == Spec => []ReconnectInvariant
<1>1. Init => ReconnectInvariant
  BY ThreadsAssumption DEF Init, ReconnectInvariant, OneConnection, Mended, Receiving, Somebody
<1>2. TypeOK /\ ReconnectInvariant /\ [Next]_vars => ReconnectInvariant'
  BY OneConnectionNext, MendedNext DEF ReconnectInvariant
<1> QED BY <1>1, <1>2, ReconnectTypeCorrect, PTL DEF Spec

\* When no thread is in reconnect any more, the junction is in the room, by a
\* connection that has a thread to learn of its loss (JXXMPPJunction.mm 194-206).
THEOREM NobodyGivesUpHolds == Spec => []NobodyGivesUp
<1>1. ReconnectInvariant => NobodyGivesUp
  BY DEF ReconnectInvariant, OneConnection, Mended, Somebody, NobodyGivesUp, Quiet, Reconnecting, Back
<1> QED BY <1>1, ReconnectInvariantHolds, PTL

=============================================================================
