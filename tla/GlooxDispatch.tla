--------------------------- MODULE GlooxDispatch ---------------------------
(***************************************************************************)
(* How ClientBase tells its handlers: a list of nodes is walked by the     *)
(* receiving thread while the handlers it calls, and other threads,        *)
(* register and remove handlers in it.  Only the requests have a lock, and *)
(* it is not held while a handler runs.                                    *)
(*                                                                         *)
(* The four ways of walking differ in when they step:                      *)
(*   copied   over a copy of the list (ForEach without an argument:        *)
(*            onConnect);                                                  *)
(*   live     after the call (ForEach with arguments, which makes the copy *)
(*            and walks the original; messages, presences, subscriptions); *)
(*   jid      before the call (presences by JID: the rooms);               *)
(*   iq       one node, erased after the call (answers).                   *)
(* A step from, or to, a node that has been erased is undefined: nothing   *)
(* is said of what happens after one.                                      *)
(***************************************************************************)
EXTENDS Naturals, Sequences

CONSTANTS
    Handlers,
    MaxNodes,       \* bound on the registrations
    MaxWalks        \* bound on the stanzas and events

VARIABLES
    kind,           \* the list this is about, fixed
    list,           \* its nodes, in the order in which they were made
    handler,        \* whose the nodes made so far are, in or out of the list
    walk,           \* the iterator of the receiving thread
    walks,          \* walks begun so far
    erased,         \* who erased a node: erased[n]
    called,         \* history: the nodes called in this walk
    began,          \* history: the nodes there when it began
    undefined       \* who erased the node that an iterator stood on, or "nobody"

dispatchVars == <<kind, list, handler, walk, walks, erased, called, began, undefined>>

Kinds == {"copied", "live", "jid", "iq"}
End == 0
Causes == {"nobody", "itself", "another", "thread"}

ASSUME DispatchAssumption == MaxNodes \in Nat /\ MaxWalks \in Nat

-----------------------------------------------------------------------------
Nodes == DOMAIN handler

Foremost(ns) == {n \in ns : \A k \in ns : n <= k}

\* The first of the nodes, or the end of the list.
FirstOf(ns) == IF Foremost(ns) = {} THEN End ELSE CHOOSE n \in Foremost(ns) : TRUE

NodeAfter(n) == FirstOf({k \in list : k > n})

Idle == [phase |-> "idle", it |-> End, copy |-> {}, in |-> End]

DispatchInit ==
    /\ kind \in Kinds
    /\ list = {}
    /\ handler = <<>>
    /\ walk = Idle
    /\ walks = 0
    /\ erased = [n \in 1..MaxNodes |-> "nobody"]
    /\ called = <<>>
    /\ began = {}
    /\ undefined = "nobody"

Defined == undefined = "nobody"

\* register...Handler, registerMessageSession, registerConnectionListener; and
\* send(iq, handler), which registers a handler for one answer.
Register(h) ==
    /\ Defined
    /\ Len(handler) < MaxNodes
    /\ handler' = Append(handler, h)
    /\ list' = list \cup {Len(handler')}
    /\ UNCHANGED <<kind, walk, walks, erased, called, began, undefined>>

\* remove...Handler, removeIDHandler, removeConnectionListener: every node of
\* the handler.
Mine(h) == {n \in list : handler[n] = h}

Removes(h, cause) ==
    /\ Defined
    /\ Mine(h) # {}
    /\ list' = list \ Mine(h)
    /\ erased' = [n \in 1..MaxNodes |-> IF n \in Mine(h) THEN cause[n] ELSE erased[n]]
    /\ UNCHANGED <<kind, handler, walk, walks, called, began, undefined>>

\* From the handler that is being called, or from another thread.
RemoveInCall(h) ==
    /\ walk.phase = "call"
    /\ Removes(h, [n \in Mine(h) |-> IF n = walk.in THEN "itself" ELSE "another"])

RemoveByThread(h) == Removes(h, [n \in Mine(h) |-> "thread"])

-----------------------------------------------------------------------------
(* The walk.                                                               *)

\* Mutant: the rooms are walked as the other lists are.
StepsFirst_Never(k) == FALSE

\* Whether the iterator steps before the call.
StepsFirst(k) == k = "jid"

Walked(w) == walk' = w /\ UNCHANGED <<kind, handler, walks, began>>

\* An iterator on an erased node is used.
Undefined(n) ==
    /\ undefined' = erased[n]
    /\ UNCHANGED <<kind, list, handler, walk, walks, erased, called, began>>

\* A stanza or an event.  An answer is for one of the requests.
BeginWalk ==
    /\ Defined
    /\ walk = Idle
    /\ walks < MaxWalks
    /\ walks' = walks + 1
    /\ \E n \in IF kind = "iq" THEN list ELSE {FirstOf(list)} :
          walk' = [phase |-> "loop", it |-> n, copy |-> IF kind = "copied" THEN list ELSE {}, in |-> End]
    /\ called' = <<>>
    /\ began' = list
    /\ UNCHANGED <<kind, list, handler, erased, undefined>>

EndWalk ==
    /\ Defined
    /\ walk.phase = "loop"
    /\ IF kind = "copied" THEN walk.copy = {} ELSE walk.it = End
    /\ Walked(Idle)
    /\ UNCHANGED <<list, erased, called, undefined>>

Calls(n, w) ==
    /\ Walked([w EXCEPT !.phase = "call", !.in = n])
    /\ called' = Append(called, n)
    /\ UNCHANGED <<list, erased, undefined>>

CallCopied ==
    /\ Defined
    /\ kind = "copied" /\ walk.phase = "loop"
    /\ \E n \in Foremost(walk.copy) : Calls(n, [walk EXCEPT !.copy = @ \ {n}])

CallNode ==
    /\ Defined
    /\ kind # "copied" /\ walk.phase = "loop" /\ walk.it # End
    /\ IF walk.it \notin list THEN Undefined(walk.it)
       ELSE Calls(walk.it, IF StepsFirst(kind) THEN [walk EXCEPT !.it = NodeAfter(walk.it)] ELSE walk)

Returns(w, l) ==
    /\ Walked([w EXCEPT !.in = End])
    /\ list' = l
    /\ UNCHANGED <<erased, called, undefined>>

\* The handler returns: it++, or erase(it), or nothing more to do.
ReturnStepped ==
    /\ Defined
    /\ walk.phase = "call" /\ (kind = "copied" \/ StepsFirst(kind))
    /\ Returns([walk EXCEPT !.phase = "loop"], list)

ReturnLive ==
    /\ Defined
    /\ walk.phase = "call" /\ kind \in {"live", "jid"} /\ ~StepsFirst(kind)
    /\ IF walk.it \notin list THEN Undefined(walk.it)
       ELSE Returns([walk EXCEPT !.phase = "loop", !.it = NodeAfter(walk.it)], list)

\* Mutant: who has been told the answer goes on waiting for it.
ReturnIq_Keeps ==
    /\ Defined
    /\ walk.phase = "call" /\ kind = "iq"
    /\ IF walk.it \notin list THEN Undefined(walk.it) ELSE Returns(Idle, list)

ReturnIq ==
    /\ Defined
    /\ walk.phase = "call" /\ kind = "iq"
    /\ IF walk.it \notin list THEN Undefined(walk.it)
       ELSE Returns(Idle, list \ {walk.it})

DispatchNext ==
    \/ \E h \in Handlers : Register(h) \/ RemoveInCall(h) \/ RemoveByThread(h)
    \/ BeginWalk \/ EndWalk \/ CallCopied \/ CallNode
    \/ ReturnStepped \/ ReturnLive \/ ReturnIq

DispatchSpec == DispatchInit /\ [][DispatchNext]_dispatchVars

-----------------------------------------------------------------------------
(* Properties.                                                             *)

\* Every variable holds values of its type.
DispatchTypeOK ==
    /\ kind \in Kinds
    /\ handler \in Seq(Handlers) /\ Len(handler) <= MaxNodes
    /\ list \subseteq Nodes
    /\ walk \in [phase : {"idle", "loop", "call"}, it : Nodes \cup {End},
                 copy : SUBSET Nodes, in : Nodes \cup {End}]
    /\ walks \in 0..MaxWalks
    /\ erased \in [1..MaxNodes -> Causes]
    /\ called \in Seq(Nodes)
    /\ began \subseteq Nodes
    /\ undefined \in Causes

\* What may be removed when: nothing disturbs the walk over a copy
\* (util.h:87-94); a room may remove itself from inside its presence handler,
\* and no other room (clientbase.cpp:1330-1339); a plain handler, a listener
\* told of a disconnection or a handler of an answer may remove any but itself;
\* another thread may remove nothing while the receiving thread walks.
UndefinedBy ==
    /\ kind = "copied" => Defined
    /\ kind = "jid" => undefined # "itself"
    /\ kind \in {"live", "iq"} => undefined # "another"

\* Whoever was registered when a walk began and is still registered when it
\* ends has been told, once, and in the order of registration, whatever the
\* others did meanwhile.
EveryoneTold ==
    kind # "iq" /\ Defined =>
        /\ \A i, j \in DOMAIN called : i < j => called[i] < called[j]
        /\ walk = Idle => began \cap list \subseteq {called[i] : i \in DOMAIN called}

\* A request is answered once: who has been told the answer does not wait for
\* another, though the same answer may come again.
AnsweredOnce ==
    kind = "iq" /\ Defined /\ walk = Idle => list \cap {called[i] : i \in DOMAIN called} = {}

\* Who is registered is told: of each event once, of an answer once for good.
ToldOnce == EveryoneTold /\ AnsweredOnce

=============================================================================
