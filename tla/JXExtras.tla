------------------------------ MODULE JXExtras ------------------------------
(***************************************************************************)
(* The extras of a junction: the list kept by                              *)
(* Classes/provider/JXExtrasDirector.m, and the hooks of                   *)
(* Classes/JXJunction.m around what its actor does and what happens to it. *)
(*                                                                         *)
(* Before the actor creates, joins or rejoins the activity, before it      *)
(* sends and before it is handed a message every extra is asked, and each  *)
(* may refuse; after most of these every extra is told.  An extra that is  *)
(* asked or told, and the actor when it is called, may register another.   *)
(*                                                                         *)
(* Three threads walk the list without a lock: the one that registers the  *)
(* actor and sends, the one that receives, and one that has reconnected.   *)
(* Registering an extra is one step, and so is asking one.                 *)
(***************************************************************************)
EXTENDS Integers, Sequences, FiniteSets, SequencesExt

CONSTANTS
    Extras,      \* the extras there are; none is registered twice
    Priority,    \* getPriority of each
    MaxWalks     \* bound: walks begun by a message, a send or a reconnection

ASSUME PriorityAssumption == Priority \in [Extras -> Int]
ASSUME WalksAssumption == MaxWalks \in Nat

VARIABLES
    extras,      \* mExtras
    registered,  \* the extras in the order they were registered in (no code keeps it)
    walk,        \* the walk of each thread through the extras
    stage,       \* how far the actor has come
    walks        \* the walks begun so far

vars == <<extras, registered, walk, stage, walks>>

Threads == {"caller", "receiver", "rejoiner"}
Asking == {"create", "join", "rejoin", "send", "receive"}
Telling == {"created", "joined", "rejoined", "received", "invite"}
Backward == {"receive", "received"}

\* What follows when the walk of a hook ends well.
Following == [create |-> "created", created |-> "join", join |-> "joined",
              rejoin |-> "rejoined", receive |-> "received"]

(***************************************************************************)
(* The list.                                                               *)
(***************************************************************************)
\* registerExtra: in front of the first of higher priority.
Inserted(list, e) ==
    LET k == SelectInSeq(list, LAMBDA x : Priority[x] > Priority[e])
    IN  IF k = 0 THEN Append(list, e) ELSE InsertAt(list, k, e)

Register(e) == extras' = Inserted(extras, e) /\ registered' = Append(registered, e)

MayRegister ==
    \/ UNCHANGED <<extras, registered>>
    \/ \E e \in Extras \ Range(extras) : Register(e)

(***************************************************************************)
(* A walk.  `began', `asked' and `refused' are what the list was at first, *)
(* the extras asked so far, and those that said NO; of these the code has  *)
(* only the count of changes the enumeration of an array starts with.      *)
(***************************************************************************)
NoWalk == [hook |-> "none", at |-> 0, ret |-> TRUE, began |-> <<>>, asked |-> <<>>, refused |-> {}]

Begun(hook, list) ==
    [hook |-> hook, at |-> IF hook \in Backward THEN Len(list) ELSE 1, ret |-> TRUE,
     began |-> list, asked |-> <<>>, refused |-> {}]

Over(w) ==
    /\ w.hook # "none"
    /\ w.at = IF w.hook \in Backward THEN 0 ELSE Len(w.began) + 1

\* What is sent or received goes by index, all else enumerates the array.
Disturbed(w) == w.hook \notin Backward /\ w.hook # "none" /\ extras # w.began

\* Mutant: the last answer counts.
Answered_LastCounts(w, e, answer) ==
    [w EXCEPT !.at = IF w.hook \in Backward THEN @ - 1 ELSE @ + 1,
              !.ret = answer,
              !.asked = Append(@, e),
              !.refused = IF answer THEN @ ELSE @ \cup {e}]

Answered(w, e, answer) ==
    [w EXCEPT !.at = IF w.hook \in Backward THEN @ - 1 ELSE @ + 1,
              !.ret = @ /\ answer,
              !.asked = Append(@, e),
              !.refused = IF answer THEN @ ELSE @ \cup {e}]

Ask(t) ==
    /\ stage # "raised"
    /\ walk[t].hook # "none"
    /\ ~Over(walk[t])
    /\ ~Disturbed(walk[t])
    /\ \E answer \in IF walk[t].hook \in Asking THEN BOOLEAN ELSE {TRUE} :
          walk' = [walk EXCEPT ![t] = Answered(walk[t], extras[walk[t].at], answer)]
    /\ MayRegister
    /\ UNCHANGED <<stage, walks>>

\* An array that changed while it is enumerated raises, which nobody catches;
\* after its last item it may, or may not, be noticed.
RaiseOnMutation(t) ==
    /\ stage # "raised"
    /\ Disturbed(walk[t])
    /\ stage' = "raised"
    /\ UNCHANGED <<extras, registered, walk, walks>>

(***************************************************************************)
(* The hooks.                                                              *)
(***************************************************************************)
Free(t) == stage # "raised" /\ walk[t].hook = "none"

Ends(t, hooks, approved) ==
    /\ stage # "raised"
    /\ Over(walk[t])
    /\ walk[t].hook \in hooks
    /\ walk[t].ret = approved

Init ==
    /\ extras = <<>>
    /\ registered = <<>>
    /\ walk = [t \in Threads |-> NoWalk]
    /\ stage = "new"
    /\ walks = 0

\* registerActor: registers the initial extras, the application others later.
RegisterExtra ==
    /\ Free("caller")
    /\ \E e \in Extras \ Range(extras) : Register(e)
    /\ UNCHANGED <<walk, stage, walks>>

\* The room was joined and the message handler is registered.
RegisterActor ==
    /\ Free("caller")
    /\ stage = "new"
    /\ stage' = "entered"
    /\ UNCHANGED <<extras, registered, walk, walks>>

TriggerActorJoin ==
    /\ Free("caller")
    /\ stage = "entered"
    /\ \E hook \in {"create", "join"} : walk' = [walk EXCEPT !["caller"] = Begun(hook, extras)]
    /\ UNCHANGED <<extras, registered, stage, walks>>

\* A walk that a message, the application or a reconnection begins.
Begins(t, hook) ==
    /\ Free(t)
    /\ walks < MaxWalks
    /\ walks' = walks + 1
    /\ walk' = [walk EXCEPT ![t] = Begun(hook, extras)]
    /\ UNCHANGED <<extras, registered, stage>>

InRoom == stage \in {"entered", "created", "joined"}

TriggerMessageReceived == InRoom /\ Begins("receiver", "receive")
TriggerActorRejoin == InRoom /\ Begins("rejoiner", "rejoin")
SendMessage == stage = "joined" /\ Begins("caller", "send")
GetInvitationURL == stage = "joined" /\ Begins("caller", "invite")

\* All have agreed: the actor is called, or the message sent.
Approve(t) ==
    /\ Ends(t, Asking, TRUE)
    /\ MayRegister
    /\ stage' = CASE walk[t].hook = "create" -> "created"
                  [] walk[t].hook = "join" -> "joined"
                  [] OTHER -> stage
    /\ walk' = [walk EXCEPT ![t] = IF @.hook = "send" THEN NoWalk ELSE Begun(Following[@.hook], extras')]
    /\ UNCHANGED walks

\* One has not: the message or the call is dropped, the junction not joined left.
Refuse(t) ==
    /\ Ends(t, Asking, FALSE)
    /\ walk' = [walk EXCEPT ![t] = NoWalk]
    /\ stage' = IF walk[t].hook \in {"create", "join"} THEN "left" ELSE stage
    /\ UNCHANGED <<extras, registered, walks>>

Told(t) ==
    /\ Ends(t, Telling, TRUE)
    /\ walk' = [walk EXCEPT ![t] = IF @.hook = "created" THEN Begun("join", extras) ELSE NoWalk]
    /\ UNCHANGED <<extras, registered, stage, walks>>

Next ==
    \/ RegisterExtra \/ RegisterActor \/ TriggerActorJoin
    \/ TriggerMessageReceived \/ TriggerActorRejoin \/ SendMessage \/ GetInvitationURL
    \/ \E t \in Threads : Ask(t) \/ RaiseOnMutation(t) \/ Approve(t) \/ Refuse(t) \/ Told(t)

Spec == Init /\ [][Next]_vars

(***************************************************************************)
(* Properties.                                                             *)
(***************************************************************************)
\* The list holds extras, and each thread's walk stands at a place of it.
TypeOK ==
    /\ extras \in Seq(Extras)
    /\ registered \in Seq(Extras)
    /\ \A t \in Threads :
          /\ walk[t].hook \in Asking \cup Telling \cup {"none"}
          /\ walk[t].at \in IF walk[t].hook \in Backward THEN 0..Len(extras) ELSE 0..(Len(extras) + 1)
          /\ walk[t].ret \in BOOLEAN
    /\ stage \in {"new", "entered", "created", "joined", "left", "raised"}
    /\ walks \in 0..MaxWalks

\* d comes before e: by its priority, then by when it was registered.
Earlier(d, e) == \E j, k \in 1..Len(registered) : j < k /\ registered[j] = d /\ registered[k] = e
Before(d, e) == Priority[d] < Priority[e] \/ (Priority[d] = Priority[e] /\ Earlier(d, e))

\* Extras are asked in the order of their priority, those of one priority as
\* they were registered, backward about what is received (lines 28-54), and none
\* twice: also those that are registered while the walk is under way.
AskedInOrder ==
    \A t \in Threads :
        LET asked == walk[t].asked
        IN  \A j, k \in 1..Len(asked) : j < k =>
                IF walk[t].hook \in Backward THEN Before(asked[k], asked[j]) ELSE Before(asked[j], asked[k])

\* The actor is called, and a message is sent, only when none of the extras asked
\* refused (JXJunction.m 99-160), and every extra that was there when the walk
\* began was asked: unless it was moved up behind the walk's back by another of
\* lower priority, which is the one way to be passed over.
NobodyPassedOver ==
    \A t \in Threads : Over(walk[t]) /\ walk[t].ret =>
        /\ walk[t].refused = {}
        /\ \A e \in Range(walk[t].began) \ Range(walk[t].asked) :
              \E n \in Range(extras) \ Range(walk[t].began) : Priority[n] < Priority[e]

\* What an extra is registered for: it is asked in its turn, and heard.
ExtrasHeard == AskedInOrder /\ NobodyPassedOver

=============================================================================
