------------------------------- MODULE JXArray -------------------------------
(***************************************************************************)
(* JXArrayProp, the replicated array of Classes/props/sample: what its     *)
(* operations do to the items, and what follows when a change listener     *)
(* issues an operation from inside onChange:.                              *)
(*                                                                         *)
(* JXProp has joiners, losses and SYNC mode, and operations that only      *)
(* accumulate.  Here every replica is in the room throughout and in NORM   *)
(* mode, and the operations are those of the array: an item added, all     *)
(* equal ones deleted, the first equal one replaced, all deleted.  The     *)
(* lock of a replica is recursive, so that a listener told of an operation *)
(* may issue the next before the first is in the pending list and sent.    *)
(***************************************************************************)
EXTENDS Naturals, Sequences, FiniteSets, SequencesExt

CONSTANTS
    Actors,       \* each with its replica
    Items,        \* dictionaries; equal ones are one value
    MaxChanges,   \* bound: operations issued in a run
    MaxDepth      \* bound: calls of addOperation: inside one another

ASSUME ArrayAssumption == MaxChanges \in Nat /\ MaxDepth \in Nat

VARIABLES
    array,        \* [state, clean, pending] of each replica
    calls,        \* the calls of addOperation: it is in, the innermost last
    process,      \* "up", or the exception it ended with
    room,         \* the messages in the room's order
    heard,        \* how many of them each replica has received
    changes,      \* operations issued so far
    reentered     \* history: replicas with a listener that issued an operation
                  \*          while one of its own was being dispatched

arrayVars == <<array, calls, process, room, heard, changes, reentered>>

ArrayOperations ==
    [type : {"addOp", "deleteOp"}, item : Items]
    \cup [type : {"replaceOp"}, item1 : Items, item2 : Items]
    \cup [type : {"clearOp"}]

\* replaceObjectAtIndex: is given NSNotFound.
OutOfRange(items, o) == o.type = "replaceOp" /\ o.item1 \notin Range(items)

\* The elements of s that are in T, in their order.
Only(s, T) == FoldLeft(LAMBDA kept, x : IF x \in T THEN Append(kept, x) ELSE kept, <<>>, s)

\* applyOperation:
Applied(items, o) ==
    CASE o.type = "addOp" -> Append(items, o.item)
      [] o.type = "deleteOp" -> Only(items, Items \ {o.item})
      [] o.type = "replaceOp" /\ ~OutOfRange(items, o) ->
            ReplaceAt(items, SelectInSeq(items, LAMBDA x : x = o.item1), o.item2)
      [] o.type = "clearOp" -> <<>>
      [] OTHER -> items

ArrayInit ==
    /\ array = [a \in Actors |-> [state |-> <<>>, clean |-> <<>>, pending |-> <<>>]]
    /\ calls = [a \in Actors |-> <<>>]
    /\ process = [a \in Actors |-> "up"]
    /\ room = <<>>
    /\ heard = [a \in Actors |-> 0]
    /\ changes = 0
    /\ reentered = {}

\* addOperation:, from the application, which replaces and deletes what it
\* sees, or from a listener: as far as the dispatch of EVT_CHANGE.
BeginChange(a) ==
    /\ process[a] = "up"
    /\ changes < MaxChanges
    /\ Len(calls[a]) < MaxDepth
    /\ \E o \in ArrayOperations :
          LET m == [from |-> a, op |-> o, uuid |-> changes + 1, localSeqNum |-> heard[a]] IN
          /\ ~OutOfRange(array[a].state, o)
          /\ o.type = "deleteOp" => o.item \in Range(array[a].state)
          /\ array' = [array EXCEPT ![a].state = Applied(@, o)]
          /\ calls' = [calls EXCEPT ![a] = Append(@, m)]
    /\ changes' = changes + 1
    /\ reentered' = IF calls[a] = <<>> THEN reentered ELSE reentered \cup {a}
    /\ UNCHANGED <<process, room, heard>>

\* ... and what follows the dispatch: the operation is pending, and sent.
EndChange(a) ==
    /\ calls[a] # <<>>
    /\ array' = [array EXCEPT ![a].pending = Append(@, Last(calls[a]))]
    /\ room' = Append(room, Last(calls[a]))
    /\ calls' = [calls EXCEPT ![a] = Front(@)]
    /\ UNCHANGED <<process, heard, changes, reentered>>

\* _handleReceivedOp:, under the lock.
Hearing(a, own) ==
    /\ process[a] = "up"
    /\ calls[a] = <<>>
    /\ heard[a] < Len(room)
    /\ own = (room[heard[a] + 1].from = a)
    /\ UNCHANGED <<calls, room, changes, reentered>>

\* An exception nobody catches ends the process.
RaisesInApply(a, name) ==
    /\ process' = [process EXCEPT ![a] = name]
    /\ UNCHANGED <<array, heard>>

\* Mutant: an operation that came back stays pending.
HearOwn_StaysPending(a) ==
    /\ Hearing(a, TRUE)
    /\ LET m == room[heard[a] + 1] IN
       \/ /\ OutOfRange(array[a].clean, m.op)
          /\ RaisesInApply(a, "range")
       \/ /\ ~OutOfRange(array[a].clean, m.op)
          /\ array' = [array EXCEPT ![a].clean = Applied(@, m.op)]
          /\ heard' = [heard EXCEPT ![a] = @ + 1]
          /\ UNCHANGED process

HearOwn(a) ==
    /\ Hearing(a, TRUE)
    /\ LET m == room[heard[a] + 1] IN
       \/ /\ OutOfRange(array[a].clean, m.op)
          /\ RaisesInApply(a, "range")
       \/ /\ ~OutOfRange(array[a].clean, m.op)
          /\ array' = [array EXCEPT ![a].clean = Applied(@, m.op),
                                    ![a].pending = Only(@, {p \in Range(@) : p.uuid # m.uuid})]
          /\ heard' = [heard EXCEPT ![a] = @ + 1]
          /\ UNCHANGED process

\* Mutant: the pending messages are not looked at, as if theirs were no conflict.
HearOther_NoConflict(a) ==
    /\ Hearing(a, FALSE)
    /\ LET o == room[heard[a] + 1].op IN
       \/ /\ OutOfRange(array[a].clean, o) \/ OutOfRange(array[a].state, o)
          /\ RaisesInApply(a, "range")
       \/ /\ ~OutOfRange(array[a].clean, o) /\ ~OutOfRange(array[a].state, o)
          /\ array' = [array EXCEPT ![a].clean = Applied(@, o), ![a].state = Applied(@, o)]
          /\ heard' = [heard EXCEPT ![a] = @ + 1]
          /\ UNCHANGED process

\* With operations pending, the first pending message is applied to a copy of
\* the clean state as if it were an operation: its type is a number, which does
\* not know isEqualToString:.
HearOther(a) ==
    /\ Hearing(a, FALSE)
    /\ LET o == room[heard[a] + 1].op IN
       \/ /\ OutOfRange(array[a].clean, o) \/ (array[a].pending = <<>> /\ OutOfRange(array[a].state, o))
          /\ RaisesInApply(a, "range")
       \/ /\ ~OutOfRange(array[a].clean, o) /\ array[a].pending # <<>>
          /\ RaisesInApply(a, "unrecognized selector")
       \/ /\ ~OutOfRange(array[a].clean, o) /\ ~OutOfRange(array[a].state, o)
          /\ array[a].pending = <<>>
          /\ array' = [array EXCEPT ![a].clean = Applied(@, o), ![a].state = Applied(@, o)]
          /\ heard' = [heard EXCEPT ![a] = @ + 1]
          /\ UNCHANGED process

\* The EVT_CHANGE of an operation of another is dispatched last: a listener that
\* issues an operation then is BeginChange.
ArrayNext == \E a \in Actors : BeginChange(a) \/ EndChange(a) \/ HearOwn(a) \/ HearOther(a)

ArraySpec == ArrayInit /\ [][ArrayNext]_arrayVars

-----------------------------------------------------------------------------
(* Properties.                                                             *)

\* Every variable holds values of its type.
ArrayTypeOK ==
    /\ \A a \in Actors :
          /\ {array[a].state, array[a].clean} \subseteq Seq(Items)
          /\ Len(array[a].pending) <= MaxChanges
          /\ Len(calls[a]) <= MaxDepth
          /\ heard[a] \in 0..Len(room)
    /\ process \in [Actors -> {"up", "range", "unrecognized selector"}]
    /\ changes \in 0..MaxChanges
    /\ reentered \subseteq Actors

Unheard(a) == SubSeq(room, heard[a] + 1, Len(room))
Sent(a) == Only(Unheard(a), {m \in Range(room) : m.from = a})

\* The pending operations are those the room has not sent back, in the room's
\* order, whatever the listeners issue from inside a dispatch (lines 177-204,
\* 357-368).
PendingAsSent == \A a \in Actors : process[a] = "up" => array[a].pending = Sent(a)

AppliedAll(items, messages) == FoldLeft(LAMBDA s, m : Applied(s, m.op), items, messages)

\* What the application sees is the clean array with its own operations on top,
\* those pending and those being dispatched, as long as none of its listeners
\* issued an operation from inside the dispatch of another: that one is sent
\* first and predicted last, and the two arrays may differ for good.
PredictedInOrder ==
    \A a \in Actors \ reentered : process[a] = "up" =>
        array[a].state = AppliedAll(array[a].clean, array[a].pending \o calls[a])

\* What a replica shows beyond the clean array is what it still owes the room.
PredictedAsSent == PendingAsSent /\ PredictedInOrder

\* The message in place k of the room was issued by somebody who had not heard
\* all that others have before it.
IssuedBehind(k) ==
    \E j \in (room[k].localSeqNum + 1)..(k - 1) : room[j].from # room[k].from

\* No replica ever dies of an operation it receives, neither of a pending
\* message taken for an operation nor of an item to replace that is gone, as long
\* as nobody issues an operation behind another's and no listener one inside its
\* own: with one actor at a time, the array is safe.
RaisesOnlyWhenCrossed ==
    (\E a \in Actors : process[a] # "up")
        => reentered # {} \/ \E k \in DOMAIN room : IssuedBehind(k)

=============================================================================
