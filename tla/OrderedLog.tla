----------------------------- MODULE OrderedLog -----------------------------
(***************************************************************************)
(* What JXProp promises the replicas that stay in the room: operations get *)
(* one order, and each replica's view of them is a beginning of that       *)
(* order, which grows one operation at a time.                             *)
(***************************************************************************)
EXTENDS Integers, Sequences

CONSTANTS Viewers, Operations

VARIABLES log, view

vars == <<log, view>>

TypeOK == log \in Seq(Operations) /\ view \in [Viewers -> Seq(Operations)]

Init == log = <<>> /\ view = [v \in Viewers |-> <<>>]

\* A new operation takes its place at the end of the order.
Submit(op) ==
    /\ \A k \in 1..Len(log) : log[k] # op
    /\ log' = Append(log, op)
    /\ UNCHANGED view

\* A viewer sees the operation that follows those it has seen.
See(v) ==
    /\ Len(view[v]) < Len(log)
    /\ view' = [view EXCEPT ![v] = Append(view[v], log[Len(view[v]) + 1])]
    /\ UNCHANGED log

Next == (\E op \in Operations : Submit(op)) \/ (\E v \in Viewers : See(v))

Spec == Init /\ [][Next]_vars

=============================================================================
