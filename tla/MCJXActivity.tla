---------------------------- MODULE MCJXActivity ----------------------------
(***************************************************************************)
(* Four parts of an activity that share no state, for TLC: a run is one of *)
(* the extras of a junction, of the replicated array, of the activity's    *)
(* description, or of the messages between its members.                    *)
(***************************************************************************)
EXTENDS JXExtras, JXArray, JXScript, JXMessages, TLC

CONSTANTS e1, e2, e3, m1, m2, r1, r2, MaxSet

VARIABLE part       \* fixed

\* One extra that goes first, and others of the usual priority.
MCPriority == [e \in Extras |-> IF e = e1 THEN 10 ELSE 20]

MCRolesOf == (m1 :> {r1}) @@ (m2 :> {r2})

\* Bound: of the settings that others were told of, those that are changed at a time.
SetSince == UNION {{<<p, f>> : f \in scripts[p].since} : p \in {q \in People : scripts[q] # Absent}}

ActivityInit ==
    /\ part \in {"extras", "array", "script", "messages"}
    /\ Init /\ ArrayInit /\ ScriptInit /\ MessagesInit

ActivityNext ==
    \/ part = "extras" /\ Next /\ UNCHANGED <<part, arrayVars, scriptVars, messageVars>>
    \/ part = "array" /\ ArrayNext /\ UNCHANGED <<part, vars, scriptVars, messageVars>>
    \/ /\ part = "script" /\ ScriptNext /\ Cardinality(SetSince') <= MaxSet
       /\ UNCHANGED <<part, vars, arrayVars, messageVars>>
    \/ part = "messages" /\ MessagesNext /\ UNCHANGED <<part, vars, arrayVars, scriptVars>>

\* The actors of two parts, and the items of the array, are of one set; the extras
\* of the usual priority are alike.
Symmetry == Permutations(People) \cup Permutations(Sessions) \cup Permutations({e2, e3})

ActivitySpec ==
    ActivityInit /\ [][ActivityNext]_<<part, vars, arrayVars, scriptVars, messageVars>>

\* Every variable of the four parts holds values of its type.
ActivityTypeOK == TypeOK /\ ArrayTypeOK /\ ScriptTypeOK /\ MessagesTypeOK

=============================================================================
