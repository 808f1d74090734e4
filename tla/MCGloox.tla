------------------------------- MODULE MCGloox -------------------------------
(***************************************************************************)
(* Three parts of gloox that share no state, for TLC: a run is one of the  *)
(* parser, of the lists of handlers, or of a room.                         *)
(***************************************************************************)
EXTENDS MCGlooxParser, GlooxDispatch, GlooxRoom, TLC

VARIABLE part       \* fixed

\* The parts that the run is not of begin in one state.
GlooxInit ==
    /\ part \in {"parser", "dispatch", "room"}
    /\ ParserInit /\ (part # "parser" => stream = "bare")
    /\ DispatchInit /\ (part # "dispatch" => kind = "copied")
    /\ RoomInit
    /\ part # "room" => room.instant /\ room.config /\ service.taken = {} /\ service.marks

GlooxNext ==
    \/ part = "parser" /\ ParserNext /\ UNCHANGED <<part, dispatchVars, roomVars>>
    \/ part = "dispatch" /\ DispatchNext /\ UNCHANGED <<part, parserVars, roomVars>>
    \/ part = "room" /\ RoomNext /\ UNCHANGED <<part, parserVars, dispatchVars>>

Symmetry == Permutations(Handlers) \cup Permutations(Nicks)

GlooxSpec == GlooxInit /\ [][GlooxNext]_<<part, parserVars, dispatchVars, roomVars>>

\* Every variable of the three parts holds values of its type.
GlooxTypeOK == ParserTypeOK /\ DispatchTypeOK /\ RoomTypeOK

=============================================================================
