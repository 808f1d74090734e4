------------------------------ MODULE JXScript ------------------------------
(***************************************************************************)
(* The description of an activity: Classes/api/activity/JXActivityScript.m *)
(* with the dictionary it caches, and how the description travels: from    *)
(* the script of who creates a room into the room's configuration          *)
(* (JXXMPPJunctionConfigHandler.h), and from there into the script of who  *)
(* asks for it by its URL (JXXMPPProviderRoomHandler.h) and joins with it. *)
(* A junction hands its script to the application, which may change it     *)
(* while the room is open (JXXMPPJunction.mm 164-166).                     *)
(*                                                                         *)
(* Entering a room and configuring a new one, which JXRoomJoin has in      *)
(* steps, are one step here.                                               *)
(***************************************************************************)
EXTENDS FiniteSets

CONSTANTS
    People,       \* actors, each with the script it goes by; one who has two is two
    Sessions,     \* session ids, given or generated
    Host,         \* the switchboard, that of the provider's configuration
    Roles,        \* role specifications
    Absent        \* what a dictionary holds for a key it does not have

VARIABLES
    scripts,      \* the script of each, or Absent
    place,        \* the session each is in, or Absent
    described,    \* what each session's room is described by, or Absent
    crashed       \* those whose process has ended of an exception or a NULL pointer

scriptVars == <<scripts, place, described, crashed>>

\* roles stands for the friendly name and the activity ID as well: it has
\* setters of both kinds, those that drop the cache and one that does not.
Fields == {"sessionID", "switchboard", "roles"}
Dictionaries == [sessionID : Sessions \cup {Absent}, switchboard : {Host, Absent}, roles : Roles \cup {Absent}]
Empty == [f \in Fields |-> Absent]

\* History: unsaid are the fields whose change the cache has not seen, since those
\* that others were told of before they changed, in the room, and from is the room
\* that a script was fetched from, if its description says so: one written by a
\* script that described its session as it was.
Scripts ==
    [field : {d \in Dictionaries : d.sessionID # Absent}, cached : Dictionaries \cup {Absent}, creator : BOOLEAN,
     unsaid : SUBSET Fields, since : SUBSET Fields, from : Sessions \cup {Absent}]

\* A room's description, and (history) what was unsaid by the script it was made of.
Descriptions == [dic : Dictionaries, unsaid : SUBSET Fields]

ASSUME ScriptAssumption ==
    /\ Absent \notin Sessions \cup Roles \cup {Host}
    /\ Absent \notin Dictionaries /\ Absent \notin Scripts /\ Absent \notin Descriptions

-----------------------------------------------------------------------------
\* Mutant: no session is made up for a dictionary without one.
ScriptOf_NoSession(d, deprecated, id, from) ==
    [field |-> d, cached |-> d, creator |-> FALSE, unsaid |-> {}, since |-> {}, from |-> from]

\* initWithDictionary: keeps the dictionary as the cache.  `deprecated': it names
\* its switchboard `host', a key that nobody writes any more.
ScriptOf(d, deprecated, id, from) ==
    [field   |-> [d EXCEPT !.sessionID = id],
     cached  |-> IF deprecated THEN [d EXCEPT !.switchboard = Absent] ELSE d,
     creator |-> d.sessionID = Absent,
     unsaid  |-> (IF d.sessionID = Absent THEN {"sessionID"} ELSE {})
                 \cup (IF deprecated THEN {"switchboard"} ELSE {}),
     since   |-> {},
     from    |-> from]

\* A session id that is generated, for a script that is given none, is one that
\* nobody has.
Given(d) ==
    IF d.sessionID # Absent THEN {d.sessionID}
    ELSE Sessions \ (UNION {{scripts[p].field.sessionID, scripts[p].from} : p \in {q \in People : scripts[q] # Absent}}
                     \cup {place[p] : p \in People})

\* setRoles:, and the synthesized setHost: and setSessionID:
Kept(s, f, v) ==
    [s EXCEPT !.field[f] = v, !.unsaid = IF s.cached = Absent \/ s.field[f] = v THEN @ ELSE @ \cup {f}]

\* addRole:forPlatform:spec:, addHint:toRole:, setFriendlyName:, setActivityID:
Reset(s, f, v) == [s EXCEPT !.field[f] = v, !.cached = Absent, !.unsaid = {}]

\* getDictionary: the cache, or the fields, which are cached from then on.
Dictionary(s) == IF s.cached = Absent THEN s.field ELSE s.cached

ScriptInit ==
    /\ scripts = [p \in People |-> Absent]
    /\ place = [p \in People |-> Absent]
    /\ described = [s \in Sessions |-> Absent]
    /\ crashed = {}

\* p is in no room: the description goes with the last who leaves.
Left(p) ==
    /\ place' = [place EXCEPT ![p] = Absent]
    /\ described' = IF place[p] = Absent \/ \E q \in People \ {p} : place[q] = place[p] THEN described
                    ELSE [described EXCEPT ![place[p]] = Absent]

\* p's process ends, and with it its script and its place in a room.
Crash(p) ==
    /\ crashed' = crashed \cup {p}
    /\ scripts' = [scripts EXCEPT ![p] = Absent]
    /\ Left(p)

\* What is told of p's room: where it is, by p's invitations, and by its description
\* what its creator's script says.
ToldOf(p) ==
    IF place[p] = Absent THEN {} ELSE IF scripts[p].creator THEN Fields ELSE {"sessionID"}

\* A setter of the application's, whether the script's junction is in a room or not.
Sets(p, f, new) ==
    /\ scripts[p] # Absent
    /\ scripts' = [scripts EXCEPT ![p] =
            [new EXCEPT !.since = IF new.field[f] = scripts[p].field[f] THEN @ ELSE @ \cup ({f} \cap ToldOf(p))]]
    /\ UNCHANGED <<place, described, crashed>>

\* A script of a dictionary of the application's, the empty one for init.  It
\* is kept until another takes its place.
NewScript(p) ==
    /\ scripts[p] = Absent
    /\ \E d \in Dictionaries, deprecated \in BOOLEAN : \E id \in Given(d) :
          /\ deprecated => d.switchboard # Absent
          /\ scripts' = [scripts EXCEPT ![p] = ScriptOf(d, deprecated, id, Absent)]
    /\ UNCHANGED <<place, described, crashed>>

SetSessionID(p) ==
    \E v \in Sessions : Sets(p, "sessionID", [Kept(scripts[p], "sessionID", v) EXCEPT !.from = Absent])

SetHost(p) == Sets(p, "switchboard", Kept(scripts[p], "switchboard", Host))

SetRoles(p) == \E v \in Roles : Sets(p, "roles", Kept(scripts[p], "roles", v))

AddRole(p) == \E v \in Roles : Sets(p, "roles", Reset(scripts[p], "roles", v))

\* getDictionary of the application's, with a cache to be made: setObject:forKey:
\* raises for a host that is nil.
GetDictionary(p) ==
    /\ scripts[p] # Absent /\ scripts[p].cached = Absent
    /\ \/ /\ scripts[p].field.switchboard # Absent
          /\ scripts' = [scripts EXCEPT ![p].cached = Dictionary(scripts[p])]
          /\ UNCHANGED <<place, described, crashed>>
       \/ scripts[p].field.switchboard = Absent /\ Crash(p)

\* newJunctionWithActivityScript:, of a script with the switchboard of the
\* provider.  Who finds the room empty creates it and describes it.  After Depart
\* it is also rejoinSessionChat, by the session the script has by then.
Entered(p, script) ==
    LET s == IF script.field.switchboard = Absent THEN Kept(script, "switchboard", Host) ELSE script
        session == s.field.sessionID
        first == \A q \in People : place[q] # session
    IN  /\ place[p] = Absent
        /\ place' = [place EXCEPT ![p] = session]
        /\ scripts' = [scripts EXCEPT ![p] =
                [s EXCEPT !.creator = first, !.since = {}, !.cached = IF first THEN Dictionary(s) ELSE @]]
        /\ described' = IF first
              THEN [described EXCEPT ![session] = [dic |-> Dictionary(s), unsaid |-> s.unsaid]]
              ELSE described
        /\ UNCHANGED crashed

NewJunction(p) == scripts[p] # Absent /\ Entered(p, scripts[p])

\* newJunctionWithURL: an empty script, whose host and session are set.
NewJunctionWithURL(p) ==
    \E session \in Sessions, id \in Given(Empty) :
        Entered(p, Kept(Kept(ScriptOf(Empty, FALSE, id, Absent), "switchboard", Host), "sessionID", session))

\* Mutant: of what is described the session is passed over, as a new one is meant.
Described_AsNew(session) ==
    LET d == described[session]
    IN  {ScriptOf(d.dic, FALSE, id, IF "sessionID" \in d.unsaid THEN Absent ELSE session) : id \in Given(Empty)}

\* handleMUCInfo: a script of the description of a room that is there.
Described(session) ==
    LET d == described[session]
    IN  {ScriptOf(d.dic, FALSE, id, IF "sessionID" \in d.unsaid THEN Absent ELSE session) : id \in Given(d.dic)}

\* getActivityScriptForURL: the script that p goes by from now on (one that is
\* fetched by who is in a room is the script of another of People).
Fetch(p) ==
    /\ place[p] = Absent
    /\ \E session \in Sessions :
          /\ described[session] # Absent
          /\ \E s \in Described(session) : scripts' = [scripts EXCEPT ![p] = s]
    /\ UNCHANGED <<place, described, crashed>>

\* getActivityScriptForURL: of a room that is not there: the error is passed on
\* as a room without a form, and handleMUCInfo asks the form for its tag.
FetchNothing(p) ==
    /\ \E session \in Sessions : described[session] = Absent
    /\ Crash(p)

\* p leaves its room, or its connection is lost.
Depart(p) ==
    /\ place[p] # Absent
    /\ Left(p)
    /\ scripts' = [scripts EXCEPT ![p].since = {}]
    /\ UNCHANGED crashed

ScriptNext ==
    \E p \in People \ crashed :
        \/ NewScript(p) \/ SetSessionID(p) \/ SetHost(p) \/ SetRoles(p) \/ AddRole(p) \/ GetDictionary(p)
        \/ NewJunction(p) \/ NewJunctionWithURL(p) \/ Fetch(p) \/ FetchNothing(p) \/ Depart(p)

ScriptSpec == ScriptInit /\ [][ScriptNext]_scriptVars

-----------------------------------------------------------------------------
(* Properties.                                                             *)

\* Every variable holds values of its type.
ScriptTypeOK ==
    /\ scripts \in [People -> Scripts \cup {Absent}]
    /\ place \in [People -> Sessions \cup {Absent}]
    /\ described \in [Sessions -> Descriptions \cup {Absent}]
    /\ crashed \in SUBSET People

\* What a script describes itself as is what it is, but for the fields that
\* setRoles:, setHost: or setSessionID: changed behind a dictionary it had
\* already (JXActivityScript.m 93-112, 171-174): these it goes on describing as
\* they were, until another setter drops the dictionary.
DescribesItself ==
    \A p \in People : scripts[p] # Absent =>
        \A f \in Fields \ scripts[p].unsaid : Dictionary(scripts[p])[f] = scripts[p].field[f]

\* What a description says of the script it was made of, but for what was unsaid
\* then and what was set since, it says truly.
Describes(d, s) == \A f \in Fields \ (d.unsaid \cup s.since) : d.dic[f] = s.field[f]

\* Whoever is in a room has a script that leads others there, by invitation, and
\* itself, after a lost connection, unless its session was set since it entered;
\* and the room has one description, that of the one creator, which is true of the
\* creator's script while that one is there, but for what was set behind the
\* script's dictionary before it was published or by any setter since: nothing
\* publishes the change of a live script (JXXMPPJunction.mm 164-166).
DescribedByCreator ==
    \A p \in People : place[p] # Absent =>
        /\ scripts[p] # Absent /\ described[place[p]] # Absent
        /\ scripts[p].field.switchboard = Host
        /\ "sessionID" \notin scripts[p].since => scripts[p].field.sessionID = place[p]
        /\ scripts[p].creator => Describes(described[place[p]], scripts[p])
        /\ \A q \in People \ {p} : place[q] = place[p] => ~(scripts[p].creator /\ scripts[q].creator)

\* Whoever fetches the description of a room and joins by it gets into that
\* room, unless who created it went by a script whose session had been set behind
\* its dictionary: newJunctionWithURL: makes such a script, and whoever fetches
\* the empty description of its room is sent to a session of his own.
FetchedLeadsThere ==
    \A p \in People : scripts[p] # Absent /\ scripts[p].from # Absent =>
        scripts[p].field.sessionID = scripts[p].from

\* An activity is found by its description: a script describes itself, a room
\* has the description of its creator, and that leads whoever fetches it there;
\* each but for what was set behind a dictionary, or in the room.
DescribedTruly == DescribedByCreator /\ DescribesItself /\ FetchedLeadsThere

=============================================================================
