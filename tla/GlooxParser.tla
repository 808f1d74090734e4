---------------------------- MODULE GlooxParser ----------------------------
(***************************************************************************)
(* The XML parser of gloox, which is fed the pieces in which a stream      *)
(* happens to arrive, and which is not reset when the connection is lost.  *)
(*                                                                         *)
(* A character is an atom of a small alphabet; a name and a run of text    *)
(* are one atom each, because the parser adds their characters one after   *)
(* another and nothing else.  A tag is the sequence of what it consists    *)
(* of: openings, text and closings.                                        *)
(***************************************************************************)
EXTENDS Naturals, Sequences, FiniteSets

CONSTANTS
    Streams,        \* texts of streams: sequences of atoms
    Tags,           \* Tags[s]: the tags that stream s holds, in order, each with
                    \* the place of its last atom
    Declared,       \* the streams that begin with an XML declaration
    Piece,          \* bound on the atoms that arrive at once
    MaxLosses       \* bound on the connections that are lost

VARIABLES
    parser,         \* the fields of the parser
    stream,         \* the stream of this connection
    read,           \* atoms of it that have been fed
    first,          \* history: the parser before it was fed any of them
    verdict,        \* what the last feed returned: "ok" or "error"
    losses          \* connections lost so far

parserVars == <<parser, stream, read, first, verdict, losses>>

Whitespace == " "
EntityEnd == ";"
Entities == [amp |-> "&", lt |-> "<", gt |-> ">", apos |-> "'", quot |-> "\""]

Atoms == UNION {{Streams[s][i] : i \in DOMAIN Streams[s]} : s \in DOMAIN Streams}

ASSUME ParserAssumption ==
    /\ \A s \in DOMAIN Streams : Streams[s] \in Seq(Atoms)
    /\ Piece \in Nat \ {0} /\ MaxLosses \in Nat

-----------------------------------------------------------------------------
(* The fields.  tag, prefix, attrib, ... are sequences of atoms; open is   *)
(* the path from the root to m_current; root what the root consists of.    *)

States == {"Initial", "InterTag", "TagOpening", "TagCDATASection", "TagNameCollect",
           "TagInside", "TagOpeningSlash", "TagClosingSlash", "TagClosing",
           "TagNameComplete", "TagAttribute", "TagAttributeComplete",
           "TagAttributeEqual", "TagAttributeValue", "TagNameAlmostComplete"}

NewParser ==
    [state |-> "Initial", root |-> <<>>, open |-> <<>>, tag |-> <<>>, prefix |-> <<>>,
     havePrefix |-> FALSE, attribs |-> <<>>, attrib |-> <<>>, attribPrefix |-> <<>>,
     haveAttribPrefix |-> FALSE, isXmlns |-> FALSE, value |-> <<>>, cdata |-> <<>>,
     backBuffer |-> <<>>, preamble |-> 0, quote |-> FALSE,
     handed |-> <<>>, failed |-> FALSE, wait |-> FALSE]

\* cleanup: everything but the back buffer, the quote and the two history
\* fields; attribIsXmlns stays too.
Cleanup(p) ==
    [NewParser EXCEPT !.backBuffer = p.backBuffer, !.quote = p.quote,
                      !.isXmlns = p.isXmlns, !.handed = p.handed]

Fail(p) == [Cleanup(p) EXCEPT !.failed = TRUE]

Go(p, state) == [p EXCEPT !.state = state]

\* streamEvent: the root is handed to the client, and forgotten.
HandOver(p) == Cleanup([p EXCEPT !.handed = Append(@, p.root)])

\* addTag: below m_current, or as the root.  A stream header is handed over
\* at once, an XML declaration is dropped.
\* A root of prefix stream gets its namespace after that test.
IsHeader(p) ==
    /\ p.tag = <<"stream">>
    /\ \/ \E i \in 1..Len(p.root[1].attribs) : p.root[1].attribs[i].prefix = <<"xmlns">>
       \/ Len(p.open) > 1 /\ p.root[1].prefix = <<"stream">>

\* Mutant: the declaration is a tag like any other.
AddTag_KeepsDeclaration(p) ==
    LET name == [name |-> p.tag, prefix |-> IF p.havePrefix THEN p.prefix ELSE <<>>]
        q == [p EXCEPT !.root = Append(@, [is |-> "open", name |-> name.name, prefix |-> name.prefix,
                                           attribs |-> p.attribs]),
                       !.open = Append(@, name), !.havePrefix = FALSE, !.attribs = <<>>]
    IN  IF IsHeader(q) THEN HandOver(q)
        ELSE IF p.tag = <<"xml">> /\ p.preamble = 2 /\ Len(q.open) = 1 THEN Cleanup(q)
        ELSE q

AddTag(p) ==
    LET name == [name |-> p.tag, prefix |-> IF p.havePrefix THEN p.prefix ELSE <<>>]
        q == [p EXCEPT !.root = Append(@, [is |-> "open", name |-> name.name, prefix |-> name.prefix,
                                           attribs |-> p.attribs]),
                       !.open = Append(@, name), !.havePrefix = FALSE, !.attribs = <<>>]
    IN  IF IsHeader(q) THEN HandOver(q)
        ELSE IF p.tag = <<"xml">> /\ p.preamble = 2 THEN Cleanup(q)
        ELSE q

\* closeTag: the end of the stream is accepted anywhere; any other name must
\* be that of m_current.
Closes(p) ==
    p.open # <<>> /\ LET top == p.open[Len(p.open)] IN
                         top.name = p.tag /\ (top.prefix = <<>> \/ top.prefix = p.prefix)

CloseTag(p) ==
    IF p.tag = <<"stream">> /\ p.prefix = <<"stream">> THEN Go(p, "InterTag")
    ELSE IF ~Closes(p) THEN Fail(p)
    ELSE LET q == [p EXCEPT !.prefix = <<>>, !.havePrefix = FALSE,
                            !.root = Append(@, [is |-> "close"]),
                            !.open = SubSeq(@, 1, Len(@) - 1)]
         IN  Go(IF q.open = <<>> THEN HandOver(q) ELSE q, "InterTag")

AddAttribute(p) ==
    [p EXCEPT !.attribs = Append(@, [prefix |-> IF p.isXmlns THEN <<"xmlns">> ELSE p.attribPrefix,
                                     name |-> p.attrib, value |-> p.value]),
              !.attrib = <<>>, !.value = <<>>, !.attribPrefix = <<>>,
              !.haveAttribPrefix = FALSE, !.isXmlns = FALSE]

AddCData(p) ==
    IF p.open # <<>> /\ p.cdata # <<>>
    THEN [p EXCEPT !.root = Append(@, [is |-> "text", text |-> p.cdata]), !.cdata = <<>>]
    ELSE p

-----------------------------------------------------------------------------
(* One character c at place i of the data d.  A step gives the parser and  *)
(* the number of atoms it has used.                                        *)

Uses(p, n) == [parser |-> p, used |-> n]
One(p) == Uses(p, 1)

\* What is left of the data waits for the next piece.
Wait(p, d, i) == One([p EXCEPT !.backBuffer = SubSeq(d, i, Len(d)), !.wait = TRUE])

\* forwardScan
Scan(p, d, i, needle, found, notFound) ==
    IF i + Len(needle) - 1 > Len(d) THEN Wait(p, d, i)
    ELSE IF SubSeq(d, i, i + Len(needle) - 1) = needle THEN Uses(found, Len(needle))
    ELSE One(notFound)

\* decode: an entity, which ends at the next semicolon, wherever that is.
Decode(p, d, i, field) ==
    LET ends == {j \in i..Len(d) : d[j] = EntityEnd} IN
    IF ends = {} THEN Wait(p, d, i)
    ELSE LET end == CHOOSE j \in ends : \A k \in ends : j <= k IN
         IF end = i + 2 /\ d[i + 1] \in DOMAIN Entities
         THEN Uses([p EXCEPT ![field] = Append(@, Entities[d[i + 1]])], 3)
         ELSE One(Fail(p))

\* Characters that add to a field, and characters that end in a failure.
Adds(p, field, c) == One([p EXCEPT ![field] = Append(@, c)])

InitialStep(p, c) ==
    One(CASE c = Whitespace -> p [] c = "<" -> Go(p, "TagOpening") [] OTHER -> Fail(p))

InterTagStep(p, c) ==
    LET q == [p EXCEPT !.tag = <<>>] IN
    One(CASE c = Whitespace -> q
          [] c = "<" -> Go(q, "TagOpening")
          [] OTHER -> IF q.open # <<>> THEN Go([q EXCEPT !.cdata = Append(@, c)], "TagInside") ELSE q)

TagOpeningStep(p, d, i, c) ==
    CASE c = Whitespace -> One(p)
      [] c \in {"<", ">", "&"} -> One(Fail(p))
      [] c = "/" -> One(Go(p, "TagClosingSlash"))
      [] c = "?" -> One([Go(p, "TagNameCollect") EXCEPT !.preamble = 1])
      [] c = "!" -> Scan(p, d, i, <<"!", "[CDATA[">>, Go(p, "TagCDATASection"), Fail(p))
      [] OTHER -> Adds(Go(p, "TagNameCollect"), "tag", c)

TagCDATASectionStep(p, d, i, c) ==
    IF c = "]"
    THEN Scan(p, d, i, <<"]", "]", ">">>, Go(p, "TagInside"), [p EXCEPT !.cdata = Append(@, c)])
    ELSE Adds(p, "cdata", c)

\* A colon: what has been collected is the prefix, once.
TagPrefix(p) ==
    IF p.havePrefix THEN Fail(p)
    ELSE [p EXCEPT !.havePrefix = TRUE, !.prefix = p.tag, !.tag = <<>>]

TagNameCollectStep(p, c) ==
    CASE c = Whitespace -> One(Go(p, "TagNameComplete"))
      [] c \in {"<", "?", "!", "&"} -> One(Fail(p))
      [] c = "/" -> One(Go(p, "TagOpeningSlash"))
      [] c = ">" -> One(Go(AddTag(p), "TagInside"))
      [] c = ":" -> One(TagPrefix(p))
      [] OTHER -> Adds(p, "tag", c)

TagInsideStep(p, d, i, c) ==
    LET q == [p EXCEPT !.tag = <<>>] IN
    CASE c = "<" -> One(Go(AddCData(q), "TagOpening"))
      [] c = "&" -> Decode(q, d, i, "cdata")
      [] OTHER -> Adds(q, "cdata", c)

TagOpeningSlashStep(p, c) ==
    One(CASE c = Whitespace -> p [] c = ">" -> CloseTag(AddTag(p)) [] OTHER -> Fail(p))

TagClosingSlashStep(p, c) ==
    CASE c = Whitespace -> One(p)
      [] c \in {">", "<", "/"} -> One(Fail(p))
      [] OTHER -> Adds(Go(p, "TagClosing"), "tag", c)

TagClosingStep(p, c) ==
    CASE c \in {"<", "/", "!", "?", "&"} -> One(Fail(p))
      [] c = ":" -> One(TagPrefix(p))
      [] c = ">" -> One(CloseTag(p))
      [] OTHER -> Adds(p, "tag", c)

\* The end of an opening tag, after its name or after a value.
TagEnd(p, c) ==
    CASE c = "/" -> Go(p, "TagOpeningSlash")
      [] c = ">" -> IF p.preamble = 1 THEN Fail(p) ELSE AddTag(Go(p, "TagInside"))
      [] c = "?" -> IF p.preamble = 1 THEN [p EXCEPT !.preamble = 2] ELSE Fail(p)
      [] OTHER -> Fail(p)

TagNameCompleteStep(p, c) ==
    CASE c = Whitespace -> One(p)
      [] c \in {"<", "!", "&", "/", ">", "?"} -> One(TagEnd(p, c))
      [] OTHER -> Adds(Go(p, "TagAttribute"), "attrib", c)

AttribPrefix(p) ==
    CASE p.attrib = <<"xmlns">> -> [p EXCEPT !.isXmlns = TRUE, !.attrib = <<>>]
      [] p.attrib # <<"xmlns">> /\ ~p.haveAttribPrefix ->
            [p EXCEPT !.haveAttribPrefix = TRUE, !.attribPrefix = p.attrib, !.attrib = <<>>]
      [] OTHER -> Fail(p)

TagAttributeStep(p, c) ==
    CASE c = Whitespace -> One(Go(p, "TagAttributeComplete"))
      [] c \in {"<", "/", ">", "?", "!", "&"} -> One(Fail(p))
      [] c = "=" -> One(Go(p, "TagAttributeEqual"))
      [] c = ":" -> One(AttribPrefix(p))
      [] OTHER -> Adds(p, "attrib", c)

TagAttributeCompleteStep(p, c) ==
    One(CASE c = Whitespace -> p [] c = "=" -> Go(p, "TagAttributeEqual") [] OTHER -> Fail(p))

TagAttributeEqualStep(p, c) ==
    One(CASE c = Whitespace -> p
          [] c = "\"" -> [Go(p, "TagAttributeValue") EXCEPT !.quote = TRUE]
          [] c = "'" -> Go(p, "TagAttributeValue")
          [] OTHER -> Fail(p))

TagAttributeValueStep(p, d, i, c) ==
    CASE c = "<" -> One(Fail(p))
      [] c = "'" /\ p.quote -> Adds(p, "value", c)
      [] c = "\"" \/ (c = "'" /\ ~p.quote) ->
            One([Go(AddAttribute(p), "TagNameAlmostComplete") EXCEPT !.quote = FALSE])
      [] c = "&" -> Decode(p, d, i, "value")
      [] OTHER -> Adds(p, "value", c)

TagNameAlmostCompleteStep(p, c) ==
    One(IF c = Whitespace THEN Go(p, "TagNameComplete") ELSE TagEnd(p, c))

Step(p, d, i) ==
    LET c == d[i] IN
    CASE p.state = "Initial" -> InitialStep(p, c)
      [] p.state = "InterTag" -> InterTagStep(p, c)
      [] p.state = "TagOpening" -> TagOpeningStep(p, d, i, c)
      [] p.state = "TagCDATASection" -> TagCDATASectionStep(p, d, i, c)
      [] p.state = "TagNameCollect" -> TagNameCollectStep(p, c)
      [] p.state = "TagInside" -> TagInsideStep(p, d, i, c)
      [] p.state = "TagOpeningSlash" -> TagOpeningSlashStep(p, c)
      [] p.state = "TagClosingSlash" -> TagClosingSlashStep(p, c)
      [] p.state = "TagClosing" -> TagClosingStep(p, c)
      [] p.state = "TagNameComplete" -> TagNameCompleteStep(p, c)
      [] p.state = "TagAttribute" -> TagAttributeStep(p, c)
      [] p.state = "TagAttributeComplete" -> TagAttributeCompleteStep(p, c)
      [] p.state = "TagAttributeEqual" -> TagAttributeEqualStep(p, c)
      [] p.state = "TagAttributeValue" -> TagAttributeValueStep(p, d, i, c)
      [] p.state = "TagNameAlmostComplete" -> TagNameAlmostCompleteStep(p, c)

\* The loop over the data d: s has the parser and the atoms it has used.
Ended(s, d) == s.used >= Len(d) \/ s.parser.failed \/ s.parser.wait

Further(s, d) ==
    IF Ended(s, d) THEN s
    ELSE LET t == Step(s.parser, d, s.used + 1) IN Uses(t.parser, s.used + t.used)

\* After n steps, of which each uses one atom at least.
ScanSteps(p, d) ==
    LET after[n \in 0..Len(d)] == IF n = 0 THEN Uses(p, 0) ELSE Further(after[n - 1], d)
    IN  after

Scanned(p, d) == ScanSteps(p, d)[Len(d)].parser

Resumed(p) == [p EXCEPT !.backBuffer = <<>>, !.wait = FALSE, !.failed = FALSE]

\* Mutant: what waits is forgotten when more data comes.
Feed_ForgetsBackBuffer(p, data) == Scanned(Resumed(p), data)

\* feed: the back buffer first, then the data.
Feed(p, data) == Scanned(Resumed(p), p.backBuffer \o data)

-----------------------------------------------------------------------------
(* The connection that feeds the parser.                                   *)

ParserInit ==
    /\ parser = NewParser
    /\ first = NewParser
    /\ stream \in DOMAIN Streams
    /\ read = 0
    /\ verdict = "ok"
    /\ losses = 0

\* ClientBase::parse: some more data has arrived; an error ends the connection.
FeedPiece ==
    /\ verdict = "ok"
    /\ \E n \in 1..Piece :
        /\ read + n <= Len(Streams[stream])
        /\ read' = read + n
        /\ parser' = Feed(parser, SubSeq(Streams[stream], read + 1, read + n))
    /\ verdict' = IF parser'.failed THEN "error" ELSE "ok"
    /\ UNCHANGED <<stream, first, losses>>

\* The client connects again: ClientBase has one parser for all its
\* connections, and nothing clears it in between.
Reconnected ==
    /\ stream' \in DOMAIN Streams
    /\ read' = 0
    /\ verdict' = "ok"
    /\ parser' = [parser EXCEPT !.handed = <<>>]
    /\ first' = parser'

\* handleDisconnect: the connection is lost, anywhere in a stanza.
LoseStream ==
    /\ verdict = "ok"
    /\ losses < MaxLosses
    /\ losses' = losses + 1
    /\ Reconnected

\* parse: the client disconnects from a server it cannot read.
RefuseStream ==
    /\ verdict = "error"
    /\ UNCHANGED losses
    /\ Reconnected

ParserNext == FeedPiece \/ LoseStream \/ RefuseStream

ParserSpec == ParserInit /\ [][ParserNext]_parserVars

-----------------------------------------------------------------------------
(* Properties.                                                             *)

\* Every variable holds values of its type, and a tag is open when there is a
\* root, and only then (parser.h:113-116).
ParserTypeOK ==
    /\ stream \in DOMAIN Streams
    /\ read \in 0..Len(Streams[stream])
    /\ verdict \in {"ok", "error"}
    /\ losses \in 0..MaxLosses
    /\ parser.state \in States
    /\ parser.preamble \in 0..2
    /\ (parser.open = <<>>) <=> (parser.root = <<>>)

\* What the parser makes of a stream depends on what has been read of it, and
\* not on the pieces in which it was read: whatever the stream, well-formed or
\* not, and whatever the last connection left in the parser.
PiecesDoNotMatter == read > 0 => parser = Feed(first, SubSeq(Streams[stream], 1, read))

\* The first n atoms of stream s, the tags that are complete with them, and a
\* parser that has handed over those, each as it was written.
Start(s, n) == SubSeq(Streams[s], 1, n)
Due(s, n) == {k \in 1..Len(Tags[s]) : Tags[s][k].until <= n}
Hands(p, s, n) ==
    /\ ~p.failed
    /\ Len(p.handed) = Cardinality(Due(s, n))
    /\ \A k \in Due(s, n) : p.handed[k] = Tags[s][k].tag

\* What the properties take a stream for: it begins with a tag, or with a
\* declaration, and a parser that is new and is fed it at once hands its tags over.
Declaration == <<"<", "?", "xml", " ", "version", "=", "'", "1.0", "'", "?", ">">>
WellFormed ==
    /\ \A s \in DOMAIN Streams :
        /\ Streams[s] # <<>> /\ Streams[s][1] = "<"
        /\ \A n \in 0..Len(Streams[s]) : Hands(Feed(NewParser, Start(s, n)), s, n)
    /\ \A s \in Declared : Len(Streams[s]) >= Len(Declaration) /\ Start(s, Len(Declaration)) = Declaration

AsWritten == verdict = "ok" /\ (read > 0 => Hands(parser, stream, read))

\* The client is handed the tags of the stream, each as it was written and as
\* soon as its last character is there, in whatever pieces they arrive: inside
\* an entity, in the mark of a CDATA section, between a name and its prefix.
\* So also after a connection that was lost between two stanzas or refused,
\* unless it left one of three marks: a quote and the prefix of an attribute,
\* from a tag that was refused, and the prefix of the end of the stream.
Between(p) == p.state \in {"Initial", "InterTag"} /\ p.open = <<>> /\ p.backBuffer = <<>> /\ ~p.quote
ReadAfresh == Between(first) /\ ~first.isXmlns /\ ~first.havePrefix => AsWritten

\* A connection lost inside a stanza leaves half of it in the parser.  When the
\* next stream begins with an XML declaration, that half is dropped with the
\* declaration (parser.cpp:685-686), and the two prefixes with it: no stanza
\* mixes the two streams.  Without a declaration this does not hold.
OutsideTags(p) == p.state \in {"Initial", "InterTag", "TagInside"} /\ p.backBuffer = <<>> /\ ~p.quote
HalfStanzaDropped == stream \in Declared /\ OutsideTags(first) => AsWritten

\* A connection lost inside a tag leaves a parser that refuses the next stream,
\* whatever it is; in a CDATA section it would go on reading.
InsideTag(p) ==
    p.state \in States \ {"Initial", "InterTag", "TagInside", "TagCDATASection"} /\ p.backBuffer = <<>>
HalfTagRefused == InsideTag(first) /\ read > 0 => verdict = "error"

\* What the parser hands over is what was written, whatever came before it on
\* the connections that were lost or refused.
ReadAsWritten == ReadAfresh /\ HalfStanzaDropped /\ HalfTagRefused

=============================================================================
