---------------------------- MODULE MCGlooxParser ----------------------------
(***************************************************************************)
(* An instance of GlooxParser for TLC: a header and a stanza, written in   *)
(* two styles.                                                             *)
(***************************************************************************)
EXTENDS GlooxParser

Open(prefix, name, attribs) == [is |-> "open", name |-> <<name>>, prefix |-> prefix, attribs |-> attribs]
Text(text) == [is |-> "text", text |-> text]
Close == [is |-> "close"]
Attr(prefix, name, value) == [prefix |-> prefix, name |-> <<name>>, value |-> value]

Namespace == Attr(<<"xmlns">>, "stream", <<"ns">>)
Id(value) == Attr(<<>>, "id", value)
Header(attribs) == <<Open(<<"stream">>, "stream", attribs)>>
Iq == <<Open(<<>>, "iq", <<Id(<<"a", "&", "'">>)>>), Open(<<>>, "query", <<>>), Close, Close>>
Message == <<Open(<<"c">>, "message", <<>>), Text(<<"x", "<", "]">>),
             Open(<<>>, "body", <<>>), Text(<<"]", "]", ";">>), Close, Close>>

\* In single quotes, with single blanks and entities.
Plain ==
    [header |-> <<"<", "stream", ":", "stream", " ", "xmlns", ":", "stream", "=", "'", "ns", "'",
                  " ", "id", "=", "'", "1", "'", ">">>,
     iq |-> <<"<", "iq", " ", "id", "=", "'", "a", "&", "amp", ";", "&", "apos", ";", "'", ">",
              "<", "query", "/", ">", "<", "/", "iq", ">">>,
     message |-> <<"<", "c", ":", "message", ">", "x", "&", "lt", ";", "]", "<", "body", ">", "]", "]", ";",
                   "<", "/", "body", ">", "<", "/", "c", ":", "message", ">">>]

\* In double quotes, with blanks wherever the grammar has them, an apostrophe as
\* it is, and text in a CDATA section.
Loose ==
    [header |-> <<" ", "<", "stream", ":", "stream", " ", " ", "xmlns", ":", "stream", " ", "=", " ", "\"", "ns", "\"", ">">>,
     iq |-> <<" ", "<", "iq", " ", " ", "id", " ", "=", " ", "\"", "a", "&", "amp", ";", "'", "\"", ">",
              "<", "query", "/", ">", "<", "/", "iq", ">", " ">>,
     message |-> <<"<", "c", ":", "message", ">", "<", "!", "[CDATA[", "x", "<", "]", "]", "]", ">", "<", "body", ">",
                   "]", "]", ";", "<", "/", "body", ">", "<", "/", "c", ":", "message", ">">>]

\* Without a declaration, with the attributes in the other order.
BareHeader ==
    <<"<", "stream", ":", "stream", " ", "id", "=", "'", "1", "'", " ", "xmlns", ":", "stream", "=", "'", "ns", "'", ">">>

StreamEnd == <<"<", "/", "stream", ":", "stream", ">">>

PlainStart == Declaration \o Plain.header
LooseStart == Declaration \o Loose.header

MCStreams ==
    [plain |-> PlainStart \o Plain.iq \o StreamEnd,
     quoted |-> PlainStart \o Loose.iq,
     loose |-> LooseStart \o Loose.message,
     bare |-> BareHeader \o Plain.message]

Until(tag, text) == [tag |-> tag, until |-> Len(text)]

MCTags ==
    [plain |-> <<Until(Header(<<Namespace, Id(<<"1">>)>>), PlainStart), Until(Iq, PlainStart \o Plain.iq)>>,
     quoted |-> <<Until(Header(<<Namespace, Id(<<"1">>)>>), PlainStart), [tag |-> Iq, until |-> Len(MCStreams.quoted) - 1]>>,
     loose |-> <<Until(Header(<<Namespace>>), LooseStart), Until(Message, MCStreams.loose)>>,
     bare |-> <<Until(Header(<<Id(<<"1">>), Namespace>>), BareHeader), Until(Message, MCStreams.bare)>>]

MCDeclared == {"plain", "quoted", "loose"}

\* The streams are what the properties take a stream for.
ASSUME StreamsAssumption == WellFormed

=============================================================================
