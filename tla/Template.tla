------------------------------ MODULE Template ------------------------------
(***************************************************************************)
(* src/src/view/template.c: from the source of a template to its program.  *)
(*                                                                         *)
(* A source is the sequence of its tokens: a stretch of text or one tag,   *)
(* [kind, name].  The name of a text is the text, that of a variable or a  *)
(* section its path, that of a partial the path of a view; every name is a *)
(* sequence of strings.  An empty tag has nothing in it, an unclosed one   *)
(* has no end.                                                             *)
(***************************************************************************)
EXTENDS Naturals, Sequences, SequencesExt

CONSTANTS
    Identifiers, \* the well-formed parts of a variable's path
    Segments     \* the well-formed parts of a view's path, without a leading "_"

TokenKinds == {"text", "var", "#", "^", "/", ">", "yield", "empty", "unclosed"}
Sections == {"#", "^"}

Marked(segment) == "_" \o segment
AllSegments == Segments \cup {Marked(s) : s \in Segments}

ASSUME TemplateAssumption ==
    /\ Identifiers \subseteq STRING /\ AllSegments \subseteq STRING
    /\ \A s \in Segments : Marked(s) \notin Segments
    /\ \A s, t \in Segments : Marked(s) = Marked(t) => s = t

IsSource(source) ==
    /\ source \in Seq([kind : TokenKinds, name : Seq(STRING)])
    \* Text ends where the next tag begins.
    /\ \A i \in DOMAIN source \ {Len(source)} :
          ~(source[i].kind = "text" /\ source[i + 1].kind = "text")
    \* A tag that is never closed swallows the rest.
    /\ \A i \in DOMAIN source \ {Len(source)} : source[i].kind # "unclosed"

template_variable_path(path) == path # <<>> /\ ToSet(path) \subseteq Identifiers

view_path_valid(path) == path # <<>> /\ ToSet(path) \subseteq AllSegments

-----------------------------------------------------------------------------
(* The parser: instructions so far, and the stack of the sections that are *)
(* open, each by the place of its instruction.  jump is the place of the   *)
(* instruction after a section; places count from 1 here, from 0 in C.     *)

Begin == [ok |-> TRUE, code |-> <<>>, open |-> <<>>]
Unparsed == [ok |-> FALSE, code |-> <<>>, open |-> <<>>]

ClosesInnermost(parser, name) ==
    parser.open # <<>> /\ name = parser.code[Last(parser.open)].value

Accepted(parser, token) ==
    CASE token.kind \in {"text", "yield"} -> TRUE
      [] token.kind \in {"var"} \cup Sections -> template_variable_path(token.name)
      [] token.kind = ">" -> view_path_valid(token.name)
      [] token.kind = "/" -> ClosesInnermost(parser, token.name)
      [] OTHER -> FALSE

\* A bug: the end of every section is that of the outermost one.
SectionClosedOutermost(parser) ==
    [parser EXCEPT !.code[Head(parser.open)].jump = Len(parser.code) + 1,
                   !.open = Front(@)]

SectionClosed(parser) ==
    [parser EXCEPT !.code[Last(parser.open)].jump = Len(parser.code) + 1,
                   !.open = Front(@)]

Pushed(parser, token) ==
    LET code == Append(parser.code,
                       [type |-> token.kind, value |-> token.name, jump |-> 0])
    IN  [parser EXCEPT !.code = code,
                       !.open = IF token.kind \in Sections THEN Append(@, Len(code)) ELSE @]

TokenParsed(parser, token) ==
    IF ~parser.ok \/ ~Accepted(parser, token) THEN Unparsed
    ELSE IF token.kind = "/" THEN SectionClosed(parser)
    ELSE Pushed(parser, token)

\* A section that is still open at the end is an error.
Parsed(parser) == IF parser.open = <<>> THEN parser ELSE Unparsed

\* The parser after each token.
Parsers(source) ==
    LET after[n \in 0 .. Len(source)] ==
            IF n = 0 THEN Begin ELSE TokenParsed(after[n - 1], source[n])
    IN  after

template_parse(source) == Parsed(Parsers(source)[Len(source)])
=============================================================================
