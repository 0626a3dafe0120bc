------------------------------- MODULE Markup -------------------------------
(***************************************************************************)
(* What a template means, said without instructions or jumps: a section is *)
(* the text between two brackets that belong together.  View is compared   *)
(* with it.                                                                *)
(***************************************************************************)
EXTENDS ViewCompiler, Integers

Opens(source, i) == source[i].kind \in Sections
Closes(source, i) == source[i].kind = "/"

\* How many sections are open after n tokens.
Height(source, n) ==
    Cardinality({k \in 1 .. n : Opens(source, k)})
      - Cardinality({k \in 1 .. n : Closes(source, k)})

\* The bracket that belongs to the one at i: as many are open as were before.
Partner(source, i, j) ==
    /\ i < j /\ Opens(source, i) /\ Height(source, j) = Height(source, i - 1)
    /\ \A k \in i .. j - 1 : Height(source, k) > Height(source, i - 1)

EndOf(source, i) == CHOOSE j \in DOMAIN source : Partner(source, i, j)

WellFormed(source) ==
    /\ \A i \in DOMAIN source :
          CASE source[i].kind \in {"text", "yield"} -> TRUE
            [] source[i].kind = ">" -> view_path_valid(source[i].name)
            [] source[i].kind \in {"empty", "unclosed"} -> FALSE
            [] OTHER -> template_variable_path(source[i].name)
    /\ \A i \in DOMAIN source : Opens(source, i) =>
          \E j \in DOMAIN source :
             Partner(source, i, j) /\ source[i].name = source[j].name
    /\ \A j \in DOMAIN source : Closes(source, j) =>
          \E i \in DOMAIN source : Partner(source, i, j)

\* The source a name stands for, a set of one or none: a file, a file that is
\* marked as a partial, or one that was compiled under that name.
Sources(lib, path) ==
    IF path \in DOMAIN lib.files THEN {lib.files[path]}
    ELSE IF PartialName(path) \in DOMAIN lib.files THEN {lib.files[PartialName(path)]}
    ELSE {lib.read[p] : p \in {q \in DOMAIN lib.read : compiler_logical_name(q) = path}}

-----------------------------------------------------------------------------

Spans(cx, source) ==
    [from : 1 .. Len(source) + 1, to : 0 .. Len(source), scope : Scopes(cx.data)]

\* A section stands for what is inside, once for each record of a collection.
SectionMeaning(cx, source, span, meaning) ==
    LET token == source[span.from]
        value == view_resolve(cx.data, token.name, span.scope)
        records == IF value.type = "collection" /\ token.kind = "#"
                   THEN value.rows ELSE <<span.scope>>
        Inside(record) == meaning[[from |-> span.from + 1, to |-> EndOf(source, span.from) - 1,
                                   scope |-> record]]
    IN  IF value.type = "unknown" THEN Failure
        ELSE IF view_truthy(value) = (token.kind = "^") THEN Html(<<>>)
        ELSE Concatenated([k \in DOMAIN records |-> Inside(records[k])])

TokenMeaning(cx, source, body, partial, span, meaning) ==
    LET token == source[span.from]
    IN  CASE token.kind = "text" -> Html(token.name)
          [] token.kind = "var" ->
                view_render_value(view_resolve(cx.data, token.name, span.scope))
          [] token.kind = "yield" -> IF body = NoBody THEN Failure ELSE Html(body)
          [] token.kind = ">" -> partial[[path |-> token.name, scope |-> span.scope]]
          [] Opens(source, span.from) -> SectionMeaning(cx, source, span, meaning)
          [] OTHER -> Failure

After(source, i) == IF Opens(source, i) THEN EndOf(source, i) + 1 ELSE i + 1

\* What the tokens of a source mean from one to another.
Meaning(cx, source, body, partial) ==
    LET meaning[span \in Spans(cx, source)] ==
            IF span.from > span.to THEN Html(<<>>)
            ELSE Joined(TokenMeaning(cx, source, body, partial, span, meaning),
                        meaning[[span EXCEPT !.from = After(source, @)]])
    IN  meaning

\* A source from its beginning.
SourceMeaning(cx, sources, scope, body, partial) ==
    IF \A source \in sources : ~WellFormed(source) THEN Failure
    ELSE LET source == CHOOSE source \in sources : TRUE
         IN  Meaning(cx, source, body, partial)[[from |-> 1, to |-> Len(source), scope |-> scope]]

\* What a partial means that may nest n levels.
PartialMeaning(cx) ==
    LET nested[n \in 0 .. MaxNesting] ==
            [call \in [path : Seq(AllSegments), scope : Scopes(cx.data)] |->
                IF n = 0 THEN Failure
                ELSE SourceMeaning(cx, Sources(cx.lib, call.path), call.scope, NoBody,
                                   nested[n - 1])]
    IN  nested

\* The page of a view; a body that turns out empty has no place in a layout.
PageMeaning(cx, path) ==
    LET partial == PartialMeaning(cx)[MaxNesting]
        page == SourceMeaning(cx, Sources(cx.lib, path), NoRecord, NoBody, partial)
        layout == Sources(cx.lib, Layout)
    IN  IF ~page.ok \/ layout = {} THEN page
        ELSE SourceMeaning(cx, layout, NoRecord, page.html, partial)
=============================================================================
