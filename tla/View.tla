-------------------------------- MODULE View --------------------------------
(***************************************************************************)
(* src/src/view/view.c and src/src/rendering/html.c: loading a view and    *)
(* rendering it to a response.  Rendering keeps no state: a page is a      *)
(* function of the view files, of the views linked into the program and of *)
(* the values the handler has set.                                         *)
(*                                                                         *)
(* A value is [type, text, rows]: the characters that it prints as, and    *)
(* the records of a model (at most one) or a collection.  A record is a    *)
(* function from its fields to values.  An allocation that fails ends in   *)
(* the same error page as a broken template and is left out.               *)
(***************************************************************************)
EXTENDS Template

CONSTANT MaxNesting \* CEASY_VIEW_MAX_NESTING

\* The provers are not told of a literal that it is a string.
ASSUME ViewAssumption ==
    MaxNesting \in Nat /\ {"&amp;", "&lt;", "&gt;", "&quot;", "&#39;"} \subseteq STRING

NoRecord == <<>>
NoViews == <<>>
Unknown == [type |-> "unknown", text |-> <<>>, rows |-> <<>>]

\* The fields of a record print as one text each; a record of records is none.
Scalars == [type : {"string", "int64", "bool"}, text : Seq(STRING), rows : {<<>>}]
IsRecord(record) == record \in [DOMAIN record -> Scalars]
IsValue(value) ==
    /\ value \in [type : {"string", "int64", "bool", "model", "collection"},
                   text : Seq(STRING), rows : Seq(ToSet(value.rows))]
    /\ \A record \in ToSet(value.rows) : IsRecord(record)
IsData(data) == \A name \in DOMAIN data : IsValue(data[name])

\* What rendering returns: html, or nothing.
Html(text) == [ok |-> TRUE, html |-> text]
Failure == [ok |-> FALSE, html |-> <<>>]

Joined(first, second) ==
    IF first.ok /\ second.ok THEN Html(first.html \o second.html) ELSE Failure

-----------------------------------------------------------------------------
(* Values.                                                                 *)

Escaped(character) ==
    CASE character = "&" -> "&amp;"
      [] character = "<" -> "&lt;"
      [] character = ">" -> "&gt;"
      [] character = "\"" -> "&quot;"
      [] character = "'" -> "&#39;"
      [] OTHER -> character

html_escape(text) == [i \in DOMAIN text |-> Escaped(text[i])]

view_model_field(value, field) ==
    IF value.type = "model" /\ value.rows # <<>> /\ field \in DOMAIN Head(value.rows)
    THEN Head(value.rows)[field] ELSE Unknown

\* A field of the record at hand hides a value of the same name.
view_resolve(data, path, scope) ==
    IF Len(path) = 1 /\ Head(path) \in DOMAIN scope THEN scope[Head(path)]
    ELSE IF Head(path) \notin DOMAIN data THEN Unknown
    ELSE CASE Len(path) = 1 -> data[Head(path)]
           [] Len(path) = 2 -> view_model_field(data[Head(path)], path[2])
           [] OTHER -> Unknown

view_truthy(value) ==
    CASE value.type = "string" -> value.text # <<>>
      [] value.type = "int64" -> value.text # <<"0">>
      [] value.type = "bool" -> value.text = <<"true">>
      [] OTHER -> value.rows # <<>>

view_render_value(value) ==
    CASE value.type = "string" -> Html(html_escape(value.text))
      [] value.type \in {"int64", "bool"} -> Html(value.text)
      [] OTHER -> Failure

-----------------------------------------------------------------------------
(* Loading: lib.files is the directory views/, lib.bundle the programs     *)
(* that were linked in.                                                    *)

Missing == [result |-> "missing", code |-> <<>>]
LoadError == [result |-> "error", code |-> <<>>]
Found(code) == [result |-> "found", code |-> code]

PartialName(path) == Append(Front(path), Marked(Last(path)))

FileOf(files, path) == IF path \in DOMAIN files THEN path ELSE PartialName(path)
Loaded(program) == IF program.ok THEN Found(program.code) ELSE LoadError

view_load_filesystem(files, path) ==
    IF FileOf(files, path) \in DOMAIN files
    THEN Loaded(template_parse(files[FileOf(files, path)])) ELSE Missing

\* Only a file that is not there is looked for among the linked views.
OrEmbedded(file, bundle, path) ==
    IF file.result # "missing" THEN file
    ELSE IF path \in DOMAIN bundle THEN Found(bundle[path]) ELSE Missing

view_load(lib, path) ==
    IF view_path_valid(path)
    THEN OrEmbedded(view_load_filesystem(lib.files, path), lib.bundle, path) ELSE LoadError

-----------------------------------------------------------------------------
(* Rendering.  cx is the request's context: the library and the values.  A *)
(* run is a stretch of a program that is rendered for one record: from the *)
(* instruction index up to the one before end.  body is the page inside a  *)
(* layout; one to which nothing was ever written has no storage, which     *)
(* view.c takes for no body.                                               *)

NoBody == <<>>

\* The records that a section may render for.
Scopes(data) == {NoRecord} \cup UNION {ToSet(data[name].rows) : name \in DOMAIN data}

Runs(cx, code) ==
    [index : 1 .. Len(code) + 1, end : 1 .. Len(code) + 1, scope : Scopes(cx.data)]
Whole(code, scope) == [index |-> 1, end |-> Len(code) + 1, scope |-> scope]

Concatenated(parts) ==
    LET upTo[n \in 0 .. Len(parts)] ==
            IF n = 0 THEN Html(<<>>) ELSE Joined(upTo[n - 1], parts[n])
    IN  upTo[Len(parts)]

\* The instructions of a section, as often as its value asks for.
view_render_section(cx, code, run, render) ==
    LET section == code[run.index]
        value == view_resolve(cx.data, section.value, run.scope)
        Inside(record) ==
            render[[index |-> run.index + 1, end |-> section.jump, scope |-> record]]
    IN  IF value.type = "unknown" \/ section.jump \notin run.index + 1 .. run.end THEN Failure
        ELSE IF view_truthy(value) = (section.type = "^") THEN Html(<<>>)
        ELSE IF value.type = "collection" /\ section.type = "#"
             THEN Concatenated([k \in DOMAIN value.rows |-> Inside(value.rows[k])])
             ELSE Inside(run.scope)

view_render_instruction(cx, code, body, partial, run, render) ==
    LET instruction == code[run.index]
    IN  CASE instruction.type = "text" -> Html(instruction.value)
          [] instruction.type = "var" ->
                view_render_value(view_resolve(cx.data, instruction.value, run.scope))
          [] instruction.type = ">" ->
                partial[[path |-> instruction.value, scope |-> run.scope]]
          [] instruction.type = "yield" -> IF body = NoBody THEN Failure ELSE Html(body)
          [] OTHER -> view_render_section(cx, code, run, render)

\* The end of the loop's body: a section has been rendered up to its jump.
Rest(code, run) ==
    LET instruction == code[run.index]
    IN  [run EXCEPT !.index = IF instruction.type \in Sections THEN instruction.jump ELSE @ + 1]

\* Every run of a program; partial says what becomes of the partials in it.
view_render_program(cx, code, body, partial) ==
    LET render[run \in Runs(cx, code)] ==
            IF run.index >= run.end THEN Html(<<>>)
            ELSE LET here == view_render_instruction(cx, code, body, partial, run, render)
                 IN  IF here.ok THEN Joined(here, render[Rest(code, run)]) ELSE Failure
    IN  render

\* The program of a view, rendered from its beginning.
Rendered(cx, view, scope, body, partial) ==
    IF view.result = "found"
    THEN view_render_program(cx, view.code, body, partial)[Whole(view.code, scope)]
    ELSE Failure

\* depth, counted downwards: what becomes of a partial that may nest n levels.
Nested(cx) ==
    LET nested[n \in 0 .. MaxNesting] ==
            [call \in [path : Seq(AllSegments), scope : Scopes(cx.data)] |->
                IF n = 0 THEN Failure
                ELSE Rendered(cx, view_load(cx.lib, call.path), call.scope, NoBody,
                              nested[n - 1])]
    IN  nested

view_render_partial(cx) == Nested(cx)[MaxNesting]

Layout == <<"layouts", "application">>

WholeView(cx, view, body) == Rendered(cx, view, NoRecord, body, view_render_partial(cx))

\* The page in its layout; the page alone if there is no layout.
InLayout(cx, page, layout) ==
    IF ~page.ok \/ layout.result = "missing" THEN page ELSE WholeView(cx, layout, page.html)

view_render_with_layout(cx, path) ==
    InLayout(cx, WholeView(cx, view_load(cx.lib, path), NoBody), view_load(cx.lib, Layout))

ErrorPage == [status |-> "500", html |-> <<>>]

Response(page, status) ==
    IF page.ok THEN [status |-> status, html |-> page.html] ELSE ErrorPage

\* The response to render_status; the wording of an error is left out.
render_status(cx, path, status) == Response(view_render_with_layout(cx, path), status)

render_without_layout(cx, path) ==
    Response(WholeView(cx, view_load(cx.lib, path), NoBody), "200")
=============================================================================
