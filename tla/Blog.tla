-------------------------------- MODULE Blog --------------------------------
(***************************************************************************)
(* src/examples/posts as a whole: the requests of Posts answer with pages  *)
(* that View makes from the files of the moment or from the views that     *)
(* ViewCompiler produced and the build linked.                             *)
(***************************************************************************)
EXTENDS Markup, Posts

CONSTANTS
    Text,      \* the characters of a content
    Private,   \* those that neither a template nor a handler writes
    Visitable, \* pages that other handlers render
    Contexts   \* the values they set

\* The text of a template without what a content is told by.
Discreet(source) ==
    \A i \in DOMAIN source : source[i].kind = "text" => ToSet(source[i].name) \cap Private = {}

\* What handlers write themselves.
Words == {"show", "edit", "new", "error", "none", "true", "false", "token", "invalid"}

ASSUME BlogAssumption ==
    /\ {"posts", "show", "edit", "new", "errors", "403", "404", "500", "layouts", "application"}
          \subseteq Segments
    /\ Text \in [Contents \cup {Blank} -> Seq(STRING)]
    /\ \A content \in Contents \cup {Blank} :
          Text[content] # <<>> => ToSet(html_escape(Text[content])) \cap Private # {}
    /\ Words \subseteq STRING \ Private
    /\ \A path \in Visitable : path # <<>> /\ path \in Seq(Segments)
    /\ \A data \in Contexts : IsData(data)
    /\ \A e \in Edits : e.path \in Seq(STRING) /\ IsSource(e.source) /\ Discreet(e.source)

VARIABLE sent \* the page each request was answered with, and what it was made of

blogVars == <<viewVars, postsVars, sent>>

NoPage == [data |-> <<>>, path |-> <<>>, status |-> "none", response |-> ErrorPage]

-----------------------------------------------------------------------------
(* The values that a handler sets, by name.                                *)

view_string(text) == [type |-> "string", text |-> text, rows |-> <<>>]
view_bool(flag) == [type |-> "bool", text |-> IF flag THEN <<"true">> ELSE <<"false">>, rows |-> <<>>]
view_model(record) == [type |-> "model", text |-> <<>>, rows |-> <<record>>]
view_collection(records) == [type |-> "collection", text |-> <<>>, rows |-> records]

Nothing == view_string(<<>>)

\* BLOG_DEFAULT: a name that is set before keeps its value.
And(data, more) ==
    [name \in DOMAIN data \cup DOMAIN more |->
        IF name \in DOMAIN data THEN data[name] ELSE more[name]]

post_view(post) ==
    view_model([content |-> view_string(Text[post.content]), published |-> view_bool(post.published)])

\* What blog_prepare_view adds to every page; the flash is left out, see Session.
Prepared(q) == And(
    [page_title |-> view_string(<<q.answer.view>>),
     signed_in |-> view_bool(q.answer.viewer # None),
     errors |-> view_collection(<<>>), content_error |-> Nothing],
    IF q.answer.viewer = None THEN <<>> ELSE [csrf_token |-> view_string(<<"token">>)])

\* form_errors.
Errors == [errors |-> view_collection(<<[message |-> view_string(<<"invalid">>)]>>),
           content_error |-> view_string(<<"invalid">>)]

\* What the handler of the request sets itself, before blog_prepare_view.
Handler(q) ==
    CASE q.answer.view = "show" ->
            [post |-> post_view(q.post), comments |-> view_collection(<<>>),
             can_manage |-> view_bool(MayManage(q.viewer, q.post))]
      [] q.answer.view = "edit" /\ q.answer.status = "200" ->
            [post |-> post_view(q.post), editing |-> view_bool(TRUE),
             content |-> view_string(Text[q.post.content])]
      [] q.answer.view = "edit" /\ q.answer.status # "200" ->
            And(Errors, [post |-> post_view(q.post), editing |-> view_bool(TRUE),
                         content |-> view_string(Text[q.form.content])])
      [] q.answer.view = "new" /\ q.answer.status = "200" ->
            [editing |-> view_bool(FALSE), content |-> Nothing]
      [] q.answer.view = "new" /\ q.answer.status # "200" ->
            And(Errors, [editing |-> view_bool(FALSE),
                         content |-> view_string(Text[q.form.content])])
      [] OTHER -> <<>>

ViewPath(answer) ==
    IF answer.view = "error" THEN <<"errors", answer.status>> ELSE <<"posts", answer.view>>

\* A page that does not render is answered as an error; the error page that
\* posts_show tries after that finds the response sent.
SentPage(data, path, status) ==
    [data |-> data, path |-> path, status |-> status,
     response |-> render_status([lib |-> Library, data |-> data], path, status)]

-----------------------------------------------------------------------------
(* The whole.                                                              *)

\* What the directory views/ may hold.
IsSite(site) ==
    /\ IsFiniteSet(DOMAIN site) /\ site = [path \in DOMAIN site |-> site[path]]
    /\ \A path \in DOMAIN site :
          path \in Seq(STRING) /\ IsSource(site[path]) /\ Discreet(site[path])

Init ==
    /\ ViewInit /\ PostsInit /\ IsSite(files)
    /\ sent = [r \in Requests |-> NoPage]
    /\ budget \in [edits : Nat, runs : Nat, visits : Nat, requests : Nat]

BlogRequest(r) ==
    /\ PostsStep(r)
    /\ sent' = [sent EXCEPT ![r] =
                  IF At(r, "prepare") /\ req'[r].answer # NoAnswer
                  THEN SentPage(And(Handler(req'[r]), Prepared(req'[r])),
                                ViewPath(req'[r].answer), req'[r].answer.status)
                  ELSE @]
    /\ UNCHANGED viewVars

BlogArrive(r) ==
    /\ budget.requests > 0
    /\ budget' = [budget EXCEPT !.requests = @ - 1]
    /\ Arrive(r)
    /\ UNCHANGED <<files, generated, linked, installed, compiler, sent>>

\* Any other handler that renders one page with some values.
Visit(r) ==
    /\ budget.visits > 0
    /\ budget' = [budget EXCEPT !.visits = @ - 1]
    /\ \E path \in Visitable, data \in Contexts :
          sent' = [sent EXCEPT ![r] = SentPage(data, path, "200")]
    /\ ArriveElsewhere(r)
    /\ UNCHANGED <<files, generated, linked, installed, compiler>>

Next ==
    \/ ViewNext /\ UNCHANGED <<postsVars, sent>>
    \/ \E r \in Requests : BlogArrive(r) \/ BlogRequest(r) \/ Visit(r)

Spec == Init /\ [][Next]_blogVars

-----------------------------------------------------------------------------
(* Properties; OwnerOnly, RowsSound and ToldIsDone of Posts are the others. *)

\* The types of the variables.
TypeOK ==
    /\ PostsTypeOK
    /\ \A path \in DOMAIN files : IsSource(files[path])
    /\ installed \in BOOLEAN
    /\ \A c \in Compilers :
          /\ compiler[c].pc \in {"idle", "scan", "open", "write", "rename"}
          /\ \A path \in DOMAIN compiler[c].found : Readable(path, compiler[c].found[path])
    /\ DOMAIN sent = Requests

\* Every page that is sent says what its templates say: whatever sections and
\* partials are nested in each other, wherever the views came from, and however
\* they were compiled (template_parse's jumps, view_render_program).
PageAsWritten ==
    [][\A r \in Requests :
          sent'[r] # sent[r] =>
             sent'[r].response =
                Response(PageMeaning([lib |-> Library, data |-> sent'[r].data], sent'[r].path),
                         sent'[r].status)]_blogVars

\* What the compiler leaves behind, and what the build has linked, is a whole
\* file in which every partial is found and none includes itself, whenever the
\* files were edited, a compiler was killed or two of them met.
Sound(bundle) ==
    LET views == bundle.views
    IN  /\ bundle.whole
        /\ \A name \in DOMAIN views : Partials(views[name]) \subseteq DOMAIN views
        /\ \A group \in (SUBSET DOMAIN views) \ {{}} :
              \E name \in group : Partials(views[name]) \cap group = {}

BundleComplete == Sound(generated) /\ Sound(linked)

\* With the views compiled from the files that are there, an installed program
\* answers as it did in development: files that are marked as partials or not
\* are found under the same names.  Marked directories are the known exception.
Current == ~installed /\ linked # NoBundle /\ linked.read = files
PlainDirectories ==
    \A path \in DOMAIN files : compiler_logical_name(Front(path)) = Front(path)

Answers(lib, data, path) ==
    <<render_status([lib |-> lib, data |-> data], path, "200"),
      render_without_layout([lib |-> lib, data |-> data], path)>>

CompiledAlike ==
    Current /\ PlainDirectories =>
       \A path \in Visitable, data \in Contexts :
          Answers([files |-> files, bundle |-> NoViews], data, path)
            = Answers([files |-> NoViews, bundle |-> linked.views], data, path)

\* The text of a draft is on no page for anyone but its author and the admins:
\* not on an error page, nor after the session was lost halfway through.
Shows(html, text) ==
    text # <<>> /\ \E i \in 0 .. Len(html) - Len(text) : SubSeq(html, i + 1, i + Len(text)) = text

DraftsStayPrivate ==
    \A r \in Requests :
       /\ req[r].kind \in {"show", "edit"} /\ req[r].post # NoRow /\ ~req[r].post.published
       /\ Shows(sent[r].response.html, html_escape(Text[req[r].post.content]))
       => MayManage(req[r].by, req[r].post)
=============================================================================
