------------------------------- MODULE MCBlog -------------------------------
(* Small instances of Blog for TLC: each initial state is a scenario.       *)
EXTENDS Blog

T(text) == [kind |-> "text", name |-> <<text>>]
V(path) == [kind |-> "var", name |-> path]
If(name) == [kind |-> "#", name |-> <<name>>]
Unless(name) == [kind |-> "^", name |-> <<name>>]
Fi(name) == [kind |-> "/", name |-> <<name>>]
P(path) == [kind |-> ">", name |-> path]
Yield == [kind |-> "yield", name |-> <<"yield">>]

MCIdentifiers ==
    {"c", "d", "f", "page_title", "signed_in", "csrf_token", "post", "content",
     "comments", "editing", "errors", "message", "content_error"}
MCSegments ==
    {"a", "p", "layouts", "application", "posts", "errors", "show", "edit", "new", "form",
     "403", "404", "500"}

MCPrivate == {"&lt;", "g", "b"}
MCText == "good" :> <<"<", "g">> @@ "bad" :> <<"b">> @@ "blank" :> <<>>

\* c: no, one or two records; d: what it hides when it is a flag, and what
\* becomes of markup when it is a string.
Record(text) == [f |-> view_string(<<text>>)]
MCContexts ==
    {[c |-> view_collection(rows), d |-> d] :
        rows \in {<<>>, <<Record("1"), Record("&")>>}, d \in {view_bool(FALSE), view_string(<<"<">>)}}
MCVisitable == {<<"a">>, <<"p">>}

NoRequests == [edits |-> 0, runs |-> 0, visits |-> 0, requests |-> 0]

-----------------------------------------------------------------------------
(* One page, visited once: every short sequence of tokens around a partial  *)
(* and inside a layout.                                                     *)

CONSTANT PageLength \* bound: tokens of the page, but for a section around it

Tokens == {T("t"), V(<<"f">>), V(<<"d">>), If("c"), Unless("c"), Fi("c"), If("d"),
           Fi("d"), P(<<"p">>), Yield}

ShortPages == {page \in BoundedSeq(Tokens, PageLength) : IsSource(page)}
Pages ==
    ShortPages
      \cup {<<If("c")>> \o page \o <<Fi("c")>> : page \in ShortPages}
      \cup {<<If("d")>> \o page \o <<Fi("d")>> : page \in ShortPages}

PageFiles(page) ==
    <<"a">> :> page
    @@ <<"_p">> :> <<If("c"), V(<<"f">>), Fi("c")>>
    @@ Layout :> <<T("L"), Yield, T("L")>>

PageInit ==
    /\ \E page \in Pages : files = PageFiles(page)
    /\ budget = [NoRequests EXCEPT !.visits = 1]
    /\ posts = <<>> /\ lastId = 0

-----------------------------------------------------------------------------
(* Files that include each other, compiled while they are edited.           *)

Includes == {<<T("t")>>, <<P(<<"a">>)>>, <<P(<<"p">>), P(<<"p">>)>>, <<If("c")>>}
Names == {<<"a">>, <<"_p">>, <<"p">>}

MCEdits == [path : {<<"a">>, <<"p">>}, source : {<<T("t")>>, <<P(<<"p">>)>>}]

SiteInit ==
    /\ \E names \in (SUBSET Names) \ {{}} : files \in [names -> Includes]
    /\ budget = [edits |-> 1, runs |-> 1, visits |-> 1, requests |-> 0]
    /\ posts = <<>> /\ lastId = 0

TwoCompilersInit ==
    /\ files = <<"a">> :> <<P(<<"p">>)>> @@ <<"_p">> :> <<T("t")>>
    /\ budget = [edits |-> 2, runs |-> 2, visits |-> 0, requests |-> 0]
    /\ posts = <<>> /\ lastId = 0

-----------------------------------------------------------------------------
(* The example application, with its own templates cut to what matters.     *)

BlogFiles ==
    Layout :> <<V(<<"page_title">>), If("signed_in"), V(<<"csrf_token">>),
                Fi("signed_in"), Yield>>
    @@ <<"posts", "show">> :>
         <<V(<<"post", "content">>), Unless("comments"), T("none"), Fi("comments"),
           If("signed_in"), V(<<"csrf_token">>), Fi("signed_in")>>
    @@ <<"posts", "edit">> :> <<T("edit"), P(<<"posts", "form">>)>>
    @@ <<"posts", "new">> :> <<T("new"), P(<<"posts", "form">>)>>
    @@ <<"posts", "_form">> :>
         <<V(<<"csrf_token">>), If("editing"), T("patch"), Fi("editing"), If("errors"),
           V(<<"message">>), Fi("errors"), V(<<"content">>), If("content_error"),
           V(<<"content_error">>), Fi("content_error")>>
    @@ <<"errors", "403">> :> <<T("403")>>
    @@ <<"errors", "404">> :> <<T("404")>>
    @@ <<"errors", "500">> :> <<T("500")>>

\* bounds: requests that may fail, and requests that may not; these only write,
\* and two of them at most overlap.
CONSTANTS Overlap, Series

Begun == {r \in Requests : ~At(r, "new")}
Writes(r) ==
    /\ req[r].kind \in {"create", "update", "destroy"}
    /\ req[r].by # None /\ req[r].form \in {NoForm, [content |-> "good", publish |-> TRUE]}
OnlySeries ==
    budget.requests + Cardinality(Begun) = Series =>
       /\ \A r \in Begun : Writes(r)
       /\ Cardinality({r \in Begun : ~At(r, "done")}) <= 2

ServeInit(n) ==
    /\ files = BlogFiles
    /\ budget = [NoRequests EXCEPT !.requests = n]
    /\ \E user \in Users \ Admins, published \in BOOLEAN :
          posts = 1 :> [owner |-> user, content |-> "good", published |-> published,
                        dated |-> published]
    /\ lastId = 1

-----------------------------------------------------------------------------

MCInit ==
    /\ ViewInit
    /\ sent = [r \in Requests |-> NoPage]
    /\ req = [r \in Requests |-> Fresh] /\ spoilt = {}
    /\ \/ (PageInit \/ SiteInit \/ TwoCompilersInit \/ ServeInit(Overlap)) /\ faults = 0
       \/ ServeInit(Series) /\ faults = MaxFaults

MCSpec == MCInit /\ [][Next]_blogVars

\* No definition of Blog tells requests or compilers apart.
Symmetry == Permutations(Requests) \cup Permutations(Compilers)
=============================================================================
