------------------------------- MODULE Posts --------------------------------
(***************************************************************************)
(* src/src/model/model.c under src/examples/posts: records of one table,   *)
(* read and written by requests that run in processes of their own.  Every *)
(* SQL statement is a step; what a handler does between two statements     *)
(* belongs to the step before.  A statement may fail (busy, full, I/O) and *)
(* then has no effect; a process may die between any two.                  *)
(***************************************************************************)
EXTENDS Naturals, FiniteSets

CONSTANTS
    Requests,  \* one process each
    Users,     \* rows of the users table; the application deletes none
    Admins,    \* those with is_admin
    Contents,  \* what may be posted
    Valid,     \* what validate_post lets pass
    Blank,     \* what is stored when the copy of the content failed
    None,
    MaxPosts,  \* bound: rows ever inserted
    MaxFaults  \* bound: failed statements, failed allocations and deaths

ASSUME PostsAssumption ==
    /\ Admins \subseteq Users /\ None \notin Users
    /\ Valid \subseteq Contents /\ Blank \notin Valid
    /\ MaxPosts \in Nat /\ MaxFaults \in Nat

VARIABLES
    posts,  \* the table: a function from ids to rows
    lastId, \* its AUTOINCREMENT counter
    req,    \* the state of every request
    faults, \* bookkeeping: failures so far
    spoilt  \* bookkeeping: requests in which an allocation failed

postsVars == <<posts, lastId, req, faults, spoilt>>

Ids == 1 .. MaxPosts
Row == [owner : Users, content : Contents \cup {Blank}, published : BOOLEAN, dated : BOOLEAN]
SoundRow == {row \in Row : row.content \in Valid /\ (row.published => row.dated)}
NoRow == [owner |-> None, content |-> Blank, published |-> FALSE, dated |-> FALSE]

Kinds == {"show", "new", "edit", "create", "update", "destroy"}
Form == [content : Contents, publish : BOOLEAN]
NoForm == [content |-> Blank, publish |-> FALSE]

\* viewer: the user the page is made for.  view: the page, if it is one.
NoAnswer == [status |-> "none", view |-> "none", viewer |-> None]
Answer == [status : {"none", "200", "422", "403", "404", "500", "login", "done"},
           view : {"none", "show", "edit", "new", "error"}, viewer : Users \cup {None}]

\* by: whose session the request came with (bookkeeping once that is lost).
Fresh == [pc |-> "new", kind |-> "show", by |-> None, user |-> None, id |-> 0,
          form |-> NoForm, post |-> NoRow, viewer |-> None, answer |-> NoAnswer]

Query ==
    [pc : {"new", "guard", "handler", "viewer", "load", "owner", "author", "form", "write",
           "reload", "prepare", "done"},
     kind : Kinds, by : Users \cup {None}, user : Users \cup {None}, id : 0 .. MaxPosts,
     form : Form \cup {NoForm}, post : Row \cup {NoRow}, viewer : Users \cup {None},
     answer : Answer]

\* The types of the variables.
PostsTypeOK ==
    /\ lastId \in 0 .. MaxPosts
    /\ \E ids \in SUBSET (1 .. lastId) : posts \in [ids -> Row]
    /\ req \in [Requests -> Query]
    /\ faults \in 0 .. MaxFaults
    /\ spoilt \subseteq Requests

\* Whatever was posted before; rows that a migration carried over are taken to
\* be as sound.
PostsInit ==
    /\ lastId \in 0 .. MaxPosts
    /\ \E ids \in SUBSET (1 .. lastId) : posts \in [ids -> SoundRow]
    /\ req = [r \in Requests |-> Fresh]
    /\ faults = 0 /\ spoilt = {}

-----------------------------------------------------------------------------
(* What a step makes of a request.                                         *)

At(r, pc) == req[r].pc = pc
Redirected(q, status) == [q EXCEPT !.pc = "done", !.answer.status = status]
\* blog_render and blog_error look the user up once more, see blog_prepare_view.
Page(q, status, view) ==
    [q EXCEPT !.pc = "prepare", !.answer.status = status, !.answer.view = view]
Refused(q) == Page(q, IF q.kind \in {"show", "edit"} THEN "404" ELSE "403", "error")
Failed(q) == Page(q, "500", "error")
Crashed(q) == [q EXCEPT !.pc = "done", !.answer = NoAnswer]
Is(r, q) == req' = [req EXCEPT ![r] = q]
Goes(r, pc) == Is(r, [req[r] EXCEPT !.pc = pc])

Fault == faults < MaxFaults /\ faults' = faults + 1
NoFault == UNCHANGED faults
Table == UNCHANGED <<posts, lastId>>
Reads == Table /\ UNCHANGED spoilt

\* blog_current_user logs a user out whose row it could not read.
LoggedOut(q) == [q EXCEPT !.user = None, !.viewer = None]

MayManage(user, post) == user # None /\ (user \in Admins \/ user = post.owner)

-----------------------------------------------------------------------------
(* Steps of a request, up to the statement that writes.                    *)

Begins(r, kind, user, id, form) ==
    /\ At(r, "new")
    /\ Is(r, [Fresh EXCEPT !.pc = IF kind = "show" THEN "viewer" ELSE "guard",
                           !.kind = kind, !.by = user, !.user = user, !.id = id, !.form = form])
    /\ NoFault /\ Reads

Arrive(r) ==
    \E user \in Users \cup {None} :
       \/ Begins(r, "new", user, 0, NoForm)
       \/ \E kind \in {"show", "edit", "destroy"}, id \in Ids : Begins(r, kind, user, id, NoForm)
       \/ \E form \in Form :
             \/ Begins(r, "create", user, 0, form)
             \/ \E id \in Ids : Begins(r, "update", user, id, form)

\* A request for a handler that has nothing to do with posts.
ArriveElsewhere(r) == At(r, "new") /\ Goes(r, "done") /\ NoFault /\ Reads

\* The route's guard and the handler ask the same question, one after the other.
require_authenticated_user(r) ==
    /\ At(r, "guard") \/ At(r, "handler")
    /\ \/ /\ req[r].user # None
          /\ CASE At(r, "guard") -> Goes(r, "handler")
               [] At(r, "handler") /\ req[r].kind = "new" -> Is(r, Page(req[r], "200", "new"))
               [] At(r, "handler") /\ req[r].kind = "create" -> Goes(r, "viewer")
               [] OTHER -> Goes(r, "load")
          /\ NoFault
       \/ req[r].user = None /\ Is(r, Redirected(req[r], "login")) /\ NoFault
       \/ req[r].user # None /\ Is(r, Redirected(LoggedOut(req[r]), "login")) /\ Fault
    /\ Reads

\* blog_current_user in posts_show and, once more after the guards, in posts_create.
blog_current_user(r) ==
    LET next == IF req[r].kind = "show" THEN "load" ELSE "form"
    IN  /\ At(r, "viewer")
        /\ \/ Is(r, [req[r] EXCEPT !.pc = next, !.viewer = req[r].user]) /\ NoFault
           \/ req[r].user # None /\ Is(r, [LoggedOut(req[r]) EXCEPT !.pc = next]) /\ Fault
        /\ Reads

\* A bug: drafts are hidden from guests only.
HiddenFromGuests(q, post) == q.kind = "show" /\ ~post.published /\ q.viewer = None

\* posts_show refuses a draft right away; the others ask next who it is.
Hidden(q, post) == q.kind = "show" /\ ~post.published /\ ~MayManage(q.viewer, post)

Holding(q, post) ==
    [q EXCEPT !.pc = IF q.kind = "show" THEN "author" ELSE "owner", !.post = post]

\* model_map_row does not ask whether there was memory for a copy of a text.
Truncated(post) == {[post EXCEPT !.content = Blank], [post EXCEPT !.dated = FALSE]}

post_find(r) ==
    /\ At(r, "load")
    /\ \/ /\ req[r].id \in DOMAIN posts /\ ~Hidden(req[r], posts[req[r].id])
          /\ \/ Is(r, Holding(req[r], posts[req[r].id])) /\ NoFault /\ UNCHANGED spoilt
             \/ /\ \E post \in Truncated(posts[req[r].id]) : Is(r, Holding(req[r], post))
                /\ Fault /\ spoilt' = spoilt \cup {r}
       \/ /\ req[r].id \in DOMAIN posts => Hidden(req[r], posts[req[r].id])
          /\ Is(r, Refused(req[r])) /\ NoFault /\ UNCHANGED spoilt
       \/ Is(r, Refused(req[r])) /\ Fault /\ UNCHANGED spoilt
    /\ Table

\* The end of load_owned_post.
load_owned_post(r) ==
    /\ At(r, "owner")
    /\ \/ /\ MayManage(req[r].user, req[r].post)
          /\ CASE req[r].kind = "edit" -> Is(r, Page(req[r], "200", "edit"))
               [] req[r].kind = "update" -> Goes(r, "form")
               [] OTHER -> Goes(r, "write")
          /\ NoFault
       \/ ~MayManage(req[r].user, req[r].post) /\ Is(r, Refused(req[r])) /\ NoFault
       \/ Is(r, Refused(LoggedOut(req[r]))) /\ Fault
    /\ Reads

\* blog_render_post_show: the row of the author, and the comments.
blog_render_post_show(r) ==
    /\ At(r, "author")
    /\ \/ Is(r, Page(req[r], "200", "show")) /\ NoFault
       \/ Is(r, Failed(req[r])) /\ Fault
    /\ Reads

\* A bug: only posts_create sets the date.
EditedUndated(q, content, clock) ==
    [owner |-> IF q.kind = "create" THEN q.user ELSE q.post.owner,
     content |-> content,
     published |-> q.form.publish,
     dated |-> IF q.kind = "create" /\ q.form.publish THEN clock ELSE q.post.dated]

\* What posts_create and posts_update hand to the model; a post that becomes
\* published gets a date, unless there is no memory for it.
Edited(q, content, clock) ==
    [owner |-> IF q.kind = "create" THEN q.user ELSE q.post.owner,
     content |-> content,
     published |-> q.form.publish,
     dated |-> IF q.form.publish /\ ~q.post.published THEN clock ELSE q.post.dated]

\* A bug: a post of nobody.
SubmitsAnonymous(r, content, clock) ==
    Is(r, [req[r] EXCEPT !.pc = "write", !.post = Edited(req[r], content, clock)])

\* posts_create takes the id of its user without asking whether there is one.
Submits(r, content, clock) ==
    Is(r, IF req[r].user = None THEN Crashed(req[r])
          ELSE [req[r] EXCEPT !.pc = "write", !.post = Edited(req[r], content, clock)])

\* Without memory an error that validation_errors_add cannot store is forgotten,
\* and the content or the date that cannot be copied is stored empty.
validate_post(r) ==
    /\ At(r, "form")
    /\ \/ /\ req[r].form.content \in Valid /\ Submits(r, req[r].form.content, TRUE)
          /\ NoFault /\ UNCHANGED spoilt
       \/ /\ req[r].form.content \notin Valid
          /\ Is(r, Page(req[r], "422", IF req[r].kind = "create" THEN "new" ELSE "edit"))
          /\ NoFault /\ UNCHANGED spoilt
       \/ /\ \/ Submits(r, req[r].form.content, FALSE)
             \/ req[r].form.content \in Valid /\ Submits(r, Blank, TRUE)
          /\ Fault /\ spoilt' = spoilt \cup {r}
    /\ Table

-----------------------------------------------------------------------------
(* The statements that write, and what follows them.                       *)

\* A bug: without AUTOINCREMENT the id after the largest one is taken.
NewIdReused == CHOOSE n \in 1 .. MaxPosts + 1 :
    (\A id \in DOMAIN posts : id < n) /\ (n = 1 \/ n - 1 \in DOMAIN posts)

\* AUTOINCREMENT: an id that was used once is not used again.
NewId == lastId + 1

Inserted(post) == [id \in DOMAIN posts \cup {NewId} |-> IF id = NewId THEN post ELSE posts[id]]

model_insert(r) ==
    /\ At(r, "write") /\ req[r].kind = "create"
    /\ \/ /\ lastId < MaxPosts
          /\ posts' = Inserted(req[r].post) /\ lastId' = NewId
          /\ Is(r, [req[r] EXCEPT !.pc = "reload", !.id = NewId])
          /\ NoFault
       \/ Is(r, Failed(req[r])) /\ Fault /\ Table
    /\ UNCHANGED spoilt

\* The UPDATE finds no row when the post was deleted after it was loaded.
\* posts_update asks whether the result is zero: an error, -1, counts as done.
model_update(r) ==
    /\ At(r, "write") /\ req[r].kind = "update"
    /\ \/ /\ req[r].id \in DOMAIN posts
          /\ posts' = [posts EXCEPT ![req[r].id] =
                          [req[r].post EXCEPT !.owner = posts[req[r].id].owner]]
          /\ Goes(r, "reload") /\ NoFault
       \/ req[r].id \notin DOMAIN posts /\ Is(r, Failed(req[r])) /\ NoFault /\ UNCHANGED posts
       \/ Is(r, Redirected(req[r], "done")) /\ Fault /\ UNCHANGED posts
    /\ UNCHANGED <<lastId, spoilt>>

\* model_find of the row just written: for posts_create its loss is a failure.
ModelReloads(r) ==
    /\ At(r, "reload")
    /\ \/ req[r].id \in DOMAIN posts /\ Is(r, Redirected(req[r], "done")) /\ NoFault
       \/ /\ req[r].kind = "create"
          /\ Is(r, Failed(req[r]))
          /\ \/ req[r].id \notin DOMAIN posts /\ NoFault
             \/ Fault
       \/ /\ req[r].kind = "update"
          /\ Is(r, Redirected(req[r], "done"))
          /\ \/ req[r].id \notin DOMAIN posts /\ NoFault
             \/ Fault
    /\ Reads

\* A bug: no look at the number of changes.
DeletedAlways(r) == TRUE

\* database_changes tells the one request that deleted the row from the others.
Deleted(r) == req[r].id \in DOMAIN posts

model_destroy(r) ==
    /\ At(r, "write") /\ req[r].kind = "destroy"
    /\ \/ /\ posts' = [id \in DOMAIN posts \ {req[r].id} |-> posts[id]]
          /\ Is(r, IF Deleted(r) THEN Redirected(req[r], "done") ELSE Failed(req[r]))
          /\ NoFault
       \/ Is(r, Failed(req[r])) /\ Fault /\ UNCHANGED posts
    /\ UNCHANGED <<lastId, spoilt>>

\* The user of the page, asked for again.
blog_prepare_view(r) ==
    /\ At(r, "prepare")
    /\ \/ Is(r, [req[r] EXCEPT !.pc = "done", !.answer.viewer = req[r].user]) /\ NoFault
       \/ req[r].user # None /\ Is(r, [LoggedOut(req[r]) EXCEPT !.pc = "done"]) /\ Fault
    /\ Reads

Dies(r) ==
    /\ req[r].pc \notin {"new", "done"}
    /\ Is(r, Crashed(req[r])) /\ Fault /\ Reads

PostsStep(r) ==
    \/ require_authenticated_user(r) \/ blog_current_user(r) \/ post_find(r)
    \/ load_owned_post(r) \/ blog_render_post_show(r) \/ validate_post(r)
    \/ model_insert(r) \/ model_update(r) \/ ModelReloads(r) \/ model_destroy(r)
    \/ blog_prepare_view(r) \/ Dies(r)

PostsNext == \E r \in Requests : Arrive(r) \/ ArriveElsewhere(r) \/ PostsStep(r)

PostsSpec == PostsInit /\ [][PostsNext]_postsVars

-----------------------------------------------------------------------------
(* Properties.                                                             *)

Told(r, kind) == req[r].kind = kind /\ req[r].answer.status = "done"

\* A post changes or disappears only by a request of its owner or of an admin,
\* although the handlers compare the user with a copy of the post that may be
\* old by then (load_owned_post, and then the UPDATE or DELETE by id).
OwnerOnly ==
    [][\A id \in DOMAIN posts :
          \/ id \in DOMAIN posts' /\ posts'[id] = posts[id]
          \/ \E r \in Requests : /\ req[r].id = id /\ req'[r] # req[r]
                                 /\ MayManage(req[r].by, posts[id])]_postsVars

\* Whatever the requests between load and UPDATE did, a stored post is valid and
\* a published one has its date, unless a process ran out of memory.
RowsSound == spoilt = {} => \A id \in DOMAIN posts : posts[id] \in SoundRow

\* Who is told "Post deleted." did delete it, alone and for good; who is sent to
\* the post he created is sent to that post and nobody else's.
ToldIsDone ==
    \A r \in Requests :
        /\ Told(r, "destroy") =>
              /\ req[r].id \notin DOMAIN posts
              /\ \A other \in Requests \ {r} : Told(other, "destroy") => req[other].id # req[r].id
        /\ Told(r, "create") =>
              /\ \A other \in Requests \ {r} : Told(other, "create") => req[other].id # req[r].id
              /\ req[r].id \in DOMAIN posts => posts[req[r].id].owner = req[r].by
=============================================================================
