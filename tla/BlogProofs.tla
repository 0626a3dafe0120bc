---------------------------- MODULE BlogProofs ----------------------------
(***************************************************************************)
(* What holds of Posts, the templates, the compiler and the pages of Blog, *)
(* for every number of requests, users, posts and failures and for every   *)
(* template, site and text.  First Posts by itself; Blog refines it.       *)
(***************************************************************************)
EXTENDS Blog, Induction

-----------------------------------------------------------------------------
(* The invariant: what a handler remembers of a post is true of the row as *)
(* long as there is one, because nothing changes the owner of a row and no *)
(* id is given out twice.                                                  *)

\* The request has read the post that it is about to write.
Claims(q) == q.kind \notin {"show", "create"} /\ q.pc \in {"owner", "form", "write"}

\* The requests that come to a step.
KindsAt(pc) ==
    CASE pc = "viewer" -> {"show", "create"}
      [] pc = "load"   -> {"show", "edit", "update", "destroy"}
      [] pc = "owner"  -> {"edit", "update", "destroy"}
      [] pc = "form"   -> {"create", "update"}
      [] pc = "write"  -> {"create", "update", "destroy"}
      [] OTHER         -> Kinds

QueryInv(q, table, last) ==
    /\ q.kind \in KindsAt(q.pc)
    /\ q.user # None => q.user = q.by
    /\ q.pc = "write" => q.user # None
    /\ q.pc = "write" /\ q.kind = "create" => q.post \in Row
    /\ Claims(q) =>
          /\ q.post \in Row /\ q.id \in 1 .. last
          /\ q.id \in DOMAIN table => table[q.id].owner = q.post.owner
    /\ Claims(q) /\ q.pc # "owner" => MayManage(q.user, q.post)

SoundInv(q, ran) ==
    ran = {} =>
       /\ q.post.published => q.post.dated
       /\ q.pc = "write" /\ q.kind \in {"create", "update"} => q.post.content \in Valid

IInv ==
    /\ PostsTypeOK
    /\ \A r \in Requests : QueryInv(req[r], posts, lastId) /\ SoundInv(req[r], spoilt)
    /\ RowsSound

-----------------------------------------------------------------------------

\* A step of one request that leaves owners and ids alone disturbs no other.
LEMMA OneRequest ==
    ASSUME PostsAssumption, IInv, NEW r \in Requests,
           NEW q \in Query, Is(r, q),
           QueryInv(q, posts', lastId'), SoundInv(q, spoilt'),
           lastId' \in lastId .. MaxPosts, faults' \in 0 .. MaxFaults,
           spoilt \subseteq spoilt', spoilt' \subseteq Requests,
           \E ids \in SUBSET (1 .. lastId') : posts' \in [ids -> Row],
           \A id \in DOMAIN posts' \cap 1 .. lastId :
              id \in DOMAIN posts /\ posts'[id].owner = posts[id].owner,
           RowsSound'
    PROVE  IInv'
<1>1. req' \in [Requests -> Query] /\ req' = [req EXCEPT ![r] = q] /\ req'[r] = q
  BY DEF Is, IInv, PostsTypeOK
<1>2. PostsTypeOK'
  BY <1>1 DEF IInv, PostsTypeOK, PostsAssumption
<1>3. ASSUME NEW p \in Requests
      PROVE  QueryInv(req'[p], posts', lastId') /\ SoundInv(req'[p], spoilt')
  <2>1. CASE p = r
    BY <1>1, <2>1
  <2>2. CASE p # r
    <3>1. req'[p] = req[p] /\ QueryInv(req[p], posts, lastId) /\ SoundInv(req[p], spoilt)
      BY <1>1, <2>2 DEF IInv, PostsTypeOK
    <3>2. SoundInv(req[p], spoilt')
      BY <3>1 DEF SoundInv
    <3>3. QueryInv(req[p], posts', lastId')
      BY <3>1 DEF QueryInv, IInv, PostsTypeOK
    <3> QED
      BY <3>1, <3>2, <3>3
  <2> QED
    BY <2>1, <2>2
<1> QED
  BY <1>2, <1>3 DEF IInv

\* In particular one that writes nothing.
LEMMA Becomes ==
    ASSUME PostsAssumption, IInv, NEW r \in Requests, NEW q \in Query, Is(r, q),
           Reads, NoFault \/ Fault,
           QueryInv(q, posts, lastId), SoundInv(q, spoilt)
    PROVE  IInv'
<1>1. posts' = posts /\ lastId' = lastId /\ spoilt' = spoilt
  BY DEF Reads, Table
<1>2. faults' \in 0 .. MaxFaults
  BY DEF IInv, PostsTypeOK, NoFault, Fault, PostsAssumption
<1>3. lastId' \in lastId .. MaxPosts /\ spoilt' \subseteq Requests /\ RowsSound'
  BY <1>1 DEF IInv, PostsTypeOK, RowsSound
<1>4. \E ids \in SUBSET (1 .. lastId') : posts' \in [ids -> Row]
  BY <1>1 DEF IInv, PostsTypeOK
<1>5. QueryInv(q, posts', lastId') /\ SoundInv(q, spoilt')
  BY <1>1
<1> QED
  BY <1>1, <1>2, <1>3, <1>4, <1>5, OneRequest

\* Or one that finds no memory for a copy.
LEMMA Spoils ==
    ASSUME PostsAssumption, IInv, NEW r \in Requests, NEW q \in Query, Is(r, q), Table,
           \/ NoFault /\ UNCHANGED spoilt
           \/ Fault /\ spoilt' = spoilt \cup {r},
           QueryInv(q, posts, lastId), SoundInv(q, spoilt')
    PROVE  IInv'
<1>1. posts' = posts /\ lastId' = lastId
  BY DEF Table
<1>2. /\ faults' \in 0 .. MaxFaults /\ spoilt \subseteq spoilt' /\ spoilt' \subseteq Requests
      /\ lastId' \in lastId .. MaxPosts
  BY <1>1 DEF IInv, PostsTypeOK, NoFault, Fault, PostsAssumption
<1>3. RowsSound'
  BY <1>1, <1>2 DEF RowsSound, IInv
<1>4. \E ids \in SUBSET (1 .. lastId') : posts' \in [ids -> Row]
  BY <1>1 DEF IInv, PostsTypeOK
<1>5. QueryInv(q, posts', lastId')
  BY <1>1
<1>6. \A id \in DOMAIN posts' \cap 1 .. lastId :
         id \in DOMAIN posts /\ posts'[id].owner = posts[id].owner
  BY <1>1
<1> QED
  BY <1>2, <1>3, <1>4, <1>5, <1>6, OneRequest

\* A request that has nothing to write any more keeps the invariant by itself.
LEMMA Leaves ==
    ASSUME PostsAssumption, IInv, NEW r \in Requests, NEW q \in Query, Is(r, q),
           Reads, NoFault \/ Fault,
           q.pc \notin {"owner", "form", "write"},
           q.kind \in KindsAt(q.pc),
           q.user \in {req[r].user, None}, q.by = req[r].by, q.post = req[r].post
    PROVE  IInv'
<1>1. QueryInv(req[r], posts, lastId) /\ SoundInv(req[r], spoilt)
  BY DEF IInv
<1>2. QueryInv(q, posts, lastId)
  BY <1>1 DEF QueryInv, Claims
<1>3. SoundInv(q, spoilt)
  BY <1>1 DEF SoundInv
<1> QED
  BY <1>2, <1>3, Becomes

\* What the ways to end a request make of it.
LEMMA EndsInv ==
    ASSUME NEW q \in Query
    PROVE  /\ \A status \in {"login", "done"} : Redirected(q, status) \in Query
           /\ \A status \in {"200", "422"}, view \in {"new", "edit", "show"} :
                 Page(q, status, view) \in Query
           /\ Refused(q) \in Query /\ Failed(q) \in Query /\ Crashed(q) \in Query
           /\ LoggedOut(q) \in Query
<1>1. q.answer \in Answer
  BY DEF Query
<1>2. ASSUME NEW answer \in Answer, NEW pc \in {"done", "prepare"}
      PROVE  [q EXCEPT !.pc = pc, !.answer = answer] \in Query
  BY DEF Query
<1>3. ASSUME NEW status \in {"login", "done"}
      PROVE  Redirected(q, status) \in Query
  <2>1. [q.answer EXCEPT !.status = status] \in Answer
    BY <1>1 DEF Answer
  <2>2. Redirected(q, status) =
           [q EXCEPT !.pc = "done", !.answer = [q.answer EXCEPT !.status = status]]
    BY DEF Redirected, Query
  <2> QED
    BY <1>2, <2>1, <2>2
<1>4. ASSUME NEW status \in {"200", "422", "403", "404", "500"},
             NEW view \in {"new", "edit", "show", "error"}
      PROVE  Page(q, status, view) \in Query
  <2>1. [q.answer EXCEPT !.status = status, !.view = view] \in Answer
    BY <1>1 DEF Answer
  <2>2. Page(q, status, view) =
           [q EXCEPT !.pc = "prepare",
                     !.answer = [q.answer EXCEPT !.status = status, !.view = view]]
    BY DEF Page, Query
  <2> QED
    BY <1>2, <2>1, <2>2
<1>5. Refused(q) \in Query /\ Failed(q) \in Query
  BY <1>4 DEF Refused, Failed
<1>6. NoAnswer \in Answer
  BY DEF NoAnswer, Answer
<1>7. Crashed(q) \in Query
  BY <1>2, <1>6 DEF Crashed
<1>8. LoggedOut(q) \in Query
  BY DEF LoggedOut, Query
<1> QED
  BY <1>3, <1>4, <1>5, <1>7, <1>8

-----------------------------------------------------------------------------
(* Every step keeps the invariant.                                         *)

\* The state of a request is one of its states.
LEMMA OneQuery == ASSUME IInv, NEW r \in Requests PROVE req[r] \in Query
  BY DEF IInv, PostsTypeOK

\* Whatever was posted before, no request has read any of it.
LEMMA InitInv == ASSUME PostsAssumption, PostsInit PROVE IInv
<1>1. Fresh \in Query
  BY DEF Fresh, Query, Kinds, Answer, NoAnswer, NoForm, NoRow
<1>2. QueryInv(Fresh, posts, lastId) /\ SoundInv(Fresh, spoilt)
  BY DEF QueryInv, SoundInv, Claims, Fresh, NoRow, KindsAt, Kinds
<1>3. SoundRow \subseteq Row
  BY DEF SoundRow
<1>4. PostsTypeOK
  <2>1. PICK ids \in SUBSET (1 .. lastId) : posts \in [ids -> SoundRow]
    BY DEF PostsInit
  <2>2. posts \in [ids -> Row]
    BY <2>1, <1>3
  <2> QED
    BY <1>1, <2>2 DEF PostsInit, PostsTypeOK, PostsAssumption
<1>5. RowsSound
  BY DEF RowsSound, PostsInit
<1> QED
  BY <1>2, <1>4, <1>5 DEF IInv, PostsInit

\* A request begins with nothing read.
LEMMA BeginsInv ==
    ASSUME PostsAssumption, IInv, NEW r \in Requests, NEW kind \in Kinds,
           NEW user \in Users \cup {None}, NEW id \in 0 .. MaxPosts,
           NEW form \in Form \cup {NoForm}, Begins(r, kind, user, id, form)
    PROVE  IInv'
<1> DEFINE q == [Fresh EXCEPT !.pc = IF kind = "show" THEN "viewer" ELSE "guard",
                              !.kind = kind, !.by = user, !.user = user, !.id = id,
                              !.form = form]
<1>1. q \in Query
  <2>1. PICK pc \in {"viewer", "guard"} : q = [Fresh EXCEPT !.pc = pc, !.kind = kind, !.by = user,
                                                !.user = user, !.id = id, !.form = form]
    OBVIOUS
  <2> HIDE DEF q
  <2>2. q = [pc |-> pc, kind |-> kind, by |-> user, user |-> user, id |-> id, form |-> form,
             post |-> NoRow, viewer |-> None, answer |-> NoAnswer]
    BY <2>1 DEF Fresh
  <2>3. NoAnswer \in Answer
    BY DEF NoAnswer, Answer
  <2> QED
    BY <2>2, <2>3 DEF Query
<1>2. QueryInv(q, posts, lastId) /\ SoundInv(q, spoilt)
  BY DEF QueryInv, SoundInv, Claims, Fresh, NoRow, KindsAt, Kinds
<1>3. Is(r, q) /\ NoFault /\ Reads
  BY DEF Begins
<1> HIDE DEF q
<1> QED
  BY <1>1, <1>2, <1>3, Becomes

\* Whichever request it is.
LEMMA ArriveInv ==
    ASSUME PostsAssumption, IInv, NEW r \in Requests, Arrive(r)
    PROVE  IInv'
<1>1. PICK user \in Users \cup {None} :
         \/ Begins(r, "new", user, 0, NoForm)
         \/ \E kind \in {"show", "edit", "destroy"}, id \in Ids : Begins(r, kind, user, id, NoForm)
         \/ \E form \in Form :
               \/ Begins(r, "create", user, 0, form)
               \/ \E id \in Ids : Begins(r, "update", user, id, form)
  BY DEF Arrive
<1>2. 0 \in 0 .. MaxPosts /\ Ids \subseteq 0 .. MaxPosts
  BY DEF Ids, PostsAssumption
<1>3. {"show", "edit", "destroy", "new", "create", "update"} \subseteq Kinds
  BY DEF Kinds
<1> QED
  BY <1>1, <1>2, <1>3, BeginsInv

\* A request for something else reads nothing.
LEMMA ElsewhereInv ==
    ASSUME PostsAssumption, IInv, NEW r \in Requests, ArriveElsewhere(r)
    PROVE  IInv'
<1>1. req[r] \in Query
  BY OneQuery
<1>2. [req[r] EXCEPT !.pc = "done"] \in Query
  BY <1>1 DEF Query
<1> QED
  BY <1>1, <1>2, Leaves DEF ArriveElsewhere, Goes, Query, KindsAt

\* An answer ends what a request has to write.
Answering(q, p) ==
    \/ \E status \in {"login", "done"} : p = Redirected(q, status)
    \/ \E status \in {"200", "422"}, view \in {"new", "edit", "show"} : p = Page(q, status, view)
    \/ p \in {Refused(q), Failed(q), Crashed(q)}

\* It leaves alone whose the request is and what it has read.
LEMMA AnswerFields ==
    ASSUME NEW q \in Query, NEW p, Answering(q, p)
    PROVE  /\ p \in Query
           /\ p.pc \in {"done", "prepare"}
           /\ p.user = q.user /\ p.by = q.by /\ p.post = q.post
<1>1. p \in Query
  BY EndsInv DEF Answering
<1>2. /\ p.pc \in {"done", "prepare"}
      /\ p.user = q.user /\ p.by = q.by /\ p.post = q.post
  BY DEF Answering, Redirected, Page, Refused, Failed, Crashed, Query
<1> QED
  BY <1>1, <1>2

\* To answer and write nothing keeps the invariant, logged out meanwhile or not.
LEMMA AnswersInv ==
    ASSUME PostsAssumption, IInv, NEW r \in Requests, Reads, NoFault \/ Fault,
           NEW q \in {req[r], LoggedOut(req[r])}, NEW p, Answering(q, p), Is(r, p)
    PROVE  IInv'
<1>1. req[r] \in Query
  BY OneQuery
<1>2. q \in Query
  BY <1>1, EndsInv
<1>3. q.user \in {req[r].user, None} /\ q.by = req[r].by /\ q.post = req[r].post
  BY <1>1 DEF LoggedOut, Query
<1>4. /\ p \in Query /\ p.pc \in {"done", "prepare"}
      /\ p.user = q.user /\ p.by = q.by /\ p.post = q.post
  BY <1>2, AnswerFields
<1>5. p.kind \in KindsAt(p.pc)
  BY <1>4 DEF KindsAt, Query
<1> QED
  BY <1>3, <1>4, <1>5, Leaves

\* The guard and the handler ask who it is; the request has read nothing yet.
LEMMA RequireInv ==
    ASSUME PostsAssumption, IInv, NEW r \in Requests, require_authenticated_user(r)
    PROVE  IInv'
<1>1. req[r] \in Query
  BY OneQuery
<1>2. Reads /\ (NoFault \/ Fault)
  BY DEF require_authenticated_user
<1>3. CASE \E pc \in {"handler", "viewer", "load"} :
              Goes(r, pc) /\ req[r].kind \in KindsAt(pc)
  <2>1. PICK pc \in {"handler", "viewer", "load"} :
           Is(r, [req[r] EXCEPT !.pc = pc]) /\ req[r].kind \in KindsAt(pc)
    BY <1>3 DEF Goes
  <2>2. [req[r] EXCEPT !.pc = pc] \in Query
    BY <1>1 DEF Query
  <2> QED
    BY <1>1, <1>2, <2>1, <2>2, Leaves DEF Query
<1>4. CASE Is(r, Page(req[r], "200", "new"))
  BY <1>2, <1>4, AnswersInv DEF Answering
<1>5. CASE Is(r, Redirected(req[r], "login")) \/ Is(r, Redirected(LoggedOut(req[r]), "login"))
  BY <1>2, <1>5, AnswersInv DEF Answering
<1>6. \A pc \in {"handler", "viewer", "load"} :
         (pc = "viewer" => req[r].kind = "create") /\ (pc = "load" => req[r].kind \notin {"new", "create"})
            => req[r].kind \in KindsAt(pc)
  BY <1>1 DEF KindsAt, Query, Kinds
<1> QED
  BY <1>3, <1>4, <1>5, <1>6 DEF require_authenticated_user

\* A post to create is read from nowhere.
LEMMA ViewerInv ==
    ASSUME PostsAssumption, IInv, NEW r \in Requests, blog_current_user(r)
    PROVE  IInv'
<1>0. PICK next \in {"load", "form"} : next = IF req[r].kind = "show" THEN "load" ELSE "form"
  OBVIOUS
<1>1. req[r] \in Query /\ QueryInv(req[r], posts, lastId) /\ SoundInv(req[r], spoilt)
  BY OneQuery DEF IInv
<1>2. Reads /\ (NoFault \/ Fault) /\ req[r].kind \in {"show", "create"}
  BY <1>1 DEF blog_current_user, QueryInv, KindsAt, At
<1>3. PICK q \in {[req[r] EXCEPT !.pc = next, !.viewer = req[r].user],
                  [LoggedOut(req[r]) EXCEPT !.pc = next]} : Is(r, q)
  BY <1>0 DEF blog_current_user
<1>4. q \in Query
  <2>1. CASE q = [req[r] EXCEPT !.pc = next, !.viewer = req[r].user]
    BY <1>1, <2>1 DEF Query
  <2>2. CASE q = [LoggedOut(req[r]) EXCEPT !.pc = next]
    BY <1>1, <2>2 DEF LoggedOut, Query
  <2> QED
    BY <1>3, <2>1, <2>2
<1>5. /\ q.user \in {req[r].user, None} /\ q.by = req[r].by /\ q.post = req[r].post
      /\ q.kind = req[r].kind /\ q.pc = next
  <2>1. CASE q = [req[r] EXCEPT !.pc = next, !.viewer = req[r].user]
    BY <1>1, <2>1 DEF Query
  <2>2. CASE q = [LoggedOut(req[r]) EXCEPT !.pc = next]
    BY <1>1, <2>2 DEF LoggedOut, Query
  <2> QED
    BY <1>3, <2>1, <2>2
<1>6. QueryInv(q, posts, lastId)
  <2>1. q.kind \in KindsAt(q.pc) /\ q.pc # "write" /\ ~Claims(q)
    BY <1>0, <1>2, <1>5 DEF KindsAt, Claims
  <2> QED
    BY <1>1, <1>5, <2>1 DEF QueryInv
<1>7. SoundInv(q, spoilt)
  BY <1>1, <1>5 DEF SoundInv
<1> QED
  BY <1>2, <1>3, <1>4, <1>6, <1>7, Becomes

\* What post_find has read is the row there is, but for a text without memory.
LEMMA FindInv ==
    ASSUME PostsAssumption, IInv, NEW r \in Requests, post_find(r)
    PROVE  IInv'
<1>1. req[r] \in Query /\ QueryInv(req[r], posts, lastId) /\ SoundInv(req[r], spoilt)
  BY OneQuery DEF IInv
<1>2. Table /\ At(r, "load")
  BY DEF post_find
<1>3. CASE Is(r, Refused(req[r])) /\ UNCHANGED spoilt /\ (NoFault \/ Fault)
  BY <1>2, <1>3, AnswersInv DEF Answering, Reads
<1>4. ASSUME req[r].id \in DOMAIN posts, NEW post \in Row, Is(r, Holding(req[r], post)),
             post.owner = posts[req[r].id].owner,
             \/ post = posts[req[r].id] /\ NoFault /\ UNCHANGED spoilt
             \/ Fault /\ spoilt' = spoilt \cup {r}
      PROVE  IInv'
  <2> DEFINE q == Holding(req[r], post)
  <2>1. req[r].id \in 1 .. lastId
    BY <1>4 DEF IInv, PostsTypeOK
  <2>2. /\ q \in Query /\ q.pc = (IF req[r].kind = "show" THEN "author" ELSE "owner")
        /\ q.post = post /\ q.id = req[r].id /\ q.kind = req[r].kind
        /\ q.user = req[r].user /\ q.by = req[r].by
    <3>1. PICK pc \in {"author", "owner"} : pc = IF req[r].kind = "show" THEN "author" ELSE "owner"
      OBVIOUS
    <3>2. q = [req[r] EXCEPT !.pc = pc, !.post = post]
      BY <3>1 DEF Holding
    <3> HIDE DEF q
    <3>3. /\ q.pc = pc /\ q.post = post /\ q.id = req[r].id /\ q.kind = req[r].kind
          /\ q.user = req[r].user /\ q.by = req[r].by
      BY <1>1, <3>2 DEF Query
    <3>4. q \in Query
      BY <1>1, <3>2 DEF Query
    <3> QED
      BY <3>1, <3>3, <3>4
  <2> HIDE DEF q
  <2>3. QueryInv(q, posts, lastId)
    BY <1>1, <1>2, <1>4, <2>1, <2>2 DEF QueryInv, Claims, KindsAt, Query, At
  <2>4. SoundInv(q, spoilt')
    <3>1. SUFFICES ASSUME spoilt' = {} PROVE q.post.published => q.post.dated
      BY <2>2 DEF SoundInv
    <3>2. spoilt = {} /\ post = posts[req[r].id]
      BY <1>4, <3>1
    <3>3. post \in SoundRow
      BY <1>4, <3>2 DEF IInv, RowsSound
    <3> QED
      BY <2>2, <3>3 DEF SoundRow
  <2> QED
    BY <1>2, <1>4, <2>2, <2>3, <2>4, Spoils DEF q
<1>5. ASSUME req[r].id \in DOMAIN posts
      PROVE  \A post \in Truncated(posts[req[r].id]) \cup {posts[req[r].id]} :
                post \in Row /\ post.owner = posts[req[r].id].owner
  <2>1. posts[req[r].id] \in Row
    BY <1>5 DEF IInv, PostsTypeOK
  <2> QED
    BY <2>1 DEF Truncated, Row
<1> QED
  BY <1>3, <1>4, <1>5 DEF post_find

\* load_owned_post lets only those write who may manage the post that was read.
LEMMA OwnedInv ==
    ASSUME PostsAssumption, IInv, NEW r \in Requests, load_owned_post(r)
    PROVE  IInv'
<1>1. req[r] \in Query /\ QueryInv(req[r], posts, lastId) /\ SoundInv(req[r], spoilt)
  BY OneQuery DEF IInv
<1>2. /\ Reads /\ (NoFault \/ Fault) /\ req[r].pc = "owner"
      /\ req[r].kind \in {"edit", "update", "destroy"}
  BY <1>1 DEF load_owned_post, QueryInv, KindsAt, At
<1>3. CASE Is(r, Refused(req[r])) \/ Is(r, Refused(LoggedOut(req[r])))
           \/ Is(r, Page(req[r], "200", "edit"))
  BY <1>2, <1>3, AnswersInv DEF Answering
<1>4. CASE /\ MayManage(req[r].user, req[r].post)
           /\ \/ req[r].kind = "update" /\ Goes(r, "form")
              \/ req[r].kind = "destroy" /\ Goes(r, "write")
  <2>1. PICK q \in {[req[r] EXCEPT !.pc = "form"], [req[r] EXCEPT !.pc = "write"]} :
           Is(r, q) /\ req[r].kind \in KindsAt(q.pc) /\ (q.pc = "write" => req[r].kind = "destroy")
    BY <1>1, <1>4 DEF Goes, KindsAt, Query
  <2>2. /\ q \in Query /\ q.pc \in {"form", "write"}
        /\ q.user = req[r].user /\ q.by = req[r].by /\ q.post = req[r].post
        /\ q.id = req[r].id /\ q.kind = req[r].kind
    BY <1>1 DEF Query
  <2>3. Claims(req[r]) /\ req[r].user # None
    BY <1>2, <1>4 DEF Claims, MayManage
  <2>4. QueryInv(q, posts, lastId)
    BY <1>1, <1>2, <1>4, <2>1, <2>2, <2>3 DEF QueryInv
  <2>5. SoundInv(q, spoilt)
    BY <1>1, <2>1, <2>2 DEF SoundInv
  <2> QED
    BY <1>2, <2>1, <2>2, <2>4, <2>5, Becomes
<1> QED
  BY <1>2, <1>3, <1>4 DEF load_owned_post

\* A page shows what was read and writes nothing.
LEMMA ShowInv ==
    ASSUME PostsAssumption, IInv, NEW r \in Requests, blog_render_post_show(r)
    PROVE  IInv'
  BY AnswersInv DEF blog_render_post_show, Answering

\* What is handed to the model is a row, and a sound one if nothing failed.
LEMMA EditedRow ==
    ASSUME PostsAssumption, NEW q \in Query, q.user \in Users, q.kind \in {"create", "update"},
           q.kind = "update" => q.post \in Row,
           NEW content \in Contents \cup {Blank}, NEW clock \in BOOLEAN
    PROVE  /\ Edited(q, content, clock) \in Row
           /\ q.kind = "update" => Edited(q, content, clock).owner = q.post.owner
           /\ clock /\ (q.post.published => q.post.dated) =>
                 (Edited(q, content, clock).published => Edited(q, content, clock).dated)
           /\ Edited(q, content, clock).content = content
<1>1. q.form.publish \in BOOLEAN
  <2>1. q.form \in Form \/ q.form = NoForm
    BY DEF Query
  <2>2. CASE q.form \in Form
    BY <2>2 DEF Form
  <2>3. CASE q.form = NoForm
    BY <2>3 DEF NoForm
  <2> QED
    BY <2>1, <2>2, <2>3
<1>2. q.post.published \in BOOLEAN /\ q.post.dated \in BOOLEAN
  <2>1. q.post \in Row \/ q.post = NoRow
    BY DEF Query
  <2>2. CASE q.post \in Row
    BY <2>2 DEF Row
  <2>3. CASE q.post = NoRow
    BY <2>3 DEF NoRow
  <2> QED
    BY <2>1, <2>2, <2>3
<1>3. q.kind = "update" => q.post.owner \in Users
  BY DEF Row
<1> DEFINE owner == IF q.kind = "create" THEN q.user ELSE q.post.owner
           dated == IF q.form.publish /\ ~q.post.published THEN clock ELSE q.post.dated
<1>4. owner \in Users /\ dated \in BOOLEAN
  BY <1>2, <1>3
<1>5. Edited(q, content, clock) =
         [owner |-> owner, content |-> content, published |-> q.form.publish, dated |-> dated]
  BY DEF Edited
<1>6. clock /\ (q.post.published => q.post.dated) => (q.form.publish => dated)
  BY <1>1, <1>2
<1> HIDE DEF dated
<1>7. Edited(q, content, clock) \in Row
  BY <1>1, <1>4, <1>5 DEF Row
<1>8. q.kind = "update" => owner = q.post.owner
  OBVIOUS
<1> QED
  BY <1>5, <1>6, <1>7, <1>8

\* validate_post lets a request go on with a row of the same owner.
LEMMA ValidateInv ==
    ASSUME PostsAssumption, IInv, NEW r \in Requests, validate_post(r)
    PROVE  IInv'
<1>1. req[r] \in Query /\ QueryInv(req[r], posts, lastId) /\ SoundInv(req[r], spoilt)
  BY OneQuery DEF IInv
<1>2. /\ posts' = posts /\ lastId' = lastId /\ req[r].pc = "form"
      /\ req[r].kind \in {"create", "update"}
  BY <1>1 DEF validate_post, Table, QueryInv, KindsAt, At
<1>3. CASE \E view \in {"new", "edit"} : Is(r, Page(req[r], "422", view)) /\ NoFault /\ Reads
  BY <1>3, AnswersInv DEF Answering
<1>4. ASSUME NEW content \in Contents \cup {Blank}, NEW clock \in BOOLEAN,
             Submits(r, content, clock),
             \/ content \in Valid /\ clock /\ NoFault /\ UNCHANGED spoilt
             \/ Fault /\ spoilt' = spoilt \cup {r}
      PROVE  IInv'
  <2>1. Table /\ (spoilt' = {} => spoilt = {})
    BY <1>2, <1>4 DEF Table
  <2>3. CASE req[r].user = None
    <3> DEFINE q == Crashed(req[r])
    <3>1. Answering(req[r], q) /\ Is(r, q)
      BY <1>4, <2>3 DEF Submits, Answering
    <3>2. /\ q \in Query /\ q.pc \in {"done", "prepare"}
          /\ q.user = req[r].user /\ q.by = req[r].by /\ q.post = req[r].post
      BY <1>1, <3>1, AnswerFields
    <3>3. QueryInv(q, posts, lastId)
      BY <1>1, <3>2 DEF QueryInv, Claims, KindsAt, Query
    <3>4. SoundInv(q, spoilt')
      BY <1>1, <2>1, <3>2 DEF SoundInv
    <3> QED
      BY <1>4, <2>1, <3>1, <3>2, <3>3, <3>4, Spoils
  <2>4. CASE req[r].user # None
    <3> DEFINE p == Edited(req[r], content, clock)
               q == [req[r] EXCEPT !.pc = "write", !.post = p]
    <3>1. Is(r, q)
      BY <1>4, <2>4 DEF Submits
    <3>2. req[r].user \in Users
      BY <1>1, <2>4 DEF Query
    <3>3. req[r].kind = "update" =>
             Claims(req[r]) /\ req[r].post \in Row /\ MayManage(req[r].user, req[r].post)
      BY <1>1, <1>2 DEF Claims, QueryInv
    <3>4. /\ p \in Row
          /\ req[r].kind = "update" => p.owner = req[r].post.owner
          /\ clock /\ (req[r].post.published => req[r].post.dated) => (p.published => p.dated)
          /\ p.content = content
      BY <1>1, <1>2, <3>2, <3>3, EditedRow
    <3> HIDE DEF p
    <3>5. q \in Query
      BY <1>1, <3>4 DEF Query
    <3>6. /\ q.pc = "write" /\ q.kind = req[r].kind /\ q.user = req[r].user
          /\ q.by = req[r].by /\ q.id = req[r].id /\ q.post = p
      BY <1>1 DEF Query
    <3> HIDE DEF q
    <3>7. QueryInv(q, posts, lastId)
      BY <1>1, <1>2, <2>4, <3>3, <3>4, <3>6 DEF QueryInv, Claims, KindsAt, MayManage
    <3>8. spoilt' = {} => clock /\ content \in Valid /\ spoilt = {}
      BY <1>4
    <3>9. SoundInv(q, spoilt')
      BY <1>1, <3>4, <3>6, <3>8 DEF SoundInv
    <3> QED
      BY <1>4, <2>1, <3>1, <3>5, <3>7, <3>9, Spoils
  <2> QED
    BY <2>3, <2>4
<1>5. req[r].form.content \in Contents \cup {Blank}
  BY <1>1 DEF Query, Form, NoForm
<1> QED
  BY <1>3, <1>4, <1>5 DEF validate_post, Reads

\* A new row has an id that no request can have read.
LEMMA InsertInv ==
    ASSUME PostsAssumption, IInv, NEW r \in Requests, model_insert(r)
    PROVE  IInv'
<1>1. /\ req[r] \in Query /\ QueryInv(req[r], posts, lastId) /\ SoundInv(req[r], spoilt)
      /\ req[r].pc = "write" /\ req[r].kind = "create" /\ spoilt' = spoilt
  BY OneQuery DEF IInv, model_insert, At
<1>2. CASE Is(r, Failed(req[r])) /\ Fault /\ Table
  BY <1>1, <1>2, AnswersInv DEF Answering, Reads
<1>3. CASE /\ lastId < MaxPosts /\ posts' = Inserted(req[r].post) /\ lastId' = lastId + 1
           /\ Is(r, [req[r] EXCEPT !.pc = "reload", !.id = lastId + 1]) /\ NoFault
  <2> DEFINE q == [req[r] EXCEPT !.pc = "reload", !.id = lastId + 1]
  <2>1. /\ lastId \in Nat /\ lastId' \in lastId .. MaxPosts /\ faults' \in 0 .. MaxFaults
        /\ spoilt \subseteq spoilt' /\ spoilt' \subseteq Requests
    BY <1>1, <1>3 DEF IInv, PostsTypeOK, NoFault, PostsAssumption
  <2>2. PICK ids \in SUBSET (1 .. lastId) : posts \in [ids -> Row]
    BY DEF IInv, PostsTypeOK
  <2>3. /\ posts' = [id \in ids \cup {lastId + 1} |->
                        IF id = lastId + 1 THEN req[r].post ELSE posts[id]]
        /\ req[r].post \in Row
    BY <1>1, <1>3, <2>2 DEF Inserted, NewId, QueryInv
  <2>4. ids \cup {lastId + 1} \in SUBSET (1 .. lastId')
    BY <1>3, <2>1
  <2>5. posts' \in [ids \cup {lastId + 1} -> Row]
    BY <2>2, <2>3
  <2>6. \A id \in DOMAIN posts' \cap 1 .. lastId :
           id \in DOMAIN posts /\ posts'[id].owner = posts[id].owner
    BY <2>1, <2>2, <2>3
  <2>7. RowsSound'
    <3>1. SUFFICES ASSUME spoilt = {} PROVE \A id \in DOMAIN posts' : posts'[id] \in SoundRow
      BY <1>1 DEF RowsSound
    <3>2. req[r].post \in SoundRow
      BY <1>1, <2>3, <3>1 DEF SoundInv, SoundRow
    <3>3. \A id \in ids : posts[id] \in SoundRow
      BY <2>2, <3>1 DEF IInv, RowsSound
    <3> QED
      BY <2>3, <3>2, <3>3
  <2>8. /\ q \in Query /\ q.pc = "reload" /\ q.kind = "create"
        /\ q.user = req[r].user /\ q.by = req[r].by /\ q.post = req[r].post
    <3>1. lastId + 1 \in 0 .. MaxPosts
      BY <1>3, <2>1 DEF PostsAssumption
    <3> QED
      BY <1>1, <3>1 DEF Query
  <2>9. Is(r, q)
    BY <1>3
  <2> HIDE DEF q
  <2>10. QueryInv(q, posts', lastId')
    BY <1>1, <2>8 DEF QueryInv, Claims, KindsAt, Kinds
  <2>11. SoundInv(q, spoilt')
    BY <1>1, <2>8 DEF SoundInv
  <2> QED
    BY <1>1, <2>1, <2>4, <2>5, <2>6, <2>7, <2>8, <2>9, <2>10, <2>11, OneRequest
<1> QED
  BY <1>2, <1>3 DEF model_insert, NewId

\* The UPDATE leaves the owner alone and stores what validate_post let pass.
LEMMA UpdateInv ==
    ASSUME PostsAssumption, IInv, NEW r \in Requests, model_update(r)
    PROVE  IInv'
<1>1. /\ req[r] \in Query /\ QueryInv(req[r], posts, lastId) /\ SoundInv(req[r], spoilt)
      /\ req[r].pc = "write" /\ req[r].kind = "update"
      /\ spoilt' = spoilt /\ lastId' = lastId
  BY OneQuery DEF IInv, model_update, At
<1>2. CASE posts' = posts /\ (NoFault \/ Fault)
             /\ (Is(r, Failed(req[r])) \/ Is(r, Redirected(req[r], "done")))
  BY <1>1, <1>2, AnswersInv DEF Answering, Reads, Table
<1>3. CASE /\ req[r].id \in DOMAIN posts
           /\ posts' = [posts EXCEPT ![req[r].id] =
                           [req[r].post EXCEPT !.owner = posts[req[r].id].owner]]
           /\ Goes(r, "reload") /\ NoFault
  <2> DEFINE q == [req[r] EXCEPT !.pc = "reload"]
             row == [req[r].post EXCEPT !.owner = posts[req[r].id].owner]
  <2>1. /\ lastId' \in lastId .. MaxPosts /\ faults' \in 0 .. MaxFaults
        /\ spoilt \subseteq spoilt' /\ spoilt' \subseteq Requests
    BY <1>1, <1>3 DEF IInv, PostsTypeOK, NoFault
  <2>2. PICK ids \in SUBSET (1 .. lastId) : posts \in [ids -> Row]
    BY DEF IInv, PostsTypeOK
  <2>3. req[r].post \in Row /\ posts[req[r].id] \in Row /\ req[r].id \in ids
    BY <1>1, <1>3, <2>2 DEF QueryInv, Claims
  <2>4. /\ row \in Row /\ row.owner = posts[req[r].id].owner
        /\ row.content = req[r].post.content /\ row.published = req[r].post.published
        /\ row.dated = req[r].post.dated
    BY <2>3 DEF Row
  <2>5. posts' = [posts EXCEPT ![req[r].id] = row]
    BY <1>3
  <2> HIDE DEF row
  <2>6. /\ posts' \in [ids -> Row]
        /\ \A id \in DOMAIN posts' \cap 1 .. lastId :
              id \in DOMAIN posts /\ posts'[id].owner = posts[id].owner
    BY <2>2, <2>3, <2>4, <2>5
  <2>7. RowsSound'
    <3>1. SUFFICES ASSUME spoilt = {} PROVE \A id \in DOMAIN posts' : posts'[id] \in SoundRow
      BY <1>1 DEF RowsSound
    <3>2. row \in SoundRow
      BY <1>1, <2>4, <3>1 DEF SoundInv, SoundRow
    <3>3. \A id \in ids : posts[id] \in SoundRow
      BY <2>2, <3>1 DEF IInv, RowsSound
    <3> QED
      BY <2>2, <2>3, <2>5, <3>2, <3>3
  <2>8. /\ q \in Query /\ q.pc = "reload" /\ q.kind = "update"
        /\ q.user = req[r].user /\ q.by = req[r].by /\ q.post = req[r].post
    BY <1>1 DEF Query
  <2>9. Is(r, q)
    BY <1>3 DEF Goes
  <2> HIDE DEF q
  <2>10. QueryInv(q, posts', lastId')
    BY <1>1, <2>8 DEF QueryInv, Claims, KindsAt, Kinds
  <2>11. SoundInv(q, spoilt')
    BY <1>1, <2>8 DEF SoundInv
  <2>12. \E some \in SUBSET (1 .. lastId') : posts' \in [some -> Row]
    BY <1>1, <2>6
  <2> QED
    BY <1>1, <2>1, <2>6, <2>7, <2>8, <2>9, <2>10, <2>11, <2>12, OneRequest
<1> QED
  BY <1>2, <1>3 DEF model_update

\* Whatever the model finds again, the handler is done with it.
LEMMA ReloadsInv ==
    ASSUME PostsAssumption, IInv, NEW r \in Requests, ModelReloads(r)
    PROVE  IInv'
<1>1. /\ Is(r, Redirected(req[r], "done")) \/ Is(r, Failed(req[r]))
      /\ Reads /\ (NoFault \/ Fault)
  BY DEF ModelReloads
<1> QED
  BY <1>1, AnswersInv DEF Answering

\* The DELETE takes away one row at most and leaves the others alone.
LEMMA DestroyInv ==
    ASSUME PostsAssumption, IInv, NEW r \in Requests, model_destroy(r)
    PROVE  IInv'
<1>1. /\ req[r] \in Query /\ QueryInv(req[r], posts, lastId) /\ SoundInv(req[r], spoilt)
      /\ spoilt' = spoilt /\ lastId' = lastId
  BY OneQuery DEF IInv, model_destroy
<1>2. CASE Is(r, Failed(req[r])) /\ Fault /\ UNCHANGED posts
  BY <1>1, <1>2, AnswersInv DEF Answering, Reads, Table
<1>3. CASE /\ posts' = [id \in DOMAIN posts \ {req[r].id} |-> posts[id]]
           /\ Is(r, IF Deleted(r) THEN Redirected(req[r], "done") ELSE Failed(req[r]))
           /\ NoFault
  <2>1. PICK q \in {Redirected(req[r], "done"), Failed(req[r])} : Is(r, q)
    BY <1>3
  <2>2. /\ lastId' \in lastId .. MaxPosts /\ faults' \in 0 .. MaxFaults
        /\ spoilt \subseteq spoilt' /\ spoilt' \subseteq Requests
    BY <1>1, <1>3 DEF IInv, PostsTypeOK, NoFault
  <2>3. PICK ids \in SUBSET (1 .. lastId) : posts \in [ids -> Row]
    BY DEF IInv, PostsTypeOK
  <2>4. /\ posts' \in [ids \ {req[r].id} -> Row]
        /\ \A id \in DOMAIN posts' \cap 1 .. lastId :
              id \in DOMAIN posts /\ posts'[id].owner = posts[id].owner
    BY <1>3, <2>3
  <2>5. \E some \in SUBSET (1 .. lastId') : posts' \in [some -> Row]
    <3>1. ids \ {req[r].id} \in SUBSET (1 .. lastId')
      BY <1>1, <2>3
    <3> QED
      BY <2>4, <3>1
  <2>6. RowsSound'
    BY <1>1, <1>3, <2>3 DEF IInv, RowsSound
  <2>7. /\ q \in Query /\ q.pc \in {"done", "prepare"}
        /\ q.user = req[r].user /\ q.by = req[r].by /\ q.post = req[r].post
    BY <1>1, <2>1, AnswerFields DEF Answering
  <2>8. QueryInv(q, posts', lastId') /\ SoundInv(q, spoilt')
    <3>1. QueryInv(q, posts', lastId')
      BY <1>1, <2>7 DEF QueryInv, Claims, KindsAt, Query
    <3>2. SoundInv(q, spoilt')
      BY <1>1, <2>7 DEF SoundInv
    <3> QED
      BY <3>1, <3>2
  <2> QED
    BY <2>1, <2>2, <2>4, <2>5, <2>6, <2>7, <2>8, OneRequest
<1> QED
  BY <1>2, <1>3 DEF model_destroy

\* The page's own look at the user changes nothing but the user.
LEMMA PrepareInv ==
    ASSUME PostsAssumption, IInv, NEW r \in Requests, blog_prepare_view(r)
    PROVE  IInv'
<1>1. req[r] \in Query
  BY OneQuery
<1>2. PICK q \in {[req[r] EXCEPT !.pc = "done", !.answer.viewer = req[r].user],
                  [LoggedOut(req[r]) EXCEPT !.pc = "done"]} : Is(r, q)
  BY DEF blog_prepare_view
<1>3. q \in Query
  <2>1. req[r].answer \in Answer /\ req[r].user \in Users \cup {None}
    BY <1>1 DEF Query
  <2>2. [req[r].answer EXCEPT !.viewer = req[r].user] \in Answer
    BY <2>1 DEF Answer
  <2>3. [req[r] EXCEPT !.pc = "done", !.answer.viewer = req[r].user] \in Query
    BY <1>1, <2>2 DEF Query
  <2>4. [LoggedOut(req[r]) EXCEPT !.pc = "done"] \in Query
    BY <1>1 DEF LoggedOut, Query
  <2> QED
    BY <1>2, <2>3, <2>4
<1>4. q.pc = "done" /\ q.user \in {req[r].user, None} /\ q.by = req[r].by /\ q.post = req[r].post
  BY <1>1, <1>2 DEF LoggedOut, Query
<1>5. q.kind \in KindsAt(q.pc)
  BY <1>3, <1>4 DEF KindsAt, Query
<1>6. Reads /\ (NoFault \/ Fault)
  BY DEF blog_prepare_view
<1> QED
  BY <1>2, <1>3, <1>4, <1>5, <1>6, Leaves

\* A dead process writes nothing.
LEMMA DiesInv ==
    ASSUME PostsAssumption, IInv, NEW r \in Requests, Dies(r)
    PROVE  IInv'
  BY AnswersInv DEF Dies, Answering

\* Every step keeps the invariant.
LEMMA NextInv == ASSUME PostsAssumption, IInv, [PostsNext]_postsVars PROVE IInv'
<1>1. ASSUME NEW r \in Requests, PostsStep(r) PROVE IInv'
  BY <1>1, RequireInv, ViewerInv, FindInv, OwnedInv, ShowInv, ValidateInv, InsertInv,
     UpdateInv, ReloadsInv, DestroyInv, PrepareInv, DiesInv DEF PostsStep
<1>2. CASE UNCHANGED postsVars
  <2>1. posts' = posts /\ lastId' = lastId /\ req' = req /\ faults' = faults /\ spoilt' = spoilt
    BY <1>2 DEF postsVars
  <2>2. PostsTypeOK' /\ RowsSound'
    BY <2>1 DEF IInv, PostsTypeOK, RowsSound
  <2>3. \A r \in Requests : QueryInv(req'[r], posts', lastId') /\ SoundInv(req'[r], spoilt')
    BY <2>1 DEF IInv
  <2> QED
    BY <2>2, <2>3 DEF IInv
<1> QED
  BY <1>1, <1>2, ArriveInv, ElsewhereInv DEF PostsNext

-----------------------------------------------------------------------------
(* Who is told what.                                                       *)

\* The request has stored the row of its id, or has been told that it deleted it.
Stored(q) == q.kind = "create" /\ (q.pc = "reload" \/ q.answer.status = "done")
Erased(q) == q.kind = "destroy" /\ q.answer.status = "done"

\* What it stored is its own, and what it deleted is gone for good.
TellsTrue(q, table, last) ==
    /\ q.answer.status = "done" => q.pc = "done"
    /\ q.pc = "reload" => q.kind # "destroy"
    /\ q.pc = "write" /\ q.kind = "create" => q.post.owner = q.by
    /\ Stored(q) =>
          q.id \in 1 .. last /\ (q.id \in DOMAIN table => table[q.id].owner = q.by)
    /\ Erased(q) => q.id \in 1 .. last /\ q.id \notin DOMAIN table

\* No two have stored, or deleted, the same row.
Apart(q, p) == (Stored(q) /\ Stored(p)) \/ (Erased(q) /\ Erased(p)) => q.id # p.id

TellInv ==
    /\ \A r \in Requests : TellsTrue(req[r], posts, lastId)
    /\ \A r \in Requests : \A p \in Requests \ {r} : Apart(req[r], req[p])

\* What one request does concerns the others through the table alone.
LEMMA OneTells ==
    ASSUME IInv, TellInv, NEW r \in Requests, NEW q, Is(r, q),
           TellsTrue(q, posts', lastId'), lastId' \in lastId .. MaxPosts,
           \A id \in DOMAIN posts' \cap 1 .. lastId :
              id \in DOMAIN posts /\ posts'[id].owner = posts[id].owner,
           \A p \in Requests \ {r} : Apart(q, req[p])
    PROVE  TellInv'
<1>1. req'[r] = q /\ \A p \in Requests \ {r} : req'[p] = req[p]
  BY DEF Is, IInv, PostsTypeOK
<1>2. ASSUME NEW p \in Requests PROVE TellsTrue(req'[p], posts', lastId')
  <2>1. CASE p = r
    BY <1>1, <2>1
  <2>2. CASE p # r
    <3>1. req'[p] = req[p] /\ TellsTrue(req[p], posts, lastId)
      BY <1>1, <2>2 DEF TellInv
    <3>2. lastId \in Nat /\ lastId' \in Nat /\ lastId <= lastId'
      BY DEF IInv, PostsTypeOK
    <3>3. TellsTrue(req[p], posts', lastId')
      BY <3>1, <3>2 DEF TellsTrue
    <3> QED
      BY <3>1, <3>3
  <2> QED
    BY <2>1, <2>2
<1>3. ASSUME NEW p \in Requests, NEW o \in Requests \ {p} PROVE Apart(req'[p], req'[o])
  <2>1. CASE p = r
    BY <1>1, <2>1, <1>3
  <2>2. CASE o = r
    <3>1. Apart(q, req[p])
      BY <2>2, <1>3
    <3> QED
      BY <1>1, <2>2, <1>3, <3>1 DEF Apart
  <2>3. CASE p # r /\ o # r
    BY <1>1, <2>3, <1>3 DEF TellInv
  <2> QED
    BY <2>1, <2>2, <2>3
<1> QED
  BY <1>2, <1>3 DEF TellInv

\* A request that has neither stored nor deleted anything concerns nobody.
LEMMA Untold ==
    ASSUME IInv, TellInv, NEW r \in Requests, NEW q, Is(r, q), Table,
           q.answer.status # "done", q.pc # "reload",
           q.pc = "write" /\ q.kind = "create" => q.post.owner = q.by
    PROVE  TellInv'
<1>1. posts' = posts /\ lastId' = lastId /\ lastId \in lastId .. MaxPosts
  BY DEF Table, IInv, PostsTypeOK
<1>2. ~Stored(q) /\ ~Erased(q)
  BY DEF Stored, Erased
<1>3. TellsTrue(q, posts', lastId') /\ \A p \in Requests : Apart(q, req[p])
  BY <1>2 DEF TellsTrue, Apart
<1> QED
  BY <1>1, <1>3, OneTells

\* The status that an answer gives to a request, and what it leaves alone.
LEMMA AnswerStatus ==
    ASSUME NEW q \in Query, NEW status
    PROVE  /\ Redirected(q, status).answer.status = status /\ Redirected(q, status).pc = "done"
           /\ Redirected(q, status).kind = q.kind /\ Redirected(q, status).id = q.id
           /\ Redirected(q, status).by = q.by
           /\ \A view : /\ Page(q, status, view).answer.status = status
                         /\ Page(q, status, view).pc = "prepare"
                         /\ Page(q, status, view).kind = q.kind
                         /\ Page(q, status, view).id = q.id
           /\ Crashed(q).answer.status = "none" /\ Crashed(q).pc = "done"
<1>1. q.answer \in Answer
  BY DEF Query
<1>2. [q.answer EXCEPT !.status = status].status = status
  BY <1>1 DEF Answer
<1>3. Redirected(q, status) =
         [q EXCEPT !.pc = "done", !.answer = [q.answer EXCEPT !.status = status]]
  BY DEF Redirected, Query
<1>4. /\ Redirected(q, status).answer.status = status /\ Redirected(q, status).pc = "done"
      /\ Redirected(q, status).kind = q.kind /\ Redirected(q, status).id = q.id
      /\ Redirected(q, status).by = q.by
  BY <1>2, <1>3 DEF Query
<1>5. ASSUME NEW view
      PROVE  /\ Page(q, status, view).answer.status = status
             /\ Page(q, status, view).pc = "prepare"
             /\ Page(q, status, view).kind = q.kind /\ Page(q, status, view).id = q.id
  <2> DEFINE answer == [q.answer EXCEPT !.status = status, !.view = view]
  <2>1. answer.status = status
    BY <1>1 DEF Answer
  <2>2. Page(q, status, view) = [q EXCEPT !.pc = "prepare", !.answer = answer]
    BY DEF Page, Query
  <2> HIDE DEF answer
  <2> QED
    BY <2>1, <2>2 DEF Query
<1>6. Crashed(q).answer.status = "none" /\ Crashed(q).pc = "done"
  BY DEF Crashed, NoAnswer, Query
<1> QED
  BY <1>4, <1>5, <1>6

\* An answer other than a redirection to what was done.
Denies(q, p) ==
    \/ p = Redirected(q, "login")
    \/ \E status \in {"200", "422"}, view \in {"new", "edit", "show"} : p = Page(q, status, view)
    \/ p \in {Refused(q), Failed(q), Crashed(q)}

\* Such an answer tells nothing, from a request that was logged out or not.
LEMMA Denied ==
    ASSUME IInv, TellInv, NEW r \in Requests, Table,
           NEW q \in {req[r], LoggedOut(req[r])}, NEW p, Denies(q, p), Is(r, p)
    PROVE  TellInv'
<1>1. q \in Query
  BY OneQuery, EndsInv
<1>2. p.answer.status # "done" /\ p.pc \in {"done", "prepare"}
  <2>1. CASE p = Redirected(q, "login") \/ p = Crashed(q)
    BY <1>1, <2>1, AnswerStatus
  <2>2. CASE \E status \in {"200", "422", "403", "404", "500"} :
             \E view : p = Page(q, status, view)
    <3>1. PICK status \in {"200", "422", "403", "404", "500"} : \E view : p = Page(q, status, view)
      BY <2>2
    <3> QED
      BY <1>1, <3>1, AnswerStatus
  <2> QED
    BY <2>1, <2>2 DEF Denies, Refused, Failed
<1> QED
  BY <1>2, Untold

\* To go on to another step tells nothing either.
LEMMA Onward ==
    ASSUME IInv, TellInv, NEW r \in Requests, Table, req[r].pc # "done",
           NEW q, Is(r, q), q.answer = req[r].answer, q.kind = req[r].kind,
           q.pc # "reload", q.pc = "write" => req[r].kind # "create"
    PROVE  TellInv'
<1>1. q.answer.status # "done"
  BY DEF TellInv, TellsTrue
<1> QED
  BY <1>1, Untold

\* The steps up to the page or the statement that writes.
LEMMA ReadsTell ==
    ASSUME IInv, TellInv, NEW r \in Requests,
           \/ Arrive(r) \/ ArriveElsewhere(r) \/ require_authenticated_user(r)
           \/ blog_current_user(r) \/ post_find(r) \/ load_owned_post(r)
           \/ blog_render_post_show(r) \/ blog_prepare_view(r) \/ Dies(r)
    PROVE  TellInv'
<1>1. req[r] \in Query /\ QueryInv(req[r], posts, lastId) /\ LoggedOut(req[r]) \in Query
  BY OneQuery, EndsInv DEF IInv
<1>2. CASE Arrive(r)
  <2>1. PICK kind, user, id, form : Begins(r, kind, user, id, form)
    BY <1>2 DEF Arrive
  <2> DEFINE q == [Fresh EXCEPT !.pc = IF kind = "show" THEN "viewer" ELSE "guard",
                                !.kind = kind, !.by = user, !.user = user, !.id = id,
                                !.form = form]
  <2>2. Is(r, q) /\ Table
    BY <2>1 DEF Begins, Reads
  <2>3. q.answer.status # "done" /\ q.pc \in {"viewer", "guard"}
    BY DEF Fresh, NoAnswer
  <2> HIDE DEF q
  <2> QED
    BY <2>2, <2>3, Untold
<1>3. CASE ArriveElsewhere(r)
  <2>1. [req[r] EXCEPT !.pc = "done"].answer = req[r].answer
    BY <1>1 DEF Query
  <2> QED
    BY <1>1, <1>3, <2>1, Onward DEF ArriveElsewhere, Goes, At, Reads, Query
<1>4. CASE require_authenticated_user(r)
  <2>1. Table /\ req[r].pc \in {"guard", "handler"}
    BY <1>4 DEF require_authenticated_user, Reads, At
  <2>2. CASE \E pc \in {"handler", "viewer", "load"} : Is(r, [req[r] EXCEPT !.pc = pc])
    <3>1. PICK pc \in {"handler", "viewer", "load"} : Is(r, [req[r] EXCEPT !.pc = pc])
      BY <2>2
    <3> QED
      BY <1>1, <2>1, <3>1, Onward DEF Query
  <2>3. CASE \E q \in {req[r], LoggedOut(req[r])} : \E p : Denies(q, p) /\ Is(r, p)
    BY <2>1, <2>3, Denied
  <2> QED
    BY <1>4, <2>2, <2>3 DEF require_authenticated_user, Goes, Denies
<1>5. CASE blog_current_user(r)
  <2> DEFINE next == IF req[r].kind = "show" THEN "load" ELSE "form"
  <2>1. PICK q \in {[req[r] EXCEPT !.pc = next, !.viewer = req[r].user],
                    [LoggedOut(req[r]) EXCEPT !.pc = next]} : Is(r, q)
    BY <1>5 DEF blog_current_user
  <2>2. q.pc = next /\ q.answer = req[r].answer /\ q.kind = req[r].kind
    BY <1>1, <2>1 DEF LoggedOut, Query
  <2> QED
    BY <1>5, <2>1, <2>2, Onward DEF blog_current_user, At, Reads
<1>6. CASE post_find(r)
  <2>1. CASE Is(r, Refused(req[r]))
    BY <1>6, <2>1, Denied DEF Denies, post_find
  <2>2. CASE \E post : Is(r, Holding(req[r], post))
    <3>1. PICK post : Is(r, Holding(req[r], post))
      BY <2>2
    <3>2. /\ Holding(req[r], post).pc \in {"author", "owner"}
          /\ Holding(req[r], post).answer = req[r].answer
          /\ Holding(req[r], post).kind = req[r].kind
      BY <1>1 DEF Holding, Query
    <3> QED
      BY <1>6, <3>1, <3>2, Onward DEF post_find, At
  <2> QED
    BY <1>6, <2>1, <2>2 DEF post_find
<1>7. CASE load_owned_post(r)
  <2>1. Table /\ req[r].pc = "owner" /\ req[r].kind \in {"edit", "update", "destroy"}
    BY <1>1, <1>7 DEF load_owned_post, Reads, At, QueryInv, KindsAt
  <2>2. CASE \E pc \in {"form", "write"} : Is(r, [req[r] EXCEPT !.pc = pc])
    <3>1. PICK pc \in {"form", "write"} : Is(r, [req[r] EXCEPT !.pc = pc])
      BY <2>2
    <3> QED
      BY <1>1, <2>1, <3>1, Onward DEF Query
  <2>3. CASE \E q \in {req[r], LoggedOut(req[r])} : \E p : Denies(q, p) /\ Is(r, p)
    BY <2>1, <2>3, Denied
  <2> QED
    BY <1>7, <2>2, <2>3 DEF load_owned_post, Goes, Denies
<1>8. CASE blog_render_post_show(r)
  BY <1>8, Denied DEF blog_render_post_show, Reads, Denies
<1>9. CASE blog_prepare_view(r)
  <2>1. PICK q \in {[req[r] EXCEPT !.pc = "done", !.answer.viewer = req[r].user],
                    [LoggedOut(req[r]) EXCEPT !.pc = "done"]} : Is(r, q)
    BY <1>9 DEF blog_prepare_view
  <2>2. req[r].answer.status # "done"
    BY <1>9 DEF blog_prepare_view, At, TellInv, TellsTrue
  <2>3. q.pc = "done" /\ q.answer.status = req[r].answer.status
    <3>1. req[r].answer \in Answer
      BY <1>1 DEF Query
    <3>2. [req[r].answer EXCEPT !.viewer = req[r].user].status = req[r].answer.status
      BY <3>1 DEF Answer
    <3> QED
      BY <1>1, <2>1, <3>2 DEF LoggedOut, Query
  <2> QED
    BY <1>9, <2>1, <2>2, <2>3, Untold DEF blog_prepare_view, Reads
<1>10. CASE Dies(r)
  BY <1>10, Denied DEF Dies, Reads, Denies
<1> QED
  BY <1>2, <1>3, <1>4, <1>5, <1>6, <1>7, <1>8, <1>9, <1>10

\* What posts_create is about to store belongs to its user.
LEMMA ValidateTells ==
    ASSUME IInv, TellInv, NEW r \in Requests, validate_post(r)
    PROVE  TellInv'
<1>1. req[r] \in Query /\ QueryInv(req[r], posts, lastId) /\ req[r].pc = "form" /\ Table
  BY OneQuery DEF IInv, validate_post, At
<1>2. CASE \E view \in {"new", "edit"} : Is(r, Page(req[r], "422", view))
  BY <1>1, <1>2, Denied DEF Denies
<1>3. ASSUME NEW content, NEW clock, Submits(r, content, clock) PROVE TellInv'
  <2>1. CASE req[r].user = None
    BY <1>1, <1>3, <2>1, Denied DEF Submits, Denies
  <2>2. CASE req[r].user # None
    <3> DEFINE q == [req[r] EXCEPT !.pc = "write", !.post = Edited(req[r], content, clock)]
    <3>1. Is(r, q)
      BY <1>3, <2>2 DEF Submits
    <3>2. /\ q.pc = "write" /\ q.answer = req[r].answer /\ q.kind = req[r].kind
          /\ q.by = req[r].by /\ q.post = Edited(req[r], content, clock)
      BY <1>1 DEF Query
    <3>3. req[r].user = req[r].by
      BY <1>1, <2>2 DEF QueryInv
    <3>4. q.kind = "create" => q.post.owner = q.by
      BY <3>2, <3>3 DEF Edited
    <3>5. q.answer.status # "done"
      BY <1>1, <3>2 DEF TellInv, TellsTrue
    <3> HIDE DEF q
    <3> QED
      BY <1>1, <3>1, <3>2, <3>4, <3>5, Untold
  <2> QED
    BY <2>1, <2>2
<1> QED
  BY <1>2, <1>3 DEF validate_post

\* The statements that write, and the model's look at what was written.
LEMMA WritesTell ==
    ASSUME PostsAssumption, IInv, TellInv, NEW r \in Requests,
           model_insert(r) \/ model_update(r) \/ ModelReloads(r) \/ model_destroy(r)
    PROVE  TellInv'
<1>1. req[r] \in Query /\ QueryInv(req[r], posts, lastId) /\ TellsTrue(req[r], posts, lastId)
  BY OneQuery DEF IInv, TellInv
<1>2. lastId \in Nat /\ lastId \in lastId .. MaxPosts
  BY DEF IInv, PostsTypeOK, PostsAssumption
<1>3. CASE Is(r, Failed(req[r])) /\ Table
  BY <1>3, Denied DEF Denies
<1>4. CASE model_insert(r)
  <2>1. CASE lastId < MaxPosts /\ posts' = Inserted(req[r].post) /\ lastId' = lastId + 1
             /\ Is(r, [req[r] EXCEPT !.pc = "reload", !.id = lastId + 1])
    <3> DEFINE q == [req[r] EXCEPT !.pc = "reload", !.id = lastId + 1]
    <3>1. /\ q.pc = "reload" /\ q.kind = "create" /\ q.id = lastId + 1 /\ q.by = req[r].by
          /\ q.answer.status # "done" /\ req[r].post.owner = req[r].by
      BY <1>1, <1>4 DEF model_insert, At, Query, TellsTrue
    <3>2. lastId' \in lastId .. MaxPosts
      BY <1>2, <2>1 DEF PostsAssumption
    <3>3. /\ DOMAIN posts' = DOMAIN posts \cup {lastId + 1}
          /\ \A id \in DOMAIN posts : id # lastId + 1 => posts'[id] = posts[id]
          /\ posts'[lastId + 1] = req[r].post
      BY <2>1 DEF Inserted, NewId
    <3>4. \A id \in DOMAIN posts' \cap 1 .. lastId :
             id \in DOMAIN posts /\ posts'[id].owner = posts[id].owner
      BY <1>2, <3>3
    <3>5. TellsTrue(q, posts', lastId')
      BY <1>2, <2>1, <3>1, <3>3 DEF TellsTrue, Stored, Erased
    <3>6. \A p \in Requests \ {r} : Apart(q, req[p])
      BY <1>2, <3>1 DEF Apart, TellInv, TellsTrue, Erased
    <3>7. Is(r, q)
      BY <2>1
    <3> HIDE DEF q
    <3> QED
      BY <3>2, <3>4, <3>5, <3>6, <3>7, OneTells
  <2> QED
    BY <1>3, <1>4, <2>1 DEF model_insert, NewId
<1>5. CASE model_update(r)
  <2>1. PICK q \in {[req[r] EXCEPT !.pc = "reload"], Failed(req[r]), Redirected(req[r], "done")} :
           Is(r, q)
    BY <1>5 DEF model_update, Goes
  <2>2. q.kind = "update" /\ (q.answer.status = "done" => q.pc = "done")
    <3>1. req[r].kind = "update" /\ req[r].answer.status # "done"
      BY <1>1, <1>5 DEF model_update, At, TellsTrue
    <3>2. /\ [req[r] EXCEPT !.pc = "reload"].kind = req[r].kind
          /\ [req[r] EXCEPT !.pc = "reload"].answer = req[r].answer
      BY <1>1 DEF Query
    <3>3. /\ Failed(req[r]).kind = req[r].kind /\ Failed(req[r]).answer.status = "500"
          /\ Redirected(req[r], "done").kind = req[r].kind
          /\ Redirected(req[r], "done").pc = "done"
      BY <1>1, AnswerStatus DEF Failed
    <3> QED
      BY <2>1, <3>1, <3>2, <3>3
  <2>3. TellsTrue(q, posts', lastId') /\ \A p \in Requests : Apart(q, req[p])
    BY <2>2 DEF TellsTrue, Apart, Stored, Erased
  <2>4. /\ lastId' = lastId /\ DOMAIN posts' = DOMAIN posts
        /\ \A id \in DOMAIN posts : posts'[id].owner = posts[id].owner
    <3>1. CASE posts' = posts
      BY <1>5, <3>1 DEF model_update
    <3>2. CASE /\ req[r].id \in DOMAIN posts
               /\ posts' = [posts EXCEPT ![req[r].id] =
                               [req[r].post EXCEPT !.owner = posts[req[r].id].owner]]
      <4>1. req[r].post \in Row
        BY <1>1, <1>5 DEF QueryInv, Claims, model_update, At
      <4>2. [req[r].post EXCEPT !.owner = posts[req[r].id].owner].owner = posts[req[r].id].owner
        BY <4>1 DEF Row
      <4>3. \E ids : posts \in [ids -> Row]
        BY DEF IInv, PostsTypeOK
      <4> QED
        BY <1>5, <3>2, <4>2, <4>3 DEF model_update
    <3> QED
      BY <1>5, <3>1, <3>2 DEF model_update
  <2> QED
    BY <1>2, <2>1, <2>3, <2>4, OneTells
<1>6. CASE ModelReloads(r)
  <2>1. Table /\ lastId' = lastId /\ posts' = posts
    BY <1>6 DEF ModelReloads, Reads, Table
  <2>2. CASE Is(r, Redirected(req[r], "done"))
    <3> DEFINE q == Redirected(req[r], "done")
    <3>1. /\ q.kind = req[r].kind /\ q.id = req[r].id /\ q.by = req[r].by
          /\ q.answer.status = "done" /\ q.pc = "done"
      BY <1>1, AnswerStatus
    <3>2. req[r].pc = "reload" /\ req[r].kind # "destroy"
      BY <1>1, <1>6 DEF ModelReloads, At, TellsTrue
    <3> HIDE DEF q
    <3>3. (Stored(q) => Stored(req[r])) /\ ~Erased(q)
      BY <3>1, <3>2 DEF Stored, Erased
    <3>4. TellsTrue(q, posts', lastId')
      BY <1>1, <2>1, <3>1, <3>3 DEF TellsTrue
    <3>5. \A p \in Requests \ {r} : Apart(q, req[p])
      BY <3>1, <3>3 DEF Apart, TellInv
    <3> QED
      BY <1>2, <2>1, <2>2, <3>4, <3>5, OneTells DEF q
  <2> QED
    BY <1>3, <1>6, <2>1, <2>2 DEF ModelReloads
<1>7. CASE model_destroy(r)
  <2>1. CASE /\ posts' = [id \in DOMAIN posts \ {req[r].id} |-> posts[id]]
             /\ Is(r, IF Deleted(r) THEN Redirected(req[r], "done") ELSE Failed(req[r]))
    <3>1. PICK q \in {Redirected(req[r], "done"), Failed(req[r])} :
             Is(r, q) /\ (q.answer.status = "done" => req[r].id \in DOMAIN posts)
      <4>1. Failed(req[r]).answer.status # "done"
        BY <1>1, AnswerStatus DEF Failed
      <4> QED
        BY <2>1, <4>1 DEF Deleted
    <3>2. /\ q.kind = "destroy" /\ q.id = req[r].id /\ q.pc \in {"done", "prepare"}
          /\ q.answer.status = "done" => q.pc = "done"
      BY <1>1, <1>7, <3>1, AnswerStatus DEF model_destroy, Failed
    <3>3. lastId' = lastId /\ DOMAIN posts \subseteq 1 .. lastId
      BY <1>7 DEF model_destroy, IInv, PostsTypeOK
    <3>4. TellsTrue(q, posts', lastId')
      BY <2>1, <3>1, <3>2, <3>3 DEF TellsTrue, Stored, Erased
    <3>5. \A p \in Requests \ {r} : Apart(q, req[p])
      BY <3>1, <3>2 DEF Apart, TellInv, TellsTrue, Stored, Erased
    <3>6. \A id \in DOMAIN posts' \cap 1 .. lastId :
             id \in DOMAIN posts /\ posts'[id].owner = posts[id].owner
      BY <2>1
    <3> QED
      BY <1>2, <3>1, <3>3, <3>4, <3>5, <3>6, OneTells
  <2> QED
    BY <1>3, <1>7, <2>1 DEF model_destroy, Table
<1> QED
  BY <1>4, <1>5, <1>6, <1>7

-----------------------------------------------------------------------------
(* The theorems.                                                           *)

\* What every request remembers of the post it is about to write stays true.
THEOREM PostsInvariant == PostsSpec => []IInv
<1>1. PostsInit => IInv
  BY InitInv, PostsAssumption
<1>2. IInv /\ [PostsNext]_postsVars => IInv'
  BY NextInv, PostsAssumption
<1> QED
  BY <1>1, <1>2, PTL DEF PostsSpec

\* The variables keep their types.
THEOREM PostsTypes == PostsSpec => []PostsTypeOK
<1>1. IInv => PostsTypeOK
  BY DEF IInv
<1> QED
  BY <1>1, PostsInvariant, PTL

\* A stored post is valid and a published one has its date, whatever the
\* requests between model_find and the UPDATE did, unless memory ran out.
THEOREM StoredPostsAreSound == PostsSpec => []RowsSound
<1>1. IInv => RowsSound
  BY DEF IInv
<1> QED
  BY <1>1, PostsInvariant, PTL

\* Only its owner or an admin changes or deletes a post, although
\* load_owned_post compares the user with a copy of the row.
THEOREM OnlyOwnersWrite == PostsSpec => OwnerOnly
<1> DEFINE Untouched(id) == id \in DOMAIN posts' /\ posts'[id] = posts[id]
           Managed(id) == \E r \in Requests : /\ req[r].id = id /\ req'[r] # req[r]
                                              /\ MayManage(req[r].by, posts[id])
<1> HIDE DEF Untouched, Managed
<1>1. ASSUME IInv, NEW r \in Requests, req[r].pc = "write", req[r].kind \in {"update", "destroy"},
             req'[r] # req[r], req[r].id \in DOMAIN posts
      PROVE  Managed(req[r].id)
  <2>1. req[r] \in Query /\ QueryInv(req[r], posts, lastId)
    BY <1>1, OneQuery DEF IInv
  <2>2. Claims(req[r])
    BY <1>1 DEF Claims
  <2>3. /\ req[r].user = req[r].by /\ MayManage(req[r].user, req[r].post)
        /\ posts[req[r].id].owner = req[r].post.owner
    BY <1>1, <2>1, <2>2 DEF QueryInv
  <2>4. MayManage(req[r].by, posts[req[r].id])
    BY <2>3 DEF MayManage
  <2> QED
    BY <1>1, <2>4 DEF Managed
<1>2. ASSUME IInv, NEW r \in Requests, model_insert(r), NEW id \in DOMAIN posts
      PROVE  Untouched(id)
  <2>1. id # lastId + 1
    BY <1>2 DEF IInv, PostsTypeOK
  <2> QED
    BY <1>2, <2>1 DEF model_insert, Inserted, NewId, Table, Untouched
<1>3. ASSUME IInv, NEW r \in Requests, model_update(r), NEW id \in DOMAIN posts
      PROVE  Untouched(id) \/ Managed(id)
  <2>1. req[r] \in Query /\ req[r].pc = "write" /\ req[r].kind = "update"
    BY <1>3, OneQuery DEF model_update, At
  <2>2. CASE posts' = posts \/ id # req[r].id
    BY <1>3, <2>2 DEF model_update, Untouched
  <2>3. CASE posts' # posts /\ id = req[r].id
    <3>1. req' = [req EXCEPT ![r] = [req[r] EXCEPT !.pc = "reload"]]
      BY <1>3, <2>3 DEF model_update, Goes, Is
    <3>2. req'[r].pc = "reload"
      BY <1>3, <2>1, <3>1 DEF Query, IInv, PostsTypeOK
    <3> QED
      BY <1>1, <1>3, <2>1, <2>3, <3>2
  <2> QED
    BY <2>2, <2>3
<1>4. ASSUME IInv, NEW r \in Requests, model_destroy(r), NEW id \in DOMAIN posts
      PROVE  Untouched(id) \/ Managed(id)
  <2>1. req[r] \in Query /\ req[r].pc = "write" /\ req[r].kind = "destroy"
    BY <1>4, OneQuery DEF model_destroy, At
  <2>2. CASE posts' = posts \/ id # req[r].id
    BY <1>4, <2>2 DEF model_destroy, Untouched
  <2>3. CASE id = req[r].id
    <3>1. PICK q \in {Redirected(req[r], "done"), Failed(req[r])} : Is(r, q)
      BY <1>4 DEF model_destroy
    <3>2. q.pc \in {"done", "prepare"}
      BY <2>1, <3>1, AnswerFields DEF Answering
    <3>3. req'[r] # req[r]
      BY <1>4, <2>1, <3>1, <3>2 DEF Is, IInv, PostsTypeOK
    <3> QED
      BY <1>1, <1>4, <2>1, <2>3, <3>3
  <2> QED
    BY <2>2, <2>3
<1>5. ASSUME IInv, [PostsNext]_postsVars, NEW id \in DOMAIN posts
      PROVE  Untouched(id) \/ Managed(id)
  <2>1. \/ posts' = posts
        \/ \E r \in Requests : model_insert(r) \/ model_update(r) \/ model_destroy(r)
    BY <1>5 DEF PostsNext, PostsStep, postsVars, Arrive, Begins, ArriveElsewhere,
       require_authenticated_user, blog_current_user, post_find, load_owned_post,
       blog_render_post_show, validate_post, ModelReloads, blog_prepare_view, Dies, Reads, Table
  <2>2. CASE posts' = posts
    BY <1>5, <2>2 DEF Untouched
  <2>3. ASSUME NEW r \in Requests, model_insert(r) \/ model_update(r) \/ model_destroy(r)
        PROVE  Untouched(id) \/ Managed(id)
    <3>1. CASE model_insert(r)
      BY <1>2, <1>5, <3>1
    <3>2. CASE model_update(r)
      BY <1>3, <1>5, <3>2
    <3>3. CASE model_destroy(r)
      BY <1>4, <1>5, <3>3
    <3> QED
      BY <2>3, <3>1, <3>2, <3>3
  <2>4. CASE \E r \in Requests : model_insert(r) \/ model_update(r) \/ model_destroy(r)
    <3>1. PICK r \in Requests : model_insert(r) \/ model_update(r) \/ model_destroy(r)
      BY <2>4
    <3> QED
      BY <2>3, <3>1
  <2> QED
    BY <2>1, <2>2, <2>4
<1>6. IInv /\ [PostsNext]_postsVars =>
         [\A id \in DOMAIN posts :
             \/ id \in DOMAIN posts' /\ posts'[id] = posts[id]
             \/ \E r \in Requests : /\ req[r].id = id /\ req'[r] # req[r]
                                    /\ MayManage(req[r].by, posts[id])]_postsVars
  BY <1>5 DEF Untouched, Managed
<1> QED
  BY <1>6, PostsInvariant, PTL DEF OwnerOnly, PostsSpec

\* Who is told that a post was created or deleted has created or deleted it, and
\* nobody else has: the changes that SQLite counts tell two DELETEs apart, and
\* AUTOINCREMENT two INSERTs.
THEOREM TellersAreRight == PostsSpec => []ToldIsDone
<1>1. PostsInit => TellInv
  BY DEF PostsInit, TellInv, TellsTrue, Apart, Stored, Erased, Fresh, NoAnswer
<1>2. IInv /\ TellInv /\ [PostsNext]_postsVars => TellInv'
  <2> SUFFICES ASSUME IInv, TellInv, [PostsNext]_postsVars PROVE TellInv'
    OBVIOUS
  <2>1. CASE UNCHANGED postsVars
    BY <2>1 DEF postsVars, TellInv
  <2>2. ASSUME NEW r \in Requests, PostsStep(r) PROVE TellInv'
    BY <2>2, ReadsTell, ValidateTells, WritesTell, PostsAssumption DEF PostsStep
  <2> QED
    BY <2>1, <2>2, ReadsTell DEF PostsNext
<1>3. TellInv => ToldIsDone
  BY DEF TellInv, TellsTrue, Apart, Stored, Erased, ToldIsDone, Told
<1> QED
  BY <1>1, <1>2, <1>3, PostsInvariant, PTL DEF PostsSpec

-----------------------------------------------------------------------------
(* Drafts.  The property of Blog is about the text of pages; what keeps a  *)
(* draft off them is decided here, on the copy of the post, the user it is *)
(* compared with and the session, each of which another step has read.     *)

Draft(q) == q.post.published = FALSE

\* A page made of a draft answers a request of somebody who may manage it.
DraftsGuarded ==
    \A r \in Requests :
       req[r].answer.view \in {"show", "edit"} /\ Draft(req[r]) => MayManage(req[r].by, req[r].post)

\* Before the answer there is no page; posts_show shows a draft only to a viewer
\* who is still the one whose session the request came with.
Guarded(q) ==
    /\ q.pc \notin {"prepare", "done"} => q.answer.view = "none"
    /\ q.viewer # None => q.viewer = q.by
    /\ q.pc = "author" /\ Draft(q) => MayManage(q.viewer, q.post)
    /\ q.answer.view \in {"show", "edit"} /\ Draft(q) => MayManage(q.by, q.post)

GuardInv == \A r \in Requests : Guarded(req[r])

\* What an answer makes of a request.
LEMMA AnswerPage ==
    ASSUME NEW q \in Query, NEW status, NEW view
    PROVE  LET redirected == Redirected(q, status)
               page == Page(q, status, view)
               crashed == Crashed(q)
           IN  /\ redirected.answer.view = q.answer.view /\ redirected.pc = "done"
               /\ page.answer.view = view /\ page.pc = "prepare"
               /\ crashed.answer.view = "none" /\ crashed.pc = "done"
               /\ \A p \in {redirected, page, crashed} :
                     p.by = q.by /\ p.viewer = q.viewer /\ p.post = q.post
<1>1. q.answer \in Answer
  BY DEF Query
<1>2. PICK told, shown : /\ told = [q.answer EXCEPT !.status = status]
                         /\ shown = [q.answer EXCEPT !.status = status, !.view = view]
  OBVIOUS
<1>3. told.view = q.answer.view /\ shown.view = view
  BY <1>1, <1>2 DEF Answer
<1>4. /\ Redirected(q, status) = [q EXCEPT !.pc = "done", !.answer = told]
      /\ Page(q, status, view) = [q EXCEPT !.pc = "prepare", !.answer = shown]
  BY <1>2 DEF Redirected, Page, Query
<1>5. Crashed(q) = [q EXCEPT !.pc = "done", !.answer = NoAnswer] /\ NoAnswer.view = "none"
  BY DEF Crashed, NoAnswer
<1> QED
  BY <1>3, <1>4, <1>5 DEF Query

\* To go on with the same session guards as before.
LEMMA GuardedOnward ==
    ASSUME NEW q \in Query, QueryInv(q, posts, lastId), Guarded(q), q.pc \notin {"prepare", "done"},
           NEW p, p.pc # "author", p.answer = q.answer, p.by = q.by,
           p.viewer \in {q.viewer, q.user, None}
    PROVE  Guarded(p)
BY DEF Guarded, QueryInv

\* To answer guards, unless it is with a draft.
LEMMA GuardedAnswer ==
    ASSUME NEW o \in Query, Guarded(o), o.pc \notin {"prepare", "done"},
           NEW q \in {o, LoggedOut(o)}, NEW status, NEW view,
           view \in {"show", "edit"} /\ Draft(o) => MayManage(o.by, o.post)
    PROVE  /\ Guarded(Redirected(q, status))
           /\ Guarded(Page(q, status, view))
           /\ Guarded(Crashed(q))
<1>1. q \in Query
  BY EndsInv
<1>2. q.answer = o.answer /\ q.by = o.by /\ q.post = o.post /\ q.viewer \in {o.viewer, None}
  BY DEF LoggedOut, Query
<1>3. o.answer.view = "none" /\ (o.viewer # None => o.viewer = o.by)
  BY DEF Guarded
<1> DEFINE redirected == Redirected(q, status)
           page == Page(q, status, view)
           crashed == Crashed(q)
<1>4. /\ redirected.answer.view = q.answer.view /\ redirected.pc = "done"
      /\ page.answer.view = view /\ page.pc = "prepare"
      /\ crashed.answer.view = "none" /\ crashed.pc = "done"
      /\ \A p \in {redirected, page, crashed} :
            p.by = q.by /\ p.viewer = q.viewer /\ p.post = q.post
  BY <1>1, AnswerPage
<1> HIDE DEF redirected, page, crashed
<1>5. Guarded(redirected)
  BY <1>2, <1>3, <1>4 DEF Guarded
<1>6. Guarded(page)
  BY <1>2, <1>3, <1>4 DEF Guarded, Draft
<1>7. Guarded(crashed)
  BY <1>2, <1>3, <1>4 DEF Guarded
<1> QED
  BY <1>5, <1>6, <1>7 DEF redirected, page, crashed

\* What another request does changes nothing.
LEMMA OneGuarded ==
    ASSUME IInv, GuardInv, NEW r \in Requests, NEW q, Is(r, q), Guarded(q)
    PROVE  GuardInv'
<1>1. req'[r] = q /\ \A p \in Requests \ {r} : req'[p] = req[p]
  BY DEF Is, IInv, PostsTypeOK
<1> QED
  BY <1>1 DEF GuardInv

\* posts_show finds a post, and asks who looks at it before anything else.
LEMMA FindGuards ==
    ASSUME IInv, GuardInv, NEW r \in Requests, post_find(r)
    PROVE  GuardInv'
<1>1. /\ req[r] \in Query /\ QueryInv(req[r], posts, lastId) /\ Guarded(req[r])
      /\ req[r].pc = "load"
  BY OneQuery DEF IInv, GuardInv, post_find, At
<1>2. CASE Is(r, Refused(req[r]))
  BY <1>1, <1>2, GuardedAnswer, OneGuarded DEF Refused
<1>3. ASSUME req[r].id \in DOMAIN posts, ~Hidden(req[r], posts[req[r].id]),
             NEW post \in {posts[req[r].id]} \cup Truncated(posts[req[r].id]),
             Is(r, Holding(req[r], post))
      PROVE  GuardInv'
  <2>1. PICK q : q = Holding(req[r], post)
    OBVIOUS
  <2>2. /\ q.pc = IF req[r].kind = "show" THEN "author" ELSE "owner"
        /\ q.post = post /\ q.viewer = req[r].viewer /\ q.by = req[r].by
        /\ q.answer = req[r].answer
    BY <1>1, <2>1 DEF Holding, Query
  <2>3. posts[req[r].id] \in Row
    BY <1>3 DEF IInv, PostsTypeOK
  <2>4. post.owner = posts[req[r].id].owner /\ post.published = posts[req[r].id].published
    BY <1>3, <2>3 DEF Truncated, Row
  <2>5. req[r].kind = "show" /\ post.published = FALSE => MayManage(req[r].viewer, post)
    BY <1>3, <2>4 DEF Hidden, MayManage
  <2>6. Guarded(q)
    BY <1>1, <2>2, <2>5 DEF Guarded, Draft
  <2> QED
    BY <1>3, <2>1, <2>6, OneGuarded
<1> QED
  BY <1>2, <1>3 DEF post_find

\* posts_edit and posts_update show the form of a post to its owner only.
LEMMA FormsGuard ==
    ASSUME IInv, GuardInv, NEW r \in Requests, load_owned_post(r) \/ validate_post(r)
    PROVE  GuardInv'
<1>1. /\ req[r] \in Query /\ QueryInv(req[r], posts, lastId) /\ Guarded(req[r])
      /\ req[r].pc \in {"owner", "form"}
  BY OneQuery DEF IInv, GuardInv, load_owned_post, validate_post, At
<1>2. CASE \E q \in {req[r], LoggedOut(req[r])} : Is(r, Refused(q)) \/ Is(r, Crashed(q))
  BY <1>1, <1>2, GuardedAnswer, OneGuarded DEF Refused
<1>3. CASE \E pc \in {"form", "write"} : Is(r, [req[r] EXCEPT !.pc = pc])
  <2>1. PICK pc \in {"form", "write"} : Is(r, [req[r] EXCEPT !.pc = pc])
    BY <1>3
  <2>2. PICK q : q = [req[r] EXCEPT !.pc = pc]
    OBVIOUS
  <2>3. /\ q.pc = pc /\ q.answer = req[r].answer /\ q.by = req[r].by
        /\ q.viewer = req[r].viewer
    BY <1>1, <2>2 DEF Query
  <2> QED
    BY <1>1, <2>1, <2>2, <2>3, GuardedOnward, OneGuarded
<1>4. CASE Is(r, Page(req[r], "200", "edit")) /\ MayManage(req[r].user, req[r].post)
  <2>1. MayManage(req[r].by, req[r].post)
    BY <1>1, <1>4 DEF QueryInv, MayManage
  <2> QED
    BY <1>1, <1>4, <2>1, GuardedAnswer, OneGuarded
<1>5. CASE Is(r, Page(req[r], "422", "new"))
  BY <1>1, <1>5, GuardedAnswer, OneGuarded
<1>6. CASE Is(r, Page(req[r], "422", "edit")) /\ req[r].kind # "create" /\ req[r].pc = "form"
  <2>1. Claims(req[r]) /\ req[r].pc # "owner"
    BY <1>1, <1>6 DEF QueryInv, KindsAt, Claims
  <2>2. MayManage(req[r].user, req[r].post)
    BY <1>1, <2>1 DEF QueryInv
  <2>3. MayManage(req[r].by, req[r].post)
    BY <1>1, <2>2 DEF QueryInv, MayManage
  <2> QED
    BY <1>1, <1>6, <2>3, GuardedAnswer, OneGuarded
<1>7. ASSUME NEW post, Is(r, [req[r] EXCEPT !.pc = "write", !.post = post])
      PROVE  GuardInv'
  <2>1. PICK q : q = [req[r] EXCEPT !.pc = "write", !.post = post]
    OBVIOUS
  <2>2. /\ q.pc = "write" /\ q.answer = req[r].answer /\ q.by = req[r].by
        /\ q.viewer = req[r].viewer
    BY <1>1, <2>1 DEF Query
  <2> QED
    BY <1>1, <1>7, <2>1, <2>2, GuardedOnward, OneGuarded
<1>8. CASE load_owned_post(r)
  BY <1>2, <1>3, <1>4, <1>8 DEF load_owned_post, Goes
<1>9. CASE validate_post(r)
  <2>1. ASSUME NEW content, NEW clock, Submits(r, content, clock) PROVE GuardInv'
    BY <1>2, <1>7, <2>1 DEF Submits
  <2> QED
    BY <1>5, <1>6, <1>9, <2>1 DEF validate_post, At
<1> QED
  BY <1>8, <1>9

\* The other steps make no page of a post, but for blog_render_post_show, which
\* comes after post_find's question.
LEMMA OthersGuard ==
    ASSUME IInv, GuardInv, NEW r \in Requests,
           \/ Arrive(r) \/ ArriveElsewhere(r) \/ require_authenticated_user(r)
           \/ blog_current_user(r) \/ blog_render_post_show(r)
           \/ model_insert(r) \/ model_update(r) \/ ModelReloads(r) \/ model_destroy(r)
           \/ blog_prepare_view(r) \/ Dies(r)
    PROVE  GuardInv'
<1>1. req[r] \in Query /\ QueryInv(req[r], posts, lastId) /\ Guarded(req[r])
  BY OneQuery DEF IInv, GuardInv
<1>2. ASSUME req[r].pc \notin {"prepare", "done"},
             NEW q \in {req[r], LoggedOut(req[r])}, NEW status, NEW view \in {"none", "new", "error"},
             Is(r, Redirected(q, status)) \/ Is(r, Page(q, status, view)) \/ Is(r, Crashed(q))
      PROVE  GuardInv'
  BY <1>1, <1>2, GuardedAnswer, OneGuarded
<1>3. ASSUME req[r].pc \notin {"prepare", "done"},
             NEW pc \in {"handler", "viewer", "load", "reload", "done"},
             NEW id, Is(r, [req[r] EXCEPT !.pc = pc, !.id = id])
      PROVE  GuardInv'
  <2>1. PICK q : q = [req[r] EXCEPT !.pc = pc, !.id = id]
    OBVIOUS
  <2>2. q.pc = pc /\ q.answer = req[r].answer /\ q.by = req[r].by /\ q.viewer = req[r].viewer
    BY <1>1, <2>1 DEF Query
  <2> QED
    BY <1>1, <1>3, <2>1, <2>2, GuardedOnward, OneGuarded
<1>4. \A pc : [req[r] EXCEPT !.pc = pc] = [req[r] EXCEPT !.pc = pc, !.id = req[r].id]
  BY <1>1 DEF Query
<1>5. CASE Arrive(r)
  <2>1. PICK kind, user, id, form : Begins(r, kind, user, id, form)
    BY <1>5 DEF Arrive
  <2>2. PICK q : q = [Fresh EXCEPT !.pc = IF kind = "show" THEN "viewer" ELSE "guard",
                                   !.kind = kind, !.by = user, !.user = user, !.id = id,
                                   !.form = form]
    OBVIOUS
  <2>3. q.pc \in {"viewer", "guard"} /\ q.answer.view = "none" /\ q.viewer = None
    BY <2>2 DEF Fresh, NoAnswer
  <2> QED
    BY <2>1, <2>2, <2>3, OneGuarded DEF Begins, Guarded
<1>6. CASE ArriveElsewhere(r)
  BY <1>3, <1>4, <1>6 DEF ArriveElsewhere, Goes, At
<1>7. CASE require_authenticated_user(r)
  BY <1>2, <1>3, <1>4, <1>7 DEF require_authenticated_user, Goes, At
<1>8. CASE blog_current_user(r)
  <2>1. PICK q : /\ Is(r, q)
                 /\ \E next \in {"load", "form"} :
                       \/ q = [req[r] EXCEPT !.pc = next, !.viewer = req[r].user]
                       \/ q = [LoggedOut(req[r]) EXCEPT !.pc = next]
    BY <1>8 DEF blog_current_user
  <2>2. /\ q.pc \in {"load", "form"} /\ q.answer = req[r].answer /\ q.by = req[r].by
        /\ q.viewer \in {req[r].user, None}
    BY <1>1, <2>1 DEF LoggedOut, Query
  <2>3. req[r].pc = "viewer"
    BY <1>8 DEF blog_current_user, At
  <2> QED
    BY <1>1, <2>1, <2>2, <2>3, GuardedOnward, OneGuarded
<1>9. CASE blog_render_post_show(r)
  <2>1. req[r].pc = "author" /\ (Draft(req[r]) => MayManage(req[r].by, req[r].post))
    BY <1>1, <1>9 DEF blog_render_post_show, At, Guarded, MayManage
  <2> QED
    BY <1>1, <1>9, <2>1, GuardedAnswer, OneGuarded DEF blog_render_post_show, Failed
<1>10. CASE model_insert(r) \/ model_update(r) \/ ModelReloads(r) \/ model_destroy(r)
  <2>1. req[r].pc \in {"write", "reload"}
    BY <1>10 DEF model_insert, model_update, ModelReloads, model_destroy, At
  <2>2. CASE model_insert(r)
    BY <1>2, <1>3, <2>1, <2>2 DEF model_insert, Failed
  <2>3. CASE model_update(r)
    BY <1>2, <1>3, <1>4, <2>1, <2>3 DEF model_update, Failed, Goes
  <2>4. CASE ModelReloads(r)
    BY <1>2, <2>1, <2>4 DEF ModelReloads, Failed
  <2>5. CASE model_destroy(r)
    BY <1>2, <2>1, <2>5 DEF model_destroy, Failed
  <2> QED
    BY <1>10, <2>2, <2>3, <2>4, <2>5
<1>11. CASE blog_prepare_view(r)
  <2>1. PICK q : /\ Is(r, q)
                 /\ \/ q = [req[r] EXCEPT !.pc = "done", !.answer.viewer = req[r].user]
                    \/ q = [LoggedOut(req[r]) EXCEPT !.pc = "done"]
    BY <1>11 DEF blog_prepare_view
  <2>2. q.answer.view = req[r].answer.view
    <3>1. req[r].answer \in Answer
      BY <1>1 DEF Query
    <3>2. [req[r].answer EXCEPT !.viewer = req[r].user].view = req[r].answer.view
      BY <3>1 DEF Answer
    <3> QED
      BY <1>1, <2>1, <3>2 DEF LoggedOut, Query
  <2>3. /\ q.pc = "done" /\ q.by = req[r].by /\ q.post = req[r].post
        /\ q.viewer \in {req[r].viewer, None}
    BY <1>1, <2>1 DEF LoggedOut, Query
  <2>4. Guarded(q)
    BY <1>1, <2>2, <2>3 DEF Guarded, Draft
  <2> QED
    BY <2>1, <2>4, OneGuarded
<1>12. CASE Dies(r)
  <2>1. CASE req[r].pc = "prepare"
    <3>1. PICK q : q = Crashed(req[r])
      OBVIOUS
    <3>2. q.answer.view = "none" /\ q.pc = "done" /\ q.by = req[r].by /\ q.viewer = req[r].viewer
      BY <1>1, <3>1 DEF Crashed, NoAnswer, Query
    <3>3. Guarded(q)
      BY <1>1, <3>2 DEF Guarded
    <3> QED
      BY <1>12, <3>1, <3>3, OneGuarded DEF Dies
  <2>2. CASE req[r].pc # "prepare"
    BY <1>2, <1>12, <2>2 DEF Dies
  <2> QED
    BY <2>1, <2>2
<1> QED
  BY <1>5, <1>6, <1>7, <1>8, <1>9, <1>10, <1>11, <1>12

\* No page is made of a draft for anyone but its author and the admins: not when
\* the session is lost between two questions, nor when the copy of the row is bad.
THEOREM DraftsAreGuarded == PostsSpec => []DraftsGuarded
<1>1. PostsInit => GuardInv
  BY DEF PostsInit, GuardInv, Guarded, Fresh, NoAnswer
<1>2. IInv /\ GuardInv /\ [PostsNext]_postsVars => GuardInv'
  <2> SUFFICES ASSUME IInv, GuardInv, [PostsNext]_postsVars PROVE GuardInv'
    OBVIOUS
  <2>1. CASE UNCHANGED postsVars
    BY <2>1 DEF postsVars, GuardInv
  <2>2. ASSUME NEW r \in Requests, PostsStep(r) PROVE GuardInv'
    BY <2>2, FindGuards, FormsGuard, OthersGuard DEF PostsStep
  <2> QED
    BY <2>1, <2>2, OthersGuard DEF PostsNext
<1>3. GuardInv => DraftsGuarded
  BY DEF GuardInv, Guarded, DraftsGuarded
<1> QED
  BY <1>1, <1>2, <1>3, PostsInvariant, PTL DEF PostsSpec

-----------------------------------------------------------------------------
(* The whole refines its part: what was proved of Posts holds of Blog.     *)

\* A step of the whole is one of Posts or leaves it alone.
LEMMA PostsOrStutter == ASSUME [Next]_blogVars PROVE [PostsNext]_postsVars
<1>1. CASE UNCHANGED blogVars
  BY <1>1 DEF blogVars
<1>2. CASE ViewNext /\ UNCHANGED <<postsVars, sent>>
  BY <1>2
<1>3. ASSUME NEW r \in Requests, BlogArrive(r) \/ BlogRequest(r) \/ Visit(r) PROVE PostsNext
  BY <1>3 DEF BlogArrive, BlogRequest, Visit, PostsNext
<1> QED
  BY <1>1, <1>2, <1>3 DEF Next

\* With pages, views and compilers around it, the table of posts still behaves
\* as Posts says.
THEOREM BlogImplementsPosts == Spec => PostsSpec
<1>1. Init => PostsInit
  BY DEF Init
<1>2. [Next]_blogVars => [PostsNext]_postsVars
  BY PostsOrStutter
<1> QED
  BY <1>1, <1>2, PTL DEF Spec, PostsSpec

-----------------------------------------------------------------------------
(* Views and compilers: what a generated file was made from.               *)

Bundle(found) == [whole |-> TRUE, views |-> Translated(found), read |-> found]

\* Files that a compiler may have read.
Gathered(found) ==
    IsSite(found) /\ \A path \in DOMAIN found : Readable(path, found[path])

FromFiles(bundle) ==
    bundle = NoBundle
      \/ \E found : Gathered(found) /\ Acceptable(found) /\ bundle = Bundle(found)

Run(pc, found, todo, temporary) ==
    [pc |-> pc, found |-> found, todo |-> todo, temporary |-> temporary]

RunInv(run) ==
    /\ run = Run(run.pc, run.found, run.todo, run.temporary)
    /\ run.pc \in {"idle", "scan", "open", "write", "rename"}
    /\ Gathered(run.found)
    /\ run.pc \in {"open", "write", "rename"} => Acceptable(run.found)
    /\ run.pc = "rename" => run.temporary = Bundle(run.found)

ViewInv ==
    /\ IsSite(files)
    /\ installed \in BOOLEAN
    /\ compiler = [c \in Compilers |-> compiler[c]]
    /\ \A c \in Compilers : RunInv(compiler[c])
    /\ FromFiles(generated) /\ FromFiles(linked)

\* A site without files.
LEMMA EmptySite == IsSite(<<>>)
<1>1. DOMAIN <<>> = {} /\ <<>> = [path \in DOMAIN <<>> |-> <<>>[path]]
  OBVIOUS
<1> QED
  BY <1>1, FS_EmptySet DEF IsSite

\* One more file, or another source in one.
LEMMA SiteWithFile ==
    ASSUME NEW site, IsSite(site), NEW path \in Seq(STRING), NEW source,
           IsSource(source), Discreet(source)
    PROVE  IsSite(WithFile(site, path, source))
<1> DEFINE with == WithFile(site, path, source)
<1>1. with = [p \in DOMAIN site \cup {path} |-> IF p = path THEN source ELSE site[p]]
  BY DEF WithFile
<1> HIDE DEF with
<1>2. IsFiniteSet(DOMAIN site \cup {path})
  BY FS_AddElement DEF IsSite
<1>3. DOMAIN with = DOMAIN site \cup {path} /\ with = [p \in DOMAIN with |-> with[p]]
  BY <1>1
<1>4. \A p \in DOMAIN site \cup {path} : with[p] = IF p = path THEN source ELSE site[p]
  BY <1>1
<1>5. IsSite(with)
  BY <1>2, <1>3, <1>4 DEF IsSite
<1> QED
  BY <1>5 DEF with

\* A file less.
LEMMA SiteWithoutFile == ASSUME IsSite(files), NEW path PROVE IsSite(WithoutFile(path))
<1> DEFINE without == WithoutFile(path)
<1>1. without = [p \in DOMAIN files \ {path} |-> files[p]]
  BY DEF WithoutFile
<1> HIDE DEF without
<1>2. IsFiniteSet(DOMAIN files \ {path})
  BY FS_Subset DEF IsSite
<1>3. DOMAIN without = DOMAIN files \ {path} /\ without = [p \in DOMAIN without |-> without[p]]
  BY <1>1
<1>4. IsSite(without)
  BY <1>1, <1>2, <1>3 DEF IsSite
<1> QED
  BY <1>4 DEF without

\* A compiler that has not started yet, or has ended.
LEMMA IdleInv == RunInv(Idle)
<1>1. Gathered(<<>>)
  BY EmptySite DEF Gathered
<1>2. /\ Idle = Run("idle", <<>>, {}, NoBundle)
      /\ Idle.pc = "idle" /\ Idle.found = <<>> /\ Idle.todo = {} /\ Idle.temporary = NoBundle
  BY DEF Idle, Run
<1> QED
  BY <1>1, <1>2 DEF RunInv

\* The other compilers are not disturbed.
LEMMA OneCompiler ==
    ASSUME ViewInv, NEW c \in Compilers, NEW run, RunInv(run),
           compiler' = [compiler EXCEPT ![c] = run], files' = files, installed' = installed,
           FromFiles(generated)', linked' = linked
    PROVE  ViewInv'
<1>1. compiler' = [d \in Compilers |-> compiler'[d]]
  BY DEF ViewInv
<1>2. \A d \in Compilers : compiler'[d] = IF d = c THEN run ELSE compiler[d]
  BY DEF ViewInv
<1>3. \A d \in Compilers : RunInv(compiler'[d])
  BY <1>2 DEF ViewInv
<1>4. FromFiles(linked)'
  <2>1. FromFiles(linked)
    BY DEF ViewInv
  <2> QED
    BY <2>1
<1> QED
  BY <1>1, <1>3, <1>4 DEF ViewInv

\* A run that gets to its next step.
LEMMA RunProceeds ==
    ASSUME NEW run, run = Run(run.pc, run.found, run.todo, run.temporary), NEW pc
    PROVE  [run EXCEPT !.pc = pc] = Run(pc, run.found, run.todo, run.temporary)
<1>1. PICK next : next = [run EXCEPT !.pc = pc]
  OBVIOUS
<1>2. next = Run(pc, run.found, run.todo, run.temporary)
  BY <1>1 DEF Run
<1> QED
  BY <1>1, <1>2

\* A run that gets to know what it must read.
LEMMA RunStarts ==
    ASSUME NEW run, run = Run(run.pc, run.found, run.todo, run.temporary), NEW pc, NEW todo
    PROVE  [run EXCEPT !.pc = pc, !.todo = todo] = Run(pc, run.found, todo, run.temporary)
<1>1. PICK next : next = [run EXCEPT !.pc = pc, !.todo = todo]
  OBVIOUS
<1>2. next = Run(pc, run.found, todo, run.temporary)
  BY <1>1 DEF Run
<1> QED
  BY <1>1, <1>2

\* A run that writes its own file.
LEMMA RunOutputs ==
    ASSUME NEW run, run = Run(run.pc, run.found, run.todo, run.temporary), NEW pc, NEW temporary
    PROVE  [run EXCEPT !.pc = pc, !.temporary = temporary] = Run(pc, run.found, run.todo, temporary)
<1>1. PICK next : next = [run EXCEPT !.pc = pc, !.temporary = temporary]
  OBVIOUS
<1>2. next = Run(pc, run.found, run.todo, temporary)
  BY <1>1 DEF Run
<1> QED
  BY <1>1, <1>2

\* A run that has read one more file.
LEMMA RunReads ==
    ASSUME NEW run, run = Run(run.pc, run.found, run.todo, run.temporary), NEW found
    PROVE  [run EXCEPT !.found = found] = Run(run.pc, found, run.todo, run.temporary)
<1>1. PICK next : next = [run EXCEPT !.found = found]
  OBVIOUS
<1>2. next = Run(run.pc, found, run.todo, run.temporary)
  BY <1>1 DEF Run
<1> QED
  BY <1>1, <1>2

\* The rest of a view's step leaves the compilers alone.
LEMMA CompilersStay ==
    ASSUME ViewInv, compiler' = compiler, generated' = generated, IsSite(files)',
           installed' \in BOOLEAN, FromFiles(linked)'
    PROVE  ViewInv'
<1>1. FromFiles(generated)'
  <2>1. FromFiles(generated)
    BY DEF ViewInv
  <2> QED
    BY <2>1
<1>2. compiler' = [c \in Compilers |-> compiler'[c]] /\ \A c \in Compilers : RunInv(compiler'[c])
  BY DEF ViewInv
<1> QED
  BY <1>1, <1>2 DEF ViewInv

\* What runs in a compiler, and what it leaves behind, was read from files that
\* parse; from open on they are also acceptable.
LEMMA CompilerInv ==
    ASSUME ViewInv, NEW c \in Compilers,
           \/ CompilerStarts(c) \/ compiler_add(c) \/ compiler_validate(c)
           \/ compiler_open(c) \/ compiler_written(c) \/ compiler_rename(c)
           \/ CompilerStops(c)
    PROVE  ViewInv'
<1>0. PICK run : run = compiler[c]
  OBVIOUS
<1>1. RunInv(run)
  BY <1>0 DEF ViewInv
<1>2. /\ run.pc \in {"idle", "scan", "open", "write", "rename"} /\ Gathered(run.found)
      /\ run.pc \in {"open", "write", "rename"} => Acceptable(run.found)
      /\ run.pc = "rename" => run.temporary = Bundle(run.found)
  BY <1>1 DEF RunInv
<1>13. run = Run(run.pc, run.found, run.todo, run.temporary)
  BY <1>1 DEF RunInv
<1>3. /\ FromFiles(generated) /\ FromFiles(linked)
      /\ UNCHANGED generated => FromFiles(generated)'
  <2>1. FromFiles(generated) /\ FromFiles(linked)
    BY DEF ViewInv
  <2> QED
    BY <2>1
<1>4. ASSUME Ends(c), files' = files, installed' = installed, linked' = linked,
             FromFiles(generated)'
      PROVE  ViewInv'
  BY <1>4, IdleInv, OneCompiler DEF Ends
<1>5. ASSUME NEW pc \in {"scan", "open", "write", "rename"}, NEW todo, NEW temporary,
             pc # "scan" => Acceptable(run.found),
             pc = "rename" => temporary = Bundle(run.found),
             compiler' = [compiler EXCEPT ![c] = Run(pc, run.found, todo, temporary)],
             files' = files, installed' = installed, linked' = linked, generated' = generated
      PROVE  ViewInv'
  <2>1. PICK next : next = Run(pc, run.found, todo, temporary)
    OBVIOUS
  <2>2. /\ next.pc = pc /\ next.found = run.found /\ next.todo = todo
        /\ next.temporary = temporary
    BY <2>1 DEF Run
  <2>3. RunInv(next)
    BY <1>2, <1>5, <2>1, <2>2 DEF RunInv
  <2> QED
    BY <1>3, <1>5, <2>1, <2>3, OneCompiler
<1>6. CASE CompilerStarts(c)
  <2>1. compiler' = [compiler EXCEPT ![c] = [run EXCEPT !.pc = "scan", !.todo = DOMAIN files]]
    BY <1>0, <1>6 DEF CompilerStarts
  <2>2. compiler' = [compiler EXCEPT ![c] = Run("scan", run.found, DOMAIN files, run.temporary)]
    <3>1. PICK todo : todo = DOMAIN files
      OBVIOUS
    <3>2. \A pc : [run EXCEPT !.pc = pc, !.todo = todo] = Run(pc, run.found, todo, run.temporary)
      BY <1>13, RunStarts
    <3> QED
      BY <2>1, <3>1, <3>2
  <2> QED
    BY <1>5, <1>6, <2>2 DEF CompilerStarts
<1>7. CASE compiler_add(c)
  <2>1. PICK path \in DOMAIN files \ DOMAIN run.found :
           IF Readable(path, files[path])
           THEN compiler' = [compiler EXCEPT ![c].found = WithFile(@, path, files[path])]
           ELSE Ends(c)
    BY <1>0, <1>7 DEF compiler_add
  <2>2. run.pc = "scan" /\ UNCHANGED <<files, generated, linked, installed>>
    BY <1>0, <1>7 DEF compiler_add
  <2>3. CASE ~Readable(path, files[path])
    BY <1>3, <1>4, <2>1, <2>2, <2>3
  <2>4. CASE Readable(path, files[path])
    <3>1. PICK with, site, source :
             site = run.found /\ source = files[path] /\ with = WithFile(site, path, source)
      OBVIOUS
    <3>2. compiler' = [compiler EXCEPT ![c] = [run EXCEPT !.found = with]]
      BY <1>0, <2>1, <2>4, <3>1
    <3>3. PICK next : next = Run("scan", with, run.todo, run.temporary)
      OBVIOUS
    <3>4. compiler' = [compiler EXCEPT ![c] = next]
      <4>1. [run EXCEPT !.found = with] = next
        BY <1>0, <1>13, <2>2, <3>3, RunReads
      <4> QED
        BY <3>2, <4>1
    <3>5. path \in Seq(STRING) /\ IsSource(files[path]) /\ Discreet(files[path])
      BY <2>1 DEF ViewInv, IsSite
    <3>6. IsSite(site)
      BY <1>2, <3>1 DEF Gathered
    <3>7. /\ DOMAIN with = DOMAIN run.found \cup {path}
          /\ \A p \in DOMAIN with : with[p] = IF p = path THEN files[path] ELSE run.found[p]
      BY <3>1 DEF WithFile
    <3>8. Gathered(with)
      <4>1. IsSource(source) /\ Discreet(source) /\ path \in Seq(STRING)
        BY <3>1, <3>5
      <4>2. IsSite(with)
        BY <3>1, <3>6, <4>1, SiteWithFile
      <4> QED
        BY <1>2, <2>4, <3>7, <4>2 DEF Gathered
    <3>9. next.pc = "scan" /\ next.found = with /\ next.todo = run.todo /\ next.temporary = run.temporary
      BY <3>3 DEF Run
    <3>10. RunInv(next)
      BY <3>3, <3>8, <3>9 DEF RunInv
    <3> QED
      BY <1>3, <2>2, <3>4, <3>10, OneCompiler
  <2> QED
    BY <2>3, <2>4
<1>8. CASE compiler_validate(c)
  <2>1. CASE ~Acceptable(run.found)
    BY <1>0, <1>3, <1>4, <1>8, <2>1 DEF compiler_validate
  <2>2. CASE Acceptable(run.found)
    <3>1. compiler' = [compiler EXCEPT ![c] = [run EXCEPT !.pc = "open"]]
      BY <1>0, <1>8, <2>2 DEF compiler_validate, Proceeds
    <3>2. compiler' = [compiler EXCEPT ![c] = Run("open", run.found, run.todo, run.temporary)]
      BY <1>0, <3>1, <1>13, RunProceeds
    <3> QED
      BY <1>5, <1>8, <2>2, <3>2 DEF compiler_validate
  <2> QED
    BY <2>1, <2>2
<1>9. CASE compiler_open(c)
  <2>1. PICK temporary : temporary = Target(c).temporary
    OBVIOUS
  <2>2. compiler' = [compiler EXCEPT ![c] = [run EXCEPT !.pc = "write", !.temporary = temporary]]
    BY <1>0, <1>9, <2>1 DEF compiler_open
  <2>3. compiler' = [compiler EXCEPT ![c] = Run("write", run.found, run.todo, temporary)]
    <3>1. \A pc : [run EXCEPT !.pc = pc, !.temporary = temporary]
                    = Run(pc, run.found, run.todo, temporary)
      BY <1>13, RunOutputs
    <3> QED
      BY <2>2, <3>1
  <2>4. generated' = generated /\ run.pc = "open"
    BY <1>0, <1>9 DEF compiler_open, Target
  <2> QED
    BY <1>2, <1>5, <1>9, <2>3, <2>4 DEF compiler_open
<1>10. CASE compiler_written(c)
  <2>1. PICK temporary : temporary = Output(c, TRUE)
    OBVIOUS
  <2>2. compiler' = [compiler EXCEPT ![c] = [run EXCEPT !.pc = "rename", !.temporary = temporary]]
    BY <1>0, <1>10, <2>1 DEF compiler_written
  <2>3. compiler' = [compiler EXCEPT ![c] = Run("rename", run.found, run.todo, temporary)]
    <3>1. \A pc : [run EXCEPT !.pc = pc, !.temporary = temporary]
                    = Run(pc, run.found, run.todo, temporary)
      BY <1>13, RunOutputs
    <3> QED
      BY <2>2, <3>1
  <2>4. temporary = Bundle(run.found) /\ run.pc = "write"
    BY <1>0, <1>10, <2>1 DEF compiler_written, Output, Bundle
  <2> QED
    BY <1>2, <1>5, <1>10, <2>3, <2>4 DEF compiler_written
<1>11. CASE compiler_rename(c)
  <2>1. generated' = Bundle(run.found)
    BY <1>0, <1>2, <1>11 DEF compiler_rename
  <2>2. FromFiles(generated)'
    BY <1>0, <1>2, <1>11, <2>1 DEF FromFiles, compiler_rename
  <2> QED
    BY <1>4, <1>11, <2>2 DEF compiler_rename
<1>12. CASE CompilerStops(c)
  BY <1>3, <1>4, <1>12 DEF CompilerStops
<1> QED
  BY <1>6, <1>7, <1>8, <1>9, <1>10, <1>11, <1>12

\* An edit, a build and an installation.
LEMMA AroundInv ==
    ASSUME BlogAssumption, ViewInv, Edit \/ Build \/ Install
    PROVE  ViewInv'
<1>1. FromFiles(linked) /\ FromFiles(generated) /\ IsSite(files) /\ installed \in BOOLEAN
  BY DEF ViewInv
<1>2. CASE Edit
  <2>1. IsSite(files)'
    <3>1. ASSUME NEW e \in Edits, files' = WithFile(files, e.path, e.source) PROVE IsSite(files')
      <4>1. e.path \in Seq(STRING) /\ IsSource(e.source) /\ Discreet(e.source)
        BY DEF BlogAssumption
      <4> QED
        BY <1>1, <3>1, <4>1, SiteWithFile
    <3>2. ASSUME NEW path, files' = WithoutFile(path) PROVE IsSite(files')
      BY <1>1, <3>2, SiteWithoutFile
    <3> QED
      BY <1>2, <3>1, <3>2 DEF Edit
  <2> QED
    BY <1>1, <1>2, <2>1, CompilersStay DEF Edit
<1>3. CASE Build
  <2>1. FromFiles(linked)'
    BY <1>1, <1>3 DEF Build
  <2> QED
    BY <1>1, <1>3, <2>1, CompilersStay DEF Build
<1>4. CASE Install
  BY <1>1, <1>4, CompilersStay DEF Install
<1> QED
  BY <1>2, <1>3, <1>4

\* No step puts anything before a compiler, the generated file or the program
\* but what was read from files.
LEMMA ViewsStay == ASSUME ViewInv, UNCHANGED <<files, generated, linked, installed, compiler>> PROVE ViewInv'
<1>1. FromFiles(linked) /\ IsSite(files) /\ installed \in BOOLEAN
  BY DEF ViewInv
<1> QED
  BY <1>1, CompilersStay

\* Every step of the whole keeps that.
LEMMA NextViewInv == ASSUME BlogAssumption, ViewInv, [Next]_blogVars PROVE ViewInv'
<1>1. CASE UNCHANGED blogVars
  BY <1>1, ViewsStay DEF blogVars, viewVars
<1>2. CASE ViewNext /\ UNCHANGED <<postsVars, sent>>
  BY <1>2, AroundInv, CompilerInv DEF ViewNext
<1>3. ASSUME NEW r \in Requests, BlogArrive(r) \/ BlogRequest(r) \/ Visit(r) PROVE ViewInv'
  BY <1>3, ViewsStay DEF BlogArrive, BlogRequest, Visit, viewVars
<1> QED
  BY <1>1, <1>2, <1>3 DEF Next

\* At the start nothing is compiled.
LEMMA InitViewInv == ASSUME Init PROVE ViewInv
<1>1. FromFiles(NoBundle)
  BY DEF FromFiles
<1>2. compiler = [c \in Compilers |-> compiler[c]] /\ \A c \in Compilers : compiler[c] = Idle
  BY DEF Init, ViewInit
<1> QED
  BY <1>1, <1>2, IdleInv DEF Init, ViewInit, ViewInv

\* Whatever is edited, compiled, killed and built in whatever order, the program
\* and the generated file hold views that were read from files.
THEOREM ViewInvariant == Spec => []ViewInv
<1>1. Init => ViewInv
  BY InitViewInv
<1>2. BlogAssumption /\ ViewInv /\ [Next]_blogVars => ViewInv'
  BY NextViewInv
<1> QED
  BY <1>1, <1>2, BlogAssumption, PTL DEF Spec

\* Files, compilers and pages keep their types.
THEOREM BlogTypes == Spec => []TypeOK
<1>1. PostsTypeOK /\ ViewInv /\ DOMAIN sent = Requests => TypeOK
  BY DEF ViewInv, RunInv, IsSite, Gathered, TypeOK
<1>2. Init => DOMAIN sent = Requests
  BY DEF Init
<1>3. DOMAIN sent = Requests /\ [Next]_blogVars => (DOMAIN sent = Requests)'
  BY DEF Next, blogVars, BlogArrive, BlogRequest, Visit
<1> QED
  BY <1>1, <1>2, <1>3, ViewInvariant, BlogImplementsPosts, PostsTypes, PTL DEF Spec

-----------------------------------------------------------------------------
(* The parser: what the instructions of a template are made of.            *)

\* A token that became an instruction.
InstructionOf(source) ==
    {i \in [type : TokenKinds, value : Seq(STRING), jump : Nat] :
        /\ i.type \notin {"/", "empty", "unclosed"}
        /\ i.type = ">" => view_path_valid(i.value)
        /\ \E n \in DOMAIN source : source[n].kind = i.type /\ source[n].name = i.value}

CodeOf(source) == Seq(InstructionOf(source))

ParserOf(source) ==
    {p \in [ok : BOOLEAN, code : CodeOf(source), open : Seq(Nat)] :
        \A k \in DOMAIN p.open : p.open[k] \in DOMAIN p.code}

\* A sequence and one element more.
LEMMA AppendFields ==
    ASSUME NEW S, NEW s \in Seq(S), NEW x \in S
    PROVE  /\ Append(s, x) \in Seq(S) /\ Len(Append(s, x)) = Len(s) + 1 /\ Len(s) \in Nat
           /\ DOMAIN s = 1 .. Len(s) /\ DOMAIN Append(s, x) = 1 .. Len(s) + 1
           /\ Append(s, x)[Len(s) + 1] = x
           /\ \A i \in 1 .. Len(s) : Append(s, x)[i] = s[i]
OBVIOUS

\* A sequence without its last element.
LEMMA FrontFields ==
    ASSUME NEW S, NEW s \in Seq(S), s # <<>>
    PROVE  /\ Front(s) \in Seq(S) /\ Len(Front(s)) = Len(s) - 1 /\ Len(s) \in Nat \ {0}
           /\ DOMAIN s = 1 .. Len(s) /\ DOMAIN Front(s) = 1 .. Len(s) - 1
           /\ Last(s) = s[Len(s)] /\ Len(s) \in DOMAIN s
           /\ \A i \in 1 .. Len(s) - 1 : Front(s)[i] = s[i]
<1>1. Len(s) \in Nat \ {0} /\ DOMAIN s = 1 .. Len(s)
  OBVIOUS
<1>2. PICK f : f = SubSeq(s, 1, Len(s) - 1)
  OBVIOUS
<1>3. f \in Seq(S) /\ Len(f) = Len(s) - 1
  BY <1>1, <1>2
<1>4. DOMAIN f = 1 .. Len(s) - 1 /\ \A i \in 1 .. Len(s) - 1 : f[i] = s[i]
  BY <1>1, <1>2
<1> QED
  BY <1>1, <1>2, <1>3, <1>4 DEF Front, Last

\* The parser at the start, and after an error.
LEMMA BeginType == ASSUME NEW source PROVE Begin \in ParserOf(source) /\ Unparsed \in ParserOf(source)
<1>1. <<>> \in CodeOf(source) /\ <<>> \in Seq(Nat) /\ DOMAIN <<>> = {}
  BY DEF CodeOf
<1> QED
  BY <1>1 DEF Begin, Unparsed, ParserOf

\* A token of a source.
LEMMA TokenType ==
    ASSUME NEW source, IsSource(source), NEW n \in 1 .. Len(source)
    PROVE  /\ n \in DOMAIN source /\ source[n].kind \in TokenKinds
           /\ source[n].name \in Seq(STRING)
           /\ source \in Seq([kind : TokenKinds, name : Seq(STRING)])
<1>1. PICK T : T = [kind : TokenKinds, name : Seq(STRING)]
  OBVIOUS
<1>2. source \in Seq(T)
  BY <1>1 DEF IsSource
<1>3. n \in DOMAIN source /\ source[n] \in T
  BY <1>2
<1> QED
  BY <1>1, <1>2, <1>3

\* What a section's end makes of the parser.
LEMMA ClosedFields ==
    ASSUME NEW source, NEW parser \in ParserOf(source), parser.open # <<>>
    PROVE  LET closed == SectionClosed(parser)
               last == Last(parser.open)
           IN  /\ closed.ok = parser.ok /\ closed.open = Front(parser.open)
               /\ Len(closed.code) = Len(parser.code)
               /\ last \in DOMAIN parser.code /\ last = parser.open[Len(parser.open)]
               /\ closed.code[last].type = parser.code[last].type
               /\ closed.code[last].value = parser.code[last].value
               /\ closed.code[last].jump = Len(parser.code) + 1
               /\ \A i \in DOMAIN parser.code \ {last} : closed.code[i] = parser.code[i]
               /\ closed \in ParserOf(source)
<1>0. PICK I : I = InstructionOf(source)
  OBVIOUS
<1>1. PICK ok, code, open : /\ parser = [ok |-> ok, code |-> code, open |-> open]
                            /\ ok \in BOOLEAN /\ code \in Seq(I) /\ open \in Seq(Nat)
                            /\ \A k \in DOMAIN open : open[k] \in DOMAIN code
  <2>1. parser \in [ok : BOOLEAN, code : Seq(I), open : Seq(Nat)]
    BY <1>0 DEF ParserOf, CodeOf
  <2>2. \A k \in DOMAIN parser.open : parser.open[k] \in DOMAIN parser.code
    BY DEF ParserOf
  <2> QED
    BY <2>1, <2>2
<1>2. open # <<>> /\ Len(open) \in 1 .. Len(open) /\ Len(code) \in Nat /\ DOMAIN code = 1 .. Len(code)
  BY <1>1
<1>3. PICK last : last = Last(parser.open) /\ last = open[Len(open)] /\ last \in DOMAIN code
  BY <1>1, <1>2 DEF Last
<1>4. PICK old : old = code[last] /\ old \in I
  BY <1>1, <1>3
<1>5. PICK new : new = [old EXCEPT !.jump = Len(code) + 1]
  OBVIOUS
<1>6. /\ new \in I
      /\ new.type = old.type /\ new.value = old.value /\ new.jump = Len(code) + 1
  <2>1. old \in [type : TokenKinds, value : Seq(STRING), jump : Nat]
    BY <1>0, <1>4 DEF InstructionOf
  <2>2. new = [type |-> old.type, value |-> old.value, jump |-> Len(code) + 1]
    BY <1>5, <2>1
  <2>3. new \in [type : TokenKinds, value : Seq(STRING), jump : Nat]
    BY <1>2, <2>1, <2>2
  <2>4. new.type = old.type /\ new.value = old.value /\ new.jump = Len(code) + 1
    BY <2>2
  <2> QED
    BY <1>0, <1>4, <2>3, <2>4 DEF InstructionOf
<1>7. PICK next : next = [code EXCEPT ![last] = new]
  OBVIOUS
<1>8. /\ next \in Seq(I) /\ Len(next) = Len(code) /\ DOMAIN next = DOMAIN code
      /\ next[last] = new /\ \A i \in DOMAIN code \ {last} : next[i] = code[i]
  BY <1>1, <1>3, <1>6, <1>7
<1>9. /\ Front(open) \in Seq(Nat)
      /\ \A k \in DOMAIN Front(open) : k \in DOMAIN open /\ Front(open)[k] = open[k]
  <2>1. PICK front : front = Front(open)
    OBVIOUS
  <2>2. /\ front \in Seq(Nat) /\ DOMAIN front = 1 .. Len(open) - 1 /\ DOMAIN open = 1 .. Len(open)
        /\ Len(open) \in Nat /\ \A k \in 1 .. Len(open) - 1 : front[k] = open[k]
    BY <1>1, <1>2, <2>1, FrontFields
  <2> QED
    BY <2>1, <2>2
<1>11. PICK closed : closed = SectionClosed(parser)
  OBVIOUS
<1>10. closed = [ok |-> ok, code |-> next, open |-> Front(open)]
  <2>1. parser.open = open /\ parser.code = code
    BY <1>1
  <2>2. PICK n : n = Len(code) + 1
    OBVIOUS
  <2>3. closed = [parser EXCEPT !.code[last].jump = n, !.open = Front(@)]
    BY <1>3, <1>11, <2>1, <2>2 DEF SectionClosed
  <2>4. [code EXCEPT ![last].jump = n] = next
    BY <1>3, <1>4, <1>5, <1>7, <2>2
  <2>5. PICK left : left = Front(open)
    OBVIOUS
  <2> QED
    BY <1>1, <2>1, <2>3, <2>4, <2>5
<1>12. closed.ok = ok /\ closed.code = next /\ closed.open = Front(open)
  BY <1>10, <1>11
<1>13. closed \in ParserOf(source)
  <2>1. \A k \in DOMAIN closed.open : closed.open[k] \in DOMAIN closed.code
    BY <1>1, <1>8, <1>9, <1>12
  <2>2. closed \in [ok : BOOLEAN, code : Seq(I), open : Seq(Nat)]
    BY <1>1, <1>8, <1>9, <1>10, <1>11
  <2> QED
    BY <1>0, <2>1, <2>2 DEF ParserOf, CodeOf
<1> QED
  BY <1>1, <1>3, <1>4, <1>6, <1>8, <1>11, <1>12, <1>13

\* What any other token makes of the parser.
LEMMA PushedFields ==
    ASSUME NEW source, IsSource(source), NEW parser \in ParserOf(source),
           NEW n \in 1 .. Len(source), source[n].kind \notin {"/", "empty", "unclosed"},
           source[n].kind = ">" => view_path_valid(source[n].name)
    PROVE  LET pushed == Pushed(parser, source[n])
               place == Len(parser.code) + 1
           IN  /\ pushed.ok = parser.ok /\ pushed \in ParserOf(source)
               /\ Len(pushed.code) = place
               /\ pushed.code[place].type = source[n].kind
               /\ pushed.code[place].value = source[n].name
               /\ \A i \in DOMAIN parser.code : pushed.code[i] = parser.code[i]
               /\ pushed.open = IF source[n].kind \in Sections
                                THEN Append(parser.open, place) ELSE parser.open
<1>0. PICK I : I = InstructionOf(source)
  OBVIOUS
<1>1. PICK ok, code, open : /\ parser = [ok |-> ok, code |-> code, open |-> open]
                            /\ ok \in BOOLEAN /\ code \in Seq(I) /\ open \in Seq(Nat)
                            /\ \A k \in DOMAIN open : open[k] \in DOMAIN code
  <2>1. parser \in [ok : BOOLEAN, code : Seq(I), open : Seq(Nat)]
    BY <1>0 DEF ParserOf, CodeOf
  <2>2. \A k \in DOMAIN parser.open : parser.open[k] \in DOMAIN parser.code
    BY DEF ParserOf
  <2> QED
    BY <2>1, <2>2
<1>2. PICK kind, name : kind = source[n].kind /\ name = source[n].name
  OBVIOUS
<1>3. PICK new : new = [type |-> kind, value |-> name, jump |-> 0]
  OBVIOUS
<1>4. new \in I /\ new.type = kind /\ new.value = name
  BY <1>0, <1>2, <1>3, TokenType DEF InstructionOf
<1>5. PICK next : next = Append(code, new)
  OBVIOUS
<1>6. /\ next \in Seq(I) /\ Len(next) = Len(code) + 1 /\ Len(code) \in Nat
      /\ DOMAIN code = 1 .. Len(code) /\ DOMAIN next = 1 .. Len(code) + 1
      /\ next[Len(code) + 1] = new /\ \A i \in 1 .. Len(code) : next[i] = code[i]
  BY <1>1, <1>4, <1>5, AppendFields
<1>7. PICK left : left = IF kind \in Sections THEN Append(open, Len(code) + 1) ELSE open
  OBVIOUS
<1>8. /\ left \in Seq(Nat)
      /\ \A k \in DOMAIN left : left[k] \in DOMAIN next
  <2>1. CASE left = open
    BY <1>1, <1>6, <2>1
  <2>2. CASE left = Append(open, Len(code) + 1)
    <3>1. Len(code) + 1 \in Nat
      BY <1>6
    <3>2. /\ left \in Seq(Nat) /\ DOMAIN left = 1 .. Len(open) + 1 /\ Len(open) \in Nat
          /\ DOMAIN open = 1 .. Len(open)
          /\ left[Len(open) + 1] = Len(code) + 1
          /\ \A k \in 1 .. Len(open) : left[k] = open[k]
      BY <1>1, <2>2, <3>1, AppendFields
    <3>3. \A k \in 1 .. Len(open) : left[k] \in 1 .. Len(code)
      BY <1>1, <1>6, <3>2
    <3> QED
      BY <1>6, <3>2, <3>3
  <2> QED
    BY <1>7, <2>1, <2>2
<1>9. PICK pushed : pushed = Pushed(parser, source[n])
  OBVIOUS
<1>10. pushed = [ok |-> ok, code |-> next, open |-> left]
  <2>1. /\ [parser EXCEPT !.code = next, !.open = IF kind \in Sections THEN Append(@, Len(next)) ELSE @]
              = [ok |-> ok, code |-> next, open |-> left]
    <3>1. PICK q : q = [parser EXCEPT !.code = next, !.open = IF kind \in Sections THEN Append(@, Len(next)) ELSE @]
      OBVIOUS
    <3>2. q = [ok |-> ok, code |-> next, open |-> left]
      BY <1>1, <1>6, <1>7, <3>1
    <3> QED
      BY <3>1, <3>2
  <2> QED
    BY <1>1, <1>2, <1>3, <1>5, <1>9, <2>1 DEF Pushed
<1>11. pushed \in ParserOf(source)
  <2>1. pushed \in [ok : BOOLEAN, code : Seq(I), open : Seq(Nat)]
    BY <1>1, <1>6, <1>8, <1>10
  <2>2. \A k \in DOMAIN pushed.open : pushed.open[k] \in DOMAIN pushed.code
    BY <1>8, <1>10
  <2> QED
    BY <1>0, <2>1, <2>2 DEF ParserOf, CodeOf
<1>12. /\ parser.ok = ok /\ parser.code = code /\ parser.open = open
       /\ pushed.ok = ok /\ pushed.code = next /\ pushed.open = left
  BY <1>1, <1>10
<1> QED
  BY <1>2, <1>4, <1>6, <1>7, <1>9, <1>11, <1>12

\* One token more.
LEMMA TokenParsedType ==
    ASSUME NEW source, IsSource(source), NEW parser \in ParserOf(source), NEW n \in 1 .. Len(source)
    PROVE  TokenParsed(parser, source[n]) \in ParserOf(source)
<1>1. CASE ~parser.ok \/ ~Accepted(parser, source[n])
  BY <1>1, BeginType DEF TokenParsed
<1>2. CASE parser.ok /\ Accepted(parser, source[n])
  <2>1. CASE source[n].kind = "/"
    <3>1. parser.open # <<>>
      BY <1>2, <2>1 DEF Accepted, ClosesInnermost, Sections
    <3> QED
      BY <1>2, <2>1, <3>1, ClosedFields DEF TokenParsed
  <2>2. CASE source[n].kind # "/"
    <3>1. source[n].kind \notin {"/", "empty", "unclosed"}
      BY <1>2, <2>2 DEF Accepted, Sections
    <3>2. source[n].kind = ">" => view_path_valid(source[n].name)
      BY <1>2 DEF Accepted, Sections
    <3> QED
      BY <1>2, <2>2, <3>1, <3>2, PushedFields DEF TokenParsed
  <2> QED
    BY <2>1, <2>2
<1> QED
  BY <1>1, <1>2

\* The parser after each token is what it makes of the one before.
LEMMA ParsersDefined ==
    ASSUME NEW source, IsSource(source)
    PROVE  \E after \in [0 .. Len(source) -> ParserOf(source)] :
              /\ Parsers(source) = after /\ after[0] = Begin
              /\ \A n \in 1 .. Len(source) : after[n] = TokenParsed(after[n - 1], source[n])
<1> DEFINE N == Len(source)
           V == ParserOf(source)
           IsParse(after) ==
              after = [n \in 0 .. N |->
                          IF n = 0 THEN Begin ELSE TokenParsed(after[n - 1], source[n])]
<1>1. N \in Nat
  BY DEF IsSource
<1>2. \E after : IsParse(after)
  <2> DEFINE step == [n \in 1 .. N |-> [p \in V |-> TokenParsed(p, source[n])]]
  <2>1. step \in [1 .. N -> [V -> V]]
    BY TokenParsedType
  <2>2. \A n \in 1 .. N : \A p \in V : step[n][p] = TokenParsed(p, source[n])
    OBVIOUS
  <2>3. Begin \in V
    BY BeginType
  <2> HIDE DEF step, V, N
  <2>4. PICK g \in [0 .. N -> V] : Recursive(g, N, Begin, step)
    <3>1. PICK base \in V : base = Begin
      BY <2>3
    <3>2. \E g \in [0 .. N -> V] : Recursive(g, N, base, step)
      BY <1>1, <2>1, IntervalRecursion
    <3> QED
      BY <3>1, <3>2
  <2>5. g[0] = Begin /\ \A n \in 1 .. N : g[n] = TokenParsed(g[n - 1], source[n])
    <3>1. \A n \in 1 .. N : g[n - 1] \in V
      BY <1>1
    <3> QED
      BY <2>2, <2>4, <3>1 DEF Recursive
  <2>6. \A n \in 0 .. N : g[n] = IF n = 0 THEN Begin ELSE TokenParsed(g[n - 1], source[n])
    BY <1>1, <2>5
  <2>7. g = [n \in 0 .. N |-> IF n = 0 THEN Begin ELSE TokenParsed(g[n - 1], source[n])]
    <3> DEFINE h == [n \in 0 .. N |-> IF n = 0 THEN Begin ELSE TokenParsed(g[n - 1], source[n])]
    <3>1. \A n \in 0 .. N : g[n] = h[n]
      BY <1>1, <2>6
    <3> QED
      BY <2>4, <3>1
  <2> QED
    BY <2>7
<1>3. PICK after : IsParse(after) /\ Parsers(source) = after
  <2>1. Parsers(source) = CHOOSE after : IsParse(after)
    BY DEF Parsers
  <2> HIDE DEF IsParse
  <2> QED
    BY <1>2, <2>1
<1>4. after[0] = Begin /\ \A n \in 1 .. N : after[n] = TokenParsed(after[n - 1], source[n])
  <2>1. after = [n \in 0 .. N |-> IF n = 0 THEN Begin ELSE TokenParsed(after[n - 1], source[n])]
    BY <1>3
  <2> HIDE DEF N
  <2>2. after[0] = Begin
    BY <1>1, <2>1
  <2>3. ASSUME NEW n \in 1 .. N PROVE after[n] = TokenParsed(after[n - 1], source[n])
    <3>1. n \in 0 .. N /\ n # 0
      BY <1>1
    <3> QED
      BY <2>1, <3>1
  <2> QED
    BY <2>2, <2>3
<1>5. after = [n \in 0 .. N |-> after[n]]
  BY <1>3
<1> HIDE DEF IsParse, V, N
<1>9. after \in [0 .. N -> V]
  <2>1. ASSUME NEW n \in 1 .. N, after[n - 1] \in V PROVE after[n] \in V
    BY <1>4, <2>1, TokenParsedType DEF V, N
  <2> QED
    BY <1>1, <1>4, <1>5, <2>1, BeginType, RecursionType DEF V
<1> QED
  BY <1>3, <1>4, <1>9 DEF N, V

\* A program is made of instructions that its source holds.
LEMMA ParsedCode ==
    ASSUME NEW source, IsSource(source)
    PROVE  template_parse(source).ok \in BOOLEAN /\ template_parse(source).code \in CodeOf(source)
<1>1. PICK after \in [0 .. Len(source) -> ParserOf(source)] : Parsers(source) = after
  BY ParsersDefined
<1>2. Len(source) \in 0 .. Len(source)
  BY DEF IsSource
<1>3. PICK last : last = Parsers(source)[Len(source)] /\ last \in ParserOf(source)
  BY <1>1, <1>2
<1>4. Parsed(last) \in ParserOf(source)
  BY <1>3, BeginType DEF Parsed
<1>5. template_parse(source) \in ParserOf(source)
  BY <1>3, <1>4 DEF template_parse
<1> QED
  BY <1>5 DEF ParserOf

-----------------------------------------------------------------------------
(* The search for partials that include themselves.  A walk that found     *)
(* none leaves the names it has finished settled: their partials are       *)
(* finished too, and none of them leads back.                              *)

Walks(views) == [ok : BOOLEAN, state : [DOMAIN views -> 0 .. 2]]

IsViews(views) ==
    /\ IsFiniteSet(DOMAIN views)
    /\ \A name \in DOMAIN views :
          /\ Len(views[name]) \in Nat /\ DOMAIN views[name] = 1 .. Len(views[name])
          /\ Partials(views[name]) \subseteq DOMAIN views

Done(state) == {name \in DOMAIN state : state[name] = 2}

Settled(views, state) ==
    /\ \A name \in Done(state) : Partials(views[name]) \subseteq Done(state)
    /\ \A group \in (SUBSET Done(state)) \ {{}} :
          \E name \in group : Partials(views[name]) \cap group = {}

\* A walk finishes what it finds new, and leaves the rest as it was.
Kept(state, next) ==
    \A name \in DOMAIN state :
       IF state[name] = 0 THEN next[name] \in {0, 2} ELSE next[name] = state[name]

VisitGood(views, visit) ==
    \A v \in Entries(views) :
       v.state[v.name] = 0 /\ Settled(views, v.state) /\ visit[v].ok =>
          /\ visit[v].state[v.name] = 2
          /\ Settled(views, visit[v].state) /\ Kept(v.state, visit[v].state)

IsThrough(walk, code, v, visit) ==
    /\ walk[0] = Walk(TRUE, [v.state EXCEPT ![v.name] = 1])
    /\ \A i \in 1 .. Len(code) : walk[i] = Visited(visit, walk[i - 1], code[i])

\* One instruction.
LEMMA VisitedType ==
    ASSUME NEW views, IsViews(views), NEW name \in DOMAIN views, NEW i \in 1 .. Len(views[name]),
           NEW visit \in [Entries(views) -> Walks(views)], NEW walk \in Walks(views)
    PROVE  /\ Visited(visit, walk, views[name][i]) \in Walks(views)
           /\ views[name][i].type = ">" =>
                 /\ views[name][i].value \in DOMAIN views
                 /\ Entry(views[name][i].value, walk.state) \in Entries(views)
<1>1. PICK part, D : part = views[name][i] /\ D = DOMAIN views
  OBVIOUS
<1>2. part.type = ">" => part.value \in D
  BY <1>1 DEF IsViews, Partials
<1>3. walk.ok \in BOOLEAN /\ walk.state \in [D -> 0 .. 2]
  BY <1>1 DEF Walks
<1>4. part.type = ">" => Entry(part.value, walk.state) \in Entries(views)
  BY <1>1, <1>2, <1>3 DEF Entry, Entries
<1>5. Walk(FALSE, walk.state) \in Walks(views)
  BY <1>1, <1>3 DEF Walk, Walks
<1>6. part.type = ">" => visit[Entry(part.value, walk.state)] \in Walks(views)
  BY <1>4
<1>7. Visited(visit, walk, part) \in Walks(views)
  BY <1>5, <1>6 DEF Visited
<1> QED
  BY <1>1, <1>2, <1>4, <1>7

\* Where a visit begins.
LEMMA EntryType ==
    ASSUME NEW views, NEW v \in Entries(views)
    PROVE  /\ v.name \in DOMAIN views /\ v.state \in [DOMAIN views -> 0 .. 2]
           /\ [v.state EXCEPT ![v.name] = 1] \in [DOMAIN views -> 0 .. 2]
           /\ Walk(TRUE, [v.state EXCEPT ![v.name] = 1]) \in Walks(views)
           /\ Walk(FALSE, v.state) \in Walks(views)
<1>1. PICK D, name, old : /\ D = DOMAIN views /\ name = v.name /\ old = v.state
                          /\ name \in D /\ old \in [D -> 0 .. 2]
  BY DEF Entries
<1>2. PICK state : state = [old EXCEPT ![name] = 1]
  OBVIOUS
<1>3. state \in [D -> 0 .. 2]
  BY <1>1, <1>2
<1> QED
  BY <1>1, <1>2, <1>3 DEF Walk, Walks

\* The walk through one view.
LEMMA ThroughDefined ==
    ASSUME NEW views, IsViews(views), NEW v \in Entries(views),
           NEW visit \in [Entries(views) -> Walks(views)]
    PROVE  \E walk \in [0 .. Len(views[v.name]) -> Walks(views)] :
              /\ Through(views[v.name], v, visit) = walk
              /\ IsThrough(walk, views[v.name], v, visit)
<1>1. PICK code, N, V, first : /\ code = views[v.name] /\ N = Len(code) /\ V = Walks(views)
                               /\ first = Walk(TRUE, [v.state EXCEPT ![v.name] = 1])
  OBVIOUS
<1>2. N \in Nat /\ first \in V
  BY <1>1, EntryType DEF IsViews
<1>3. \A i \in 1 .. N : \A w \in V : Visited(visit, w, code[i]) \in V
  BY <1>1, EntryType, VisitedType
<1> DEFINE IsWalk(walk) ==
              walk = [i \in 0 .. N |-> IF i = 0 THEN first ELSE Visited(visit, walk[i - 1], code[i])]
<1>4. \E walk : IsWalk(walk)
  <2> DEFINE step == [i \in 1 .. N |-> [w \in V |-> Visited(visit, w, code[i])]]
  <2>1. step \in [1 .. N -> [V -> V]]
    BY <1>3
  <2>2. \A i \in 1 .. N : \A w \in V : step[i][w] = Visited(visit, w, code[i])
    OBVIOUS
  <2> HIDE DEF step
  <2>3. PICK g \in [0 .. N -> V] : Recursive(g, N, first, step)
    BY <1>2, <2>1, IntervalRecursion
  <2>4. \A i \in 1 .. N : g[i - 1] \in V
    BY <1>2
  <2>5. \A i \in 0 .. N : g[i] = IF i = 0 THEN first ELSE Visited(visit, g[i - 1], code[i])
    BY <1>2, <2>2, <2>3, <2>4 DEF Recursive
  <2>6. g = [i \in 0 .. N |-> IF i = 0 THEN first ELSE Visited(visit, g[i - 1], code[i])]
    <3> DEFINE h == [i \in 0 .. N |-> IF i = 0 THEN first ELSE Visited(visit, g[i - 1], code[i])]
    <3>1. \A i \in 0 .. N : g[i] = h[i]
      BY <1>2, <2>5
    <3> QED
      BY <2>3, <3>1
  <2> QED
    BY <2>6
<1>5. PICK walk : IsWalk(walk) /\ Through(code, v, visit) = walk
  <2>1. Through(code, v, visit) = CHOOSE walk : IsWalk(walk)
    BY <1>1 DEF Through
  <2> HIDE DEF IsWalk
  <2> QED
    BY <1>4, <2>1
<1>6. walk[0] = first /\ \A i \in 1 .. N : walk[i] = Visited(visit, walk[i - 1], code[i])
  <2>1. walk = [i \in 0 .. N |-> IF i = 0 THEN first ELSE Visited(visit, walk[i - 1], code[i])]
    BY <1>5
  <2>2. walk[0] = first
    BY <1>2, <2>1
  <2>3. ASSUME NEW i \in 1 .. N PROVE walk[i] = Visited(visit, walk[i - 1], code[i])
    <3>1. i \in 0 .. N /\ i # 0
      BY <1>2
    <3> QED
      BY <2>1, <3>1
  <2> QED
    BY <2>2, <2>3
<1>7. walk = [i \in 0 .. N |-> walk[i]]
  BY <1>5
<1> HIDE DEF IsWalk
<1>8. walk \in [0 .. N -> V]
  <2>1. walk[0] \in V /\ \A i \in 1 .. N : walk[i - 1] \in V => walk[i] \in V
    BY <1>2, <1>3, <1>6
  <2> QED
    BY <1>2, <1>7, <2>1, RecursionType
<1> QED
  BY <1>1, <1>5, <1>6, <1>8 DEF IsThrough

\* Settled depends on what is finished only.
LEMMA SettledSame ==
    ASSUME NEW views, NEW state, NEW next, Done(next) = Done(state), Settled(views, state)
    PROVE  Settled(views, next)
BY DEF Settled

\* To finish a name whose partials are finished.
LEMMA SettledMore ==
    ASSUME NEW views, NEW state, NEW next, NEW name, name \notin Done(state),
           Done(next) = Done(state) \cup {name}, Partials(views[name]) \subseteq Done(state),
           Settled(views, state)
    PROVE  Settled(views, next)
<1>1. \A other \in Done(next) : Partials(views[other]) \subseteq Done(next)
  BY DEF Settled
<1>2. ASSUME NEW group \in (SUBSET Done(next)) \ {{}}
      PROVE  \E other \in group : Partials(views[other]) \cap group = {}
  <2>1. CASE group \subseteq {name}
    <3>1. group # {} /\ name \notin Partials(views[name])
      OBVIOUS
    <3>2. PICK other : other \in group
      BY <3>1
    <3>3. other = name /\ \A another \in group : another = name
      BY <2>1, <3>2
    <3>4. Partials(views[name]) \cap group = {}
      BY <3>1, <3>3
    <3> QED
      BY <3>2, <3>3, <3>4
  <2>2. CASE ~(group \subseteq {name})
    <3>1. PICK rest : rest = group \ {name}
      OBVIOUS
    <3>2. rest \in (SUBSET Done(state)) \ {{}}
      BY <2>2, <3>1
    <3>3. PICK other \in rest : Partials(views[other]) \cap rest = {}
      BY <3>2 DEF Settled
    <3>4. Partials(views[other]) \subseteq Done(state)
      BY <3>2, <3>3 DEF Settled
    <3>5. other \in group /\ Partials(views[other]) \cap group = {}
      BY <3>1, <3>3, <3>4
    <3> QED
      BY <3>5
  <2> QED
    BY <2>1, <2>2
<1> QED
  BY <1>1, <1>2 DEF Settled

\* One walk after another.
LEMMA KeptTransitive ==
    ASSUME NEW D, NEW r \in [D -> 0 .. 2], NEW s \in [D -> 0 .. 2], NEW t \in [D -> 0 .. 2],
           Kept(r, s), Kept(s, t)
    PROVE  Kept(r, t)
BY DEF Kept

\* A walk that got through n instructions has settled their partials.
Got(views, v, walk, n) ==
    walk.ok =>
       /\ Settled(views, walk.state) /\ Kept([v.state EXCEPT ![v.name] = 1], walk.state)
       /\ \A i \in 1 .. n : views[v.name][i].type = ">" => walk.state[views[v.name][i].value] = 2

\* What is on the way stays on the way while the partials of a view are visited;
\* behind an instruction its partial is finished.
LEMMA ThroughGood ==
    ASSUME NEW views, IsViews(views), NEW v \in Entries(views),
           NEW visit \in [Entries(views) -> Walks(views)], VisitGood(views, visit),
           NEW walk \in [0 .. Len(views[v.name]) -> Walks(views)],
           IsThrough(walk, views[v.name], v, visit),
           v.state[v.name] = 0, Settled(views, v.state),
           NEW n \in 0 .. Len(views[v.name])
    PROVE  Got(views, v, walk[n], n)
<1>1. PICK code, N, D, V, first :
         /\ code = views[v.name] /\ N = Len(code) /\ D = DOMAIN views /\ V = Walks(views)
         /\ first = [v.state EXCEPT ![v.name] = 1]
  OBVIOUS
<1>2. /\ N \in Nat /\ first \in [D -> 0 .. 2] /\ v.name \in D /\ v.state \in [D -> 0 .. 2]
  BY <1>1, EntryType DEF IsViews
<1>3. \A w \in V : w.ok \in BOOLEAN /\ w.state \in [D -> 0 .. 2]
  BY <1>1 DEF Walks
<1>4. /\ walk[0] = Walk(TRUE, first)
      /\ \A i \in 1 .. N : walk[i] = Visited(visit, walk[i - 1], code[i])
  BY <1>1 DEF IsThrough
<1> DEFINE Good(k) ==
              walk[k].ok =>
                 /\ Settled(views, walk[k].state) /\ Kept(first, walk[k].state)
                 /\ \A i \in 1 .. k : code[i].type = ">" => walk[k].state[code[i].value] = 2
           S == {k \in 0 .. N : Good(k)}
<1>5. 0 \in S
  <2>1. walk[0].state = first
    BY <1>4 DEF Walk
  <2>2. Done(first) = Done(v.state)
    BY <1>1, <1>2 DEF Done
  <2>3. Settled(views, first) /\ Kept(first, first)
    BY <1>2, <2>2, SettledSame DEF Kept
  <2> QED
    BY <1>2, <2>1, <2>3
<1>6. ASSUME NEW k \in 0 .. N - 1, k \in S PROVE k + 1 \in S
  <2>1. PICK old, new, part : old = walk[k] /\ new = walk[k + 1] /\ part = code[k + 1]
    OBVIOUS
  <2>2. /\ k + 1 \in 1 .. N /\ (k + 1) - 1 = k /\ k \in 0 .. N /\ k + 1 \in 0 .. N
    BY <1>2, <1>6
  <2>3. old \in V /\ new \in V /\ new = Visited(visit, old, part)
    BY <1>1, <1>4, <2>1, <2>2
  <2>4. old.ok \in BOOLEAN /\ old.state \in [D -> 0 .. 2] /\ new.state \in [D -> 0 .. 2]
    BY <1>3, <2>3
  <2> HIDE DEF Good
  <2>5. ASSUME new.ok PROVE Good(k + 1)
    <3>1. old.ok
      BY <2>3, <2>4, <2>5 DEF Visited
    <3>2. /\ Settled(views, old.state) /\ Kept(first, old.state)
          /\ \A i \in 1 .. k : code[i].type = ">" => old.state[code[i].value] = 2
      BY <1>6, <2>1, <3>1 DEF Good
    <3>3. \A i \in 1 .. N : code[i].type = ">" => code[i].value \in D
      BY <1>1, <1>2, VisitedType
    <3>4. /\ Settled(views, new.state) /\ Kept(old.state, new.state)
          /\ part.type = ">" => new.state[part.value] = 2
      <4>1. CASE part.type # ">"
        BY <2>3, <2>4, <3>2, <4>1 DEF Visited, Kept
      <4>2. CASE part.type = ">" /\ old.state[part.value] = 0
        <5>1. PICK e : e = Entry(part.value, old.state)
          OBVIOUS
        <5>2. e \in Entries(views) /\ e.name = part.value /\ e.state = old.state
          BY <1>1, <1>2, <2>1, <2>2, <2>3, <4>2, <5>1, VisitedType DEF Entry
        <5>3. new = visit[e]
          BY <2>3, <3>1, <4>2, <5>1 DEF Visited
        <5> QED
          BY <2>5, <3>2, <4>2, <5>2, <5>3 DEF VisitGood
      <4>3. CASE part.type = ">" /\ old.state[part.value] = 1
        BY <2>3, <2>5, <3>1, <4>3 DEF Visited, Walk
      <4>4. CASE part.type = ">" /\ old.state[part.value] = 2
        BY <2>3, <2>4, <3>1, <3>2, <4>4 DEF Visited, Kept
      <4>5. part.type = ">" => old.state[part.value] \in 0 .. 2
        BY <2>1, <2>2, <2>4, <3>3
      <4> QED
        BY <4>1, <4>2, <4>3, <4>4, <4>5
    <3>5. Kept(first, new.state)
      BY <1>2, <2>4, <3>2, <3>4, KeptTransitive
    <3>6. ASSUME NEW i \in 1 .. k + 1, code[i].type = ">" PROVE new.state[code[i].value] = 2
      <4>1. CASE i = k + 1
        BY <2>1, <3>4, <3>6, <4>1
      <4>2. CASE i \in 1 .. k
        <5>1. code[i].value \in D /\ old.state[code[i].value] = 2
          BY <2>2, <3>2, <3>3, <3>6, <4>2
        <5> QED
          BY <2>4, <3>4, <5>1 DEF Kept
      <4> QED
        BY <3>6, <4>1, <4>2
    <3> QED
      BY <2>1, <3>4, <3>5, <3>6 DEF Good
  <2>6. ~new.ok => Good(k + 1)
    BY <2>1 DEF Good
  <2> QED
    BY <2>2, <2>5, <2>6
<1>7. 0 .. N \subseteq S
  <2> HIDE DEF S
  <2> QED
    BY <1>2, <1>5, <1>6, IntervalInduction
<1>8. Good(n)
  BY <1>1, <1>7
<1> QED
  BY <1>1, <1>8 DEF Got

\* A visit that found no way back to its name leaves everything settled.
LEMMA FinishedType ==
    ASSUME NEW views, NEW name \in DOMAIN views, NEW walk \in Walks(views)
    PROVE  Finished(walk, name) \in Walks(views)
<1>1. PICK D, old : D = DOMAIN views /\ old = walk.state /\ old \in [D -> 0 .. 2] /\ name \in D
  BY DEF Walks
<1>2. PICK state : state = [old EXCEPT ![name] = 2]
  OBVIOUS
<1>3. state \in [D -> 0 .. 2]
  BY <1>1, <1>2
<1> QED
  BY <1>1, <1>2, <1>3 DEF Finished, Walk, Walks

\* The visits, one level deeper each.
LEMMA VisitsDefined ==
    ASSUME NEW views, IsViews(views)
    PROVE  /\ Cardinality(DOMAIN views) \in Nat
           /\ \E visit \in [0 .. Cardinality(DOMAIN views) -> [Entries(views) -> Walks(views)]] :
                 /\ compiler_visit(views) = visit
                 /\ \A v \in Entries(views) : visit[0][v] = Walk(FALSE, v.state)
                 /\ \A n \in 1 .. Cardinality(DOMAIN views) : \A v \in Entries(views) :
                       visit[n][v] =
                          Finished(Through(views[v.name], v, visit[n - 1])[Len(views[v.name])], v.name)
<1>1. PICK N : N = Cardinality(DOMAIN views) /\ N \in Nat
  BY FS_CardinalityType DEF IsViews
<1>2. PICK E, V : E = Entries(views) /\ V = [E -> Walks(views)]
  OBVIOUS
<1> DEFINE Deeper(f) ==
              [v \in E |-> Finished(Through(views[v.name], v, f)[Len(views[v.name])], v.name)]
           first == [v \in E |-> Walk(FALSE, v.state)]
<1>3. first \in V
  BY <1>2, EntryType
<1>4. ASSUME NEW f \in V PROVE Deeper(f) \in V
  <2>1. ASSUME NEW v \in E
        PROVE  Finished(Through(views[v.name], v, f)[Len(views[v.name])], v.name) \in Walks(views)
    <3>1. v.name \in DOMAIN views
      BY <1>2, EntryType
    <3>2. PICK walk \in [0 .. Len(views[v.name]) -> Walks(views)] :
             Through(views[v.name], v, f) = walk
      BY <1>2, <1>4, ThroughDefined
    <3>3. Len(views[v.name]) \in 0 .. Len(views[v.name])
      BY <3>1 DEF IsViews
    <3>4. PICK last \in Walks(views) : last = Through(views[v.name], v, f)[Len(views[v.name])]
      BY <3>2, <3>3
    <3> QED
      BY <3>1, <3>4, FinishedType
  <2> QED
    BY <1>2, <2>1
<1>5. \A v \in E : first[v] = Walk(FALSE, v.state)
  OBVIOUS
<1>6. \A f : \A v \in E : Deeper(f)[v]
                = Finished(Through(views[v.name], v, f)[Len(views[v.name])], v.name)
  OBVIOUS
<1> DEFINE IsVisit(visit) ==
              visit = [n \in 0 .. N |->
                 [v \in E |-> IF n = 0 THEN Walk(FALSE, v.state)
                    ELSE Finished(Through(views[v.name], v, visit[n - 1])[Len(views[v.name])], v.name)]]
<1>7. ASSUME NEW visit
      PROVE  IsVisit(visit) <=> visit = [n \in 0 .. N |-> IF n = 0 THEN first ELSE Deeper(visit[n - 1])]
  <2> DEFINE body == [n \in 0 .. N |-> IF n = 0 THEN first ELSE Deeper(visit[n - 1])]
             flat == [n \in 0 .. N |->
                 [v \in E |-> IF n = 0 THEN Walk(FALSE, v.state)
                    ELSE Finished(Through(views[v.name], v, visit[n - 1])[Len(views[v.name])], v.name)]]
  <2>1. ASSUME NEW n \in 0 .. N PROVE body[n] = flat[n]
    <3>1. CASE n = 0
      BY <3>1
    <3>2. CASE n # 0
      BY <3>2
    <3> QED
      BY <3>1, <3>2
  <2>2. body = flat
    BY <2>1
  <2> QED
    BY <2>2
<1>8. compiler_visit(views) = CHOOSE visit : IsVisit(visit)
  BY <1>1, <1>2 DEF compiler_visit
<1> HIDE DEF Deeper, first, IsVisit
<1> DEFINE IsBody(visit) == visit = [n \in 0 .. N |-> IF n = 0 THEN first ELSE Deeper(visit[n - 1])]
<1>9. \E visit : IsBody(visit)
  <2> DEFINE step == [n \in 1 .. N |-> [f \in V |-> Deeper(f)]]
  <2>1. step \in [1 .. N -> [V -> V]]
    BY <1>4
  <2>2. \A n \in 1 .. N : \A f \in V : step[n][f] = Deeper(f)
    OBVIOUS
  <2> HIDE DEF step
  <2>3. PICK base \in V : base = first
    BY <1>3
  <2>4. PICK g \in [0 .. N -> V] : Recursive(g, N, base, step)
    BY <1>1, <2>1, IntervalRecursion
  <2>5. \A n \in 1 .. N : g[n - 1] \in V
    BY <1>1
  <2>6. \A n \in 0 .. N : g[n] = IF n = 0 THEN first ELSE Deeper(g[n - 1])
    BY <1>1, <2>2, <2>3, <2>4, <2>5 DEF Recursive
  <2>7. g = [n \in 0 .. N |-> IF n = 0 THEN first ELSE Deeper(g[n - 1])]
    <3> DEFINE h == [n \in 0 .. N |-> IF n = 0 THEN first ELSE Deeper(g[n - 1])]
    <3>1. \A n \in 0 .. N : g[n] = h[n]
      BY <2>6
    <3> QED
      BY <2>4, <3>1
  <2> QED
    BY <2>7
<1>10. PICK visit : IsBody(visit) /\ compiler_visit(views) = visit
  <2>1. \E visit : IsVisit(visit)
    BY <1>7, <1>9
  <2>2. IsVisit(compiler_visit(views))
    BY <1>8, <2>1
  <2> QED
    BY <1>7, <2>2
<1>11. visit[0] = first /\ \A n \in 1 .. N : visit[n] = Deeper(visit[n - 1])
  <2>1. visit = [n \in 0 .. N |-> IF n = 0 THEN first ELSE Deeper(visit[n - 1])]
    BY <1>10
  <2>2. visit[0] = first
    BY <1>1, <2>1
  <2>3. ASSUME NEW n \in 1 .. N PROVE visit[n] = Deeper(visit[n - 1])
    <3>1. n \in 0 .. N /\ n # 0
      BY <1>1
    <3> QED
      BY <2>1, <3>1
  <2> QED
    BY <2>2, <2>3
<1>12. visit = [n \in 0 .. N |-> visit[n]]
  BY <1>10
<1> HIDE DEF IsBody
<1>13. visit \in [0 .. N -> V]
  <2>1. visit[0] \in V /\ \A n \in 1 .. N : visit[n - 1] \in V => visit[n] \in V
    BY <1>3, <1>4, <1>11
  <2> QED
    BY <1>1, <1>12, <2>1, RecursionType
<1>14. \A v \in E : visit[0][v] = Walk(FALSE, v.state)
  BY <1>5, <1>11
<1>15. \A n \in 1 .. N : \A v \in E : visit[n][v]
          = Finished(Through(views[v.name], v, visit[n - 1])[Len(views[v.name])], v.name)
  BY <1>6, <1>11
<1> QED
  BY <1>1, <1>2, <1>10, <1>13, <1>14, <1>15

\* One level more is as good as the one below.
LEMMA DeeperGood ==
    ASSUME NEW views, IsViews(views), NEW visit \in [Entries(views) -> Walks(views)],
           VisitGood(views, visit), NEW next \in [Entries(views) -> Walks(views)],
           \A v \in Entries(views) :
              next[v] = Finished(Through(views[v.name], v, visit)[Len(views[v.name])], v.name)
    PROVE  VisitGood(views, next)
<1> SUFFICES ASSUME NEW v \in Entries(views), v.state[v.name] = 0, Settled(views, v.state), next[v].ok
             PROVE  /\ next[v].state[v.name] = 2
                    /\ Settled(views, next[v].state) /\ Kept(v.state, next[v].state)
  BY DEF VisitGood
<1>1. PICK D, name, code, N, first :
         /\ D = DOMAIN views /\ name = v.name /\ code = views[v.name] /\ N = Len(code)
         /\ first = [v.state EXCEPT ![v.name] = 1]
  OBVIOUS
<1>2. /\ name \in D /\ N \in Nat /\ DOMAIN code = 1 .. N
      /\ first \in [D -> 0 .. 2] /\ v.state \in [D -> 0 .. 2]
  BY <1>1, EntryType DEF IsViews
<1>3. PICK walk \in [0 .. Len(views[v.name]) -> Walks(views)] :
         Through(views[v.name], v, visit) = walk /\ IsThrough(walk, views[v.name], v, visit)
  BY ThroughDefined
<1>4. PICK last : last = walk[N] /\ last \in Walks(views)
  BY <1>1, <1>2, <1>3
<1>5. next[v] = Finished(last, name)
  BY <1>1, <1>3, <1>4
<1>6. last.ok \in BOOLEAN /\ last.state \in [D -> 0 .. 2]
  BY <1>1, <1>4 DEF Walks
<1>7. last.ok
  BY <1>5, <1>6 DEF Finished
<1>8. /\ Settled(views, last.state) /\ Kept(first, last.state)
      /\ \A i \in 1 .. N : code[i].type = ">" => last.state[code[i].value] = 2
  <2>1. N \in 0 .. Len(views[v.name])
    BY <1>1, <1>2
  <2>2. PICK n \in 0 .. Len(views[v.name]) : n = N
    BY <2>1
  <2>3. Got(views, v, walk[n], n)
    <3>1. IsThrough(walk, views[v.name], v, visit)
      BY <1>3
    <3> QED
      BY <3>1, ThroughGood
  <2> QED
    BY <1>1, <1>4, <1>7, <2>2, <2>3 DEF Got
<1>9. PICK old, new : old = last.state /\ new = [old EXCEPT ![name] = 2]
  OBVIOUS
<1>10. next[v].state = new
  BY <1>5, <1>7, <1>9 DEF Finished, Walk
<1>11. /\ new \in [D -> 0 .. 2] /\ new[name] = 2
       /\ \A other \in D \ {name} : new[other] = old[other]
  BY <1>2, <1>6, <1>9
<1>12. old[name] = 1
  BY <1>1, <1>2, <1>8, <1>9 DEF Kept
<1>13. Settled(views, new)
  <2>1. name \notin Done(old)
    BY <1>12 DEF Done
  <2>2. Done(new) = Done(old) \cup {name}
    BY <1>2, <1>6, <1>9, <1>11 DEF Done
  <2>3. Partials(views[name]) \subseteq D
    BY <1>1, <1>2 DEF IsViews
  <2>4. Partials(views[name]) \subseteq Done(old)
    <3>1. ASSUME NEW p \in Partials(views[name]) PROVE p \in Done(old)
      <4>1. PICK i \in DOMAIN code : code[i].type = ">" /\ p = code[i].value
        BY <1>1 DEF Partials
      <4> QED
        BY <1>2, <1>6, <1>8, <1>9, <2>3, <4>1 DEF Done
    <3> QED
      BY <3>1
  <2> QED
    BY <1>8, <1>9, <2>1, <2>2, <2>4, SettledMore
<1>14. Kept(v.state, new)
  <2>1. ASSUME NEW other \in D
        PROVE  IF v.state[other] = 0 THEN new[other] \in {0, 2} ELSE new[other] = v.state[other]
    <3>1. CASE other = name
      BY <1>1, <1>11, <3>1
    <3>2. CASE other # name
      <4>1. first[other] = v.state[other]
        BY <1>1, <1>2, <3>2
      <4>2. IF first[other] = 0 THEN old[other] \in {0, 2} ELSE old[other] = first[other]
        BY <1>2, <1>8, <1>9 DEF Kept
      <4> QED
        BY <1>11, <3>2, <4>1, <4>2
    <3> QED
      BY <3>1, <3>2
  <2> QED
    BY <1>2, <2>1 DEF Kept
<1> QED
  BY <1>1, <1>10, <1>11, <1>13, <1>14

\* Every visit is good, however deep.
LEMMA VisitsGood ==
    ASSUME NEW views, IsViews(views)
    PROVE  \E visit \in [Entries(views) -> Walks(views)] :
              compiler_visit(views)[Cardinality(DOMAIN views)] = visit /\ VisitGood(views, visit)
<1>1. PICK N : N = Cardinality(DOMAIN views)
  OBVIOUS
<1>2. /\ N \in Nat
      /\ \E visit \in [0 .. N -> [Entries(views) -> Walks(views)]] :
            /\ compiler_visit(views) = visit
            /\ \A v \in Entries(views) : visit[0][v] = Walk(FALSE, v.state)
            /\ \A n \in 1 .. N : \A v \in Entries(views) :
                  visit[n][v] =
                     Finished(Through(views[v.name], v, visit[n - 1])[Len(views[v.name])], v.name)
  BY <1>1, VisitsDefined
<1>3. PICK visit \in [0 .. N -> [Entries(views) -> Walks(views)]] :
         /\ compiler_visit(views) = visit
         /\ \A v \in Entries(views) : visit[0][v] = Walk(FALSE, v.state)
         /\ \A n \in 1 .. N : \A v \in Entries(views) :
               visit[n][v] =
                  Finished(Through(views[v.name], v, visit[n - 1])[Len(views[v.name])], v.name)
  BY <1>2
<1> DEFINE S == {n \in 0 .. N : VisitGood(views, visit[n])}
<1>4. 0 \in S
  <2>1. ASSUME NEW v \in Entries(views) PROVE visit[0][v].ok = FALSE
    <3>1. visit[0][v] = Walk(FALSE, v.state)
      BY <1>3
    <3> QED
      BY <3>1 DEF Walk
  <2>2. VisitGood(views, visit[0])
    BY <2>1 DEF VisitGood
  <2> QED
    BY <1>2, <2>2
<1>5. ASSUME NEW n \in 0 .. N - 1, n \in S PROVE n + 1 \in S
  <2>1. n + 1 \in 1 .. N /\ (n + 1) - 1 = n /\ n \in 0 .. N /\ n + 1 \in 0 .. N
    BY <1>2
  <2>2. PICK old, new : /\ old = visit[n] /\ new = visit[n + 1]
                        /\ old \in [Entries(views) -> Walks(views)]
                        /\ new \in [Entries(views) -> Walks(views)]
    BY <2>1
  <2>3. \A v \in Entries(views) :
           new[v] = Finished(Through(views[v.name], v, old)[Len(views[v.name])], v.name)
    BY <1>3, <2>1, <2>2
  <2>4. VisitGood(views, old)
    BY <1>5, <2>2
  <2>5. VisitGood(views, new)
    BY <2>2, <2>3, <2>4, DeeperGood
  <2> QED
    BY <2>1, <2>2, <2>5
<1>6. 0 .. N \subseteq S
  <2> HIDE DEF S
  <2> QED
    BY <1>2, <1>4, <1>5, IntervalInduction
<1> QED
  BY <1>1, <1>2, <1>3, <1>6

\* A finite set in some order.
LEMMA SomeOrder ==
    ASSUME NEW S, IsFiniteSet(S)
    PROVE  \E names \in Seq(S) :
              /\ SetToSeq(S) = names /\ Len(names) \in Nat /\ DOMAIN names = 1 .. Len(names)
              /\ \A x \in S : \E i \in 1 .. Len(names) : names[i] = x
<1>1. PICK n : n = Cardinality(S) /\ n \in Nat
  BY FS_CardinalityType
<1>2. \E f \in [1 .. n -> S] : IsInjective(f)
  <2>1. PICK f : f \in Bijection(1 .. n, S)
    BY <1>1, FS_CardinalityType DEF ExistsBijection
  <2> QED
    BY <2>1 DEF Bijection, Injection
<1>3. PICK names \in [1 .. n -> S] : SetToSeq(S) = names /\ IsInjective(names)
  <2>1. SetToSeq(S) = CHOOSE f \in [1 .. n -> S] : IsInjective(f)
    BY <1>1 DEF SetToSeq
  <2> QED
    BY <1>2, <2>1
<1>4. names \in Surjection(1 .. n, S)
  <2>1. names \in Injection(1 .. n, S)
    BY <1>3 DEF Injection
  <2>2. Cardinality(1 .. n) = n
    BY <1>1, FS_Interval
  <2> QED
    BY <1>1, <2>1, <2>2, FS_Injection
<1>5. names \in Seq(S) /\ Len(names) = n /\ DOMAIN names = 1 .. n
  BY <1>1, <1>3
<1> QED
  BY <1>1, <1>3, <1>4, <1>5 DEF Surjection

IsOver(walk, views, names, visit) ==
    /\ walk[0] = Walk(TRUE, [name \in DOMAIN views |-> 0])
    /\ \A k \in 1 .. Len(names) :
          walk[k] = IF walk[k - 1].ok /\ walk[k - 1].state[names[k]] = 0
                    THEN visit[Entry(names[k], walk[k - 1].state)] ELSE walk[k - 1]

\* The walk over all views.
LEMMA OverDefined ==
    ASSUME NEW views, IsViews(views), NEW names \in Seq(DOMAIN views),
           NEW visit \in [Entries(views) -> Walks(views)]
    PROVE  \E walk \in [0 .. Len(names) -> Walks(views)] :
              WalkOver(views, names, visit) = walk /\ IsOver(walk, views, names, visit)
<1>1. PICK N, V, first : /\ N = Len(names) /\ V = Walks(views)
                         /\ first = Walk(TRUE, [name \in DOMAIN views |-> 0])
  OBVIOUS
<1>2. N \in Nat /\ first \in V
  BY <1>1 DEF Walk, Walks
<1> DEFINE Next1(w, k) == IF w.ok /\ w.state[names[k]] = 0 THEN visit[Entry(names[k], w.state)] ELSE w
<1>3. \A k \in 1 .. N : \A w \in V : Next1(w, k) \in V
  <2>1. ASSUME NEW k \in 1 .. N, NEW w \in V PROVE Next1(w, k) \in V
    <3>1. names[k] \in DOMAIN views /\ w.state \in [DOMAIN views -> 0 .. 2]
      BY <1>1, <2>1 DEF Walks
    <3>2. Entry(names[k], w.state) \in Entries(views)
      BY <3>1 DEF Entry, Entries
    <3> QED
      BY <1>1, <2>1, <3>2
  <2> QED
    BY <2>1
<1> DEFINE IsWalk(walk) ==
              walk = [k \in 0 .. N |->
                 IF k = 0 THEN first
                 ELSE IF walk[k - 1].ok /\ walk[k - 1].state[names[k]] = 0
                 THEN visit[Entry(names[k], walk[k - 1].state)] ELSE walk[k - 1]]
           IsBody(walk) == walk = [k \in 0 .. N |-> IF k = 0 THEN first ELSE Next1(walk[k - 1], k)]
<1>4. \A walk : IsWalk(walk) <=> IsBody(walk)
  OBVIOUS
<1>5. WalkOver(views, names, visit) = CHOOSE walk : IsWalk(walk)
  BY <1>1 DEF WalkOver
<1>6. \A w, k : Next1(w, k) = IF w.ok /\ w.state[names[k]] = 0
                               THEN visit[Entry(names[k], w.state)] ELSE w
  OBVIOUS
<1> HIDE DEF IsWalk, Next1
<1>7. \E walk : IsBody(walk)
  <2> DEFINE step == [k \in 1 .. N |-> [w \in V |-> Next1(w, k)]]
  <2>1. step \in [1 .. N -> [V -> V]]
    BY <1>3
  <2>2. \A k \in 1 .. N : \A w \in V : step[k][w] = Next1(w, k)
    OBVIOUS
  <2> HIDE DEF step
  <2>3. PICK g \in [0 .. N -> V] : Recursive(g, N, first, step)
    BY <1>2, <2>1, IntervalRecursion
  <2>4. \A k \in 1 .. N : g[k - 1] \in V
    BY <1>2
  <2>5. \A k \in 0 .. N : g[k] = IF k = 0 THEN first ELSE Next1(g[k - 1], k)
    BY <1>2, <2>2, <2>3, <2>4 DEF Recursive
  <2>6. g = [k \in 0 .. N |-> IF k = 0 THEN first ELSE Next1(g[k - 1], k)]
    <3> DEFINE h == [k \in 0 .. N |-> IF k = 0 THEN first ELSE Next1(g[k - 1], k)]
    <3>1. \A k \in 0 .. N : g[k] = h[k]
      BY <2>5
    <3> QED
      BY <2>3, <3>1
  <2> QED
    BY <2>6
<1>8. PICK walk : IsBody(walk) /\ WalkOver(views, names, visit) = walk
  <2>1. \E walk : IsWalk(walk)
    BY <1>4, <1>7
  <2>2. IsWalk(WalkOver(views, names, visit))
    BY <1>5, <2>1
  <2> QED
    BY <1>4, <2>2
<1>9. walk[0] = first /\ \A k \in 1 .. N : walk[k] = Next1(walk[k - 1], k)
  <2>1. walk = [k \in 0 .. N |-> IF k = 0 THEN first ELSE Next1(walk[k - 1], k)]
    BY <1>8
  <2>2. walk[0] = first
    BY <1>2, <2>1
  <2>3. ASSUME NEW k \in 1 .. N PROVE walk[k] = Next1(walk[k - 1], k)
    <3>1. k \in 0 .. N /\ k # 0
      BY <1>2
    <3> QED
      BY <2>1, <3>1
  <2> QED
    BY <2>2, <2>3
<1>10. walk = [k \in 0 .. N |-> walk[k]]
  BY <1>8
<1> HIDE DEF IsBody
<1>11. walk \in [0 .. N -> V]
  <2>1. walk[0] \in V /\ \A k \in 1 .. N : walk[k - 1] \in V => walk[k] \in V
    BY <1>2, <1>3, <1>9
  <2> QED
    BY <1>2, <1>10, <2>1, RecursionType
<1> QED
  BY <1>1, <1>6, <1>8, <1>9, <1>11 DEF IsOver

\* compiler_validate_cycles lets no views pass that include each other.
LEMMA NoCycles ==
    ASSUME NEW views, IsViews(views), compiler_validate_cycles(views)
    PROVE  \A group \in (SUBSET DOMAIN views) \ {{}} :
              \E name \in group : Partials(views[name]) \cap group = {}
<1>1. PICK D, V : D = DOMAIN views /\ V = Walks(views)
  OBVIOUS
<1>2. PICK names \in Seq(DOMAIN views) :
         /\ SetToSeq(DOMAIN views) = names /\ Len(names) \in Nat /\ DOMAIN names = 1 .. Len(names)
         /\ \A x \in DOMAIN views : \E i \in 1 .. Len(names) : names[i] = x
  BY SomeOrder DEF IsViews
<1>3. PICK visit \in [Entries(views) -> Walks(views)] :
         compiler_visit(views)[Cardinality(DOMAIN views)] = visit /\ VisitGood(views, visit)
  BY VisitsGood
<1>4. PICK walk \in [0 .. Len(names) -> Walks(views)] :
         WalkOver(views, names, visit) = walk /\ IsOver(walk, views, names, visit)
  BY OverDefined
<1>5. PICK N : N = Len(names) /\ N \in Nat
  BY <1>2
<1>6. walk[N].ok
  BY <1>2, <1>3, <1>4, <1>5 DEF compiler_validate_cycles
<1>7. \A w \in V : w.ok \in BOOLEAN /\ w.state \in [D -> 0 .. 2]
  BY <1>1 DEF Walks
<1> DEFINE Good(k) ==
              walk[k].ok =>
                 /\ Settled(views, walk[k].state)
                 /\ \A name \in D : walk[k].state[name] # 1
                 /\ \A i \in 1 .. k : walk[k].state[names[i]] = 2
           S == {k \in 0 .. N : Good(k)}
<1>8. 0 \in S
  <2>1. PICK none : none = [name \in D |-> 0]
    OBVIOUS
  <2>2. walk[0].state = none
    BY <1>1, <1>4, <2>1 DEF IsOver, Walk
  <2>3. Done(none) = {} /\ \A name \in D : none[name] = 0
    BY <2>1 DEF Done
  <2>4. Settled(views, none)
    BY <2>3 DEF Settled
  <2>5. Good(0)
    BY <2>2, <2>3, <2>4
  <2> QED
    BY <1>5, <2>5
<1>9. ASSUME NEW k \in 0 .. N - 1, k \in S PROVE k + 1 \in S
  <2>1. /\ k + 1 \in 1 .. N /\ (k + 1) - 1 = k /\ k \in 0 .. N /\ k + 1 \in 0 .. N
    BY <1>5
  <2>2. PICK old, new, name : old = walk[k] /\ new = walk[k + 1] /\ name = names[k + 1]
    OBVIOUS
  <2>3. /\ old \in V /\ new \in V /\ name \in D
        /\ new = IF old.ok /\ old.state[name] = 0 THEN visit[Entry(name, old.state)] ELSE old
    <3>1. walk \in [0 .. N -> V]
      BY <1>1, <1>4, <1>5
    <3>2. names \in Seq(D) /\ DOMAIN names = 1 .. N
      BY <1>1, <1>2, <1>5
    <3>3. \A m \in 1 .. N :
             walk[m] = IF walk[m - 1].ok /\ walk[m - 1].state[names[m]] = 0
                       THEN visit[Entry(names[m], walk[m - 1].state)] ELSE walk[m - 1]
      BY <1>4, <1>5 DEF IsOver
    <3>4. name \in D
      BY <2>1, <2>2, <3>2
    <3> QED
      BY <2>1, <2>2, <3>1, <3>3, <3>4
  <2>4. old.ok \in BOOLEAN /\ old.state \in [D -> 0 .. 2] /\ new.state \in [D -> 0 .. 2]
    BY <1>7, <2>3
  <2>5. \A i \in 1 .. N : names[i] \in D
    BY <1>1, <1>2, <1>5
  <2> HIDE DEF Good
  <2>6. ASSUME new.ok PROVE Good(k + 1)
    <3>1. Good(k)
      BY <1>9
    <3>2. CASE old.ok /\ old.state[name] = 0
      <4>1. PICK e : e = Entry(name, old.state)
        OBVIOUS
      <4>2. e \in Entries(views) /\ e.name = name /\ e.state = old.state
        BY <1>1, <2>3, <2>4, <4>1 DEF Entry, Entries
      <4>3. new = visit[e]
        BY <2>3, <3>2, <4>1
      <4>4. /\ Settled(views, old.state) /\ \A other \in D : old.state[other] # 1
            /\ \A i \in 1 .. k : old.state[names[i]] = 2
        BY <2>2, <3>1, <3>2 DEF Good
      <4>5. new.state[name] = 2 /\ Settled(views, new.state) /\ Kept(old.state, new.state)
        BY <1>3, <2>6, <3>2, <4>2, <4>3, <4>4 DEF VisitGood
      <4>6. \A other \in D : new.state[other] # 1
        BY <2>4, <4>4, <4>5 DEF Kept
      <4>7. ASSUME NEW i \in 1 .. k + 1 PROVE new.state[names[i]] = 2
        <5>1. CASE i = k + 1
          BY <2>2, <4>5, <5>1
        <5>2. CASE i \in 1 .. k
          <6>0. i \in 1 .. N
            BY <1>5, <5>2
          <6>1. names[i] \in D /\ old.state[names[i]] = 2
            BY <2>5, <4>4, <5>2, <6>0
          <6> QED
            BY <2>4, <4>5, <6>1 DEF Kept
        <5> QED
          BY <5>1, <5>2
      <4> QED
        BY <2>2, <4>5, <4>6, <4>7 DEF Good
    <3>3. CASE ~(old.ok /\ old.state[name] = 0)
      <4>1. new = old
        BY <2>3, <3>3
      <4>2. /\ Settled(views, old.state) /\ \A other \in D : old.state[other] # 1
            /\ \A i \in 1 .. k : old.state[names[i]] = 2
        BY <2>2, <2>6, <3>1, <4>1 DEF Good
      <4>3. old.state[name] = 2
        <5>1. old.state[name] \in 0 .. 2 /\ old.state[name] # 1 /\ old.ok
          BY <2>3, <2>4, <2>6, <4>1, <4>2
        <5> QED
          BY <3>3, <5>1
      <4>4. \A i \in 1 .. k + 1 : old.state[names[i]] = 2
        <5>1. \A i \in 1 .. k + 1 : i \in 1 .. k \/ i = k + 1
          BY <2>1
        <5> QED
          BY <2>2, <4>2, <4>3, <5>1
      <4> QED
        BY <2>2, <4>1, <4>2, <4>4 DEF Good
    <3> QED
      BY <3>2, <3>3
  <2>7. ~new.ok => Good(k + 1)
    BY <2>2 DEF Good
  <2> QED
    BY <2>1, <2>6, <2>7
<1>10. 0 .. N \subseteq S
  <2> HIDE DEF S
  <2> QED
    BY <1>5, <1>8, <1>9, IntervalInduction
<1>11. Good(N)
  BY <1>5, <1>10
<1>12. Settled(views, walk[N].state) /\ \A i \in 1 .. N : walk[N].state[names[i]] = 2
  BY <1>6, <1>11
<1>13. Done(walk[N].state) = DOMAIN views
  <2>1. walk[N].state \in [D -> 0 .. 2]
    <3>1. walk[N] \in V
      BY <1>1, <1>5
    <3> QED
      BY <1>7, <3>1
  <2>2. \A x \in D : walk[N].state[x] = 2
    BY <1>1, <1>2, <1>5, <1>12
  <2> QED
    BY <1>1, <2>1, <2>2 DEF Done
<1> QED
  BY <1>12, <1>13 DEF Settled

-----------------------------------------------------------------------------

\* The programs of files that a compiler has read.
LEMMA TranslatedViews ==
    ASSUME NEW found, Gathered(found), compiler_validate_partials(Translated(found))
    PROVE  IsViews(Translated(found))
<1>1. PICK views : views = Translated(found)
  OBVIOUS
<1> DEFINE File(name) == CHOOSE p \in DOMAIN found : compiler_logical_name(p) = name
<1>2. views = [name \in {compiler_logical_name(p) : p \in DOMAIN found} |->
                  template_parse(found[File(name)]).code]
  BY <1>1 DEF Translated
<1>3. DOMAIN views = {compiler_logical_name(p) : p \in DOMAIN found}
  BY <1>2
<1>4. IsFiniteSet(DOMAIN views)
  <2>1. IsFiniteSet(DOMAIN found)
    BY DEF Gathered, IsSite
  <2>2. IsFiniteSet({compiler_logical_name(p) : p \in DOMAIN found})
    <3> DEFINE S == DOMAIN found
               T == {compiler_logical_name(p) : p \in S}
               f == [p \in S |-> compiler_logical_name(p)]
    <3>1. f \in [S -> T] /\ \A t \in T : \E p \in S : f[p] = t
      OBVIOUS
    <3>2. f \in Surjection(S, T)
      BY <3>1 DEF Surjection
    <3> QED
      BY <2>1, <3>2, FS_Surjection
  <2> QED
    BY <1>3, <2>2
<1>5. ASSUME NEW name \in DOMAIN views
      PROVE  Len(views[name]) \in Nat /\ DOMAIN views[name] = 1 .. Len(views[name])
  <2>1. File(name) \in DOMAIN found
    BY <1>3
  <2>2. PICK source : source = found[File(name)] /\ IsSource(source)
    BY <2>1 DEF Gathered, IsSite
  <2>3. views[name] = template_parse(source).code
    BY <1>2, <1>3, <2>2
  <2>4. views[name] \in Seq(InstructionOf(source))
    BY <2>2, <2>3, ParsedCode DEF CodeOf
  <2> QED
    BY <2>4
<1> QED
  BY <1>1, <1>4, <1>5 DEF IsViews, compiler_validate_partials

\* What was made from files is sound.
LEMMA SoundBundle == ASSUME NEW bundle, FromFiles(bundle) PROVE Sound(bundle)
<1>1. CASE bundle = NoBundle
  <2>1. bundle.whole /\ bundle.views = <<>> /\ DOMAIN <<>> = {}
    BY <1>1 DEF NoBundle, NoViews
  <2> QED
    BY <2>1 DEF Sound
<1>2. CASE bundle # NoBundle
  <2>1. PICK found : Gathered(found) /\ Acceptable(found) /\ bundle = Bundle(found)
    BY <1>2 DEF FromFiles
  <2>2. PICK views : views = Translated(found)
    OBVIOUS
  <2>3. bundle.whole /\ bundle.views = views
    BY <2>1, <2>2 DEF Bundle
  <2>4. compiler_validate_partials(views) /\ compiler_validate_cycles(views)
    BY <2>1, <2>2 DEF Acceptable
  <2>5. IsViews(views)
    BY <2>1, <2>2, <2>4, TranslatedViews
  <2>6. \A group \in (SUBSET DOMAIN views) \ {{}} :
           \E name \in group : Partials(views[name]) \cap group = {}
    BY <2>4, <2>5, NoCycles
  <2> QED
    BY <2>3, <2>4, <2>6 DEF Sound, compiler_validate_partials
<1> QED
  BY <1>1, <1>2

\* What the compiler leaves behind and what the build has linked is whole, holds
\* every partial it names and none that includes itself.
THEOREM BundlesAreComplete == Spec => []BundleComplete
<1>1. ViewInv => BundleComplete
  BY SoundBundle DEF ViewInv, BundleComplete
<1> QED
  BY <1>1, ViewInvariant, PTL

-----------------------------------------------------------------------------
(* Rendering.  Whatever a page is made of, it is a text over the characters *)
(* that its templates and values hold.                                     *)

Outputs(A) == {Failure} \cup {Html(text) : text \in Seq(A)}

\* What a value prints is over A.
Prints(A, value) ==
    /\ value.type = "string" => html_escape(value.text) \in Seq(A)
    /\ value.type \in {"int64", "bool"} => value.text \in Seq(A)

DataPrints(A, data) ==
    \A name \in DOMAIN data :
       /\ Prints(A, data[name])
       /\ \A record \in ToSet(data[name].rows) :
             \A field \in DOMAIN record : Prints(A, record[field])

\* The escape of a character.
LEMMA EscapedType == ASSUME NEW character \in STRING PROVE Escaped(character) \in STRING
BY ViewAssumption, Zenon DEF Escaped

\* A scalar.
LEMMA ScalarPrints == ASSUME NEW value \in Scalars PROVE Prints(STRING, value) /\ value.type \in {"string", "int64", "bool"}
<1>1. value.text \in Seq(STRING) /\ value.type \in {"string", "int64", "bool"}
  BY DEF Scalars
<1>2. \A i \in DOMAIN value.text : value.text[i] \in STRING
  BY <1>1
<1>3. html_escape(value.text) \in Seq(STRING)
  <2>1. PICK text : text = value.text /\ text \in Seq(STRING)
    BY <1>1
  <2>2. \A i \in DOMAIN text : Escaped(text[i]) \in STRING
    BY <1>2, <2>1, EscapedType
  <2>3. DOMAIN text = 1 .. Len(text) /\ Len(text) \in Nat
    BY <2>1
  <2>4. [i \in DOMAIN text |-> Escaped(text[i])] \in Seq(STRING)
    BY <2>2, <2>3
  <2> QED
    BY <2>1, <2>4 DEF html_escape
<1> QED
  BY <1>1, <1>3 DEF Prints

\* The values that a template may name.
OfData(data, value) == \E name \in DOMAIN data : value = data[name]
OfRecord(data, value) ==
    \E name \in DOMAIN data : \E record \in ToSet(data[name].rows) :
       \E field \in DOMAIN record : value = record[field]

\* What is known of a value among the data of a page.
LEMMA ValueFields ==
    ASSUME NEW value, IsValue(value)
    PROVE  /\ value.type \in {"string", "int64", "bool", "model", "collection"}
           /\ value.text \in Seq(STRING)
           /\ value.rows \in Seq(ToSet(value.rows))
           /\ \A record \in ToSet(value.rows) : record \in [DOMAIN record -> Scalars]
<1>1. PICK R : R = Seq(ToSet(value.rows))
  OBVIOUS
<1>2. value \in [type : {"string", "int64", "bool", "model", "collection"},
                  text : Seq(STRING), rows : R]
  BY <1>1 DEF IsValue
<1>3. /\ value.type \in {"string", "int64", "bool", "model", "collection"}
      /\ value.text \in Seq(STRING) /\ value.rows \in R
  BY <1>2
<1> QED
  BY <1>1, <1>3 DEF IsValue, IsRecord

\* A name stands for a value of the page, for a field of a record or for nothing.
LEMMA Resolved ==
    ASSUME NEW data, IsData(data), NEW scope \in Scopes(data), NEW path
    PROVE  LET value == view_resolve(data, path, scope)
           IN  value = Unknown \/ OfData(data, value) \/ OfRecord(data, value)
<1>1. PICK value : value = view_resolve(data, path, scope)
  OBVIOUS
<1>2. ASSUME Len(path) = 1, Head(path) \in DOMAIN scope PROVE OfRecord(data, value)
  <2>1. value = scope[Head(path)]
    BY <1>1, <1>2 DEF view_resolve
  <2>2. scope # NoRecord
    BY <1>2 DEF NoRecord
  <2>3. \E name \in DOMAIN data : scope \in ToSet(data[name].rows)
    BY <2>2 DEF Scopes
  <2> QED
    BY <1>2, <2>1, <2>3 DEF OfRecord
<1>3. ASSUME NEW other \in DOMAIN data, NEW field
      PROVE  LET found == view_model_field(data[other], field)
             IN  found = Unknown \/ OfRecord(data, found)
  <2>1. PICK rows : rows = data[other].rows /\ rows \in Seq(ToSet(rows))
    BY <1>3, ValueFields DEF IsData
  <2>2. rows # <<>> => Head(rows) \in ToSet(rows)
    BY <2>1 DEF ToSet
  <2> QED
    BY <2>1, <2>2 DEF view_model_field, OfRecord
<1>4. ASSUME ~(Len(path) = 1 /\ Head(path) \in DOMAIN scope)
      PROVE  value = Unknown \/ OfData(data, value) \/ OfRecord(data, value)
  <2>1. CASE Head(path) \notin DOMAIN data
    BY <1>1, <1>4, <2>1 DEF view_resolve
  <2>2. CASE Head(path) \in DOMAIN data
    <3>1. CASE Len(path) = 1
      BY <1>1, <1>4, <2>2, <3>1 DEF view_resolve, OfData
    <3>2. CASE Len(path) = 2
      <4>1. value = view_model_field(data[Head(path)], path[2])
        BY <1>1, <1>4, <2>2, <3>2 DEF view_resolve
      <4> QED
        BY <1>3, <2>2, <4>1
    <3>3. CASE Len(path) # 1 /\ Len(path) # 2
      BY <1>1, <1>4, <2>2, <3>3 DEF view_resolve
    <3> QED
      BY <3>1, <3>2, <3>3
  <2> QED
    BY <2>1, <2>2
<1> QED
  BY <1>1, <1>2, <1>4

\* What a name stands for prints over A; the records of a collection are scopes.
LEMMA ResolvedFields ==
    ASSUME NEW A, NEW data, IsData(data), DataPrints(A, data), NEW scope \in Scopes(data), NEW path
    PROVE  LET value == view_resolve(data, path, scope)
           IN  /\ Prints(A, value)
               /\ value.type = "collection" => value.rows \in Seq(Scopes(data))
<1>1. PICK value : value = view_resolve(data, path, scope)
  OBVIOUS
<1>2. CASE value = Unknown
  BY <1>1, <1>2 DEF Unknown, Prints
<1>3. CASE OfData(data, value)
  <2>1. PICK name \in DOMAIN data : value = data[name]
    BY <1>3 DEF OfData
  <2>2. IsValue(value)
    BY <2>1 DEF IsData
  <2>3. value.rows \in Seq(ToSet(value.rows))
    BY <2>2, ValueFields
  <2>4. ToSet(value.rows) \subseteq Scopes(data)
    BY <2>1 DEF Scopes
  <2>5. value.rows \in Seq(Scopes(data))
    <3>1. PICK R, rows : R = ToSet(value.rows) /\ rows = value.rows /\ rows \in Seq(R)
      BY <2>3
    <3>2. rows \in Seq(Scopes(data))
      BY <2>4, <3>1
    <3> QED
      BY <3>1, <3>2
  <2> QED
    BY <1>1, <2>1, <2>5 DEF DataPrints
<1>4. CASE OfRecord(data, value)
  <2>0. PICK name \in DOMAIN data : \E record \in ToSet(data[name].rows) :
           \E field \in DOMAIN record : value = record[field]
    BY <1>4 DEF OfRecord
  <2>9. PICK record \in ToSet(data[name].rows) : \E field \in DOMAIN record : value = record[field]
    BY <2>0
  <2>1. PICK field \in DOMAIN record : value = record[field]
    BY <2>9
  <2>2. IsValue(data[name])
    BY DEF IsData
  <2>3. record \in [DOMAIN record -> Scalars]
    BY <2>2, ValueFields
  <2>4. value.type # "collection"
    BY <2>1, <2>3 DEF Scalars
  <2>5. Prints(A, value)
    BY <2>1 DEF DataPrints
  <2> QED
    BY <1>1, <2>4, <2>5
<1> QED
  BY <1>1, <1>2, <1>3, <1>4, Resolved

\* Whatever the values are, they print strings.
LEMMA DataStrings == ASSUME NEW data, IsData(data) PROVE DataPrints(STRING, data)
<1>1. ASSUME NEW name \in DOMAIN data
      PROVE  /\ Prints(STRING, data[name])
             /\ \A record \in ToSet(data[name].rows) :
                   \A field \in DOMAIN record : Prints(STRING, record[field])
  <2>1. PICK value : value = data[name] /\ IsValue(value)
    BY DEF IsData
  <2>2. Prints(STRING, value)
    <3>1. PICK text : text = value.text /\ text \in Seq(STRING)
      BY <2>1, ValueFields
    <3>2. \A i \in DOMAIN text : Escaped(text[i]) \in STRING
      BY <3>1, EscapedType
    <3>3. [i \in DOMAIN text |-> Escaped(text[i])] \in Seq(STRING)
      BY <3>1, <3>2
    <3> QED
      BY <3>1, <3>3 DEF html_escape, Prints
  <2>3. \A record \in ToSet(value.rows) : record \in [DOMAIN record -> Scalars]
    BY <2>1, ValueFields
  <2> QED
    BY <2>1, <2>2, <2>3, ScalarPrints
<1> QED
  BY <1>1 DEF DataPrints

\* A value on its own.
LEMMA ValueRendered ==
    ASSUME NEW A, NEW value, Prints(A, value)
    PROVE  view_render_value(value) \in Outputs(A)
BY DEF Prints, view_render_value, Outputs

\* Two outputs one after the other.
LEMMA JoinedType ==
    ASSUME NEW A, NEW first \in Outputs(A), NEW second \in Outputs(A)
    PROVE  Joined(first, second) \in Outputs(A)
<1>1. CASE first.ok /\ second.ok
  <2>1. Failure.ok = FALSE
    BY DEF Failure
  <2>2. PICK s \in Seq(A), t \in Seq(A) : first = Html(s) /\ second = Html(t)
    BY <1>1, <2>1 DEF Outputs
  <2>3. first.html = s /\ second.html = t
    BY <2>2 DEF Html
  <2>4. s \o t \in Seq(A)
    OBVIOUS
  <2>5. Joined(first, second) = Html(s \o t)
    BY <1>1, <2>3 DEF Joined
  <2> QED
    BY <2>4, <2>5 DEF Outputs
<1>2. CASE ~(first.ok /\ second.ok)
  BY <1>2 DEF Joined, Outputs
<1> QED
  BY <1>1, <1>2

\* Several outputs one after the other.
LEMMA ConcatenatedDefined ==
    ASSUME NEW A, NEW parts \in Seq(Outputs(A))
    PROVE  \E upTo \in [0 .. Len(parts) -> Outputs(A)] :
              /\ Concatenated(parts) = upTo[Len(parts)] /\ upTo[0] = Html(<<>>)
              /\ \A n \in 1 .. Len(parts) : upTo[n] = Joined(upTo[n - 1], parts[n])
<1>1. PICK N, V, first : N = Len(parts) /\ V = Outputs(A) /\ first = Html(<<>>)
  OBVIOUS
<1>2. N \in Nat /\ \A n \in 1 .. N : parts[n] \in V
  BY <1>1
<1>3. first \in V
  <2>1. <<>> \in Seq(A)
    OBVIOUS
  <2> QED
    BY <1>1, <2>1 DEF Outputs
<1>4. \A n \in 1 .. N : \A v \in V : Joined(v, parts[n]) \in V
  BY <1>1, <1>2, JoinedType
<1> DEFINE IsJoin(upTo) == upTo = [n \in 0 .. N |-> IF n = 0 THEN first ELSE Joined(upTo[n - 1], parts[n])]
           Value == CHOOSE upTo : IsJoin(upTo)
<1>5. Concatenated(parts) = Value[N]
  BY <1>1 DEF Concatenated
<1>6. \E upTo : IsJoin(upTo)
  <2> DEFINE step == [n \in 1 .. N |-> [v \in V |-> Joined(v, parts[n])]]
  <2>1. step \in [1 .. N -> [V -> V]]
    BY <1>4
  <2>2. \A n \in 1 .. N : \A v \in V : step[n][v] = Joined(v, parts[n])
    OBVIOUS
  <2> HIDE DEF step
  <2>3. PICK g \in [0 .. N -> V] : Recursive(g, N, first, step)
    BY <1>2, <1>3, <2>1, IntervalRecursion
  <2>4. \A n \in 1 .. N : g[n - 1] \in V
    BY <1>2
  <2>5. \A n \in 0 .. N : g[n] = IF n = 0 THEN first ELSE Joined(g[n - 1], parts[n])
    BY <1>2, <2>2, <2>3, <2>4 DEF Recursive
  <2>6. g = [n \in 0 .. N |-> IF n = 0 THEN first ELSE Joined(g[n - 1], parts[n])]
    <3> DEFINE h == [n \in 0 .. N |-> IF n = 0 THEN first ELSE Joined(g[n - 1], parts[n])]
    <3>1. \A n \in 0 .. N : g[n] = h[n]
      BY <2>5
    <3> QED
      BY <2>3, <3>1
  <2> QED
    BY <2>6
<1>7. PICK upTo : upTo = Value /\ IsJoin(upTo)
  BY <1>6
<1>8. upTo[0] = first /\ \A n \in 1 .. N : upTo[n] = Joined(upTo[n - 1], parts[n])
  <2>1. upTo = [n \in 0 .. N |-> IF n = 0 THEN first ELSE Joined(upTo[n - 1], parts[n])]
    BY <1>7
  <2>2. upTo[0] = first
    BY <1>2, <2>1
  <2>3. ASSUME NEW n \in 1 .. N PROVE upTo[n] = Joined(upTo[n - 1], parts[n])
    <3>1. n \in 0 .. N /\ n # 0
      BY <1>2
    <3> QED
      BY <2>1, <3>1
  <2> QED
    BY <2>2, <2>3
<1>9. upTo = [n \in 0 .. N |-> upTo[n]]
  BY <1>7
<1> HIDE DEF IsJoin, Value
<1>10. upTo \in [0 .. N -> V]
  <2>1. upTo[0] \in V /\ \A n \in 1 .. N : upTo[n - 1] \in V => upTo[n] \in V
    BY <1>3, <1>4, <1>8
  <2> QED
    BY <1>2, <1>9, <2>1, RecursionType
<1> QED
  BY <1>1, <1>5, <1>7, <1>8, <1>10

\* Their text is over the same characters.
LEMMA ConcatenatedType ==
    ASSUME NEW A, NEW parts \in Seq(Outputs(A))
    PROVE  Concatenated(parts) \in Outputs(A)
<1>1. PICK upTo \in [0 .. Len(parts) -> Outputs(A)] : Concatenated(parts) = upTo[Len(parts)]
  BY ConcatenatedDefined
<1>2. Len(parts) \in 0 .. Len(parts)
  OBVIOUS
<1> QED
  BY <1>1, <1>2

-----------------------------------------------------------------------------

Calls(cx) == [path : Seq(AllSegments), scope : Scopes(cx.data)]

\* A program whose text is over A.
Instructions(A) ==
    {i \in [type : {"text", "var", "#", "^", ">", "yield"}, value : Seq(STRING), jump : Nat] :
        /\ i.type = "text" => i.value \in Seq(A)
        /\ i.type = ">" => i.value \in Seq(AllSegments)}

\* What is left of a run.
Left(run) == IF run.index < run.end THEN run.end - run.index ELSE 0

\* A run and its instruction.
LEMMA RunFields ==
    ASSUME NEW A, NEW cx, NEW code \in Seq(Instructions(A)), NEW run \in Runs(cx, code)
    PROVE  /\ Len(code) \in Nat /\ run.index \in 1 .. Len(code) + 1 /\ run.end \in 1 .. Len(code) + 1
           /\ run.scope \in Scopes(cx.data) /\ Left(run) \in 0 .. Len(code)
           /\ run.index < run.end =>
                 /\ run.index \in 1 .. Len(code) /\ code[run.index] \in Instructions(A)
                 /\ Left(run) = run.end - run.index
<1>1. Len(code) \in Nat
  OBVIOUS
<1>2. /\ run.index \in 1 .. Len(code) + 1 /\ run.end \in 1 .. Len(code) + 1
      /\ run.scope \in Scopes(cx.data)
  BY DEF Runs
<1>3. PICK index, end : index = run.index /\ end = run.end
  OBVIOUS
<1>4. Left(run) \in 0 .. Len(code) /\ (index < end => Left(run) = end - index /\ index \in 1 .. Len(code))
  BY <1>1, <1>2, <1>3 DEF Left
<1>5. index \in 1 .. Len(code) => code[index] \in Instructions(A)
  OBVIOUS
<1> QED
  BY <1>1, <1>2, <1>3, <1>4, <1>5

\* What is inside of a section is a shorter run.
LEMMA InsideShorter ==
    ASSUME NEW A, NEW cx, NEW code \in Seq(Instructions(A)), NEW run \in Runs(cx, code),
           run.index < run.end, NEW jump \in run.index + 1 .. run.end, NEW scope \in Scopes(cx.data)
    PROVE  LET inside == [index |-> run.index + 1, end |-> jump, scope |-> scope]
           IN  inside \in Runs(cx, code) /\ Left(inside) < Left(run)
<1>1. PICK N, index, end : /\ N = Len(code) /\ index = run.index /\ end = run.end
                           /\ N \in Nat /\ index \in 1 .. N /\ end \in 1 .. N + 1
                           /\ Left(run) = end - index
  BY RunFields
<1>2. index + 1 \in 1 .. N + 1 /\ jump \in 1 .. N + 1
  BY <1>1
<1>3. [index |-> index + 1, end |-> jump, scope |-> scope] \in Runs(cx, code)
  BY <1>1, <1>2 DEF Runs
<1>4. PICK inside : inside = [index |-> index + 1, end |-> jump, scope |-> scope]
  OBVIOUS
<1>5. inside.index = index + 1 /\ inside.end = jump
  BY <1>4
<1>6. Left(inside) < Left(run)
  BY <1>1, <1>2, <1>5 DEF Left
<1> QED
  BY <1>1, <1>3, <1>4, <1>6

\* So is what is behind an instruction that could be rendered.
LEMMA RestShorter ==
    ASSUME NEW A, NEW cx, NEW code \in Seq(Instructions(A)), NEW run \in Runs(cx, code),
           run.index < run.end,
           code[run.index].type \in Sections => code[run.index].jump \in run.index + 1 .. run.end
    PROVE  Rest(code, run) \in Runs(cx, code) /\ Left(Rest(code, run)) < Left(run)
<1>1. PICK N, index, end, scope :
         /\ N = Len(code) /\ index = run.index /\ end = run.end /\ scope = run.scope
         /\ N \in Nat /\ index \in 1 .. N /\ end \in 1 .. N + 1 /\ scope \in Scopes(cx.data)
         /\ Left(run) = end - index
  BY RunFields
<1>2. run = [index |-> index, end |-> end, scope |-> scope]
  BY <1>1 DEF Runs
<1>3. PICK next : next = IF code[index].type \in Sections THEN code[index].jump ELSE index + 1
  OBVIOUS
<1>4. next \in index + 1 .. end
  BY <1>1, <1>3
<1>5. PICK rest : rest = [run EXCEPT !.index = next]
  OBVIOUS
<1>6. rest = [index |-> next, end |-> end, scope |-> scope]
  BY <1>2, <1>5
<1>7. Rest(code, run) = rest
  BY <1>1, <1>3, <1>5 DEF Rest
<1>8. next \in 1 .. N + 1
  BY <1>1, <1>4
<1>9. rest \in Runs(cx, code) /\ rest.index = next /\ rest.end = end
  BY <1>1, <1>6, <1>8 DEF Runs
<1>10. Left(rest) < Left(run)
  BY <1>1, <1>4, <1>9 DEF Left
<1> QED
  BY <1>7, <1>9, <1>10

\* A section needs no more than what shorter runs render.
LEMMA SectionSame ==
    ASSUME NEW A, NEW cx, NEW other, other.data = cx.data, IsData(cx.data),
           NEW code \in Seq(Instructions(A)), NEW run \in Runs(cx, code), run.index < run.end,
           NEW f, NEW g, \A y \in Runs(cx, code) : Left(y) < Left(run) => f[y] = g[y]
    PROVE  view_render_section(cx, code, run, f) = view_render_section(other, code, run, g)
<1>1. PICK section, value : /\ section = code[run.index]
                            /\ value = view_resolve(cx.data, section.value, run.scope)
  OBVIOUS
<1>2. PICK hidden : hidden = (view_truthy(value) = (section.type = "^"))
  OBVIOUS
<1> DEFINE At1(record) == [index |-> run.index + 1, end |-> section.jump, scope |-> record]
           Of(render) == IF value.type = "collection" /\ section.type = "#"
                         THEN Concatenated([k \in DOMAIN value.rows |-> render[At1(value.rows[k])]])
                         ELSE render[At1(run.scope)]
<1>3. \A render :
         view_render_section(cx, code, run, render) =
            IF value.type = "unknown" \/ section.jump \notin run.index + 1 .. run.end THEN Failure
            ELSE IF view_truthy(value) = (section.type = "^") THEN Html(<<>>) ELSE Of(render)
  BY <1>1 DEF view_render_section
<1>4. \A render :
         view_render_section(other, code, run, render) =
            IF value.type = "unknown" \/ section.jump \notin run.index + 1 .. run.end THEN Failure
            ELSE IF view_truthy(value) = (section.type = "^") THEN Html(<<>>) ELSE Of(render)
  BY <1>1 DEF view_render_section
<1>5. ASSUME section.jump \in run.index + 1 .. run.end PROVE Of(f) = Of(g)
  <2>1. \A record \in Scopes(cx.data) : f[At1(record)] = g[At1(record)]
    <3>1. ASSUME NEW record \in Scopes(cx.data)
          PROVE  At1(record) \in Runs(cx, code) /\ Left(At1(record)) < Left(run)
      BY <1>5, InsideShorter
    <3> QED
      BY <3>1
  <2>2. run.scope \in Scopes(cx.data)
    BY RunFields
  <2>3. CASE value.type = "collection" /\ section.type = "#"
    <3>1. value.rows \in Seq(Scopes(cx.data))
      BY <1>1, <2>2, <2>3, ResolvedFields, DataStrings
    <3>2. \A k \in DOMAIN value.rows : value.rows[k] \in Scopes(cx.data)
      BY <3>1
    <3> HIDE DEF At1
    <3>3. [k \in DOMAIN value.rows |-> f[At1(value.rows[k])]]
             = [k \in DOMAIN value.rows |-> g[At1(value.rows[k])]]
      BY <2>1, <3>2
    <3> QED
      BY <2>3, <3>3
  <2>4. CASE ~(value.type = "collection" /\ section.type = "#")
    <3> HIDE DEF At1
    <3> QED
      BY <2>1, <2>2, <2>4
  <2> QED
    BY <2>3, <2>4
<1> HIDE DEF Of
<1>6. PICK bad : bad = (value.type = "unknown" \/ section.jump \notin run.index + 1 .. run.end)
  OBVIOUS
<1>7. CASE value.type = "unknown" \/ section.jump \notin run.index + 1 .. run.end
  BY <1>3, <1>4, <1>7
<1>8. CASE ~(value.type = "unknown" \/ section.jump \notin run.index + 1 .. run.end)
  BY <1>3, <1>4, <1>5, <1>8
<1> QED
  BY <1>7, <1>8

\* A section prints what is inside of it, and only if it has an end.
LEMMA SectionType ==
    ASSUME NEW A, NEW cx, IsData(cx.data), DataPrints(A, cx.data),
           NEW code \in Seq(Instructions(A)), NEW run \in Runs(cx, code), run.index < run.end,
           NEW f, \A y \in Runs(cx, code) : Left(y) < Left(run) => f[y] \in Outputs(A)
    PROVE  LET output == view_render_section(cx, code, run, f)
           IN  /\ output \in Outputs(A)
               /\ output.ok => code[run.index].jump \in run.index + 1 .. run.end
<1>1. PICK section, value : /\ section = code[run.index]
                            /\ value = view_resolve(cx.data, section.value, run.scope)
  OBVIOUS
<1> DEFINE At1(record) == [index |-> run.index + 1, end |-> section.jump, scope |-> record]
           Of(render) == IF value.type = "collection" /\ section.type = "#"
                         THEN Concatenated([k \in DOMAIN value.rows |-> render[At1(value.rows[k])]])
                         ELSE render[At1(run.scope)]
<1>3. view_render_section(cx, code, run, f) =
         IF value.type = "unknown" \/ section.jump \notin run.index + 1 .. run.end THEN Failure
         ELSE IF view_truthy(value) = (section.type = "^") THEN Html(<<>>) ELSE Of(f)
  BY <1>1 DEF view_render_section
<1>4. Failure \in Outputs(A) /\ Failure.ok = FALSE /\ Html(<<>>) \in Outputs(A)
  <2>1. <<>> \in Seq(A)
    OBVIOUS
  <2>2. Html(<<>>) \in Outputs(A)
    BY <2>1 DEF Outputs
  <2> QED
    BY <2>2 DEF Failure, Outputs
<1>5. ASSUME section.jump \in run.index + 1 .. run.end PROVE Of(f) \in Outputs(A)
  <2>1. \A record \in Scopes(cx.data) : f[At1(record)] \in Outputs(A)
    <3>1. ASSUME NEW record \in Scopes(cx.data)
          PROVE  At1(record) \in Runs(cx, code) /\ Left(At1(record)) < Left(run)
      BY <1>5, InsideShorter
    <3> QED
      BY <3>1
  <2>2. run.scope \in Scopes(cx.data)
    BY RunFields
  <2>3. CASE value.type = "collection" /\ section.type = "#"
    <3>1. PICK rows : rows = value.rows /\ rows \in Seq(Scopes(cx.data))
      BY <1>1, <2>2, <2>3, ResolvedFields
    <3> HIDE DEF At1
    <3>2. \A k \in DOMAIN rows : f[At1(rows[k])] \in Outputs(A)
      BY <2>1, <3>1
    <3>3. [k \in DOMAIN rows |-> f[At1(rows[k])]] \in Seq(Outputs(A))
      BY <3>1, <3>2
    <3> QED
      BY <2>3, <3>1, <3>3, ConcatenatedType
  <2>4. CASE ~(value.type = "collection" /\ section.type = "#")
    <3> HIDE DEF At1
    <3> QED
      BY <2>1, <2>2, <2>4
  <2> QED
    BY <2>3, <2>4
<1> HIDE DEF Of
<1>6. CASE value.type = "unknown" \/ section.jump \notin run.index + 1 .. run.end
  BY <1>3, <1>4, <1>6
<1>7. CASE ~(value.type = "unknown" \/ section.jump \notin run.index + 1 .. run.end)
  BY <1>1, <1>3, <1>4, <1>5, <1>7
<1> QED
  BY <1>6, <1>7

Called(code, run) == [path |-> code[run.index].value, scope |-> run.scope]

\* Nor does an instruction.
LEMMA InstructionSame ==
    ASSUME NEW A, NEW cx, NEW other, other.data = cx.data, IsData(cx.data),
           NEW code \in Seq(Instructions(A)), NEW body, NEW partial, NEW another,
           NEW run \in Runs(cx, code), run.index < run.end,
           NEW f, NEW g, \A y \in Runs(cx, code) : Left(y) < Left(run) => f[y] = g[y],
           code[run.index].type = ">" => partial[Called(code, run)] = another[Called(code, run)]
    PROVE  view_render_instruction(cx, code, body, partial, run, f)
              = view_render_instruction(other, code, body, another, run, g)
<1>1. code[run.index].type \in {"text", "var", "#", "^", ">", "yield"}
  <2>1. code[run.index] \in Instructions(A)
    BY RunFields
  <2> QED
    BY <2>1 DEF Instructions
<1>2. CASE code[run.index].type \in {"#", "^"}
  <2>1. view_render_section(cx, code, run, f) = view_render_section(other, code, run, g)
    BY SectionSame
  <2> QED
    BY <1>2, <2>1 DEF view_render_instruction
<1>3. CASE code[run.index].type = ">"
  BY <1>3 DEF view_render_instruction, Called
<1>4. CASE code[run.index].type \in {"text", "var", "yield"}
  BY <1>4 DEF view_render_instruction
<1> QED
  BY <1>1, <1>2, <1>3, <1>4

\* What partials may print.
PartialPrints(A, cx, partial) == \A call \in Calls(cx) : partial[call] \in Outputs(A)

\* An instruction prints over A.
LEMMA InstructionType ==
    ASSUME NEW A, NEW cx, IsData(cx.data), DataPrints(A, cx.data),
           NEW code \in Seq(Instructions(A)), NEW body \in Seq(A), NEW partial,
           PartialPrints(A, cx, partial), NEW run \in Runs(cx, code), run.index < run.end,
           NEW f, \A y \in Runs(cx, code) : Left(y) < Left(run) => f[y] \in Outputs(A)
    PROVE  LET output == view_render_instruction(cx, code, body, partial, run, f)
           IN  /\ output \in Outputs(A)
               /\ output.ok /\ code[run.index].type \in Sections =>
                     code[run.index].jump \in run.index + 1 .. run.end
<1>1. PICK part : part = code[run.index] /\ part \in Instructions(A)
  BY RunFields
<1>2. /\ part.type \in {"text", "var", "#", "^", ">", "yield"}
      /\ part.type = "text" => part.value \in Seq(A)
      /\ part.type = ">" => part.value \in Seq(AllSegments)
  BY <1>1 DEF Instructions
<1>3. run.scope \in Scopes(cx.data)
  BY RunFields
<1>4. PICK output : output = view_render_instruction(cx, code, body, partial, run, f)
  OBVIOUS
<1>5. CASE part.type \in {"#", "^"}
  <2>1. output = view_render_section(cx, code, run, f)
    BY <1>1, <1>4, <1>5 DEF view_render_instruction
  <2>2. output \in Outputs(A) /\ (output.ok => code[run.index].jump \in run.index + 1 .. run.end)
    BY <2>1, SectionType
  <2> QED
    BY <1>4, <2>2
<1>6. CASE part.type = ">"
  <2>1. [path |-> part.value, scope |-> run.scope] \in Calls(cx)
    BY <1>2, <1>3, <1>6 DEF Calls
  <2>2. output \in Outputs(A)
    BY <1>1, <1>4, <1>6, <2>1 DEF view_render_instruction, PartialPrints
  <2> QED
    BY <1>1, <1>4, <1>6, <2>2 DEF Sections
<1>7. CASE part.type \in {"text", "yield"}
  BY <1>1, <1>2, <1>7 DEF view_render_instruction, Outputs, Sections
<1>8. CASE part.type = "var"
  <2>1. Prints(A, view_resolve(cx.data, part.value, run.scope))
    BY <1>3, ResolvedFields
  <2>2. output \in Outputs(A)
    BY <1>1, <1>4, <1>8, <2>1, ValueRendered DEF view_render_instruction
  <2> QED
    BY <1>1, <1>4, <1>8, <2>2 DEF Sections
<1> QED
  BY <1>2, <1>5, <1>6, <1>7, <1>8

\* One run, by means of shorter ones.
RunRendered(cx, code, body, partial, run, render) ==
    IF run.index >= run.end THEN Html(<<>>)
    ELSE LET here == view_render_instruction(cx, code, body, partial, run, render)
         IN  IF here.ok THEN Joined(here, render[Rest(code, run)]) ELSE Failure

\* What a program, a body and partials have to be.
Printable(A, cx, code, body, partial) ==
    /\ IsData(cx.data) /\ DataPrints(A, cx.data)
    /\ code \in Seq(Instructions(A)) /\ body \in Seq(A) /\ PartialPrints(A, cx, partial)

\* A run prints over A.
LEMMA RunType ==
    ASSUME NEW A, NEW cx, NEW code, NEW body, NEW partial, Printable(A, cx, code, body, partial),
           NEW run \in Runs(cx, code),
           NEW f, \A y \in Runs(cx, code) : Left(y) < Left(run) => f[y] \in Outputs(A)
    PROVE  RunRendered(cx, code, body, partial, run, f) \in Outputs(A)
<1>1. CASE run.index >= run.end
  <2>1. <<>> \in Seq(A)
    OBVIOUS
  <2> QED
    BY <1>1, <2>1 DEF RunRendered, Outputs
<1>2. CASE ~(run.index >= run.end)
  <2>0. code \in Seq(Instructions(A))
    BY DEF Printable
  <2>1. run.index < run.end
    BY <1>2, <2>0, RunFields
  <2>2. PICK here : here = view_render_instruction(cx, code, body, partial, run, f)
    OBVIOUS
  <2>3. /\ here \in Outputs(A)
        /\ here.ok /\ code[run.index].type \in Sections =>
              code[run.index].jump \in run.index + 1 .. run.end
    BY <2>1, <2>2, InstructionType DEF Printable
  <2>4. CASE here.ok
    <3>1. f[Rest(code, run)] \in Outputs(A)
      BY <2>0, <2>1, <2>3, <2>4, RestShorter
    <3>2. Joined(here, f[Rest(code, run)]) \in Outputs(A)
      BY <2>3, <3>1, JoinedType
    <3> QED
      BY <1>2, <2>2, <2>4, <3>2 DEF RunRendered
  <2>5. CASE ~here.ok
    BY <1>2, <2>2, <2>5 DEF RunRendered, Outputs
  <2> QED
    BY <2>4, <2>5
<1> QED
  BY <1>1, <1>2

\* Partials that come out alike where a program names them.
SamePartials(cx, code, partial, another) ==
    \A call \in Calls(cx) : call.path \in Partials(code) => partial[call] = another[call]

\* A run needs no more than shorter ones, and of partials what it names.
LEMMA RunSame ==
    ASSUME NEW A, NEW cx, NEW other, other.data = cx.data,
           NEW code, NEW body, NEW partial, NEW another, Printable(A, cx, code, body, partial),
           NEW run \in Runs(cx, code),
           NEW f, NEW g, \A y \in Runs(cx, code) : Left(y) < Left(run) => f[y] = g[y],
           \A y \in Runs(cx, code) : Left(y) < Left(run) => f[y] \in Outputs(A),
           SamePartials(cx, code, partial, another)
    PROVE  RunRendered(cx, code, body, partial, run, f)
              = RunRendered(other, code, body, another, run, g)
<1>1. CASE run.index >= run.end
  BY <1>1 DEF RunRendered
<1>2. CASE ~(run.index >= run.end)
  <2>0. code \in Seq(Instructions(A))
    BY DEF Printable
  <2>1. run.index < run.end /\ run.index \in 1 .. Len(code) /\ code[run.index] \in Instructions(A)
    BY <1>2, <2>0, RunFields
  <2>2. PICK here : here = view_render_instruction(cx, code, body, partial, run, f)
    OBVIOUS
  <2>3. here.ok /\ code[run.index].type \in Sections =>
           code[run.index].jump \in run.index + 1 .. run.end
    BY <2>1, <2>2, InstructionType DEF Printable
  <2>4. PICK call : call = Called(code, run)
    OBVIOUS
  <2>5. code[run.index].type = ">" => partial[Called(code, run)] = another[Called(code, run)]
    <3>1. CASE code[run.index].type = ">"
      <4>1. code[run.index].value \in Seq(AllSegments)
        BY <2>1, <3>1 DEF Instructions
      <4>2. run.scope \in Scopes(cx.data)
        BY <2>0, RunFields
      <4>3. call \in Calls(cx) /\ call.path = code[run.index].value
        BY <2>4, <4>1, <4>2 DEF Calls, Called
      <4>4. run.index \in DOMAIN code
        BY <2>0, <2>1
      <4>5. call.path \in Partials(code)
        BY <3>1, <4>3, <4>4 DEF Partials
      <4> QED
        BY <2>4, <4>3, <4>5 DEF SamePartials
    <3> QED
      BY <3>1
  <2>6. here = view_render_instruction(other, code, body, another, run, g)
    <3>1. IsData(cx.data)
      BY DEF Printable
    <3>3. view_render_instruction(cx, code, body, partial, run, f)
             = view_render_instruction(other, code, body, another, run, g)
      BY <2>0, <2>1, <2>5, <3>1, InstructionSame
    <3> QED
      BY <2>2, <3>3
  <2>7. CASE here.ok
    <3>1. f[Rest(code, run)] = g[Rest(code, run)]
      BY <2>0, <2>1, <2>3, <2>7, RestShorter
    <3> QED
      BY <1>2, <2>2, <2>6, <2>7, <3>1 DEF RunRendered
  <2>8. CASE ~here.ok
    BY <1>2, <2>2, <2>6, <2>8 DEF RunRendered
  <2> QED
    BY <2>7, <2>8
<1> QED
  BY <1>1, <1>2

\* view_render_program renders every run, and prints over A.
LEMMA RenderDefined ==
    ASSUME NEW A, NEW cx, NEW code, NEW body, NEW partial, Printable(A, cx, code, body, partial)
    PROVE  \E render \in [Runs(cx, code) -> Outputs(A)] :
              /\ view_render_program(cx, code, body, partial) = render
              /\ \A run \in Runs(cx, code) :
                    render[run] = RunRendered(cx, code, body, partial, run, render)
<1>1. PICK N, D, V : N = Len(code) /\ D = Runs(cx, code) /\ V = Outputs(A)
  OBVIOUS
<1>2. N \in Nat /\ \A run \in D : Left(run) \in 0 .. N
  BY <1>1, RunFields DEF Printable
<1>3. PICK m \in [D -> 0 .. N] : \A run \in D : m[run] = Left(run)
  <2> DEFINE left == [run \in D |-> Left(run)]
  <2>1. left \in [D -> 0 .. N] /\ \A run \in D : left[run] = Left(run)
    BY <1>2
  <2> QED
    BY <2>1
<1> DEFINE IsRender(render) ==
              render = [run \in D |->
                 IF run.index >= run.end THEN Html(<<>>)
                 ELSE LET here == view_render_instruction(cx, code, body, partial, run, render)
                      IN  IF here.ok THEN Joined(here, render[Rest(code, run)]) ELSE Failure]
           IsRun(render) == render = [run \in D |-> RunRendered(cx, code, body, partial, run, render)]
<1>4. \A render : IsRender(render) <=> IsRun(render)
  BY DEF RunRendered
<1>5. view_render_program(cx, code, body, partial) = CHOOSE render : IsRender(render)
  BY <1>1 DEF view_render_program
<1> HIDE DEF IsRender
<1>6. \E render : IsRun(render)
  <2> DEFINE step == [f \in [D -> V] |-> [run \in D |-> RunRendered(cx, code, body, partial, run, f)]]
  <2>1. \A f \in [D -> V], run \in D : RunRendered(cx, code, body, partial, run, f) \in V
    BY <1>1, RunType
  <2>2. step \in [[D -> V] -> [D -> V]]
    BY <2>1
  <2>3. \A f \in [D -> V] : step[f] = [run \in D |-> RunRendered(cx, code, body, partial, run, f)]
    OBVIOUS
  <2>4. \A f \in [D -> V], run \in D : step[f][run] = RunRendered(cx, code, body, partial, run, f)
    OBVIOUS
  <2> HIDE DEF step
  <2>5. ASSUME NEW f \in [D -> V], NEW g \in [D -> V], NEW x \in D,
               \A y \in D : m[y] < m[x] => f[y] = g[y]
        PROVE  step[f][x] = step[g][x]
    <3>1. \A y \in Runs(cx, code) : Left(y) < Left(x) => f[y] = g[y] /\ f[y] \in Outputs(A)
      BY <1>1, <1>3, <2>5
    <3>2. PICK other, another : other = cx /\ another = partial
      OBVIOUS
    <3>3. SamePartials(cx, code, partial, another)
      BY <3>2 DEF SamePartials
    <3>4. other.data = cx.data /\ x \in Runs(cx, code)
      BY <1>1, <3>2
    <3>5. RunRendered(cx, code, body, partial, x, f) = RunRendered(other, code, body, another, x, g)
      BY <3>1, <3>3, <3>4, RunSame
    <3> QED
      BY <2>4, <3>2, <3>5
  <2>6. Failure \in V
    BY <1>1 DEF Outputs
  <2>8. Descends(step, D, V, m, N)
    BY <1>2, <2>2, <2>5, <2>6 DEF Descends
  <2>7. \E f \in [D -> V] : step[f] = f
    BY <2>8, MeasuredRecursion
  <2> QED
    BY <2>3, <2>7
<1>7. PICK render : IsRun(render) /\ view_render_program(cx, code, body, partial) = render
  <2>1. \E render : IsRender(render)
    BY <1>4, <1>6
  <2>2. IsRender(view_render_program(cx, code, body, partial))
    BY <1>5, <2>1
  <2> QED
    BY <1>4, <2>2
<1>8. \A run \in D : render[run] = RunRendered(cx, code, body, partial, run, render)
  BY <1>7
<1>9. render = [run \in D |-> render[run]]
  BY <1>7
<1> HIDE DEF IsRun
<1> DEFINE S == {run \in D : render[run] \in V}
<1>10. ASSUME NEW x \in D, \A y \in D : m[y] < m[x] => y \in S PROVE x \in S
  <2>1. \A y \in Runs(cx, code) : Left(y) < Left(x) => render[y] \in Outputs(A)
    BY <1>1, <1>3, <1>10
  <2>2. RunRendered(cx, code, body, partial, x, render) \in V
    BY <1>1, <2>1, RunType
  <2> QED
    BY <1>8, <2>2
<1>11. D \subseteq S
  <2> HIDE DEF S
  <2> QED
    BY <1>2, <1>10, MeasuredInduction
<1>12. render \in [D -> V]
  BY <1>9, <1>11
<1> QED
  BY <1>1, <1>7, <1>8, <1>12

\* The text of a source is over A.
SourcePrints(A, source) ==
    \A i \in DOMAIN source : source[i].kind = "text" => source[i].name \in Seq(A)

\* What the parser makes of such a source.
LEMMA ParsedPrints ==
    ASSUME NEW A, NEW source, IsSource(source), SourcePrints(A, source)
    PROVE  template_parse(source).code \in Seq(Instructions(A))
<1>1. ASSUME NEW i \in InstructionOf(source) PROVE i \in Instructions(A)
  <2>1. /\ i \in [type : TokenKinds, value : Seq(STRING), jump : Nat]
        /\ i.type \notin {"/", "empty", "unclosed"}
        /\ i.type = ">" => view_path_valid(i.value)
        /\ \E n \in DOMAIN source : source[n].kind = i.type /\ source[n].name = i.value
    BY <1>1 DEF InstructionOf
  <2>2. PICK value : value = i.value /\ value \in Seq(STRING)
    BY <2>1
  <2>3. view_path_valid(value) => value \in Seq(AllSegments)
    BY <2>2 DEF view_path_valid, ToSet
  <2>4. i.type \in {"text", "var", "#", "^", ">", "yield"}
    BY <2>1 DEF TokenKinds
  <2>5. i \in [type : {"text", "var", "#", "^", ">", "yield"}, value : Seq(STRING), jump : Nat]
    BY <2>1, <2>4
  <2>6. i.type = "text" => i.value \in Seq(A)
    BY <2>1 DEF SourcePrints
  <2> QED
    BY <2>1, <2>2, <2>3, <2>5, <2>6 DEF Instructions
<1>2. PICK I, code : I = InstructionOf(source) /\ code = template_parse(source).code /\ code \in Seq(I)
  BY ParsedCode DEF CodeOf
<1>3. I \subseteq Instructions(A)
  BY <1>1, <1>2
<1>4. code \in Seq(Instructions(A))
  BY <1>2, <1>3
<1> QED
  BY <1>2, <1>4

\* Whatever is found in a library prints over A.
LibraryPrints(A, lib) ==
    \A path : view_load(lib, path).result = "found" =>
                 view_load(lib, path).code \in Seq(Instructions(A))

\* A program from its beginning.
LEMMA WholeRun ==
    ASSUME NEW A, NEW cx, NEW code \in Seq(Instructions(A)), NEW scope \in Scopes(cx.data)
    PROVE  Whole(code, scope) \in Runs(cx, code)
<1>1. PICK N : N = Len(code) /\ N \in Nat
  OBVIOUS
<1>2. 1 \in 1 .. N + 1 /\ N + 1 \in 1 .. N + 1
  BY <1>1
<1> QED
  BY <1>1, <1>2 DEF Whole, Runs

\* A view, found or not.
LEMMA RenderedType ==
    ASSUME NEW A, NEW cx, NEW view, NEW scope \in Scopes(cx.data), NEW body, NEW partial,
           view.result = "found" => Printable(A, cx, view.code, body, partial)
    PROVE  Rendered(cx, view, scope, body, partial) \in Outputs(A)
<1>1. CASE view.result = "found"
  <2>1. PICK code : code = view.code /\ Printable(A, cx, code, body, partial)
    BY <1>1
  <2>2. PICK render \in [Runs(cx, code) -> Outputs(A)] :
           view_render_program(cx, code, body, partial) = render
    BY <2>1, RenderDefined
  <2>3. Whole(code, scope) \in Runs(cx, code)
    BY <2>1, WholeRun DEF Printable
  <2> QED
    BY <1>1, <2>1, <2>2, <2>3 DEF Rendered
<1>2. CASE view.result # "found"
  BY <1>2 DEF Rendered, Outputs
<1> QED
  BY <1>1, <1>2

\* A context whose pages print over A.
ContextPrints(A, cx) == IsData(cx.data) /\ DataPrints(A, cx.data) /\ LibraryPrints(A, cx.lib)

\* Partials, one level deeper each.
LEMMA NestedDefined ==
    ASSUME NEW A, NEW cx, ContextPrints(A, cx)
    PROVE  \E nested \in [0 .. MaxNesting -> [Calls(cx) -> Outputs(A)]] :
              /\ Nested(cx) = nested
              /\ \A call \in Calls(cx) : nested[0][call] = Failure
              /\ \A n \in 1 .. MaxNesting : \A call \in Calls(cx) :
                    nested[n][call] =
                       Rendered(cx, view_load(cx.lib, call.path), call.scope, NoBody, nested[n - 1])
<1>1. PICK N, E, V : N = MaxNesting /\ E = Calls(cx) /\ V = [E -> Outputs(A)]
  OBVIOUS
<1>2. N \in Nat
  BY <1>1, ViewAssumption, Zenon
<1> DEFINE Level(call, f) == Rendered(cx, view_load(cx.lib, call.path), call.scope, NoBody, f)
           Deeper(f) == [call \in E |-> Level(call, f)]
           first == [call \in E |-> Failure]
<1>3. first \in V
  BY <1>1 DEF Outputs
<1>4. ASSUME NEW f \in V PROVE Deeper(f) \in V
  <2>1. ASSUME NEW call \in E PROVE Level(call, f) \in Outputs(A)
    <3>1. call.scope \in Scopes(cx.data)
      BY <1>1 DEF Calls
    <3>2. PICK view : view = view_load(cx.lib, call.path)
      OBVIOUS
    <3>3. view.result = "found" => view.code \in Seq(Instructions(A))
      BY <3>2 DEF ContextPrints, LibraryPrints
    <3>4. NoBody \in Seq(A) /\ PartialPrints(A, cx, f)
      BY <1>1, <1>4 DEF NoBody, PartialPrints
    <3>5. view.result = "found" => Printable(A, cx, view.code, NoBody, f)
      BY <3>3, <3>4 DEF ContextPrints, Printable
    <3>6. Rendered(cx, view, call.scope, NoBody, f) \in Outputs(A)
      BY <3>1, <3>5, RenderedType
    <3> QED
      BY <3>2, <3>6
  <2> HIDE DEF Level
  <2> QED
    BY <1>1, <2>1
<1> DEFINE IsNested(nested) ==
              nested = [n \in 0 .. N |-> [call \in E |-> IF n = 0 THEN Failure ELSE Level(call, nested[n - 1])]]
           IsBody(nested) == nested = [n \in 0 .. N |-> IF n = 0 THEN first ELSE Deeper(nested[n - 1])]
<1>5. Nested(cx) = CHOOSE nested : IsNested(nested)
  BY <1>1 DEF Nested, Calls
<1>6. \A call \in E : first[call] = Failure
  OBVIOUS
<1>7. \A f : \A call \in E : Deeper(f)[call]
                = Rendered(cx, view_load(cx.lib, call.path), call.scope, NoBody, f)
  OBVIOUS
<1> HIDE DEF Level
<1>8. ASSUME NEW nested PROVE IsNested(nested) <=> IsBody(nested)
  <2> DEFINE body == [n \in 0 .. N |-> IF n = 0 THEN first ELSE Deeper(nested[n - 1])]
             flat == [n \in 0 .. N |-> [call \in E |-> IF n = 0 THEN Failure ELSE Level(call, nested[n - 1])]]
  <2>1. ASSUME NEW n \in 0 .. N PROVE body[n] = flat[n]
    <3>1. CASE n = 0
      BY <3>1
    <3>2. CASE n # 0
      BY <3>2
    <3> QED
      BY <3>1, <3>2
  <2>2. body = flat
    BY <2>1
  <2> QED
    BY <2>2
<1> HIDE DEF Deeper, first, IsNested
<1>9. \E nested : IsBody(nested)
  <2> DEFINE step == [n \in 1 .. N |-> [f \in V |-> Deeper(f)]]
  <2>1. step \in [1 .. N -> [V -> V]]
    BY <1>4
  <2>2. \A n \in 1 .. N : \A f \in V : step[n][f] = Deeper(f)
    OBVIOUS
  <2> HIDE DEF step
  <2>3. PICK base \in V : base = first
    BY <1>3
  <2>4. PICK g \in [0 .. N -> V] : Recursive(g, N, base, step)
    BY <1>2, <2>1, IntervalRecursion
  <2>5. \A n \in 1 .. N : g[n - 1] \in V
    BY <1>2
  <2>6. \A n \in 0 .. N : g[n] = IF n = 0 THEN first ELSE Deeper(g[n - 1])
    BY <1>2, <2>2, <2>3, <2>4, <2>5 DEF Recursive
  <2>7. g = [n \in 0 .. N |-> IF n = 0 THEN first ELSE Deeper(g[n - 1])]
    <3> DEFINE h == [n \in 0 .. N |-> IF n = 0 THEN first ELSE Deeper(g[n - 1])]
    <3>1. \A n \in 0 .. N : g[n] = h[n]
      BY <2>6
    <3> QED
      BY <2>4, <3>1
  <2> QED
    BY <2>7
<1>10. PICK nested : IsBody(nested) /\ Nested(cx) = nested
  <2>1. \E nested : IsNested(nested)
    BY <1>8, <1>9
  <2>2. IsNested(Nested(cx))
    BY <1>5, <2>1
  <2> QED
    BY <1>8, <2>2
<1>11. nested[0] = first /\ \A n \in 1 .. N : nested[n] = Deeper(nested[n - 1])
  <2>1. nested = [n \in 0 .. N |-> IF n = 0 THEN first ELSE Deeper(nested[n - 1])]
    BY <1>10
  <2>2. nested[0] = first
    BY <1>2, <2>1
  <2>3. ASSUME NEW n \in 1 .. N PROVE nested[n] = Deeper(nested[n - 1])
    <3>1. n \in 0 .. N /\ n # 0
      BY <1>2
    <3> QED
      BY <2>1, <3>1
  <2> QED
    BY <2>2, <2>3
<1>12. nested = [n \in 0 .. N |-> nested[n]]
  BY <1>10
<1> HIDE DEF IsBody
<1>13. nested \in [0 .. N -> V]
  <2>1. nested[0] \in V /\ \A n \in 1 .. N : nested[n - 1] \in V => nested[n] \in V
    BY <1>3, <1>4, <1>11
  <2> QED
    BY <1>2, <1>12, <2>1, RecursionType
<1>14. \A call \in E : nested[0][call] = Failure
  BY <1>6, <1>11
<1>15. \A n \in 1 .. N : \A call \in E : nested[n][call]
          = Rendered(cx, view_load(cx.lib, call.path), call.scope, NoBody, nested[n - 1])
  BY <1>7, <1>11
<1> QED
  BY <1>1, <1>10, <1>13, <1>14, <1>15

\* What becomes of a partial.
LEMMA PartialType ==
    ASSUME NEW A, NEW cx, ContextPrints(A, cx)
    PROVE  PartialPrints(A, cx, view_render_partial(cx))
<1>1. PICK nested \in [0 .. MaxNesting -> [Calls(cx) -> Outputs(A)]] : Nested(cx) = nested
  BY NestedDefined
<1>2. MaxNesting \in 0 .. MaxNesting
  <2>1. MaxNesting \in Nat
    BY ViewAssumption, Zenon
  <2> QED
    BY <2>1
<1> QED
  BY <1>1, <1>2 DEF view_render_partial, PartialPrints

\* A page, and a page in its layout.
LEMMA WholeType ==
    ASSUME NEW A, NEW cx, ContextPrints(A, cx), NEW path, NEW body \in Seq(A)
    PROVE  WholeView(cx, view_load(cx.lib, path), body) \in Outputs(A)
<1>1. PICK view : view = view_load(cx.lib, path)
  OBVIOUS
<1>2. view.result = "found" => view.code \in Seq(Instructions(A))
  BY <1>1 DEF ContextPrints, LibraryPrints
<1>3. PICK partial : partial = view_render_partial(cx) /\ PartialPrints(A, cx, partial)
  BY PartialType
<1>4. NoRecord \in Scopes(cx.data)
  BY DEF Scopes
<1>5. view.result = "found" => Printable(A, cx, view.code, body, partial)
  BY <1>2, <1>3 DEF ContextPrints, Printable
<1>6. Rendered(cx, view, NoRecord, body, partial) \in Outputs(A)
  BY <1>4, <1>5, RenderedType
<1> QED
  BY <1>1, <1>3, <1>6 DEF WholeView

\* The text of an output.
LEMMA OutputText == ASSUME NEW A, NEW output \in Outputs(A) PROVE output.html \in Seq(A) /\ output.ok \in BOOLEAN
<1>1. CASE output = Failure
  BY <1>1 DEF Failure
<1>2. ASSUME NEW text \in Seq(A), output = Html(text) PROVE output.html \in Seq(A) /\ output.ok \in BOOLEAN
  BY <1>2 DEF Html
<1> QED
  BY <1>1, <1>2 DEF Outputs

\* The response to a request prints over A.
LEMMA ResponseType ==
    ASSUME NEW A, NEW cx, ContextPrints(A, cx), NEW path, NEW status
    PROVE  render_status(cx, path, status).html \in Seq(A)
<1>1. NoBody \in Seq(A) /\ <<>> \in Seq(A)
  BY DEF NoBody
<1>2. PICK page : page = WholeView(cx, view_load(cx.lib, path), NoBody) /\ page \in Outputs(A)
  BY <1>1, WholeType
<1>3. PICK output : output = view_render_with_layout(cx, path) /\ output \in Outputs(A)
  <2>1. CASE ~page.ok \/ view_load(cx.lib, Layout).result = "missing"
    BY <1>2, <2>1 DEF view_render_with_layout, InLayout
  <2>2. CASE page.ok /\ view_load(cx.lib, Layout).result # "missing"
    <3>1. page.html \in Seq(A)
      BY <1>2, OutputText
    <3>2. WholeView(cx, view_load(cx.lib, Layout), page.html) \in Outputs(A)
      BY <3>1, WholeType
    <3> QED
      BY <1>2, <2>2, <3>2 DEF view_render_with_layout, InLayout
  <2> QED
    BY <2>1, <2>2
<1>4. output.html \in Seq(A)
  BY <1>3, OutputText
<1> QED
  BY <1>1, <1>3, <1>4 DEF render_status, Response, ErrorPage

-----------------------------------------------------------------------------
(* Names.                                                                  *)

\* A mark is taken off once.
LEMMA UnmarkedFields ==
    ASSUME NEW s \in AllSegments
    PROVE  /\ Unmarked(s) \in Segments /\ (s = Unmarked(s) \/ s = Marked(Unmarked(s)))
           /\ s \in Segments => Unmarked(s) = s
<1>1. CASE s \in Segments
  <2>1. ~\E t \in Segments : s = Marked(t)
    BY <1>1, TemplateAssumption, Zenon
  <2> QED
    BY <1>1, <2>1 DEF Unmarked
<1>2. CASE s \notin Segments
  <2>1. \E t \in Segments : s = Marked(t)
    BY <1>2 DEF AllSegments
  <2>2. Unmarked(s) = CHOOSE t \in Segments : s = Marked(t)
    BY <2>1 DEF Unmarked
  <2> QED
    BY <1>2, <2>1, <2>2
<1> QED
  BY <1>1, <1>2

\* What is not a name of a file stays none.
LEMMA UnmarkedForeign == ASSUME NEW s, Unmarked(s) \in AllSegments PROVE Unmarked(s) \in Segments /\ s \in AllSegments
<1>1. CASE \E t \in Segments : s = Marked(t)
  <2>1. Unmarked(s) \in Segments
    BY <1>1 DEF Unmarked
  <2> QED
    BY <1>1, <2>1 DEF AllSegments
<1>2. CASE ~\E t \in Segments : s = Marked(t)
  BY <1>2 DEF Unmarked, AllSegments
<1> QED
  BY <1>1, <1>2

\* The logical name of a file.
LEMMA LogicalName ==
    ASSUME NEW path \in Seq(STRING), view_path_valid(compiler_logical_name(path))
    PROVE  /\ path # <<>> /\ path \in Seq(AllSegments)
           /\ compiler_logical_name(path) \in Seq(Segments)
           /\ Len(compiler_logical_name(path)) = Len(path)
           /\ \A i \in 1 .. Len(path) : compiler_logical_name(path)[i] = Unmarked(path[i])
<1>1. PICK name : name = [i \in DOMAIN path |-> Unmarked(path[i])]
  OBVIOUS
<1>2. compiler_logical_name(path) = name
  BY <1>1 DEF compiler_logical_name
<1>3. Len(path) \in Nat /\ DOMAIN path = 1 .. Len(path) /\ DOMAIN name = 1 .. Len(path)
  BY <1>1
<1>4. \A i \in 1 .. Len(path) : name[i] = Unmarked(path[i])
  BY <1>1, <1>3
<1>5. \A i \in 1 .. Len(path) : name[i] \in AllSegments
  <2>1. ToSet(name) \subseteq AllSegments
    BY <1>2 DEF view_path_valid
  <2> QED
    BY <1>3, <2>1 DEF ToSet
<1>6. \A i \in 1 .. Len(path) : name[i] \in Segments /\ path[i] \in AllSegments
  BY <1>4, <1>5, UnmarkedForeign
<1>7. name = [i \in 1 .. Len(path) |-> name[i]]
  BY <1>1, <1>3
<1>8. name \in Seq(Segments) /\ Len(name) = Len(path)
  BY <1>3, <1>6, <1>7
<1>9. path \in Seq(AllSegments)
  BY <1>3, <1>6
<1>10. path # <<>>
  <2>1. name # <<>>
    BY <1>2 DEF view_path_valid
  <2> QED
    BY <1>1, <2>1
<1> QED
  BY <1>2, <1>4, <1>8, <1>9, <1>10

\* A name without marks is its own.
LEMMA PlainName ==
    ASSUME NEW path \in Seq(Segments)
    PROVE  compiler_logical_name(path) = path /\ (path # <<>> => view_path_valid(path))
<1>1. Len(path) \in Nat /\ DOMAIN path = 1 .. Len(path) /\ \A i \in 1 .. Len(path) : path[i] \in Segments
  OBVIOUS
<1>2. \A i \in 1 .. Len(path) : path[i] \in AllSegments /\ Unmarked(path[i]) = path[i]
  <2>1. \A i \in 1 .. Len(path) : path[i] \in AllSegments
    BY <1>1 DEF AllSegments
  <2> QED
    BY <1>1, <2>1, UnmarkedFields
<1>3. compiler_logical_name(path) = path
  <2>1. [i \in DOMAIN path |-> Unmarked(path[i])] = [i \in DOMAIN path |-> path[i]]
    BY <1>1, <1>2
  <2>2. path = [i \in DOMAIN path |-> path[i]]
    OBVIOUS
  <2> QED
    BY <2>1, <2>2 DEF compiler_logical_name
<1> QED
  BY <1>1, <1>2, <1>3 DEF view_path_valid, ToSet

\* The last part of a name.
LEMMA LastPart ==
    ASSUME NEW S, NEW s \in Seq(S), s # <<>>, NEW x
    PROVE  /\ Len(s) \in Nat \ {0} /\ Len(Append(Front(s), x)) = Len(s)
           /\ Append(Front(s), x)[Len(s)] = x /\ s[Len(s)] = Last(s)
           /\ \A i \in 1 .. Len(s) - 1 : Append(Front(s), x)[i] = s[i]
           /\ DOMAIN Append(Front(s), x) = 1 .. Len(s)
<1>1. PICK T : T = S \cup {x}
  OBVIOUS
<1>2. s \in Seq(T)
  BY <1>1
<1>3. PICK front : front = Front(s) /\ front \in Seq(T) /\ Len(front) = Len(s) - 1
                   /\ \A i \in 1 .. Len(s) - 1 : front[i] = s[i]
  BY <1>2, FrontFields
<1>4. Len(s) \in Nat \ {0} /\ Last(s) = s[Len(s)]
  BY DEF Last
<1>5. PICK longer : longer = Append(front, x)
  OBVIOUS
<1>6. x \in T
  BY <1>1
<1>7. /\ Len(longer) = Len(front) + 1 /\ DOMAIN longer = 1 .. Len(front) + 1
      /\ longer[Len(front) + 1] = x /\ \A i \in 1 .. Len(front) : longer[i] = front[i]
  BY <1>3, <1>5, <1>6, AppendFields
<1>8. Len(front) + 1 = Len(s)
  BY <1>3, <1>4
<1> QED
  BY <1>3, <1>4, <1>5, <1>7, <1>8

\* A file marked as a partial has the logical name of the partial.
LEMMA PartialFile ==
    ASSUME NEW path \in Seq(Segments), path # <<>>
    PROVE  compiler_logical_name(PartialName(path)) = path
<1>1. PICK n, last, marked : /\ n = Len(path) /\ last = Last(path) /\ marked = PartialName(path)
  OBVIOUS
<1>2. /\ n \in Nat \ {0} /\ DOMAIN marked = 1 .. n /\ marked[n] = Marked(last)
      /\ path[n] = last /\ \A i \in 1 .. n - 1 : marked[i] = path[i]
  BY <1>1, LastPart DEF PartialName
<1>3. \A i \in 1 .. n : path[i] \in Segments
  BY <1>1
<1>4. Unmarked(Marked(last)) = last
  <2>1. last \in Segments
    BY <1>2, <1>3
  <2>2. PICK s : s = Marked(last)
    OBVIOUS
  <2>3. s \in AllSegments /\ s \notin Segments
    BY <2>1, <2>2, TemplateAssumption, Zenon DEF AllSegments
  <2>4. s = Marked(Unmarked(s)) /\ Unmarked(s) \in Segments
    BY <2>3, UnmarkedFields
  <2> QED
    BY <2>1, <2>2, <2>4, TemplateAssumption, Zenon
<1>5. \A i \in 1 .. n : Unmarked(marked[i]) = path[i]
  <2>1. ASSUME NEW i \in 1 .. n PROVE Unmarked(marked[i]) = path[i]
    <3>1. CASE i = n
      BY <1>2, <1>4, <3>1
    <3>2. CASE i # n
      <4>1. i \in 1 .. n - 1
        BY <1>2, <3>2
      <4>2. path[i] \in Segments /\ path[i] \in AllSegments
        BY <1>3 DEF AllSegments
      <4> QED
        BY <1>2, <4>1, <4>2, UnmarkedFields
    <3> QED
      BY <3>1, <3>2
  <2> QED
    BY <2>1
<1>6. [i \in DOMAIN marked |-> Unmarked(marked[i])] = [i \in DOMAIN path |-> path[i]]
  BY <1>1, <1>2, <1>5
<1>7. path = [i \in DOMAIN path |-> path[i]]
  OBVIOUS
<1> QED
  BY <1>1, <1>6, <1>7 DEF compiler_logical_name

\* In plain directories a name has no other files.
LEMMA FilesOfName ==
    ASSUME NEW path \in Seq(STRING), view_path_valid(compiler_logical_name(path)),
           compiler_logical_name(Front(path)) = Front(path)
    PROVE  path \in {compiler_logical_name(path), PartialName(compiler_logical_name(path))}
<1>1. PICK n, name : n = Len(path) /\ name = compiler_logical_name(path)
  OBVIOUS
<1>2. /\ path # <<>> /\ path \in Seq(AllSegments) /\ name \in Seq(Segments) /\ Len(name) = n
      /\ \A i \in 1 .. n : name[i] = Unmarked(path[i])
  BY <1>1, LogicalName
<1>3. n \in Nat \ {0} /\ name # <<>> /\ DOMAIN path = 1 .. n /\ DOMAIN name = 1 .. n
  BY <1>1, <1>2
<1>4. \A i \in 1 .. n - 1 : name[i] = path[i]
  <2>1. PICK front : front = Front(path) /\ DOMAIN front = 1 .. n - 1
                     /\ \A i \in 1 .. n - 1 : front[i] = path[i]
    BY <1>1, <1>2, FrontFields
  <2>2. [i \in DOMAIN front |-> Unmarked(front[i])] = front
    BY <2>1 DEF compiler_logical_name
  <2>3. \A i \in DOMAIN front : Unmarked(front[i]) = front[i]
    BY <2>2
  <2> QED
    BY <1>2, <1>3, <2>1, <2>3
<1>5. path = [i \in 1 .. n |-> path[i]] /\ name = [i \in 1 .. n |-> name[i]]
  BY <1>2, <1>3
<1>6. path[n] = name[n] \/ path[n] = Marked(name[n])
  <2>1. path[n] \in AllSegments /\ name[n] = Unmarked(path[n])
    BY <1>2, <1>3
  <2> QED
    BY <2>1, UnmarkedFields
<1>7. CASE path[n] = name[n]
  <2>1. \A i \in 1 .. n : path[i] = name[i]
    BY <1>3, <1>4, <1>7
  <2>2. [i \in 1 .. n |-> path[i]] = [i \in 1 .. n |-> name[i]]
    BY <2>1
  <2> QED
    BY <1>1, <1>5, <2>2
<1>8. CASE path[n] = Marked(name[n])
  <2>1. PICK marked : marked = PartialName(name)
    OBVIOUS
  <2>2. /\ DOMAIN marked = 1 .. n /\ marked[n] = Marked(name[n])
        /\ \A i \in 1 .. n - 1 : marked[i] = name[i]
    <3>1. PICK last, mark : last = Last(name) /\ mark = Marked(last)
      OBVIOUS
    <3>2. marked = Append(Front(name), mark)
      BY <2>1, <3>1 DEF PartialName
    <3>3. PICK front : front = Front(name)
      OBVIOUS
    <3>4. name[n] = last
      BY <1>2, <1>3, <3>1, LastPart
    <3>5. Len(front) = n - 1 /\ \A i \in 1 .. n - 1 : front[i] = name[i]
      BY <1>2, <1>3, <3>3, FrontFields
    <3>6. front \in Seq(Segments)
      BY <1>2, <1>3, <3>3, FrontFields
    <3>7. marked = Append(front, mark)
      BY <3>2, <3>3
    <3>8. DOMAIN marked = 1 .. n /\ marked[n] = mark /\ \A i \in 1 .. n - 1 : marked[i] = front[i]
      BY <1>3, <3>5, <3>6, <3>7
    <3> QED
      BY <3>1, <3>4, <3>5, <3>8
  <2>3. \A i \in 1 .. n : path[i] = marked[i]
    BY <1>3, <1>4, <1>8, <2>2
  <2>4. marked = [i \in 1 .. n |-> marked[i]]
    <3>1. marked \in Seq(Segments \cup {Marked(Last(name))})
      <4>1. PICK S : S = Segments \cup {Marked(Last(name))}
        OBVIOUS
      <4>2. name \in Seq(S) /\ Marked(Last(name)) \in S
        BY <1>2, <4>1
      <4>3. Front(name) \in Seq(S)
        BY <1>3, <4>2, FrontFields
      <4>4. Append(Front(name), Marked(Last(name))) \in Seq(S)
        BY <4>2, <4>3
      <4> QED
        BY <2>1, <4>1, <4>4 DEF PartialName
    <3> QED
      BY <2>2, <3>1
  <2>5. [i \in 1 .. n |-> path[i]] = [i \in 1 .. n |-> marked[i]]
    BY <2>3
  <2> QED
    BY <1>1, <1>5, <2>1, <2>4, <2>5
<1> QED
  BY <1>6, <1>7, <1>8

\* What makes a view render alike with either partials.
PrintsAlike(A, cx, other, view, body, partial, another) ==
    view.result = "found" =>
       /\ Printable(A, cx, view.code, body, partial)
       /\ Printable(A, other, view.code, body, another)
       /\ SamePartials(cx, view.code, partial, another)

\* A program renders alike wherever its partials do.
LEMMA RenderedSame ==
    ASSUME NEW A, NEW cx, NEW other, other.data = cx.data, NEW view,
           NEW scope \in Scopes(cx.data), NEW body, NEW partial, NEW another,
           PrintsAlike(A, cx, other, view, body, partial, another)
    PROVE  Rendered(cx, view, scope, body, partial) = Rendered(other, view, scope, body, another)
<1>1. CASE view.result # "found"
  BY <1>1 DEF Rendered
<1>2. CASE view.result = "found"
  <2>1. PICK code : /\ code = view.code /\ Printable(A, cx, code, body, partial)
                    /\ Printable(A, other, code, body, another)
    BY <1>2 DEF PrintsAlike
  <2>2. SamePartials(cx, code, partial, another)
    BY <1>2, <2>1 DEF PrintsAlike
  <2>3. PICK f \in [Runs(cx, code) -> Outputs(A)] :
           /\ view_render_program(cx, code, body, partial) = f
           /\ \A run \in Runs(cx, code) : f[run] = RunRendered(cx, code, body, partial, run, f)
    BY <2>1, RenderDefined
  <2>4. PICK g \in [Runs(other, code) -> Outputs(A)] :
           /\ view_render_program(other, code, body, another) = g
           /\ \A run \in Runs(other, code) : g[run] = RunRendered(other, code, body, another, run, g)
    BY <2>1, RenderDefined
  <2>5. PICK D : D = Runs(cx, code) /\ D = Runs(other, code)
    BY DEF Runs
  <2>6. PICK N : N = Len(code) /\ N \in Nat /\ \A run \in D : Left(run) \in 0 .. N
    BY <2>1, <2>5, RunFields DEF Printable
  <2>7. PICK m \in [D -> 0 .. N] : \A run \in D : m[run] = Left(run)
    <3> DEFINE left == [run \in D |-> Left(run)]
    <3>1. left \in [D -> 0 .. N] /\ \A run \in D : left[run] = Left(run)
      BY <2>6
    <3> QED
      BY <3>1
  <2> DEFINE S == {run \in D : f[run] = g[run]}
  <2>8. ASSUME NEW x \in D, \A y \in D : m[y] < m[x] => y \in S PROVE x \in S
    <3>1. \A y \in Runs(cx, code) : Left(y) < Left(x) => f[y] = g[y]
      BY <2>5, <2>7, <2>8
    <3>2. \A y \in Runs(cx, code) : Left(y) < Left(x) => f[y] \in Outputs(A)
      BY <2>3
    <3>3. x \in Runs(cx, code)
      BY <2>5
    <3>4. RunRendered(cx, code, body, partial, x, f) = RunRendered(other, code, body, another, x, g)
      BY <2>1, <2>2, <3>1, <3>2, <3>3, RunSame
    <3> QED
      BY <2>3, <2>4, <2>5, <3>4
  <2>9. D \subseteq S
    <3> HIDE DEF S
    <3> QED
      BY <2>6, <2>8, MeasuredInduction
  <2>10. Whole(code, scope) \in D
    BY <2>1, <2>5, WholeRun DEF Printable
  <2>11. f[Whole(code, scope)] = g[Whole(code, scope)]
    BY <2>9, <2>10
  <2> QED
    BY <1>2, <2>1, <2>3, <2>4, <2>11 DEF Rendered
<1> QED
  BY <1>1, <1>2

\* Where an accepted name is found among the files, and what under.
Alike(lib, other, names) ==
    \A path \in names :
       /\ view_load(lib, path) = view_load(other, path)
       /\ view_load(lib, path).result = "found" => Partials(view_load(lib, path).code) \subseteq names

\* So do partials, however deep.
LEMMA PartialsSame ==
    ASSUME NEW A, NEW cx, NEW other, other.data = cx.data, ContextPrints(A, cx),
           ContextPrints(A, other), NEW names, Alike(cx.lib, other.lib, names)
    PROVE  \A call \in Calls(cx) : call.path \in names =>
              view_render_partial(cx)[call] = view_render_partial(other)[call]
<1>1. PICK N, E : N = MaxNesting /\ E = Calls(cx) /\ E = Calls(other)
  BY DEF Calls
<1>2. N \in Nat
  BY <1>1, ViewAssumption, Zenon
<1>9. \E f \in [0 .. MaxNesting -> [Calls(cx) -> Outputs(A)]] :
         /\ Nested(cx) = f /\ \A call \in Calls(cx) : f[0][call] = Failure
         /\ \A n \in 1 .. MaxNesting : \A call \in Calls(cx) : f[n][call] =
               Rendered(cx, view_load(cx.lib, call.path), call.scope, NoBody, f[n - 1])
  BY NestedDefined
<1>10. \E f \in [0 .. MaxNesting -> [Calls(other) -> Outputs(A)]] :
         /\ Nested(other) = f /\ \A call \in Calls(other) : f[0][call] = Failure
         /\ \A n \in 1 .. MaxNesting : \A call \in Calls(other) : f[n][call] =
               Rendered(other, view_load(other.lib, call.path), call.scope, NoBody, f[n - 1])
  BY NestedDefined
<1>3. PICK f \in [0 .. N -> [E -> Outputs(A)]] :
         /\ Nested(cx) = f /\ \A call \in E : f[0][call] = Failure
         /\ \A n \in 1 .. N : \A call \in E : f[n][call] =
               Rendered(cx, view_load(cx.lib, call.path), call.scope, NoBody, f[n - 1])
  BY <1>1, <1>9
<1>4. PICK g \in [0 .. N -> [E -> Outputs(A)]] :
         /\ Nested(other) = g /\ \A call \in E : g[0][call] = Failure
         /\ \A n \in 1 .. N : \A call \in E : g[n][call] =
               Rendered(other, view_load(other.lib, call.path), call.scope, NoBody, g[n - 1])
  BY <1>1, <1>10
<1> DEFINE S == {n \in 0 .. N : \A call \in E : call.path \in names => f[n][call] = g[n][call]}
<1>5. 0 \in S
  BY <1>2, <1>3, <1>4
<1>6. ASSUME NEW n \in 0 .. N - 1, n \in S PROVE n + 1 \in S
  <2>1. n + 1 \in 1 .. N /\ (n + 1) - 1 = n /\ n \in 0 .. N /\ n + 1 \in 0 .. N
    BY <1>2
  <2>2. PICK p, q : p = f[n] /\ q = g[n] /\ p \in [E -> Outputs(A)] /\ q \in [E -> Outputs(A)]
    BY <2>1
  <2>3. \A call \in E : call.path \in names => p[call] = q[call]
    BY <1>6, <2>2
  <2>4. ASSUME NEW call \in E, call.path \in names PROVE f[n + 1][call] = g[n + 1][call]
    <3>1. PICK view : view = view_load(cx.lib, call.path) /\ view = view_load(other.lib, call.path)
      BY <2>4 DEF Alike
    <3>2. view.result = "found" => /\ Partials(view.code) \subseteq names
                                   /\ view.code \in Seq(Instructions(A))
      BY <2>4, <3>1 DEF Alike, ContextPrints, LibraryPrints
    <3>3. NoBody \in Seq(A)
      BY DEF NoBody
    <3>6. PartialPrints(A, cx, p) /\ PartialPrints(A, other, q)
      BY <1>1, <2>2 DEF PartialPrints
    <3>7. PICK scope \in Scopes(cx.data) : scope = call.scope
      BY <1>1 DEF Calls
    <3>8. view.result = "found" =>
             Printable(A, cx, view.code, NoBody, p) /\ Printable(A, other, view.code, NoBody, q)
      BY <3>2, <3>3, <3>6 DEF ContextPrints, Printable
    <3>9. view.result = "found" => SamePartials(cx, view.code, p, q)
      BY <1>1, <2>3, <3>2 DEF SamePartials
    <3>11. PrintsAlike(A, cx, other, view, NoBody, p, q)
      BY <3>8, <3>9 DEF PrintsAlike
    <3>10. Rendered(cx, view, scope, NoBody, p) = Rendered(other, view, scope, NoBody, q)
      BY <3>11, RenderedSame
    <3>5. Rendered(cx, view, call.scope, NoBody, p) = Rendered(other, view, call.scope, NoBody, q)
      BY <3>7, <3>10
    <3>12. f[n + 1][call] = Rendered(cx, view, call.scope, NoBody, p)
      BY <1>3, <2>1, <2>2, <3>1
    <3>13. g[n + 1][call] = Rendered(other, view, call.scope, NoBody, q)
      BY <1>4, <2>1, <2>2, <3>1
    <3> QED
      BY <3>5, <3>12, <3>13
  <2> QED
    BY <2>1, <2>4
<1>7. 0 .. N \subseteq S
  <2> HIDE DEF S
  <2> QED
    BY <1>2, <1>5, <1>6, IntervalInduction
<1>8. N \in S
  BY <1>2, <1>7
<1> QED
  BY <1>1, <1>3, <1>4, <1>8 DEF view_render_partial

\* So does a page, alone and in its layout.
LEMMA ViewsSame ==
    ASSUME NEW A, NEW cx, NEW other, other.data = cx.data, ContextPrints(A, cx),
           ContextPrints(A, other), NEW names, Alike(cx.lib, other.lib, names),
           NEW path \in names, NEW body \in Seq(A)
    PROVE  WholeView(cx, view_load(cx.lib, path), body) = WholeView(other, view_load(other.lib, path), body)
<1>1. PICK view : view = view_load(cx.lib, path) /\ view = view_load(other.lib, path)
  BY DEF Alike
<1>2. PICK p, q : /\ p = view_render_partial(cx) /\ q = view_render_partial(other)
                  /\ PartialPrints(A, cx, p) /\ PartialPrints(A, other, q)
  BY PartialType
<1>3. \A call \in Calls(cx) : call.path \in names => p[call] = q[call]
  BY <1>2, PartialsSame
<1>4. view.result = "found" => /\ Partials(view.code) \subseteq names
                               /\ view.code \in Seq(Instructions(A))
  BY <1>1 DEF Alike, ContextPrints, LibraryPrints
<1>5. NoRecord \in Scopes(cx.data)
  BY DEF Scopes
<1>6. PrintsAlike(A, cx, other, view, body, p, q)
  <2>1. view.result = "found" => Printable(A, cx, view.code, body, p) /\ Printable(A, other, view.code, body, q)
    BY <1>2, <1>4 DEF ContextPrints, Printable
  <2>2. view.result = "found" => SamePartials(cx, view.code, p, q)
    BY <1>3, <1>4 DEF SamePartials
  <2> QED
    BY <2>1, <2>2 DEF PrintsAlike
<1>7. Rendered(cx, view, NoRecord, body, p) = Rendered(other, view, NoRecord, body, q)
  BY <1>5, <1>6, RenderedSame
<1> QED
  BY <1>1, <1>2, <1>7 DEF WholeView

\* And so does a request.
LEMMA ResponsesSame ==
    ASSUME NEW A, NEW cx, NEW other, other.data = cx.data, ContextPrints(A, cx),
           ContextPrints(A, other), NEW names, Alike(cx.lib, other.lib, names),
           NEW path \in names, Layout \in names, NEW status
    PROVE  /\ render_status(cx, path, status) = render_status(other, path, status)
           /\ render_without_layout(cx, path) = render_without_layout(other, path)
<1>1. NoBody \in Seq(A)
  BY DEF NoBody
<1>8. WholeView(cx, view_load(cx.lib, path), NoBody) = WholeView(other, view_load(other.lib, path), NoBody)
  BY <1>1, ViewsSame
<1>9. WholeView(cx, view_load(cx.lib, path), NoBody) \in Outputs(A)
  BY <1>1, WholeType
<1>2. PICK page : /\ page = WholeView(cx, view_load(cx.lib, path), NoBody)
                  /\ page = WholeView(other, view_load(other.lib, path), NoBody)
                  /\ page \in Outputs(A)
  BY <1>8, <1>9
<1>3. PICK layout : layout = view_load(cx.lib, Layout) /\ layout = view_load(other.lib, Layout)
  BY DEF Alike
<1>4. page.html \in Seq(A)
  BY <1>2, OutputText
<1>5. WholeView(cx, layout, page.html) = WholeView(other, layout, page.html)
  <2>1. PICK body \in Seq(A) : body = page.html
    BY <1>4
  <2>2. PICK place \in names : place = Layout
    OBVIOUS
  <2>3. WholeView(cx, view_load(cx.lib, place), body) = WholeView(other, view_load(other.lib, place), body)
    BY ViewsSame
  <2> QED
    BY <1>3, <2>1, <2>2, <2>3
<1>6. InLayout(cx, page, layout) = InLayout(other, page, layout)
  BY <1>5 DEF InLayout
<1>7. view_render_with_layout(cx, path) = view_render_with_layout(other, path)
  BY <1>2, <1>3, <1>6 DEF view_render_with_layout
<1> QED
  BY <1>2, <1>7 DEF render_status, render_without_layout

-----------------------------------------------------------------------------
(* Libraries.                                                              *)

\* Files whose text is over A.
FilesPrint(A, site) ==
    \A path \in DOMAIN site : IsSource(site[path]) /\ SourcePrints(A, site[path])

\* Any text is one of strings.
LEMMA SourceStrings == ASSUME NEW source, IsSource(source) PROVE SourcePrints(STRING, source)
<1>1. PICK T : T = [kind : TokenKinds, name : Seq(STRING)]
  OBVIOUS
<1>2. source \in Seq(T)
  BY <1>1 DEF IsSource
<1>3. \A i \in DOMAIN source : source[i] \in T
  BY <1>2
<1>4. \A i \in DOMAIN source : source[i].name \in Seq(STRING)
  BY <1>1, <1>3
<1> QED
  BY <1>4 DEF SourcePrints

\* A discreet text is without what a content is told by.
LEMMA SourceDiscreet ==
    ASSUME NEW source, IsSource(source), Discreet(source)
    PROVE  SourcePrints(STRING \ Private, source)
<1> SUFFICES ASSUME NEW i \in DOMAIN source, source[i].kind = "text"
             PROVE  source[i].name \in Seq(STRING \ Private)
  BY DEF SourcePrints
<1>1. PICK text : text = source[i].name /\ text \in Seq(STRING) /\ ToSet(text) \cap Private = {}
  BY SourceStrings DEF SourcePrints, Discreet
<1>2. DOMAIN text = 1 .. Len(text) /\ \A n \in 1 .. Len(text) : text[n] \in STRING
  BY <1>1
<1>3. \A n \in 1 .. Len(text) : text[n] \notin Private
  BY <1>1, <1>2 DEF ToSet
<1>4. PICK A : A = STRING \ Private
  OBVIOUS
<1>5. \A n \in 1 .. Len(text) : text[n] \in A
  BY <1>2, <1>3, <1>4
<1>6. text \in Seq(A)
  BY <1>1, <1>5
<1> QED
  BY <1>1, <1>4, <1>6

\* The programs of such files, compiled.
LEMMA TranslatedPrints ==
    ASSUME NEW A, NEW found, FilesPrint(A, found)
    PROVE  \A name \in DOMAIN Translated(found) : Translated(found)[name] \in Seq(Instructions(A))
<1> DEFINE File(name) == CHOOSE p \in DOMAIN found : compiler_logical_name(p) = name
<1>1. PICK views : views = Translated(found)
  OBVIOUS
<1>2. views = [name \in {compiler_logical_name(p) : p \in DOMAIN found} |->
                  template_parse(found[File(name)]).code]
  BY <1>1 DEF Translated
<1>3. ASSUME NEW name \in DOMAIN views PROVE views[name] \in Seq(Instructions(A))
  <2>1. File(name) \in DOMAIN found
    BY <1>2, <1>3
  <2>2. PICK source : source = found[File(name)] /\ IsSource(source) /\ SourcePrints(A, source)
    BY <2>1 DEF FilesPrint
  <2>3. views[name] = template_parse(source).code
    BY <1>2, <1>3, <2>2
  <2> QED
    BY <2>2, <2>3, ParsedPrints
<1> QED
  BY <1>1, <1>3

\* What is found prints over A, if what is there does.
LEMMA LibraryFound ==
    ASSUME NEW A, NEW lib, FilesPrint(A, lib.files),
           \A name \in DOMAIN lib.bundle : lib.bundle[name] \in Seq(Instructions(A))
    PROVE  LibraryPrints(A, lib)
<1> SUFFICES ASSUME NEW path, view_load(lib, path).result = "found"
             PROVE  view_load(lib, path).code \in Seq(Instructions(A))
  BY DEF LibraryPrints
<1>1. PICK file : file = view_load_filesystem(lib.files, path)
  OBVIOUS
<1>2. view_load(lib, path) = OrEmbedded(file, lib.bundle, path)
  BY <1>1 DEF view_load, LoadError
<1>3. CASE file.result # "missing"
  <2>1. view_load(lib, path) = file
    BY <1>2, <1>3 DEF OrEmbedded
  <2>2. PICK p : p = FileOf(lib.files, path) /\ p \in DOMAIN lib.files
    BY <1>1, <1>3 DEF view_load_filesystem, Missing
  <2>3. PICK source : source = lib.files[p] /\ IsSource(source) /\ SourcePrints(A, source)
    BY <2>2 DEF FilesPrint
  <2>4. file = Loaded(template_parse(source))
    BY <1>1, <2>2, <2>3 DEF view_load_filesystem
  <2>5. file = Found(template_parse(source).code)
    BY <2>1, <2>4 DEF Loaded, LoadError
  <2>6. file.code = template_parse(source).code
    BY <2>5 DEF Found
  <2> QED
    BY <2>1, <2>3, <2>6, ParsedPrints
<1>4. CASE file.result = "missing"
  <2>1. path \in DOMAIN lib.bundle /\ view_load(lib, path) = Found(lib.bundle[path])
    BY <1>2, <1>4 DEF OrEmbedded, Missing
  <2> QED
    BY <2>1 DEF Found
<1> QED
  BY <1>3, <1>4

-----------------------------------------------------------------------------
(* Compiled and in development.                                            *)

PlainNames == Seq(Segments) \ {<<>>}

\* A file and the name that it is compiled under.
LEMMA FileNamed ==
    ASSUME NEW site, Gathered(site), NEW path \in DOMAIN site
    PROVE  /\ path \in Seq(STRING) /\ view_path_valid(compiler_logical_name(path))
           /\ compiler_logical_name(path) \in PlainNames /\ template_parse(site[path]).ok
<1>1. path \in Seq(STRING) /\ Readable(path, site[path])
  BY DEF Gathered, IsSite
<1>2. view_path_valid(compiler_logical_name(path)) /\ template_parse(site[path]).ok
  BY <1>1 DEF Readable
<1>3. compiler_logical_name(path) \in Seq(Segments)
  BY <1>1, <1>2, LogicalName
<1>4. compiler_logical_name(path) # <<>>
  BY <1>2 DEF view_path_valid
<1> QED
  BY <1>1, <1>2, <1>3, <1>4 DEF PlainNames

\* The file that a name stands for.
LEMMA FileFound ==
    ASSUME NEW site, Gathered(site), DistinctNames(site),
           \A p \in DOMAIN site : compiler_logical_name(Front(p)) = Front(p),
           NEW name \in PlainNames, NEW path \in DOMAIN site, compiler_logical_name(path) = name
    PROVE  FileOf(site, name) = path
<1>1. name \in Seq(Segments) /\ name # <<>>
  BY DEF PlainNames
<1>2. path \in {name, PartialName(name)}
  BY FileNamed, FilesOfName
<1>3. CASE name \in DOMAIN site
  <2>1. compiler_logical_name(name) = name
    BY <1>1, PlainName
  <2>2. name = path
    BY <1>3, <2>1 DEF DistinctNames
  <2> QED
    BY <1>3, <2>2 DEF FileOf
<1>4. CASE name \notin DOMAIN site
  BY <1>2, <1>4 DEF FileOf
<1> QED
  BY <1>3, <1>4

\* A name under which no file is compiled.
LEMMA FileMissing ==
    ASSUME NEW site, NEW name \in PlainNames, FileOf(site, name) \in DOMAIN site
    PROVE  \E path \in DOMAIN site : compiler_logical_name(path) = name
<1>1. name \in Seq(Segments) /\ name # <<>>
  BY DEF PlainNames
<1>2. compiler_logical_name(name) = name /\ compiler_logical_name(PartialName(name)) = name
  BY <1>1, PlainName, PartialFile
<1> QED
  BY <1>2 DEF FileOf

\* What a name stands for in the files, and in the programs made of them.
LEMMA LoadsAlike ==
    ASSUME NEW site, Gathered(site), Acceptable(site),
           \A p \in DOMAIN site : compiler_logical_name(Front(p)) = Front(p)
    PROVE  Alike([files |-> site, bundle |-> NoViews],
                 [files |-> NoViews, bundle |-> Translated(site)], PlainNames)
<1>1. PICK lib, other : /\ lib = [files |-> site, bundle |-> NoViews]
                        /\ other = [files |-> NoViews, bundle |-> Translated(site)]
  OBVIOUS
<1>2. DistinctNames(site) /\ compiler_validate_partials(Translated(site))
  BY DEF Acceptable
<1> DEFINE File(name) == CHOOSE p \in DOMAIN site : compiler_logical_name(p) = name
<1>3. PICK views : views = Translated(site)
  OBVIOUS
<1>4. views = [name \in {compiler_logical_name(p) : p \in DOMAIN site} |->
                  template_parse(site[File(name)]).code]
  BY <1>3 DEF Translated
<1>5. DOMAIN views = {compiler_logical_name(p) : p \in DOMAIN site} /\ DOMAIN views \subseteq PlainNames
  BY <1>4, FileNamed
<1>6. \A name \in DOMAIN views : views[name] = template_parse(site[File(name)]).code
  BY <1>4
<1>7. ASSUME NEW name \in PlainNames
      PROVE  /\ view_load(lib, name) = view_load(other, name)
             /\ view_load(lib, name).result = "found" => Partials(view_load(lib, name).code) \subseteq PlainNames
  <2>1. view_path_valid(name)
    BY PlainName DEF PlainNames
  <2>2. view_load(lib, name) = OrEmbedded(view_load_filesystem(site, name), NoViews, name)
    BY <1>1, <2>1 DEF view_load
  <2>3. view_load(other, name) = OrEmbedded(view_load_filesystem(NoViews, name), views, name)
    BY <1>1, <1>3, <2>1 DEF view_load
  <2>4. DOMAIN NoViews = {}
    BY DEF NoViews
  <2>5. view_load_filesystem(NoViews, name) = Missing
    BY <2>4 DEF view_load_filesystem
  <2>6. view_load(other, name) = IF name \in DOMAIN views THEN Found(views[name]) ELSE Missing
    BY <2>3, <2>5 DEF OrEmbedded, Missing
  <2>7. CASE name \in DOMAIN views
    <3>1. PICK path \in DOMAIN site : compiler_logical_name(path) = name
      BY <1>5, <2>7
    <3>2. FileOf(site, name) = path
      BY <1>2, <3>1, FileFound
    <3>3. File(name) = path
      BY <1>2, <3>1 DEF DistinctNames
    <3>4. PICK code : code = template_parse(site[path]).code
      OBVIOUS
    <3>5. views[name] = code
      BY <1>6, <2>7, <3>3, <3>4
    <3>6. view_load_filesystem(site, name) = Found(code)
      BY <3>1, <3>2, <3>4, FileNamed DEF view_load_filesystem, Loaded
    <3>7. view_load(lib, name) = Found(code)
      BY <2>2, <3>6 DEF OrEmbedded, Found
    <3>8. Partials(code) \subseteq PlainNames
      BY <1>2, <1>3, <1>5, <2>7, <3>5 DEF compiler_validate_partials
    <3> QED
      BY <2>6, <2>7, <3>5, <3>7, <3>8 DEF Found
  <2>8. CASE name \notin DOMAIN views
    <3>1. FileOf(site, name) \notin DOMAIN site
      BY <1>5, <2>8, FileMissing
    <3>2. view_load_filesystem(site, name) = Missing
      BY <3>1 DEF view_load_filesystem
    <3>3. view_load(lib, name) = Missing
      BY <2>2, <2>4, <3>2 DEF OrEmbedded, Missing
    <3> QED
      BY <2>6, <2>8, <3>3 DEF Missing
  <2> QED
    BY <2>7, <2>8
<1> QED
  BY <1>1, <1>7 DEF Alike

\* The files that a compiler has read print strings.
LEMMA GatheredPrints == ASSUME NEW found, IsSite(found) PROVE FilesPrint(STRING, found)
BY SourceStrings DEF IsSite, FilesPrint

\* Either library answers alike.
LEMMA AnswersAlike ==
    ASSUME BlogAssumption, NEW site, Gathered(site), Acceptable(site),
           \A p \in DOMAIN site : compiler_logical_name(Front(p)) = Front(p),
           NEW path \in Visitable, NEW data \in Contexts
    PROVE  Answers([files |-> site, bundle |-> NoViews], data, path)
              = Answers([files |-> NoViews, bundle |-> Translated(site)], data, path)
<1>1. PICK lib, other : /\ lib = [files |-> site, bundle |-> NoViews]
                        /\ other = [files |-> NoViews, bundle |-> Translated(site)]
  OBVIOUS
<1>2. Alike(lib, other, PlainNames)
  BY <1>1, LoadsAlike
<1>3. FilesPrint(STRING, site)
  BY GatheredPrints DEF Gathered
<1>4. LibraryPrints(STRING, lib)
  <2>1. FilesPrint(STRING, lib.files)
    BY <1>1, <1>3
  <2>2. \A name \in DOMAIN lib.bundle : lib.bundle[name] \in Seq(Instructions(STRING))
    <3>1. DOMAIN lib.bundle = {}
      BY <1>1 DEF NoViews
    <3> QED
      BY <3>1
  <2> QED
    BY <2>1, <2>2, LibraryFound
<1>5. LibraryPrints(STRING, other)
  <2>1. FilesPrint(STRING, other.files)
    <3>1. DOMAIN other.files = {}
      BY <1>1 DEF NoViews
    <3> QED
      BY <3>1 DEF FilesPrint
  <2>2. \A name \in DOMAIN other.bundle : other.bundle[name] \in Seq(Instructions(STRING))
    BY <1>1, <1>3, TranslatedPrints
  <2> QED
    BY <2>1, <2>2, LibraryFound
<1>6. IsData(data) /\ DataPrints(STRING, data)
  <2>1. IsData(data)
    BY Zenon DEF BlogAssumption
  <2> QED
    BY <2>1, DataStrings
<1>7. PICK cx, cy : cx = [lib |-> lib, data |-> data] /\ cy = [lib |-> other, data |-> data]
  OBVIOUS
<1>8. /\ ContextPrints(STRING, cx) /\ ContextPrints(STRING, cy) /\ cy.data = cx.data
      /\ Alike(cx.lib, cy.lib, PlainNames)
  BY <1>2, <1>4, <1>5, <1>6, <1>7 DEF ContextPrints
<1>9. path \in PlainNames
  BY Zenon DEF BlogAssumption, PlainNames
<1>10. Layout \in PlainNames
  <2>1. "layouts" \in Segments /\ "application" \in Segments
    BY DEF BlogAssumption
  <2> QED
    BY <2>1 DEF Layout, PlainNames
<1>11. /\ render_status(cx, path, "200") = render_status(cy, path, "200")
       /\ render_without_layout(cx, path) = render_without_layout(cy, path)
  BY <1>8, <1>9, <1>10, ResponsesSame
<1> QED
  BY <1>1, <1>7, <1>11 DEF Answers

\* With the views compiled from the files that are there, an installed program
\* answers as it did in development, whatever the templates.
THEOREM InstalledAnswersAlike == Spec => []CompiledAlike
<1>1. BlogAssumption /\ ViewInv => CompiledAlike
  <2> SUFFICES ASSUME BlogAssumption, ViewInv, Current, PlainDirectories
               PROVE  \A path \in Visitable, data \in Contexts :
                         Answers([files |-> files, bundle |-> NoViews], data, path)
                            = Answers([files |-> NoViews, bundle |-> linked.views], data, path)
    BY DEF CompiledAlike
  <2>1. PICK found : Gathered(found) /\ Acceptable(found) /\ linked = Bundle(found)
    BY DEF ViewInv, FromFiles, Current
  <2>2. linked.read = found /\ linked.views = Translated(found)
    BY <2>1 DEF Bundle
  <2>3. PICK views : views = linked.views /\ views = Translated(found)
    BY <2>2
  <2>4. found = files
    BY <2>2 DEF Current
  <2>5. \A p \in DOMAIN found : compiler_logical_name(Front(p)) = Front(p)
    BY <2>4 DEF PlainDirectories
  <2>6. ASSUME NEW path \in Visitable, NEW data \in Contexts
        PROVE  Answers([files |-> found, bundle |-> NoViews], data, path)
                  = Answers([files |-> NoViews, bundle |-> Translated(found)], data, path)
    BY <2>1, <2>5, AnswersAlike
  <2> QED
    BY <2>2, <2>4, <2>6
<1> QED
  BY <1>1, ViewInvariant, BlogAssumption, PTL

-----------------------------------------------------------------------------
(* Pages without what a content is told by.                                *)

Quiet == STRING \ Private

\* A value that prints nothing private.
QuietValue(value) ==
    /\ IsValue(value) /\ Prints(Quiet, value)
    /\ \A record \in ToSet(value.rows) : \A field \in DOMAIN record : Prints(Quiet, record[field])

QuietData(data) == \A name \in DOMAIN data : QuietValue(data[name])

\* What handlers write themselves is printed as it is.
LEMMA WordsAsTheyAre == ASSUME BlogAssumption, NEW word \in Words PROVE Escaped(word) = word /\ word \in Quiet
<1>1. word \in Quiet
  BY DEF BlogAssumption, Quiet
<1>2. Escaped(word) = word
  BY Zenon DEF Words, Escaped
<1> QED
  BY <1>1, <1>2

\* A word as a value.
LEMMA QuietWord == ASSUME BlogAssumption, NEW word \in Words PROVE QuietValue(view_string(<<word>>))
<1>1. Escaped(word) = word /\ word \in Quiet /\ word \in STRING
  BY WordsAsTheyAre DEF Quiet
<1>2. PICK value : value = view_string(<<word>>)
  OBVIOUS
<1>3. value = [type |-> "string", text |-> <<word>>, rows |-> <<>>]
  BY <1>2 DEF view_string
<1>4. PICK text : text = html_escape(<<word>>)
  OBVIOUS
<1>5. text = <<word>>
  BY <1>1, <1>4 DEF html_escape
<1>6. text \in Seq(Quiet) /\ <<word>> \in Seq(STRING)
  BY <1>1, <1>5
<1>7. ToSet(value.rows) = {}
  BY <1>3 DEF ToSet
<1>8. <<>> \in Seq(ToSet(value.rows))
  OBVIOUS
<1>9. IsValue(value)
  BY <1>3, <1>6, <1>7, <1>8 DEF IsValue
<1>10. Prints(Quiet, value)
  BY <1>3, <1>4, <1>6 DEF Prints
<1> QED
  BY <1>2, <1>7, <1>9, <1>10 DEF QuietValue

\* A truth value.
LEMMA QuietFlag == ASSUME BlogAssumption, NEW flag PROVE QuietValue(view_bool(flag))
<1>1. PICK word \in Words : <<word>> = IF flag THEN <<"true">> ELSE <<"false">>
  BY DEF Words
<1>2. word \in Quiet /\ word \in STRING
  BY WordsAsTheyAre DEF Quiet
<1>3. PICK value : value = view_bool(flag)
  OBVIOUS
<1>4. value = [type |-> "bool", text |-> <<word>>, rows |-> <<>>]
  BY <1>1, <1>3 DEF view_bool
<1>5. <<word>> \in Seq(Quiet) /\ <<word>> \in Seq(STRING)
  BY <1>2
<1>6. ToSet(value.rows) = {}
  BY <1>4 DEF ToSet
<1>7. <<>> \in Seq(ToSet(value.rows))
  OBVIOUS
<1>8. IsValue(value)
  BY <1>4, <1>5, <1>6, <1>7 DEF IsValue
<1>9. Prints(Quiet, value)
  BY <1>4, <1>5 DEF Prints
<1> QED
  BY <1>3, <1>6, <1>8, <1>9 DEF QuietValue

\* Nothing, and no records.
LEMMA QuietNothing == QuietValue(Nothing) /\ QuietValue(view_collection(<<>>))
<1>1. PICK value, none : value = Nothing /\ none = view_collection(<<>>)
  OBVIOUS
<1>2. /\ value = [type |-> "string", text |-> <<>>, rows |-> <<>>]
      /\ none = [type |-> "collection", text |-> <<>>, rows |-> <<>>]
  BY <1>1 DEF Nothing, view_string, view_collection
<1>3. ToSet(value.rows) = {} /\ ToSet(none.rows) = {}
  BY <1>2 DEF ToSet
<1>4. \A S : <<>> \in Seq(S)
  OBVIOUS
<1>5. html_escape(<<>>) = <<>>
  BY DEF html_escape
<1>6. IsValue(value)
  BY <1>2, <1>3, <1>4 DEF IsValue
<1>7. IsValue(none)
  BY <1>2, <1>3, <1>4 DEF IsValue
<1>8. Prints(Quiet, value) /\ Prints(Quiet, none)
  BY <1>2, <1>4, <1>5 DEF Prints
<1> QED
  BY <1>1, <1>3, <1>6, <1>7, <1>8 DEF QuietValue

\* Two sets of values.
LEMMA QuietAnd == ASSUME NEW data, NEW more, QuietData(data), QuietData(more) PROVE QuietData(And(data, more))
<1>1. PICK both : both = And(data, more)
  OBVIOUS
<1>2. \A name \in DOMAIN both :
         (name \in DOMAIN data /\ both[name] = data[name]) \/ (name \in DOMAIN more /\ both[name] = more[name])
  BY <1>1 DEF And
<1> QED
  BY <1>1, <1>2 DEF QuietData

\* What blog_prepare_view adds.
LEMMA QuietPrepared ==
    ASSUME BlogAssumption, NEW q, q.answer.view \in Words
    PROVE  QuietData(Prepared(q))
<1>1. PICK title, in, none, empty :
         /\ title = view_string(<<q.answer.view>>) /\ in = view_bool(q.answer.viewer # None)
         /\ none = view_collection(<<>>) /\ empty = Nothing
  OBVIOUS
<1>2. QuietValue(title) /\ QuietValue(in) /\ QuietValue(none) /\ QuietValue(empty)
  BY <1>1, QuietWord, QuietFlag, QuietNothing
<1>3. PICK first : first = [page_title |-> title, signed_in |-> in, errors |-> none, content_error |-> empty]
  OBVIOUS
<1>4. QuietData(first)
  BY <1>2, <1>3 DEF QuietData
<1>5. PICK token : token = view_string(<<"token">>)
  OBVIOUS
<1>6. QuietValue(token)
  <2>1. "token" \in Words
    BY DEF Words
  <2> QED
    BY <1>5, <2>1, QuietWord
<1>7. PICK second : second = IF q.answer.viewer = None THEN <<>> ELSE [csrf_token |-> token]
  OBVIOUS
<1>8. QuietData(second)
  <2>1. DOMAIN <<>> = {}
    OBVIOUS
  <2> QED
    BY <1>6, <1>7, <2>1 DEF QuietData
<1>9. Prepared(q) = And(first, second)
  BY <1>1, <1>3, <1>5, <1>7 DEF Prepared
<1> QED
  BY <1>4, <1>8, <1>9, QuietAnd

\* What a request finds.
LEMMA QuietLibrary == ASSUME ViewInv PROVE LibraryPrints(Quiet, Library)
<1>1. ASSUME NEW site, IsSite(site) PROVE FilesPrint(Quiet, site)
  BY <1>1, SourceDiscreet DEF IsSite, FilesPrint, Quiet
<1>2. PICK lib : lib = Library
  OBVIOUS
<1>3. lib.files = (IF installed THEN NoViews ELSE files) /\ lib.bundle = linked.views
  BY <1>2 DEF Library
<1>4. DOMAIN NoViews = {}
  BY DEF NoViews
<1>5. FilesPrint(Quiet, lib.files)
  <2>1. FilesPrint(Quiet, files)
    BY <1>1 DEF ViewInv
  <2>2. FilesPrint(Quiet, NoViews)
    BY <1>4 DEF FilesPrint
  <2> QED
    BY <1>3, <2>1, <2>2
<1>6. \A name \in DOMAIN lib.bundle : lib.bundle[name] \in Seq(Instructions(Quiet))
  <2>1. CASE linked = NoBundle
    <3>1. lib.bundle = NoViews
      BY <1>3, <2>1 DEF NoBundle
    <3> QED
      BY <1>4, <3>1
  <2>2. CASE linked # NoBundle
    <3>1. PICK found : Gathered(found) /\ linked = Bundle(found)
      BY <2>2 DEF ViewInv, FromFiles
    <3>2. lib.bundle = Translated(found)
      BY <1>3, <3>1 DEF Bundle
    <3>3. FilesPrint(Quiet, found)
      BY <1>1, <3>1 DEF Gathered
    <3> QED
      BY <3>2, <3>3, TranslatedPrints
  <2> QED
    BY <2>1, <2>2
<1> QED
  BY <1>2, <1>5, <1>6, LibraryFound

\* A page of such values.
LEMMA QuietPage ==
    ASSUME ViewInv, NEW data, QuietData(data), NEW path, NEW status
    PROVE  SentPage(data, path, status).response.html \in Seq(Quiet)
<1>1. PICK cx : cx = [lib |-> Library, data |-> data]
  OBVIOUS
<1>2. IsData(data) /\ DataPrints(Quiet, data)
  BY DEF QuietData, QuietValue, IsData, DataPrints
<1>3. ContextPrints(Quiet, cx)
  BY <1>1, <1>2, QuietLibrary DEF ContextPrints
<1>4. render_status(cx, path, status).html \in Seq(Quiet)
  BY <1>3, ResponseType
<1> QED
  BY <1>1, <1>4 DEF SentPage

\* A page says nothing private, unless its request is over and has read no post
\* or been allowed to show one.
PageInv(q, page) ==
    /\ q.pc = "new" => q.post = NoRow
    /\ q.answer.view = "new" => q.kind \notin {"show", "edit"}
    /\ \/ page.response.html \in Seq(Quiet)
       \/ /\ q.pc = "done"
          /\ q.post = NoRow \/ q.kind \notin {"show", "edit"} \/ q.answer.view \in {"show", "edit"}

PagesInv == sent = [r \in Requests |-> sent[r]] /\ \A r \in Requests : PageInv(req[r], sent[r])

\* A request and its page.
LEMMA OnePage ==
    ASSUME IInv, PagesInv, NEW r \in Requests, NEW q, Is(r, q),
           NEW page, sent' = [sent EXCEPT ![r] = page], PageInv(q, page)
    PROVE  PagesInv'
<1>1. req'[r] = q /\ \A p \in Requests \ {r} : req'[p] = req[p]
  BY DEF Is, IInv, PostsTypeOK
<1>2. sent' = [p \in Requests |-> sent'[p]] /\ sent'[r] = page
      /\ \A p \in Requests \ {r} : sent'[p] = sent[p]
  BY DEF PagesInv
<1>3. \A p \in Requests : PageInv(req'[p], sent'[p])
  BY <1>1, <1>2 DEF PagesInv
<1> QED
  BY <1>2, <1>3 DEF PagesInv

\* A step without a page.
LEMMA PageStays ==
    ASSUME IInv, PagesInv, NEW r \in Requests, req[r].pc # "done", NEW q, Is(r, q), sent' = sent,
           q.pc # "new", q.answer.view = "new" => q.kind \notin {"show", "edit"}
    PROVE  PagesInv'
<1>1. sent[r].response.html \in Seq(Quiet)
  BY DEF PagesInv, PageInv
<1>2. PICK page : page = sent[r]
  OBVIOUS
<1>3. PageInv(q, page) /\ sent' = [sent EXCEPT ![r] = page]
  BY <1>1, <1>2 DEF PageInv, PagesInv
<1> QED
  BY <1>3, OnePage

\* To answer without a page, or with one yet to be made.
LEMMA AnswersPage ==
    ASSUME IInv, PagesInv, NEW r \in Requests, req[r].pc # "done", sent' = sent,
           NEW o \in {req[r], LoggedOut(req[r])}, NEW status, NEW view,
           view = "new" => req[r].kind \notin {"show", "edit"},
           Is(r, Redirected(o, status)) \/ Is(r, Page(o, status, view)) \/ Is(r, Crashed(o))
    PROVE  PagesInv'
<1>1. req[r] \in Query /\ PageInv(req[r], sent[r])
  BY OneQuery DEF PagesInv
<1>2. o \in Query /\ o.kind = req[r].kind /\ o.answer = req[r].answer
  <2>1. o \in Query
    BY <1>1, EndsInv
  <2> QED
    BY <1>1, <2>1 DEF LoggedOut, Query
<1> DEFINE redirected == Redirected(o, status)
           page == Page(o, status, view)
           crashed == Crashed(o)
<1>3. /\ redirected.answer.view = o.answer.view /\ redirected.pc = "done"
      /\ page.answer.view = view /\ page.pc = "prepare"
      /\ crashed.answer.view = "none" /\ crashed.pc = "done"
  BY <1>2, AnswerPage
<1>4. redirected.kind = o.kind /\ page.kind = o.kind /\ crashed.kind = o.kind
  BY <1>2 DEF Redirected, Page, Crashed, Query
<1> HIDE DEF redirected, page, crashed
<1>5. PICK q \in {redirected, page, crashed} : Is(r, q)
  BY DEF redirected, page, crashed
<1>6. q.pc # "new" /\ (q.answer.view = "new" => q.kind \notin {"show", "edit"})
  BY <1>1, <1>2, <1>3, <1>4, <1>5 DEF PageInv
<1> QED
  BY <1>5, <1>6, PageStays

\* To go on.
LEMMA OnwardPage ==
    ASSUME IInv, PagesInv, NEW r \in Requests, req[r].pc # "done", sent' = sent,
           NEW q, Is(r, q), q.pc # "new", q.kind = req[r].kind, q.answer = req[r].answer
    PROVE  PagesInv'
BY PageStays DEF PagesInv, PageInv

\* A request that arrives.
LEMMA ArrivePages == ASSUME IInv, PagesInv, NEW r \in Requests, Arrive(r), sent' = sent PROVE PagesInv'
<1>1. PICK kind, user, id, form : Begins(r, kind, user, id, form)
  BY DEF Arrive
<1>2. PICK q : q = [Fresh EXCEPT !.pc = IF kind = "show" THEN "viewer" ELSE "guard",
                                 !.kind = kind, !.by = user, !.user = user, !.id = id,
                                 !.form = form]
  OBVIOUS
<1>3. q.pc \in {"viewer", "guard"} /\ q.answer.view = "none"
  BY <1>2 DEF Fresh, NoAnswer
<1>4. Is(r, q) /\ req[r].pc # "done"
  BY <1>1, <1>2 DEF Begins, At
<1> QED
  BY <1>3, <1>4, PageStays

\* Another handler's page; its request has read no post.
LEMMA VisitPages == ASSUME IInv, PagesInv, NEW r \in Requests, Visit(r) PROVE PagesInv'
<1>1. req[r] \in Query /\ PageInv(req[r], sent[r])
  BY OneQuery DEF PagesInv
<1>2. PICK q : q = [req[r] EXCEPT !.pc = "done"]
  OBVIOUS
<1>3. req[r].pc = "new" /\ Is(r, q)
  BY <1>2 DEF Visit, ArriveElsewhere, Goes, At
<1>4. q.pc = "done" /\ q.post = NoRow /\ q.kind = req[r].kind /\ q.answer = req[r].answer
  BY <1>1, <1>2, <1>3 DEF PageInv, Query
<1>5. PICK page : sent' = [sent EXCEPT ![r] = page]
  BY DEF Visit
<1>6. PageInv(q, page)
  BY <1>1, <1>4 DEF PageInv
<1> QED
  BY <1>3, <1>5, <1>6, OnePage

\* A page that has been refused or has failed shows nothing a handler has read.
LEMMA PreparePages ==
    ASSUME BlogAssumption, ViewInv, IInv, PagesInv, NEW r \in Requests, At(r, "prepare"),
           blog_prepare_view(r) \/ Dies(r),
           sent' = [sent EXCEPT ![r] =
                      IF req'[r].answer # NoAnswer
                      THEN SentPage(And(Handler(req'[r]), Prepared(req'[r])),
                                    ViewPath(req'[r].answer), req'[r].answer.status)
                      ELSE @]
    PROVE  PagesInv'
<1>1. req[r] \in Query /\ PageInv(req[r], sent[r]) /\ req[r].pc = "prepare"
  BY OneQuery DEF PagesInv, At
<1>2. PICK q : /\ Is(r, q)
               /\ \/ q = [req[r] EXCEPT !.pc = "done", !.answer.viewer = req[r].user]
                  \/ q = [LoggedOut(req[r]) EXCEPT !.pc = "done"]
                  \/ q = Crashed(req[r])
  BY DEF blog_prepare_view, Dies
<1>3. q.answer.view \in {req[r].answer.view, "none"}
  <2>1. req[r].answer \in Answer
    BY <1>1 DEF Query
  <2>2. [req[r].answer EXCEPT !.viewer = req[r].user].view = req[r].answer.view
    BY <2>1 DEF Answer
  <2>3. CASE q = [req[r] EXCEPT !.pc = "done", !.answer.viewer = req[r].user]
    BY <1>1, <2>2, <2>3 DEF Query
  <2>4. CASE q = [LoggedOut(req[r]) EXCEPT !.pc = "done"]
    BY <1>1, <2>4 DEF LoggedOut, Query
  <2>5. CASE q = Crashed(req[r])
    BY <1>1, <2>5 DEF Crashed, NoAnswer, Query
  <2> QED
    BY <1>2, <2>3, <2>4, <2>5
<1>4. q.pc = "done" /\ q.kind = req[r].kind /\ q.post = req[r].post
  BY <1>1, <1>2 DEF LoggedOut, Crashed, Query
<1>5. q.answer.view = "new" => q.kind \notin {"show", "edit"}
  BY <1>1, <1>3, <1>4 DEF PageInv
<1>6. req'[r] = q
  BY <1>2 DEF Is, IInv, PostsTypeOK
<1>7. PICK page : /\ sent' = [sent EXCEPT ![r] = page]
                  /\ page \in {sent[r], SentPage(And(Handler(q), Prepared(q)), ViewPath(q.answer), q.answer.status)}
  BY <1>6 DEF PagesInv
<1>8. q.answer.view \notin {"show", "edit", "new"} => page.response.html \in Seq(Quiet)
  <2> SUFFICES ASSUME q.answer.view \notin {"show", "edit", "new"}
               PROVE  page.response.html \in Seq(Quiet)
    OBVIOUS
  <2>1. CASE page = sent[r]
    BY <1>1, <2>1 DEF PageInv
  <2>2. CASE page = SentPage(And(Handler(q), Prepared(q)), ViewPath(q.answer), q.answer.status)
    <3>1. q.answer.view \in {"none", "error"}
      BY <1>1, <1>3 DEF Query, Answer
    <3>2. q.answer.view \in Words
      BY <3>1 DEF Words
    <3>3. PICK handler : handler = Handler(q)
      OBVIOUS
    <3>4. handler = <<>>
      BY <3>1, <3>3 DEF Handler
    <3>5. DOMAIN <<>> = {}
      OBVIOUS
    <3>6. QuietData(handler)
      BY <3>4, <3>5 DEF QuietData
    <3>7. QuietData(And(handler, Prepared(q)))
      BY <3>2, <3>6, QuietPrepared, QuietAnd
    <3>8. SentPage(And(handler, Prepared(q)), ViewPath(q.answer), q.answer.status).response.html \in Seq(Quiet)
      BY <3>7, QuietPage
    <3> QED
      BY <2>2, <3>3, <3>8
  <2> QED
    BY <1>7, <2>1, <2>2
<1>9. PageInv(q, page)
  BY <1>4, <1>5, <1>8 DEF PageInv
<1> QED
  BY <1>2, <1>7, <1>9, OnePage

\* The steps of a request before the page.
LEMMA EarlierPages ==
    ASSUME IInv, PagesInv, NEW r \in Requests, req[r].pc # "done", sent' = sent,
           \/ require_authenticated_user(r) \/ blog_current_user(r) \/ post_find(r)
           \/ load_owned_post(r) \/ blog_render_post_show(r) \/ validate_post(r)
           \/ model_insert(r) \/ model_update(r) \/ ModelReloads(r) \/ model_destroy(r)
           \/ Dies(r)
    PROVE  PagesInv'
<1>1. req[r] \in Query /\ QueryInv(req[r], posts, lastId)
  BY OneQuery DEF IInv
<1>2. ASSUME NEW o \in {req[r], LoggedOut(req[r])}, NEW status, NEW view,
             view = "new" => req[r].kind \notin {"show", "edit"},
             Is(r, Redirected(o, status)) \/ Is(r, Page(o, status, view)) \/ Is(r, Crashed(o))
      PROVE  PagesInv'
  BY <1>2, AnswersPage
<1>3. ASSUME NEW pc \in {"handler", "viewer", "load", "form", "write", "reload"}, NEW id,
             Is(r, [req[r] EXCEPT !.pc = pc, !.id = id])
      PROVE  PagesInv'
  <2>1. PICK q : q = [req[r] EXCEPT !.pc = pc, !.id = id]
    OBVIOUS
  <2>2. q.pc = pc /\ q.answer = req[r].answer /\ q.kind = req[r].kind
    BY <1>1, <2>1 DEF Query
  <2> QED
    BY <1>3, <2>1, <2>2, OnwardPage
<1>4. \A pc : [req[r] EXCEPT !.pc = pc] = [req[r] EXCEPT !.pc = pc, !.id = req[r].id]
  BY <1>1 DEF Query
<1>5. ASSUME NEW pc \in {"handler", "viewer", "load", "form", "write", "reload"}, Goes(r, pc)
      PROVE  PagesInv'
  BY <1>3, <1>4, <1>5 DEF Goes
<1>6. ASSUME NEW o \in {req[r], LoggedOut(req[r])}, Is(r, Refused(o)) \/ Is(r, Failed(o)) PROVE PagesInv'
  BY <1>2, <1>6 DEF Refused, Failed
<1>7. CASE require_authenticated_user(r)
  BY <1>2, <1>5, <1>7 DEF require_authenticated_user
<1>8. CASE blog_current_user(r)
  <2>1. PICK q : /\ Is(r, q)
                 /\ \E next \in {"load", "form"} :
                       \/ q = [req[r] EXCEPT !.pc = next, !.viewer = req[r].user]
                       \/ q = [LoggedOut(req[r]) EXCEPT !.pc = next]
    BY <1>8 DEF blog_current_user
  <2>2. q.pc \in {"load", "form"} /\ q.answer = req[r].answer /\ q.kind = req[r].kind
    BY <1>1, <2>1 DEF LoggedOut, Query
  <2> QED
    BY <2>1, <2>2, OnwardPage
<1>9. CASE post_find(r)
  <2>1. ASSUME NEW post, Is(r, Holding(req[r], post)) PROVE PagesInv'
    <3>1. PICK q : q = Holding(req[r], post)
      OBVIOUS
    <3>2. q.pc \in {"author", "owner"} /\ q.answer = req[r].answer /\ q.kind = req[r].kind
      BY <1>1, <3>1 DEF Holding, Query
    <3> QED
      BY <2>1, <3>1, <3>2, OnwardPage
  <2> QED
    BY <1>6, <1>9, <2>1 DEF post_find
<1>10. CASE load_owned_post(r)
  BY <1>2, <1>5, <1>6, <1>10 DEF load_owned_post
<1>11. CASE blog_render_post_show(r)
  BY <1>2, <1>6, <1>11 DEF blog_render_post_show
<1>12. CASE validate_post(r)
  <2>1. ASSUME NEW content, NEW clock, Submits(r, content, clock) PROVE PagesInv'
    <3>1. CASE Is(r, Crashed(req[r]))
      BY <1>2, <3>1
    <3>2. ASSUME NEW post, Is(r, [req[r] EXCEPT !.pc = "write", !.post = post]) PROVE PagesInv'
      <4>1. PICK q : q = [req[r] EXCEPT !.pc = "write", !.post = post]
        OBVIOUS
      <4>2. q.pc = "write" /\ q.answer = req[r].answer /\ q.kind = req[r].kind
        BY <1>1, <4>1 DEF Query
      <4> QED
        BY <3>2, <4>1, <4>2, OnwardPage
    <3> QED
      BY <2>1, <3>1, <3>2 DEF Submits
  <2>2. CASE Is(r, Page(req[r], "422", "new")) /\ req[r].kind = "create"
    BY <1>2, <2>2
  <2>3. CASE Is(r, Page(req[r], "422", "edit"))
    BY <1>2, <2>3
  <2> QED
    BY <1>12, <2>1, <2>2, <2>3 DEF validate_post
<1>13. CASE model_insert(r)
  BY <1>3, <1>6, <1>13 DEF model_insert
<1>14. CASE model_update(r)
  BY <1>2, <1>5, <1>6, <1>14 DEF model_update
<1>15. CASE ModelReloads(r)
  BY <1>2, <1>6, <1>15 DEF ModelReloads
<1>16. CASE model_destroy(r)
  BY <1>2, <1>6, <1>16 DEF model_destroy
<1>17. CASE Dies(r)
  BY <1>2, <1>17 DEF Dies
<1> QED
  BY <1>7, <1>8, <1>9, <1>10, <1>11, <1>12, <1>13, <1>14, <1>15, <1>16, <1>17

\* Every step of a request.
LEMMA RequestPages ==
    ASSUME BlogAssumption, ViewInv, IInv, PagesInv, NEW r \in Requests, BlogRequest(r)
    PROVE  PagesInv'
<1>1. PostsStep(r)
  BY DEF BlogRequest
<1>2. CASE At(r, "prepare")
  <2>1. blog_prepare_view(r) \/ Dies(r)
    BY <1>1, <1>2 DEF PostsStep, At, require_authenticated_user, blog_current_user, post_find,
       load_owned_post, blog_render_post_show, validate_post, model_insert, model_update,
       ModelReloads, model_destroy
  <2>2. sent' = [sent EXCEPT ![r] =
                   IF req'[r].answer # NoAnswer
                   THEN SentPage(And(Handler(req'[r]), Prepared(req'[r])),
                                 ViewPath(req'[r].answer), req'[r].answer.status)
                   ELSE @]
    BY <1>2 DEF BlogRequest
  <2> QED
    BY <1>2, <2>1, <2>2, PreparePages
<1>3. CASE ~At(r, "prepare")
  <2>1. sent' = sent
    BY <1>3 DEF BlogRequest, PagesInv
  <2>2. /\ req[r].pc # "done"
        /\ \/ require_authenticated_user(r) \/ blog_current_user(r) \/ post_find(r)
           \/ load_owned_post(r) \/ blog_render_post_show(r) \/ validate_post(r)
           \/ model_insert(r) \/ model_update(r) \/ ModelReloads(r) \/ model_destroy(r)
           \/ Dies(r)
    BY <1>1, <1>3 DEF PostsStep, At, require_authenticated_user, blog_current_user, post_find,
       load_owned_post, blog_render_post_show, validate_post, model_insert, model_update,
       ModelReloads, model_destroy, blog_prepare_view, Dies
  <2> QED
    BY <2>1, <2>2, EarlierPages
<1> QED
  BY <1>2, <1>3

\* Every step of the whole.
LEMMA NextPages == ASSUME BlogAssumption, ViewInv, IInv, PagesInv, [Next]_blogVars PROVE PagesInv'
<1>1. CASE UNCHANGED <<postsVars, sent>>
  BY <1>1 DEF PagesInv, postsVars
<1>2. ASSUME NEW r \in Requests, BlogArrive(r) PROVE PagesInv'
  BY <1>2, ArrivePages DEF BlogArrive
<1> QED
  BY <1>1, <1>2, VisitPages, RequestPages DEF Next, blogVars

\* No page without what a content is told by shows a text.
LEMMA NothingShown ==
    ASSUME BlogAssumption, NEW html \in Seq(Quiet), NEW content \in Contents \cup {Blank}
    PROVE  ~Shows(html, html_escape(Text[content]))
<1>1. PICK text : text = html_escape(Text[content])
  OBVIOUS
<1>2. Text[content] \in Seq(STRING)
  BY DEF BlogAssumption
<1>3. text = [i \in 1 .. Len(Text[content]) |-> Escaped(Text[content][i])]
  BY <1>1, <1>2 DEF html_escape
<1>4. PICK n : n = Len(text) /\ n \in Nat /\ DOMAIN text = 1 .. n
  <2>1. PICK N : N = Len(Text[content]) /\ N \in Nat
    BY <1>2
  <2>2. PICK T : T = {Escaped(Text[content][i]) : i \in 1 .. N}
    OBVIOUS
  <2>3. text = [i \in 1 .. N |-> Escaped(Text[content][i])]
    BY <1>3, <2>1
  <2>4. text \in [1 .. N -> T]
    BY <2>2, <2>3
  <2>5. text \in Seq(T)
    BY <2>1, <2>4
  <2> QED
    BY <2>5
<1> SUFFICES ASSUME text # <<>>, NEW i \in 0 .. Len(html) - n, SubSeq(html, i + 1, i + n) = text PROVE FALSE
  BY <1>1, <1>4 DEF Shows
<1>5. Text[content] # <<>>
  <2>1. Text[content] = <<>> => text = <<>>
    BY <1>1 DEF html_escape
  <2> QED
    BY <2>1
<1>6. PICK character \in Private : character \in ToSet(text)
  BY <1>1, <1>5 DEF BlogAssumption
<1>7. PICK k \in 1 .. n : text[k] = character
  BY <1>4, <1>6 DEF ToSet
<1>8. Len(html) \in Nat /\ i + k \in 1 .. Len(html)
  BY <1>4
<1>9. SubSeq(html, i + 1, i + n)[k] = html[i + k]
  BY <1>4, <1>8
<1>10. html[i + k] \in Quiet
  BY <1>8
<1> QED
  BY <1>7, <1>9, <1>10 DEF Quiet

\* The text of a draft is on no page for anyone but its author and the admins,
\* whatever the templates, the failures and the users logged out halfway.
THEOREM DraftsAreOnNoPage == Spec => []DraftsStayPrivate
<1>1. Init => PagesInv
  <2> SUFFICES ASSUME Init PROVE PagesInv
    OBVIOUS
  <2>1. \A r \in Requests : req[r].pc = "new" /\ req[r].post = NoRow /\ req[r].answer.view = "none"
    BY DEF Init, PostsInit, Fresh, NoAnswer
  <2>2. \A r \in Requests : sent[r] = NoPage
    BY DEF Init
  <2>3. NoPage.response.html \in Seq(Quiet)
    <3>1. <<>> \in Seq(Quiet)
      OBVIOUS
    <3> QED
      BY <3>1 DEF NoPage, ErrorPage
  <2>4. sent = [r \in Requests |-> sent[r]]
    BY DEF Init
  <2>5. \A r \in Requests : PageInv(req[r], sent[r])
    BY <2>1, <2>2, <2>3 DEF PageInv
  <2> QED
    BY <2>4, <2>5 DEF PagesInv
<1>2. BlogAssumption /\ ViewInv /\ IInv /\ PagesInv /\ [Next]_blogVars => PagesInv'
  BY NextPages
<1>3. BlogAssumption /\ IInv /\ PagesInv /\ DraftsGuarded => DraftsStayPrivate
  <2> SUFFICES ASSUME BlogAssumption, IInv, PagesInv, DraftsGuarded, NEW r \in Requests,
                      req[r].kind \in {"show", "edit"}, req[r].post # NoRow, ~req[r].post.published,
                      Shows(sent[r].response.html, html_escape(Text[req[r].post.content]))
               PROVE  MayManage(req[r].by, req[r].post)
    BY DEF DraftsStayPrivate
  <2>1. req[r].post \in Row
    BY OneQuery DEF Query
  <2>2. req[r].post.content \in Contents \cup {Blank} /\ req[r].post.published = FALSE
    BY <2>1 DEF Row
  <2>3. sent[r].response.html \notin Seq(Quiet)
    BY <2>2, NothingShown
  <2>4. req[r].answer.view \in {"show", "edit"}
    BY <2>3 DEF PagesInv, PageInv
  <2> QED
    BY <2>2, <2>4 DEF DraftsGuarded, Draft
<1> QED
  BY <1>1, <1>2, <1>3, ViewInvariant, BlogImplementsPosts, PostsInvariant, DraftsAreGuarded,
     BlogAssumption, PTL DEF Spec

-----------------------------------------------------------------------------
(* Pages say what is written.  The parser's stack and jumps are related to *)
(* the brackets of Markup: how many sections are open after each token     *)
(* (Height) and how many instructions there are (Place).                   *)

\* The tokens up to n that become instructions.
Place(source, n) == Cardinality({k \in 1 .. n : ~Closes(source, k)})

\* One more number may belong to a set, or not.
LEMMA CountNext ==
    ASSUME NEW n \in Nat \ {0}, NEW S,
           NEW A, A = {k \in 1 .. n : k \in S}, NEW B, B = {k \in 1 .. n - 1 : k \in S}
    PROVE  /\ Cardinality(A) \in Nat /\ Cardinality(B) \in Nat
           /\ Cardinality(A) = IF n \in S THEN Cardinality(B) + 1 ELSE Cardinality(B)
<1>1. IsFiniteSet(1 .. n) /\ B \subseteq 1 .. n
  BY FS_Interval
<1>2. IsFiniteSet(B)
  BY <1>1, FS_Subset
<1>3. n \notin B /\ B \ {n} = A \ {n} /\ (n \in A <=> n \in S)
  OBVIOUS
<1> QED
  BY <1>2, <1>3, CardinalityChange

\* Nothing is counted at the start.
LEMMA CountNone == ASSUME NEW S PROVE Cardinality({k \in 1 .. 0 : k \in S}) = 0
<1>1. {k \in 1 .. 0 : k \in S} = {}
  OBVIOUS
<1> QED
  BY <1>1, FS_EmptySet

\* Heights and places from token to token.
LEMMA CountTokens ==
    ASSUME NEW source, IsSource(source)
    PROVE  /\ Height(source, 0) = 0 /\ Place(source, 0) = 0
           /\ \A n \in 1 .. Len(source) :
                 /\ Height(source, n - 1) \in Int /\ Height(source, n) \in Int
                 /\ Place(source, n - 1) \in Nat /\ Place(source, n) \in Nat
                 /\ Opens(source, n) => ~Closes(source, n) /\ Height(source, n) = Height(source, n - 1) + 1
                 /\ Closes(source, n) => /\ Height(source, n) = Height(source, n - 1) - 1
                                         /\ Place(source, n) = Place(source, n - 1)
                 /\ ~Closes(source, n) => Place(source, n) = Place(source, n - 1) + 1
                 /\ ~Opens(source, n) /\ ~Closes(source, n) => Height(source, n) = Height(source, n - 1)
<1>1. PICK N : N = Len(source) /\ N \in Nat
  BY DEF IsSource
<1>2. PICK O, C, K : /\ O = {k \in 1 .. N : Opens(source, k)} /\ C = {k \in 1 .. N : Closes(source, k)}
                     /\ K = {k \in 1 .. N : ~Closes(source, k)}
  OBVIOUS
<1>3. ASSUME NEW n \in 0 .. N
      PROVE  /\ {k \in 1 .. n : Opens(source, k)} = {k \in 1 .. n : k \in O}
             /\ {k \in 1 .. n : Closes(source, k)} = {k \in 1 .. n : k \in C}
             /\ {k \in 1 .. n : ~Closes(source, k)} = {k \in 1 .. n : k \in K}
  BY <1>1, <1>2
<1>4. ASSUME NEW n \in 0 .. N
      PROVE  /\ Height(source, n) = Cardinality({k \in 1 .. n : k \in O}) - Cardinality({k \in 1 .. n : k \in C})
             /\ Place(source, n) = Cardinality({k \in 1 .. n : k \in K})
  BY <1>3 DEF Height, Place
<1>5. 0 \in 0 .. N
  BY <1>1
<1>6. Height(source, 0) = 0 /\ Place(source, 0) = 0
  BY <1>4, <1>5, CountNone
<1>7. ASSUME NEW n \in 1 .. N
      PROVE  /\ Height(source, n - 1) \in Int /\ Height(source, n) \in Int
             /\ Place(source, n - 1) \in Nat /\ Place(source, n) \in Nat
             /\ Opens(source, n) => ~Closes(source, n) /\ Height(source, n) = Height(source, n - 1) + 1
             /\ Closes(source, n) => /\ Height(source, n) = Height(source, n - 1) - 1
                                     /\ Place(source, n) = Place(source, n - 1)
             /\ ~Closes(source, n) => Place(source, n) = Place(source, n - 1) + 1
             /\ ~Opens(source, n) /\ ~Closes(source, n) => Height(source, n) = Height(source, n - 1)
  <2>1. n \in Nat \ {0} /\ n \in 0 .. N /\ n - 1 \in 0 .. N
    BY <1>1
  <2>2. PICK a, b, c, d, e, f :
           /\ a = Cardinality({k \in 1 .. n : k \in O}) /\ b = Cardinality({k \in 1 .. n - 1 : k \in O})
           /\ c = Cardinality({k \in 1 .. n : k \in C}) /\ d = Cardinality({k \in 1 .. n - 1 : k \in C})
           /\ e = Cardinality({k \in 1 .. n : k \in K}) /\ f = Cardinality({k \in 1 .. n - 1 : k \in K})
    OBVIOUS
  <2>3. a \in Nat /\ b \in Nat /\ a = IF n \in O THEN b + 1 ELSE b
    BY <2>1, <2>2, CountNext
  <2>4. c \in Nat /\ d \in Nat /\ c = IF n \in C THEN d + 1 ELSE d
    BY <2>1, <2>2, CountNext
  <2>5. e \in Nat /\ f \in Nat /\ e = IF n \in K THEN f + 1 ELSE f
    BY <2>1, <2>2, CountNext
  <2>6. (n \in O <=> Opens(source, n)) /\ (n \in C <=> Closes(source, n)) /\ (n \in K <=> ~Closes(source, n))
    BY <1>2
  <2>7. Height(source, n) = a - c /\ Height(source, n - 1) = b - d
    BY <1>4, <2>1, <2>2
  <2>8. Place(source, n) = e /\ Place(source, n - 1) = f
    BY <1>4, <2>1, <2>2
  <2>9. Opens(source, n) => ~Closes(source, n)
    BY DEF Opens, Closes, Sections
  <2> HIDE DEF Opens, Closes
  <2> QED
    BY <2>3, <2>4, <2>5, <2>6, <2>7, <2>8, <2>9
<1> QED
  BY <1>1, <1>6, <1>7

\* The length of a source is a number.
LEMMA SourceLength == ASSUME NEW source, IsSource(source) PROVE Len(source) \in Nat
BY DEF IsSource

\* Places grow, and no two instructions have the same.
LEMMA PlacesGrow ==
    ASSUME NEW source, IsSource(source), NEW m \in 0 .. Len(source), NEW n \in 0 .. Len(source), m <= n
    PROVE  /\ Place(source, m) \in Nat /\ Place(source, n) \in Nat
           /\ Place(source, m) <= Place(source, n)
<1>1. PICK A, B : A = {k \in 1 .. m : ~Closes(source, k)} /\ B = {k \in 1 .. n : ~Closes(source, k)}
  OBVIOUS
<1>2. Len(source) \in Nat
  BY DEF IsSource
<1>3. n \in Int /\ IsFiniteSet(1 .. n) /\ B \subseteq 1 .. n
  BY <1>1, <1>2, FS_Interval
<1>4. IsFiniteSet(B)
  BY <1>3, FS_Subset
<1>5. A \subseteq B
  <2>1. \A k \in 1 .. m : k \in 1 .. n
    BY <1>2
  <2> HIDE DEF Closes
  <2> QED
    BY <1>1, <2>1
<1>6. IsFiniteSet(A) /\ Cardinality(A) <= Cardinality(B)
  BY <1>4, <1>5, FS_Subset
<1>7. Cardinality(A) \in Nat /\ Cardinality(B) \in Nat
  BY <1>4, <1>6, FS_CardinalityType
<1> QED
  BY <1>1, <1>6, <1>7 DEF Place

\* The instruction of a later token is a later one.
LEMMA PlacesApart ==
    ASSUME NEW source, IsSource(source), NEW k \in 1 .. Len(source), ~Closes(source, k)
    PROVE  /\ Place(source, k) \in Nat \ {0}
           /\ \A n \in k .. Len(source) : Place(source, k) <= Place(source, n)
           /\ \A i \in 1 .. k - 1 : Place(source, i) < Place(source, k)
           /\ \A i \in 1 .. Len(source) : ~Closes(source, i) /\ i # k => Place(source, i) # Place(source, k)
<1>1. PICK N : N = Len(source) /\ N \in Nat
  BY SourceLength
<1>2. \A i \in 1 .. N : /\ Place(source, i) \in Nat /\ Place(source, i - 1) \in Nat
                        /\ ~Closes(source, i) => Place(source, i) = Place(source, i - 1) + 1
  BY <1>1, CountTokens
<1>3. \A m, n \in 0 .. N : m <= n => Place(source, m) <= Place(source, n)
  BY <1>1, PlacesGrow
<1> HIDE DEF Closes
<1>4. ASSUME NEW i \in 1 .. N, NEW j \in 1 .. N, i < j, ~Closes(source, j)
      PROVE  Place(source, i) < Place(source, j)
  <2>1. i \in 0 .. N /\ j - 1 \in 0 .. N /\ i <= j - 1
    BY <1>1, <1>4
  <2>2. Place(source, i) <= Place(source, j - 1)
    BY <1>3, <2>1
  <2> QED
    BY <1>2, <1>4, <2>2
<1>5. Place(source, k) \in Nat \ {0}
  BY <1>1, <1>2
<1>6. \A n \in k .. N : Place(source, k) <= Place(source, n)
  BY <1>1, <1>3
<1>7. \A i \in 1 .. k - 1 : Place(source, i) < Place(source, k)
  BY <1>1, <1>4
<1>8. ASSUME NEW i \in 1 .. N, ~Closes(source, i), i # k PROVE Place(source, i) # Place(source, k)
  <2>1. i < k \/ k < i
    BY <1>1, <1>8
  <2> QED
    BY <1>1, <1>2, <1>4, <1>8, <2>1
<1> QED
  BY <1>1, <1>5, <1>6, <1>7, <1>8

-----------------------------------------------------------------------------
(* What the parser holds after n tokens.                                   *)

\* A section that is still open after n tokens.
Pending(source, i, n) ==
    Opens(source, i) /\ \A k \in i .. n : Height(source, k) >= Height(source, i)

\* One that is not, and its jump.
Matched(source, code, i, n) ==
    \E j \in i + 1 .. n : /\ Partner(source, i, j) /\ source[i].name = source[j].name
                          /\ code[Place(source, i)].jump = Place(source, j) + 1

\* The instructions are the tokens that end no section.
Written(source, code, n) ==
    /\ Len(code) = Place(source, n)
    /\ \A k \in 1 .. n : ~Closes(source, k) =>
          /\ code[Place(source, k)].type = source[k].kind
          /\ code[Place(source, k)].value = source[k].name

\* What a token has to be, but for the end of a section.
Proper(token) ==
    /\ token.kind \notin {"empty", "unclosed"}
    /\ token.kind \in {"var", "#", "^"} => template_variable_path(token.name)
    /\ token.kind = ">" => view_path_valid(token.name)

\* The stack holds the sections that are open, each at its height.
Stacked(source, open, n) ==
    /\ \A k \in 0 .. n : Height(source, k) >= 0
    /\ Len(open) = Height(source, n)
    /\ \A d \in 1 .. Len(open) :
          \E i \in 1 .. n : Pending(source, i, n) /\ Height(source, i) = d /\ open[d] = Place(source, i)

ParseInv(source, code, open, n) ==
    /\ Written(source, code, n) /\ Stacked(source, open, n)
    /\ \A i \in 1 .. n : Opens(source, i) => Pending(source, i, n) \/ Matched(source, code, i, n)
    /\ \A j \in 1 .. n : Closes(source, j) =>
          \E i \in 1 .. j - 1 : Partner(source, i, j) /\ source[i].name = source[j].name
    /\ \A k \in 1 .. n : ~Closes(source, k) => Proper(source[k])

\* At each height one section is open.
LEMMA PendingUnique ==
    ASSUME NEW source, IsSource(source), NEW n \in 1 .. Len(source), NEW i \in 1 .. n, NEW j \in 1 .. n,
           Pending(source, i, n), Pending(source, j, n), Height(source, i) = Height(source, j)
    PROVE  i = j
<1>1. PICK N : N = Len(source) /\ N \in Nat
  BY SourceLength
<1>2. ASSUME NEW a \in 1 .. n, NEW b \in 1 .. n, a < b, Pending(source, a, n), Pending(source, b, n),
             Height(source, a) = Height(source, b)
      PROVE  FALSE
  <2>1. b - 1 \in a .. n /\ b \in 1 .. N
    BY <1>1, <1>2
  <2>2. Height(source, b - 1) >= Height(source, a)
    BY <1>2, <2>1 DEF Pending
  <2>3. Height(source, b) = Height(source, b - 1) + 1 /\ Height(source, b) \in Int /\ Height(source, b - 1) \in Int
    BY <1>1, <1>2, <2>1, CountTokens DEF Pending
  <2> QED
    BY <1>2, <2>2, <2>3
<1>3. i < j \/ j < i \/ i = j
  BY <1>1
<1> QED
  BY <1>2, <1>3

\* A token that ends the innermost section.
LEMMA ParseClosing ==
    ASSUME NEW source, IsSource(source), NEW n \in 1 .. Len(source),
           NEW parser \in ParserOf(source), ParseInv(source, parser.code, parser.open, n - 1),
           Closes(source, n), ClosesInnermost(parser, source[n].name)
    PROVE  ParseInv(source, SectionClosed(parser).code, SectionClosed(parser).open, n)
<1>1. PICK N : N = Len(source) /\ N \in Nat /\ n \in 1 .. N
  BY SourceLength
<1>2. PICK old, code, open, left :
         /\ old = parser.code /\ open = parser.open
         /\ code = SectionClosed(parser).code /\ left = SectionClosed(parser).open
  OBVIOUS
<1>3. open # <<>>
  BY <1>2 DEF ClosesInnermost
<1>4. PICK last : last = Last(open)
  OBVIOUS
<1>5. /\ left = Front(open) /\ Len(code) = Len(old)
      /\ last \in DOMAIN old /\ last = open[Len(open)]
      /\ code[last].type = old[last].type /\ code[last].value = old[last].value
      /\ code[last].jump = Len(old) + 1
      /\ \A i \in DOMAIN old \ {last} : code[i] = old[i]
  BY <1>2, <1>3, <1>4, ClosedFields
<1>6. open \in Seq(Nat) /\ DOMAIN old = 1 .. Len(old) /\ Len(old) \in Nat
  <2>1. PICK C : C = CodeOf(source)
    OBVIOUS
  <2>2. parser \in [ok : BOOLEAN, code : C, open : Seq(Nat)]
    BY <2>1 DEF ParserOf
  <2>3. old \in Seq(InstructionOf(source))
    BY <1>2, <2>1, <2>2 DEF CodeOf
  <2> QED
    BY <1>2, <2>2, <2>3
<1>7. PICK d : /\ d = Len(open) /\ d \in Nat \ {0} /\ Len(left) = d - 1
               /\ \A e \in 1 .. d - 1 : left[e] = open[e]
  <2>1. /\ Len(open) \in Nat \ {0} /\ Len(Front(open)) = Len(open) - 1
        /\ \A e \in 1 .. Len(open) - 1 : Front(open)[e] = open[e]
    BY <1>3, <1>6, FrontFields
  <2> QED
    BY <1>5, <2>1
<1>8. ParseInv(source, old, open, n - 1)
  BY <1>2
<1>9. /\ Written(source, old, n - 1)
      /\ \A k \in 0 .. n - 1 : Height(source, k) >= 0
      /\ d = Height(source, n - 1)
      /\ \A e \in 1 .. d : \E i \in 1 .. n - 1 :
            Pending(source, i, n - 1) /\ Height(source, i) = e /\ open[e] = Place(source, i)
  BY <1>7, <1>8 DEF ParseInv, Stacked
<1>10. /\ Height(source, n) = d - 1 /\ Place(source, n) = Place(source, n - 1)
       /\ \A k \in 0 .. n : Height(source, k) \in Int
  <2>1. Height(source, 0) = 0 /\ \A k \in 1 .. N : Height(source, k) \in Int
    BY <1>1, CountTokens
  <2>2. Height(source, n) = Height(source, n - 1) - 1 /\ Place(source, n) = Place(source, n - 1)
    BY <1>1, CountTokens
  <2>3. \A k \in 0 .. n : k = 0 \/ k \in 1 .. N
    BY <1>1
  <2> QED
    BY <1>9, <2>1, <2>2, <2>3
<1>11. PICK top \in 1 .. n - 1 : Pending(source, top, n - 1) /\ Height(source, top) = d /\ last = Place(source, top)
  BY <1>5, <1>7, <1>9
<1>12. Opens(source, top) /\ ~Closes(source, top) /\ Height(source, top - 1) = d - 1 /\ top \in 1 .. N
  BY <1>1, <1>11, CountTokens DEF Pending
<1> HIDE DEF Opens, Closes
<1>13. source[top].name = source[n].name
  <2>1. old[last].value = source[top].name
    BY <1>9, <1>11, <1>12 DEF Written
  <2>2. source[n].name = old[last].value
    BY <1>2, <1>4 DEF ClosesInnermost
  <2> QED
    BY <2>1, <2>2
<1>14. Partner(source, top, n)
  <2>1. \A k \in top .. n - 1 : Height(source, k) > d - 1
    <3>1. \A k \in top .. n - 1 : Height(source, k) >= d /\ k \in 0 .. n
      BY <1>1, <1>11 DEF Pending
    <3> QED
      BY <1>7, <1>10, <3>1
  <2> QED
    BY <1>1, <1>10, <1>12, <2>1 DEF Partner
<1>15. Matched(source, code, top, n)
  <2>1. Len(old) = Place(source, n)
    BY <1>9, <1>10 DEF Written
  <2>2. n \in top + 1 .. n
    BY <1>1
  <2> QED
    BY <1>5, <1>11, <1>13, <1>14, <2>1, <2>2 DEF Matched
<1>16. ASSUME NEW i \in 1 .. n - 1, i # top, ~Closes(source, i)
       PROVE  code[Place(source, i)] = old[Place(source, i)]
  <2>1. i \in 1 .. N /\ n - 1 \in i .. N
    BY <1>1
  <2>2. /\ Place(source, i) # last /\ Place(source, i) \in Nat \ {0}
        /\ Place(source, i) <= Place(source, n - 1)
    BY <1>1, <1>11, <1>12, <1>16, <2>1, PlacesApart
  <2>3. Place(source, n - 1) = Len(old)
    BY <1>9 DEF Written
  <2>4. Place(source, i) \in DOMAIN old
    BY <1>6, <2>2, <2>3
  <2> QED
    BY <1>5, <2>2, <2>4
<1>17. Written(source, code, n)
  <2>1. Len(code) = Place(source, n)
    BY <1>5, <1>9, <1>10 DEF Written
  <2>2. ASSUME NEW k \in 1 .. n, ~Closes(source, k)
        PROVE  code[Place(source, k)].type = source[k].kind /\ code[Place(source, k)].value = source[k].name
    <3>1. k \in 1 .. n - 1
      BY <1>1, <2>2
    <3>2. old[Place(source, k)].type = source[k].kind /\ old[Place(source, k)].value = source[k].name
      BY <1>9, <2>2, <3>1 DEF Written
    <3>3. CASE k = top
      BY <1>5, <1>11, <3>2, <3>3
    <3>4. CASE k # top
      BY <1>16, <2>2, <3>1, <3>2, <3>4
    <3> QED
      BY <3>3, <3>4
  <2> QED
    BY <2>1, <2>2 DEF Written
<1>18. ASSUME NEW i \in 1 .. n - 1, Pending(source, i, n - 1), Height(source, i) <= d - 1
       PROVE  Pending(source, i, n)
  <2>1. ASSUME NEW k \in i .. n PROVE Height(source, k) >= Height(source, i)
    <3>1. k \in i .. n - 1 \/ k = n
      BY <1>1
    <3>2. i \in 0 .. n
      BY <1>1
    <3> QED
      BY <1>7, <1>10, <1>18, <3>1, <3>2 DEF Pending
  <2> QED
    BY <1>18, <2>1 DEF Pending
<1>19. Stacked(source, left, n)
  <2>1. \A k \in 0 .. n : Height(source, k) >= 0
    <3>1. \A k \in 0 .. n : k \in 0 .. n - 1 \/ k = n
      BY <1>1
    <3> QED
      BY <1>7, <1>9, <1>10, <3>1
  <2>2. ASSUME NEW e \in 1 .. Len(left)
        PROVE  \E i \in 1 .. n : Pending(source, i, n) /\ Height(source, i) = e /\ left[e] = Place(source, i)
    <3>1. e \in 1 .. d /\ e <= d - 1 /\ e \in 1 .. d - 1
      BY <1>7
    <3>2. PICK i \in 1 .. n - 1 : Pending(source, i, n - 1) /\ Height(source, i) = e /\ open[e] = Place(source, i)
      BY <1>9, <3>1
    <3>3. Pending(source, i, n) /\ i \in 1 .. n
      BY <1>1, <1>18, <3>1, <3>2
    <3> QED
      BY <1>7, <3>1, <3>2, <3>3
  <2> QED
    BY <1>7, <1>10, <2>1, <2>2 DEF Stacked
<1>20. ASSUME NEW i \in 1 .. n, Opens(source, i)
       PROVE  Pending(source, i, n) \/ Matched(source, code, i, n)
  <2>1. i \in 1 .. n - 1 /\ ~Closes(source, i)
    <3>1. ~Closes(source, i)
      BY <1>1, <1>20, CountTokens
    <3> QED
      BY <1>1, <3>1
  <2>2. CASE i = top
    BY <1>15, <2>2
  <2>3. CASE i # top
    <3>1. CASE Pending(source, i, n - 1)
      <4>1. n - 1 \in 1 .. N /\ n - 1 \in i .. n - 1
        BY <1>1, <2>1
      <4>2. Height(source, n - 1) >= Height(source, i) /\ Height(source, i) \in Int
        BY <1>10, <3>1, <4>1 DEF Pending
      <4>3. Height(source, i) # d
        BY <1>1, <1>11, <2>1, <2>3, <3>1, <4>1, PendingUnique
      <4>4. Height(source, i) <= d - 1
        BY <1>7, <1>9, <4>2, <4>3
      <4> QED
        BY <1>18, <2>1, <3>1, <4>4
    <3>2. CASE Matched(source, old, i, n - 1)
      <4>1. PICK j \in i + 1 .. n - 1 : /\ Partner(source, i, j) /\ source[i].name = source[j].name
                                        /\ old[Place(source, i)].jump = Place(source, j) + 1
        BY <3>2 DEF Matched
      <4>2. j \in i + 1 .. n
        BY <1>1, <2>1
      <4>3. code[Place(source, i)].jump = Place(source, j) + 1
        BY <1>16, <2>1, <2>3, <4>1
      <4> QED
        BY <4>1, <4>2, <4>3 DEF Matched
    <3> QED
      BY <1>8, <1>20, <2>1, <3>1, <3>2 DEF ParseInv
  <2> QED
    BY <2>2, <2>3
<1>21. \A j \in 1 .. n : Closes(source, j) =>
          \E i \in 1 .. j - 1 : Partner(source, i, j) /\ source[i].name = source[j].name
  <2>1. \A j \in 1 .. n : j = n \/ j \in 1 .. n - 1
    BY <1>1
  <2>2. top \in 1 .. n - 1 /\ Partner(source, top, n) /\ source[top].name = source[n].name
    BY <1>13, <1>14
  <2>3. \A j \in 1 .. n - 1 : Closes(source, j) =>
          \E i \in 1 .. j - 1 : Partner(source, i, j) /\ source[i].name = source[j].name
    BY <1>8 DEF ParseInv
  <2> QED
    BY <2>1, <2>2, <2>3
<1>22. \A k \in 1 .. n : ~Closes(source, k) => Proper(source[k])
  <2>1. \A k \in 1 .. n : k = n \/ k \in 1 .. n - 1
    BY <1>1
  <2> QED
    BY <1>8, <2>1 DEF ParseInv
<1> QED
  BY <1>2, <1>17, <1>19, <1>20, <1>21, <1>22 DEF ParseInv

\* Any other token.
LEMMA ParsePushing ==
    ASSUME NEW source, IsSource(source), NEW n \in 1 .. Len(source),
           NEW parser \in ParserOf(source), ParseInv(source, parser.code, parser.open, n - 1),
           ~Closes(source, n), Proper(source[n])
    PROVE  ParseInv(source, Pushed(parser, source[n]).code, Pushed(parser, source[n]).open, n)
<1>1. PICK N : N = Len(source) /\ N \in Nat /\ n \in 1 .. N
  BY SourceLength
<1>2. PICK old, code, open, left, pushed :
         /\ pushed = Pushed(parser, source[n])
         /\ old = parser.code /\ open = parser.open /\ code = pushed.code /\ left = pushed.open
  OBVIOUS
<1>3. source[n].kind \notin {"/", "empty", "unclosed"} /\ (source[n].kind = ">" => view_path_valid(source[n].name))
  BY DEF Closes, Proper
<1>4. PICK place : place = Len(old) + 1
  OBVIOUS
<1>5. /\ Len(code) = place
      /\ code[place].type = source[n].kind /\ code[place].value = source[n].name
      /\ \A i \in DOMAIN old : code[i] = old[i]
      /\ left = IF source[n].kind \in Sections THEN Append(open, place) ELSE open
  BY <1>2, <1>3, <1>4, PushedFields
<1>6. open \in Seq(Nat) /\ DOMAIN old = 1 .. Len(old) /\ Len(old) \in Nat
  <2>1. PICK C : C = CodeOf(source)
    OBVIOUS
  <2>2. parser \in [ok : BOOLEAN, code : C, open : Seq(Nat)]
    BY <2>1 DEF ParserOf
  <2>3. old \in Seq(InstructionOf(source))
    BY <1>2, <2>1, <2>2 DEF CodeOf
  <2> QED
    BY <1>2, <2>2, <2>3
<1>7. PICK d : d = Len(open) /\ d \in Nat
  BY <1>6
<1>8. ParseInv(source, old, open, n - 1)
  BY <1>2
<1>9. /\ Written(source, old, n - 1)
      /\ \A k \in 0 .. n - 1 : Height(source, k) >= 0
      /\ d = Height(source, n - 1)
      /\ \A e \in 1 .. d : \E i \in 1 .. n - 1 :
            Pending(source, i, n - 1) /\ Height(source, i) = e /\ open[e] = Place(source, i)
  BY <1>7, <1>8 DEF ParseInv, Stacked
<1>10. /\ Opens(source, n) => Height(source, n) = d + 1
       /\ ~Opens(source, n) => Height(source, n) = d
       /\ Place(source, n) = Place(source, n - 1) + 1
       /\ \A k \in 0 .. n : Height(source, k) \in Int
  <2>1. Height(source, 0) = 0 /\ \A k \in 1 .. N : Height(source, k) \in Int
    BY <1>1, CountTokens
  <2>2. /\ Opens(source, n) => Height(source, n) = Height(source, n - 1) + 1
        /\ ~Opens(source, n) => Height(source, n) = Height(source, n - 1)
        /\ Place(source, n) = Place(source, n - 1) + 1
    BY <1>1, CountTokens
  <2>3. \A k \in 0 .. n : k = 0 \/ k \in 1 .. N
    BY <1>1
  <2> QED
    BY <1>9, <2>1, <2>2, <2>3
<1>11. Place(source, n) = place
  BY <1>4, <1>9, <1>10 DEF Written
<1>12. left = IF Opens(source, n) THEN Append(open, place) ELSE open
  BY <1>5 DEF Opens
<1> HIDE DEF Opens, Closes
<1>13. ASSUME NEW i \in 1 .. n - 1, ~Closes(source, i)
       PROVE  code[Place(source, i)] = old[Place(source, i)]
  <2>1. i \in 1 .. N /\ n - 1 \in i .. N
    BY <1>1
  <2>2. Place(source, i) \in Nat \ {0} /\ Place(source, i) <= Place(source, n - 1)
    BY <1>1, <1>13, <2>1, PlacesApart
  <2>3. Place(source, n - 1) = Len(old)
    BY <1>9 DEF Written
  <2>4. Place(source, i) \in DOMAIN old
    BY <1>6, <2>2, <2>3
  <2> QED
    BY <1>5, <2>4
<1>14. Written(source, code, n)
  <2>1. Len(code) = Place(source, n)
    BY <1>5, <1>11
  <2>2. ASSUME NEW k \in 1 .. n, ~Closes(source, k)
        PROVE  code[Place(source, k)].type = source[k].kind /\ code[Place(source, k)].value = source[k].name
    <3>1. CASE k = n
      BY <1>5, <1>11, <3>1
    <3>2. CASE k \in 1 .. n - 1
      <4>1. old[Place(source, k)].type = source[k].kind /\ old[Place(source, k)].value = source[k].name
        BY <1>9, <2>2, <3>2 DEF Written
      <4> QED
        BY <1>13, <2>2, <3>2, <4>1
    <3> QED
      BY <1>1, <3>1, <3>2
  <2> QED
    BY <2>1, <2>2 DEF Written
<1>15. ASSUME NEW i \in 1 .. n - 1, Pending(source, i, n - 1)
       PROVE  Pending(source, i, n)
  <2>1. n - 1 \in i .. n - 1 /\ i \in 0 .. n
    BY <1>1
  <2>2. Height(source, n - 1) >= Height(source, i)
    BY <1>15, <2>1 DEF Pending
  <2>3. ASSUME NEW k \in i .. n PROVE Height(source, k) >= Height(source, i)
    <3>1. k \in i .. n - 1 \/ k = n
      BY <1>1
    <3> QED
      BY <1>7, <1>9, <1>10, <1>15, <2>1, <2>2, <3>1 DEF Pending
  <2> QED
    BY <1>15, <2>3 DEF Pending
<1>16. ASSUME Opens(source, n) PROVE Pending(source, n, n)
  <2>1. \A k \in n .. n : Height(source, k) >= Height(source, n)
    <3>1. \A k \in n .. n : k = n
      BY <1>1
    <3>2. Height(source, n) \in Int
      BY <1>7, <1>10, <1>16
    <3> QED
      BY <3>1, <3>2
  <2> QED
    BY <1>16, <2>1 DEF Pending
<1>17. ASSUME NEW e \in 1 .. d
       PROVE  \E i \in 1 .. n : Pending(source, i, n) /\ Height(source, i) = e /\ open[e] = Place(source, i)
  <2>1. PICK i \in 1 .. n - 1 : Pending(source, i, n - 1) /\ Height(source, i) = e /\ open[e] = Place(source, i)
    BY <1>9
  <2>2. i \in 1 .. n
    BY <1>1
  <2> QED
    BY <1>15, <2>1, <2>2
<1>18. Stacked(source, left, n)
  <2>1. \A k \in 0 .. n : Height(source, k) >= 0
    <3>1. \A k \in 0 .. n : k \in 0 .. n - 1 \/ k = n
      BY <1>1
    <3> QED
      BY <1>7, <1>9, <1>10, <3>1
  <2>2. CASE ~Opens(source, n)
    BY <1>7, <1>10, <1>12, <1>17, <2>1, <2>2 DEF Stacked
  <2>3. CASE Opens(source, n)
    <3>1. place \in Nat
      BY <1>4, <1>6
    <3>2. /\ Len(left) = d + 1 /\ left[d + 1] = place /\ \A e \in 1 .. d : left[e] = open[e]
      BY <1>6, <1>7, <1>12, <2>3, <3>1, AppendFields
    <3>3. \A e \in 1 .. Len(left) : e = d + 1 \/ e \in 1 .. d
      BY <1>7, <3>2
    <3>4. Pending(source, n, n) /\ Height(source, n) = d + 1 /\ left[d + 1] = Place(source, n) /\ n \in 1 .. n
      BY <1>1, <1>10, <1>11, <1>16, <2>3, <3>2
    <3> QED
      BY <1>10, <1>17, <2>1, <2>3, <3>2, <3>3, <3>4 DEF Stacked
  <2> QED
    BY <2>2, <2>3
<1>19. ASSUME NEW i \in 1 .. n, Opens(source, i)
       PROVE  Pending(source, i, n) \/ Matched(source, code, i, n)
  <2>1. CASE i = n
    BY <1>16, <1>19, <2>1
  <2>2. CASE i # n
    <3>1. i \in 1 .. n - 1 /\ ~Closes(source, i)
      <4>1. i \in 1 .. N
        BY <1>1
      <4>2. ~Closes(source, i)
        BY <1>1, <1>19, <4>1, CountTokens
      <4> QED
        BY <1>1, <2>2, <4>2
    <3>2. CASE Pending(source, i, n - 1)
      BY <1>15, <3>1, <3>2
    <3>3. CASE Matched(source, old, i, n - 1)
      <4>1. PICK j \in i + 1 .. n - 1 : /\ Partner(source, i, j) /\ source[i].name = source[j].name
                                        /\ old[Place(source, i)].jump = Place(source, j) + 1
        BY <3>3 DEF Matched
      <4>2. j \in i + 1 .. n
        BY <1>1, <3>1
      <4>3. code[Place(source, i)].jump = Place(source, j) + 1
        BY <1>13, <3>1, <4>1
      <4> QED
        BY <4>1, <4>2, <4>3 DEF Matched
    <3> QED
      BY <1>8, <1>19, <3>1, <3>2, <3>3 DEF ParseInv
  <2> QED
    BY <2>1, <2>2
<1>20. \A j \in 1 .. n : j = n \/ j \in 1 .. n - 1
  BY <1>1
<1>21. \A j \in 1 .. n : Closes(source, j) =>
          \E i \in 1 .. j - 1 : Partner(source, i, j) /\ source[i].name = source[j].name
  BY <1>8, <1>20 DEF ParseInv
<1>22. \A k \in 1 .. n : ~Closes(source, k) => Proper(source[k])
  BY <1>8, <1>20 DEF ParseInv
<1> QED
  BY <1>2, <1>14, <1>18, <1>19, <1>21, <1>22 DEF ParseInv

\* Before the first token.
LEMMA ParseBegins == ASSUME NEW source, IsSource(source) PROVE ParseInv(source, <<>>, <<>>, 0)
<1>1. Height(source, 0) = 0 /\ Place(source, 0) = 0
  BY CountTokens
<1>2. Len(<<>>) = 0 /\ \A k \in 0 .. 0 : k = 0
  OBVIOUS
<1>3. Written(source, <<>>, 0)
  BY <1>1, <1>2 DEF Written
<1>4. Stacked(source, <<>>, 0)
  BY <1>1, <1>2 DEF Stacked
<1> QED
  BY <1>3, <1>4 DEF ParseInv

\* The next token that is no error.
LEMMA ParseNext ==
    ASSUME NEW source, IsSource(source), NEW n \in 1 .. Len(source),
           NEW parser \in ParserOf(source), ParseInv(source, parser.code, parser.open, n - 1),
           NEW next, next = TokenParsed(parser, source[n]), next.ok
    PROVE  ParseInv(source, next.code, next.open, n)
<1>1. parser.ok /\ Accepted(parser, source[n])
  BY DEF TokenParsed, Unparsed
<1>2. CASE Closes(source, n)
  <2>1. ClosesInnermost(parser, source[n].name)
    BY <1>1, <1>2 DEF Closes, Accepted, Sections
  <2>2. next = SectionClosed(parser)
    BY <1>1, <1>2 DEF TokenParsed, Closes
  <2> QED
    BY <1>2, <2>1, <2>2, ParseClosing
<1>3. CASE ~Closes(source, n)
  <2>1. Proper(source[n])
    BY <1>1, <1>3 DEF Closes, Accepted, Sections, Proper
  <2>2. next = Pushed(parser, source[n])
    BY <1>1, <1>3 DEF TokenParsed, Closes
  <2> QED
    BY <1>3, <2>1, <2>2, ParsePushing
<1> QED
  BY <1>2, <1>3

\* The parser after each token.
IsParse(source, after) ==
    /\ after \in [0 .. Len(source) -> ParserOf(source)] /\ after[0] = Begin
    /\ \A n \in 1 .. Len(source) : after[n] = TokenParsed(after[n - 1], source[n])

\* As long as there is no error.
LEMMA Parses ==
    ASSUME NEW source, IsSource(source), NEW after, IsParse(source, after)
    PROVE  \A n \in 0 .. Len(source) : after[n].ok => ParseInv(source, after[n].code, after[n].open, n)
<1>5. PICK N : N = Len(source)
  OBVIOUS
<1>6. /\ after \in [0 .. N -> ParserOf(source)] /\ after[0] = Begin
      /\ \A n \in 1 .. N : after[n] = TokenParsed(after[n - 1], source[n])
  BY <1>5 DEF IsParse
<1> DEFINE S == {n \in 0 .. N : after[n].ok => ParseInv(source, after[n].code, after[n].open, n)}
<1>1. N \in Nat
  BY <1>5, SourceLength
<1>2. 0 \in S
  BY <1>1, <1>6, ParseBegins DEF Begin
<1>3. ASSUME NEW n \in 0 .. N - 1, n \in S PROVE n + 1 \in S
  <2>1. n + 1 \in 1 .. Len(source) /\ (n + 1) - 1 = n /\ n \in 0 .. N /\ n + 1 \in 0 .. N
    BY <1>1, <1>5
  <2>2. PICK parser, next : /\ parser = after[n] /\ next = after[n + 1] /\ parser \in ParserOf(source)
                            /\ next = TokenParsed(parser, source[n + 1])
    BY <1>5, <1>6, <2>1
  <2>3. ASSUME next.ok PROVE ParseInv(source, next.code, next.open, n + 1)
    <3>1. parser.ok
      BY <2>2, <2>3 DEF TokenParsed, Unparsed
    <3>2. ParseInv(source, parser.code, parser.open, (n + 1) - 1)
      BY <1>3, <2>1, <2>2, <3>1
    <3> QED
      BY <2>1, <2>2, <2>3, <3>2, ParseNext
  <2> QED
    BY <2>1, <2>2, <2>3
<1>4. 0 .. N \subseteq S
  <2> HIDE DEF S
  <2> QED
    BY <1>1, <1>2, <1>3, IntervalInduction
<1> QED
  BY <1>4, <1>5

\* The places of a source.
LEMMA SourceDomain ==
    ASSUME NEW source, IsSource(source)
    PROVE  Len(source) \in Nat /\ DOMAIN source = 1 .. Len(source)
<1>1. PICK T : T = [kind : TokenKinds, name : Seq(STRING)]
  OBVIOUS
<1>2. source \in Seq(T)
  BY <1>1 DEF IsSource
<1> QED
  BY <1>2

\* A program, the whole source having been parsed without an error.
Compiled(source, code) ==
    /\ Written(source, code, Len(source))
    /\ Height(source, Len(source)) = 0 /\ \A k \in 0 .. Len(source) : Height(source, k) >= 0
    /\ \A i \in 1 .. Len(source) : Opens(source, i) => Matched(source, code, i, Len(source))
    /\ \A j \in 1 .. Len(source) : Closes(source, j) =>
          \E i \in 1 .. j - 1 : Partner(source, i, j) /\ source[i].name = source[j].name
    /\ \A k \in 1 .. Len(source) : ~Closes(source, k) => Proper(source[k])

\* Before a section, one less is open.
LEMMA HeightInside ==
    ASSUME NEW source, IsSource(source), NEW i \in 1 .. Len(source), Opens(source, i)
    PROVE  /\ Height(source, i) = Height(source, i - 1) + 1 /\ ~Closes(source, i)
           /\ Height(source, i) \in Int /\ Height(source, i - 1) \in Int
<1>1. PICK N : N = Len(source) /\ i \in 1 .. N
  OBVIOUS
<1> HIDE DEF Opens, Closes
<1>2. \A n \in 1 .. N :
         /\ Height(source, n - 1) \in Int /\ Height(source, n) \in Int
         /\ Opens(source, n) => ~Closes(source, n) /\ Height(source, n) = Height(source, n - 1) + 1
  BY <1>1, CountTokens
<1> QED
  BY <1>1, <1>2

\* The parser accepts no source but those.
LEMMA ParsedCompiled ==
    ASSUME NEW source, IsSource(source), template_parse(source).ok
    PROVE  Compiled(source, template_parse(source).code)
<1>1. PICK N : N = Len(source) /\ N \in Nat
  BY SourceLength
<1>2. PICK after \in [0 .. N -> ParserOf(source)] : Parsers(source) = after /\ IsParse(source, after)
  BY <1>1, ParsersDefined DEF IsParse
<1>3. PICK last : last = after[N] /\ template_parse(source) = Parsed(last)
  BY <1>1, <1>2 DEF template_parse
<1>4. last.ok /\ last.open = <<>> /\ template_parse(source) = last
  BY <1>3 DEF Parsed, Unparsed
<1>5. PICK code, open : code = last.code /\ open = last.open
  OBVIOUS
<1>6. ParseInv(source, code, open, N)
  <2>1. N \in 0 .. N
    BY <1>1
  <2> QED
    BY <1>1, <1>2, <1>3, <1>4, <1>5, <2>1, Parses
<1>7. Height(source, N) = 0 /\ \A k \in 0 .. N : Height(source, k) >= 0
  BY <1>4, <1>5, <1>6 DEF ParseInv, Stacked
<1>8. ASSUME NEW i \in 1 .. N, Opens(source, i) PROVE Matched(source, code, i, N)
  <2>1. Height(source, i) = Height(source, i - 1) + 1 /\ Height(source, i - 1) \in Int
    BY <1>1, <1>8, HeightInside
  <2>2. i - 1 \in 0 .. N /\ N \in i .. N
    BY <1>1
  <2>3. Height(source, i) > 0
    BY <1>7, <2>1, <2>2
  <2>4. ~Pending(source, i, N)
    BY <1>7, <2>1, <2>2, <2>3 DEF Pending
  <2> QED
    BY <1>6, <1>8, <2>4 DEF ParseInv
<1> QED
  BY <1>1, <1>4, <1>5, <1>6, <1>7, <1>8 DEF Compiled, ParseInv

\* What it accepts is well formed.
LEMMA CompiledWellFormed ==
    ASSUME NEW source, IsSource(source), NEW code, Compiled(source, code)
    PROVE  WellFormed(source)
<1>1. PICK N : N = Len(source) /\ N \in Nat /\ DOMAIN source = 1 .. N
  BY SourceDomain
<1>2. ASSUME NEW i \in 1 .. N
      PROVE  CASE source[i].kind \in {"text", "yield"} -> TRUE
               [] source[i].kind = ">" -> view_path_valid(source[i].name)
               [] source[i].kind \in {"empty", "unclosed"} -> FALSE
               [] OTHER -> template_variable_path(source[i].name)
  <2>1. source[i].kind \in TokenKinds
    BY <1>1, TokenType
  <2>2. CASE Closes(source, i)
    <3>1. PICK j \in 1 .. i - 1 : Partner(source, j, i) /\ source[j].name = source[i].name
      BY <1>1, <2>2 DEF Compiled
    <3>2. Opens(source, j) /\ j \in 1 .. N
      BY <1>1, <3>1 DEF Partner
    <3>3. ~Closes(source, j)
      BY <1>1, <3>2, HeightInside
    <3>4. Proper(source[j])
      BY <1>1, <3>2, <3>3 DEF Compiled
    <3>5. template_variable_path(source[j].name)
      BY <3>2, <3>4 DEF Proper, Opens, Sections
    <3> QED
      BY <2>2, <3>1, <3>5 DEF Closes
  <2>3. CASE ~Closes(source, i)
    <3>1. Proper(source[i])
      BY <1>1, <2>3 DEF Compiled
    <3> QED
      BY <2>1, <2>3, <3>1 DEF Proper, Closes, TokenKinds
  <2> QED
    BY <2>2, <2>3
<1>3. ASSUME NEW i \in 1 .. N, Opens(source, i)
      PROVE  \E j \in 1 .. N : Partner(source, i, j) /\ source[i].name = source[j].name
  <2>1. Matched(source, code, i, N)
    BY <1>1, <1>3 DEF Compiled
  <2>2. PICK j \in i + 1 .. N : Partner(source, i, j) /\ source[i].name = source[j].name
    BY <2>1 DEF Matched
  <2>3. j \in 1 .. N
    BY <1>1
  <2> QED
    BY <2>2, <2>3
<1>4. ASSUME NEW j \in 1 .. N, Closes(source, j) PROVE \E i \in 1 .. N : Partner(source, i, j)
  <2>1. PICK i \in 1 .. j - 1 : Partner(source, i, j)
    BY <1>1, <1>4 DEF Compiled
  <2>2. i \in 1 .. N
    BY <1>1
  <2> QED
    BY <2>1, <2>2
<1>5. \A i \in DOMAIN source :
         CASE source[i].kind \in {"text", "yield"} -> TRUE
           [] source[i].kind = ">" -> view_path_valid(source[i].name)
           [] source[i].kind \in {"empty", "unclosed"} -> FALSE
           [] OTHER -> template_variable_path(source[i].name)
  BY <1>1, <1>2
<1> HIDE DEF Opens, Closes, Partner
<1>6. \A i \in DOMAIN source : Opens(source, i) =>
         \E j \in DOMAIN source : Partner(source, i, j) /\ source[i].name = source[j].name
  BY <1>1, <1>3
<1>7. \A j \in DOMAIN source : Closes(source, j) => \E i \in DOMAIN source : Partner(source, i, j)
  BY <1>1, <1>4
<1> QED
  BY <1>5, <1>6, <1>7 DEF WellFormed

\* A section has one end.
LEMMA PartnerUnique ==
    ASSUME NEW source, IsSource(source), NEW i \in 1 .. Len(source), NEW j \in 1 .. Len(source),
           NEW k \in 1 .. Len(source), Partner(source, i, j), Partner(source, i, k)
    PROVE  j = k
<1>1. PICK N : N = Len(source) /\ N \in Nat
  BY SourceLength
<1>2. ASSUME NEW a \in 1 .. N, NEW b \in 1 .. N, a < b, Partner(source, i, a), Partner(source, i, b) PROVE FALSE
  <2>1. a \in i .. b - 1
    BY <1>1, <1>2 DEF Partner
  <2>2. Height(source, a) > Height(source, i - 1) /\ Height(source, a) = Height(source, i - 1)
    BY <1>2, <2>1 DEF Partner
  <2>3. Opens(source, i)
    BY DEF Partner
  <2>4. Height(source, i - 1) \in Int
    BY <2>3, HeightInside
  <2> QED
    BY <2>2, <2>4
<1>3. j < k \/ k < j \/ j = k
  BY <1>1
<1> QED
  BY <1>1, <1>2, <1>3

\* Where a section ends, and where its jump goes.
LEMMA SectionEnds ==
    ASSUME NEW source, IsSource(source), NEW code, Compiled(source, code),
           NEW i \in 1 .. Len(source), Opens(source, i)
    PROVE  /\ EndOf(source, i) \in i + 1 .. Len(source)
           /\ Partner(source, i, EndOf(source, i))
           /\ Closes(source, EndOf(source, i))
           /\ code[Place(source, i)].jump = Place(source, EndOf(source, i)) + 1
<1>1. PICK N : N = Len(source) /\ N \in Nat /\ DOMAIN source = 1 .. N
  BY SourceDomain
<1>2. PICK j \in i + 1 .. N : /\ Partner(source, i, j) /\ source[i].name = source[j].name
                              /\ code[Place(source, i)].jump = Place(source, j) + 1
  BY <1>1 DEF Compiled, Matched
<1>3. j \in 1 .. N
  BY <1>1
<1>4. PICK k : k = EndOf(source, i)
  OBVIOUS
<1>5. k \in 1 .. N /\ Partner(source, i, k)
  BY <1>1, <1>2, <1>3, <1>4 DEF EndOf
<1>6. k = j
  BY <1>1, <1>2, <1>3, <1>5, PartnerUnique
<1>7. Closes(source, j)
  <2>1. j - 1 \in i .. j - 1
    BY <1>1
  <2>2. Height(source, j - 1) > Height(source, i - 1) /\ Height(source, j) = Height(source, i - 1)
    BY <1>2, <2>1 DEF Partner
  <2> HIDE DEF Opens, Closes
  <2>3. /\ Opens(source, j) => Height(source, j) = Height(source, j - 1) + 1
        /\ ~Opens(source, j) /\ ~Closes(source, j) => Height(source, j) = Height(source, j - 1)
        /\ Height(source, j) \in Int /\ Height(source, j - 1) \in Int
    BY <1>1, <1>3, CountTokens
  <2> QED
    BY <2>2, <2>3
<1> QED
  BY <1>1, <1>2, <1>4, <1>6, <1>7

\* A token that ends a section of a well-formed source ends the innermost one.
LEMMA EndAccepted ==
    ASSUME NEW source, IsSource(source), WellFormed(source), NEW n \in 1 .. Len(source),
           NEW parser, ParseInv(source, parser.code, parser.open, n - 1), Closes(source, n),
           parser.open \in Seq(Nat)
    PROVE  ClosesInnermost(parser, source[n].name)
<1>1. PICK N : N = Len(source) /\ N \in Nat /\ DOMAIN source = 1 .. N
  BY SourceDomain
<1>2. PICK code, open : code = parser.code /\ open = parser.open /\ open \in Seq(Nat)
  OBVIOUS
<1>3. ParseInv(source, code, open, n - 1)
  BY <1>2
<1>4. PICK i \in 1 .. N : Partner(source, i, n)
  BY <1>1 DEF WellFormed
<1>5. i \in 1 .. n - 1 /\ Opens(source, i)
  BY <1>1, <1>4 DEF Partner
<1>6. PICK j \in 1 .. N : Partner(source, i, j) /\ source[i].name = source[j].name
  BY <1>1, <1>4, <1>5 DEF WellFormed
<1>7. source[i].name = source[n].name
  <2>1. j = n
    BY <1>1, <1>4, <1>6, PartnerUnique
  <2> QED
    BY <1>6, <2>1
<1> HIDE DEF Opens, Closes
<1>8. PICK d : d = Len(open) /\ d = Height(source, n - 1) /\ d \in Nat
  BY <1>2, <1>3 DEF ParseInv, Stacked
<1>9. Height(source, n) = Height(source, n - 1) - 1 /\ Height(source, n) = Height(source, i - 1)
  BY <1>1, <1>4, CountTokens DEF Partner
<1>10. Height(source, i) = d /\ Height(source, i - 1) = d - 1 /\ ~Closes(source, i)
  BY <1>1, <1>4, <1>5, <1>8, <1>9, HeightInside
<1>11. d > 0
  <2>1. i - 1 \in 0 .. n - 1
    BY <1>1, <1>5
  <2>2. Height(source, i - 1) >= 0
    BY <1>3, <2>1 DEF ParseInv, Stacked
  <2> QED
    BY <1>8, <1>10, <2>2
<1>12. Pending(source, i, n - 1)
  <2>1. ASSUME NEW k \in i .. n - 1 PROVE Height(source, k) >= Height(source, i)
    <3>1. Height(source, k) > d - 1
      BY <1>4, <1>10 DEF Partner
    <3>2. k \in 1 .. N
      BY <1>1, <1>5
    <3>3. Height(source, k) \in Int
      BY <1>1, <3>2, CountTokens
    <3> QED
      BY <1>8, <1>10, <3>1, <3>3
  <2> QED
    BY <1>5, <2>1 DEF Pending
<1>13. open[d] = Place(source, i)
  <2>1. d \in 1 .. Len(open) /\ n - 1 \in 1 .. N
    BY <1>1, <1>5, <1>8, <1>11
  <2>2. PICK k \in 1 .. n - 1 : /\ Pending(source, k, n - 1) /\ Height(source, k) = d
                                /\ open[d] = Place(source, k)
    BY <1>3, <2>1 DEF ParseInv, Stacked
  <2>3. k = i
    BY <1>1, <1>5, <1>10, <1>12, <2>1, <2>2, PendingUnique
  <2> QED
    BY <2>2, <2>3
<1>14. code[Place(source, i)].value = source[i].name
  BY <1>3, <1>5, <1>10 DEF ParseInv, Written
<1>15. open # <<>> /\ Last(open) = open[d]
  <2>1. Len(<<>>) = 0 /\ Len(open) # 0
    BY <1>8, <1>11
  <2>2. open # <<>>
    BY <2>1
  <2> QED
    BY <1>8, <2>2 DEF Last
<1> QED
  BY <1>2, <1>7, <1>13, <1>14, <1>15 DEF ClosesInnermost

\* The parser accepts every well-formed source.
LEMMA WellFormedParsed ==
    ASSUME NEW source, IsSource(source), WellFormed(source)
    PROVE  template_parse(source).ok
<1>1. PICK N : N = Len(source) /\ N \in Nat /\ DOMAIN source = 1 .. N
  BY SourceDomain
<1>2. PICK after \in [0 .. N -> ParserOf(source)] : Parsers(source) = after /\ IsParse(source, after)
  BY <1>1, ParsersDefined DEF IsParse
<1>3. \A n \in 0 .. N : after[n].ok => ParseInv(source, after[n].code, after[n].open, n)
  BY <1>1, <1>2, Parses
<1>12. after[0] = Begin /\ \A n \in 1 .. N : after[n] = TokenParsed(after[n - 1], source[n])
  BY <1>1, <1>2 DEF IsParse
<1>4. \A parser \in ParserOf(source) : parser.open \in Seq(Nat)
  <2>1. PICK C : C = CodeOf(source)
    OBVIOUS
  <2>2. ParserOf(source) \subseteq [ok : BOOLEAN, code : C, open : Seq(Nat)]
    BY <2>1 DEF ParserOf
  <2> QED
    BY <2>2
<1> DEFINE S == {n \in 0 .. N : after[n].ok}
<1>5. 0 \in S
  BY <1>1, <1>12 DEF Begin
<1>6. ASSUME NEW m \in 0 .. N - 1, m \in S PROVE m + 1 \in S
  <2>1. PICK n : n = m + 1 /\ n \in 1 .. N /\ n - 1 = m /\ m \in 0 .. N /\ n \in 0 .. N
    BY <1>1
  <2>2. PICK parser, next : /\ parser = after[m] /\ next = after[n] /\ parser \in ParserOf(source)
                            /\ next = TokenParsed(parser, source[n]) /\ parser.ok
                            /\ ParseInv(source, parser.code, parser.open, n - 1)
    BY <1>2, <1>3, <1>6, <1>12, <2>1
  <2>3. source[n].kind \in TokenKinds
    BY <1>1, <2>1, TokenType
  <2>4. CASE Closes(source, n)
    <3>1. ClosesInnermost(parser, source[n].name)
      BY <1>1, <1>4, <2>1, <2>2, <2>4, EndAccepted
    <3>2. next = SectionClosed(parser)
      BY <2>2, <2>4, <3>1 DEF TokenParsed, Accepted, Closes, Sections
    <3>3. parser.open # <<>>
      BY <3>1 DEF ClosesInnermost
    <3>4. next.ok
      BY <2>2, <3>2, <3>3, ClosedFields
    <3> QED
      BY <2>1, <2>2, <3>4
  <2>5. CASE ~Closes(source, n)
    <3>1. /\ source[n].kind \notin {"/", "empty", "unclosed"}
          /\ source[n].kind = ">" => view_path_valid(source[n].name)
          /\ source[n].kind \in {"var", "#", "^"} => template_variable_path(source[n].name)
      BY <1>1, <2>1, <2>5 DEF WellFormed, Closes
    <3>2. Accepted(parser, source[n])
      BY <2>3, <3>1 DEF Accepted, Sections, TokenKinds
    <3>3. next = Pushed(parser, source[n])
      BY <2>2, <3>1, <3>2 DEF TokenParsed
    <3>4. next.ok
      BY <1>1, <2>1, <2>2, <3>1, <3>3, PushedFields
    <3> QED
      BY <2>1, <2>2, <3>4
  <2> QED
    BY <2>4, <2>5
<1>7. 0 .. N \subseteq S
  <2> HIDE DEF S
  <2> QED
    BY <1>1, <1>5, <1>6, IntervalInduction
<1>8. PICK last : /\ last = after[N] /\ last.ok /\ last.open \in Seq(Nat)
                  /\ ParseInv(source, last.code, last.open, N)
  <2>1. N \in 0 .. N
    BY <1>1
  <2> QED
    BY <1>2, <1>3, <1>4, <1>7, <2>1
<1>9. last.open = <<>>
  <2> SUFFICES ASSUME last.open # <<>> PROVE FALSE
    OBVIOUS
  <2>1. PICK open : open = last.open /\ open \in Seq(Nat) /\ open # <<>>
    BY <1>8
  <2>2. PICK d : d = Len(open) /\ d \in Nat \ {0} /\ d \in 1 .. Len(open)
    BY <2>1
  <2>3. PICK i \in 1 .. N : Pending(source, i, N)
    BY <1>8, <2>1, <2>2 DEF ParseInv, Stacked
  <2>4. Opens(source, i)
    BY <2>3 DEF Pending
  <2>5. PICK j \in 1 .. N : Partner(source, i, j)
    BY <1>1, <2>4 DEF WellFormed
  <2>6. j \in i .. N /\ Height(source, j) = Height(source, i - 1)
    BY <1>1, <2>5 DEF Partner
  <2>7. Height(source, j) >= Height(source, i)
    BY <2>3, <2>6 DEF Pending
  <2>8. Height(source, i) = Height(source, i - 1) + 1 /\ Height(source, i - 1) \in Int
    BY <1>1, <2>4, HeightInside
  <2>9. PICK h : h = Height(source, i - 1) /\ h \in Int
    BY <2>8
  <2>10. Height(source, j) = h /\ Height(source, i) = h + 1
    BY <2>6, <2>8, <2>9
  <2> QED
    BY <2>7, <2>9, <2>10
<1>10. template_parse(source) = Parsed(last)
  BY <1>1, <1>2, <1>8 DEF template_parse
<1>11. Parsed(last) = last
  BY <1>9 DEF Parsed
<1> QED
  BY <1>8, <1>10, <1>11

-----------------------------------------------------------------------------
(* What a stretch of a source means, by means of shorter ones.             *)

SpanMeaning(cx, source, body, partial, span, meaning) ==
    IF span.from > span.to THEN Html(<<>>)
    ELSE Joined(TokenMeaning(cx, source, body, partial, span, meaning),
                meaning[[span EXCEPT !.from = After(source, @)]])

\* How much of the source lies ahead.
Ahead(source, span) == Len(source) + 1 - span.from

InsideOf(source, span, record) ==
    [from |-> span.from + 1, to |-> EndOf(source, span.from) - 1, scope |-> record]

AfterOf(source, span) == [span EXCEPT !.from = After(source, @)]

\* Stretches that are asked for begin further on.
LEMMA SpanShorter ==
    ASSUME NEW cx, NEW source, IsSource(source), NEW code, Compiled(source, code),
           NEW span \in Spans(cx, source), span.from <= span.to
    PROVE  /\ span.from \in 1 .. Len(source) /\ span.scope \in Scopes(cx.data)
           /\ Ahead(source, span) \in 0 .. Len(source)
           /\ AfterOf(source, span) \in Spans(cx, source)
           /\ Ahead(source, AfterOf(source, span)) < Ahead(source, span)
           /\ AfterOf(source, span).from = After(source, span.from)
           /\ AfterOf(source, span).to = span.to /\ AfterOf(source, span).scope = span.scope
           /\ Opens(source, span.from) => \A record \in Scopes(cx.data) :
                 /\ InsideOf(source, span, record) \in Spans(cx, source)
                 /\ Ahead(source, InsideOf(source, span, record)) < Ahead(source, span)
<1>1. PICK N : N = Len(source) /\ N \in Nat
  BY SourceLength
<1>2. PICK from, to, scope :
         /\ from = span.from /\ to = span.to /\ scope = span.scope
         /\ span = [from |-> from, to |-> to, scope |-> scope]
         /\ from \in 1 .. N + 1 /\ to \in 0 .. N /\ scope \in Scopes(cx.data)
  BY <1>1 DEF Spans
<1>3. from \in 1 .. N
  BY <1>1, <1>2
<1>4. PICK next : next = After(source, from)
  OBVIOUS
<1>5. next \in from + 1 .. N + 1
  <2>1. CASE Opens(source, from)
    <3>1. PICK end : end = EndOf(source, from) /\ end \in from + 1 .. N
      BY <1>1, <1>3, <2>1, SectionEnds
    <3> QED
      BY <1>1, <1>3, <1>4, <2>1, <3>1 DEF After
  <2>2. CASE ~Opens(source, from)
    BY <1>1, <1>3, <1>4, <2>2 DEF After
  <2> QED
    BY <2>1, <2>2
<1>6. PICK after : after = AfterOf(source, span)
  OBVIOUS
<1>7. after = [from |-> next, to |-> to, scope |-> scope]
  <2>1. after = [span EXCEPT !.from = next]
    BY <1>2, <1>4, <1>6 DEF AfterOf
  <2> QED
    BY <1>2, <2>1
<1>8. after.from = next /\ after.to = to /\ after.scope = scope
  BY <1>7
<1>9. after \in Spans(cx, source)
  <2>1. next \in 1 .. N + 1
    BY <1>1, <1>3, <1>5
  <2> QED
    BY <1>1, <1>2, <1>7, <2>1 DEF Spans
<1>10. Ahead(source, after) < Ahead(source, span) /\ Ahead(source, span) \in 0 .. N
  BY <1>1, <1>2, <1>3, <1>5, <1>8 DEF Ahead
<1>11. ASSUME Opens(source, from), NEW record \in Scopes(cx.data)
       PROVE  /\ InsideOf(source, span, record) \in Spans(cx, source)
              /\ Ahead(source, InsideOf(source, span, record)) < Ahead(source, span)
  <2>1. PICK end : end = EndOf(source, from) /\ end \in from + 1 .. N
    BY <1>1, <1>3, <1>11, SectionEnds
  <2>2. PICK inside : inside = InsideOf(source, span, record)
    OBVIOUS
  <2>3. inside = [from |-> from + 1, to |-> end - 1, scope |-> record]
    BY <1>2, <2>1, <2>2 DEF InsideOf
  <2>4. inside.from = from + 1
    BY <2>3
  <2>5. from + 1 \in 1 .. N + 1 /\ end - 1 \in 0 .. N
    BY <1>1, <1>3, <2>1
  <2>6. inside \in Spans(cx, source)
    BY <1>1, <2>3, <2>5 DEF Spans
  <2>7. Ahead(source, inside) < Ahead(source, span)
    BY <1>1, <1>2, <1>3, <2>4 DEF Ahead
  <2> QED
    BY <2>2, <2>6, <2>7
<1> QED
  BY <1>1, <1>2, <1>3, <1>4, <1>6, <1>8, <1>9, <1>10, <1>11

\* The records that a section is rendered for.
RecordsOf(cx, source, span) ==
    LET token == source[span.from]
        value == view_resolve(cx.data, token.name, span.scope)
    IN  IF value.type = "collection" /\ token.kind = "#" THEN value.rows ELSE <<span.scope>>

\* Records that lie in the data.
LEMMA RecordsType ==
    ASSUME NEW cx, IsData(cx.data), NEW source, NEW span, span.scope \in Scopes(cx.data)
    PROVE  RecordsOf(cx, source, span) \in Seq(Scopes(cx.data))
<1>1. PICK token, value : /\ token = source[span.from]
                          /\ value = view_resolve(cx.data, token.name, span.scope)
  OBVIOUS
<1>2. value.type = "collection" => value.rows \in Seq(Scopes(cx.data))
  BY <1>1, ResolvedFields, DataStrings
<1>3. <<span.scope>> \in Seq(Scopes(cx.data))
  OBVIOUS
<1>4. RecordsOf(cx, source, span) =
         IF value.type = "collection" /\ token.kind = "#" THEN value.rows ELSE <<span.scope>>
  BY <1>1 DEF RecordsOf
<1> QED
  BY <1>2, <1>3, <1>4

\* What is inside of a section, once for each record.
Insides(cx, source, span, meaning) ==
    [k \in DOMAIN RecordsOf(cx, source, span) |->
        meaning[InsideOf(source, span, RecordsOf(cx, source, span)[k])]]

\* A section means them, one after the other.
LEMMA SectionInsides ==
    ASSUME NEW cx, NEW source, NEW span, NEW meaning
    PROVE  SectionMeaning(cx, source, span, meaning) =
              LET value == view_resolve(cx.data, source[span.from].name, span.scope)
              IN  IF value.type = "unknown" THEN Failure
                  ELSE IF view_truthy(value) = (source[span.from].kind = "^") THEN Html(<<>>)
                  ELSE Concatenated(Insides(cx, source, span, meaning))
BY DEF SectionMeaning, Insides, RecordsOf, InsideOf

\* Two meanings that agree further on, agree inside.
LEMMA InsidesSame ==
    ASSUME NEW cx, IsData(cx.data), NEW source, IsSource(source), NEW code, Compiled(source, code),
           NEW span \in Spans(cx, source), span.from <= span.to, Opens(source, span.from),
           NEW f, NEW g, \A y \in Spans(cx, source) : Ahead(source, y) < Ahead(source, span) => f[y] = g[y]
    PROVE  Insides(cx, source, span, f) = Insides(cx, source, span, g)
<1>1. span.scope \in Scopes(cx.data)
  BY SpanShorter
<1>2. PICK records : records = RecordsOf(cx, source, span) /\ records \in Seq(Scopes(cx.data))
  BY <1>1, RecordsType
<1>3. \A record \in Scopes(cx.data) : f[InsideOf(source, span, record)] = g[InsideOf(source, span, record)]
  BY SpanShorter
<1>4. \A k \in DOMAIN records : records[k] \in Scopes(cx.data)
  BY <1>2
<1>5. [k \in DOMAIN records |-> f[InsideOf(source, span, records[k])]]
         = [k \in DOMAIN records |-> g[InsideOf(source, span, records[k])]]
  BY <1>3, <1>4
<1> QED
  BY <1>2, <1>5 DEF Insides

\* What is inside prints over A.
LEMMA InsidesType ==
    ASSUME NEW A, NEW cx, IsData(cx.data), NEW source, IsSource(source), NEW code, Compiled(source, code),
           NEW span \in Spans(cx, source), span.from <= span.to, Opens(source, span.from),
           NEW f, \A y \in Spans(cx, source) : Ahead(source, y) < Ahead(source, span) => f[y] \in Outputs(A)
    PROVE  Insides(cx, source, span, f) \in Seq(Outputs(A))
<1>1. span.scope \in Scopes(cx.data)
  BY SpanShorter
<1>2. PICK records : records = RecordsOf(cx, source, span) /\ records \in Seq(Scopes(cx.data))
  BY <1>1, RecordsType
<1>3. \A record \in Scopes(cx.data) : f[InsideOf(source, span, record)] \in Outputs(A)
  BY SpanShorter
<1>4. \A k \in DOMAIN records : records[k] \in Scopes(cx.data)
  BY <1>2
<1>5. \A k \in DOMAIN records : f[InsideOf(source, span, records[k])] \in Outputs(A)
  BY <1>3, <1>4
<1>6. [k \in DOMAIN records |-> f[InsideOf(source, span, records[k])]] \in Seq(Outputs(A))
  BY <1>2, <1>5
<1> QED
  BY <1>2, <1>6 DEF Insides

\* What a source, a body and partials have to be.
Meaningful(A, cx, source, code, body, partial) ==
    /\ IsData(cx.data) /\ DataPrints(A, cx.data)
    /\ IsSource(source) /\ SourcePrints(A, source) /\ Compiled(source, code)
    /\ body \in Seq(A) /\ PartialPrints(A, cx, partial)

\* A token, and the call that a partial is.
LEMMA TokenFields ==
    ASSUME NEW A, NEW cx, NEW source, NEW code, NEW body, NEW partial,
           Meaningful(A, cx, source, code, body, partial),
           NEW n \in 1 .. Len(source), NEW scope \in Scopes(cx.data)
    PROVE  /\ source[n].kind \in TokenKinds /\ source[n].name \in Seq(STRING)
           /\ source[n].kind = "text" => source[n].name \in Seq(A)
           /\ source[n].kind = ">" => [path |-> source[n].name, scope |-> scope] \in Calls(cx)
<1>1. IsSource(source) /\ DOMAIN source = 1 .. Len(source)
  BY SourceDomain DEF Meaningful
<1>2. source[n].kind \in TokenKinds /\ source[n].name \in Seq(STRING)
  BY <1>1, TokenType
<1>3. source[n].kind = "text" => source[n].name \in Seq(A)
  BY <1>1 DEF Meaningful, SourcePrints
<1>4. ASSUME source[n].kind = ">" PROVE [path |-> source[n].name, scope |-> scope] \in Calls(cx)
  <2>1. PICK name : name = source[n].name /\ name \in Seq(STRING)
    BY <1>2
  <2>2. ~Closes(source, n)
    BY <1>4 DEF Closes
  <2>3. Proper(source[n])
    BY <2>2 DEF Meaningful, Compiled
  <2>4. view_path_valid(name)
    BY <1>4, <2>1, <2>3 DEF Proper
  <2>5. name \in Seq(AllSegments)
    BY <2>1, <2>4 DEF view_path_valid, ToSet
  <2> QED
    BY <2>1, <2>5 DEF Calls
<1> QED
  BY <1>2, <1>3, <1>4

\* The sections of a source.
LEMMA SectionOutput ==
    ASSUME NEW A, NEW cx, NEW source, NEW code, NEW body, NEW partial,
           Meaningful(A, cx, source, code, body, partial),
           NEW span \in Spans(cx, source), span.from <= span.to, Opens(source, span.from),
           NEW f, \A y \in Spans(cx, source) : Ahead(source, y) < Ahead(source, span) => f[y] \in Outputs(A)
    PROVE  SectionMeaning(cx, source, span, f) \in Outputs(A)
<1>1. PICK insides : insides = Insides(cx, source, span, f) /\ insides \in Seq(Outputs(A))
  BY InsidesType DEF Meaningful
<1>2. Concatenated(insides) \in Outputs(A)
  BY <1>1, ConcatenatedType
<1>3. Failure \in Outputs(A) /\ Html(<<>>) \in Outputs(A)
  <2>1. <<>> \in Seq(A)
    OBVIOUS
  <2> QED
    BY <2>1 DEF Outputs
<1>4. PICK value : value = view_resolve(cx.data, source[span.from].name, span.scope)
  OBVIOUS
<1>5. SectionMeaning(cx, source, span, f) =
         IF value.type = "unknown" THEN Failure
         ELSE IF view_truthy(value) = (source[span.from].kind = "^") THEN Html(<<>>)
         ELSE Concatenated(insides)
  BY <1>1, <1>4, SectionInsides
<1> QED
  BY <1>2, <1>3, <1>5

\* A token means a text over A.
LEMMA TokenOutput ==
    ASSUME NEW A, NEW cx, NEW source, NEW code, NEW body, NEW partial,
           Meaningful(A, cx, source, code, body, partial),
           NEW span \in Spans(cx, source), span.from <= span.to,
           NEW f, \A y \in Spans(cx, source) : Ahead(source, y) < Ahead(source, span) => f[y] \in Outputs(A)
    PROVE  TokenMeaning(cx, source, body, partial, span, f) \in Outputs(A)
<1>1. IsSource(source) /\ Compiled(source, code)
  BY DEF Meaningful
<1>2. PICK from, scope : /\ from = span.from /\ scope = span.scope
                         /\ from \in 1 .. Len(source) /\ scope \in Scopes(cx.data)
  BY <1>1, SpanShorter
<1>3. PICK token : token = source[from]
  OBVIOUS
<1>4. /\ token.kind \in TokenKinds /\ token.name \in Seq(STRING)
      /\ token.kind = "text" => token.name \in Seq(A)
      /\ token.kind = ">" => [path |-> token.name, scope |-> scope] \in Calls(cx)
  BY <1>2, <1>3, TokenFields
<1>5. PICK output : output = TokenMeaning(cx, source, body, partial, span, f)
  OBVIOUS
<1>6. CASE Opens(source, from)
  <2>1. token.kind \in {"#", "^"}
    BY <1>3, <1>6 DEF Opens, Sections
  <2>2. output = SectionMeaning(cx, source, span, f)
    BY <1>2, <1>3, <1>5, <1>6, <2>1 DEF TokenMeaning
  <2>3. output \in Outputs(A)
    BY <1>2, <1>6, <2>2, SectionOutput
  <2> QED
    BY <1>5, <2>3
<1>7. CASE token.kind = ">"
  BY <1>2, <1>3, <1>4, <1>7 DEF TokenMeaning, Meaningful, PartialPrints, Opens, Sections
<1>8. CASE token.kind \in {"text", "yield"}
  BY <1>2, <1>3, <1>4, <1>8 DEF TokenMeaning, Meaningful, Outputs, Opens, Sections
<1>9. CASE token.kind = "var"
  <2>1. Prints(A, view_resolve(cx.data, token.name, scope))
    BY <1>2, ResolvedFields DEF Meaningful
  <2>2. output = view_render_value(view_resolve(cx.data, token.name, scope))
    BY <1>2, <1>3, <1>5, <1>9 DEF TokenMeaning, Opens, Sections
  <2> QED
    BY <1>5, <2>1, <2>2, ValueRendered
<1>10. CASE token.kind \in {"/", "empty", "unclosed"}
  <2>1. output = Failure
    BY <1>2, <1>3, <1>5, <1>10 DEF TokenMeaning, Opens, Sections
  <2> QED
    BY <1>5, <2>1 DEF Outputs
<1>11. token.kind \in {"#", "^"} => Opens(source, from)
  BY <1>3 DEF Opens, Sections
<1> QED
  BY <1>4, <1>6, <1>7, <1>8, <1>9, <1>10, <1>11 DEF TokenKinds

\* So does a stretch.
LEMMA SpanOutput ==
    ASSUME NEW A, NEW cx, NEW source, NEW code, NEW body, NEW partial,
           Meaningful(A, cx, source, code, body, partial), NEW span \in Spans(cx, source),
           NEW f, \A y \in Spans(cx, source) : Ahead(source, y) < Ahead(source, span) => f[y] \in Outputs(A)
    PROVE  SpanMeaning(cx, source, body, partial, span, f) \in Outputs(A)
<1>1. CASE span.from > span.to
  <2>1. <<>> \in Seq(A)
    OBVIOUS
  <2> QED
    BY <1>1, <2>1 DEF SpanMeaning, Outputs
<1>2. CASE ~(span.from > span.to)
  <2>1. IsSource(source) /\ Compiled(source, code)
    BY DEF Meaningful
  <2>2. span.from <= span.to
    <3>1. span.from \in Int /\ span.to \in Int
      BY <2>1, SourceLength DEF Spans
    <3> QED
      BY <1>2, <3>1
  <2>3. TokenMeaning(cx, source, body, partial, span, f) \in Outputs(A)
    BY <2>2, TokenOutput
  <2>4. f[AfterOf(source, span)] \in Outputs(A)
    BY <2>1, <2>2, SpanShorter
  <2>5. SpanMeaning(cx, source, body, partial, span, f)
           = Joined(TokenMeaning(cx, source, body, partial, span, f), f[AfterOf(source, span)])
    BY <1>2 DEF SpanMeaning, AfterOf
  <2> QED
    BY <2>3, <2>4, <2>5, JoinedType
<1> QED
  BY <1>1, <1>2

\* A stretch needs no more than stretches further on.
LEMMA SpanSame ==
    ASSUME NEW A, NEW cx, NEW source, NEW code, NEW body, NEW partial,
           Meaningful(A, cx, source, code, body, partial), NEW span \in Spans(cx, source),
           NEW f, NEW g, \A y \in Spans(cx, source) : Ahead(source, y) < Ahead(source, span) => f[y] = g[y]
    PROVE  SpanMeaning(cx, source, body, partial, span, f) = SpanMeaning(cx, source, body, partial, span, g)
<1>1. CASE span.from > span.to
  BY <1>1 DEF SpanMeaning
<1>2. CASE ~(span.from > span.to)
  <2>1. IsSource(source) /\ Compiled(source, code) /\ IsData(cx.data)
    BY DEF Meaningful
  <2>2. span.from <= span.to
    <3>1. span.from \in Int /\ span.to \in Int
      BY <2>1, SourceLength DEF Spans
    <3> QED
      BY <1>2, <3>1
  <2>3. TokenMeaning(cx, source, body, partial, span, f) = TokenMeaning(cx, source, body, partial, span, g)
    <3>1. CASE Opens(source, span.from)
      <4>1. PICK insides : insides = Insides(cx, source, span, f) /\ insides = Insides(cx, source, span, g)
        BY <2>1, <2>2, <3>1, InsidesSame
      <4>2. SectionMeaning(cx, source, span, f) = SectionMeaning(cx, source, span, g)
        BY <4>1, SectionInsides
      <4> QED
        BY <4>2 DEF TokenMeaning
    <3>2. CASE ~Opens(source, span.from)
      BY <3>2 DEF TokenMeaning
    <3> QED
      BY <3>1, <3>2
  <2>4. f[AfterOf(source, span)] = g[AfterOf(source, span)]
    BY <2>1, <2>2, SpanShorter
  <2> QED
    BY <1>2, <2>3, <2>4 DEF SpanMeaning, AfterOf
<1> QED
  BY <1>1, <1>2

\* Every stretch of a source has a meaning.
LEMMA MeaningDefined ==
    ASSUME NEW A, NEW cx, NEW source, NEW code, NEW body, NEW partial,
           Meaningful(A, cx, source, code, body, partial)
    PROVE  \E meaning \in [Spans(cx, source) -> Outputs(A)] :
              /\ Meaning(cx, source, body, partial) = meaning
              /\ \A span \in Spans(cx, source) :
                    meaning[span] = SpanMeaning(cx, source, body, partial, span, meaning)
<1>1. PICK N, D, V : N = Len(source) /\ D = Spans(cx, source) /\ V = Outputs(A)
  OBVIOUS
<1>2. N \in Nat /\ \A span \in D : Ahead(source, span) \in 0 .. N
  <2>1. N \in Nat
    BY <1>1, SourceLength DEF Meaningful
  <2>2. \A span \in D : span.from \in 1 .. N + 1
    BY <1>1 DEF Spans
  <2> QED
    BY <1>1, <2>1, <2>2 DEF Ahead
<1>3. PICK m \in [D -> 0 .. N] : \A span \in D : m[span] = Ahead(source, span)
  <2> DEFINE ahead == [span \in D |-> Ahead(source, span)]
  <2>1. ahead \in [D -> 0 .. N] /\ \A span \in D : ahead[span] = Ahead(source, span)
    BY <1>2
  <2> QED
    BY <2>1
<1> DEFINE IsMeaning(meaning) ==
              meaning = [span \in D |->
                 IF span.from > span.to THEN Html(<<>>)
                 ELSE Joined(TokenMeaning(cx, source, body, partial, span, meaning),
                             meaning[[span EXCEPT !.from = After(source, @)]])]
           IsSpan(meaning) == meaning = [span \in D |-> SpanMeaning(cx, source, body, partial, span, meaning)]
<1>4. \A meaning : IsMeaning(meaning) <=> IsSpan(meaning)
  BY DEF SpanMeaning
<1>5. Meaning(cx, source, body, partial) = CHOOSE meaning : IsMeaning(meaning)
  BY <1>1 DEF Meaning
<1> HIDE DEF IsMeaning
<1>6. \E meaning : IsSpan(meaning)
  <2> DEFINE step == [f \in [D -> V] |-> [span \in D |-> SpanMeaning(cx, source, body, partial, span, f)]]
  <2>1. \A f \in [D -> V], span \in D : SpanMeaning(cx, source, body, partial, span, f) \in V
    BY <1>1, SpanOutput
  <2>2. step \in [[D -> V] -> [D -> V]]
    BY <2>1
  <2>3. \A f \in [D -> V] : step[f] = [span \in D |-> SpanMeaning(cx, source, body, partial, span, f)]
    OBVIOUS
  <2>4. \A f \in [D -> V], span \in D : step[f][span] = SpanMeaning(cx, source, body, partial, span, f)
    OBVIOUS
  <2> HIDE DEF step
  <2>5. ASSUME NEW f \in [D -> V], NEW g \in [D -> V], NEW x \in D,
               \A y \in D : m[y] < m[x] => f[y] = g[y]
        PROVE  step[f][x] = step[g][x]
    <3>1. \A y \in Spans(cx, source) : Ahead(source, y) < Ahead(source, x) => f[y] = g[y]
      BY <1>1, <1>3, <2>5
    <3>2. SpanMeaning(cx, source, body, partial, x, f) = SpanMeaning(cx, source, body, partial, x, g)
      BY <1>1, <3>1, SpanSame
    <3> QED
      BY <2>4, <3>2
  <2>6. Failure \in V
    BY <1>1 DEF Outputs
  <2>7. Descends(step, D, V, m, N)
    BY <1>2, <2>2, <2>5, <2>6 DEF Descends
  <2>8. \E f \in [D -> V] : step[f] = f
    BY <2>7, MeasuredRecursion
  <2> QED
    BY <2>3, <2>8
<1>7. PICK meaning : IsSpan(meaning) /\ Meaning(cx, source, body, partial) = meaning
  <2>1. \E meaning : IsMeaning(meaning)
    BY <1>4, <1>6
  <2>2. IsMeaning(Meaning(cx, source, body, partial))
    BY <1>5, <2>1
  <2> QED
    BY <1>4, <2>2
<1>8. \A span \in D : meaning[span] = SpanMeaning(cx, source, body, partial, span, meaning)
  BY <1>7
<1>9. meaning = [span \in D |-> meaning[span]]
  BY <1>7
<1> HIDE DEF IsSpan
<1> DEFINE S == {span \in D : meaning[span] \in V}
<1>10. ASSUME NEW x \in D, \A y \in D : m[y] < m[x] => y \in S PROVE x \in S
  <2>1. \A y \in Spans(cx, source) : Ahead(source, y) < Ahead(source, x) => meaning[y] \in Outputs(A)
    BY <1>1, <1>3, <1>10
  <2>2. SpanMeaning(cx, source, body, partial, x, meaning) \in V
    BY <1>1, <2>1, SpanOutput
  <2> QED
    BY <1>8, <2>2
<1>11. D \subseteq S
  <2> HIDE DEF S
  <2> QED
    BY <1>2, <1>10, MeasuredInduction
<1>12. meaning \in [D -> V]
  BY <1>9, <1>11
<1> QED
  BY <1>1, <1>7, <1>8, <1>12

-----------------------------------------------------------------------------
(* Stretches whose brackets belong together, and the runs that render them. *)

Balanced(source, from, to) ==
    /\ from \in 1 .. Len(source) + 1 /\ to \in from - 1 .. Len(source)
    /\ Height(source, to) = Height(source, from - 1)
    /\ \A k \in from .. to : Height(source, k) >= Height(source, from - 1)

\* Heights are numbers.
LEMMA HeightType ==
    ASSUME NEW source, IsSource(source), NEW n \in 0 .. Len(source)
    PROVE  Height(source, n) \in Int
<1>1. PICK N : N = Len(source) /\ N \in Nat
  BY SourceLength
<1>2. CASE n = 0
  BY <1>2, CountTokens
<1>3. CASE n # 0
  <2>1. n \in 1 .. N
    BY <1>1, <1>3
  <2> QED
    BY <1>1, <2>1, CountTokens
<1> QED
  BY <1>2, <1>3

\* A whole source.
LEMMA BalancedWhole ==
    ASSUME NEW source, IsSource(source), NEW code, Compiled(source, code)
    PROVE  Balanced(source, 1, Len(source))
<1>1. PICK N : N = Len(source) /\ N \in Nat
  BY SourceLength
<1>2. Height(source, 0) = 0 /\ Height(source, N) = 0
  BY <1>1, CountTokens DEF Compiled
<1>3. \A k \in 1 .. N : Height(source, k) >= 0
  BY <1>1 DEF Compiled
<1>4. 1 \in 1 .. N + 1 /\ N \in 1 - 1 .. N /\ 1 - 1 = 0
  BY <1>1
<1> QED
  BY <1>1, <1>2, <1>3, <1>4 DEF Balanced

\* A stretch begins with a token, or with a section that ends in it.
LEMMA BalancedStep ==
    ASSUME NEW source, IsSource(source), NEW code, Compiled(source, code),
           NEW from, NEW to, Balanced(source, from, to), from <= to
    PROVE  /\ from \in 1 .. Len(source) /\ ~Closes(source, from)
           /\ Balanced(source, After(source, from), to)
           /\ Opens(source, from) =>
                 /\ EndOf(source, from) \in from + 1 .. to
                 /\ Balanced(source, from + 1, EndOf(source, from) - 1)
<1>1. PICK N : N = Len(source) /\ N \in Nat
  BY SourceLength
<1>2. from \in 1 .. N /\ to \in from .. N /\ from \in from .. to
  BY <1>1 DEF Balanced
<1>3. PICK h : h = Height(source, from - 1) /\ h \in Int
  <2>1. from - 1 \in 0 .. N
    BY <1>1, <1>2
  <2> QED
    BY <1>1, <2>1, HeightType
<1>4. Height(source, to) = h /\ \A k \in from .. to : Height(source, k) >= h
  BY <1>3 DEF Balanced
<1>5. /\ Opens(source, from) => Height(source, from) = h + 1
      /\ Closes(source, from) => Height(source, from) = h - 1
      /\ ~Opens(source, from) /\ ~Closes(source, from) => Height(source, from) = h
  <2> HIDE DEF Opens, Closes
  <2> QED
    BY <1>1, <1>2, <1>3, CountTokens
<1>6. ~Closes(source, from)
  <2> HIDE DEF Opens, Closes
  <2>1. Height(source, from) >= h
    BY <1>2, <1>4
  <2> QED
    BY <1>3, <1>5, <2>1
<1>7. CASE Opens(source, from)
  <2>1. PICK end : end = EndOf(source, from) /\ end \in from + 1 .. N
                   /\ Partner(source, from, end) /\ Closes(source, end)
    BY <1>1, <1>2, <1>7, SectionEnds
  <2>2. /\ Height(source, end) = h
        /\ \A k \in from .. end - 1 : Height(source, k) > h
    BY <1>3, <2>1 DEF Partner
  <2>3. end <= to
    <3> SUFFICES ASSUME end > to PROVE FALSE
      BY <1>1, <1>2, <2>1
    <3>1. to \in from .. end - 1
      BY <1>1, <1>2, <2>1
    <3> QED
      BY <1>3, <1>4, <2>2, <3>1
  <2>4. \A k \in 0 .. N : Height(source, k) \in Int
    BY <1>1, HeightType
  <2>5. Balanced(source, from + 1, end - 1)
    <3> HIDE DEF Opens, Closes
    <3>1. end \in 1 .. N /\ end - 1 \in 0 .. N
      BY <1>1, <1>2, <2>1
    <3>2. Height(source, end) = Height(source, end - 1) - 1
      BY <1>1, <2>1, <3>1, CountTokens
    <3>3. Height(source, end - 1) = h + 1
      BY <1>3, <2>2, <2>4, <3>1, <3>2
    <3>4. \A k \in from + 1 .. end - 1 : Height(source, k) >= h + 1
      <4>1. \A k \in from + 1 .. end - 1 : k \in from .. end - 1 /\ k \in 0 .. N
        BY <1>1, <1>2, <2>1
      <4> QED
        BY <1>3, <2>2, <2>4, <4>1
    <3>5. (from + 1) - 1 = from /\ Height(source, from) = h + 1
      BY <1>2, <1>5, <1>7
    <3>6. from + 1 \in 1 .. N + 1 /\ end - 1 \in (from + 1) - 1 .. N
      BY <1>1, <1>2, <2>1
    <3> QED
      BY <1>1, <3>3, <3>4, <3>5, <3>6 DEF Balanced
  <2>6. After(source, from) = end + 1
    BY <1>7, <2>1 DEF After
  <2>7. Balanced(source, end + 1, to)
    <3>1. (end + 1) - 1 = end /\ end + 1 \in 1 .. N + 1 /\ to \in end .. N
      BY <1>1, <1>2, <2>1, <2>3
    <3>2. \A k \in end + 1 .. to : k \in from .. to
      BY <1>1, <1>2, <2>1
    <3> QED
      BY <1>1, <1>4, <2>2, <3>1, <3>2 DEF Balanced
  <2>8. end \in from + 1 .. to
    BY <1>1, <1>2, <2>1, <2>3
  <2>9. Balanced(source, After(source, from), to)
    BY <2>6, <2>7
  <2>10. EndOf(source, from) \in from + 1 .. to /\ Balanced(source, from + 1, EndOf(source, from) - 1)
    BY <2>1, <2>5, <2>8
  <2> QED
    BY <1>1, <1>2, <1>6, <2>9, <2>10
<1>8. CASE ~Opens(source, from)
  <2>1. After(source, from) = from + 1 /\ Height(source, from) = h
    BY <1>5, <1>6, <1>8 DEF After
  <2>2. (from + 1) - 1 = from /\ from + 1 \in 1 .. N + 1 /\ to \in from .. N
    BY <1>1, <1>2
  <2>3. \A k \in from + 1 .. to : k \in from .. to
    BY <1>1, <1>2
  <2>4. Balanced(source, from + 1, to)
    BY <1>1, <1>4, <2>1, <2>2, <2>3 DEF Balanced
  <2> QED
    BY <1>1, <1>2, <1>6, <1>8, <2>1, <2>4
<1> QED
  BY <1>7, <1>8

\* The run that renders a stretch.
RunOf(source, span) ==
    [index |-> Place(source, span.from - 1) + 1, end |-> Place(source, span.to) + 1, scope |-> span.scope]

\* It is one of the runs of the code.
LEMMA RunOfFields ==
    ASSUME NEW cx, NEW source, IsSource(source), NEW code, Compiled(source, code),
           NEW span \in Spans(cx, source), Balanced(source, span.from, span.to)
    PROVE  /\ RunOf(source, span) \in Runs(cx, code)
           /\ RunOf(source, span).index = Place(source, span.from - 1) + 1
           /\ RunOf(source, span).end = Place(source, span.to) + 1
           /\ RunOf(source, span).scope = span.scope
           /\ Place(source, span.from - 1) \in Nat /\ Place(source, span.to) \in Nat
           /\ span.from > span.to => Place(source, span.from - 1) = Place(source, span.to)
<1>1. PICK N : N = Len(source) /\ N \in Nat
  BY SourceLength
<1>2. PICK from, to : from = span.from /\ to = span.to
  OBVIOUS
<1>3. from - 1 \in 0 .. N /\ to \in from - 1 .. N /\ from \in Int /\ to \in Int
  BY <1>1, <1>2 DEF Balanced
<1>4. PICK a, b, c : /\ a = Place(source, from - 1) /\ b = Place(source, to) /\ c = Place(source, N)
                     /\ a \in Nat /\ b \in Nat /\ c \in Nat /\ a <= c /\ b <= c
  <2>1. to \in 0 .. N /\ N \in 0 .. N
    BY <1>1, <1>3
  <2>2. from - 1 <= N /\ to <= N
    BY <1>1, <1>3
  <2> QED
    BY <1>1, <1>3, <2>1, <2>2, PlacesGrow
<1>5. Len(code) = c
  BY <1>1, <1>4 DEF Compiled, Written
<1>6. a + 1 \in 1 .. c + 1 /\ b + 1 \in 1 .. c + 1
  BY <1>4
<1>7. PICK scope : scope = span.scope /\ scope \in Scopes(cx.data)
  BY DEF Spans
<1>8. PICK run : run = [index |-> a + 1, end |-> b + 1, scope |-> scope]
  OBVIOUS
<1>9. RunOf(source, span) = run
  BY <1>2, <1>4, <1>7, <1>8 DEF RunOf
<1>10. run \in Runs(cx, code)
  BY <1>5, <1>6, <1>7, <1>8 DEF Runs
<1>11. run.index = a + 1 /\ run.end = b + 1 /\ run.scope = scope
  BY <1>8
<1>12. from > to => from - 1 = to
  BY <1>3
<1>13. from > to => a = b
  BY <1>4, <1>12
<1> QED
  BY <1>2, <1>4, <1>7, <1>9, <1>10, <1>11, <1>13

\* Its instructions are the tokens; what is inside of a section, and what is
\* behind it, are the runs of the stretches there.
LEMMA RunOfStep ==
    ASSUME NEW cx, NEW source, IsSource(source), NEW code, Compiled(source, code),
           NEW span \in Spans(cx, source), Balanced(source, span.from, span.to), span.from <= span.to
    PROVE  LET run == RunOf(source, span)
               instruction == code[run.index]
           IN  /\ run.index < run.end
               /\ instruction.type = source[span.from].kind /\ instruction.value = source[span.from].name
               /\ Rest(code, run) = RunOf(source, AfterOf(source, span))
               /\ Opens(source, span.from) =>
                     /\ instruction.jump \in run.index + 1 .. run.end
                     /\ \A record : [index |-> run.index + 1, end |-> instruction.jump, scope |-> record]
                                       = RunOf(source, InsideOf(source, span, record))
<1>1. PICK N : N = Len(source) /\ N \in Nat
  BY SourceLength
<1>2. PICK from, to, scope :
         /\ from = span.from /\ to = span.to /\ scope = span.scope
         /\ span = [from |-> from, to |-> to, scope |-> scope]
  BY DEF Spans
<1>3. /\ from \in 1 .. N /\ to \in from .. N /\ ~Closes(source, from)
      /\ Opens(source, from) => EndOf(source, from) \in from + 1 .. to
  <2>1. /\ from \in 1 .. N /\ ~Closes(source, from)
        /\ Opens(source, from) => EndOf(source, from) \in from + 1 .. to
    BY <1>1, <1>2, BalancedStep
  <2>2. to \in from .. N
    BY <1>1, <1>2, <2>1 DEF Balanced
  <2> QED
    BY <2>1, <2>2
<1>4. PICK run : /\ run = RunOf(source, span)
                 /\ run = [index |-> Place(source, from - 1) + 1, end |-> Place(source, to) + 1, scope |-> scope]
  BY <1>2 DEF RunOf
<1>5. PICK a, b : /\ a = Place(source, from) /\ b = Place(source, to) /\ a \in Nat \ {0} /\ b \in Nat /\ a <= b
                  /\ Place(source, from - 1) = a - 1
  <2>1. Place(source, from) \in Nat \ {0} /\ Place(source, from) <= Place(source, to)
    BY <1>1, <1>3, PlacesApart
  <2>2. Place(source, from) = Place(source, from - 1) + 1 /\ Place(source, from - 1) \in Nat
    <3> HIDE DEF Opens, Closes
    <3> QED
      BY <1>1, <1>3, CountTokens
  <2>3. Place(source, to) \in Nat
    BY <1>2, RunOfFields
  <2> QED
    BY <2>1, <2>2, <2>3
<1>6. run.index = a /\ run.end = b + 1 /\ run.scope = scope
  <2>1. run.index = (a - 1) + 1 /\ run.end = b + 1 /\ run.scope = scope
    BY <1>4, <1>5
  <2> QED
    BY <1>5, <2>1
<1>7. code[a].type = source[from].kind /\ code[a].value = source[from].name
  BY <1>1, <1>3, <1>5 DEF Compiled, Written
<1>8. run.index < run.end
  BY <1>5, <1>6
<1>9. PICK next, after : /\ next = After(source, from) /\ after = AfterOf(source, span)
                         /\ after = [from |-> next, to |-> to, scope |-> scope]
  <2>1. AfterOf(source, span) = [from |-> After(source, from), to |-> to, scope |-> scope]
    BY <1>2 DEF AfterOf
  <2> QED
    BY <2>1
<1>10. after.from = next /\ after.to = to /\ after.scope = scope
  BY <1>9
<1>11. RunOf(source, after) = [index |-> Place(source, next - 1) + 1, end |-> b + 1, scope |-> scope]
  BY <1>5, <1>10 DEF RunOf
<1>12. \A index : [run EXCEPT !.index = index] = [index |-> index, end |-> b + 1, scope |-> scope]
  BY <1>4, <1>5
<1>13. CASE Opens(source, from)
  <2>1. PICK end : /\ end = EndOf(source, from) /\ end \in from + 1 .. to
                   /\ Closes(source, end) /\ code[a].jump = Place(source, end) + 1
    BY <1>1, <1>3, <1>5, <1>13, SectionEnds
  <2>2. PICK c : c = Place(source, end) /\ c \in Nat /\ a <= c /\ c <= b /\ Place(source, end - 1) = c
    <3>1. end \in 1 .. N /\ end \in 0 .. N /\ to \in 0 .. N /\ end \in from .. N /\ end <= to
      BY <1>1, <1>3, <2>1
    <3>2. Place(source, end) \in Nat /\ Place(source, end) <= b
      BY <1>1, <1>5, <3>1, PlacesGrow
    <3>3. a <= Place(source, end)
      BY <1>1, <1>3, <1>5, <3>1, PlacesApart
    <3>4. Place(source, end) = Place(source, end - 1)
      <4> HIDE DEF Opens, Closes
      <4> QED
        BY <1>1, <2>1, <3>1, CountTokens
    <3> QED
      BY <3>2, <3>3, <3>4
  <2>3. code[a].jump = c + 1 /\ c + 1 \in a + 1 .. b + 1
    BY <1>5, <2>1, <2>2
  <2>4. next = end + 1 /\ next - 1 = end
    BY <1>3, <1>9, <1>13, <2>1 DEF After
  <2>5. Rest(code, run) = RunOf(source, after)
    <3>1. code[a].type \in Sections
      BY <1>7, <1>13 DEF Opens
    <3>2. Rest(code, run) = [run EXCEPT !.index = c + 1]
      BY <1>6, <2>3, <3>1 DEF Rest
    <3> QED
      BY <1>11, <1>12, <2>2, <2>4, <3>2
  <2>6. ASSUME NEW record
        PROVE  [index |-> a + 1, end |-> c + 1, scope |-> record] = RunOf(source, InsideOf(source, span, record))
    <3>1. PICK inside : /\ inside = InsideOf(source, span, record)
                        /\ inside = [from |-> from + 1, to |-> end - 1, scope |-> record]
      BY <1>2, <2>1 DEF InsideOf
    <3>2. inside.from = from + 1 /\ inside.to = end - 1 /\ inside.scope = record
      BY <3>1
    <3>3. (from + 1) - 1 = from
      BY <1>3
    <3> QED
      BY <1>5, <2>2, <3>1, <3>2, <3>3 DEF RunOf
  <2> QED
    BY <1>2, <1>4, <1>6, <1>7, <1>8, <1>9, <2>3, <2>5, <2>6
<1>14. CASE ~Opens(source, from)
  <2>1. next = from + 1 /\ next - 1 = from
    BY <1>3, <1>9, <1>14 DEF After
  <2>2. code[a].type \notin Sections
    BY <1>7, <1>14 DEF Opens
  <2>3. Rest(code, run) = [run EXCEPT !.index = a + 1]
    BY <1>4, <1>6, <2>2 DEF Rest
  <2>4. Rest(code, run) = RunOf(source, after)
    BY <1>5, <1>11, <1>12, <2>1, <2>3
  <2> QED
    BY <1>2, <1>4, <1>6, <1>7, <1>8, <1>9, <1>14, <2>4
<1> QED
  BY <1>13, <1>14

\* One output, and nothing after it.
LEMMA JoinedNothing == ASSUME NEW A, NEW output \in Outputs(A) PROVE Joined(Html(<<>>), output) = output
<1>1. CASE output = Failure
  BY <1>1 DEF Failure, Joined
<1>2. ASSUME NEW text \in Seq(A), output = Html(text) PROVE Joined(Html(<<>>), output) = output
  <2>1. output.ok /\ output.html = text /\ Html(<<>>).ok /\ Html(<<>>).html = <<>>
    BY <1>2 DEF Html
  <2>2. <<>> \o text = text
    OBVIOUS
  <2> QED
    BY <1>2, <2>1, <2>2 DEF Joined
<1> QED
  BY <1>1, <1>2 DEF Outputs

\* One output on its own.
LEMMA ConcatenatedOne == ASSUME NEW A, NEW output \in Outputs(A) PROVE Concatenated(<<output>>) = output
<1>1. PICK parts : parts = <<output>>
  OBVIOUS
<1>2. Len(parts) = 1 /\ parts[1] = output
  BY <1>1
<1>3. parts \in Seq(Outputs(A))
  <2>1. \A T : output \in T => <<output>> \in Seq(T)
    OBVIOUS
  <2> QED
    BY <1>1, <2>1
<1>4. PICK upTo \in [0 .. Len(parts) -> Outputs(A)] :
         /\ Concatenated(parts) = upTo[Len(parts)] /\ upTo[0] = Html(<<>>)
         /\ \A n \in 1 .. Len(parts) : upTo[n] = Joined(upTo[n - 1], parts[n])
  BY <1>3, ConcatenatedDefined
<1>5. 1 \in 1 .. 1 /\ 1 - 1 = 0
  OBVIOUS
<1>6. upTo[1] = Joined(upTo[0], output)
  BY <1>4, <1>5, <1>2
<1> QED
  BY <1>1, <1>4, <1>6, <1>2, JoinedNothing

-----------------------------------------------------------------------------
(* Stretches and the runs that render them come to the same text.          *)

\* Partials that mean what they render.
AlikeCalls(cx, partial, another) ==
    \A call \in Calls(cx) : view_path_valid(call.path) => partial[call] = another[call]

\* What is inside of the section of a run and of a stretch is rendered alike.
InsideAlike(cx, source, span, render, meaning) ==
    \A record \in Scopes(cx.data) :
       render[RunOf(source, InsideOf(source, span, record))] = meaning[InsideOf(source, span, record)]

\* A section is rendered to what it means.
LEMMA SectionAlike ==
    ASSUME NEW A, NEW cx, NEW source, NEW code, NEW body, NEW partial,
           Meaningful(A, cx, source, code, body, partial),
           NEW span \in Spans(cx, source), Balanced(source, span.from, span.to), span.from <= span.to,
           Opens(source, span.from), NEW render, NEW meaning \in [Spans(cx, source) -> Outputs(A)],
           InsideAlike(cx, source, span, render, meaning)
    PROVE  view_render_section(cx, code, RunOf(source, span), render)
              = SectionMeaning(cx, source, span, meaning)
<1>1. IsSource(source) /\ Compiled(source, code) /\ IsData(cx.data)
  BY DEF Meaningful
<1>2. PICK run, section : run = RunOf(source, span) /\ section = code[run.index]
  OBVIOUS
<1>3. /\ section.type = source[span.from].kind /\ section.value = source[span.from].name
      /\ section.jump \in run.index + 1 .. run.end
      /\ \A record : [index |-> run.index + 1, end |-> section.jump, scope |-> record]
                        = RunOf(source, InsideOf(source, span, record))
  BY <1>1, <1>2, RunOfStep
<1>4. run.scope = span.scope
  BY <1>1, <1>2, RunOfFields
<1>5. span.scope \in Scopes(cx.data)
  BY <1>1, SpanShorter
<1>6. PICK value : value = view_resolve(cx.data, section.value, span.scope)
  OBVIOUS
<1> DEFINE Of == IF value.type = "collection" /\ section.type = "#"
                 THEN Concatenated([k \in DOMAIN value.rows |->
                         render[[index |-> run.index + 1, end |-> section.jump, scope |-> value.rows[k]]]])
                 ELSE render[[index |-> run.index + 1, end |-> section.jump, scope |-> span.scope]]
<1>7. view_render_section(cx, code, run, render) =
         IF value.type = "unknown" THEN Failure
         ELSE IF view_truthy(value) = (section.type = "^") THEN Html(<<>>) ELSE Of
  <2>1. view_render_section(cx, code, run, render) =
           IF value.type = "unknown" \/ section.jump \notin run.index + 1 .. run.end THEN Failure
           ELSE IF view_truthy(value) = (section.type = "^") THEN Html(<<>>) ELSE Of
    BY <1>2, <1>4, <1>6 DEF view_render_section
  <2> HIDE DEF Of
  <2> QED
    BY <1>3, <2>1
<1>8. SectionMeaning(cx, source, span, meaning) =
         IF value.type = "unknown" THEN Failure
         ELSE IF view_truthy(value) = (section.type = "^") THEN Html(<<>>)
         ELSE Concatenated(Insides(cx, source, span, meaning))
  BY <1>3, <1>6, SectionInsides
<1>9. Of = Concatenated(Insides(cx, source, span, meaning))
  <2>1. PICK records : records = RecordsOf(cx, source, span) /\ records \in Seq(Scopes(cx.data))
    BY <1>1, <1>5, RecordsType
  <2>2. records = IF value.type = "collection" /\ section.type = "#" THEN value.rows ELSE <<span.scope>>
    BY <1>3, <1>6, <2>1 DEF RecordsOf
  <2>3. \A record \in Scopes(cx.data) :
           render[[index |-> run.index + 1, end |-> section.jump, scope |-> record]]
              = meaning[InsideOf(source, span, record)]
    BY <1>3 DEF InsideAlike
  <2>4. Insides(cx, source, span, meaning) = [k \in DOMAIN records |-> meaning[InsideOf(source, span, records[k])]]
    BY <2>1 DEF Insides
  <2>5. CASE value.type = "collection" /\ section.type = "#"
    <3>1. records = value.rows /\ \A k \in DOMAIN records : records[k] \in Scopes(cx.data)
      BY <2>1, <2>2, <2>5
    <3>2. [k \in DOMAIN value.rows |->
              render[[index |-> run.index + 1, end |-> section.jump, scope |-> value.rows[k]]]]
             = [k \in DOMAIN records |-> meaning[InsideOf(source, span, records[k])]]
      BY <2>3, <3>1
    <3> QED
      BY <2>4, <2>5, <3>2
  <2>6. CASE ~(value.type = "collection" /\ section.type = "#")
    <3>1. PICK output : output = meaning[InsideOf(source, span, span.scope)]
      OBVIOUS
    <3>2. output \in Outputs(A)
      <4>1. InsideOf(source, span, span.scope) \in Spans(cx, source)
        BY <1>1, <1>5, SpanShorter
      <4> QED
        BY <3>1, <4>1
    <3>3. records = <<span.scope>>
      BY <2>2, <2>6
    <3>4. [k \in DOMAIN records |-> meaning[InsideOf(source, span, records[k])]] = <<output>>
      <4>1. DOMAIN records = 1 .. 1 /\ \A k \in 1 .. 1 : records[k] = span.scope
        BY <3>3
      <4>2. <<output>> = [k \in 1 .. 1 |-> output]
        OBVIOUS
      <4>3. \A k \in 1 .. 1 : meaning[InsideOf(source, span, records[k])] = output
        BY <3>1, <4>1
      <4> QED
        BY <4>1, <4>2, <4>3
    <3>5. Concatenated(Insides(cx, source, span, meaning)) = output
      BY <2>4, <3>2, <3>4, ConcatenatedOne
    <3>6. Of = output
      BY <1>5, <2>3, <2>6, <3>1
    <3> HIDE DEF Of
    <3> QED
      BY <3>5, <3>6
  <2> QED
    BY <2>5, <2>6
<1> HIDE DEF Of
<1> QED
  BY <1>2, <1>7, <1>8, <1>9

\* An instruction is rendered to what its token means.
LEMMA TokenAlike ==
    ASSUME NEW A, NEW cx, NEW source, NEW code, NEW body, NEW partial, NEW another,
           Meaningful(A, cx, source, code, body, another), AlikeCalls(cx, partial, another),
           NEW span \in Spans(cx, source), Balanced(source, span.from, span.to), span.from <= span.to,
           NEW render, NEW meaning \in [Spans(cx, source) -> Outputs(A)],
           Opens(source, span.from) => InsideAlike(cx, source, span, render, meaning)
    PROVE  view_render_instruction(cx, code, body, partial, RunOf(source, span), render)
              = TokenMeaning(cx, source, body, another, span, meaning)
<1>1. IsSource(source) /\ Compiled(source, code) /\ IsData(cx.data)
  BY DEF Meaningful
<1>2. PICK run, part, token : run = RunOf(source, span) /\ part = code[run.index] /\ token = source[span.from]
  OBVIOUS
<1>3. part.type = token.kind /\ part.value = token.name /\ run.scope = span.scope
  <2>1. part.type = token.kind /\ part.value = token.name
    BY <1>1, <1>2, RunOfStep
  <2>2. run.scope = span.scope
    BY <1>1, <1>2, RunOfFields
  <2> QED
    BY <2>1, <2>2
<1>4. /\ span.scope \in Scopes(cx.data) /\ span.from \in 1 .. Len(source)
      /\ ~Closes(source, span.from)
  <2>1. span.scope \in Scopes(cx.data) /\ span.from \in 1 .. Len(source)
    BY <1>1, SpanShorter
  <2>2. ~Closes(source, span.from)
    BY <1>1, BalancedStep
  <2> QED
    BY <2>1, <2>2
<1>5. /\ token.kind \in TokenKinds /\ Proper(token)
      /\ token.kind = ">" => [path |-> token.name, scope |-> span.scope] \in Calls(cx)
  <2>1. Proper(token)
    BY <1>1, <1>2, <1>4 DEF Compiled
  <2> QED
    BY <1>2, <1>4, <2>1, TokenFields
<1>6. token.kind \in {"text", "var", "#", "^", ">", "yield"}
  BY <1>2, <1>4, <1>5 DEF TokenKinds, Proper, Closes
<1>7. CASE token.kind \in {"#", "^"}
  <2>1. Opens(source, span.from)
    BY <1>2, <1>7 DEF Opens, Sections
  <2>2. view_render_section(cx, code, run, render) = SectionMeaning(cx, source, span, meaning)
    BY <1>2, <2>1, SectionAlike
  <2>3. view_render_instruction(cx, code, body, partial, run, render) = view_render_section(cx, code, run, render)
    BY <1>2, <1>3, <1>7 DEF view_render_instruction
  <2>4. TokenMeaning(cx, source, body, another, span, meaning) = SectionMeaning(cx, source, span, meaning)
    BY <1>2, <1>7, <2>1 DEF TokenMeaning
  <2> QED
    BY <1>2, <2>2, <2>3, <2>4
<1>8. CASE token.kind = ">"
  <2>1. PICK call : call = [path |-> token.name, scope |-> span.scope] /\ call \in Calls(cx) /\ call.path = token.name
    BY <1>5, <1>8
  <2>2. view_path_valid(call.path)
    BY <1>5, <1>8, <2>1 DEF Proper
  <2>3. partial[call] = another[call]
    BY <2>1, <2>2 DEF AlikeCalls
  <2>4. view_render_instruction(cx, code, body, partial, run, render) = partial[call]
    BY <1>2, <1>3, <1>8, <2>1 DEF view_render_instruction
  <2>5. TokenMeaning(cx, source, body, another, span, meaning) = another[call]
    BY <1>2, <1>8, <2>1 DEF TokenMeaning, Opens, Sections
  <2> QED
    BY <1>2, <2>3, <2>4, <2>5
<1>9. CASE token.kind \in {"text", "var", "yield"}
  BY <1>2, <1>3, <1>9 DEF view_render_instruction, TokenMeaning, Opens, Sections
<1> QED
  BY <1>6, <1>7, <1>8, <1>9

\* A run is rendered to what its stretch means, if shorter ones are.
LEMMA SpanAlike ==
    ASSUME NEW A, NEW cx, NEW source, NEW code, NEW body, NEW partial, NEW another,
           Meaningful(A, cx, source, code, body, another), AlikeCalls(cx, partial, another),
           NEW span \in Spans(cx, source), Balanced(source, span.from, span.to),
           NEW render, NEW meaning \in [Spans(cx, source) -> Outputs(A)],
           \A y \in Spans(cx, source) : Balanced(source, y.from, y.to) /\ Ahead(source, y) < Ahead(source, span)
              => render[RunOf(source, y)] = meaning[y]
    PROVE  RunRendered(cx, code, body, partial, RunOf(source, span), render)
              = SpanMeaning(cx, source, body, another, span, meaning)
<1>1. IsSource(source) /\ Compiled(source, code)
  BY DEF Meaningful
<1>2. PICK run : run = RunOf(source, span)
  OBVIOUS
<1>3. span.from \in Int /\ span.to \in Int
  BY <1>1, SourceLength DEF Spans
<1>4. CASE span.from > span.to
  <2>1. run.index >= run.end
    BY <1>1, <1>2, <1>4, RunOfFields
  <2> QED
    BY <1>2, <1>4, <2>1 DEF RunRendered, SpanMeaning
<1>5. CASE span.from <= span.to
  <2>1. /\ run.index < run.end /\ Rest(code, run) = RunOf(source, AfterOf(source, span))
    BY <1>1, <1>2, <1>5, RunOfStep
  <2>2. ~(run.index >= run.end)
    <3>1. run.index \in Int /\ run.end \in Int
      BY <1>1, <1>2, RunOfFields
    <3> QED
      BY <2>1, <3>1
  <2>3. /\ Balanced(source, After(source, span.from), span.to)
        /\ Opens(source, span.from) => Balanced(source, span.from + 1, EndOf(source, span.from) - 1)
    BY <1>1, <1>5, BalancedStep
  <2>4. render[Rest(code, run)] = meaning[AfterOf(source, span)]
    <3>1. PICK after : after = AfterOf(source, span)
      OBVIOUS
    <3>2. /\ after \in Spans(cx, source) /\ Ahead(source, after) < Ahead(source, span)
          /\ after.from = After(source, span.from) /\ after.to = span.to
      BY <1>1, <1>5, <3>1, SpanShorter
    <3>3. render[RunOf(source, after)] = meaning[after]
      BY <2>3, <3>2
    <3> QED
      BY <2>1, <3>1, <3>3
  <2>5. ASSUME Opens(source, span.from) PROVE InsideAlike(cx, source, span, render, meaning)
    <3>1. ASSUME NEW record \in Scopes(cx.data)
          PROVE  render[RunOf(source, InsideOf(source, span, record))] = meaning[InsideOf(source, span, record)]
      <4>1. PICK inside : inside = InsideOf(source, span, record)
        OBVIOUS
      <4>2. inside \in Spans(cx, source) /\ Ahead(source, inside) < Ahead(source, span)
        BY <1>1, <1>5, <2>5, <4>1, SpanShorter
      <4>3. inside.from = span.from + 1 /\ inside.to = EndOf(source, span.from) - 1
        BY <4>1 DEF InsideOf
      <4>4. render[RunOf(source, inside)] = meaning[inside]
        BY <2>3, <2>5, <4>2, <4>3
      <4> QED
        BY <4>1, <4>4
    <3> QED
      BY <3>1 DEF InsideAlike
  <2>6. PICK here : /\ here = view_render_instruction(cx, code, body, partial, run, render)
                    /\ here = TokenMeaning(cx, source, body, another, span, meaning)
    BY <1>2, <1>5, <2>5, TokenAlike
  <2>7. RunRendered(cx, code, body, partial, run, render)
           = IF here.ok THEN Joined(here, meaning[AfterOf(source, span)]) ELSE Failure
    BY <2>2, <2>4, <2>6 DEF RunRendered
  <2>8. SpanMeaning(cx, source, body, another, span, meaning) = Joined(here, meaning[AfterOf(source, span)])
    <3>1. ~(span.from > span.to)
      BY <1>3, <1>5
    <3> QED
      BY <2>6, <3>1 DEF SpanMeaning, AfterOf
  <2> QED
    BY <1>2, <2>7, <2>8 DEF Joined
<1> QED
  BY <1>3, <1>4, <1>5

\* A program is rendered to what its source means.
LEMMA ProgramAlike ==
    ASSUME NEW A, NEW cx, NEW source, NEW code, NEW body, NEW partial, NEW another,
           Meaningful(A, cx, source, code, body, another), Printable(A, cx, code, body, partial),
           AlikeCalls(cx, partial, another), NEW scope \in Scopes(cx.data)
    PROVE  view_render_program(cx, code, body, partial)[Whole(code, scope)]
              = Meaning(cx, source, body, another)[[from |-> 1, to |-> Len(source), scope |-> scope]]
<1>1. IsSource(source) /\ Compiled(source, code)
  BY DEF Meaningful
<1>2. PICK N, D : N = Len(source) /\ D = Spans(cx, source) /\ N \in Nat
  BY <1>1, SourceLength
<1>3. PICK render \in [Runs(cx, code) -> Outputs(A)] :
         /\ view_render_program(cx, code, body, partial) = render
         /\ \A run \in Runs(cx, code) : render[run] = RunRendered(cx, code, body, partial, run, render)
  BY RenderDefined
<1>4. PICK meaning \in [Spans(cx, source) -> Outputs(A)] :
         /\ Meaning(cx, source, body, another) = meaning
         /\ \A span \in Spans(cx, source) : meaning[span] = SpanMeaning(cx, source, body, another, span, meaning)
  BY MeaningDefined
<1>5. PICK m \in [D -> 0 .. N] : \A span \in D : m[span] = Ahead(source, span)
  <2> DEFINE ahead == [span \in D |-> Ahead(source, span)]
  <2>1. \A span \in D : Ahead(source, span) \in 0 .. N
    <3>1. \A span \in D : span.from \in 1 .. N + 1
      BY <1>2 DEF Spans
    <3> QED
      BY <1>2, <3>1 DEF Ahead
  <2>2. ahead \in [D -> 0 .. N] /\ \A span \in D : ahead[span] = Ahead(source, span)
    BY <2>1
  <2> QED
    BY <2>2
<1> DEFINE S == {span \in D : Balanced(source, span.from, span.to) => render[RunOf(source, span)] = meaning[span]}
<1>6. ASSUME NEW x \in D, \A y \in D : m[y] < m[x] => y \in S PROVE x \in S
  <2> SUFFICES ASSUME Balanced(source, x.from, x.to) PROVE render[RunOf(source, x)] = meaning[x]
    OBVIOUS
  <2>1. \A y \in Spans(cx, source) : Balanced(source, y.from, y.to) /\ Ahead(source, y) < Ahead(source, x)
           => render[RunOf(source, y)] = meaning[y]
    BY <1>2, <1>5, <1>6
  <2>2. x \in Spans(cx, source)
    BY <1>2
  <2> HIDE DEF S
  <2>3. RunRendered(cx, code, body, partial, RunOf(source, x), render)
           = SpanMeaning(cx, source, body, another, x, meaning)
    BY <2>1, <2>2, SpanAlike
  <2>4. RunOf(source, x) \in Runs(cx, code)
    BY <1>1, <2>2, RunOfFields
  <2> QED
    BY <1>3, <1>4, <2>2, <2>3, <2>4
<1>7. D \subseteq S
  <2> HIDE DEF S
  <2> QED
    BY <1>2, <1>5, <1>6, MeasuredInduction
<1>8. PICK span : span = [from |-> 1, to |-> N, scope |-> scope]
  OBVIOUS
<1>9. span \in D /\ span.from = 1 /\ span.to = N /\ span.scope = scope
  <2>1. 1 \in 1 .. N + 1 /\ N \in 0 .. N
    BY <1>2
  <2> QED
    BY <1>2, <1>8, <2>1 DEF Spans
<1>10. Balanced(source, span.from, span.to)
  BY <1>1, <1>2, <1>9, BalancedWhole
<1>11. RunOf(source, span) = Whole(code, scope)
  <2>1. Place(source, 0) = 0 /\ Len(code) = Place(source, N)
    BY <1>1, <1>2, CountTokens DEF Compiled, Written
  <2>2. 1 - 1 = 0 /\ 0 + 1 = 1
    OBVIOUS
  <2> QED
    BY <1>9, <2>1, <2>2 DEF RunOf, Whole
<1>12. render[RunOf(source, span)] = meaning[span]
  BY <1>7, <1>9, <1>10
<1> QED
  BY <1>2, <1>3, <1>4, <1>8, <1>11, <1>12

-----------------------------------------------------------------------------
(* Views, by the sources that their names stand for.                       *)

\* A library whose programs were made of the sources it remembers.
IsLibrary(lib) ==
    /\ FilesPrint(STRING, lib.files) /\ FilesPrint(STRING, lib.read)
    /\ DOMAIN lib.bundle = {compiler_logical_name(p) : p \in DOMAIN lib.read}
    /\ \A p \in DOMAIN lib.read :
          /\ template_parse(lib.read[p]).ok
          /\ lib.bundle[compiler_logical_name(p)] = template_parse(lib.read[p]).code

\* The parser accepts what is well formed, and nothing else.
LEMMA ParsedIff ==
    ASSUME NEW source, IsSource(source)
    PROVE  /\ template_parse(source).ok <=> WellFormed(source)
           /\ template_parse(source).ok => Compiled(source, template_parse(source).code)
<1>1. ASSUME template_parse(source).ok
      PROVE  WellFormed(source) /\ Compiled(source, template_parse(source).code)
  <2>1. PICK code : code = template_parse(source).code /\ Compiled(source, code)
    BY <1>1, ParsedCompiled
  <2> QED
    BY <2>1, CompiledWellFormed
<1>2. WellFormed(source) => template_parse(source).ok
  BY WellFormedParsed
<1>3. ASSUME ~WellFormed(source) PROVE ~template_parse(source).ok
  BY <1>1, <1>3
<1> QED
  BY <1>1, <1>2, <1>3

\* The source that a name stands for.
Chosen(sources) == CHOOSE source \in sources : TRUE

\* It is one of them, and parses if any does.
LEMMA SourceOfName ==
    ASSUME NEW lib, IsLibrary(lib), NEW path, Sources(lib, path) # {}
    PROVE  /\ Chosen(Sources(lib, path)) \in Sources(lib, path)
           /\ IsSource(Chosen(Sources(lib, path)))
           /\ (\E source \in Sources(lib, path) : WellFormed(source)) => WellFormed(Chosen(Sources(lib, path)))
<1>1. PICK sources : sources = Sources(lib, path)
  OBVIOUS
<1>2. Chosen(sources) \in sources
  BY <1>1 DEF Chosen
<1>3. CASE FileOf(lib.files, path) \in DOMAIN lib.files
  <2>1. PICK source : sources = {source} /\ IsSource(source)
    BY <1>1, <1>3 DEF Sources, FileOf, IsLibrary, FilesPrint
  <2>2. Chosen(sources) = source
    BY <1>2, <2>1
  <2> QED
    BY <1>1, <1>2, <2>1, <2>2
<1>4. CASE FileOf(lib.files, path) \notin DOMAIN lib.files
  <2>1. sources = {lib.read[p] : p \in {q \in DOMAIN lib.read : compiler_logical_name(q) = path}}
    BY <1>1, <1>4 DEF Sources, FileOf
  <2>2. PICK p \in DOMAIN lib.read : Chosen(sources) = lib.read[p]
    BY <1>2, <2>1
  <2>3. IsSource(lib.read[p]) /\ template_parse(lib.read[p]).ok
    BY DEF IsLibrary, FilesPrint
  <2>4. WellFormed(lib.read[p])
    BY <2>3, ParsedIff
  <2> QED
    BY <1>1, <1>2, <2>2, <2>3, <2>4
<1> QED
  BY <1>3, <1>4

\* What is loaded under a name.
LEMMA LoadedSource ==
    ASSUME NEW lib, IsLibrary(lib), NEW path, view_path_valid(path)
    PROVE  /\ Sources(lib, path) = {} => view_load(lib, path) = Missing
           /\ Sources(lib, path) # {} =>
                 view_load(lib, path) = Loaded(template_parse(Chosen(Sources(lib, path))))
<1>1. PICK sources, file, view :
         /\ sources = Sources(lib, path) /\ file = view_load_filesystem(lib.files, path)
         /\ view = view_load(lib, path) /\ view = OrEmbedded(file, lib.bundle, path)
  BY DEF view_load
<1>2. sources # {} => Chosen(sources) \in sources
  BY DEF Chosen
<1>3. CASE FileOf(lib.files, path) \in DOMAIN lib.files
  <2>1. PICK source : source = lib.files[FileOf(lib.files, path)] /\ sources = {source}
    BY <1>1, <1>3 DEF Sources, FileOf
  <2>2. Chosen(sources) = source
    BY <1>2, <2>1
  <2>3. file = Loaded(template_parse(source))
    BY <1>1, <1>3, <2>1 DEF view_load_filesystem
  <2>4. file.result # "missing"
    BY <2>3 DEF Loaded, Found, LoadError
  <2>5. view = file
    BY <1>1, <2>4 DEF OrEmbedded
  <2> QED
    BY <1>1, <2>1, <2>2, <2>3, <2>5
<1>4. CASE FileOf(lib.files, path) \notin DOMAIN lib.files
  <2>1. sources = {lib.read[p] : p \in {q \in DOMAIN lib.read : compiler_logical_name(q) = path}}
    BY <1>1, <1>4 DEF Sources, FileOf
  <2>2. file = Missing /\ file.result = "missing"
    BY <1>1, <1>4 DEF view_load_filesystem, Missing
  <2>3. view = IF path \in DOMAIN lib.bundle THEN Found(lib.bundle[path]) ELSE Missing
    BY <1>1, <2>2 DEF OrEmbedded
  <2>4. sources = {} => path \notin DOMAIN lib.bundle
    BY <2>1 DEF IsLibrary
  <2>5. ASSUME sources # {} PROVE view = Loaded(template_parse(Chosen(sources)))
    <3>1. PICK p \in DOMAIN lib.read : compiler_logical_name(p) = path /\ Chosen(sources) = lib.read[p]
      BY <1>2, <2>1, <2>5
    <3>2. /\ template_parse(lib.read[p]).ok /\ path \in DOMAIN lib.bundle
          /\ lib.bundle[path] = template_parse(lib.read[p]).code
      BY <3>1 DEF IsLibrary
    <3> QED
      BY <2>3, <3>1, <3>2 DEF Loaded
  <2> QED
    BY <1>1, <2>3, <2>4, <2>5
<1> QED
  BY <1>3, <1>4

\* What partials, a body and a library have to be.
Sayable(cx, body, partial) ==
    IsLibrary(cx.lib) /\ IsData(cx.data) /\ body \in Seq(STRING) /\ PartialPrints(STRING, cx, partial)

\* A source that is well formed, with them.
LEMMA SayableSource ==
    ASSUME NEW cx, NEW body, NEW partial, Sayable(cx, body, partial),
           NEW source, IsSource(source), WellFormed(source), NEW code, code = template_parse(source).code
    PROVE  Meaningful(STRING, cx, source, code, body, partial) /\ Printable(STRING, cx, code, body, partial)
<1>1. IsData(cx.data) /\ DataPrints(STRING, cx.data) /\ SourcePrints(STRING, source)
  BY DataStrings, SourceStrings DEF Sayable
<1>2. Compiled(source, code)
  BY ParsedIff
<1>3. code \in Seq(Instructions(STRING))
  BY <1>1, ParsedPrints
<1> QED
  BY <1>1, <1>2, <1>3 DEF Meaningful, Printable, Sayable

\* The text from a source's beginning.
LEMMA SourceOutput ==
    ASSUME NEW cx, NEW body, NEW partial, Sayable(cx, body, partial), NEW path,
           NEW scope \in Scopes(cx.data)
    PROVE  SourceMeaning(cx, Sources(cx.lib, path), scope, body, partial) \in Outputs(STRING)
<1>1. PICK sources : sources = Sources(cx.lib, path)
  OBVIOUS
<1>2. CASE \A source \in sources : ~WellFormed(source)
  BY <1>1, <1>2 DEF SourceMeaning, Outputs
<1>3. CASE ~\A source \in sources : ~WellFormed(source)
  <2>1. PICK source : source = Chosen(sources) /\ IsSource(source) /\ WellFormed(source)
    BY <1>1, <1>3, SourceOfName DEF Sayable
  <2>2. PICK code : Meaningful(STRING, cx, source, code, body, partial)
    BY <2>1, SayableSource
  <2>3. PICK meaning \in [Spans(cx, source) -> Outputs(STRING)] : Meaning(cx, source, body, partial) = meaning
    BY <2>2, MeaningDefined
  <2>4. [from |-> 1, to |-> Len(source), scope |-> scope] \in Spans(cx, source)
    <3>1. PICK N : N = Len(source) /\ 1 \in 1 .. N + 1 /\ N \in 0 .. N
      BY <2>1, SourceLength
    <3> QED
      BY <3>1 DEF Spans
  <2>5. SourceMeaning(cx, sources, scope, body, partial)
           = meaning[[from |-> 1, to |-> Len(source), scope |-> scope]]
    BY <1>3, <2>1, <2>3 DEF SourceMeaning, Chosen
  <2> QED
    BY <1>1, <2>4, <2>5
<1> QED
  BY <1>2, <1>3

\* A view is rendered to what its source means.
LEMMA ViewAlike ==
    ASSUME NEW cx, NEW body, NEW partial, NEW another, Sayable(cx, body, partial), Sayable(cx, body, another),
           AlikeCalls(cx, partial, another), NEW path, view_path_valid(path), NEW scope \in Scopes(cx.data)
    PROVE  Rendered(cx, view_load(cx.lib, path), scope, body, partial)
              = SourceMeaning(cx, Sources(cx.lib, path), scope, body, another)
<1>1. PICK sources, view : sources = Sources(cx.lib, path) /\ view = view_load(cx.lib, path)
  OBVIOUS
<1>2. IsLibrary(cx.lib)
  BY DEF Sayable
<1>3. CASE sources = {}
  <2>1. view.result = "missing"
    <3>1. Sources(cx.lib, path) = {}
      BY <1>1, <1>3
    <3>2. view_load(cx.lib, path) = Missing
      BY <1>2, <3>1, LoadedSource
    <3> QED
      BY <1>1, <3>2 DEF Missing
  <2>2. \A source \in sources : ~WellFormed(source)
    BY <1>3
  <2>3. SourceMeaning(cx, sources, scope, body, another) = Failure
    BY <2>2 DEF SourceMeaning
  <2> QED
    BY <1>1, <2>1, <2>3 DEF Rendered
<1>4. CASE sources # {}
  <2>1. PICK source : /\ source = Chosen(sources) /\ source \in sources /\ IsSource(source)
                      /\ (\E s \in sources : WellFormed(s)) => WellFormed(source)
    BY <1>1, <1>2, <1>4, SourceOfName
  <2>2. PICK code : code = template_parse(source).code
    OBVIOUS
  <2>3. view = IF template_parse(source).ok THEN Found(code) ELSE LoadError
    BY <1>1, <1>2, <1>4, <2>1, <2>2, LoadedSource DEF Loaded
  <2>4. CASE ~WellFormed(source)
    <3>1. ~template_parse(source).ok
      BY <2>1, <2>4, ParsedIff
    <3>2. view.result = "error"
      BY <2>3, <3>1 DEF LoadError
    <3>3. \A s \in sources : ~WellFormed(s)
      BY <2>1, <2>4
    <3> QED
      BY <1>1, <3>2, <3>3 DEF Rendered, SourceMeaning
  <2>5. CASE WellFormed(source)
    <3>1. view.result = "found" /\ view.code = code
      <4>1. template_parse(source).ok
        BY <2>1, <2>5, ParsedIff
      <4> QED
        BY <2>3, <4>1 DEF Found
    <3>2. Rendered(cx, view, scope, body, partial)
             = view_render_program(cx, code, body, partial)[Whole(code, scope)]
      BY <3>1 DEF Rendered
    <3>3. SourceMeaning(cx, sources, scope, body, another)
             = Meaning(cx, source, body, another)[[from |-> 1, to |-> Len(source), scope |-> scope]]
      BY <2>1, <2>5 DEF SourceMeaning, Chosen
    <3>4. Meaningful(STRING, cx, source, code, body, another) /\ Printable(STRING, cx, code, body, partial)
      BY <2>1, <2>2, <2>5, SayableSource
    <3> QED
      BY <1>1, <3>2, <3>3, <3>4, ProgramAlike
  <2> QED
    BY <2>4, <2>5
<1> QED
  BY <1>3, <1>4

\* What partials mean, one level deeper each.
LEMMA PartialMeaningDefined ==
    ASSUME NEW cx, IsLibrary(cx.lib), IsData(cx.data)
    PROVE  \E nested \in [0 .. MaxNesting -> [Calls(cx) -> Outputs(STRING)]] :
              /\ PartialMeaning(cx) = nested
              /\ \A call \in Calls(cx) : nested[0][call] = Failure
              /\ \A n \in 1 .. MaxNesting : \A call \in Calls(cx) :
                    nested[n][call] =
                       SourceMeaning(cx, Sources(cx.lib, call.path), call.scope, NoBody, nested[n - 1])
<1>1. PICK N, E, V : N = MaxNesting /\ E = Calls(cx) /\ V = [E -> Outputs(STRING)]
  OBVIOUS
<1>2. N \in Nat
  BY <1>1, ViewAssumption, Zenon
<1> DEFINE Level(call, f) == SourceMeaning(cx, Sources(cx.lib, call.path), call.scope, NoBody, f)
           Deeper(f) == [call \in E |-> Level(call, f)]
           first == [call \in E |-> Failure]
<1>3. first \in V
  BY <1>1 DEF Outputs
<1>4. ASSUME NEW f \in V PROVE Deeper(f) \in V
  <2>1. ASSUME NEW call \in E PROVE Level(call, f) \in Outputs(STRING)
    <3>1. call.scope \in Scopes(cx.data)
      BY <1>1 DEF Calls
    <3>2. NoBody \in Seq(STRING) /\ PartialPrints(STRING, cx, f)
      BY <1>1, <1>4 DEF NoBody, PartialPrints
    <3>3. Sayable(cx, NoBody, f)
      BY <3>2 DEF Sayable
    <3> QED
      BY <3>1, <3>3, SourceOutput
  <2> HIDE DEF Level
  <2> QED
    BY <1>1, <2>1
<1> DEFINE IsNested(nested) ==
              nested = [n \in 0 .. N |-> [call \in E |-> IF n = 0 THEN Failure ELSE Level(call, nested[n - 1])]]
           IsBody(nested) == nested = [n \in 0 .. N |-> IF n = 0 THEN first ELSE Deeper(nested[n - 1])]
<1>5. PartialMeaning(cx) = CHOOSE nested : IsNested(nested)
  BY <1>1 DEF PartialMeaning, Calls
<1>6. \A call \in E : first[call] = Failure
  OBVIOUS
<1>7. \A f : \A call \in E : Deeper(f)[call]
                = SourceMeaning(cx, Sources(cx.lib, call.path), call.scope, NoBody, f)
  OBVIOUS
<1> HIDE DEF Level
<1>8. ASSUME NEW nested PROVE IsNested(nested) <=> IsBody(nested)
  <2> DEFINE body == [n \in 0 .. N |-> IF n = 0 THEN first ELSE Deeper(nested[n - 1])]
             flat == [n \in 0 .. N |-> [call \in E |-> IF n = 0 THEN Failure ELSE Level(call, nested[n - 1])]]
  <2>1. ASSUME NEW n \in 0 .. N PROVE body[n] = flat[n]
    <3>1. CASE n = 0
      BY <3>1
    <3>2. CASE n # 0
      BY <3>2
    <3> QED
      BY <3>1, <3>2
  <2>2. body = flat
    BY <2>1
  <2> QED
    BY <2>2
<1> HIDE DEF Deeper, first, IsNested
<1>9. \E nested : IsBody(nested)
  <2> DEFINE step == [n \in 1 .. N |-> [f \in V |-> Deeper(f)]]
  <2>1. step \in [1 .. N -> [V -> V]]
    BY <1>4
  <2>2. \A n \in 1 .. N : \A f \in V : step[n][f] = Deeper(f)
    OBVIOUS
  <2> HIDE DEF step
  <2>3. PICK base \in V : base = first
    BY <1>3
  <2>4. PICK g \in [0 .. N -> V] : Recursive(g, N, base, step)
    BY <1>2, <2>1, IntervalRecursion
  <2>5. \A n \in 1 .. N : g[n - 1] \in V
    BY <1>2
  <2>6. \A n \in 0 .. N : g[n] = IF n = 0 THEN first ELSE Deeper(g[n - 1])
    BY <1>2, <2>2, <2>3, <2>4, <2>5 DEF Recursive
  <2>7. g = [n \in 0 .. N |-> IF n = 0 THEN first ELSE Deeper(g[n - 1])]
    <3> DEFINE h == [n \in 0 .. N |-> IF n = 0 THEN first ELSE Deeper(g[n - 1])]
    <3>1. \A n \in 0 .. N : g[n] = h[n]
      BY <2>6
    <3> QED
      BY <2>4, <3>1
  <2> QED
    BY <2>7
<1>10. PICK nested : IsBody(nested) /\ PartialMeaning(cx) = nested
  <2>1. \E nested : IsNested(nested)
    BY <1>8, <1>9
  <2>2. IsNested(PartialMeaning(cx))
    BY <1>5, <2>1
  <2> QED
    BY <1>8, <2>2
<1>11. nested[0] = first /\ \A n \in 1 .. N : nested[n] = Deeper(nested[n - 1])
  <2>1. nested = [n \in 0 .. N |-> IF n = 0 THEN first ELSE Deeper(nested[n - 1])]
    BY <1>10
  <2>2. nested[0] = first
    BY <1>2, <2>1
  <2>3. ASSUME NEW n \in 1 .. N PROVE nested[n] = Deeper(nested[n - 1])
    <3>1. n \in 0 .. N /\ n # 0
      BY <1>2
    <3> QED
      BY <2>1, <3>1
  <2> QED
    BY <2>2, <2>3
<1>12. nested = [n \in 0 .. N |-> nested[n]]
  BY <1>10
<1> HIDE DEF IsBody
<1>13. nested \in [0 .. N -> V]
  <2>1. nested[0] \in V /\ \A n \in 1 .. N : nested[n - 1] \in V => nested[n] \in V
    BY <1>3, <1>4, <1>11
  <2> QED
    BY <1>2, <1>12, <2>1, RecursionType
<1>14. \A call \in E : nested[0][call] = Failure
  BY <1>6, <1>11
<1>15. \A n \in 1 .. N : \A call \in E : nested[n][call]
          = SourceMeaning(cx, Sources(cx.lib, call.path), call.scope, NoBody, nested[n - 1])
  BY <1>7, <1>11
<1> QED
  BY <1>1, <1>10, <1>13, <1>14, <1>15

\* Such a library prints strings.
LEMMA LibraryStrings == ASSUME NEW lib, IsLibrary(lib) PROVE LibraryPrints(STRING, lib)
<1>1. ASSUME NEW name \in DOMAIN lib.bundle PROVE lib.bundle[name] \in Seq(Instructions(STRING))
  <2>1. PICK p \in DOMAIN lib.read : name = compiler_logical_name(p)
    BY DEF IsLibrary
  <2>2. lib.bundle[name] = template_parse(lib.read[p]).code
    BY <2>1 DEF IsLibrary
  <2>3. IsSource(lib.read[p]) /\ SourcePrints(STRING, lib.read[p])
    BY DEF IsLibrary, FilesPrint
  <2> QED
    BY <2>2, <2>3, ParsedPrints
<1>2. FilesPrint(STRING, lib.files)
  BY DEF IsLibrary
<1> QED
  BY <1>1, <1>2, LibraryFound

\* Partials mean what they render, however deep.
LEMMA PartialsAlike ==
    ASSUME NEW cx, IsLibrary(cx.lib), IsData(cx.data)
    PROVE  LET partial == view_render_partial(cx)
               another == PartialMeaning(cx)[MaxNesting]
           IN  /\ AlikeCalls(cx, partial, another)
               /\ PartialPrints(STRING, cx, partial) /\ PartialPrints(STRING, cx, another)
<1>1. PICK N : N = MaxNesting
  OBVIOUS
<1>2. N \in Nat /\ N \in 0 .. N
  <2>1. N \in Nat
    BY <1>1, ViewAssumption, Zenon
  <2> QED
    BY <2>1
<1>3. ContextPrints(STRING, cx)
  BY LibraryStrings, DataStrings DEF ContextPrints
<1>4. PICK f \in [0 .. N -> [Calls(cx) -> Outputs(STRING)]] :
         /\ Nested(cx) = f
         /\ \A call \in Calls(cx) : f[0][call] = Failure
         /\ \A n \in 1 .. N : \A call \in Calls(cx) :
               f[n][call] = Rendered(cx, view_load(cx.lib, call.path), call.scope, NoBody, f[n - 1])
  BY <1>1, <1>3, NestedDefined
<1>5. PICK g \in [0 .. N -> [Calls(cx) -> Outputs(STRING)]] :
         /\ PartialMeaning(cx) = g
         /\ \A call \in Calls(cx) : g[0][call] = Failure
         /\ \A n \in 1 .. N : \A call \in Calls(cx) :
               g[n][call] = SourceMeaning(cx, Sources(cx.lib, call.path), call.scope, NoBody, g[n - 1])
  BY <1>1, PartialMeaningDefined
<1>6. \A n \in 0 .. N : PartialPrints(STRING, cx, f[n]) /\ PartialPrints(STRING, cx, g[n])
  BY DEF PartialPrints
<1> DEFINE S == {n \in 0 .. N : AlikeCalls(cx, f[n], g[n])}
<1>7. 0 \in S
  <2>1. AlikeCalls(cx, f[0], g[0])
    BY <1>4, <1>5 DEF AlikeCalls
  <2>2. 0 \in 0 .. N
    BY <1>2
  <2> QED
    BY <2>1, <2>2
<1>8. ASSUME NEW m \in 0 .. N - 1, m \in S PROVE m + 1 \in S
  <2>1. PICK n : n = m + 1 /\ n \in 1 .. N /\ n \in 0 .. N /\ n - 1 = m /\ m \in 0 .. N
    BY <1>2
  <2>2. AlikeCalls(cx, f[m], g[m])
    BY <1>8
  <2>3. ASSUME NEW call \in Calls(cx), view_path_valid(call.path) PROVE f[n][call] = g[n][call]
    <3>1. NoBody \in Seq(STRING)
      BY DEF NoBody
    <3>2. Sayable(cx, NoBody, f[m]) /\ Sayable(cx, NoBody, g[m])
      BY <1>6, <2>1, <3>1 DEF Sayable
    <3>3. PICK path, scope : path = call.path /\ scope = call.scope /\ scope \in Scopes(cx.data)
      BY DEF Calls
    <3>4. Rendered(cx, view_load(cx.lib, path), scope, NoBody, f[m])
             = SourceMeaning(cx, Sources(cx.lib, path), scope, NoBody, g[m])
      <4>1. PICK partial, another, body : partial = f[m] /\ another = g[m] /\ body = NoBody
        OBVIOUS
      <4>2. /\ Sayable(cx, body, partial) /\ Sayable(cx, body, another)
            /\ AlikeCalls(cx, partial, another) /\ view_path_valid(path)
        BY <2>2, <2>3, <3>2, <3>3, <4>1
      <4>3. Rendered(cx, view_load(cx.lib, path), scope, body, partial)
               = SourceMeaning(cx, Sources(cx.lib, path), scope, body, another)
        BY <3>3, <4>2, ViewAlike
      <4> QED
        BY <4>1, <4>3
    <3>5. f[n][call] = Rendered(cx, view_load(cx.lib, path), scope, NoBody, f[m])
      BY <1>4, <2>1, <3>3
    <3>6. g[n][call] = SourceMeaning(cx, Sources(cx.lib, path), scope, NoBody, g[m])
      BY <1>5, <2>1, <3>3
    <3> QED
      BY <3>4, <3>5, <3>6
  <2>4. AlikeCalls(cx, f[n], g[n])
    BY <2>3 DEF AlikeCalls
  <2> QED
    BY <2>1, <2>4
<1>9. 0 .. N \subseteq S
  <2> HIDE DEF S
  <2> QED
    BY <1>2, <1>7, <1>8, IntervalInduction
<1>10. AlikeCalls(cx, f[N], g[N])
  BY <1>2, <1>9
<1>11. view_render_partial(cx) = f[N] /\ PartialMeaning(cx)[MaxNesting] = g[N]
  BY <1>1, <1>4, <1>5 DEF view_render_partial
<1> QED
  BY <1>2, <1>6, <1>10, <1>11

\* A page says what is written.
LEMMA PageAlike ==
    ASSUME NEW cx, IsLibrary(cx.lib), IsData(cx.data), NEW path, view_path_valid(path), view_path_valid(Layout)
    PROVE  view_render_with_layout(cx, path) = PageMeaning(cx, path)
<1>1. PICK partial, another :
         /\ partial = view_render_partial(cx) /\ another = PartialMeaning(cx)[MaxNesting]
         /\ AlikeCalls(cx, partial, another)
         /\ PartialPrints(STRING, cx, partial) /\ PartialPrints(STRING, cx, another)
  BY PartialsAlike
<1>2. NoRecord \in Scopes(cx.data)
  BY DEF Scopes
<1>3. \A body \in Seq(STRING) : Sayable(cx, body, partial) /\ Sayable(cx, body, another)
  BY <1>1 DEF Sayable
<1>4. ASSUME NEW body \in Seq(STRING), NEW p, view_path_valid(p)
      PROVE  WholeView(cx, view_load(cx.lib, p), body)
                = SourceMeaning(cx, Sources(cx.lib, p), NoRecord, body, another)
  <2>1. Rendered(cx, view_load(cx.lib, p), NoRecord, body, partial)
           = SourceMeaning(cx, Sources(cx.lib, p), NoRecord, body, another)
    BY <1>1, <1>2, <1>3, <1>4, ViewAlike
  <2> QED
    BY <1>1, <2>1 DEF WholeView
<1>5. NoBody \in Seq(STRING)
  BY DEF NoBody
<1>6. PICK page : /\ page = WholeView(cx, view_load(cx.lib, path), NoBody)
                  /\ page = SourceMeaning(cx, Sources(cx.lib, path), NoRecord, NoBody, another)
  BY <1>4, <1>5
<1>7. page.html \in Seq(STRING)
  <2>1. page \in Outputs(STRING)
    BY <1>2, <1>3, <1>5, <1>6, SourceOutput
  <2> QED
    BY <2>1, OutputText
<1>8. WholeView(cx, view_load(cx.lib, Layout), page.html)
         = SourceMeaning(cx, Sources(cx.lib, Layout), NoRecord, page.html, another)
  BY <1>4, <1>7
<1>9. view_load(cx.lib, Layout).result = "missing" <=> Sources(cx.lib, Layout) = {}
  <2>1. PICK view, sources : view = view_load(cx.lib, Layout) /\ sources = Sources(cx.lib, Layout)
    OBVIOUS
  <2>2. sources = {} => view = Missing
    BY <2>1, LoadedSource
  <2>3. sources # {} => view = Loaded(template_parse(Chosen(sources)))
    BY <2>1, LoadedSource
  <2>4. Missing.result = "missing" /\ \A program : Loaded(program).result # "missing"
    BY DEF Missing, Loaded, Found, LoadError
  <2> QED
    BY <2>1, <2>2, <2>3, <2>4
<1>10. view_render_with_layout(cx, path)
          = IF ~page.ok \/ Sources(cx.lib, Layout) = {} THEN page
            ELSE SourceMeaning(cx, Sources(cx.lib, Layout), NoRecord, page.html, another)
  BY <1>6, <1>8, <1>9 DEF view_render_with_layout, InLayout
<1>11. PageMeaning(cx, path)
          = IF ~page.ok \/ Sources(cx.lib, Layout) = {} THEN page
            ELSE SourceMeaning(cx, Sources(cx.lib, Layout), NoRecord, page.html, another)
  BY <1>1, <1>6 DEF PageMeaning
<1> QED
  BY <1>10, <1>11

-----------------------------------------------------------------------------
(* The pages that are sent.                                                *)

\* What a request finds is such a library.
LEMMA LibraryKept == ASSUME ViewInv PROVE IsLibrary(Library)
<1>1. PICK lib : lib = Library
  OBVIOUS
<1>2. /\ lib.files = (IF installed THEN NoViews ELSE files)
      /\ lib.bundle = linked.views /\ lib.read = linked.read
  BY <1>1 DEF Library
<1>3. DOMAIN NoViews = {} /\ DOMAIN <<>> = {}
  BY DEF NoViews
<1>4. FilesPrint(STRING, lib.files)
  <2>1. FilesPrint(STRING, files)
    BY GatheredPrints DEF ViewInv
  <2>2. FilesPrint(STRING, NoViews)
    BY <1>3 DEF FilesPrint
  <2> QED
    BY <1>2, <2>1, <2>2
<1>5. CASE linked = NoBundle
  <2>1. DOMAIN lib.bundle = {} /\ DOMAIN lib.read = {}
    BY <1>2, <1>3, <1>5 DEF NoBundle
  <2> QED
    BY <1>1, <1>4, <2>1 DEF IsLibrary, FilesPrint
<1>6. CASE linked # NoBundle
  <2>1. PICK found : Gathered(found) /\ Acceptable(found) /\ linked = Bundle(found)
    BY <1>6 DEF ViewInv, FromFiles
  <2>2. lib.read = found /\ lib.bundle = Translated(found)
    BY <1>2, <2>1 DEF Bundle
  <2> DEFINE File(name) == CHOOSE p \in DOMAIN found : compiler_logical_name(p) = name
  <2>3. PICK views : views = Translated(found)
    OBVIOUS
  <2>4. views = [name \in {compiler_logical_name(p) : p \in DOMAIN found} |->
                    template_parse(found[File(name)]).code]
    BY <2>3 DEF Translated
  <2>5. DOMAIN views = {compiler_logical_name(p) : p \in DOMAIN found}
    BY <2>4
  <2>6. ASSUME NEW p \in DOMAIN found
        PROVE  /\ template_parse(found[p]).ok
               /\ views[compiler_logical_name(p)] = template_parse(found[p]).code
    <3>1. File(compiler_logical_name(p)) = p
      BY <2>1 DEF Acceptable, DistinctNames
    <3>2. views[compiler_logical_name(p)] = template_parse(found[File(compiler_logical_name(p))]).code
      BY <2>4
    <3> QED
      BY <2>1, <3>1, <3>2, FileNamed
  <2>7. FilesPrint(STRING, found)
    BY <2>1, GatheredPrints DEF Gathered
  <2> HIDE DEF File
  <2> QED
    BY <1>1, <1>4, <2>2, <2>3, <2>5, <2>6, <2>7 DEF IsLibrary
<1> QED
  BY <1>5, <1>6

\* Texts, flags and words are values.
LEMMA TextValue == ASSUME NEW text \in Seq(STRING) PROVE IsValue(view_string(text))
<1>1. PICK value : value = view_string(text)
  OBVIOUS
<1>2. value = [type |-> "string", text |-> text, rows |-> <<>>]
  BY <1>1 DEF view_string
<1>3. ToSet(value.rows) = {} /\ \A S : <<>> \in Seq(S)
  BY <1>2 DEF ToSet
<1> QED
  BY <1>1, <1>2, <1>3 DEF IsValue

\* A flag is one of the values above.
LEMMA FlagValue == ASSUME BlogAssumption, NEW flag PROVE IsValue(view_bool(flag))
BY QuietFlag DEF QuietValue

\* So are texts and flags in a record.
LEMMA FieldScalar ==
    ASSUME BlogAssumption, NEW text \in Seq(STRING), NEW flag
    PROVE  view_string(text) \in Scalars /\ view_bool(flag) \in Scalars
<1>1. view_string(text) \in Scalars
  BY DEF view_string, Scalars
<1>2. PICK word \in Words : <<word>> = IF flag THEN <<"true">> ELSE <<"false">>
  BY DEF Words
<1>3. <<word>> \in Seq(STRING)
  <2>1. word \in STRING
    BY WordsAsTheyAre DEF Quiet
  <2> QED
    BY <2>1
<1>4. view_bool(flag) = [type |-> "bool", text |-> <<word>>, rows |-> <<>>]
  BY <1>2 DEF view_bool
<1> QED
  BY <1>1, <1>3, <1>4 DEF Scalars

\* A record on its own, or as the only one of a collection.
LEMMA RecordValue ==
    ASSUME NEW record, IsRecord(record)
    PROVE  IsValue(view_model(record)) /\ IsValue(view_collection(<<record>>))
<1>1. PICK rows : rows = <<record>>
  OBVIOUS
<1>2. ToSet(rows) = {record}
  BY <1>1 DEF ToSet
<1>3. rows \in Seq(ToSet(rows))
  <2>1. \A T : record \in T => <<record>> \in Seq(T)
    OBVIOUS
  <2> QED
    BY <1>1, <1>2, <2>1
<1>4. <<>> \in Seq(STRING)
  OBVIOUS
<1>5. ASSUME NEW type \in {"model", "collection"}
      PROVE  IsValue([type |-> type, text |-> <<>>, rows |-> rows])
  <2>1. PICK value : value = [type |-> type, text |-> <<>>, rows |-> rows]
    OBVIOUS
  <2>2. value.rows = rows
    BY <2>1
  <2>3. value \in [type : {"string", "int64", "bool", "model", "collection"},
                    text : Seq(STRING), rows : Seq(ToSet(value.rows))]
    BY <1>3, <1>4, <2>1, <2>2
  <2>4. IsValue(value)
    BY <1>2, <2>2, <2>3 DEF IsValue
  <2> QED
    BY <2>1, <2>4
<1> QED
  BY <1>1, <1>5 DEF view_model, view_collection

\* Two sets of values.
LEMMA AndData == ASSUME NEW data, NEW more, IsData(data), IsData(more) PROVE IsData(And(data, more))
<1>1. PICK both : both = And(data, more)
  OBVIOUS
<1>2. \A name \in DOMAIN both :
         (name \in DOMAIN data /\ both[name] = data[name]) \/ (name \in DOMAIN more /\ both[name] = more[name])
  BY <1>1 DEF And
<1> QED
  BY <1>1, <1>2 DEF IsData

\* What the handlers of posts set.
LEMMA HandlerData ==
    ASSUME BlogAssumption, NEW q \in Query
    PROVE  IsData(Handler(q))
<1>1. q.post.content \in Contents \cup {Blank} /\ q.form.content \in Contents \cup {Blank}
  <2>1. q.post \in Row \cup {NoRow} /\ q.form \in Form \cup {NoForm}
    BY DEF Query
  <2> QED
    BY <2>1 DEF Row, NoRow, Form, NoForm
<1>2. \A content \in Contents \cup {Blank} : Text[content] \in Seq(STRING)
  BY DEF BlogAssumption
<1>3. PICK post, content, entered, yes, no, may, none :
         /\ post = post_view(q.post) /\ content = view_string(Text[q.post.content])
         /\ entered = view_string(Text[q.form.content]) /\ yes = view_bool(TRUE)
         /\ no = view_bool(FALSE) /\ may = view_bool(MayManage(q.viewer, q.post))
         /\ none = view_collection(<<>>)
  OBVIOUS
<1>4. IsValue(content) /\ IsValue(entered)
  BY <1>1, <1>2, <1>3, TextValue
<1>5. IsValue(yes) /\ IsValue(no) /\ IsValue(may) /\ IsValue(none) /\ IsValue(Nothing)
  BY <1>3, FlagValue, QuietNothing DEF QuietValue
<1>6. IsValue(post)
  <2>1. PICK record : record = [content |-> view_string(Text[q.post.content]),
                                published |-> view_bool(q.post.published)]
    OBVIOUS
  <2>2. IsRecord(record)
    <3>1. view_string(Text[q.post.content]) \in Scalars /\ view_bool(q.post.published) \in Scalars
      BY <1>1, <1>2, FieldScalar
    <3> QED
      BY <2>1, <3>1 DEF IsRecord
  <2> QED
    BY <1>3, <2>1, <2>2, RecordValue DEF post_view
<1>7. IsData(Errors)
  <2>1. <<"invalid">> \in Seq(STRING)
    <3>1. "invalid" \in Words
      BY DEF Words
    <3>2. PICK word : word = "invalid" /\ word \in STRING
      BY <3>1, WordsAsTheyAre DEF Quiet
    <3> QED
      BY <3>2
  <2>2. PICK record : record = [message |-> view_string(<<"invalid">>)]
    OBVIOUS
  <2>3. IsRecord(record)
    <3>1. PICK text : text = <<"invalid">>
      OBVIOUS
    <3>2. view_string(text) \in Scalars
      BY <2>1, <3>1, FieldScalar
    <3>3. PICK message : message = view_string(text)
      OBVIOUS
    <3>4. record = [message |-> message]
      BY <2>2, <3>1, <3>3
    <3>5. record = [field \in {"message"} |-> message] /\ DOMAIN record = {"message"}
      BY <3>4
    <3>6. record \in [{"message"} -> Scalars]
      BY <3>2, <3>3, <3>5
    <3> QED
      BY <3>5, <3>6 DEF IsRecord
  <2>4. PICK errors, message : errors = view_collection(<<record>>) /\ message = view_string(<<"invalid">>)
    OBVIOUS
  <2>5. IsValue(errors) /\ IsValue(message)
    BY <2>1, <2>3, <2>4, TextValue, RecordValue
  <2>6. Errors = [errors |-> errors, content_error |-> message]
    BY <2>2, <2>4 DEF Errors
  <2> QED
    BY <2>5, <2>6 DEF IsData
<1>8. CASE q.answer.view = "show"
  <2>1. Handler(q) = [post |-> post, comments |-> none, can_manage |-> may]
    BY <1>3, <1>8 DEF Handler
  <2> QED
    BY <1>5, <1>6, <2>1 DEF IsData
<1>9. CASE q.answer.view = "edit" /\ q.answer.status = "200"
  <2>1. Handler(q) = [post |-> post, editing |-> yes, content |-> content]
    BY <1>3, <1>9 DEF Handler
  <2> QED
    BY <1>4, <1>5, <1>6, <2>1 DEF IsData
<1>10. CASE q.answer.view = "edit" /\ q.answer.status # "200"
  <2>1. PICK more : more = [post |-> post, editing |-> yes, content |-> entered]
    OBVIOUS
  <2>2. Handler(q) = And(Errors, more)
    BY <1>3, <1>10, <2>1 DEF Handler
  <2>3. IsData(more)
    BY <1>4, <1>5, <1>6, <2>1 DEF IsData
  <2> QED
    BY <1>7, <2>2, <2>3, AndData
<1>11. CASE q.answer.view = "new" /\ q.answer.status = "200"
  <2>1. Handler(q) = [editing |-> no, content |-> Nothing]
    BY <1>3, <1>11 DEF Handler
  <2> QED
    BY <1>5, <2>1 DEF IsData
<1>12. CASE q.answer.view = "new" /\ q.answer.status # "200"
  <2>1. PICK more : more = [editing |-> no, content |-> entered]
    OBVIOUS
  <2>2. Handler(q) = And(Errors, more)
    BY <1>3, <1>12, <2>1 DEF Handler
  <2>3. IsData(more)
    BY <1>4, <1>5, <2>1 DEF IsData
  <2> QED
    BY <1>7, <2>2, <2>3, AndData
<1>13. CASE q.answer.view \notin {"show", "edit", "new"}
  <2>1. PICK nothing : nothing = <<>> /\ DOMAIN nothing = {}
    OBVIOUS
  <2>2. Handler(q) = nothing
    BY <1>13, <2>1 DEF Handler
  <2> QED
    BY <2>1, <2>2 DEF IsData
<1> QED
  BY <1>8, <1>9, <1>10, <1>11, <1>12, <1>13

\* What a page of posts is made of.
LEMMA PageData ==
    ASSUME BlogAssumption, NEW q \in Query
    PROVE  IsData(And(Handler(q), Prepared(q)))
<1>1. q.answer.view \in Words
  BY DEF Query, Answer, Words
<1>2. IsData(Prepared(q))
  BY <1>1, QuietPrepared DEF QuietData, QuietValue, IsData
<1> QED
  BY <1>2, HandlerData, AndData

-----------------------------------------------------------------------------
(* Which pages the requests of posts come to.                              *)

\* A page on its way is one of posts or an error page that there may be.
Routed(q) ==
    q.pc = "prepare" =>
       \/ q.answer.view \in {"show", "edit", "new"}
       \/ q.answer.view = "error" /\ q.answer.status \in {"403", "404", "500"}

RoutedInv == \A r \in Requests : Routed(req[r])

\* Its path is the name of a view.
LEMMA RoutedPath ==
    ASSUME BlogAssumption, NEW answer,
           \/ answer.view \in {"show", "edit", "new"}
           \/ answer.view = "error" /\ answer.status \in {"403", "404", "500"}
    PROVE  view_path_valid(ViewPath(answer))
<1>1. {"posts", "show", "edit", "new", "errors", "403", "404", "500"} \subseteq Segments
  BY DEF BlogAssumption
<1>2. PICK path : path = ViewPath(answer)
  OBVIOUS
<1>3. \E s \in Segments, t \in Segments : path = <<s, t>>
  BY <1>1, <1>2 DEF ViewPath
<1>4. path \in Seq(Segments) /\ path # <<>>
  BY <1>3
<1> QED
  BY <1>2, <1>4, PlainName

\* A request that is routed, and the others.
LEMMA OneRouted ==
    ASSUME IInv, RoutedInv, NEW r \in Requests, NEW q, Is(r, q), Routed(q)
    PROVE  RoutedInv'
<1>1. req'[r] = q /\ \A p \in Requests \ {r} : req'[p] = req[p]
  BY DEF Is, IInv, PostsTypeOK
<1> QED
  BY <1>1 DEF RoutedInv

\* To answer.
LEMMA AnswerRouted ==
    ASSUME NEW q \in Query, NEW status, NEW view
    PROVE  /\ Redirected(q, status).pc = "done" /\ Crashed(q).pc = "done" /\ LoggedOut(q) \in Query
           /\ LoggedOut(q).kind = q.kind
           /\ view \in {"show", "edit", "new"} \/ (view = "error" /\ status \in {"403", "404", "500"})
                 => Routed(Page(q, status, view))
           /\ Routed(Failed(q)) /\ Routed(Refused(q))
<1>1. LoggedOut(q) \in Query /\ LoggedOut(q).kind = q.kind
  <2>1. LoggedOut(q) \in Query
    BY EndsInv
  <2> QED
    BY <2>1 DEF LoggedOut, Query
<1>2. Redirected(q, status).pc = "done" /\ Crashed(q).pc = "done"
  BY AnswerPage DEF Redirected, Crashed, Query
<1>3. ASSUME NEW s, NEW v, v \in {"show", "edit", "new"} \/ (v = "error" /\ s \in {"403", "404", "500"})
      PROVE  Routed(Page(q, s, v))
  <2>1. PICK page : page = Page(q, s, v)
    OBVIOUS
  <2>2. page.answer.view = v /\ page.answer.status = s
    <3>1. PICK answer : answer = q.answer /\ answer \in Answer
      BY DEF Query
    <3>2. page.answer = [answer EXCEPT !.status = s, !.view = v]
      BY <2>1, <3>1 DEF Page, Query
    <3> QED
      BY <3>1, <3>2 DEF Answer
  <2> QED
    BY <1>3, <2>1, <2>2 DEF Routed
<1>4. Routed(Failed(q)) /\ Routed(Refused(q))
  BY <1>3 DEF Failed, Refused
<1> QED
  BY <1>1, <1>2, <1>3, <1>4

\* A step to anything but a page.
LEMMA OnwardRouted ==
    ASSUME IInv, RoutedInv, NEW r \in Requests, NEW q, Is(r, q), q.pc # "prepare"
    PROVE  RoutedInv'
BY OneRouted DEF Routed

\* The steps of a request before the page.
LEMMA EarlierRouted ==
    ASSUME IInv, RoutedInv, NEW r \in Requests, PostsStep(r)
    PROVE  RoutedInv'
<1>1. req[r] \in Query /\ LoggedOut(req[r]) \in Query
  BY OneQuery, AnswerRouted
<1>2. ASSUME NEW o \in {req[r], LoggedOut(req[r])}, NEW status,
             Is(r, Redirected(o, status)) \/ Is(r, Crashed(o))
                \/ Is(r, Failed(o)) \/ Is(r, Refused(o))
      PROVE  RoutedInv'
  <2>1. /\ Redirected(o, status).pc = "done" /\ Crashed(o).pc = "done"
        /\ Routed(Failed(o)) /\ Routed(Refused(o))
    BY <1>1, AnswerRouted
  <2>2. PICK q : q \in {Redirected(o, status), Crashed(o), Failed(o), Refused(o)} /\ Is(r, q)
    BY <1>2
  <2>3. Routed(q)
    BY <2>1, <2>2 DEF Routed
  <2> QED
    BY <2>2, <2>3, OneRouted
<1>3. ASSUME NEW status, NEW view \in {"show", "edit", "new"}, Is(r, Page(req[r], status, view))
      PROVE  RoutedInv'
  <2>1. PICK q : q = Page(req[r], status, view)
    OBVIOUS
  <2>2. Routed(q)
    BY <1>1, <2>1, AnswerRouted
  <2> QED
    BY <1>3, <2>1, <2>2, OneRouted
<1>4. ASSUME NEW pc, pc # "prepare", NEW id, Is(r, [req[r] EXCEPT !.pc = pc, !.id = id])
      PROVE  RoutedInv'
  <2>1. PICK q : q = [req[r] EXCEPT !.pc = pc, !.id = id]
    OBVIOUS
  <2>2. q.pc = pc
    BY <1>1, <2>1 DEF Query
  <2> QED
    BY <1>4, <2>1, <2>2, OnwardRouted
<1>5. \A pc : [req[r] EXCEPT !.pc = pc] = [req[r] EXCEPT !.pc = pc, !.id = req[r].id]
  BY <1>1 DEF Query
<1>6. ASSUME NEW pc, pc # "prepare", Goes(r, pc) PROVE RoutedInv'
  BY <1>4, <1>5, <1>6 DEF Goes
<1>7. CASE require_authenticated_user(r)
  BY <1>2, <1>3, <1>6, <1>7 DEF require_authenticated_user
<1>8. CASE blog_current_user(r)
  <2>1. PICK q : /\ Is(r, q)
                 /\ \E next \in {"load", "form"} :
                       \/ q = [req[r] EXCEPT !.pc = next, !.viewer = req[r].user]
                       \/ q = [LoggedOut(req[r]) EXCEPT !.pc = next]
    BY <1>8 DEF blog_current_user
  <2>2. q.pc \in {"load", "form"}
    BY <1>1, <2>1 DEF Query
  <2> QED
    BY <2>1, <2>2, OnwardRouted
<1>9. CASE post_find(r)
  <2>1. ASSUME NEW post, Is(r, Holding(req[r], post)) PROVE RoutedInv'
    <3>1. PICK q : q = Holding(req[r], post)
      OBVIOUS
    <3>2. q.pc \in {"author", "owner"}
      BY <1>1, <3>1 DEF Holding, Query
    <3> QED
      BY <2>1, <3>1, <3>2, OnwardRouted
  <2> QED
    BY <1>2, <1>9, <2>1 DEF post_find
<1>10. CASE load_owned_post(r)
  BY <1>2, <1>3, <1>6, <1>10 DEF load_owned_post
<1>11. CASE blog_render_post_show(r)
  BY <1>2, <1>3, <1>11 DEF blog_render_post_show
<1>12. CASE validate_post(r)
  <2>1. ASSUME NEW content, NEW clock, Submits(r, content, clock) PROVE RoutedInv'
    <3>1. CASE Is(r, Crashed(req[r]))
      BY <1>2, <3>1
    <3>2. ASSUME NEW post, Is(r, [req[r] EXCEPT !.pc = "write", !.post = post]) PROVE RoutedInv'
      <4>1. PICK q : q = [req[r] EXCEPT !.pc = "write", !.post = post]
        OBVIOUS
      <4>2. q.pc = "write"
        BY <1>1, <4>1 DEF Query
      <4> QED
        BY <3>2, <4>1, <4>2, OnwardRouted
    <3> QED
      BY <2>1, <3>1, <3>2 DEF Submits
  <2>2. ASSUME NEW view \in {"new", "edit"}, Is(r, Page(req[r], "422", view)) PROVE RoutedInv'
    BY <1>3, <2>2
  <2> QED
    BY <1>12, <2>1, <2>2 DEF validate_post
<1>13. CASE model_insert(r)
  BY <1>2, <1>4, <1>13 DEF model_insert
<1>14. CASE model_update(r)
  BY <1>2, <1>6, <1>14 DEF model_update
<1>15. CASE ModelReloads(r)
  BY <1>2, <1>15 DEF ModelReloads
<1>16. CASE model_destroy(r)
  BY <1>2, <1>16 DEF model_destroy
<1>17. CASE blog_prepare_view(r)
  <2>1. PICK q : /\ Is(r, q)
                 /\ \/ q = [req[r] EXCEPT !.pc = "done", !.answer.viewer = req[r].user]
                    \/ q = [LoggedOut(req[r]) EXCEPT !.pc = "done"]
    BY <1>17 DEF blog_prepare_view
  <2>2. q.pc = "done"
    BY <1>1, <2>1 DEF Query
  <2> QED
    BY <2>1, <2>2, OnwardRouted
<1>18. CASE Dies(r)
  BY <1>2, <1>18 DEF Dies
<1> QED
  BY <1>7, <1>8, <1>9, <1>10, <1>11, <1>12, <1>13, <1>14, <1>15, <1>16, <1>17, <1>18 DEF PostsStep

\* Every step of the requests.
LEMMA NextRouted == ASSUME IInv, RoutedInv, [PostsNext]_postsVars PROVE RoutedInv'
<1>1. CASE UNCHANGED postsVars
  BY <1>1 DEF postsVars, RoutedInv
<1>2. ASSUME NEW r \in Requests, Arrive(r) PROVE RoutedInv'
  <2>1. PICK kind, user, id, form : Begins(r, kind, user, id, form)
    BY <1>2 DEF Arrive
  <2>2. PICK q : q = [Fresh EXCEPT !.pc = IF kind = "show" THEN "viewer" ELSE "guard",
                                   !.kind = kind, !.by = user, !.user = user, !.id = id,
                                   !.form = form]
    OBVIOUS
  <2>3. q.pc \in {"viewer", "guard"}
    BY <2>2 DEF Fresh
  <2>4. Is(r, q)
    BY <2>1, <2>2 DEF Begins
  <2> QED
    BY <2>3, <2>4, OnwardRouted
<1>3. ASSUME NEW r \in Requests, ArriveElsewhere(r) PROVE RoutedInv'
  <2>1. req[r] \in Query
    BY OneQuery
  <2>2. PICK q : q = [req[r] EXCEPT !.pc = "done"]
    OBVIOUS
  <2>3. q.pc = "done"
    BY <2>1, <2>2 DEF Query
  <2> QED
    BY <1>3, <2>2, <2>3, OnwardRouted DEF ArriveElsewhere, Goes
<1> QED
  BY <1>1, <1>2, <1>3, EarlierRouted DEF PostsNext

-----------------------------------------------------------------------------
(* The step that sends a page.                                             *)

\* A page that says what its templates say, with the views of the moment.
AsWritten(page) ==
    page.response =
       Response(PageMeaning([lib |-> Library, data |-> page.data], page.path), page.status)

\* What is sent with a good path and good data is such a page.
LEMMA SentWritten ==
    ASSUME BlogAssumption, ViewInv, NEW data, IsData(data), NEW path, view_path_valid(path), NEW status
    PROVE  AsWritten(SentPage(data, path, status))
<1>1. view_path_valid(Layout)
  <2>1. Layout \in Seq(Segments) /\ Layout # <<>>
    <3>1. {"layouts", "application"} \subseteq Segments
      BY DEF BlogAssumption
    <3> QED
      BY <3>1 DEF Layout
  <2> QED
    BY <2>1, PlainName
<1>2. PICK cx : cx = [lib |-> Library, data |-> data]
  OBVIOUS
<1>3. cx.lib = Library /\ cx.data = data
  BY <1>2
<1>4. IsLibrary(cx.lib) /\ IsData(cx.data)
  BY <1>3, LibraryKept
<1>5. view_render_with_layout(cx, path) = PageMeaning(cx, path)
  BY <1>1, <1>4, PageAlike
<1>6. PICK page : page = SentPage(data, path, status)
  OBVIOUS
<1>7. PICK response : response = render_status(cx, path, status)
  OBVIOUS
<1>8. page = [data |-> data, path |-> path, status |-> status, response |-> response]
  BY <1>2, <1>6, <1>7 DEF SentPage
<1>9. page.data = data /\ page.path = path /\ page.status = status /\ page.response = response
  BY <1>8
<1>10. response = Response(PageMeaning(cx, path), status)
  BY <1>5, <1>7 DEF render_status
<1> QED
  BY <1>2, <1>6, <1>9, <1>10 DEF AsWritten

\* The page of posts_ that blog_prepare_view completes.
LEMMA PreparedWritten ==
    ASSUME BlogAssumption, ViewInv, IInv, IInv', RoutedInv, NEW r \in Requests, At(r, "prepare"),
           blog_prepare_view(r) \/ Dies(r), req'[r].answer # NoAnswer
    PROVE  AsWritten(SentPage(And(Handler(req'[r]), Prepared(req'[r])),
                            ViewPath(req'[r].answer), req'[r].answer.status))
<1>1. req[r] \in Query /\ Routed(req[r]) /\ req[r].pc = "prepare"
  BY OneQuery DEF RoutedInv, At
<1>2. PICK q : q = req'[r]
  OBVIOUS
<1>3. q \in Query
  BY <1>2 DEF IInv, PostsTypeOK
<1>4. \/ q = [req[r] EXCEPT !.pc = "done", !.answer.viewer = req[r].user]
      \/ q = [LoggedOut(req[r]) EXCEPT !.pc = "done"]
      \/ q = Crashed(req[r])
  BY <1>2 DEF blog_prepare_view, Dies, Is, IInv, PostsTypeOK
<1>5. PICK old : old = req[r].answer /\ old \in Answer
  BY <1>1 DEF Query
<1>6. q.answer.view = old.view /\ q.answer.status = old.status
  <2>1. CASE q = [req[r] EXCEPT !.pc = "done", !.answer.viewer = req[r].user]
    <3>1. q.answer = [old EXCEPT !.viewer = req[r].user]
      BY <1>1, <1>5, <2>1 DEF Query
    <3> QED
      BY <1>5, <3>1 DEF Answer
  <2>2. CASE q = [LoggedOut(req[r]) EXCEPT !.pc = "done"]
    BY <1>1, <1>5, <2>2 DEF LoggedOut, Query
  <2>3. CASE q = Crashed(req[r])
    <3>1. q.answer = NoAnswer
      BY <1>1, <2>3 DEF Crashed, Query
    <3> QED
      BY <1>2, <3>1
  <2> QED
    BY <1>4, <2>1, <2>2, <2>3
<1>7. PICK answer : answer = q.answer
  OBVIOUS
<1>8. \/ answer.view \in {"show", "edit", "new"}
      \/ answer.view = "error" /\ answer.status \in {"403", "404", "500"}
  BY <1>1, <1>5, <1>6, <1>7 DEF Routed
<1>9. view_path_valid(ViewPath(answer))
  BY <1>8, RoutedPath
<1>10. PICK data : data = And(Handler(q), Prepared(q)) /\ IsData(data)
  BY <1>3, PageData
<1>11. PICK path : path = ViewPath(answer) /\ view_path_valid(path)
  BY <1>9
<1>12. AsWritten(SentPage(data, path, answer.status))
  BY <1>10, <1>11, SentWritten
<1> QED
  BY <1>2, <1>7, <1>10, <1>11, <1>12

\* Whatever a step sends is such a page.
LEMMA NextWritten ==
    ASSUME BlogAssumption, ViewInv, IInv, IInv', RoutedInv, DOMAIN sent = Requests, [Next]_blogVars,
           NEW p \in Requests, sent'[p] # sent[p]
    PROVE  \E page : sent'[p] = page /\ AsWritten(page)
<1>1. ASSUME NEW r \in Requests, NEW page, sent' = [sent EXCEPT ![r] = page]
      PROVE  p = r /\ sent'[r] = page
  BY <1>1
<1>2. ASSUME NEW r \in Requests, BlogRequest(r) PROVE \E page : sent'[p] = page /\ AsWritten(page)
  <2>1. At(r, "prepare") /\ req'[r].answer # NoAnswer
    <3>1. ~(At(r, "prepare") /\ req'[r].answer # NoAnswer) => sent' = [sent EXCEPT ![r] = sent[r]]
      BY <1>2 DEF BlogRequest
    <3> QED
      BY <1>1, <3>1
  <2>2. PICK page : /\ sent' = [sent EXCEPT ![r] = page]
                    /\ page = SentPage(And(Handler(req'[r]), Prepared(req'[r])),
                                       ViewPath(req'[r].answer), req'[r].answer.status)
    BY <1>2, <2>1 DEF BlogRequest
  <2>3. blog_prepare_view(r) \/ Dies(r)
    BY <1>2, <2>1 DEF BlogRequest, PostsStep, At, require_authenticated_user, blog_current_user,
       post_find, load_owned_post, blog_render_post_show, validate_post, model_insert,
       model_update, ModelReloads, model_destroy
  <2>4. AsWritten(page)
    BY <2>1, <2>2, <2>3, PreparedWritten
  <2> QED
    BY <1>1, <2>2, <2>4
<1>3. ASSUME NEW r \in Requests, Visit(r) PROVE \E page : sent'[p] = page /\ AsWritten(page)
  <2>1. PICK path \in Visitable, data \in Contexts : sent' = [sent EXCEPT ![r] = SentPage(data, path, "200")]
    BY <1>3 DEF Visit
  <2>2. path # <<>> /\ path \in Seq(Segments) /\ IsData(data)
    BY BlogAssumption, Zenon DEF BlogAssumption
  <2>3. view_path_valid(path)
    BY <2>2, PlainName
  <2>4. PICK page : page = SentPage(data, path, "200")
    OBVIOUS
  <2>5. AsWritten(page)
    BY <2>2, <2>3, <2>4, SentWritten
  <2> QED
    BY <1>1, <2>1, <2>4, <2>5
<1>4. CASE sent' = sent
  BY <1>4
<1> QED
  BY <1>2, <1>3, <1>4 DEF Next, blogVars, BlogArrive

\* Every page says what its templates say: whatever sections and partials are
\* nested in each other, from files or compiled, and whichever request sends it
\* (template_parse's jumps, view_render_program, view_load).
THEOREM PagesAsWritten == Spec => PageAsWritten
<1>1. Init => RoutedInv
  BY DEF Init, PostsInit, RoutedInv, Routed, Fresh
<1>2. IInv /\ RoutedInv /\ [PostsNext]_postsVars => RoutedInv'
  BY NextRouted
<1>3. BlogAssumption /\ ViewInv /\ IInv /\ IInv' /\ RoutedInv /\ TypeOK /\ [Next]_blogVars
         => [\A r \in Requests :
               sent'[r] # sent[r] =>
                  sent'[r].response =
                     Response(PageMeaning([lib |-> Library, data |-> sent'[r].data], sent'[r].path),
                              sent'[r].status)]_blogVars
  <2> SUFFICES ASSUME BlogAssumption, ViewInv, IInv, IInv', RoutedInv, TypeOK, [Next]_blogVars,
                      NEW r \in Requests, sent'[r] # sent[r]
               PROVE  sent'[r].response =
                         Response(PageMeaning([lib |-> Library, data |-> sent'[r].data], sent'[r].path),
                                  sent'[r].status)
    OBVIOUS
  <2>1. PICK page : sent'[r] = page /\ AsWritten(page)
    BY NextWritten DEF TypeOK
  <2> QED
    BY <2>1 DEF AsWritten
<1>4. Spec => [][PostsNext]_postsVars
  BY BlogImplementsPosts, PTL DEF PostsSpec
<1> QED
  BY <1>1, <1>2, <1>3, <1>4, ViewInvariant, BlogTypes, BlogImplementsPosts, PostsInvariant,
     BlogAssumption, PTL DEF Spec, PageAsWritten
===============================================================================
